--------------------- MODULE MCLatestSnapshotCoalescer ---------------------
(* A small instance of LatestSnapshotCoalescer for TLC.                     *)
EXTENDS LatestSnapshotCoalescer

CONSTANTS tool, final

\* Every operation runs, and the last text settles (assistant-stream-coalescer.ts: the
\* retries of a snapshot are bounded).
EverythingSettles == OperationsRun /\ LastTextSettles
=============================================================================
