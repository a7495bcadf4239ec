-------------------------- MODULE MCSourceCommits --------------------------
(* Small instances of SourceCommits for TLC.                               *)
EXTENDS SourceCommits

CONSTANTS s1, s2

\* The first session has MaxRows rows, another one only competes for the gate.
MCRowsOf == [s \in Session |-> IF s = s1 THEN MaxRows ELSE 1]
MCNoEdits == [s \in Session |-> 0]
MCOneEdit == [s \in Session |-> IF s = s1 THEN 1 ELSE 0]
MCAllModes == SUBSET {EventAcks, Watermarks}
MCAcknowledged == {{EventAcks}}
============================================================================
