-------------------------- MODULE MCHermesChatRuns --------------------------
(* Small instances of HermesChatRuns for TLC.                              *)
EXTENDS HermesChatRuns

CONSTANTS c1, c2, c3, k1, k2, s1

MCTwoKeys == [c \in Command |-> IF c = c1 THEN k1 ELSE IF c = c2 THEN k2 ELSE None]
MCSameKey == [c \in Command |-> k1]
MCSessionOf == [c \in Command |-> s1]
MCContentOf == [c \in Command |-> "said"]
MCChanged == [c \in Command |-> IF c = c3 THEN "changed" ELSE "said"]

\* Every command gets an end: each run its turn, and each repeated command that of the run
\* it shares (chat-send-idempotency.ts, hermes-runtime-chat-queue.ts).
EveryCommandEnds == EveryRunEnds /\ RepeatsAreReleased
=============================================================================
