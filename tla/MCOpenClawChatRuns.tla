------------------------- MODULE MCOpenClawChatRuns -------------------------
(* Instances of OpenClawChatRuns: two or three commands in one session, the *)
(* third of which repeats the first.                                        *)
EXTENDS OpenClawChatRuns
CONSTANTS c1, c2, c3, k1, k2, s1

MCKeyOf == [c \in Command |-> IF c = c2 THEN k2 ELSE k1]
MCEndsOf == [c \in Command |-> IF c = c2 THEN {"bare", "fail"} ELSE {"final"}]
MCDeltasOf == [c \in Command |-> IF c = c1 THEN 2 ELSE 0]
MCSessionOf == [c \in Command |-> s1]
=============================================================================
