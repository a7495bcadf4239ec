--------------------------- MODULE RunOncePerKey ---------------------------
(***************************************************************************)
(* What a mobile client is promised when it sends the same chat message    *)
(* more than once under one key: the message has at most one owner, the    *)
(* command that runs the model for it.  The owner ends with a verdict, or  *)
(* gives the key back without one; only then, or once a verdict has been   *)
(* forgotten, may another command own the message.                         *)
(***************************************************************************)
CONSTANTS Command, Key, KeyOf, None

VARIABLES
  holder,   \* the command that owns each key, or None
  verdict   \* what each command came to: none, running, given or withdrawn

rvars == <<holder, verdict>>

RInit == holder = [k \in Key |-> None] /\ verdict = [c \in Command |-> "none"]

Rules(c, from, to) == verdict[c] = from /\ verdict' = [verdict EXCEPT ![c] = to]

\* Verdicts that are remembered no longer; one that is running always is.
Forget(K) == \A k \in K : holder[k] # None /\ verdict[holder[k]] = "given"

Without(K) == [k \in Key |-> IF k \in K THEN None ELSE holder[k]]

\* A command whose key nobody owns becomes its owner.
Own(c) ==
  \E K \in SUBSET Key :
    /\ Forget(K)
    /\ Without(K)[KeyOf[c]] = None
    /\ holder' = [Without(K) EXCEPT ![KeyOf[c]] = c]
    /\ Rules(c, "none", "running")

Decide(c) ==
  /\ \E K \in SUBSET Key :
       /\ \A k \in K : holder[k] # None /\ verdict'[holder[k]] = "given"
       /\ holder' = Without(K)
  /\ Rules(c, "running", "given")

Withdraw(c) ==
  /\ holder[KeyOf[c]] = c
  /\ holder' = [holder EXCEPT ![KeyOf[c]] = None]
  /\ Rules(c, "running", "withdrawn")

Lapse ==
  \E K \in SUBSET Key : Forget(K) /\ holder' = Without(K) /\ UNCHANGED verdict

\* The agent restarts.
Restart ==
  /\ holder' = [k \in Key |-> None]
  /\ verdict' = [c \in Command |-> IF verdict[c] = "running" THEN "withdrawn" ELSE verdict[c]]

RNext == Lapse \/ Restart \/ \E c \in Command : Own(c) \/ Decide(c) \/ Withdraw(c)

RSpec == RInit /\ [][RNext]_rvars
=============================================================================
