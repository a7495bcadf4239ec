------------------------- MODULE ReliableDelivery -------------------------
(***************************************************************************)
(* What the reliable outbox promises its callers, with no socket, queue,   *)
(* timer or file in sight.                                                 *)
(*                                                                         *)
(* A message is a key and a content.  Accepting it makes the Agent owe it; *)
(* the Agent may stop owing it only when Relay has it, or, on a Relay that *)
(* does not acknowledge, when its write has been confirmed.  At most one   *)
(* content is owed per key.                                                *)
(***************************************************************************)
CONSTANTS
  Key,      \* delivery keys ("event_ack:<id>", "response_ack:<id>:<phase>")
  Content,  \* message contents, told apart by their hash
  None      \* no content, not in Content

VARIABLES
  accepted,   \* every <<key, content>> ever accepted
  owed,       \* the content owed for a key, or None
  received,   \* every <<key, content>> that has reached Relay
  confirmed   \* every <<key, content>> written to a Relay without ACKs

dvars == <<accepted, owed, received, confirmed>>

DInit ==
  /\ accepted = {}
  /\ owed = [k \in Key |-> None]
  /\ received = {}
  /\ confirmed = {}

Accept(k, c) ==
  /\ owed[k] = None
  /\ owed' = [owed EXCEPT ![k] = c]
  /\ accepted' = accepted \cup {<<k, c>>}
  /\ UNCHANGED <<received, confirmed>>

\* Relay may receive a message any number of times, but only a real one.
Receive(k, c) ==
  /\ <<k, c>> \in accepted
  /\ received' = received \cup {<<k, c>>}
  /\ UNCHANGED <<accepted, owed, confirmed>>

Release(k) ==
  /\ <<k, owed[k]>> \in received
  /\ owed' = [owed EXCEPT ![k] = None]
  /\ UNCHANGED <<accepted, received, confirmed>>

\* The legacy contract: a confirmed write is all the Agent ever learns.
ReleaseConfirmed(k) ==
  /\ owed[k] # None
  /\ confirmed' = confirmed \cup {<<k, owed[k]>>}
  /\ owed' = [owed EXCEPT ![k] = None]
  /\ UNCHANGED <<accepted, received>>

DNext ==
  \E k \in Key :
    \/ \E c \in Content : Accept(k, c) \/ Receive(k, c)
    \/ Release(k)
    \/ ReleaseConfirmed(k)

DSpec == DInit /\ [][DNext]_dvars

\* Nothing accepted is lost: it is still owed, or Relay has it, or a Relay
\* without ACKs took its write.
NothingLost ==
  \A m \in accepted :
    m \in received \/ m \in confirmed \/ owed[m[1]] = m[2]
===========================================================================
