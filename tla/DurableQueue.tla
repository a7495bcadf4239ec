---------------------------- MODULE DurableQueue ----------------------------
(***************************************************************************)
(* What the store promises its owner, the outbox: a queue of keys that     *)
(* outlives the process and the machine.                                   *)
(*                                                                         *)
(* An operation that returns has taken effect for good; one that throws    *)
(* has had no effect, unless the store declares itself broken; one cut     *)
(* short by the death of the process has had its whole effect or none, and *)
(* until another one returns the machine may still forget it.              *)
(***************************************************************************)
EXTENDS Sequences, SequencesExt

CONSTANTS Key, NoOwner, NoOperation

VARIABLES
  stored,   \* the queue a restart of the process would load
  firm,     \* the queues a restart of the machine may load
  known,    \* the queue the owner believes is stored, or NoOwner
  pending,  \* the operation under way, or the one that broke the store
  broken    \* the store refuses to work until it is opened again

qvars == <<stored, firm, known, pending, broken>>

Effect(o, q) ==
  IF o.kind = "put" THEN Append(q, o.key) ELSE RemoveAt(q, CHOOSE i \in DOMAIN q : q[i] = o.key)

Operation(q) ==
  [kind : {"put"}, key : Key \ ToSet(q)] \cup [kind : {"remove"}, key : ToSet(q)]

QInit == stored = <<>> /\ firm = {<<>>} /\ known = NoOwner /\ pending = NoOperation /\ broken = FALSE

\* What may be loaded after a power loss is what may be loaded now, what the
\* step stores, or less.
FirmsUp == stored' \in firm' /\ firm' \subseteq firm \cup {stored'}

Open ==
  /\ known = NoOwner
  /\ known' = stored /\ FirmsUp
  /\ UNCHANGED <<stored, pending, broken>>

Begin ==
  /\ known # NoOwner /\ pending = NoOperation
  /\ \E o \in Operation(known) :
       /\ pending' = o
       /\ stored' \in {known, Effect(o, known)}
  /\ FirmsUp
  /\ UNCHANGED <<known, broken>>

\* Until it returns, the operation may take effect or be undone.
Waver ==
  /\ pending # NoOperation
  /\ stored' \in {known, Effect(pending, known)} /\ FirmsUp
  /\ UNCHANGED <<known, pending, broken>>

\* Nothing happens but that less is in doubt.
Confirm == FirmsUp /\ UNCHANGED <<stored, known, pending, broken>>

Return ==
  /\ pending # NoOperation /\ ~broken
  /\ stored' = Effect(pending, known) /\ firm' = {stored'}
  /\ known' = stored' /\ pending' = NoOperation
  /\ UNCHANGED broken

Throw ==
  /\ pending # NoOperation /\ ~broken
  /\ stored' = known /\ firm' = {stored'}
  /\ pending' = NoOperation
  /\ UNCHANGED <<known, broken>>

Break ==
  /\ pending # NoOperation
  /\ broken' = TRUE
  /\ stored' \in {known, Effect(pending, known)} /\ FirmsUp
  /\ UNCHANGED <<known, pending>>

Gone == known' = NoOwner /\ pending' = NoOperation /\ broken' = FALSE

\* The owner stops or dies.
Stop == known # NoOwner /\ Gone /\ UNCHANGED <<stored, firm>>

LosePower == Gone /\ stored' \in firm /\ firm' = {stored'}

QNext == Open \/ Begin \/ Waver \/ Confirm \/ Return \/ Throw \/ Break \/ Stop \/ LosePower

QSpec == QInit /\ [][QNext]_qvars
=============================================================================
