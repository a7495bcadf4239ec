----------------------- MODULE ReliableOutboxProofs -----------------------
(***************************************************************************)
(* Proofs about ReliableOutbox: the inductive invariant IInv, for any keys,*)
(* contents, limits, modes and any number of failures, as long as a        *)
(* ws.send callback does not outlive its socket.                           *)
(*                                                                         *)
(* A turn ends with EndTurn or with Flush.  Both are dealt with once, for  *)
(* any turn t (EndTurnKeeps, FlushKeeps); what is left for each action is  *)
(* that the turn it reaches before its flush satisfies TurnInv.            *)
(*                                                                         *)
(* QInv adds what the order of the queue and its timer need (OutInOrder,   *)
(* SocketsSeen, TimerArmed, OrderIsStore), on the same turns.              *)
(***************************************************************************)
EXTENDS ReliableOutbox, FiniteSetTheorems, WellFoundedInduction, TLAPS

ConnectionSet == [socket : Nat, deliveryMode : DeliveryModes \cup {None}]
SendingSet == [key : Key \cup {None}, socket : Nat, attempt : Nat]
WriteSet == [key : Key, socket : Nat, attempt : Nat, deliveryMode : DeliveryModes]

\* The turns with fields of the right types.
TurnSet ==
  [entries : [Key -> Entry], order : Seq(Key), connection : ConnectionSet,
   sending : SendingSet, ackTimer : BOOLEAN, writes : SUBSET WriteSet,
   sock : {"down", "open", "closing"}, faults : Nat]

\* The part of TypeOK that EndTurn and Flush decide.
OutboxTypeOK == Turn \in TurnSet

\* A turn taken apart, and an entry changed in place.
LEMMA TurnFields ==
  ASSUME NEW t \in TurnSet
  PROVE  /\ t.entries \in [Key -> Entry] /\ t.order \in Seq(Key)
         /\ t.connection \in ConnectionSet /\ t.sending \in SendingSet
         /\ t.ackTimer \in BOOLEAN /\ t.writes \in SUBSET WriteSet
         /\ t.sock \in {"down", "open", "closing"} /\ t.faults \in Nat
  BY DEF TurnSet

\* Counting an attempt changes that field of one entry only.
LEMMA AttemptUpdate ==
  ASSUME NEW e \in [Key -> Entry], NEW k \in Key, NEW x \in Nat
  PROVE  /\ [e EXCEPT ![k].attempt = x] \in [Key -> Entry]
         /\ \A j \in Key :
              /\ [e EXCEPT ![k].attempt = x][j].content = e[j].content
              /\ [e EXCEPT ![k].attempt = x][j].sentSocket = e[j].sentSocket
  BY DEF Entry

\* Marking an entry changes that field of one entry only.
LEMMA SentUpdate ==
  ASSUME NEW e \in [Key -> Entry], NEW k \in Key, NEW x \in Nat
  PROVE  /\ [e EXCEPT ![k].sentSocket = x] \in [Key -> Entry]
         /\ \A j \in Key :
              /\ [e EXCEPT ![k].sentSocket = x][j].content = e[j].content
              /\ [e EXCEPT ![k].sentSocket = x][j].attempt = e[j].attempt
  BY DEF Entry

\* Taking a key out of the order leaves a sequence of keys.
LEMMA WithoutType ==
  ASSUME NEW o \in Seq(Key), NEW k
  PROVE  Without(o, k) \in Seq(Key)
<1> DEFINE at == CHOOSE i \in DOMAIN o : o[i] = k
<1> HIDE DEF at
<1>1. Without(o, k) = [i \in 1..(Len(o) - 1) |-> IF i < at THEN o[i] ELSE o[i + 1]]
  BY DEF Without, at
<1>2. Len(o) \in Nat /\ \A i \in 1..(Len(o) - 1) : o[i] \in Key /\ o[i + 1] \in Key
  OBVIOUS
<1>3. CASE Len(o) = 0
  <2>1. 1..(Len(o) - 1) = 1..0
    BY <1>3, SMT
  <2>2. QED
    BY <1>1, <2>1, SMT
<1>4. CASE Len(o) # 0
  <2>1. Len(o) - 1 \in Nat
    BY <1>2, <1>4, SMT
  <2>2. \A i \in 1..(Len(o) - 1) : (IF i < at THEN o[i] ELSE o[i + 1]) \in Key
    BY <1>2
  <2>3. QED
    BY <1>1, <2>1, <2>2, SMT
<1>5. QED
  BY <1>3, <1>4

\* A turn that ends as t leaves the invariant as t has it.
LEMMA EndTurnKeeps ==
  ASSUME NEW t \in TurnSet, EndTurn(t),
         NEW n, NEW m, NEW w, NEW a, NEW g, TurnInv(t, n, m, w, a, g)
  PROVE  OutboxTypeOK' /\ TurnInv(Turn', n, m, w, a, g)
<1>1. Turn' = t
  BY DEF TurnSet, EndTurn, Turn
<1>2. OutboxTypeOK'
  BY <1>1 DEF OutboxTypeOK
<1>3. QED
  BY <1>1, <1>2

\* What giving the connection up changes.
LEMMA GiveUpEffect ==
  ASSUME NEW t \in TurnSet
  PROVE  LET u == GiveUpConnection(t) IN
         /\ u \in TurnSet
         /\ u.entries = t.entries /\ u.order = t.order /\ u.sending = t.sending
         /\ u.writes = t.writes /\ u.connection = NoConnection
         /\ u.sock = IF t.sock = "open" THEN "closing" ELSE t.sock
<1> DEFINE u == GiveUpConnection(t)
<1>1. NoConnection \in ConnectionSet
  BY DEF NoConnection, ConnectionSet
<1>2. /\ u.entries = t.entries /\ u.order = t.order /\ u.sending = t.sending
      /\ u.writes = t.writes /\ u.connection = NoConnection
      /\ u.sock = IF t.sock = "open" THEN "closing" ELSE t.sock
  BY DEF GiveUpConnection, TurnSet
<1> DEFINE s == IF t.sock = "open" THEN "closing" ELSE t.sock
           f == t.faults + 1
<1>3. u = [t EXCEPT !.connection = NoConnection, !.ackTimer = FALSE, !.sock = s, !.faults = f]
  BY DEF GiveUpConnection
<1>4. u \in TurnSet
  <2>1. s \in {"down", "open", "closing"} /\ f \in Nat
    BY TurnFields
  <2> HIDE DEF s, f, u
  <2>2. QED
    BY <1>1, <1>3, <2>1 DEF TurnSet
<1>5. QED
  BY <1>2, <1>4

\* The invariant does not mind a connection given up, nor what has not been
\* written being marked so.
LEMMA GivenUpKeeps ==
  ASSUME NEW t, NEW u, NEW n, NEW m, NEW w, NEW a, NEW g,
         TurnInv(t, n, m, w, a, g),
         \A j \in Key : u.entries[j].content = t.entries[j].content,
         a \subseteq Key,
         u.connection = NoConnection, u.sending = t.sending, u.writes = t.writes,
         u.sock = IF t.sock = "open" THEN "closing" ELSE t.sock
  PROVE  TurnInv(u, n, m, w, a, g)
<1>1. ConnectionIsLive(u, n, m)
  BY DEF TurnInv, ConnectionIsLive
<1>2. WriteIsSending(u, n, m)
  BY DEF TurnInv, WriteIsSending
<1>3. TrafficIsQueued(u, m, w, a, g)
  BY DEF TurnInv, TrafficIsQueued
<1>4. TrafficIsMarked(u, n, m, w, a)
  BY DEF TrafficIsMarked
<1>5. QED
  BY <1>1, <1>2, <1>3, <1>4 DEF TurnInv

\* What flush() preserves: the invariant holds after it with what it wrote.
FlushGoal(t, n, m, a, g) ==
  /\ OutboxTypeOK'
  /\ TurnInv(Turn', n, m, wire', a, g)
  /\ \A k \in Key : entries'[k].content = t.entries[k].content
  /\ wire' \subseteq wire \cup {<<k, t.entries[k].content>> : k \in Present(t.entries)}

\* flush() keeps the invariant of the turn, whichever way it goes.
LEMMA FlushKeeps ==
  ASSUME NEW t \in TurnSet, Flush(t),
         NEW n \in Nat, NEW m \in DeliveryModes \cup {None}, NEW a \in SUBSET Key, NEW g,
         TurnInv(t, n, m, wire, a, g)
  PROVE  FlushGoal(t, n, m, a, g)
<1>1. CASE EndTurn(t) /\ UNCHANGED wire
  <2>1. entries' = t.entries
    BY <1>1 DEF EndTurn
  <2>2. QED
    BY <1>1, <2>1, EndTurnKeeps DEF FlushGoal
<1>2. CASE EndTurn(ScheduleAckCheck(t)) /\ UNCHANGED wire
  <2> DEFINE u == ScheduleAckCheck(t)
  <2>1. /\ u.entries = t.entries /\ u.connection = t.connection /\ u.sending = t.sending
        /\ u.writes = t.writes /\ u.sock = t.sock
    BY DEF ScheduleAckCheck, TurnSet
  <2>2. u \in TurnSet
    BY DEF ScheduleAckCheck, TurnSet
  <2>3. TurnInv(u, n, m, wire, a, g)
    BY <2>1 DEF TurnInv, ConnectionIsLive, WriteIsSending, TrafficIsQueued, TrafficIsMarked
  <2>4. entries' = t.entries
    BY <1>2, <2>1 DEF EndTurn
  <2>5. QED
    BY <1>2, <2>2, <2>3, <2>4, EndTurnKeeps DEF FlushGoal
<1>3. ASSUME NEW k \in Key, CanWrite(t), First(t, k),
             EndTurn([t EXCEPT
               !.entries[k].attempt = t.entries[k].attempt + 1,
               !.sending = [key |-> k, socket |-> t.connection.socket,
                            attempt |-> t.entries[k].attempt + 1],
               !.writes = @ \cup {[key |-> k, socket |-> t.connection.socket,
                                   attempt |-> t.entries[k].attempt + 1,
                                   deliveryMode |-> t.connection.deliveryMode]}]),
             wire' = wire \cup {<<k, t.entries[k].content>>}
      PROVE  FlushGoal(t, n, m, a, g)
  <2> DEFINE u == [t EXCEPT
               !.entries[k].attempt = t.entries[k].attempt + 1,
               !.sending = [key |-> k, socket |-> t.connection.socket,
                            attempt |-> t.entries[k].attempt + 1],
               !.writes = @ \cup {[key |-> k, socket |-> t.connection.socket,
                                   attempt |-> t.entries[k].attempt + 1,
                                   deliveryMode |-> t.connection.deliveryMode]}]
  <2>1. /\ u.entries = [t.entries EXCEPT ![k].attempt = t.entries[k].attempt + 1]
        /\ u.connection = t.connection /\ u.sock = t.sock
        /\ u.sending = [key |-> k, socket |-> t.connection.socket,
                        attempt |-> t.entries[k].attempt + 1]
        /\ u.writes = t.writes \cup {[key |-> k, socket |-> t.connection.socket,
                                      attempt |-> t.entries[k].attempt + 1,
                                      deliveryMode |-> t.connection.deliveryMode]}
    BY DEF TurnSet
  <2>2. /\ t.connection # NoConnection /\ t.sending = NotSending
        /\ t.connection.socket = n /\ t.connection.deliveryMode = m /\ m # None /\ n > 0
    BY <1>3 DEF CanWrite, TurnInv, ConnectionIsLive
  <2>3. k \in Present(t.entries) /\ t.entries[k].sentSocket # n
    BY <1>3, <2>2 DEF First, Unsent
  <2>4. t.writes = {}
    BY <2>2, NoneIsNothing DEF TurnInv, WriteIsSending, NotSending
  <2>5. m = Acknowledged => ~OnTheWay(wire, a, k)
    BY <2>2, <2>3, NoneIsNothing DEF TurnInv, TrafficIsMarked, NotSending
  <2>6. u \in TurnSet
    <3>1. u.entries \in [Key -> Entry]
      <4>1. t.entries[k].attempt + 1 \in Nat
        BY TurnFields DEF Entry
      <4>2. QED
        BY <2>1, <4>1, TurnFields, AttemptUpdate
    <3>2. u.sending \in SendingSet /\ u.writes \in SUBSET WriteSet
      BY <2>1, <2>2 DEF TurnSet, Entry, SendingSet, WriteSet, ConnectionSet
    <3>3. u = [t EXCEPT !.entries = u.entries, !.sending = u.sending, !.writes = u.writes]
      BY <2>1
    <3>4. QED
      BY <3>1, <3>2, <3>3 DEF TurnSet
  <2>7. ConnectionIsLive(u, n, m)
    BY <2>1, <2>2 DEF TurnInv, ConnectionIsLive
  <2>8. WriteIsSending(u, n, m)
    BY <2>1, <2>2, <2>4, NoneIsNothing DEF WriteIsSending
  <2>9. \A j \in Key : /\ u.entries[j].content = t.entries[j].content
                       /\ u.entries[j].sentSocket = t.entries[j].sentSocket
    BY <2>1 DEF TurnSet, Entry
  <2>10. TrafficIsQueued(u, m, wire', a, g)
    BY <1>3, <2>2, <2>5, <2>9 DEF TurnInv, TrafficIsQueued, OnTheWay
  <2>11. TrafficIsMarked(u, n, m, wire', a)
    <3> SUFFICES ASSUME m = Acknowledged, NEW j \in Key, OnTheWay(wire', a, j)
                 PROVE  \/ u.entries[j].sentSocket = n
                        \/ u.sending.key = j /\ u.sending.attempt = u.entries[j].attempt
      BY DEF TrafficIsMarked
    <3>1. CASE j = k
      BY <2>1, <3>1 DEF TurnSet, Entry
    <3>2. CASE j # k
      <4>1. OnTheWay(wire, a, j)
        BY <1>3, <3>2 DEF OnTheWay
      <4>2. t.entries[j].sentSocket = n
        BY <4>1, <3>2, <2>2, NoneIsNothing DEF TurnInv, TrafficIsMarked, NotSending
      <4>3. QED
        BY <4>2, <2>9
    <3>3. QED
      BY <3>1, <3>2
  <2>12. TurnInv(u, n, m, wire', a, g)
    BY <2>7, <2>8, <2>10, <2>11 DEF TurnInv
  <2>13. entries' = u.entries
    BY <1>3 DEF EndTurn
  <2>14. OutboxTypeOK' /\ TurnInv(Turn', n, m, wire', a, g)
    BY <1>3, <2>6, <2>12, EndTurnKeeps
  <2>15. QED
    BY <1>3, <2>3, <2>9, <2>13, <2>14 DEF FlushGoal
<1>4. ASSUME NEW k \in Key, CanWrite(t),
             EndTurn(GiveUpConnection([t EXCEPT !.entries[k].attempt = @ + 1,
                                                !.entries[k].sentSocket = 0])),
             UNCHANGED wire
      PROVE  FlushGoal(t, n, m, a, g)
  <2> DEFINE v == [t EXCEPT !.entries[k].attempt = @ + 1, !.entries[k].sentSocket = 0]
             u == GiveUpConnection(v)
  <2>0. t.entries[k].attempt + 1 \in Nat
    BY TurnFields DEF Entry
  <2> DEFINE e == [t.entries EXCEPT ![k].attempt = t.entries[k].attempt + 1]
  <2>1. /\ v.entries = [e EXCEPT ![k].sentSocket = 0]
        /\ v.order = t.order /\ v.connection = t.connection /\ v.sending = t.sending
        /\ v.ackTimer = t.ackTimer /\ v.writes = t.writes /\ v.sock = t.sock
        /\ v.faults = t.faults
    BY DEF TurnSet
  <2>9. e \in [Key -> Entry] /\ \A j \in Key : e[j].content = t.entries[j].content
    BY <2>0, TurnFields, AttemptUpdate
  <2> HIDE DEF e
  <2>10. v.entries \in [Key -> Entry] /\ \A j \in Key : v.entries[j].content = e[j].content
    BY <2>1, <2>9, SentUpdate
  <2>2. v \in TurnSet
    <3>1. v.entries \in [Key -> Entry]
      BY <2>10
    <3>2. v = [t EXCEPT !.entries = v.entries]
      BY <2>1 DEF TurnSet
    <3>3. QED
      BY <3>1, <3>2 DEF TurnSet
  <2>3. /\ u.entries = v.entries /\ u.connection = NoConnection /\ u.sending = t.sending
        /\ u.writes = t.writes
        /\ u.sock = IF t.sock = "open" THEN "closing" ELSE t.sock
    BY <2>1, <2>2, GiveUpEffect
  <2>4. u \in TurnSet
    BY <2>2, GiveUpEffect
  <2>5. \A j \in Key : u.entries[j].content = t.entries[j].content
    BY <2>3, <2>9, <2>10
  <2> HIDE DEF u, v
  <2>6. TurnInv(u, n, m, wire, a, g)
    BY <2>3, <2>5, GivenUpKeeps
  <2>7. entries' = u.entries
    BY <1>4 DEF EndTurn, u, v
  <2>8. QED
    BY <1>4, <2>4, <2>5, <2>6, <2>7, EndTurnKeeps DEF FlushGoal, u, v
<1>5. QED
  BY <1>1, <1>2, <1>3, <1>4 DEF Flush

---------------------------------------------------------------------------
(* The invariant, taken apart and put together.                            *)

\* The part of TypeOK that is not in the turn.
RestTypeOK ==
  /\ up \in BOOLEAN
  /\ totalBytes \in Nat
  /\ disk \in [Key -> Content \cup {None}]
  /\ live \in Nat
  /\ relayMode \in DeliveryModes \cup {None}
  /\ acks \subseteq Key
  /\ accepted \subseteq Key \X Content
  /\ relayGot \subseteq Key \X Content
  /\ confirmed \subseteq Key \X Content

\* The type invariant: the turn's part, the rest, and the wire.
LEMMA TypeSplit ==
  /\ TypeOK <=> OutboxTypeOK /\ RestTypeOK /\ wire \subseteq Key \X Content
  /\ TypeOK' <=> OutboxTypeOK' /\ RestTypeOK' /\ wire' \subseteq Key \X Content
<1>1. OutboxTypeOK <=>
        /\ entries \in [Key -> Entry] /\ order \in Seq(Key)
        /\ connection \in ConnectionSet /\ sending \in SendingSet
        /\ ackTimer \in BOOLEAN /\ writes \in SUBSET WriteSet
        /\ sock \in {"down", "open", "closing"} /\ faults \in Nat
  BY DEF OutboxTypeOK, Turn, TurnSet
<1>2. OutboxTypeOK' <=>
        /\ entries' \in [Key -> Entry] /\ order' \in Seq(Key)
        /\ connection' \in ConnectionSet /\ sending' \in SendingSet
        /\ ackTimer' \in BOOLEAN /\ writes' \in SUBSET WriteSet
        /\ sock' \in {"down", "open", "closing"} /\ faults' \in Nat
  BY DEF OutboxTypeOK, Turn, TurnSet
<1>3. QED
  BY <1>1, <1>2 DEF TypeOK, RestTypeOK, ConnectionSet, SendingSet, WriteSet

\* The fields of Turn are the variables.
LEMMA TurnIs ==
  /\ Turn.entries = entries /\ Turn.order = order /\ Turn.connection = connection
  /\ Turn.sending = sending /\ Turn.ackTimer = ackTimer /\ Turn.writes = writes
  /\ Turn.sock = sock /\ Turn.faults = faults
  BY DEF Turn

\* Without a process there is no socket, no write, no ACK.
LEMMA AliveIfBusy ==
  ASSUME IInv
  PROVE  sock # "down" \/ writes # {} \/ acks # {} \/ connection # NoConnection => up
<1>1. ~up => sock = "down" /\ relayMode = None
  BY TurnIs DEF IInv, MemoryMirrorsStore, TurnInv, ConnectionIsLive
<1>2. ~up => writes = {} /\ connection = NoConnection /\ acks = {}
  BY <1>1, TurnIs DEF IInv, TurnInv, ConnectionIsLive, TrafficIsQueued
<1>3. up \in BOOLEAN
  BY DEF IInv, TypeOK
<1>4. QED
  BY <1>1, <1>2, <1>3

\* A turn that ends with a flush: what is left to show about it.
LEMMA AfterFlush ==
  ASSUME IInv, NEW t \in TurnSet, Flush(t), up', RestTypeOK',
         TurnInv(t, live', relayMode', wire, acks', relayGot'),
         \A k \in Key : t.entries[k].content = disk'[k],
         \A k \in Key : disk'[k] # None => <<k, disk'[k]>> \in accepted',
         accepted \subseteq accepted',
         NothingLost'
  PROVE  IInv'
<1>1. live' \in Nat /\ relayMode' \in DeliveryModes \cup {None} /\ acks' \in SUBSET Key
  BY DEF RestTypeOK
<1>2. FlushGoal(t, live', relayMode', acks', relayGot')
  BY <1>1, FlushKeeps
<1>3. MemoryMirrorsStore'
  BY <1>2 DEF FlushGoal, MemoryMirrorsStore
<1>4. wire' \subseteq accepted'
  BY <1>2 DEF FlushGoal, IInv, OnlyAccepted, Present
<1>5. TypeOK'
  BY <1>2, <1>4, TypeSplit DEF FlushGoal, RestTypeOK
<1>6. QED
  BY <1>2, <1>3, <1>4, <1>5 DEF FlushGoal, IInv, OnlyAccepted

\* A turn that ends without a flush and leaves memory, store and history alone.
LEMMA AfterEndTurn ==
  ASSUME IInv, NEW t \in TurnSet, EndTurn(t), up', RestTypeOK',
         TurnInv(t, live', relayMode', wire', acks', relayGot'),
         \A k \in Key : t.entries[k].content = entries[k].content,
         wire' \subseteq wire,
         up, UNCHANGED <<disk, accepted, confirmed>>, relayGot \subseteq relayGot'
  PROVE  IInv'
<1>1. OutboxTypeOK' /\ TurnInv(Turn', live', relayMode', wire', acks', relayGot')
  BY EndTurnKeeps
<1>2. MemoryMirrorsStore'
  BY DEF MemoryMirrorsStore, IInv, EndTurn
<1>3. OnlyAccepted'
  BY DEF OnlyAccepted, IInv
<1>4. NothingLost'
  BY DEF NothingLost, IInv
<1>5. TypeOK'
  BY <1>1, <1>3, TypeSplit DEF RestTypeOK, OnlyAccepted
<1>6. QED
  BY <1>1, <1>2, <1>3, <1>4, <1>5 DEF IInv

---------------------------------------------------------------------------
(* A second invariant, which the first one is needed for: the queue moves  *)
(* in order and its timer runs.  It is stated of a turn t too; n and m     *)
(* stand for live and relayMode.                                           *)

\* k has been written on the connection of t, or is being written on it.
Out(t, k) == t.entries[k].sentSocket = t.connection.socket
BeingWritten(t, k) == t.sending.key = k /\ t.sending.attempt = t.entries[k].attempt

\* Whoever awaits an ACK on this connection has the timer running.
TimerArmed(t) ==
  /\ t.connection.deliveryMode = Acknowledged
  /\ \E k \in Present(t.entries) : Out(t, k)
  => t.ackTimer

\* Entries are marked with sockets there have been, and never with one that
\* has not said hello.
SocketsSeen(t, n, m) ==
  \A k \in Key : /\ t.entries[k].sentSocket <= n
                 /\ t.sock # "down" /\ m = None => t.entries[k].sentSocket < n

\* What is out, or on its way out, has nothing before it that is not out.
OutInOrder(t) ==
  t.connection # NoConnection =>
    \A i, j \in DOMAIN t.order :
      i < j /\ (Out(t, t.order[j]) \/ BeingWritten(t, t.order[j])) => Out(t, t.order[i])

AttemptCounted(t) == t.sending # NotSending => t.sending.attempt > 0

QueueInv(t, n, m) ==
  /\ TimerArmed(t) /\ SocketsSeen(t, n, m) /\ OutInOrder(t) /\ AttemptCounted(t)

Distinct(o) == \A i, j \in DOMAIN o : o[i] = o[j] => i = j
Lists(o, k) == \E i \in DOMAIN o : o[i] = k

\* The order lists what is stored, each key once.
OrderIsStore ==
  /\ Distinct(order)
  /\ \A k \in Key : disk[k] # None <=> Lists(order, k)

QInv ==
  /\ IInv
  /\ QueueInv(Turn, live, relayMode)
  /\ OrderIsStore
  /\ NoStall

\* The step is a turn that ends with the flush of u.
Flushes(u) ==
  u \in TurnSet /\ Flush(u) /\ TurnInv(u, live', relayMode', wire, acks', relayGot')

---------------------------------------------------------------------------
(* The steps of a turn, one after the other.                               *)

\* TurnInv reads these fields only.
LEMMA SameKeeps ==
  ASSUME NEW t, NEW u, NEW n, NEW m, NEW w, NEW a, NEW g,
         TurnInv(t, n, m, w, a, g),
         u.entries = t.entries, u.connection = t.connection,
         u.sending = t.sending, u.writes = t.writes, u.sock = t.sock
  PROVE  TurnInv(u, n, m, w, a, g)
  BY DEF TurnInv, ConnectionIsLive, WriteIsSending, TrafficIsQueued, TrafficIsMarked

\* An ACK that is gone breaks nothing.
LEMMA FewerAcks ==
  ASSUME NEW t, NEW n, NEW m, NEW w, NEW a, NEW g, NEW b \in SUBSET a,
         TurnInv(t, n, m, w, a, g)
  PROVE  TurnInv(t, n, m, w, b, g)
<1>1. ConnectionIsLive(t, n, m) /\ WriteIsSending(t, n, m)
  BY DEF TurnInv
<1>2. TrafficIsQueued(t, m, w, b, g)
  BY DEF TurnInv, TrafficIsQueued
<1>3. TrafficIsMarked(t, n, m, w, b)
  BY DEF TurnInv, TrafficIsMarked, OnTheWay
<1>4. QED
  BY <1>1, <1>2, <1>3 DEF TurnInv

\* scheduleAckHealthCheck touches the timer only.
LEMMA ScheduleEffect ==
  ASSUME NEW t \in TurnSet
  PROVE  LET u == ScheduleAckCheck(t) IN
         /\ u \in TurnSet
         /\ u.entries = t.entries /\ u.order = t.order /\ u.connection = t.connection
         /\ u.sending = t.sending /\ u.writes = t.writes /\ u.sock = t.sock
         /\ TimerArmed(u)
<1> DEFINE u == ScheduleAckCheck(t)
           a == /\ t.connection.deliveryMode = Acknowledged
                /\ \E k \in Present(t.entries) : t.entries[k].sentSocket = t.connection.socket
<1>1. u = [t EXCEPT !.ackTimer = a] /\ a \in BOOLEAN
  BY DEF ScheduleAckCheck
<1> HIDE DEF a
<1>2. /\ u \in TurnSet
      /\ u.entries = t.entries /\ u.order = t.order /\ u.connection = t.connection
      /\ u.sending = t.sending /\ u.writes = t.writes /\ u.sock = t.sock
      /\ u.ackTimer = a
  BY <1>1 DEF TurnSet
<1> HIDE DEF u
<1>3. TimerArmed(u)
  BY <1>2 DEF TimerArmed, Out, a
<1>4. QED
  BY <1>2, <1>3 DEF u

\* The only outstanding write, once settled, leaves none.
LEMMA SettledEffect ==
  ASSUME NEW t \in TurnSet, NEW w, t.writes = {w},
         t.sending = [key |-> w.key, socket |-> w.socket, attempt |-> w.attempt]
  PROVE  LET u == Settled(t, w) IN
         /\ u \in TurnSet
         /\ u.entries = t.entries /\ u.order = t.order /\ u.connection = t.connection
         /\ u.sock = t.sock /\ u.sending = NotSending /\ u.writes = {}
<1> DEFINE u == Settled(t, w)
<1>1. /\ u.entries = t.entries /\ u.order = t.order /\ u.connection = t.connection
      /\ u.sock = t.sock /\ u.sending = NotSending /\ u.writes = {}
  BY DEF Settled, TurnSet
<1>2. NotSending \in SendingSet
  BY DEF NotSending, SendingSet
<1>3. u = [t EXCEPT !.sending = NotSending, !.writes = {}]
  BY DEF Settled, TurnSet
<1>4. u \in TurnSet
  BY <1>2, <1>3 DEF TurnSet
<1>5. QED
  BY <1>1, <1>4

\* remove() takes one entry away and touches no other.
LEMMA RemovedEffect ==
  ASSUME NEW t \in TurnSet, NEW k \in Key
  PROVE  LET u == Removed(t, k) IN
         /\ u \in TurnSet
         /\ u.connection = t.connection /\ u.sending = t.sending
         /\ u.writes = t.writes /\ u.sock = t.sock
         /\ u.entries = [t.entries EXCEPT ![k] = NoEntry]
         /\ u.order = Without(t.order, k)
         /\ TimerArmed(u)
<1> DEFINE v == [t EXCEPT !.entries[k] = NoEntry, !.order = Without(@, k)]
<1>1. NoEntry \in Entry
  BY DEF NoEntry, Entry
<1>2. t.entries \in [Key -> Entry] /\ Without(t.order, k) \in Seq(Key)
  BY TurnFields, WithoutType
<1>3. [t.entries EXCEPT ![k] = NoEntry] \in [Key -> Entry]
  BY <1>1, <1>2
<1>4. v \in TurnSet
  BY <1>2, <1>3 DEF TurnSet
<1>5. /\ v.connection = t.connection /\ v.sending = t.sending
      /\ v.writes = t.writes /\ v.sock = t.sock
      /\ v.entries = [t.entries EXCEPT ![k] = NoEntry]
      /\ v.order = Without(t.order, k)
  BY DEF TurnSet
<1> HIDE DEF v
<1>6. QED
  BY <1>4, <1>5, ScheduleEffect DEF Removed, v

\* Taking a message out of the store when Relay has it, or has confirmed it.
LEMMA ReleaseKeeps ==
  ASSUME IInv, NEW k \in Key,
         disk' = [disk EXCEPT ![k] = None],
         UNCHANGED accepted, relayGot \subseteq relayGot', confirmed \subseteq confirmed',
         <<k, disk[k]>> \in relayGot' \cup confirmed'
  PROVE  /\ NothingLost'
         /\ disk' \in [Key -> Content \cup {None}]
         /\ \A j \in Key : disk'[j] # None => <<j, disk'[j]>> \in accepted'
<1>1. disk \in [Key -> Content \cup {None}] /\ accepted \subseteq Key \X Content
  BY DEF IInv, TypeOK
<1>2. disk' \in [Key -> Content \cup {None}]
  BY <1>1
<1>3. \A j \in Key : j # k => disk'[j] = disk[j]
  BY <1>1
<1>4. disk'[k] = None
  BY <1>1
<1>5. ASSUME NEW q \in accepted
      PROVE  q \in relayGot' \/ q \in confirmed' \/ disk'[q[1]] = q[2]
  <2>1. q[1] \in Key /\ q[2] \in Content /\ q = <<q[1], q[2]>>
    BY <1>1
  <2>2. q \in relayGot \/ q \in confirmed \/ disk[q[1]] = q[2]
    BY DEF IInv, NothingLost
  <2>3. CASE q[1] = k
    BY <2>1, <2>2, <2>3
  <2>4. CASE q[1] # k
    BY <2>1, <2>2, <2>4, <1>3
  <2>5. QED
    BY <2>3, <2>4
<1>6. NothingLost'
  BY <1>5 DEF NothingLost
<1>7. \A j \in Key : disk'[j] # None => <<j, disk'[j]>> \in accepted'
  BY <1>3, <1>4 DEF IInv, OnlyAccepted
<1>8. QED
  BY <1>2, <1>6, <1>7

\* Storing a new message under a free key.
LEMMA PutKeeps ==
  ASSUME IInv, NEW k \in Key, NEW c \in Content, disk[k] = None,
         disk' = [disk EXCEPT ![k] = c],
         accepted' = accepted \cup {<<k, c>>}, UNCHANGED <<relayGot, confirmed>>
  PROVE  /\ NothingLost'
         /\ disk' \in [Key -> Content \cup {None}]
         /\ \A j \in Key : disk'[j] # None => <<j, disk'[j]>> \in accepted'
         /\ accepted' \subseteq Key \X Content
<1>1. disk \in [Key -> Content \cup {None}] /\ accepted \subseteq Key \X Content
  BY DEF IInv, TypeOK
<1>2. disk' \in [Key -> Content \cup {None}] /\ accepted' \subseteq Key \X Content
  BY <1>1
<1>3. (\A j \in Key : j # k => disk'[j] = disk[j]) /\ disk'[k] = c
  BY <1>1
<1>4. ASSUME NEW q \in accepted
      PROVE  q \in relayGot' \/ q \in confirmed' \/ disk'[q[1]] = q[2]
  <2>1. q[1] \in Key /\ q[2] \in Content
    BY <1>1
  <2>2. q \in relayGot \/ q \in confirmed \/ disk[q[1]] = q[2]
    BY DEF IInv, NothingLost
  <2>3. QED
    BY <2>1, <2>2, <1>3, NoneIsNothing
<1>5. NothingLost'
  BY <1>3, <1>4 DEF NothingLost
<1>6. \A j \in Key : disk'[j] # None => <<j, disk'[j]>> \in accepted'
  BY <1>3 DEF IInv, OnlyAccepted
<1>7. QED
  BY <1>2, <1>5, <1>6

---------------------------------------------------------------------------
(* One lemma per action.                                                   *)

\* What the invariant says, in the form the action lemmas use.
LEMMA Facts ==
  ASSUME IInv
  PROVE  /\ Turn \in TurnSet /\ RestTypeOK /\ wire \subseteq Key \X Content
         /\ entries \in [Key -> Entry]
         /\ TurnInv(Turn, live, relayMode, wire, acks, relayGot)
<1>1. TypeOK /\ TurnInv(Turn, live, relayMode, wire, acks, relayGot)
  BY DEF IInv
<1>2. QED
  BY <1>1, TypeSplit DEF OutboxTypeOK, TypeOK

\* The invariant holds of a new outbox.
LEMMA InitIInv ==
  ASSUME Init
  PROVE  IInv
<1>1. TypeOK
  <2>1. entries \in [Key -> Entry]
    BY DEF Init, Entry, NoEntry
  <2>2. /\ connection \in [socket : Nat, deliveryMode : DeliveryModes \cup {None}]
        /\ sending \in [key : Key \cup {None}, socket : Nat, attempt : Nat]
    BY DEF Init, NoConnection, NotSending
  <2>3. order \in Seq(Key) /\ disk \in [Key -> Content \cup {None}]
    BY DEF Init
  <2>4. QED
    BY <2>1, <2>2, <2>3 DEF Init, TypeOK
<1>2. TurnInv(Turn, live, relayMode, wire, acks, relayGot)
  BY TurnIs DEF Init, TurnInv, ConnectionIsLive, WriteIsSending, TrafficIsQueued,
                TrafficIsMarked, OnTheWay
<1>3. MemoryMirrorsStore /\ OnlyAccepted /\ NothingLost
  BY DEF Init, MemoryMirrorsStore, OnlyAccepted, NothingLost, NoEntry
<1>4. QED
  BY <1>1, <1>2, <1>3 DEF IInv

\* enqueue(): the new message is under a key that nothing is about.
LEMMA EnqueueKeeps ==
  ASSUME IInv, NEW k \in Key, NEW c \in Content, Enqueue(k, c)
  PROVE  /\ IInv'
         /\ \E u : /\ Flushes(u)
                   /\ u.entries = [entries EXCEPT ![k] = NewEntry(c)]
                   /\ u.order = Append(order, k)
                   /\ u.connection = connection /\ u.sending = sending
                   /\ u.ackTimer = ackTimer /\ u.sock = sock
<1> DEFINE e == [entries EXCEPT ![k] = NewEntry(c)]
           o == Append(order, k)
           t == [Turn EXCEPT !.entries = e, !.order = o]
<1>1. /\ up /\ entries[k].content = None
      /\ disk' = [disk EXCEPT ![k] = c]
      /\ totalBytes' = totalBytes + ByteLength[c]
      /\ accepted' = accepted \cup {<<k, c>>}
      /\ UNCHANGED <<up, live, relayMode, acks, relayGot, confirmed>>
  BY DEF Enqueue, IsNew
<1>2. Flush(t)
  <2>1. t = [Turn EXCEPT !.entries[k] = NewEntry(c), !.order = Append(@, k)]
    BY DEF Turn
  <2>2. QED
    BY <2>1 DEF Enqueue, IsNew
<1>3. Turn \in TurnSet /\ RestTypeOK /\ entries \in [Key -> Entry] /\ order \in Seq(Key)
  BY Facts, TurnFields, TurnIs
<1>4. e \in [Key -> Entry] /\ o \in Seq(Key)
  BY <1>3 DEF NewEntry, Entry
<1>5. /\ t.entries = e /\ t.connection = connection /\ t.sending = sending
      /\ t.writes = writes /\ t.sock = sock /\ t.order = o /\ t.ackTimer = ackTimer
  BY DEF Turn
<1>6. t \in TurnSet
  BY <1>3, <1>4 DEF TurnSet
<1>7. e[k].content = c /\ \A j \in Key : j # k => e[j] = entries[j]
  BY <1>3 DEF NewEntry
<1>8. TurnInv(t, live, relayMode, wire, acks, relayGot)
  <2>1. TurnInv(Turn, live, relayMode, wire, acks, relayGot)
    BY Facts
  <2>2. ConnectionIsLive(t, live, relayMode) /\ WriteIsSending(t, live, relayMode)
    BY <2>1, <1>5, TurnIs DEF TurnInv, ConnectionIsLive, WriteIsSending
  <2>3. relayMode = Acknowledged => ~OnTheWay(wire, acks, k)
    BY <2>1, <1>1, TurnIs, NoneIsNothing DEF TurnInv, TrafficIsQueued, OnTheWay
  <2> HIDE DEF e, t
  <2>4. TrafficIsQueued(t, relayMode, wire, acks, relayGot)
    <3>1. acks \subseteq Key
      BY <1>3 DEF RestTypeOK
    <3>2. QED
      BY <2>1, <2>3, <3>1, <1>5, <1>7, TurnIs DEF TurnInv, TrafficIsQueued, OnTheWay
  <2>5. TrafficIsMarked(t, live, relayMode, wire, acks)
    BY <2>1, <2>3, <1>5, <1>7, TurnIs DEF TurnInv, TrafficIsMarked
  <2>6. QED
    BY <2>2, <2>4, <2>5 DEF TurnInv
<1>9. disk[k] = None /\ \A j \in Key : entries[j].content = disk[j]
  BY <1>1 DEF IInv, MemoryMirrorsStore
<1>10. /\ NothingLost'
       /\ disk' \in [Key -> Content \cup {None}]
       /\ \A j \in Key : disk'[j] # None => <<j, disk'[j]>> \in accepted'
       /\ accepted' \subseteq Key \X Content
  BY <1>1, <1>9, PutKeeps
<1>11. \A j \in Key : t.entries[j].content = disk'[j]
  <2>1. disk \in [Key -> Content \cup {None}]
    BY <1>3 DEF RestTypeOK
  <2>2. QED
    BY <2>1, <1>1, <1>5, <1>7, <1>9
<1>12. RestTypeOK'
  <2>1. totalBytes + ByteLength[c] \in Nat
    BY <1>3, LengthsAreNatural DEF RestTypeOK
  <2>2. QED
    BY <1>1, <1>3, <1>10, <2>1 DEF RestTypeOK
<1> HIDE DEF t
<1>13. IInv'
  BY <1>1, <1>2, <1>6, <1>8, <1>10, <1>11, <1>12, AfterFlush
<1>14. Flushes(t)
  BY <1>1, <1>2, <1>6, <1>8 DEF Flushes
<1>15. QED
  BY <1>5, <1>13, <1>14

\* A rejected message only closes the socket.
LEMMA EnqueueRejectedKeeps ==
  ASSUME IInv, NEW k \in Key, NEW c \in Content, EnqueueRejected(k, c)
  PROVE  IInv'
<1>1. TypeOK'
  BY DEF IInv, EnqueueRejected, TypeOK, outbox, history
<1>2. TurnInv(Turn, live, relayMode, wire, acks, relayGot)'
  BY Facts, TurnIs DEF EnqueueRejected, outbox, history, Turn, TurnInv, ConnectionIsLive,
     WriteIsSending, TrafficIsQueued, TrafficIsMarked
<1>3. (MemoryMirrorsStore /\ OnlyAccepted /\ NothingLost)'
  BY DEF IInv, EnqueueRejected, outbox, history, MemoryMirrorsStore, OnlyAccepted, NothingLost
<1>4. QED
  BY <1>1, <1>2, <1>3 DEF IInv

\* A socket that starts to close changes nothing else.
LEMMA BeginCloseKeeps ==
  ASSUME IInv, BeginClose
  PROVE  IInv'
<1>1. TypeOK'
  BY DEF IInv, BeginClose, TypeOK, outbox, history
<1>2. TurnInv(Turn, live, relayMode, wire, acks, relayGot)'
  BY Facts, TurnIs DEF BeginClose, outbox, history, Turn, TurnInv, ConnectionIsLive,
     WriteIsSending, TrafficIsQueued, TrafficIsMarked
<1>3. up
  BY AliveIfBusy DEF BeginClose
<1>4. (MemoryMirrorsStore /\ OnlyAccepted /\ NothingLost)'
  BY <1>3 DEF IInv, BeginClose, outbox, history, MemoryMirrorsStore, OnlyAccepted, NothingLost
<1>5. QED
  BY <1>1, <1>2, <1>4 DEF IInv

\* A new socket has no hello yet, so nothing is attached to it.
LEMMA ConnectKeeps ==
  ASSUME IInv, Connect
  PROVE  IInv'
<1>1. TypeOK'
  BY DEF IInv, Connect, TypeOK, outbox, history
<1>2. relayMode = None /\ writes = {} /\ connection = NoConnection /\ wire = {} /\ acks = {}
  BY Facts, TurnIs DEF Connect, TurnInv, ConnectionIsLive, TrafficIsQueued
<1>3. sending = NotSending
  BY <1>2, Facts, TurnIs DEF TurnInv, WriteIsSending
<1>4. live \in Nat
  BY Facts DEF RestTypeOK
<1>5. TurnInv(Turn, live, relayMode, wire, acks, relayGot)'
  BY <1>2, <1>3, <1>4, NoneIsNothing DEF Connect, outbox, history, Turn, TurnInv,
     ConnectionIsLive, WriteIsSending, TrafficIsQueued, TrafficIsMarked
<1>6. (MemoryMirrorsStore /\ OnlyAccepted /\ NothingLost)'
  BY DEF IInv, Connect, outbox, history, MemoryMirrorsStore, OnlyAccepted, NothingLost
<1>7. QED
  BY <1>1, <1>5, <1>6 DEF IInv

\* Nothing was written before the hello.
LEMMA AttachKeeps ==
  ASSUME IInv, NEW mode \in DeliveryModes, Attach(mode)
  PROVE  /\ IInv'
         /\ \E u : /\ Flushes(u)
                   /\ u.entries = entries /\ u.order = order
                   /\ u.sending = NotSending /\ u.ackTimer = FALSE /\ u.sock = sock
                   /\ u.connection = [socket |-> live, deliveryMode |-> mode]
<1>1. /\ relayMode = None /\ sock # "down" /\ relayMode' = mode
      /\ UNCHANGED <<up, totalBytes, disk, live, acks, history>>
  BY DEF Attach
<1>2. /\ Turn \in TurnSet /\ RestTypeOK
      /\ TurnInv(Turn, live, relayMode, wire, acks, relayGot)
  BY Facts
<1>3. /\ writes = {} /\ connection = NoConnection /\ wire = {} /\ acks = {}
      /\ live > 0
  BY <1>1, <1>2, TurnIs DEF TurnInv, ConnectionIsLive, TrafficIsQueued
<1>4. sending = NotSending
  BY <1>2, <1>3, TurnIs DEF TurnInv, WriteIsSending
<1> DEFINE t == [Turn EXCEPT !.ackTimer = FALSE,
                             !.connection = [socket |-> live, deliveryMode |-> mode]]
<1>5. Flush(t)
  BY <1>4 DEF Attach
<1>6. t \in TurnSet
  BY <1>2 DEF TurnSet, RestTypeOK, ConnectionSet
<1>7. /\ t.entries = entries /\ t.sending = NotSending /\ t.writes = {} /\ t.sock = sock
      /\ t.connection = [socket |-> live, deliveryMode |-> mode]
      /\ t.order = order /\ t.ackTimer = FALSE
  BY <1>3, <1>4 DEF Turn
<1> HIDE DEF t
<1>8. TurnInv(t, live, mode, wire, acks, relayGot)
  <2>1. mode # None
    BY ModesAreKnown, NoneIsNothing
  <2>2. QED
    BY <1>1, <1>3, <1>7, <2>1 DEF TurnInv, ConnectionIsLive, WriteIsSending,
       TrafficIsQueued, TrafficIsMarked, OnTheWay
<1>9. up
  BY <1>1, AliveIfBusy
<1>10. /\ \A k \in Key : t.entries[k].content = disk'[k]
       /\ \A k \in Key : disk'[k] # None => <<k, disk'[k]>> \in accepted'
       /\ NothingLost'
  BY <1>1, <1>7, <1>9 DEF IInv, MemoryMirrorsStore, OnlyAccepted, NothingLost, history
<1>11. RestTypeOK'
  BY <1>1, <1>2 DEF RestTypeOK, history
<1>12. IInv'
  BY <1>1, <1>5, <1>6, <1>8, <1>9, <1>10, <1>11, AfterFlush DEF history
<1>13. Flushes(t)
  BY <1>1, <1>5, <1>6, <1>8 DEF Flushes, history
<1>14. QED
  BY <1>7, <1>12, <1>13

\* ws reports its writes before it closes, so none is pending here.
LEMMA SocketClosedKeeps ==
  ASSUME ~LateCallbacks, IInv, SocketClosed
  PROVE  IInv'
<1>1. /\ sock = "closing" /\ writes = {}
      /\ relayMode' = None /\ wire' = {} /\ acks' = {}
      /\ UNCHANGED <<up, totalBytes, disk, live, history>>
  BY DEF SocketClosed
<1>2. /\ Turn \in TurnSet /\ RestTypeOK
      /\ TurnInv(Turn, live, relayMode, wire, acks, relayGot)
  BY Facts
<1>3. sending = NotSending /\ live > 0
  BY <1>1, <1>2, TurnIs DEF TurnInv, WriteIsSending, ConnectionIsLive
<1>4. sending.socket # live
  BY <1>2, <1>3 DEF NotSending, RestTypeOK
<1> DEFINE own == connection.socket = live
           t == [Turn EXCEPT
                   !.connection = IF own THEN NoConnection ELSE @,
                   !.ackTimer = IF own THEN FALSE ELSE @,
                   !.sock = "down"]
<1>5. EndTurn(t)
  BY <1>4 DEF SocketClosed
<1>6. t \in TurnSet
  BY <1>2 DEF TurnSet, NoConnection, ConnectionSet
<1>7. /\ t.entries = entries /\ t.sending = NotSending /\ t.writes = {} /\ t.sock = "down"
      /\ t.connection = IF own THEN NoConnection ELSE connection
  BY <1>1, <1>3 DEF Turn
<1>8. t.connection = NoConnection
  BY <1>2, <1>7, TurnIs DEF TurnInv, ConnectionIsLive
<1> HIDE DEF t
<1>9. TurnInv(t, live', relayMode', wire', acks', relayGot')
  BY <1>1, <1>7, <1>8, NoneIsNothing DEF TurnInv, ConnectionIsLive, WriteIsSending,
     TrafficIsQueued, TrafficIsMarked
<1>10. up
  BY <1>1, AliveIfBusy
<1>11. RestTypeOK'
  BY <1>1, <1>2 DEF RestTypeOK, history
<1>12. QED
  BY <1>1, <1>5, <1>6, <1>7, <1>9, <1>10, <1>11, AfterEndTurn DEF history

\* What a pending write's callback finds.
LEMMA CallbackFacts ==
  ASSUME IInv, NEW w \in writes
  PROVE  /\ up /\ w \in WriteSet /\ writes = {w}
         /\ sending = [key |-> w.key, socket |-> w.socket, attempt |-> w.attempt]
         /\ w.socket = live /\ w.deliveryMode = relayMode
<1>1. Turn \in TurnSet /\ TurnInv(Turn, live, relayMode, wire, acks, relayGot)
  BY Facts
<1>2. w \in Turn.writes /\ WriteIsSending(Turn, live, relayMode) /\ w \in WriteSet
  BY <1>1, TurnIs, TurnFields DEF TurnInv
<1>3. up
  BY AliveIfBusy
<1>4. sending \in SendingSet
  BY <1>1, TurnFields, TurnIs
<1>5. /\ writes = {[key |-> sending.key, socket |-> live,
                    attempt |-> sending.attempt, deliveryMode |-> relayMode]}
      /\ sending.socket = live
  BY <1>2, TurnIs DEF WriteIsSending
<1>6. w = [key |-> sending.key, socket |-> live,
           attempt |-> sending.attempt, deliveryMode |-> relayMode]
  BY <1>5
<1>7. /\ w.key = sending.key /\ w.socket = live /\ w.attempt = sending.attempt
      /\ w.deliveryMode = relayMode
  BY <1>6
<1>8. sending = [key |-> w.key, socket |-> w.socket, attempt |-> w.attempt]
  BY <1>4, <1>5, <1>7 DEF SendingSet
<1>9. QED
  BY <1>2, <1>3, <1>5, <1>6, <1>7, <1>8

\* A turn that ends with a flush and leaves store and history alone.
LEMMA AfterQuietFlush ==
  ASSUME IInv, NEW t \in TurnSet, Flush(t), up,
         UNCHANGED <<up, totalBytes, disk, live, relayMode, acks, history>>,
         TurnInv(t, live, relayMode, wire, acks, relayGot),
         \A k \in Key : t.entries[k].content = entries[k].content
  PROVE  IInv'
<1>1. /\ \A k \in Key : t.entries[k].content = disk'[k]
      /\ \A k \in Key : disk'[k] # None => <<k, disk'[k]>> \in accepted'
      /\ NothingLost'
  BY DEF IInv, MemoryMirrorsStore, OnlyAccepted, NothingLost, history
<1>2. RestTypeOK'
  BY Facts DEF RestTypeOK, history
<1>3. QED
  BY <1>1, <1>2, AfterFlush DEF history

\* settle() without an error marks the entry as out on this socket.
LEMMA WriteSucceededKeeps ==
  ASSUME IInv, NEW w \in writes, WriteSucceeded(w)
  PROVE  /\ IInv'
         /\ \E u : /\ Flushes(u) /\ TimerArmed(u)
                   /\ u.order = order /\ u.sending = NotSending
                   /\ u.connection = connection
                   /\ \A j \in Key :
                        /\ u.entries[j].content = entries[j].content
                        /\ \/ u.entries[j].sentSocket = entries[j].sentSocket
                           \/ /\ u.entries[j].sentSocket = live
                              /\ BeingWritten(Turn, j)
<1> DEFINE e == IF IsCurrentAttempt(w)
                THEN [entries EXCEPT ![w.key].sentSocket = w.socket] ELSE entries
           t == [Turn EXCEPT !.entries = e]
           s == Settled(t, w)
           u == ScheduleAckCheck(s)
<1>1. /\ Flush(u)
      /\ UNCHANGED <<up, totalBytes, disk, live, relayMode, acks, history>>
  <2>1. t = IF IsCurrentAttempt(w)
            THEN [Turn EXCEPT !.entries[w.key].sentSocket = w.socket] ELSE Turn
    BY DEF Turn
  <2>2. QED
    BY <2>1 DEF WriteSucceeded
<1>2. /\ Turn \in TurnSet /\ entries \in [Key -> Entry]
      /\ TurnInv(Turn, live, relayMode, wire, acks, relayGot)
  BY Facts
<1>3. /\ up /\ w \in WriteSet /\ writes = {w}
      /\ sending = [key |-> w.key, socket |-> w.socket, attempt |-> w.attempt]
      /\ w.socket = live /\ w.deliveryMode = relayMode
  BY CallbackFacts
<1>4. w.key \in Key /\ w.socket \in Nat
  BY <1>3 DEF WriteSet
<1>5. /\ e \in [Key -> Entry]
      /\ \A j \in Key : e[j].content = entries[j].content /\ e[j].attempt = entries[j].attempt
      /\ \A j \in Key : j # w.key => e[j] = entries[j]
      /\ IsCurrentAttempt(w) => e[w.key].sentSocket = live
  <2>1. CASE IsCurrentAttempt(w)
    <3>1. e = [entries EXCEPT ![w.key].sentSocket = w.socket]
      BY <2>1
    <3>2. e \in [Key -> Entry] /\ \A j \in Key : /\ e[j].content = entries[j].content
                                                /\ e[j].attempt = entries[j].attempt
      BY <3>1, <1>2, <1>4, SentUpdate
    <3>3. \A j \in Key : j # w.key => e[j] = entries[j]
      BY <3>1, <1>2
    <3>4. e[w.key].sentSocket = live
      BY <3>1, <1>2, <1>3, <1>4 DEF Entry
    <3>5. QED
      BY <3>2, <3>3, <3>4
  <2>2. CASE ~IsCurrentAttempt(w)
    BY <2>2, <1>2
  <2>3. QED
    BY <2>1, <2>2
<1> HIDE DEF e
<1>6. /\ t \in TurnSet /\ t.entries = e /\ t.connection = connection /\ t.sending = sending
      /\ t.writes = writes /\ t.sock = sock /\ t.order = order
  BY <1>2, <1>5 DEF TurnSet, Turn
<1> HIDE DEF t
<1>8. /\ s \in TurnSet /\ s.entries = e /\ s.connection = connection /\ s.sock = sock
      /\ s.sending = NotSending /\ s.writes = {} /\ s.order = order
  BY <1>3, <1>6, SettledEffect
<1> HIDE DEF s
<1>9. TurnInv(s, live, relayMode, wire, acks, relayGot)
  <2>1. ConnectionIsLive(s, live, relayMode) /\ WriteIsSending(s, live, relayMode)
    BY <1>2, <1>8, TurnIs DEF TurnInv, ConnectionIsLive, WriteIsSending
  <2>2. acks \subseteq Key
    BY Facts DEF RestTypeOK
  <2>3. TrafficIsQueued(s, relayMode, wire, acks, relayGot)
    BY <2>2, <1>2, <1>5, <1>8, TurnIs DEF TurnInv, TrafficIsQueued
  <2>4. TrafficIsMarked(s, live, relayMode, wire, acks)
    <3> SUFFICES ASSUME connection # NoConnection, relayMode = Acknowledged,
                        NEW j \in Key, OnTheWay(wire, acks, j)
                 PROVE  e[j].sentSocket = live
      BY <1>8 DEF TrafficIsMarked
    <3>1. \/ entries[j].sentSocket = live
          \/ sending.key = j /\ sending.attempt = entries[j].attempt
      BY <1>2, TurnIs DEF TurnInv, TrafficIsMarked
    <3>2. entries[j].content # None
      BY <1>2, TurnIs, NoneIsNothing DEF TurnInv, TrafficIsQueued, OnTheWay
    <3>3. CASE IsCurrentAttempt(w)
      BY <3>1, <3>3, <1>3, <1>5
    <3>4. CASE ~IsCurrentAttempt(w)
      <4>1. e = entries
        BY <3>4 DEF e
      <4>2. ~(sending.key = j /\ sending.attempt = entries[j].attempt)
        BY <3>2, <3>4, <1>3 DEF IsCurrentAttempt
      <4>3. QED
        BY <4>1, <4>2, <3>1
    <3>5. QED
      BY <3>3, <3>4
  <2>5. QED
    BY <2>1, <2>3, <2>4 DEF TurnInv
<1>10. /\ u \in TurnSet /\ u.entries = e /\ TurnInv(u, live, relayMode, wire, acks, relayGot)
       /\ u.order = order /\ u.connection = connection /\ u.sending = NotSending
       /\ TimerArmed(u)
  <2>1. /\ u \in TurnSet /\ u.entries = s.entries /\ u.connection = s.connection
        /\ u.sending = s.sending /\ u.writes = s.writes /\ u.sock = s.sock
        /\ u.order = s.order /\ TimerArmed(u)
    BY <1>8, ScheduleEffect
  <2> HIDE DEF u
  <2>2. QED
    BY <2>1, <1>8, <1>9, SameKeeps
<1> HIDE DEF u
<1>11. IInv'
  BY <1>1, <1>3, <1>5, <1>10, AfterQuietFlush
<1>12. Flushes(u)
  BY <1>1, <1>10 DEF Flushes, history
<1>13. ASSUME NEW j \in Key
       PROVE  \/ e[j].sentSocket = entries[j].sentSocket
              \/ e[j].sentSocket = live /\ BeingWritten(Turn, j)
  <2>1. CASE j = w.key /\ IsCurrentAttempt(w)
    BY <2>1, <1>3, <1>5, TurnIs DEF BeingWritten, IsCurrentAttempt
  <2>2. CASE j # w.key
    BY <2>2, <1>5
  <2>3. CASE ~IsCurrentAttempt(w)
    BY <2>3 DEF e
  <2>4. QED
    BY <2>1, <2>2, <2>3
<1>14. QED
  BY <1>5, <1>10, <1>11, <1>12, <1>13

\* On a legacy connection nothing is asked of the traffic.
LEMMA LegacyKeeps ==
  ASSUME NEW u, NEW n, NEW m, NEW w, NEW a, NEW g,
         ConnectionIsLive(u, n, m), WriteIsSending(u, n, m), m = LegacyWriteConfirmed
  PROVE  TurnInv(u, n, m, w, a, g)
<1>1. m # None /\ m # Acknowledged
  BY NoneIsNothing DEF Acknowledged, LegacyWriteConfirmed
<1>2. QED
  BY <1>1 DEF TurnInv, TrafficIsQueued, TrafficIsMarked

\* settle() on a legacy connection releases what it confirmed.
LEMMA WriteConfirmedKeeps ==
  ASSUME IInv, NEW w \in writes, WriteConfirmed(w)
  PROVE  /\ IInv'
         /\ \E u : /\ Flushes(u) /\ TimerArmed(u)
                   /\ u.entries = [entries EXCEPT ![w.key] = NoEntry]
                   /\ u.order = Without(order, w.key)
                   /\ u.connection = connection /\ u.sending = NotSending
<1> DEFINE r == Removed(Turn, w.key)
           s == Settled(r, w)
           u == ScheduleAckCheck(s)
<1>1. /\ Flush(u) /\ LegacyConfirms(w)
      /\ disk' = [disk EXCEPT ![w.key] = None]
      /\ totalBytes' = BytesWithout(w.key)
      /\ confirmed' = confirmed \cup {<<w.key, entries[w.key].content>>}
      /\ UNCHANGED <<up, live, relayMode, acks, accepted, relayGot>>
  BY DEF WriteConfirmed
<1>2. /\ Turn \in TurnSet /\ entries \in [Key -> Entry] /\ RestTypeOK
      /\ TurnInv(Turn, live, relayMode, wire, acks, relayGot)
  BY Facts
<1>3. /\ up /\ w \in WriteSet /\ writes = {w}
      /\ sending = [key |-> w.key, socket |-> w.socket, attempt |-> w.attempt]
      /\ w.socket = live /\ w.deliveryMode = relayMode
  BY CallbackFacts
<1>4. w.key \in Key /\ relayMode = LegacyWriteConfirmed
  BY <1>1, <1>3 DEF WriteSet, LegacyConfirms
<1>5. /\ r \in TurnSet /\ r.entries = [entries EXCEPT ![w.key] = NoEntry]
      /\ r.connection = connection /\ r.sending = sending
      /\ r.writes = writes /\ r.sock = sock /\ r.order = Without(order, w.key)
  BY <1>2, <1>4, RemovedEffect, TurnIs
<1> HIDE DEF r
<1>6. /\ s \in TurnSet /\ s.entries = r.entries /\ s.connection = connection
      /\ s.sock = sock /\ s.sending = NotSending /\ s.writes = {} /\ s.order = r.order
  BY <1>3, <1>5, SettledEffect
<1> HIDE DEF s
<1>7. /\ u \in TurnSet /\ u.entries = s.entries /\ u.connection = s.connection
      /\ u.sending = s.sending /\ u.writes = s.writes /\ u.sock = s.sock
      /\ u.order = s.order /\ TimerArmed(u)
  BY <1>6, ScheduleEffect
<1> HIDE DEF u
<1>8. ConnectionIsLive(u, live, relayMode) /\ WriteIsSending(u, live, relayMode)
  BY <1>2, <1>6, <1>7, TurnIs DEF TurnInv, ConnectionIsLive, WriteIsSending
<1>9. TurnInv(u, live, relayMode, wire, acks, relayGot)
  BY <1>4, <1>8, LegacyKeeps
<1>10. \A j \in Key : entries[j].content = disk[j]
  BY <1>3 DEF IInv, MemoryMirrorsStore
<1>11. /\ NothingLost'
       /\ disk' \in [Key -> Content \cup {None}]
       /\ \A j \in Key : disk'[j] # None => <<j, disk'[j]>> \in accepted'
  BY <1>1, <1>4, <1>10, ReleaseKeeps
<1>12. \A j \in Key : u.entries[j].content = disk'[j]
  <2>1. disk \in [Key -> Content \cup {None}]
    BY <1>2 DEF RestTypeOK
  <2>2. u.entries = [entries EXCEPT ![w.key] = NoEntry]
    BY <1>5, <1>6, <1>7
  <2>3. disk'[w.key] = None /\ \A j \in Key : j # w.key => disk'[j] = disk[j]
    BY <2>1, <1>1, <1>4
  <2>4. /\ u.entries[w.key].content = None
        /\ \A j \in Key : j # w.key => u.entries[j].content = entries[j].content
    BY <2>2, <1>2, <1>4 DEF NoEntry
  <2>5. QED
    BY <2>3, <2>4, <1>10
<1>13. RestTypeOK'
  <2>1. disk[w.key] \in Content
    <3>1. disk[w.key] # None
      BY <1>1, <1>4, <1>10 DEF LegacyConfirms, IsCurrentAttempt
    <3>2. disk[w.key] \in Content \cup {None}
      BY <1>2, <1>4 DEF RestTypeOK
    <3>3. QED
      BY <3>1, <3>2
  <2>2. <<w.key, entries[w.key].content>> \in Key \X Content
    BY <1>4, <1>10, <2>1
  <2>3. ByteLength[entries[w.key].content] \in Nat
    BY <1>4, <1>10, <2>1, LengthsAreNatural
  <2>4. BytesWithout(w.key) \in Nat
    BY <1>2, <2>3 DEF BytesWithout, RestTypeOK
  <2>5. QED
    BY <1>1, <1>2, <1>11, <2>2, <2>4 DEF RestTypeOK
<1>14. IInv'
  BY <1>1, <1>3, <1>7, <1>9, <1>11, <1>12, <1>13, AfterFlush
<1>15. Flushes(u)
  BY <1>1, <1>7, <1>9 DEF Flushes
<1>16. QED
  BY <1>5, <1>6, <1>7, <1>14, <1>15

\* settle() when the store fails gives the connection up, entry kept.
LEMMA WriteConfirmedNotStoredKeeps ==
  ASSUME IInv, NEW w \in writes, WriteConfirmedNotStored(w)
  PROVE  /\ IInv'
         /\ \E u : /\ Flushes(u) /\ TimerArmed(u)
                   /\ u.entries = entries /\ u.order = order
                   /\ u.connection = NoConnection /\ u.sending = NotSending
<1> DEFINE r == GiveUpConnection(Turn)
           s == Settled(r, w)
           u == ScheduleAckCheck(s)
<1>1. /\ Flush(u) /\ LegacyConfirms(w)
      /\ UNCHANGED <<up, totalBytes, disk, live, relayMode, acks, history>>
  BY DEF WriteConfirmedNotStored
<1>2. /\ Turn \in TurnSet /\ TurnInv(Turn, live, relayMode, wire, acks, relayGot)
  BY Facts
<1>3. /\ up /\ w \in WriteSet /\ writes = {w}
      /\ sending = [key |-> w.key, socket |-> w.socket, attempt |-> w.attempt]
      /\ w.socket = live /\ w.deliveryMode = relayMode
  BY CallbackFacts
<1>4. relayMode = LegacyWriteConfirmed
  BY <1>1, <1>3 DEF LegacyConfirms
<1>5. /\ r \in TurnSet /\ r.entries = entries
      /\ r.connection = NoConnection /\ r.sending = sending /\ r.writes = writes
      /\ r.sock = IF sock = "open" THEN "closing" ELSE sock
      /\ r.order = order
  BY <1>2, GiveUpEffect, TurnIs
<1> HIDE DEF r
<1>6. /\ s \in TurnSet /\ s.entries = r.entries /\ s.connection = r.connection
      /\ s.sock = r.sock /\ s.sending = NotSending /\ s.writes = {} /\ s.order = r.order
  BY <1>3, <1>5, SettledEffect
<1> HIDE DEF s
<1>7. /\ u \in TurnSet /\ u.entries = s.entries /\ u.connection = s.connection
      /\ u.sending = s.sending /\ u.writes = s.writes /\ u.sock = s.sock
      /\ u.order = s.order /\ TimerArmed(u)
  BY <1>6, ScheduleEffect
<1> HIDE DEF u
<1>8. ConnectionIsLive(u, live, relayMode) /\ WriteIsSending(u, live, relayMode)
  BY <1>2, <1>5, <1>6, <1>7, TurnIs DEF TurnInv, ConnectionIsLive, WriteIsSending
<1>9. TurnInv(u, live, relayMode, wire, acks, relayGot)
  BY <1>4, <1>8, LegacyKeeps
<1>10. IInv'
  BY <1>1, <1>3, <1>5, <1>6, <1>7, <1>9, AfterQuietFlush
<1>11. Flushes(u)
  BY <1>1, <1>7, <1>9 DEF Flushes, history
<1>12. QED
  BY <1>5, <1>6, <1>7, <1>10, <1>11

\* What a failed write leaves: entries with one marked as not written.
LEMMA WriteFailedKeeps ==
  ASSUME IInv, NEW w \in writes, WriteFailed(w)
  PROVE  /\ IInv'
         /\ \E u : /\ Flushes(u) /\ TimerArmed(u)
                   /\ u.order = order /\ u.sending = NotSending
                   /\ u.connection # NoConnection =>
                        u.connection = connection /\ u.entries = entries
                   /\ \A j \in Key :
                        /\ u.entries[j].content = entries[j].content
                        /\ u.entries[j].sentSocket \in {entries[j].sentSocket, 0}
<1> DEFINE e == [entries EXCEPT ![w.key].sentSocket = 0]
           v == [Turn EXCEPT !.entries = e]
           r == IF ~IsCurrentAttempt(w) THEN Turn
                ELSE IF connection.socket = w.socket THEN GiveUpConnection(v) ELSE v
           s == Settled(r, w)
           u == ScheduleAckCheck(s)
<1>1. /\ Flush(u)
      /\ UNCHANGED <<up, totalBytes, disk, live, relayMode, acks, history>>
  <2>1. v = [Turn EXCEPT !.entries[w.key].sentSocket = 0]
    BY DEF Turn
  <2>2. QED
    BY <2>1 DEF WriteFailed
<1>2. /\ Turn \in TurnSet /\ TurnInv(Turn, live, relayMode, wire, acks, relayGot)
      /\ entries \in [Key -> Entry] /\ acks \subseteq Key
  BY Facts DEF RestTypeOK
<1>3. /\ up /\ w \in WriteSet /\ writes = {w}
      /\ sending = [key |-> w.key, socket |-> w.socket, attempt |-> w.attempt]
      /\ w.socket = live /\ w.deliveryMode = relayMode
  BY CallbackFacts
<1>4. w.key \in Key
  BY <1>3 DEF WriteSet
<1>5. /\ e \in [Key -> Entry]
      /\ \A j \in Key : /\ e[j].content = entries[j].content
                        /\ e[j].sentSocket \in {entries[j].sentSocket, 0}
  <2>1. \A j \in Key : e[j].sentSocket \in {entries[j].sentSocket, 0}
    BY <1>2, <1>4 DEF Entry
  <2>2. QED
    BY <2>1, <1>2, <1>4, SentUpdate
<1> HIDE DEF e
<1>6. /\ v \in TurnSet /\ v.entries = e /\ v.connection = connection /\ v.sending = sending
      /\ v.writes = writes /\ v.sock = sock /\ v.order = order
  BY <1>2, <1>5 DEF TurnSet, Turn
<1> HIDE DEF v
<1>7. /\ r \in TurnSet /\ r.sending = sending /\ r.writes = writes /\ r.order = order
      /\ \A j \in Key : /\ r.entries[j].content = entries[j].content
                        /\ r.entries[j].sentSocket \in {entries[j].sentSocket, 0}
      /\ \/ ~IsCurrentAttempt(w) /\ r = Turn
         \/ r.connection = NoConnection /\ r.sock = IF sock = "open" THEN "closing" ELSE sock
         \/ r.connection = connection /\ connection.socket # live /\ r.sock = sock
  <2>1. CASE ~IsCurrentAttempt(w)
    BY <2>1, <1>2, TurnIs
  <2>2. CASE IsCurrentAttempt(w) /\ connection.socket = w.socket
    BY <2>2, <1>5, <1>6, GiveUpEffect
  <2>3. CASE IsCurrentAttempt(w) /\ connection.socket # w.socket
    BY <2>3, <1>3, <1>5, <1>6
  <2>4. QED
    BY <2>1, <2>2, <2>3
<1>13. r.connection # NoConnection => ~IsCurrentAttempt(w) /\ r = Turn
  BY <1>2, <1>7, TurnIs DEF TurnInv, ConnectionIsLive
<1> HIDE DEF r
<1>8. /\ s \in TurnSet /\ s.entries = r.entries /\ s.connection = r.connection
      /\ s.sock = r.sock /\ s.sending = NotSending /\ s.writes = {} /\ s.order = r.order
  BY <1>3, <1>7, SettledEffect
<1> HIDE DEF s
<1>9. /\ u \in TurnSet /\ u.entries = s.entries /\ u.connection = s.connection
      /\ u.sending = s.sending /\ u.writes = s.writes /\ u.sock = s.sock
      /\ u.order = s.order /\ TimerArmed(u)
  BY <1>8, ScheduleEffect
<1> HIDE DEF u
<1>10. ConnectionIsLive(u, live, relayMode) /\ WriteIsSending(u, live, relayMode)
  BY <1>2, <1>7, <1>8, <1>9, TurnIs DEF TurnInv, ConnectionIsLive, WriteIsSending
<1>11. TrafficIsQueued(u, relayMode, wire, acks, relayGot)
  BY <1>2, <1>7, <1>8, <1>9, TurnIs DEF TurnInv, TrafficIsQueued
<1>12. TrafficIsMarked(u, live, relayMode, wire, acks)
  <2> SUFFICES ASSUME u.connection # NoConnection, relayMode = Acknowledged,
                      NEW j \in Key, OnTheWay(wire, acks, j)
               PROVE  u.entries[j].sentSocket = live
    BY DEF TrafficIsMarked
  <2>1. ~IsCurrentAttempt(w) /\ u.entries = entries /\ connection # NoConnection
    BY <1>8, <1>9, <1>13, TurnIs
  <2>2. \/ entries[j].sentSocket = live
        \/ sending.key = j /\ sending.attempt = entries[j].attempt
    BY <2>1, <1>2, TurnIs DEF TurnInv, TrafficIsMarked
  <2>3. entries[j].content # None
    BY <1>2, TurnIs, NoneIsNothing DEF TurnInv, TrafficIsQueued, OnTheWay
  <2>4. QED
    BY <2>1, <2>2, <2>3, <1>3 DEF IsCurrentAttempt
<1>14. TurnInv(u, live, relayMode, wire, acks, relayGot)
  BY <1>10, <1>11, <1>12 DEF TurnInv
<1>15. IInv'
  BY <1>1, <1>3, <1>7, <1>8, <1>9, <1>14, AfterQuietFlush
<1>16. Flushes(u)
  BY <1>1, <1>9, <1>14 DEF Flushes, history
<1>17. u.connection # NoConnection => u.connection = connection /\ u.entries = entries
  BY <1>8, <1>9, <1>13, TurnIs
<1>18. QED
  BY <1>7, <1>8, <1>9, <1>15, <1>16, <1>17

\* Relay's ACK is about the frame it took, which is still queued.
LEMMA RelayReceivesKeeps ==
  ASSUME IInv, NEW k \in Key, NEW c \in Content, RelayReceives(k, c)
  PROVE  IInv'
<1>1. /\ <<k, c>> \in wire /\ wire' = wire \ {<<k, c>>}
      /\ relayGot' = relayGot \cup {<<k, c>>}
      /\ acks' = IF relayMode = Acknowledged THEN acks \cup {k} ELSE acks
      /\ UNCHANGED <<outbox, disk, live, sock, relayMode, writes, accepted, confirmed, faults>>
  BY DEF RelayReceives
<1>2. /\ TurnInv(Turn, live, relayMode, wire, acks, relayGot)
      /\ acks \subseteq Key /\ wire \subseteq Key \X Content
  BY Facts DEF RestTypeOK
<1>3. TypeOK'
  BY <1>1 DEF IInv, TypeOK, outbox
<1>4. Turn' = Turn
  BY <1>1 DEF Turn, outbox
<1>5. relayMode = Acknowledged => OnTheWay(wire, acks, k) /\ entries[k].content = c /\ k \notin acks
  BY <1>1, <1>2, TurnIs DEF OnTheWay, TurnInv, TrafficIsQueued
<1>6. relayMode # None
  BY <1>1, <1>2 DEF TurnInv, TrafficIsQueued
<1>7. TrafficIsQueued(Turn, relayMode, wire', acks', relayGot')
  <2> SUFFICES ASSUME relayMode = Acknowledged
               PROVE  /\ \A j \in Key, d \in Content :
                           <<j, d>> \in wire' => entries[j].content = d /\ j \notin acks'
                      /\ \A j \in acks' : /\ entries[j].content # None
                                         /\ <<j, entries[j].content>> \in relayGot'
    BY <1>6, TurnIs DEF TrafficIsQueued
  <2>1. /\ \A j \in Key, d \in Content :
             <<j, d>> \in wire => entries[j].content = d /\ j \notin acks
        /\ \A j \in acks : entries[j].content # None /\ <<j, entries[j].content>> \in relayGot
    BY <1>2, TurnIs DEF TurnInv, TrafficIsQueued
  <2>2. \A d \in Content : <<k, d>> \notin wire'
    BY <2>1, <1>1, <1>5
  <2>3. QED
    BY <2>1, <2>2, <1>1, <1>5, NoneIsNothing
<1>8. TrafficIsMarked(Turn, live, relayMode, wire', acks')
  <2>1. \A j \in Key : OnTheWay(wire', acks', j) => OnTheWay(wire, acks, j)
    BY <1>1 DEF OnTheWay
  <2>2. QED
    BY <2>1, <1>2 DEF TurnInv, TrafficIsMarked
<1>9. TurnInv(Turn, live, relayMode, wire, acks, relayGot)'
  BY <1>1, <1>2, <1>4, <1>7, <1>8 DEF TurnInv
<1>10. (MemoryMirrorsStore /\ OnlyAccepted /\ NothingLost)'
  BY <1>1 DEF IInv, outbox, MemoryMirrorsStore, OnlyAccepted, NothingLost
<1>11. QED
  BY <1>3, <1>9, <1>10 DEF IInv

\* An ignored ACK changes nothing but the ACKs.
LEMMA AckIgnoredKeeps ==
  ASSUME IInv, NEW k \in Key, AckIgnored(k)
  PROVE  IInv'
<1>1. TypeOK'
  BY DEF IInv, TypeOK, AckIgnored, outbox, history
<1>2. TurnInv(Turn, live, relayMode, wire, acks', relayGot)
  <2>1. acks' \in SUBSET acks
    BY DEF AckIgnored
  <2>2. QED
    BY <2>1, Facts, FewerAcks
<1>3. TurnInv(Turn, live, relayMode, wire, acks, relayGot)'
  <2>1. /\ Turn' = Turn
        /\ UNCHANGED <<live, relayMode, wire, relayGot>>
    BY DEF AckIgnored, Turn, outbox, history
  <2>2. QED
    BY <2>1, <1>2
<1>4. (MemoryMirrorsStore /\ OnlyAccepted /\ NothingLost)'
  BY DEF IInv, AckIgnored, outbox, history, MemoryMirrorsStore, OnlyAccepted, NothingLost
<1>5. QED
  BY <1>1, <1>3, <1>4 DEF IInv

\* An ACK is processed on an acknowledging connection, for what Relay has.
LEMMA AckFacts ==
  ASSUME IInv, NEW k \in Key, k \in acks, AckApplies(k)
  PROVE  /\ up /\ relayMode = Acknowledged
         /\ entries[k].content \in Content /\ disk[k] = entries[k].content
         /\ <<k, entries[k].content>> \in relayGot
<1>1. /\ TurnInv(Turn, live, relayMode, wire, acks, relayGot)
      /\ entries \in [Key -> Entry]
  BY Facts
<1>2. connection.deliveryMode = Acknowledged /\ entries[k].content # None
  BY DEF AckApplies
<1>3. connection # NoConnection
  BY <1>2, NoneIsNothing DEF NoConnection
<1>4. relayMode = Acknowledged
  BY <1>1, <1>2, <1>3, TurnIs DEF TurnInv, ConnectionIsLive
<1>5. <<k, entries[k].content>> \in relayGot
  BY <1>1, <1>4, TurnIs DEF TurnInv, TrafficIsQueued
<1>6. up
  BY AliveIfBusy
<1>7. QED
  BY <1>1, <1>2, <1>4, <1>5, <1>6 DEF IInv, MemoryMirrorsStore, Entry

\* acknowledge() releases a message that Relay has.
LEMMA AckRemovesKeeps ==
  ASSUME IInv, NEW k \in Key, AckRemoves(k)
  PROVE  /\ IInv'
         /\ \E u : /\ Flushes(u) /\ TimerArmed(u)
                   /\ u.entries = [entries EXCEPT ![k] = NoEntry]
                   /\ u.order = Without(order, k)
                   /\ u.connection = connection /\ u.sending = sending
<1> DEFINE r == Removed(Turn, k)
<1>1. /\ Flush(r) /\ k \in acks /\ AckApplies(k)
      /\ acks' = acks \ {k}
      /\ disk' = [disk EXCEPT ![k] = None]
      /\ totalBytes' = BytesWithout(k)
      /\ UNCHANGED <<up, live, relayMode, accepted, relayGot, confirmed>>
  BY DEF AckRemoves, history
<1>2. /\ Turn \in TurnSet /\ entries \in [Key -> Entry] /\ RestTypeOK
      /\ TurnInv(Turn, live, relayMode, wire, acks, relayGot)
      /\ acks \subseteq Key /\ wire \subseteq Key \X Content
  BY Facts DEF RestTypeOK
<1>3. /\ up /\ relayMode = Acknowledged
      /\ entries[k].content \in Content /\ disk[k] = entries[k].content
      /\ <<k, entries[k].content>> \in relayGot
  BY <1>1, AckFacts
<1>4. /\ r \in TurnSet /\ r.entries = [entries EXCEPT ![k] = NoEntry]
      /\ r.connection = connection /\ r.sending = sending
      /\ r.writes = writes /\ r.sock = sock
      /\ r.order = Without(order, k) /\ TimerArmed(r)
  BY <1>2, RemovedEffect, TurnIs
<1> HIDE DEF r
<1>5. /\ \A j \in Key : j # k => r.entries[j] = entries[j]
      /\ r.entries[k].content = None
  BY <1>2, <1>4 DEF NoEntry
<1>6. \A j \in Key : OnTheWay(wire, acks', j) => j # k /\ OnTheWay(wire, acks, j)
  BY <1>1, <1>2, <1>3, TurnIs DEF OnTheWay, TurnInv, TrafficIsQueued
<1>7. TurnInv(r, live, relayMode, wire, acks', relayGot)
  <2>1. ConnectionIsLive(r, live, relayMode) /\ WriteIsSending(r, live, relayMode)
    BY <1>2, <1>4, TurnIs DEF TurnInv, ConnectionIsLive, WriteIsSending
  <2>2. TrafficIsQueued(r, relayMode, wire, acks', relayGot)
    <3>1. \A j \in Key, c \in Content : <<j, c>> \in wire => OnTheWay(wire, acks', j)
      BY DEF OnTheWay
    <3>2. QED
      BY <3>1, <1>1, <1>2, <1>3, <1>5, <1>6, TurnIs, NoneIsNothing DEF TurnInv, TrafficIsQueued
  <2>3. TrafficIsMarked(r, live, relayMode, wire, acks')
    BY <1>2, <1>4, <1>5, <1>6, TurnIs DEF TurnInv, TrafficIsMarked
  <2>4. QED
    BY <2>1, <2>2, <2>3 DEF TurnInv
<1>8. /\ NothingLost'
      /\ disk' \in [Key -> Content \cup {None}]
      /\ \A j \in Key : disk'[j] # None => <<j, disk'[j]>> \in accepted'
  BY <1>1, <1>3, ReleaseKeeps
<1>9. \A j \in Key : r.entries[j].content = disk'[j]
  <2>1. disk'[k] = None /\ \A j \in Key : j # k => disk'[j] = disk[j]
    BY <1>1, <1>2 DEF RestTypeOK
  <2>2. \A j \in Key : entries[j].content = disk[j]
    BY <1>3 DEF IInv, MemoryMirrorsStore
  <2>3. QED
    BY <2>1, <2>2, <1>5
<1>10. RestTypeOK'
  <2>1. ByteLength[entries[k].content] \in Nat
    BY <1>3, LengthsAreNatural
  <2>2. BytesWithout(k) \in Nat
    BY <1>2, <2>1 DEF BytesWithout, RestTypeOK
  <2>3. QED
    BY <1>1, <1>2, <1>8, <2>2 DEF RestTypeOK
<1>11. IInv'
  BY <1>1, <1>3, <1>4, <1>7, <1>8, <1>9, <1>10, AfterFlush
<1>12. Flushes(r)
  BY <1>1, <1>4, <1>7 DEF Flushes
<1>13. QED
  BY <1>4, <1>11, <1>12

\* acknowledge() when the store fails gives the connection up, entry kept.
LEMMA AckNotStoredKeeps ==
  ASSUME IInv, NEW k \in Key, AckNotStored(k)
  PROVE  IInv'
<1> DEFINE u == GiveUpConnection(Turn)
<1>1. /\ EndTurn(u) /\ k \in acks /\ AckApplies(k) /\ acks' = acks \ {k}
      /\ UNCHANGED <<up, totalBytes, disk, live, relayMode, wire, history>>
  BY DEF AckNotStored
<1>2. /\ Turn \in TurnSet /\ RestTypeOK /\ acks \subseteq Key
      /\ TurnInv(Turn, live, relayMode, wire, acks, relayGot)
  BY Facts DEF RestTypeOK
<1>3. TurnInv(Turn, live, relayMode, wire, acks', relayGot) /\ acks' \subseteq Key
  <2>1. acks' \in SUBSET acks
    BY <1>1
  <2>2. QED
    BY <2>1, <1>2, FewerAcks
<1>4. /\ u \in TurnSet /\ u.entries = Turn.entries /\ u.sending = Turn.sending
      /\ u.writes = Turn.writes /\ u.connection = NoConnection
      /\ u.sock = IF Turn.sock = "open" THEN "closing" ELSE Turn.sock
  BY <1>2, GiveUpEffect
<1> HIDE DEF u
<1>5. TurnInv(u, live, relayMode, wire, acks', relayGot)
  BY <1>3, <1>4, GivenUpKeeps
<1>6. up
  BY <1>1, AckFacts
<1>7. RestTypeOK'
  BY <1>1, <1>2, <1>3 DEF RestTypeOK, history
<1>8. QED
  BY <1>1, <1>4, <1>5, <1>6, <1>7, AfterEndTurn, TurnIs DEF history

\* The ACK timer gives the connection up and touches no entry.
LEMMA AckTimeoutKeeps ==
  ASSUME IInv, AckTimeout
  PROVE  IInv'
<1> DEFINE u == GiveUpConnection(Turn)
<1>1. /\ EndTurn(u) /\ connection.deliveryMode = Acknowledged
      /\ UNCHANGED <<up, totalBytes, disk, live, relayMode, wire, acks, history>>
  BY DEF AckTimeout
<1>2. /\ Turn \in TurnSet /\ RestTypeOK /\ acks \subseteq Key
      /\ TurnInv(Turn, live, relayMode, wire, acks, relayGot)
  BY Facts DEF RestTypeOK
<1>3. /\ u \in TurnSet /\ u.entries = Turn.entries /\ u.sending = Turn.sending
      /\ u.writes = Turn.writes /\ u.connection = NoConnection
      /\ u.sock = IF Turn.sock = "open" THEN "closing" ELSE Turn.sock
  BY <1>2, GiveUpEffect
<1> HIDE DEF u
<1>4. TurnInv(u, live, relayMode, wire, acks, relayGot)
  BY <1>2, <1>3, GivenUpKeeps
<1>5. connection # NoConnection
  BY <1>1, NoneIsNothing DEF NoConnection
<1>6. up
  BY <1>5, AliveIfBusy
<1>7. RestTypeOK'
  BY <1>1, <1>2 DEF RestTypeOK, history
<1>8. QED
  BY <1>1, <1>3, <1>4, <1>6, <1>7, AfterEndTurn, TurnIs DEF history

\* A process that dies leaves only what it stored.
LEMMA DieKeeps ==
  ASSUME IInv, Die, order' \in Seq(Key),
         disk' \in [Key -> Content \cup {None}],
         accepted' \subseteq Key \X Content, confirmed' \subseteq Key \X Content,
         \A k \in Key : disk'[k] # None => <<k, disk'[k]>> \in accepted',
         NothingLost'
  PROVE  IInv'
<1>1. /\ up' = FALSE /\ entries' = [k \in Key |-> NoEntry] /\ totalBytes' = 0
      /\ connection' = NoConnection /\ sending' = NotSending /\ ackTimer' = FALSE
      /\ sock' = "down" /\ relayMode' = None
      /\ writes' = {} /\ wire' = {} /\ acks' = {}
      /\ faults' = faults + 1 /\ live' = live /\ relayGot' = relayGot
  BY DEF Die
<1>2. TypeOK'
  <2>1. entries' \in [Key -> Entry]
    BY <1>1 DEF Entry, NoEntry
  <2>2. connection' \in ConnectionSet /\ sending' \in SendingSet
    BY <1>1 DEF NoConnection, NotSending, ConnectionSet, SendingSet
  <2>3. live \in Nat /\ faults \in Nat /\ relayGot \subseteq Key \X Content
    BY DEF IInv, TypeOK
  <2>4. /\ sock' \in {"down", "open", "closing"}
        /\ faults' \in Nat /\ writes' \in SUBSET WriteSet
    BY <1>1, <2>3
  <2>9. up' \in BOOLEAN /\ ackTimer' \in BOOLEAN
    BY <1>1, Zenon
  <2>5. OutboxTypeOK'
    BY <2>1, <2>2, <2>4, <2>9 DEF OutboxTypeOK, Turn, TurnSet
  <2>6. RestTypeOK'
    BY <1>1, <2>3, <2>9 DEF RestTypeOK
  <2>7. wire' \subseteq Key \X Content
    BY <1>1
  <2>8. QED
    BY <2>5, <2>6, <2>7, TypeSplit
<1>3. TurnInv(Turn, live, relayMode, wire, acks, relayGot)'
  BY <1>1, NoneIsNothing DEF Turn, TurnInv, ConnectionIsLive, WriteIsSending,
     TrafficIsQueued, TrafficIsMarked
<1>4. MemoryMirrorsStore' /\ OnlyAccepted'
  BY <1>1 DEF MemoryMirrorsStore, OnlyAccepted
<1>5. QED
  BY <1>2, <1>3, <1>4 DEF IInv

\* A crash leaves the store.
LEMMA CrashKeeps ==
  ASSUME IInv, Crash
  PROVE  IInv'
<1>1. Die /\ UNCHANGED <<disk, order, accepted, confirmed>> /\ UNCHANGED relayGot
  BY DEF Crash, Die
<1>2. /\ order \in Seq(Key) /\ disk \in [Key -> Content \cup {None}]
      /\ accepted \subseteq Key \X Content /\ confirmed \subseteq Key \X Content
  BY DEF IInv, TypeOK
<1>3. NothingLost' /\ \A k \in Key : disk'[k] # None => <<k, disk'[k]>> \in accepted'
  BY <1>1 DEF IInv, NothingLost, OnlyAccepted
<1>4. QED
  BY <1>1, <1>2, <1>3, DieKeeps

\* A crash after put() leaves one message more in the store.
LEMMA CrashAfterPutKeeps ==
  ASSUME IInv, NEW k \in Key, NEW c \in Content, CrashAfterPut(k, c)
  PROVE  IInv'
<1>1. /\ Die /\ disk' = [disk EXCEPT ![k] = c] /\ order' = Append(order, k)
      /\ accepted' = accepted \cup {<<k, c>>} /\ UNCHANGED <<relayGot, confirmed>>
      /\ up /\ entries[k].content = None
  BY DEF CrashAfterPut, IsNew, Die
<1>2. disk[k] = None
  BY <1>1 DEF IInv, MemoryMirrorsStore
<1>3. /\ NothingLost'
      /\ disk' \in [Key -> Content \cup {None}]
      /\ \A j \in Key : disk'[j] # None => <<j, disk'[j]>> \in accepted'
      /\ accepted' \subseteq Key \X Content
  BY <1>1, <1>2, PutKeeps
<1>4. order' \in Seq(Key) /\ confirmed' \subseteq Key \X Content
  BY <1>1 DEF IInv, TypeOK
<1>5. QED
  BY <1>1, <1>3, <1>4, DieKeeps

\* A crash after remove() has released a message Relay has or confirmed.
LEMMA CrashAfterRemoveKeeps ==
  ASSUME IInv, NEW k \in Key, CrashAfterRemove(k)
  PROVE  IInv'
<1>1. /\ up /\ Die /\ disk' = [disk EXCEPT ![k] = None] /\ order' = Without(order, k)
      /\ UNCHANGED <<accepted, relayGot>>
      /\ \/ k \in acks /\ AckApplies(k) /\ UNCHANGED confirmed
         \/ /\ \E w \in writes : w.key = k /\ LegacyConfirms(w)
            /\ confirmed' = confirmed \cup {<<k, entries[k].content>>}
  BY DEF CrashAfterRemove, Die
<1>2. disk[k] = entries[k].content
  BY <1>1 DEF IInv, MemoryMirrorsStore
<1>3. /\ confirmed \subseteq confirmed' /\ confirmed' \subseteq Key \X Content
      /\ <<k, disk[k]>> \in relayGot' \cup confirmed'
  <2>1. confirmed \subseteq Key \X Content
    BY DEF IInv, TypeOK
  <2>2. CASE k \in acks /\ AckApplies(k) /\ UNCHANGED confirmed
    BY <2>1, <2>2, <1>1, AckFacts
  <2>3. CASE /\ \E w \in writes : w.key = k /\ LegacyConfirms(w)
             /\ confirmed' = confirmed \cup {<<k, entries[k].content>>}
    <3>1. entries[k].content # None
      BY <2>3 DEF LegacyConfirms, IsCurrentAttempt
    <3>2. entries[k].content \in Content
      BY <3>1, Facts DEF Entry
    <3>3. QED
      BY <2>1, <2>3, <3>2, <1>2
  <2>4. QED
    BY <1>1, <2>2, <2>3
<1>4. /\ NothingLost'
      /\ disk' \in [Key -> Content \cup {None}]
      /\ \A j \in Key : disk'[j] # None => <<j, disk'[j]>> \in accepted'
  BY <1>1, <1>3, ReleaseKeeps
<1>5. order' \in Seq(Key) /\ accepted' \subseteq Key \X Content
  BY <1>1, WithoutType DEF IInv, TypeOK
<1>6. QED
  BY <1>1, <1>3, <1>4, <1>5, DieKeeps

\* restore() makes memory the mirror of the store.
LEMMA RestartKeeps ==
  ASSUME IInv, Restart
  PROVE  IInv'
<1>1. /\ ~up /\ up' = TRUE /\ Restorable
      /\ entries' = [k \in Key |-> NewEntry(disk[k])] /\ totalBytes' = StoredBytes
      /\ UNCHANGED <<order, connection, sending, ackTimer, disk, channel, history, faults>>
  BY DEF Restart
<1>2. /\ TypeOK /\ disk \in [Key -> Content \cup {None}]
  BY DEF IInv, TypeOK
<1>3. TypeOK'
  <2>1. entries' \in [Key -> Entry]
    BY <1>1, <1>2 DEF NewEntry, Entry
  <2>2. totalBytes' \in Nat
    <3>1. StoredBytes \in 0..MaxBytes
      BY <1>1 DEF Restorable
    <3>2. \A i \in 0..MaxBytes : i \in Nat
      BY LimitsArePositive
    <3>3. QED
      BY <1>1, <3>1, <3>2
  <2>3. QED
    BY <1>1, <1>2, <2>1, <2>2 DEF TypeOK, channel, history
<1>4. sock = "down" /\ sending = NotSending
  BY <1>1 DEF IInv, MemoryMirrorsStore
<1>5. relayMode = None /\ writes = {} /\ connection = NoConnection /\ wire = {} /\ acks = {}
  BY <1>4, Facts, TurnIs DEF TurnInv, ConnectionIsLive, TrafficIsQueued
<1>6. TurnInv(Turn, live, relayMode, wire, acks, relayGot)'
  BY <1>1, <1>4, <1>5, NoneIsNothing DEF channel, history, Turn, TurnInv, ConnectionIsLive,
     WriteIsSending, TrafficIsQueued, TrafficIsMarked
<1>7. MemoryMirrorsStore'
  BY <1>1 DEF MemoryMirrorsStore, NewEntry
<1>8. (OnlyAccepted /\ NothingLost)'
  BY <1>1 DEF IInv, OnlyAccepted, NothingLost, channel, history
<1>9. QED
  BY <1>3, <1>6, <1>7, <1>8 DEF IInv

\* Nothing changes when nothing changes.
LEMMA StutterKeeps ==
  ASSUME IInv, UNCHANGED vars
  PROVE  IInv'
<1>1. UNCHANGED <<up, entries, order, totalBytes, connection, sending, ackTimer, disk,
                  live, sock, relayMode, writes, wire, acks, accepted, relayGot, confirmed,
                  faults>>
  BY DEF vars, outbox, channel, history
<1>2. TypeOK'
  BY <1>1 DEF IInv, TypeOK
<1>3. TurnInv(Turn, live, relayMode, wire, acks, relayGot)'
  <2>1. Turn' = Turn
    BY <1>1 DEF Turn
  <2>2. QED
    BY <1>1, <2>1 DEF IInv
<1>4. (MemoryMirrorsStore /\ OnlyAccepted /\ NothingLost)'
  BY <1>1 DEF IInv, MemoryMirrorsStore, OnlyAccepted, NothingLost
<1>5. QED
  BY <1>2, <1>3, <1>4 DEF IInv

\* Every step keeps the invariant, when no callback outlives its socket.
LEMMA NextKeepsIInv ==
  ASSUME ~LateCallbacks, IInv, [Next]_vars
  PROVE  IInv'
<1>1. ASSUME NEW k \in Key, NEW c \in Content,
             Enqueue(k, c) \/ EnqueueRejected(k, c) \/ RelayReceives(k, c) \/ CrashAfterPut(k, c)
      PROVE  IInv'
  BY <1>1, EnqueueKeeps, EnqueueRejectedKeeps, RelayReceivesKeeps, CrashAfterPutKeeps
<1>2. ASSUME NEW w \in writes,
             \/ WriteSucceeded(w) \/ WriteConfirmed(w)
             \/ WriteConfirmedNotStored(w) \/ WriteFailed(w)
      PROVE  IInv'
  BY <1>2, WriteSucceededKeeps, WriteConfirmedKeeps, WriteConfirmedNotStoredKeeps, WriteFailedKeeps
<1>3. ASSUME NEW k \in Key,
             AckIgnored(k) \/ AckRemoves(k) \/ AckNotStored(k) \/ CrashAfterRemove(k)
      PROVE  IInv'
  BY <1>3, AckIgnoredKeeps, AckRemovesKeeps, AckNotStoredKeeps, CrashAfterRemoveKeeps
<1>4. ASSUME NEW mode \in DeliveryModes, Attach(mode)
      PROVE  IInv'
  BY <1>4, AttachKeeps
<1>5. CASE Connect \/ BeginClose \/ SocketClosed \/ AckTimeout \/ Crash \/ Restart
  BY <1>5, ConnectKeeps, BeginCloseKeeps, SocketClosedKeeps, AckTimeoutKeeps, CrashKeeps,
     RestartKeeps
<1>6. CASE UNCHANGED vars
  BY <1>6, StutterKeeps
<1>7. QED
  BY <1>1, <1>2, <1>3, <1>4, <1>5, <1>6 DEF Next

---------------------------------------------------------------------------
(* What the invariant gives.                                               *)

\* The inductive invariant holds in every reachable state of the outbox.
THEOREM Invariance == ASSUME ~LateCallbacks PROVE Spec => []IInv
  BY InitIInv, NextKeepsIInv, PTL DEF Spec

\* The state of the outbox, its store and its connection has the shapes TypeOK
\* gives it, for every number of keys, messages, failures and reconnections.
THEOREM TypeCorrect == ASSUME ~LateCallbacks PROVE Spec => []TypeOK
<1>1. IInv => TypeOK
  BY DEF IInv
<1>2. QED
  BY <1>1, Invariance, PTL

\* No message the outbox accepted is ever lost.
THEOREM NoMessageLost == ASSUME ~LateCallbacks PROVE Spec => []NothingLost
<1>1. IInv => NothingLost
  BY DEF IInv
<1>2. QED
  BY <1>1, Invariance, PTL

\* flush() never has two writes outstanding.
THEOREM SingleWrite == ASSUME ~LateCallbacks PROVE Spec => []OneWriteOutstanding
<1>1. ASSUME IInv
      PROVE  OneWriteOutstanding
  <2>1. WriteIsSending(Turn, live, relayMode) /\ ConnectionIsLive(Turn, live, relayMode)
    BY <1>1, Facts DEF TurnInv
  <2>2. writes = {} => sending = NotSending
    BY <2>1, TurnIs DEF WriteIsSending
  <2>3. writes # {} => relayMode \in DeliveryModes
    BY <2>1, <1>1, TurnIs, Facts DEF ConnectionIsLive, RestTypeOK
  <2>4. QED
    BY <2>1, <2>2, <2>3, TurnIs DEF WriteIsSending, OneWriteOutstanding
<1>2. QED
  BY <1>1, Invariance, PTL

\* An ACK on its way to the attached connection names a message Relay has.
THEOREM AcksAreTruthful == ASSUME ~LateCallbacks PROVE Spec => []AckIsForTheQueuedMessage
<1>1. ASSUME IInv
      PROVE  AckIsForTheQueuedMessage
  <2>1. /\ TrafficIsQueued(Turn, relayMode, wire, acks, relayGot)
        /\ ConnectionIsLive(Turn, live, relayMode)
    BY <1>1, Facts DEF TurnInv
  <2>2. connection.deliveryMode = Acknowledged => relayMode = Acknowledged
    BY <2>1, TurnIs, NoneIsNothing DEF ConnectionIsLive, NoConnection
  <2>3. QED
    BY <2>1, <2>2, TurnIs DEF TrafficIsQueued, AckIsForTheQueuedMessage
<1>2. QED
  BY <1>1, Invariance, PTL

---------------------------------------------------------------------------
(* The outbox implements the delivery service of ReliableDelivery.  A step *)
(* of the outbox accepts a message, or hands one to Relay, or releases one *)
(* that Relay has or whose write was confirmed, or is nothing to it.       *)

\* A step that moves no message is a stutter of the delivery service.
LEMMA QuietSteps ==
  ASSUME UNCHANGED <<accepted, disk, relayGot, confirmed>>
  PROVE  [Delivery!DNext]_(Delivery!dvars)
  BY DEF Delivery!dvars

\* Every step of the outbox is a step of the delivery service or a stutter.
LEMMA StepImplements ==
  ASSUME IInv, [Next]_vars
  PROVE  [Delivery!DNext]_(Delivery!dvars)
<1>1. ASSUME NEW k \in Key, NEW c \in Content, Enqueue(k, c) \/ CrashAfterPut(k, c)
      PROVE  [Delivery!DNext]_(Delivery!dvars)
  <2>1. disk[k] = None
    BY <1>1 DEF Enqueue, IsNew, CrashAfterPut, IInv, MemoryMirrorsStore
  <2>2. Delivery!Accept(k, c)
    BY <1>1, <2>1 DEF Enqueue, IsNew, CrashAfterPut, Die, Delivery!Accept
  <2>3. QED
    BY <2>2 DEF Delivery!DNext
<1>2. ASSUME NEW k \in Key, NEW c \in Content, RelayReceives(k, c)
      PROVE  [Delivery!DNext]_(Delivery!dvars)
  <2>1. <<k, c>> \in accepted
    BY <1>2 DEF RelayReceives, IInv, OnlyAccepted
  <2>2. Delivery!Receive(k, c)
    BY <1>2, <2>1 DEF RelayReceives, Delivery!Receive
  <2>3. QED
    BY <2>2 DEF Delivery!DNext
<1>3. ASSUME NEW k \in Key, k \in acks, AckApplies(k),
             disk' = [disk EXCEPT ![k] = None], UNCHANGED <<accepted, relayGot, confirmed>>
      PROVE  [Delivery!DNext]_(Delivery!dvars)
  <2>1. <<k, disk[k]>> \in relayGot
    BY <1>3, AckFacts
  <2>2. Delivery!Release(k)
    BY <1>3, <2>1 DEF Delivery!Release
  <2>3. QED
    BY <2>2 DEF Delivery!DNext
<1>4. ASSUME NEW w \in writes, LegacyConfirms(w),
             disk' = [disk EXCEPT ![w.key] = None],
             confirmed' = confirmed \cup {<<w.key, entries[w.key].content>>},
             UNCHANGED <<accepted, relayGot>>
      PROVE  [Delivery!DNext]_(Delivery!dvars)
  <2>1. up /\ w.key \in Key
    BY CallbackFacts DEF WriteSet
  <2>2. disk[w.key] = entries[w.key].content /\ disk[w.key] # None
    BY <1>4, <2>1 DEF LegacyConfirms, IsCurrentAttempt, IInv, MemoryMirrorsStore
  <2>3. Delivery!ReleaseConfirmed(w.key)
    BY <1>4, <2>2 DEF Delivery!ReleaseConfirmed
  <2>4. QED
    BY <2>1, <2>3 DEF Delivery!DNext
<1>5. ASSUME NEW k \in Key, AckRemoves(k)
      PROVE  [Delivery!DNext]_(Delivery!dvars)
  BY <1>3, <1>5 DEF AckRemoves, history
<1>6. ASSUME NEW k \in Key, CrashAfterRemove(k)
      PROVE  [Delivery!DNext]_(Delivery!dvars)
  <2>1. /\ disk' = [disk EXCEPT ![k] = None] /\ UNCHANGED <<accepted, relayGot>>
        /\ \/ k \in acks /\ AckApplies(k) /\ UNCHANGED confirmed
           \/ /\ \E w \in writes : w.key = k /\ LegacyConfirms(w)
              /\ confirmed' = confirmed \cup {<<k, entries[k].content>>}
    BY <1>6 DEF CrashAfterRemove, Die
  <2>2. CASE k \in acks /\ AckApplies(k) /\ UNCHANGED confirmed
    BY <2>1, <2>2, <1>3
  <2>3. CASE /\ \E w \in writes : w.key = k /\ LegacyConfirms(w)
             /\ confirmed' = confirmed \cup {<<k, entries[k].content>>}
    BY <2>1, <2>3, <1>4
  <2>4. QED
    BY <2>1, <2>2, <2>3
<1>7. ASSUME NEW w \in writes, WriteConfirmed(w)
      PROVE  [Delivery!DNext]_(Delivery!dvars)
  BY <1>4, <1>7 DEF WriteConfirmed
<1>8. ASSUME NEW w \in writes,
             WriteSucceeded(w) \/ WriteConfirmedNotStored(w) \/ WriteFailed(w)
      PROVE  [Delivery!DNext]_(Delivery!dvars)
  BY <1>8, QuietSteps DEF WriteSucceeded, WriteConfirmedNotStored, WriteFailed, history
<1>9. ASSUME NEW k \in Key, AckIgnored(k) \/ AckNotStored(k)
      PROVE  [Delivery!DNext]_(Delivery!dvars)
  BY <1>9, QuietSteps DEF AckIgnored, AckNotStored, history
<1>10. ASSUME NEW k \in Key, NEW c \in Content, EnqueueRejected(k, c)
       PROVE  [Delivery!DNext]_(Delivery!dvars)
  BY <1>10, QuietSteps DEF EnqueueRejected, history
<1>11. ASSUME NEW mode \in DeliveryModes, Attach(mode)
       PROVE  [Delivery!DNext]_(Delivery!dvars)
  BY <1>11, QuietSteps DEF Attach, history
<1>12. CASE Connect \/ BeginClose \/ SocketClosed \/ AckTimeout \/ Crash \/ Restart
  BY <1>12, QuietSteps DEF Connect, BeginClose, SocketClosed, AckTimeout, Crash, Die, Restart,
     history
<1>13. CASE UNCHANGED vars
  BY <1>13, QuietSteps DEF vars, history
<1>14. QED
  BY <1>1, <1>2, <1>5, <1>6, <1>7, <1>8, <1>9, <1>10, <1>11, <1>12, <1>13 DEF Next

\* Seen from its callers, the outbox with its queue, sockets, timers, store and
\* crashes behaves as the delivery service does.
THEOREM OutboxImplementsDelivery == ASSUME ~LateCallbacks PROVE Spec => ImplementsDelivery
<1>1. Init => Delivery!DInit
  BY DEF Init, Delivery!DInit
<1>2. IInv /\ [Next]_vars => [Delivery!DNext]_(Delivery!dvars)
  BY StepImplements
<1>3. QED
  BY <1>1, <1>2, Invariance, PTL DEF Spec, ImplementsDelivery, Delivery!DSpec

---------------------------------------------------------------------------
(* The queue: QInv.  What Flush does to QueueInv is shown once; each       *)
(* action that ends with a flush has to show it of the turn it reaches.    *)

\* Taking a key out of a list of distinct keys keeps the others in order.
LEMMA WithoutSkips ==
  ASSUME NEW o \in Seq(Key), Distinct(o), NEW p \in DOMAIN o
  PROVE  LET w == Without(o, o[p]) IN
         /\ w \in Seq(Key) /\ Distinct(w)
         /\ \A x : Lists(w, x) <=> Lists(o, x) /\ x # o[p]
         /\ \A i, j \in DOMAIN w : i < j =>
              \E c, d \in DOMAIN o : c < d /\ w[i] = o[c] /\ w[j] = o[d]
<1> DEFINE w == Without(o, o[p])
           N == Len(o)
<1>1. N \in Nat \ {0} /\ DOMAIN o = 1..N /\ p \in 1..N /\ N - 1 \in Nat
  <2>1. N \in Nat /\ DOMAIN o = 1..N
    OBVIOUS
  <2>2. p \in 1..N
    BY <2>1
  <2>3. QED
    BY <2>1, <2>2
<1> HIDE DEF N
<1>2. (CHOOSE i \in DOMAIN o : o[i] = o[p]) = p
  BY DEF Distinct
<1>3. w = [i \in 1..(N - 1) |-> IF i < p THEN o[i] ELSE o[i + 1]]
  BY <1>2 DEF Without, N
<1> HIDE DEF w
<1> DEFINE f(i) == IF i < p THEN i ELSE i + 1
<1>4. w \in Seq(Key)
  BY WithoutType DEF w
<1>5. DOMAIN w = 1..(N - 1)
  BY <1>3
<1>6. \A i \in 1..(N - 1) : i \in Nat /\ i >= 1 /\ i <= N - 1
  BY <1>1
<1>7. \A i \in 1..(N - 1) : f(i) \in 1..N /\ f(i) # p
  BY <1>1, <1>6
<1>8. \A i, j \in 1..(N - 1) : i < j => f(i) < f(j)
  BY <1>1, <1>6
<1>9. \A i \in 1..(N - 1) : w[i] = o[f(i)]
  BY <1>3
<1>10. \A c \in 1..N : c # p => \E i \in 1..(N - 1) : f(i) = c
  <2> SUFFICES ASSUME NEW c \in 1..N, c # p
               PROVE  \E i \in 1..(N - 1) : f(i) = c
    OBVIOUS
  <2>1. CASE c < p
    <3>1. c \in 1..(N - 1) /\ f(c) = c
      BY <1>1, <2>1
    <3>2. QED
      BY <3>1
  <2>2. CASE ~(c < p)
    <3>1. c - 1 \in 1..(N - 1) /\ f(c - 1) = c
      BY <1>1, <2>2
    <3>2. QED
      BY <3>1
  <2>3. QED
    BY <2>1, <2>2
<1> HIDE DEF f
<1>11. \A i, j \in 1..(N - 1) : i < j =>
         \E c, d \in DOMAIN o : c < d /\ w[i] = o[c] /\ w[j] = o[d]
  BY <1>1, <1>7, <1>8, <1>9
<1>12. Distinct(w)
  <2> SUFFICES ASSUME NEW i \in 1..(N - 1), NEW j \in 1..(N - 1), w[i] = w[j]
               PROVE  i = j
    BY <1>5 DEF Distinct
  <2>1. f(i) = f(j)
    BY <1>1, <1>7, <1>9 DEF Distinct
  <2>2. i \in Nat /\ j \in Nat /\ f(i) \in 1..N /\ f(j) \in 1..N
    BY <1>6, <1>7
  <2>3. \A v \in 1..N : v \in Nat
    BY <1>1
  <2>4. ~(i < j) /\ ~(j < i)
    <3>1. ~(f(i) < f(j)) /\ ~(f(j) < f(i))
      BY <2>1, <2>2, <2>3
    <3>2. QED
      BY <3>1, <1>8
  <2>5. QED
    BY <2>2, <2>4
<1>13. \A x : Lists(w, x) <=> Lists(o, x) /\ x # o[p]
  <2>1. ASSUME NEW i \in 1..(N - 1)
        PROVE  Lists(o, w[i]) /\ w[i] # o[p]
    BY <1>1, <1>7, <1>9 DEF Lists, Distinct
  <2>2. ASSUME NEW c \in 1..N, o[c] # o[p]
        PROVE  Lists(w, o[c])
    <3>1. PICK i \in 1..(N - 1) : f(i) = c
      BY <2>2, <1>10
    <3>2. QED
      BY <3>1, <1>5, <1>9 DEF Lists
  <2>3. QED
    BY <2>1, <2>2, <1>1, <1>5 DEF Lists
<1>14. QED
  BY <1>4, <1>5, <1>11, <1>12, <1>13 DEF w

\* flush() writes the first entry that is not out, and nothing is left to
\* write when it does not write.
LEMMA FlushMoves ==
  ASSUME NEW t \in TurnSet, Flush(t), NEW n \in Nat, NEW m,
         ConnectionIsLive(t, n, m), QueueInv(t, n, m),
         \A k \in Key : t.entries[k].content # None <=> Lists(t.order, k)
  PROVE  QueueInv(Turn', n, m) /\ NoStall' /\ order' = t.order
<1>0. /\ Turn'.entries = entries' /\ Turn'.order = order' /\ Turn'.connection = connection'
      /\ Turn'.sending = sending' /\ Turn'.ackTimer = ackTimer' /\ Turn'.sock = sock'
  BY DEF Turn
<1>1. CASE ~CanWrite(t) /\ EndTurn(t)
  <2>1. /\ entries' = t.entries /\ order' = t.order /\ connection' = t.connection
        /\ sending' = t.sending /\ ackTimer' = t.ackTimer /\ sock' = t.sock
    BY <1>1 DEF EndTurn
  <2>2. NoStall'
    BY <1>1, <2>1 DEF NoStall, CanWrite
  <2>3. TimerArmed(Turn') /\ SocketsSeen(Turn', n, m)
    BY <1>0, <2>1 DEF QueueInv, TimerArmed, SocketsSeen, Out, Present
  <2>4. OutInOrder(Turn') /\ AttemptCounted(Turn')
    BY <1>0, <2>1 DEF QueueInv, OutInOrder, AttemptCounted, Out, BeingWritten
  <2>5. QED
    BY <2>1, <2>2, <2>3, <2>4 DEF QueueInv
<1>2. CASE CanWrite(t) /\ Unsent(t) = {} /\ EndTurn(ScheduleAckCheck(t))
  <2> DEFINE u == ScheduleAckCheck(t)
  <2>1. /\ u.entries = t.entries /\ u.order = t.order /\ u.connection = t.connection
        /\ u.sending = t.sending /\ u.sock = t.sock /\ TimerArmed(u)
    BY ScheduleEffect
  <2>2. /\ entries' = t.entries /\ order' = t.order /\ connection' = t.connection
        /\ sending' = t.sending /\ ackTimer' = u.ackTimer /\ sock' = t.sock
    BY <1>2, <2>1 DEF EndTurn
  <2> HIDE DEF u
  <2>3. NoStall'
    BY <1>2, <2>2 DEF NoStall, Unsent, Present
  <2>4. TimerArmed(Turn') /\ SocketsSeen(Turn', n, m)
    BY <1>0, <2>1, <2>2 DEF QueueInv, TimerArmed, SocketsSeen, Out, Present
  <2>5. OutInOrder(Turn') /\ AttemptCounted(Turn')
    BY <1>0, <2>2 DEF QueueInv, OutInOrder, AttemptCounted, Out, BeingWritten
  <2>6. QED
    BY <2>2, <2>3, <2>4, <2>5 DEF QueueInv
<1>3. ASSUME NEW k \in Key, CanWrite(t), First(t, k),
             EndTurn([t EXCEPT
               !.entries[k].attempt = t.entries[k].attempt + 1,
               !.sending = [key |-> k, socket |-> t.connection.socket,
                            attempt |-> t.entries[k].attempt + 1],
               !.writes = @ \cup {[key |-> k, socket |-> t.connection.socket,
                                   attempt |-> t.entries[k].attempt + 1,
                                   deliveryMode |-> t.connection.deliveryMode]}])
      PROVE  QueueInv(Turn', n, m) /\ NoStall' /\ order' = t.order
  <2> DEFINE x == t.entries[k].attempt + 1
  <2>1. /\ entries' = [t.entries EXCEPT ![k].attempt = x] /\ order' = t.order
        /\ connection' = t.connection /\ ackTimer' = t.ackTimer /\ sock' = t.sock
        /\ sending' = [key |-> k, socket |-> t.connection.socket, attempt |-> x]
    BY <1>3 DEF EndTurn, TurnSet
  <2>2. x \in Nat /\ x > 0 /\ t.entries \in [Key -> Entry] /\ t.order \in Seq(Key)
    BY TurnFields DEF Entry
  <2> HIDE DEF x
  <2>3. \A j \in Key : /\ entries'[j].content = t.entries[j].content
                       /\ entries'[j].sentSocket = t.entries[j].sentSocket
    BY <2>1, <2>2, AttemptUpdate
  <2>4. \A j \in Key : j # k => entries'[j].attempt = t.entries[j].attempt
    BY <2>1, <2>2
  <2>5. NoStall'
    BY <2>1, NoneIsNothing DEF NoStall, NotSending
  <2>6. TimerArmed(Turn') /\ SocketsSeen(Turn', n, m)
    BY <1>0, <2>1, <2>3 DEF QueueInv, TimerArmed, SocketsSeen, Out, Present
  <2>7. AttemptCounted(Turn')
    BY <1>0, <2>1, <2>2 DEF AttemptCounted
  <2>8. OutInOrder(Turn')
    <3> SUFFICES ASSUME NEW i \in DOMAIN t.order, NEW j \in DOMAIN t.order, i < j,
                        \/ t.entries[t.order[j]].sentSocket = t.connection.socket
                        \/ k = t.order[j]
                 PROVE  t.entries[t.order[i]].sentSocket = t.connection.socket
      <4>1. \A i \in DOMAIN t.order : t.order[i] \in Key
        BY <2>2
      <4>2. QED
        BY <4>1, <1>0, <2>1, <2>3 DEF OutInOrder, Out, BeingWritten
    <3>1. t.order[i] \in Key /\ i \in Nat /\ j \in Nat /\ t.connection # NoConnection
      BY <2>2, <1>3 DEF CanWrite
    <3>2. CASE t.entries[t.order[j]].sentSocket = t.connection.socket
      BY <3>1, <3>2 DEF QueueInv, OutInOrder, Out
    <3>3. CASE k = t.order[j]
      <4>1. SUFFICES ASSUME t.order[i] \in Unsent(t) PROVE FALSE
        BY <3>1 DEF Unsent, Present, Lists
      <4>2. Before(t.order, k, t.order[i])
        BY <1>3, <4>1 DEF First
      <4>3. j <= i
        BY <4>2, <3>3 DEF Before
      <4>4. QED
        BY <4>3, <3>1
    <3>4. QED
      BY <3>2, <3>3
  <2>9. QED
    BY <2>1, <2>5, <2>6, <2>7, <2>8 DEF QueueInv
<1>4. ASSUME NEW k \in Key, CanWrite(t),
             EndTurn(GiveUpConnection([t EXCEPT !.entries[k].attempt = @ + 1,
                                                !.entries[k].sentSocket = 0]))
      PROVE  QueueInv(Turn', n, m) /\ NoStall' /\ order' = t.order
  <2> DEFINE e == [t.entries EXCEPT ![k].attempt = t.entries[k].attempt + 1]
  <2>1. /\ entries' = [e EXCEPT ![k].sentSocket = 0] /\ order' = t.order
        /\ connection' = NoConnection /\ ackTimer' = FALSE
        /\ sending' = t.sending
    BY <1>4 DEF EndTurn, TurnSet, GiveUpConnection
  <2>2. t.entries \in [Key -> Entry] /\ t.entries[k].attempt + 1 \in Nat
    BY TurnFields DEF Entry
  <2>3. e \in [Key -> Entry] /\ \A j \in Key : e[j].sentSocket = t.entries[j].sentSocket
    BY <2>2, AttemptUpdate
  <2> HIDE DEF e
  <2>4. \A j \in Key : entries'[j].sentSocket \in {t.entries[j].sentSocket, 0}
    BY <2>1, <2>3 DEF Entry
  <2>5. m # None /\ t.connection # NoConnection
    BY <1>4 DEF CanWrite, ConnectionIsLive
  <2>6. SocketsSeen(Turn', n, m)
    BY <1>0, <2>4, <2>5 DEF QueueInv, SocketsSeen
  <2>7. TimerArmed(Turn') /\ OutInOrder(Turn') /\ AttemptCounted(Turn') /\ NoStall'
    <3>1. NoConnection.deliveryMode # Acknowledged
      BY NoneIsNothing DEF NoConnection
    <3>2. TimerArmed(Turn')
      BY <3>1, <1>0, <2>1 DEF TimerArmed
    <3>3. OutInOrder(Turn') /\ NoStall'
      BY <1>0, <2>1 DEF OutInOrder, NoStall
    <3>4. AttemptCounted(Turn')
      BY <1>0, <2>1 DEF QueueInv, AttemptCounted
    <3>5. QED
      BY <3>2, <3>3, <3>4
  <2>8. QED
    BY <2>1, <2>6, <2>7 DEF QueueInv
<1>5. QED
  BY <1>1, <1>2, <1>3, <1>4 DEF Flush

\* No step writes a message again on a connection that carries it or its ACK.
NoReplayStep ==
  \A k \in Key :
    /\ sending' # sending /\ sending'.key = k
    /\ relayMode' = Acknowledged
    => k \notin acks /\ (\A c \in Content : <<k, c>> \notin wire)

\* flush() writes only what an acknowledging connection does not carry.
LEMMA FlushWrites ==
  ASSUME NEW t \in TurnSet, Flush(t), NEW n, NEW m, NEW a, NEW g,
         TurnInv(t, n, m, wire, a, g)
  PROVE  \/ sending' = t.sending
         \/ \E k \in Present(t.entries) :
              sending'.key = k /\ (m = Acknowledged => ~OnTheWay(wire, a, k))
<1>1. CASE EndTurn(t) \/ EndTurn(ScheduleAckCheck(t))
  BY <1>1, ScheduleEffect DEF EndTurn
<1>2. ASSUME NEW k \in Key, CanWrite(t), First(t, k),
             sending' = [key |-> k, socket |-> t.connection.socket,
                         attempt |-> t.entries[k].attempt + 1]
      PROVE  k \in Present(t.entries) /\ (m = Acknowledged => ~OnTheWay(wire, a, k))
  <2>1. /\ t.connection # NoConnection /\ t.sending = NotSending
        /\ t.connection.socket = n
    BY <1>2 DEF CanWrite, TurnInv, ConnectionIsLive
  <2>2. k \in Present(t.entries) /\ t.entries[k].sentSocket # n
    BY <1>2, <2>1 DEF First, Unsent
  <2>3. QED
    BY <2>1, <2>2, NoneIsNothing DEF TurnInv, TrafficIsMarked, NotSending
<1>3. ASSUME NEW k \in Key, CanWrite(t), First(t, k),
             EndTurn([t EXCEPT
               !.entries[k].attempt = t.entries[k].attempt + 1,
               !.sending = [key |-> k, socket |-> t.connection.socket,
                            attempt |-> t.entries[k].attempt + 1],
               !.writes = @ \cup {[key |-> k, socket |-> t.connection.socket,
                                   attempt |-> t.entries[k].attempt + 1,
                                   deliveryMode |-> t.connection.deliveryMode]}])
      PROVE  sending' = [key |-> k, socket |-> t.connection.socket,
                         attempt |-> t.entries[k].attempt + 1]
  BY <1>3 DEF EndTurn, TurnSet
<1>4. ASSUME NEW k \in Key,
             EndTurn(GiveUpConnection([t EXCEPT !.entries[k].attempt = @ + 1,
                                                !.entries[k].sentSocket = 0]))
      PROVE  sending' = t.sending
  BY <1>4 DEF EndTurn, TurnSet, GiveUpConnection
<1>5. CASE \E k \in Key :
          LET x == t.entries[k].attempt + 1
              y == t.connection.socket
          IN /\ First(t, k)
             /\ EndTurn([t EXCEPT
                  !.entries[k].attempt = x,
                  !.sending = [key |-> k, socket |-> y, attempt |-> x],
                  !.writes = @ \cup {[key |-> k, socket |-> y, attempt |-> x,
                                      deliveryMode |-> t.connection.deliveryMode]}])
             /\ CanWrite(t)
  <2>1. PICK k \in Key : First(t, k) /\ CanWrite(t)
                         /\ sending' = [key |-> k, socket |-> t.connection.socket,
                                        attempt |-> t.entries[k].attempt + 1]
    BY <1>3, <1>5
  <2>2. sending'.key = k
    BY <2>1
  <2>3. QED
    BY <1>2, <2>1, <2>2
<1>6. QED
  BY <1>1, <1>4, <1>5 DEF Flush

\* What is left to show of a turn that ends with a flush.
LEMMA FlushedQueue ==
  ASSUME QInv, IInv', up', NEW u, Flushes(u),
         QueueInv(u, live', relayMode'), Distinct(u.order),
         \A k \in Key : u.entries[k].content # None <=> Lists(u.order, k),
         u.sending \in {sending, NotSending},
         \A k \in Key : OnTheWay(wire, acks, k) /\ u.entries[k].content # None =>
                          OnTheWay(wire, acks', k)
  PROVE  QInv' /\ NoReplayStep
<1>1. u \in TurnSet /\ Flush(u) /\ TurnInv(u, live', relayMode', wire, acks', relayGot')
  BY DEF Flushes
<1>2. live' \in Nat /\ relayMode' \in DeliveryModes \cup {None} /\ acks' \in SUBSET Key
  BY DEF IInv, TypeOK
<1>3. QueueInv(Turn, live, relayMode)' /\ NoStall' /\ order' = u.order
  <2>1. QueueInv(Turn', live', relayMode') /\ NoStall' /\ order' = u.order
    BY <1>1, <1>2, FlushMoves DEF TurnInv
  <2>2. QED
    BY <2>1
<1>4. \A k \in Key : disk'[k] = u.entries[k].content
  <2>1. \A k \in Key : entries'[k].content = u.entries[k].content
    BY <1>1, <1>2, FlushKeeps DEF FlushGoal
  <2>2. QED
    BY <2>1 DEF IInv, MemoryMirrorsStore
<1>5. QInv'
  BY <1>3, <1>4 DEF QInv, OrderIsStore
<1>6. NoReplayStep
  <2> SUFFICES ASSUME NEW k \in Key, sending' # sending, sending'.key = k,
                      relayMode' = Acknowledged
               PROVE  ~OnTheWay(wire, acks, k)
    BY DEF NoReplayStep, OnTheWay
  <2>1. sending' # u.sending
    BY NoneIsNothing DEF NotSending
  <2>2. k \in Present(u.entries) /\ ~OnTheWay(wire, acks', k)
    BY <1>1, <2>1, FlushWrites
  <2>3. QED
    BY <2>2 DEF Present
<1>7. QED
  BY <1>5, <1>6

\* What QInv says, in the form the action lemmas use.
LEMMA QueueFacts ==
  ASSUME QInv
  PROVE  /\ IInv /\ entries \in [Key -> Entry] /\ order \in Seq(Key) /\ live \in Nat
         /\ \A i \in DOMAIN order : i \in Nat /\ order[i] \in Key
         /\ connection # NoConnection =>
              /\ connection.socket = live /\ live > 0
              /\ connection.deliveryMode = relayMode /\ relayMode # None
         /\ connection.deliveryMode = Acknowledged => connection # NoConnection
         /\ sock # "down" => live > 0
         /\ Distinct(order)
         /\ up => \A k \in Key : entries[k].content # None <=> Lists(order, k)
<1>1. IInv /\ TypeOK
  BY DEF QInv, IInv
<1>2. order \in Seq(Key) /\ entries \in [Key -> Entry] /\ live \in Nat
  BY <1>1 DEF TypeOK
<1>3. ConnectionIsLive(Turn, live, relayMode)
  BY <1>1 DEF IInv, TurnInv
<1>4. connection # NoConnection =>
        /\ connection.socket = live /\ live > 0
        /\ connection.deliveryMode = relayMode /\ relayMode # None
  BY <1>3, TurnIs DEF ConnectionIsLive
<1>5. connection.deliveryMode = Acknowledged => connection # NoConnection
  BY NoneIsNothing DEF NoConnection
<1>6. sock # "down" => live > 0
  BY <1>3, TurnIs DEF ConnectionIsLive
<1>7. Distinct(order) /\ (up => \A k \in Key : entries[k].content # None <=> Lists(order, k))
  BY <1>1 DEF QInv, OrderIsStore, IInv, MemoryMirrorsStore
<1>8. \A i \in DOMAIN order : i \in Nat /\ order[i] \in Key
  BY <1>2
<1>9. QED
  BY <1>1, <1>2, <1>4, <1>5, <1>6, <1>7, <1>8

\* A new entry is last, and not out.
LEMMA EnqueueQueues ==
  ASSUME QInv, NEW k \in Key, NEW c \in Content, Enqueue(k, c)
  PROVE  QInv' /\ NoReplayStep
<1>0. /\ IInv /\ entries \in [Key -> Entry] /\ order \in Seq(Key) /\ live \in Nat
      /\ Distinct(order) /\ QueueInv(Turn, live, relayMode)
  BY QueueFacts DEF QInv
<1>1. /\ up /\ up' /\ entries[k].content = None /\ UNCHANGED <<live, relayMode, acks>>
  BY DEF Enqueue, IsNew
<1>2. IInv'
  BY <1>0, EnqueueKeeps
<1>3. PICK u : /\ Flushes(u)
               /\ u.entries = [entries EXCEPT ![k] = NewEntry(c)]
               /\ u.order = Append(order, k)
               /\ u.connection = connection /\ u.sending = sending
               /\ u.ackTimer = ackTimer /\ u.sock = sock
  BY <1>0, EnqueueKeeps
<1>4. /\ u.entries[k].content = c /\ u.entries[k].sentSocket = 0 /\ u.entries[k].attempt = 0
      /\ \A j \in Key : j # k => u.entries[j] = entries[j]
      /\ c # None
  BY <1>0, <1>3, NoneIsNothing DEF NewEntry
<1> DEFINE N == Len(order)
<1>5. /\ N \in Nat /\ DOMAIN order = 1..N /\ DOMAIN u.order = 1..(N + 1)
      /\ \A i \in 1..N : u.order[i] = order[i]
      /\ u.order[N + 1] = k
  BY <1>0, <1>3
<1> HIDE DEF N
<1>6. ~Lists(order, k)
  BY <1>1, QueueFacts
<1>7. \A i \in 1..(N + 1) : i \in Nat /\ (i \in 1..N \/ i = N + 1) /\ i <= N + 1
  BY <1>5
<1>8. connection # NoConnection => ~Out(u, k)
  <2>1. connection # NoConnection => connection.socket # 0
    BY <1>0, QueueFacts
  <2>2. QED
    BY <2>1, <1>3, <1>4 DEF Out
<1>9. TimerArmed(u)
  <2>1. ASSUME connection.deliveryMode = Acknowledged,
               NEW j \in Present(u.entries), Out(u, j)
        PROVE  ackTimer
    <3>1. j # k /\ j \in Key
      BY <2>1, <1>8, QueueFacts DEF Present
    <3>2. j \in Present(entries) /\ entries[j].sentSocket = connection.socket
      BY <2>1, <3>1, <1>3, <1>4 DEF Present, Out
    <3>3. QED
      BY <2>1, <3>2, <1>0, TurnIs DEF QueueInv, TimerArmed, Out
  <2>2. QED
    BY <2>1, <1>3 DEF TimerArmed
<1>10. SocketsSeen(u, live', relayMode')
  <2>1. sock # "down" => 0 < live
    BY QueueFacts
  <2>2. QED
    BY <2>1, <1>0, <1>1, <1>3, <1>4, TurnIs DEF QueueInv, SocketsSeen
<1>11. AttemptCounted(u)
  BY <1>0, <1>3, TurnIs DEF QueueInv, AttemptCounted
<1>12. ~BeingWritten(u, k)
  BY <1>3, <1>4, <1>11, NoneIsNothing DEF BeingWritten, AttemptCounted, NotSending
<1>13. OutInOrder(u)
  <2> SUFFICES ASSUME connection # NoConnection,
                      NEW i \in 1..(N + 1), NEW j \in 1..(N + 1), i < j,
                      Out(u, u.order[j]) \/ BeingWritten(u, u.order[j])
               PROVE  Out(u, u.order[i])
    BY <1>3, <1>5 DEF OutInOrder
  <2>1. j \in 1..N
    BY <1>5, <1>7, <1>8, <1>12
  <2>2. i \in 1..N
    BY <2>1, <1>5, <1>7
  <2>3. /\ u.order[i] = order[i] /\ u.order[j] = order[j] /\ order[i] # k /\ order[j] # k
        /\ order[i] \in Key /\ order[j] \in Key
    BY <2>1, <2>2, <1>0, <1>5, <1>6 DEF Lists
  <2>4. Out(Turn, order[j]) \/ BeingWritten(Turn, order[j])
    BY <2>3, <1>3, <1>4, TurnIs DEF Out, BeingWritten
  <2>5. Out(Turn, order[i])
    BY <2>1, <2>2, <2>4, <1>0, <1>5, TurnIs DEF QueueInv, OutInOrder
  <2>6. QED
    BY <2>3, <2>5, <1>3, <1>4, TurnIs DEF Out
<1>14. QueueInv(u, live', relayMode')
  BY <1>9, <1>10, <1>11, <1>13 DEF QueueInv
<1>15. Distinct(u.order)
  <2>1. \A i \in 1..N : order[i] # k
    BY <1>5, <1>6 DEF Lists
  <2>2. \A i, j \in 1..N : order[i] = order[j] => i = j
    BY <1>0, <1>5 DEF Distinct
  <2>3. QED
    BY <2>1, <2>2, <1>5, <1>7 DEF Distinct
<1>16. \A j \in Key : u.entries[j].content # None <=> Lists(u.order, j)
  <2>1. \A j \in Key : Lists(u.order, j) <=> Lists(order, j) \/ j = k
    <3>1. N + 1 \in 1..(N + 1) /\ \A i \in 1..N : i \in 1..(N + 1)
      BY <1>5
    <3>2. QED
      BY <3>1, <1>5, <1>7 DEF Lists
  <2>2. \A j \in Key : entries[j].content # None <=> Lists(order, j)
    BY <1>1, QueueFacts
  <2>3. QED
    BY <2>1, <2>2, <1>4
<1>17. u.sending \in {sending, NotSending}
  BY <1>3
<1>18. \A j \in Key : OnTheWay(wire, acks, j) => OnTheWay(wire, acks', j)
  BY <1>1
<1>19. QED
  BY <1>1, <1>2, <1>3, <1>14, <1>15, <1>16, <1>17, <1>18, FlushedQueue

\* The first hello of a socket: nothing is marked with its number yet.
LEMMA AttachQueues ==
  ASSUME QInv, NEW mode \in DeliveryModes, Attach(mode)
  PROVE  QInv' /\ NoReplayStep
<1>0. /\ IInv /\ entries \in [Key -> Entry] /\ order \in Seq(Key) /\ live \in Nat
      /\ Distinct(order) /\ QueueInv(Turn, live, relayMode)
      /\ \A i \in DOMAIN order : order[i] \in Key
  BY QueueFacts DEF QInv
<1>1. /\ sock # "down" /\ relayMode = None /\ relayMode' = mode
      /\ UNCHANGED <<up, live, acks>>
  BY DEF Attach
<1>2. up /\ up'
  BY <1>0, <1>1, AliveIfBusy
<1>3. IInv'
  BY <1>0, AttachKeeps
<1>4. PICK u : /\ Flushes(u)
               /\ u.entries = entries /\ u.order = order
               /\ u.sending = NotSending /\ u.ackTimer = FALSE /\ u.sock = sock
               /\ u.connection = [socket |-> live, deliveryMode |-> mode]
  BY <1>0, AttachKeeps
<1>5. \A k \in Key : ~Out(u, k) /\ ~BeingWritten(u, k)
  <2>1. \A k \in Key : entries[k].sentSocket < live /\ entries[k].sentSocket \in Nat
    BY <1>0, <1>1, TurnIs DEF QueueInv, SocketsSeen, Entry
  <2>2. \A k \in Key : entries[k].sentSocket # live
    BY <2>1, <1>0
  <2>3. QED
    BY <2>2, <1>4, NoneIsNothing DEF Out, BeingWritten, NotSending
<1>6. TimerArmed(u) /\ OutInOrder(u)
  BY <1>0, <1>4, <1>5 DEF TimerArmed, OutInOrder, Present
<1>7. SocketsSeen(u, live', relayMode') /\ AttemptCounted(u)
  <2>1. mode # None
    BY ModesAreKnown, NoneIsNothing
  <2>2. QED
    BY <2>1, <1>0, <1>1, <1>4, TurnIs DEF QueueInv, SocketsSeen, AttemptCounted
<1>8. QueueInv(u, live', relayMode')
  BY <1>6, <1>7 DEF QueueInv
<1>9. Distinct(u.order) /\ \A k \in Key : u.entries[k].content # None <=> Lists(u.order, k)
  BY <1>2, <1>4, QueueFacts
<1>10. \A k \in Key : OnTheWay(wire, acks, k) => OnTheWay(wire, acks', k)
  BY <1>1
<1>11. u.sending \in {sending, NotSending}
  BY <1>4
<1>12. QED
  BY <1>2, <1>3, <1>4, <1>8, <1>9, <1>10, <1>11, FlushedQueue

\* The mode a pending write found is the mode of a hello.
LEMMA HelloSaid ==
  ASSUME IInv, NEW w \in writes
  PROVE  relayMode # None
<1>1. w \in WriteSet /\ w.deliveryMode = relayMode
  BY CallbackFacts
<1>2. QED
  BY <1>1, ModesAreKnown, NoneIsNothing DEF WriteSet

\* settle() without an error: the entry written last is out.
LEMMA WriteSucceededQueues ==
  ASSUME QInv, NEW w \in writes, WriteSucceeded(w)
  PROVE  QInv' /\ NoReplayStep
<1>0. /\ IInv /\ order \in Seq(Key) /\ live \in Nat
      /\ Distinct(order) /\ QueueInv(Turn, live, relayMode)
      /\ \A i \in DOMAIN order : order[i] \in Key
  BY QueueFacts DEF QInv
<1>1. up /\ UNCHANGED <<up, live, relayMode, acks>> /\ relayMode # None
  BY <1>0, CallbackFacts, HelloSaid DEF WriteSucceeded
<1>2. IInv'
  BY <1>0, WriteSucceededKeeps
<1>3. PICK u : /\ Flushes(u) /\ TimerArmed(u)
               /\ u.order = order /\ u.sending = NotSending
               /\ u.connection = connection
               /\ \A j \in Key :
                    /\ u.entries[j].content = entries[j].content
                    /\ \/ u.entries[j].sentSocket = entries[j].sentSocket
                       \/ /\ u.entries[j].sentSocket = live
                          /\ BeingWritten(Turn, j)
  BY <1>0, WriteSucceededKeeps
<1>4. SocketsSeen(u, live', relayMode')
  <2>1. live <= live
    BY <1>0
  <2>2. QED
    BY <2>1, <1>0, <1>1, <1>3, TurnIs DEF QueueInv, SocketsSeen
<1>5. AttemptCounted(u)
  BY <1>3 DEF AttemptCounted
<1>6. OutInOrder(u)
  <2> SUFFICES ASSUME connection # NoConnection,
                      NEW i \in DOMAIN order, NEW j \in DOMAIN order, i < j,
                      Out(u, order[j]) \/ BeingWritten(u, order[j])
               PROVE  Out(u, order[i])
    BY <1>3 DEF OutInOrder
  <2>1. order[i] \in Key /\ order[j] \in Key
    BY <1>0
  <2>2. ~BeingWritten(u, order[j])
    BY <2>1, <1>3, NoneIsNothing DEF BeingWritten, NotSending
  <2>3. connection.socket = live
    BY QueueFacts
  <2>4. Out(Turn, order[j]) \/ BeingWritten(Turn, order[j])
    BY <2>1, <2>2, <2>3, <1>3, TurnIs DEF Out
  <2>5. Out(Turn, order[i])
    BY <2>4, <1>0, TurnIs DEF QueueInv, OutInOrder
  <2>6. QED
    BY <2>1, <2>3, <2>5, <1>3, TurnIs DEF Out
<1>7. QueueInv(u, live', relayMode')
  BY <1>3, <1>4, <1>5, <1>6 DEF QueueInv
<1>8. Distinct(u.order) /\ \A k \in Key : u.entries[k].content # None <=> Lists(u.order, k)
  BY <1>1, <1>3, QueueFacts
<1>9. \A k \in Key : OnTheWay(wire, acks, k) => OnTheWay(wire, acks', k)
  BY <1>1
<1>10. u.sending \in {sending, NotSending}
  BY <1>3
<1>11. QED
  BY <1>1, <1>2, <1>3, <1>7, <1>8, <1>9, <1>10, FlushedQueue

\* remove() leaves the rest of the queue as it was.
LEMMA RemovalKeeps ==
  ASSUME QInv, up, NEW k \in Key, entries[k].content # None, relayMode # None,
         NEW u, TimerArmed(u), u.entries = [entries EXCEPT ![k] = NoEntry],
         u.order = Without(order, k), u.connection = connection,
         u.sending \in {sending, NotSending}
  PROVE  /\ QueueInv(u, live, relayMode) /\ Distinct(u.order)
         /\ \A j \in Key : u.entries[j].content # None <=> Lists(u.order, j)
<1>0. /\ entries \in [Key -> Entry] /\ order \in Seq(Key) /\ live \in Nat
      /\ Distinct(order) /\ QueueInv(Turn, live, relayMode)
      /\ \A i \in DOMAIN order : i \in Nat /\ order[i] \in Key
      /\ \A j \in Key : entries[j].content # None <=> Lists(order, j)
  BY QueueFacts DEF QInv
<1>1. PICK p \in DOMAIN order : order[p] = k
  BY <1>0 DEF Lists
<1>2. /\ u.order \in Seq(Key) /\ Distinct(u.order)
      /\ \A x : Lists(u.order, x) <=> Lists(order, x) /\ x # k
      /\ \A i, j \in DOMAIN u.order : i < j =>
           \E c, d \in DOMAIN order : c < d /\ u.order[i] = order[c] /\ u.order[j] = order[d]
  BY <1>0, <1>1, WithoutSkips
<1>3. /\ u.entries[k] = NoEntry
      /\ \A j \in Key : j # k => u.entries[j] = entries[j]
  BY <1>0
<1>4. SocketsSeen(u, live, relayMode)
  <2>1. 0 <= live
    BY <1>0
  <2>2. QED
    BY <2>1, <1>0, <1>3, TurnIs DEF QueueInv, SocketsSeen, NoEntry
<1>5. AttemptCounted(u)
  BY <1>0, TurnIs DEF QueueInv, AttemptCounted
<1>6. OutInOrder(u)
  <2> SUFFICES ASSUME connection # NoConnection,
                      NEW i \in DOMAIN u.order, NEW j \in DOMAIN u.order, i < j,
                      Out(u, u.order[j]) \/ BeingWritten(u, u.order[j])
               PROVE  Out(u, u.order[i])
    BY DEF OutInOrder
  <2>1. PICK c \in DOMAIN order, d \in DOMAIN order :
               c < d /\ u.order[i] = order[c] /\ u.order[j] = order[d]
    BY <1>2
  <2>2. /\ order[c] \in Key /\ order[d] \in Key
        /\ u.entries[order[c]] = entries[order[c]] /\ u.entries[order[d]] = entries[order[d]]
    <3>1. Lists(u.order, u.order[i]) /\ Lists(u.order, u.order[j])
      BY DEF Lists
    <3>2. u.order[i] # k /\ u.order[j] # k
      BY <3>1, <1>2
    <3>3. QED
      BY <3>2, <2>1, <1>0, <1>3
  <2>3. Out(Turn, order[d]) \/ BeingWritten(Turn, order[d])
    <3>1. BeingWritten(u, order[d]) => u.sending = sending
      BY <2>2, NoneIsNothing DEF BeingWritten, NotSending
    <3>2. QED
      BY <3>1, <2>1, <2>2, TurnIs DEF Out, BeingWritten
  <2>4. Out(Turn, order[c])
    BY <2>1, <2>3, <1>0, TurnIs DEF QueueInv, OutInOrder
  <2>5. QED
    BY <2>1, <2>2, <2>4, TurnIs DEF Out
<1>7. QueueInv(u, live, relayMode)
  BY <1>4, <1>5, <1>6 DEF QueueInv
<1>8. \A j \in Key : u.entries[j].content # None <=> Lists(u.order, j)
  BY <1>0, <1>2, <1>3 DEF NoEntry
<1>9. QED
  BY <1>2, <1>7, <1>8

\* settle() on a legacy connection.
LEMMA WriteConfirmedQueues ==
  ASSUME QInv, NEW w \in writes, WriteConfirmed(w)
  PROVE  QInv' /\ NoReplayStep
<1>0. IInv
  BY DEF QInv
<1>1. /\ up /\ UNCHANGED <<up, live, relayMode, acks>> /\ relayMode # None
      /\ w.key \in Key /\ entries[w.key].content # None
  BY <1>0, CallbackFacts, HelloSaid
     DEF WriteConfirmed, LegacyConfirms, IsCurrentAttempt, WriteSet
<1>2. IInv'
  BY <1>0, WriteConfirmedKeeps
<1>3. PICK u : /\ Flushes(u) /\ TimerArmed(u)
               /\ u.entries = [entries EXCEPT ![w.key] = NoEntry]
               /\ u.order = Without(order, w.key)
               /\ u.connection = connection /\ u.sending = NotSending
  BY <1>0, WriteConfirmedKeeps
<1>4. u.sending \in {sending, NotSending}
  BY <1>3
<1>5. /\ QueueInv(u, live', relayMode') /\ Distinct(u.order)
      /\ \A j \in Key : u.entries[j].content # None <=> Lists(u.order, j)
  BY <1>1, <1>3, <1>4, RemovalKeeps
<1>6. \A k \in Key : OnTheWay(wire, acks, k) => OnTheWay(wire, acks', k)
  BY <1>1
<1>7. QED
  BY <1>1, <1>2, <1>3, <1>4, <1>5, <1>6, FlushedQueue

\* acknowledge(): the ACK that is gone was about the entry that is gone.
LEMMA AckRemovesQueues ==
  ASSUME QInv, NEW k \in Key, AckRemoves(k)
  PROVE  QInv' /\ NoReplayStep
<1>0. IInv
  BY DEF QInv
<1>1. /\ k \in acks /\ AckApplies(k) /\ acks' = acks \ {k}
      /\ UNCHANGED <<up, live, relayMode>>
  BY DEF AckRemoves
<1>2. up /\ relayMode # None /\ entries[k].content # None
  BY <1>0, <1>1, AckFacts, NoneIsNothing DEF AckApplies
<1>3. IInv'
  BY <1>0, AckRemovesKeeps
<1>4. PICK u : /\ Flushes(u) /\ TimerArmed(u)
               /\ u.entries = [entries EXCEPT ![k] = NoEntry]
               /\ u.order = Without(order, k)
               /\ u.connection = connection /\ u.sending = sending
  BY <1>0, AckRemovesKeeps
<1>5. u.sending \in {sending, NotSending}
  BY <1>4
<1>6. /\ QueueInv(u, live', relayMode') /\ Distinct(u.order)
      /\ \A j \in Key : u.entries[j].content # None <=> Lists(u.order, j)
  BY <1>1, <1>2, <1>4, <1>5, RemovalKeeps
<1>7. u.entries[k].content = None
  BY <1>0, <1>4, Facts DEF NoEntry
<1>8. \A j \in Key : OnTheWay(wire, acks, j) /\ u.entries[j].content # None =>
                       OnTheWay(wire, acks', j)
  BY <1>1, <1>7 DEF OnTheWay
<1>9. QED
  BY <1>1, <1>2, <1>3, <1>4, <1>5, <1>6, <1>8, FlushedQueue

\* settle() with a failing store, and settle() with an error: what the
\* connection was given up for stays in the queue.
LEMMA GivenUpQueues ==
  ASSUME QInv, IInv', up, UNCHANGED <<up, live, relayMode, acks>>, relayMode # None,
         NEW u, Flushes(u), TimerArmed(u), u.order = order, u.sending = NotSending,
         u.connection # NoConnection => u.connection = connection /\ u.entries = entries,
         \A j \in Key : /\ u.entries[j].content = entries[j].content
                        /\ u.entries[j].sentSocket \in {entries[j].sentSocket, 0}
  PROVE  QInv' /\ NoReplayStep
<1>0. /\ live \in Nat /\ QueueInv(Turn, live, relayMode)
      /\ \A i \in DOMAIN order : order[i] \in Key
  BY QueueFacts DEF QInv
<1>1. SocketsSeen(u, live', relayMode')
  <2>1. 0 <= live
    BY <1>0
  <2>2. QED
    BY <2>1, <1>0, TurnIs DEF QueueInv, SocketsSeen
<1>2. OutInOrder(u) /\ AttemptCounted(u)
  <2>1. \A i \in DOMAIN order : ~BeingWritten(u, order[i])
    BY <1>0, NoneIsNothing DEF BeingWritten, NotSending
  <2>2. QED
    BY <2>1, <1>0, TurnIs DEF QueueInv, OutInOrder, AttemptCounted, Out
<1>3. QueueInv(u, live', relayMode')
  BY <1>1, <1>2 DEF QueueInv
<1>4. Distinct(u.order) /\ \A k \in Key : u.entries[k].content # None <=> Lists(u.order, k)
  BY QueueFacts
<1>5. \A k \in Key : OnTheWay(wire, acks, k) => OnTheWay(wire, acks', k)
  OBVIOUS
<1>6. u.sending \in {sending, NotSending}
  OBVIOUS
<1>7. QED
  BY <1>3, <1>4, <1>5, <1>6, FlushedQueue

\* The legacy confirmation the store cannot record.
LEMMA WriteConfirmedNotStoredQueues ==
  ASSUME QInv, NEW w \in writes, WriteConfirmedNotStored(w)
  PROVE  QInv' /\ NoReplayStep
<1>0. IInv
  BY DEF QInv
<1>1. up /\ UNCHANGED <<up, live, relayMode, acks>> /\ relayMode # None
  BY <1>0, CallbackFacts, HelloSaid DEF WriteConfirmedNotStored
<1>2. IInv'
  BY <1>0, WriteConfirmedNotStoredKeeps
<1>3. PICK u : /\ Flushes(u) /\ TimerArmed(u)
               /\ u.entries = entries /\ u.order = order
               /\ u.connection = NoConnection /\ u.sending = NotSending
  BY <1>0, WriteConfirmedNotStoredKeeps
<1>4. \A j \in Key : /\ u.entries[j].content = entries[j].content
                     /\ u.entries[j].sentSocket \in {entries[j].sentSocket, 0}
  BY <1>3
<1>5. QED
  BY <1>1, <1>2, <1>3, <1>4, GivenUpQueues

\* The write that failed.
LEMMA WriteFailedQueues ==
  ASSUME QInv, NEW w \in writes, WriteFailed(w)
  PROVE  QInv' /\ NoReplayStep
<1>0. IInv
  BY DEF QInv
<1>1. up /\ UNCHANGED <<up, live, relayMode, acks>> /\ relayMode # None
  BY <1>0, CallbackFacts, HelloSaid DEF WriteFailed
<1>2. IInv'
  BY <1>0, WriteFailedKeeps
<1>3. PICK u : /\ Flushes(u) /\ TimerArmed(u)
               /\ u.order = order /\ u.sending = NotSending
               /\ u.connection # NoConnection =>
                    u.connection = connection /\ u.entries = entries
               /\ \A j \in Key :
                    /\ u.entries[j].content = entries[j].content
                    /\ u.entries[j].sentSocket \in {entries[j].sentSocket, 0}
  BY <1>0, WriteFailedKeeps
<1>4. QED
  BY <1>1, <1>2, <1>3, GivenUpQueues

\* A turn without a flush that leaves the connection, or never had one.
LEMMA DisconnectedQueues ==
  ASSUME QInv, IInv', connection' = NoConnection, sending' \in {sending, NotSending},
         \A k \in Key : entries'[k].sentSocket \in {entries[k].sentSocket, 0},
         live' = live,
         sock' # "down" => sock # "down" /\ relayMode' = relayMode,
         OrderIsStore'
  PROVE  QInv' /\ NoReplayStep
<1>0. /\ Turn'.entries = entries' /\ Turn'.connection = connection'
      /\ Turn'.sending = sending' /\ Turn'.sock = sock'
  BY DEF Turn
<1>1. QueueInv(Turn, live, relayMode) /\ live \in Nat /\ (sock # "down" => live > 0)
  BY QueueFacts DEF QInv
<1>2. TimerArmed(Turn')
  <2>1. NoConnection.deliveryMode # Acknowledged
    BY NoneIsNothing DEF NoConnection
  <2>2. QED
    BY <2>1, <1>0 DEF TimerArmed
<1>3. SocketsSeen(Turn', live', relayMode')
  <2>1. 0 <= live /\ (sock # "down" => 0 < live)
    BY <1>1
  <2>2. QED
    BY <2>1, <1>0, <1>1, TurnIs DEF QueueInv, SocketsSeen
<1>4. OutInOrder(Turn') /\ NoStall'
  BY <1>0 DEF OutInOrder, NoStall
<1>5. AttemptCounted(Turn')
  BY <1>0, <1>1, TurnIs DEF QueueInv, AttemptCounted
<1>6. QInv'
  BY <1>2, <1>3, <1>4, <1>5 DEF QInv, QueueInv
<1>7. NoReplayStep
  BY NoneIsNothing DEF NoReplayStep, NotSending
<1>8. QED
  BY <1>6, <1>7

\* The socket is closed, the connection given up: the queue stays.
LEMMA ClosingQueues ==
  ASSUME ~LateCallbacks, QInv,
         SocketClosed \/ AckTimeout \/ \E k \in Key : AckNotStored(k)
  PROVE  QInv' /\ NoReplayStep
<1>0. IInv
  BY DEF QInv
<1>1. IInv'
  BY <1>0, SocketClosedKeeps, AckTimeoutKeeps, AckNotStoredKeeps
<1>2. CASE SocketClosed
  <2>1. /\ sock = "closing" /\ writes = {} /\ UNCHANGED <<disk, live>>
    BY <1>2 DEF SocketClosed
  <2>2. WriteIsSending(Turn, live, relayMode) /\ ConnectionIsLive(Turn, live, relayMode)
    BY <1>0, Facts DEF TurnInv
  <2>3. sending = NotSending /\ live > 0
    BY <2>1, <2>2, TurnIs DEF WriteIsSending, ConnectionIsLive
  <2>4. sending.socket # live
    BY <2>3, <1>0, Facts DEF NotSending, RestTypeOK
  <2>5. /\ entries' = entries /\ order' = order /\ sending' = sending /\ sock' = "down"
        /\ connection' = IF connection.socket = live THEN NoConnection ELSE connection
    BY <1>2, <2>4, TurnIs DEF SocketClosed, EndTurn, Turn
  <2>6. connection' = NoConnection
    BY <2>2, <2>5, TurnIs DEF ConnectionIsLive
  <2>7. OrderIsStore'
    BY <2>1, <2>5 DEF QInv, OrderIsStore
  <2>8. QED
    BY <1>1, <2>1, <2>5, <2>6, <2>7, DisconnectedQueues
<1>3. CASE AckTimeout \/ \E k \in Key : AckNotStored(k)
  <2>1. EndTurn(GiveUpConnection(Turn)) /\ UNCHANGED <<live, relayMode, disk>>
    BY <1>3 DEF AckTimeout, AckNotStored
  <2>2. /\ entries' = entries /\ order' = order /\ sending' = sending
        /\ connection' = NoConnection
        /\ sock' = IF sock = "open" THEN "closing" ELSE sock
    BY <2>1 DEF EndTurn, GiveUpConnection, Turn
  <2>3. OrderIsStore'
    BY <2>1, <2>2 DEF QInv, OrderIsStore
  <2>4. QED
    BY <1>1, <2>1, <2>2, <2>3, DisconnectedQueues
<1>4. QED
  BY <1>2, <1>3

\* A new socket has a number of its own.
LEMMA ConnectQueues ==
  ASSUME QInv, Connect
  PROVE  QInv' /\ NoReplayStep
<1>1. /\ sock = "down" /\ live' = live + 1 /\ sock' = "open"
      /\ UNCHANGED <<entries, order, connection, sending, ackTimer, disk, relayMode>>
  BY DEF Connect, outbox
<1>2. /\ IInv /\ live \in Nat /\ QueueInv(Turn, live, relayMode) /\ OrderIsStore
      /\ entries \in [Key -> Entry]
  BY QueueFacts DEF QInv
<1>3. IInv'
  BY <1>1, <1>2, ConnectKeeps
<1>4. connection = NoConnection
  BY <1>1, <1>2, Facts, TurnIs DEF TurnInv, ConnectionIsLive
<1>5. /\ Turn'.entries = entries /\ Turn'.order = order /\ Turn'.connection = connection
      /\ Turn'.sending = sending /\ Turn'.ackTimer = ackTimer /\ Turn'.sock = "open"
  BY <1>1 DEF Turn
<1>6. SocketsSeen(Turn', live', relayMode')
  <2>1. \A k \in Key : entries[k].sentSocket \in Nat /\ entries[k].sentSocket <= live
    BY <1>2, TurnIs DEF QueueInv, SocketsSeen, Entry
  <2>2. \A k \in Key : entries[k].sentSocket < live' /\ entries[k].sentSocket <= live'
    BY <2>1, <1>1, <1>2
  <2>3. QED
    BY <2>2, <1>5 DEF SocketsSeen
<1>7. TimerArmed(Turn') /\ OutInOrder(Turn') /\ AttemptCounted(Turn')
  BY <1>2, <1>5, TurnIs DEF QueueInv, TimerArmed, OutInOrder, AttemptCounted, Out,
     BeingWritten, Present
<1>8. OrderIsStore' /\ NoStall'
  BY <1>1, <1>2, <1>4 DEF OrderIsStore, NoStall
<1>9. QED
  BY <1>1, <1>3, <1>6, <1>7, <1>8 DEF QInv, QueueInv, NoReplayStep

\* Steps the outbox has no part in, or only a socket that starts to close.
LEMMA OutsideQueues ==
  ASSUME QInv, IInv', UNCHANGED <<outbox, disk, live, relayMode>>,
         sock' = sock \/ (sock = "open" /\ sock' = "closing")
  PROVE  QInv' /\ NoReplayStep
<1>1. UNCHANGED <<entries, order, connection, sending, ackTimer, disk, live, relayMode>>
  BY DEF outbox
<1>2. QueueInv(Turn, live, relayMode) /\ OrderIsStore /\ NoStall
  BY DEF QInv
<1>3. /\ Turn'.entries = entries /\ Turn'.order = order /\ Turn'.connection = connection
      /\ Turn'.sending = sending /\ Turn'.ackTimer = ackTimer /\ Turn'.sock = sock'
  BY <1>1 DEF Turn
<1>4. SocketsSeen(Turn', live', relayMode')
  BY <1>1, <1>2, <1>3, TurnIs DEF QueueInv, SocketsSeen
<1>5. TimerArmed(Turn') /\ OutInOrder(Turn') /\ AttemptCounted(Turn')
  BY <1>2, <1>3, TurnIs DEF QueueInv, TimerArmed, OutInOrder, AttemptCounted, Out,
     BeingWritten, Present
<1>6. OrderIsStore' /\ NoStall'
  BY <1>1, <1>2 DEF OrderIsStore, NoStall
<1>7. QED
  BY <1>1, <1>4, <1>5, <1>6 DEF QInv, QueueInv, NoReplayStep

\* The process that dies takes the connection with it; what it stored last, or
\* removed last, the order of the store has.
LEMMA CrashQueues ==
  ASSUME QInv,
         \/ Crash
         \/ \E k \in Key, c \in Content : CrashAfterPut(k, c)
         \/ \E k \in Key : CrashAfterRemove(k)
  PROVE  QInv' /\ NoReplayStep
<1>0. /\ IInv /\ order \in Seq(Key) /\ Distinct(order) /\ OrderIsStore
      /\ disk \in [Key -> Content \cup {None}]
  BY QueueFacts DEF QInv, IInv, TypeOK
<1>1. IInv'
  BY <1>0, CrashKeeps, CrashAfterPutKeeps, CrashAfterRemoveKeeps
<1>2. Die /\ up
  BY DEF Crash, CrashAfterPut, CrashAfterRemove
<1>3. /\ connection' = NoConnection /\ sending' = NotSending /\ sock' = "down" /\ live' = live
      /\ \A k \in Key : entries'[k].sentSocket = 0
  BY <1>2 DEF Die, NoEntry
<1>4. \A k \in Key : entries[k].content = disk[k]
  BY <1>0, <1>2 DEF IInv, MemoryMirrorsStore
<1>5. ASSUME Crash
      PROVE  OrderIsStore'
  BY <1>0, <1>5 DEF Crash, OrderIsStore
<1>6. ASSUME NEW k \in Key, NEW c \in Content, CrashAfterPut(k, c)
      PROVE  OrderIsStore'
  <2>1. /\ disk' = [disk EXCEPT ![k] = c] /\ order' = Append(order, k) /\ disk[k] = None
        /\ c # None
    BY <1>4, <1>6, NoneIsNothing DEF CrashAfterPut, IsNew
  <2> DEFINE N == Len(order)
  <2>2. /\ N \in Nat /\ DOMAIN order = 1..N /\ DOMAIN order' = 1..(N + 1)
        /\ \A i \in 1..N : order'[i] = order[i]
        /\ order'[N + 1] = k
    BY <1>0, <2>1
  <2> HIDE DEF N
  <2>3. \A i \in 1..(N + 1) : i \in Nat /\ (i \in 1..N \/ i = N + 1)
    BY <2>2
  <2>4. N + 1 \in 1..(N + 1) /\ \A i \in 1..N : i \in 1..(N + 1)
    BY <2>2
  <2>5. ~Lists(order, k)
    BY <1>0, <2>1 DEF OrderIsStore
  <2>6. Distinct(order')
    <3>1. \A i \in 1..N : order[i] # k
      BY <2>2, <2>5 DEF Lists
    <3>2. \A i, j \in 1..N : order[i] = order[j] => i = j
      BY <1>0, <2>2 DEF Distinct
    <3>3. QED
      BY <3>1, <3>2, <2>2, <2>3 DEF Distinct
  <2>7. \A j \in Key : Lists(order', j) <=> Lists(order, j) \/ j = k
    BY <2>2, <2>3, <2>4 DEF Lists
  <2>8. \A j \in Key : disk'[j] # None <=> disk[j] # None \/ j = k
    BY <1>0, <2>1
  <2>9. QED
    BY <2>6, <2>7, <2>8, <1>0 DEF OrderIsStore
<1>7. ASSUME NEW k \in Key, CrashAfterRemove(k)
      PROVE  OrderIsStore'
  <2>1. /\ disk' = [disk EXCEPT ![k] = None] /\ order' = Without(order, k)
        /\ entries[k].content # None
    BY <1>7 DEF CrashAfterRemove, AckApplies, LegacyConfirms, IsCurrentAttempt
  <2>2. PICK p \in DOMAIN order : order[p] = k
    BY <1>0, <1>4, <2>1 DEF OrderIsStore, Lists
  <2>3. Distinct(order') /\ \A x : Lists(order', x) <=> Lists(order, x) /\ x # k
    BY <1>0, <2>1, <2>2, WithoutSkips
  <2>4. \A j \in Key : disk'[j] # None <=> disk[j] # None /\ j # k
    BY <1>0, <2>1
  <2>5. QED
    BY <2>3, <2>4, <1>0 DEF OrderIsStore
<1>8. OrderIsStore'
  BY <1>5, <1>6, <1>7
<1>9. QED
  BY <1>1, <1>3, <1>8, DisconnectedQueues

\* restore() starts with no connection and with the order of the store.
LEMMA RestartQueues ==
  ASSUME QInv, Restart
  PROVE  QInv' /\ NoReplayStep
<1>1. /\ ~up /\ entries' = [k \in Key |-> NewEntry(disk[k])]
      /\ UNCHANGED <<order, connection, sending, disk, live, sock, relayMode>>
  BY DEF Restart, channel
<1>2. IInv /\ OrderIsStore
  BY DEF QInv
<1>3. IInv'
  BY <1>2, RestartKeeps
<1>4. connection = NoConnection
  BY <1>1, <1>2, AliveIfBusy
<1>5. \A k \in Key : entries'[k].sentSocket = 0
  BY <1>1 DEF NewEntry
<1>6. OrderIsStore'
  BY <1>1, <1>2 DEF OrderIsStore
<1>7. QED
  BY <1>1, <1>3, <1>4, <1>5, <1>6, DisconnectedQueues

\* The queue of a new outbox.
LEMMA InitQInv ==
  ASSUME Init
  PROVE  QInv
<1>1. IInv
  BY InitIInv
<1>2. TimerArmed(Turn) /\ SocketsSeen(Turn, live, relayMode)
  BY TurnIs, NoneIsNothing DEF Init, TimerArmed, SocketsSeen, NoEntry, NoConnection
<1>3. OutInOrder(Turn) /\ AttemptCounted(Turn) /\ NoStall
  BY TurnIs DEF Init, OutInOrder, AttemptCounted, NoStall
<1>4. OrderIsStore
  <2>1. order = <<>> /\ DOMAIN order = {}
    BY DEF Init
  <2>2. QED
    BY <2>1 DEF Init, OrderIsStore, Distinct, Lists
<1>5. QED
  BY <1>1, <1>2, <1>3, <1>4 DEF QInv, QueueInv

\* Every step keeps the queue, and writes nothing twice on a connection.
LEMMA NextKeepsQInv ==
  ASSUME ~LateCallbacks, QInv, [Next]_vars
  PROVE  QInv' /\ (UNCHANGED vars \/ NoReplayStep)
<1>0. IInv'
  BY NextKeepsIInv DEF QInv
<1>1. ASSUME NEW k \in Key, NEW c \in Content,
             Enqueue(k, c) \/ EnqueueRejected(k, c) \/ RelayReceives(k, c) \/ CrashAfterPut(k, c)
      PROVE  QInv' /\ NoReplayStep
  <2>1. CASE EnqueueRejected(k, c) \/ RelayReceives(k, c)
    BY <2>1, <1>0, OutsideQueues DEF EnqueueRejected, RelayReceives
  <2>2. QED
    BY <2>1, <1>1, EnqueueQueues, CrashQueues
<1>2. ASSUME NEW w \in writes,
             \/ WriteSucceeded(w) \/ WriteConfirmed(w)
             \/ WriteConfirmedNotStored(w) \/ WriteFailed(w)
      PROVE  QInv' /\ NoReplayStep
  BY <1>2, WriteSucceededQueues, WriteConfirmedQueues, WriteConfirmedNotStoredQueues,
     WriteFailedQueues
<1>3. ASSUME NEW k \in Key,
             AckIgnored(k) \/ AckRemoves(k) \/ AckNotStored(k) \/ CrashAfterRemove(k)
      PROVE  QInv' /\ NoReplayStep
  <2>1. CASE AckIgnored(k)
    BY <2>1, <1>0, OutsideQueues DEF AckIgnored
  <2>2. QED
    BY <2>1, <1>3, AckRemovesQueues, ClosingQueues, CrashQueues
<1>4. ASSUME NEW mode \in DeliveryModes, Attach(mode)
      PROVE  QInv' /\ NoReplayStep
  BY <1>4, AttachQueues
<1>5. CASE Connect \/ BeginClose \/ SocketClosed \/ AckTimeout \/ Crash \/ Restart
  <2>1. CASE BeginClose
    BY <2>1, <1>0, OutsideQueues DEF BeginClose
  <2>2. QED
    BY <2>1, <1>5, ConnectQueues, ClosingQueues, CrashQueues, RestartQueues
<1>6. CASE UNCHANGED vars
  BY <1>6, <1>0, OutsideQueues DEF vars, channel
<1>7. QED
  BY <1>1, <1>2, <1>3, <1>4, <1>5, <1>6 DEF Next

\* The queue is kept in every reachable state.
LEMMA QueueInvariance == ASSUME ~LateCallbacks PROVE Spec => []QInv
  BY InitQInv, NextKeepsQInv, PTL DEF Spec

\* The queue never stands still: an open connection with no write under way has
\* written all there is, and while an ACK is awaited on it the timer runs.
THEOREM QueueGoesOn == ASSUME ~LateCallbacks PROVE Spec => []KeepsGoing
<1>1. QInv => KeepsGoing
  BY TurnIs DEF QInv, QueueInv, TimerArmed, Out, KeepsGoing, AckWatchdogArmed
<1>2. QED
  BY <1>1, QueueInvariance, PTL

\* Entries are written on a connection in the order they were accepted in.
THEOREM QueueIsInOrder == ASSUME ~LateCallbacks PROVE Spec => []WrittenInOrder
<1>1. QInv => WrittenInOrder
  BY TurnIs DEF QInv, QueueInv, OutInOrder, Out, WrittenInOrder
<1>2. QED
  BY <1>1, QueueInvariance, PTL

\* Nothing is written again on a connection that carries it or its ACK: replays
\* wait for the next connection.
THEOREM ReplaysWait == ASSUME ~LateCallbacks PROVE Spec => NoReplayOnSameConnection
<1>1. QInv /\ [Next]_vars => [NoReplayStep]_vars
  BY NextKeepsQInv
<1>2. QED
  BY <1>1, QueueInvariance, PTL DEF Spec, NoReplayOnSameConnection, NoReplayStep

---------------------------------------------------------------------------
(* The bytes of the queue: BInv.  BytesAlong is a recursive function; that *)
(* it exists and is the only one is shown by induction over the natural    *)
(* numbers, which the well-foundedness of < gives in the form of a set.    *)

Below == {p \in Nat \X Nat : p[1] < p[2]}

\* There is no infinite descent in the natural numbers.
LEMMA BelowIsWellFounded == IsWellFoundedOn(Below, Nat)
<1>1. IsWellFoundedOn(OpToRel(<, Nat), Nat)
  BY NatLessThanWellFounded
<1>2. Below \subseteq OpToRel(<, Nat)
  BY DEF Below, OpToRel
<1>3. QED
  BY <1>1, <1>2, IsWellFoundedOnSubrelation

\* A set of natural numbers has a least one.
LEMMA LeastNumber ==
  ASSUME NEW T \in SUBSET Nat, T # {}
  PROVE  \E n \in T : \A m \in T : n <= m
<1>1. PICK n \in T : \A m \in T : <<m, n>> \notin Below
  BY BelowIsWellFounded, WFMin, Zenon
<1>2. ASSUME NEW m \in T
      PROVE  n <= m
  <2>1. m \in Nat /\ n \in Nat
    OBVIOUS
  <2>2. ~(m < n)
    BY <1>1, <2>1 DEF Below
  <2>3. QED
    BY <2>1, <2>2
<1>3. QED
  BY <1>2

\* Induction over the natural numbers, for a set.
LEMMA SetInduction ==
  ASSUME NEW S, 0 \in S, \A n \in Nat : n \in S => n + 1 \in S
  PROVE  Nat \subseteq S
<1>1. SUFFICES ASSUME Nat \ S # {}
               PROVE  FALSE
  OBVIOUS
<1>2. PICK n \in Nat \ S : \A m \in Nat \ S : n <= m
  BY <1>1, LeastNumber
<1>3. n - 1 \in S /\ n - 1 \in Nat
  BY <1>2
<1>4. QED
  BY <1>2, <1>3

\* p is the running total of the first n entries of o, as d holds them.
Totals(p, n, o, d) ==
  /\ p \in [0..n -> Nat]
  /\ p[0] = 0
  /\ \A i \in 1..n : p[i] = p[i - 1] + ByteLength[d[o[i]]]

\* Every entry of o is held by d.
Held(o, d) == \A i \in 1..Len(o) : d[o[i]] \in Content

\* A queue that is held has a running total.
LEMMA TotalsExist ==
  ASSUME NEW o \in Seq(Key), NEW d, Held(o, d)
  PROVE  \E p : Totals(p, Len(o), o, d)
<1> DEFINE N == Len(o)
           S == {n \in Nat : n <= N => \E p : Totals(p, n, o, d)}
<1>1. N \in Nat /\ \A i \in 1..N : ByteLength[d[o[i]]] \in Nat
  BY LengthsAreNatural DEF Held
<1> HIDE DEF N
<1>2. 0 \in S
  <2>1. Totals([i \in 0..0 |-> 0], 0, o, d)
    BY DEF Totals
  <2>2. QED
    BY <2>1
<1>3. ASSUME NEW n \in Nat, n \in S
      PROVE  n + 1 \in S
  <2> SUFFICES ASSUME n + 1 <= N
               PROVE  \E q : Totals(q, n + 1, o, d)
    OBVIOUS
  <2>1. PICK p : Totals(p, n, o, d)
    BY <1>1, <1>3
  <2> DEFINE b == ByteLength[d[o[n + 1]]]
             q == [i \in 0..(n + 1) |-> IF i <= n THEN p[i] ELSE p[n] + b]
  <2>2. b \in Nat /\ p[n] \in Nat
    BY <1>1, <2>1 DEF Totals
  <2> HIDE DEF b
  <2>3. \A i \in 0..(n + 1) : q[i] \in Nat
    BY <2>1, <2>2 DEF Totals
  <2>4. \A i \in 1..(n + 1) : q[i] = q[i - 1] + ByteLength[d[o[i]]]
    <3> SUFFICES ASSUME NEW i \in 1..(n + 1)
                 PROVE  q[i] = q[i - 1] + ByteLength[d[o[i]]]
      OBVIOUS
    <3>1. CASE i = n + 1
      <4>1. q[i] = p[n] + b /\ q[i - 1] = p[n]
        BY <3>1
      <4>2. QED
        BY <4>1, <3>1 DEF b
    <3>2. CASE i # n + 1
      <4>1. i \in 1..n /\ q[i] = p[i] /\ q[i - 1] = p[i - 1]
        BY <3>2
      <4>2. QED
        BY <4>1, <2>1 DEF Totals
    <3>3. QED
      BY <3>1, <3>2
  <2>5. q[0] = 0
    BY <2>1 DEF Totals
  <2>6. Totals(q, n + 1, o, d)
    BY <2>3, <2>4, <2>5 DEF Totals
  <2>7. QED
    BY <2>6
<1>4. N \in S
  <2> HIDE DEF S
  <2>1. QED
    BY <1>1, <1>2, <1>3, SetInduction
<1>5. QED
  BY <1>1, <1>4 DEF N

\* There is one running total.
LEMMA TotalsAgree ==
  ASSUME NEW o, NEW d, NEW n \in Nat, NEW p, NEW q,
         Totals(p, n, o, d), Totals(q, n, o, d)
  PROVE  p = q
<1> DEFINE S == {i \in Nat : i <= n => p[i] = q[i]}
<1>1. 0 \in S
  BY DEF Totals
<1>2. ASSUME NEW i \in Nat, i \in S
      PROVE  i + 1 \in S
  <2> SUFFICES ASSUME i + 1 <= n
               PROVE  p[i + 1] = q[i + 1]
    OBVIOUS
  <2>1. p[i] = q[i] /\ i + 1 \in 1..n /\ (i + 1) - 1 = i
    BY <1>2
  <2>2. QED
    BY <2>1 DEF Totals
<1>3. Nat \subseteq S
  <2> HIDE DEF S
  <2>1. QED
    BY <1>1, <1>2, SetInduction
<1>4. \A i \in 0..n : p[i] = q[i]
  BY <1>3
<1>5. QED
  BY <1>4 DEF Totals

\* BytesAlong is the last value of the running total.
LEMMA BytesAreTotal ==
  ASSUME NEW o \in Seq(Key), NEW d, Held(o, d)
  PROVE  \E p : Totals(p, Len(o), o, d) /\ BytesAlong(o, d) = p[Len(o)]
<1> DEFINE N == Len(o)
           Step(f) == [i \in 0..N |-> IF i = 0 THEN 0 ELSE f[i - 1] + ByteLength[d[o[i]]]]
           total == CHOOSE f : f = Step(f)
<1>1. PICK p : Totals(p, N, o, d)
  BY TotalsExist
<1>2. N \in Nat
  OBVIOUS
<1>3. p = Step(p)
  BY <1>1, <1>2 DEF Totals
<1>4. total = Step(total)
  BY <1>3
<1>5. BytesAlong(o, d) = total[N]
  BY DEF BytesAlong
<1> HIDE DEF total
<1>6. \A i \in 0..N : total[i] = p[i]
  <2> DEFINE S == {i \in Nat : i <= N => total[i] = p[i]}
  <2>1. 0 \in S
    BY <1>1, <1>2, <1>4 DEF Totals
  <2>2. ASSUME NEW i \in Nat, i \in S
        PROVE  i + 1 \in S
    <3> SUFFICES ASSUME i + 1 <= N
                 PROVE  total[i + 1] = p[i + 1]
      OBVIOUS
    <3>1. total[i] = p[i] /\ i + 1 \in 1..N /\ (i + 1) - 1 = i /\ i + 1 # 0
      BY <2>2, <1>2
    <3>2. QED
      BY <3>1, <1>1, <1>4 DEF Totals
  <2>3. Nat \subseteq S
    <3> HIDE DEF S
    <3>1. QED
      BY <2>1, <2>2, SetInduction
  <2>4. QED
    BY <2>3, <1>2
<1>7. QED
  BY <1>1, <1>2, <1>5, <1>6

\* ... so any running total gives it.
LEMMA BytesAre ==
  ASSUME NEW o \in Seq(Key), NEW d, Held(o, d), NEW p, Totals(p, Len(o), o, d)
  PROVE  BytesAlong(o, d) = p[Len(o)] /\ BytesAlong(o, d) \in Nat
<1>1. PICK q : Totals(q, Len(o), o, d) /\ BytesAlong(o, d) = q[Len(o)]
  BY BytesAreTotal
<1>2. p = q
  BY <1>1, TotalsAgree
<1>3. QED
  BY <1>1, <1>2 DEF Totals

DiskSet == [Key -> Content \cup {None}]

\* An entry put last adds its bytes.
LEMMA BytesAppended ==
  ASSUME NEW o \in Seq(Key), NEW d \in DiskSet, Held(o, d), NEW k \in Key,
         NEW e \in DiskSet, \A i \in 1..Len(o) : e[o[i]] = d[o[i]], e[k] \in Content
  PROVE  /\ BytesAlong(o, d) \in Nat /\ ByteLength[e[k]] \in Nat
         /\ BytesAlong(Append(o, k), e) = BytesAlong(o, d) + ByteLength[e[k]]
<1> DEFINE N == Len(o)
           u == Append(o, k)
           b == ByteLength[e[k]]
<1>1. /\ N \in Nat /\ u \in Seq(Key) /\ Len(u) = N + 1 /\ b \in Nat
      /\ \A i \in 1..N : u[i] = o[i]
      /\ u[N + 1] = k
  BY LengthsAreNatural
<1>2. PICK p : Totals(p, N, o, d)
  BY TotalsExist
<1>3. BytesAlong(o, d) = p[N] /\ p[N] \in Nat
  BY <1>2, BytesAre
<1> HIDE DEF N, u, b
<1> DEFINE q == [i \in 0..(N + 1) |-> IF i <= N THEN p[i] ELSE p[N] + b]
<1>4. \A i \in 1..(N + 1) : i \in 1..N \/ i = N + 1
  BY <1>1
<1>5. Held(u, e)
  BY <1>1, <1>4 DEF Held, N
<1>6. \A i \in 1..(N + 1) : q[i] = q[i - 1] + ByteLength[e[u[i]]]
  <2> SUFFICES ASSUME NEW i \in 1..(N + 1)
               PROVE  q[i] = q[i - 1] + ByteLength[e[u[i]]]
    OBVIOUS
  <2>1. CASE i = N + 1
    <3>1. q[i] = p[N] + b /\ q[i - 1] = p[N]
      BY <1>1, <2>1
    <3>2. QED
      BY <3>1, <2>1, <1>1 DEF b
  <2>2. CASE i # N + 1
    <3>1. i \in 1..N /\ q[i] = p[i] /\ q[i - 1] = p[i - 1]
      BY <1>1, <2>2
    <3>2. e[u[i]] = d[o[i]]
      BY <3>1, <1>1 DEF N
    <3>3. QED
      BY <3>1, <3>2, <1>2 DEF Totals
  <2>3. QED
    BY <2>1, <2>2
<1>7. q[0] = 0 /\ q \in [0..(N + 1) -> Nat] /\ q[N + 1] = p[N] + b
  BY <1>1, <1>2, <1>3 DEF Totals
<1>8. Totals(q, Len(u), u, e)
  <2> HIDE DEF q
  <2>1. QED
    BY <1>1, <1>6, <1>7 DEF Totals
<1>9. BytesAlong(u, e) = q[N + 1]
  BY <1>1, <1>5, <1>8, BytesAre
<1>10. QED
  BY <1>1, <1>3, <1>7, <1>9 DEF u, b

\* An entry taken out takes its bytes with it.
LEMMA BytesSkipped ==
  ASSUME NEW o \in Seq(Key), Distinct(o), NEW d \in DiskSet, Held(o, d),
         NEW p \in DOMAIN o, NEW e \in DiskSet,
         \A x \in Key : x # o[p] => e[x] = d[x]
  PROVE  /\ ByteLength[d[o[p]]] \in Nat /\ BytesAlong(Without(o, o[p]), e) \in Nat
         /\ BytesAlong(Without(o, o[p]), e) + ByteLength[d[o[p]]] = BytesAlong(o, d)
<1> DEFINE N == Len(o)
           w == Without(o, o[p])
           b == ByteLength[d[o[p]]]
           f(i) == IF i < p THEN i ELSE i + 1
<1>1. N \in Nat \ {0} /\ p \in 1..N /\ N - 1 \in Nat /\ b \in Nat
  <2>1. N \in Nat /\ p \in 1..N
    OBVIOUS
  <2>2. b \in Nat
    BY <2>1, LengthsAreNatural DEF Held
  <2>3. QED
    BY <2>1, <2>2
<1>2. w \in Seq(Key) /\ Len(w) = N - 1 /\ \A i \in 1..(N - 1) : w[i] = o[f(i)]
  <2>1. (CHOOSE i \in DOMAIN o : o[i] = o[p]) = p
    BY DEF Distinct
  <2>2. w = [i \in 1..(N - 1) |-> IF i < p THEN o[i] ELSE o[i + 1]]
    BY <2>1 DEF Without
  <2>3. w \in Seq(Key)
    BY WithoutType
  <2>4. Len(w) = N - 1
    BY <2>2, <2>3, <1>1
  <2>5. QED
    BY <2>2, <2>3, <2>4
<1> HIDE DEF N, w, b
<1>3. \A i \in 1..(N - 1) : f(i) \in 1..N /\ f(i) # p
  BY <1>1
<1>4. \A i \in 1..(N - 1) : e[w[i]] = d[o[f(i)]]
  <2> SUFFICES ASSUME NEW i \in 1..(N - 1)
               PROVE  e[w[i]] = d[o[f(i)]]
    OBVIOUS
  <2>1. o[f(i)] # o[p] /\ o[f(i)] \in Key
    BY <1>1, <1>3 DEF Distinct, N
  <2>2. QED
    BY <2>1, <1>2
<1>5. Held(w, e)
  BY <1>2, <1>3, <1>4 DEF Held, N
<1>6. PICK t : Totals(t, N, o, d) /\ BytesAlong(o, d) = t[N]
  BY BytesAreTotal DEF N
<1>7. PICK q : Totals(q, N - 1, w, e) /\ BytesAlong(w, e) = q[N - 1]
  BY <1>2, <1>5, BytesAreTotal
<1>8. \A i \in 0..(N - 1) : t[f(i)] = q[i] + (IF i < p THEN 0 ELSE b)
  <2> DEFINE S == {i \in Nat : i <= N - 1 => t[f(i)] = q[i] + (IF i < p THEN 0 ELSE b)}
  <2>1. 0 \in S
    BY <1>1, <1>6, <1>7 DEF Totals
  <2>2. ASSUME NEW i \in Nat, i \in S
        PROVE  i + 1 \in S
    <3> SUFFICES ASSUME i + 1 <= N - 1
                 PROVE  t[f(i + 1)] = q[i + 1] + (IF i + 1 < p THEN 0 ELSE b)
      OBVIOUS
    <3> DEFINE c == ByteLength[d[o[f(i + 1)]]]
    <3>1. i + 1 \in 1..(N - 1) /\ i \in 0..(N - 1) /\ (i + 1) - 1 = i
      BY <1>1
    <3>2. q[i + 1] = q[i] + c /\ q[i] \in Nat
      BY <3>1, <1>4, <1>7 DEF Totals
    <3>3. t[f(i + 1)] = t[f(i + 1) - 1] + c
      BY <3>1, <1>3, <1>6 DEF Totals
    <3>4. t[f(i)] = q[i] + (IF i < p THEN 0 ELSE b)
      BY <2>2, <3>1, <1>1
    <3>5. c \in Nat
      BY <3>1, <1>3, LengthsAreNatural DEF Held, N
    <3> HIDE DEF c
    <3>6. CASE i + 1 = p
      <4>1. f(i) = i /\ f(i + 1) = i + 2
        BY <1>1, <3>6
      <4>2. t[i + 1] = t[i] + b
        <5>1. p \in 1..N /\ p - 1 = i
          BY <1>1, <3>6
        <5>2. t[p] = t[p - 1] + b
          BY <5>1, <1>6 DEF Totals, b
        <5>3. QED
          BY <5>1, <5>2, <3>6
      <4>3. t[i + 2] = t[i + 1] + c
        BY <3>3, <4>1
      <4>4. t[i] = q[i]
        BY <3>4, <4>1, <3>2, <3>6, <1>1
      <4>5. t[i + 2] = (q[i] + c) + b
        BY <4>2, <4>3, <4>4, <3>2, <3>5, <1>1
      <4>6. QED
        BY <4>1, <4>5, <3>2, <3>6, <1>1
    <3>7. CASE i + 1 # p
      <4>1. f(i + 1) - 1 = f(i)
        BY <1>1, <3>7
      <4>2. (i + 1 < p) <=> (i < p)
        BY <1>1, <3>7
      <4>3. QED
        BY <3>2, <3>3, <3>4, <3>5, <4>1, <4>2, <1>1
    <3>8. QED
      BY <3>6, <3>7
  <2>3. Nat \subseteq S
    <3> HIDE DEF S
    <3>1. QED
      BY <2>1, <2>2, SetInduction
  <2>4. QED
    BY <2>3, <1>1
<1>9. BytesAlong(w, e) \in Nat
  BY <1>1, <1>7 DEF Totals
<1>10. t[N] = q[N - 1] + b
  <2>1. N - 1 \in 0..(N - 1) /\ (N - 1) + 1 = N
    BY <1>1
  <2>2. CASE N - 1 < p
    <3>1. N = p
      BY <1>1, <2>2
    <3>2. t[N] = t[N - 1] + b
      BY <3>1, <1>1, <1>6 DEF Totals, b
    <3>3. t[N - 1] = q[N - 1]
      BY <2>1, <2>2, <1>8, <1>7 DEF Totals
    <3>4. QED
      BY <3>2, <3>3
  <2>3. CASE ~(N - 1 < p)
    BY <2>1, <2>3, <1>8
  <2>4. QED
    BY <2>2, <2>3
<1>11. QED
  BY <1>1, <1>6, <1>7, <1>9, <1>10 DEF w, b

\* flush() leaves the order of the queue alone.
LEMMA FlushKeepsOrder ==
  ASSUME NEW t \in TurnSet, Flush(t)
  PROVE  order' = t.order
<1>1. ScheduleAckCheck(t).order = t.order
  BY DEF ScheduleAckCheck
<1>2. CASE ~CanWrite(t) /\ EndTurn(t)
  BY <1>2 DEF EndTurn
<1>3. CASE EndTurn(ScheduleAckCheck(t))
  BY <1>1, <1>3 DEF EndTurn
<1>4. ASSUME NEW n, NEW s, NEW w, NEW k,
             EndTurn([t EXCEPT !.entries[k].attempt = n, !.sending = s, !.writes = w])
      PROVE  order' = t.order
  BY <1>4 DEF EndTurn, TurnSet
<1>5. ASSUME NEW k,
             EndTurn(GiveUpConnection([t EXCEPT !.entries[k].attempt = @ + 1,
                                                !.entries[k].sentSocket = 0]))
      PROVE  order' = t.order
  BY <1>5 DEF EndTurn, TurnSet, GiveUpConnection
<1>6. QED
  BY <1>2, <1>3, <1>4, <1>5 DEF Flush

\* The queue with its bytes: what is stored is counted and within the limits.
BInv == QInv /\ IsFiniteSet(Stored) /\ BytesAccounted

\* What BInv says of the queue.
LEMMA BytesFacts ==
  ASSUME BInv
  PROVE  /\ IInv /\ order \in Seq(Key) /\ Distinct(order) /\ Held(order, disk)
         /\ disk \in [Key -> Content \cup {None}] /\ totalBytes \in Nat
         /\ \A k \in Key : disk[k] # None <=> Lists(order, k)
         /\ StoredBytes \in Nat /\ StoredBytes <= MaxBytes
         /\ Cardinality(Stored) \in Nat /\ Cardinality(Stored) <= MaxEntries
<1>1. /\ QInv /\ IInv /\ TypeOK /\ OrderIsStore
  BY DEF BInv, QInv, IInv
<1>2. order \in Seq(Key) /\ disk \in [Key -> Content \cup {None}] /\ totalBytes \in Nat
  BY <1>1 DEF TypeOK
<1>3. Held(order, disk)
  <2> SUFFICES ASSUME NEW i \in 1..Len(order)
               PROVE  disk[order[i]] \in Content
    BY DEF Held
  <2>1. i \in DOMAIN order /\ order[i] \in Key
    BY <1>2
  <2>2. QED
    BY <2>1, <1>1, <1>2 DEF OrderIsStore, Lists
<1>4. StoredBytes \in Nat /\ StoredBytes <= MaxBytes
  BY LimitsArePositive DEF BInv, BytesAccounted, Restorable
<1>5. Cardinality(Stored) \in Nat /\ Cardinality(Stored) <= MaxEntries
  BY FS_CardinalityType DEF BInv, BytesAccounted, Restorable
<1>6. QED
  BY <1>1, <1>2, <1>3, <1>4, <1>5 DEF OrderIsStore

\* Admission leaves room for the message it stores.
LEMMA PutIsCounted ==
  ASSUME BInv, up, QInv', NEW k \in Key, NEW c \in Content, IsNew(k, c),
         disk' = [disk EXCEPT ![k] = c], order' = Append(order, k),
         up' => totalBytes' = totalBytes + ByteLength[c]
  PROVE  BInv'
<1>1. \A j \in Key : entries[j].content = disk[j]
  BY BytesFacts DEF IInv, MemoryMirrorsStore
<1>2. Present(entries) = Stored /\ k \notin Stored
  BY <1>1 DEF Present, Stored, IsNew
<1>3. /\ Cardinality(Stored) + 1 <= MaxEntries
      /\ totalBytes + ByteLength[c] <= MaxBytes
  BY <1>2, BytesFacts, LimitsArePositive, LengthsAreNatural DEF IsNew, Full
<1>4. Stored' = Stored \cup {k} /\ disk'[k] = c
  BY BytesFacts, NoneIsNothing DEF Stored
<1>5. IsFiniteSet(Stored') /\ Cardinality(Stored') = Cardinality(Stored) + 1
  BY <1>2, <1>4, FS_AddElement DEF BInv
<1>6. \A i \in 1..Len(order) : disk'[order[i]] = disk[order[i]]
  <2>1. ASSUME NEW i \in 1..Len(order)
        PROVE  order[i] \in Key /\ disk[order[i]] # None
    <3>1. i \in DOMAIN order /\ order[i] \in Key
      BY BytesFacts
    <3>2. QED
      BY <3>1, BytesFacts DEF Lists
  <2>2. disk[k] = None
    BY <1>2 DEF Stored
  <2>3. QED
    BY <2>1, <2>2, BytesFacts
<1>7. /\ BytesAlong(order', disk') = StoredBytes + ByteLength[c]
      /\ ByteLength[c] \in Nat /\ StoredBytes \in Nat
  <2>1. /\ order \in Seq(Key) /\ Held(order, disk) /\ disk'[k] \in Content
        /\ disk \in DiskSet /\ disk' \in DiskSet
    BY <1>4, BytesFacts DEF DiskSet
  <2>2. /\ BytesAlong(order, disk) \in Nat /\ ByteLength[disk'[k]] \in Nat
        /\ BytesAlong(Append(order, k), disk')
             = BytesAlong(order, disk) + ByteLength[disk'[k]]
    BY <2>1, <1>6, BytesAppended, ZenonT(30)
  <2>3. QED
    BY <2>2, <1>4 DEF StoredBytes
<1>8. totalBytes = StoredBytes
  BY DEF BInv, BytesAccounted
<1>9. StoredBytes' = StoredBytes + ByteLength[c]
  BY <1>7 DEF StoredBytes
<1>10. StoredBytes' \in 0..MaxBytes
  BY <1>3, <1>7, <1>8, <1>9, LimitsArePositive
<1>11. BytesAccounted'
  BY <1>3, <1>5, <1>8, <1>9, <1>10 DEF BytesAccounted, Restorable
<1>12. QED
  BY <1>5, <1>11 DEF BInv

\* What is removed is no longer counted.
LEMMA RemovalIsCounted ==
  ASSUME BInv, up, QInv', NEW k \in Key, entries[k].content # None,
         disk' = [disk EXCEPT ![k] = None], order' = Without(order, k),
         up' => totalBytes' = BytesWithout(k)
  PROVE  BInv'
<1>1. entries[k].content = disk[k] /\ disk[k] # None
  BY BytesFacts DEF IInv, MemoryMirrorsStore
<1>2. k \in Stored /\ Stored' = Stored \ {k}
  BY <1>1, BytesFacts DEF Stored
<1>3. IsFiniteSet(Stored') /\ Cardinality(Stored') = Cardinality(Stored) - 1
  BY <1>2, FS_RemoveElement DEF BInv
<1>4. PICK p \in DOMAIN order : order[p] = k
  BY <1>1, BytesFacts DEF Lists
<1>5. \A x \in Key : x # order[p] => disk'[x] = disk[x]
  BY <1>4, BytesFacts
<1>6. /\ ByteLength[disk[k]] \in Nat /\ BytesAlong(order', disk') \in Nat
      /\ BytesAlong(order', disk') + ByteLength[disk[k]] = StoredBytes
  <2>1. /\ order \in Seq(Key) /\ Distinct(order) /\ Held(order, disk)
        /\ disk \in DiskSet /\ disk' \in DiskSet
    BY BytesFacts DEF DiskSet
  <2>2. ASSUME NEW o \in Seq(Key), Distinct(o), NEW d \in DiskSet, Held(o, d),
               NEW e \in DiskSet, NEW i \in DOMAIN o, o[i] = k,
               \A x \in Key : x # k => e[x] = d[x]
        PROVE  /\ ByteLength[d[k]] \in Nat /\ BytesAlong(Without(o, k), e) \in Nat
               /\ BytesAlong(Without(o, k), e) + ByteLength[d[k]] = BytesAlong(o, d)
    BY <2>2, BytesSkipped
  <2>3. \A x \in Key : x # k => disk'[x] = disk[x]
    BY <1>4, <1>5
  <2>4. QED
    BY <1>4, <2>1, <2>2, <2>3, ZenonT(30) DEF StoredBytes
<1>7. StoredBytes' + ByteLength[disk[k]] = StoredBytes /\ StoredBytes' \in Nat
  BY <1>6 DEF StoredBytes
<1>8. totalBytes = StoredBytes
  BY DEF BInv, BytesAccounted
<1>9. BytesWithout(k) = StoredBytes'
  BY <1>1, <1>6, <1>7, <1>8 DEF BytesWithout
<1>10. StoredBytes' \in 0..MaxBytes
  BY <1>6, <1>7, BytesFacts, LimitsArePositive
<1>11. Cardinality(Stored') <= MaxEntries
  BY <1>3, BytesFacts, LimitsArePositive
<1>12. BytesAccounted'
  BY <1>9, <1>10, <1>11 DEF BytesAccounted, Restorable
<1>13. QED
  BY <1>3, <1>12 DEF BInv

\* Steps that leave the queue and its count alone.
LEMMA NothingToCount ==
  ASSUME BInv, QInv', UNCHANGED <<disk, order>>,
         \/ ~up'
         \/ up /\ UNCHANGED totalBytes
         \/ Restorable /\ totalBytes' = StoredBytes
  PROVE  BInv'
<1>1. StoredBytes' = StoredBytes /\ Stored' = Stored
  BY DEF StoredBytes, Stored
<1>2. BytesAccounted'
  BY <1>1 DEF BInv, BytesAccounted, Restorable
<1>3. QED
  BY <1>1, <1>2 DEF BInv

\* Turns that end without a flush keep the order too.
LEMMA EndTurnKeepsOrder ==
  ASSUME NEW t, EndTurn(t)
  PROVE  order' = t.order
  BY DEF EndTurn

\* enqueue() and the two removals count what they store and take out.
LEMMA CountedTurns ==
  ASSUME BInv, QInv',
         \/ \E k \in Key, c \in Content : Enqueue(k, c)
         \/ \E w \in writes : WriteConfirmed(w)
         \/ \E k \in Key : AckRemoves(k)
  PROVE  BInv'
<1>0. IInv /\ QInv
  BY DEF BInv, QInv
<1>1. ASSUME NEW k \in Key, NEW c \in Content, Enqueue(k, c)
      PROVE  BInv'
  <2>1. PICK u : Flushes(u) /\ u.order = Append(order, k)
    BY <1>0, <1>1, EnqueueKeeps
  <2>2. order' = Append(order, k)
    BY <2>1, FlushKeepsOrder DEF Flushes
  <2>3. /\ up /\ IsNew(k, c) /\ disk' = [disk EXCEPT ![k] = c]
        /\ totalBytes' = totalBytes + ByteLength[c]
    BY <1>1 DEF Enqueue
  <2>4. QED
    BY <2>2, <2>3, PutIsCounted
<1>2. ASSUME NEW k \in Key, up, entries[k].content # None, disk' = [disk EXCEPT ![k] = None],
             totalBytes' = BytesWithout(k),
             NEW u, Flushes(u), u.order = Without(order, k)
      PROVE  BInv'
  <2>1. order' = Without(order, k)
    BY <1>2, FlushKeepsOrder DEF Flushes
  <2>2. QED
    BY <2>1, <1>2, RemovalIsCounted
<1>3. ASSUME NEW w \in writes, WriteConfirmed(w)
      PROVE  BInv'
  <2>1. PICK u : Flushes(u) /\ u.order = Without(order, w.key)
    BY <1>0, <1>3, WriteConfirmedKeeps
  <2>2. up /\ w.key \in Key /\ entries[w.key].content # None
    BY <1>0, <1>3, CallbackFacts DEF WriteConfirmed, LegacyConfirms, IsCurrentAttempt, WriteSet
  <2>3. disk' = [disk EXCEPT ![w.key] = None] /\ totalBytes' = BytesWithout(w.key)
    BY <1>3 DEF WriteConfirmed
  <2>4. QED
    BY <2>1, <2>2, <2>3, <1>2
<1>4. ASSUME NEW k \in Key, AckRemoves(k)
      PROVE  BInv'
  <2>1. PICK u : Flushes(u) /\ u.order = Without(order, k)
    BY <1>0, <1>4, AckRemovesKeeps
  <2>2. /\ AckApplies(k) /\ k \in acks /\ disk' = [disk EXCEPT ![k] = None]
        /\ totalBytes' = BytesWithout(k)
    BY <1>4 DEF AckRemoves
  <2>3. up /\ entries[k].content # None
    BY <1>0, <2>2, AckFacts, NoneIsNothing DEF AckApplies
  <2>4. QED
    BY <2>1, <2>2, <2>3, <1>2
<1>5. QED
  BY <1>1, <1>3, <1>4

\* The other turns leave the queue as it is.
LEMMA OtherTurns ==
  ASSUME ~LateCallbacks, BInv, QInv',
         \/ \E k \in Key, c \in Content : EnqueueRejected(k, c) \/ RelayReceives(k, c)
         \/ Connect \/ (\E mode \in DeliveryModes : Attach(mode)) \/ BeginClose \/ SocketClosed
         \/ \E w \in writes : WriteSucceeded(w) \/ WriteConfirmedNotStored(w) \/ WriteFailed(w)
         \/ \E k \in Key : AckIgnored(k) \/ AckNotStored(k)
         \/ AckTimeout \/ UNCHANGED vars
  PROVE  BInv'
<1>0. IInv
  BY DEF BInv, QInv
<1>1. UNCHANGED <<up, totalBytes, disk>>
  BY DEF EnqueueRejected, RelayReceives, Connect, Attach, BeginClose, SocketClosed,
     WriteSucceeded, WriteConfirmedNotStored, WriteFailed, AckIgnored, AckNotStored,
     AckTimeout, outbox, vars
<1>2. order' = order
  <2>1. ASSUME NEW u, Flushes(u), u.order = order
        PROVE  order' = order
    BY <2>1, FlushKeepsOrder DEF Flushes
  <2>2. CASE \E mode \in DeliveryModes : Attach(mode)
    BY <2>1, <2>2, <1>0, AttachKeeps
  <2>3. CASE \E w \in writes :
               WriteSucceeded(w) \/ WriteConfirmedNotStored(w) \/ WriteFailed(w)
    BY <2>1, <2>3, <1>0, WriteSucceededKeeps, WriteConfirmedNotStoredKeeps, WriteFailedKeeps
  <2>4. CASE SocketClosed
    BY <2>4 DEF SocketClosed, EndTurn, Turn, DisownSending
  <2>5. CASE AckTimeout \/ \E k \in Key : AckNotStored(k)
    BY <2>5 DEF AckTimeout, AckNotStored, EndTurn, Turn, GiveUpConnection
  <2>6. CASE \/ \E k \in Key, c \in Content : EnqueueRejected(k, c) \/ RelayReceives(k, c)
             \/ Connect \/ BeginClose \/ (\E k \in Key : AckIgnored(k)) \/ UNCHANGED vars
    BY <2>6 DEF EnqueueRejected, RelayReceives, Connect, BeginClose, AckIgnored, vars, outbox
  <2>7. QED
    BY <2>2, <2>3, <2>4, <2>5, <2>6
<1>3. QED
  BY <1>1, <1>2, NothingToCount

\* A crash between the store and the outbox, and the restart, count right.
LEMMA CountedCrashes ==
  ASSUME BInv, QInv',
         \/ Crash \/ Restart
         \/ \E k \in Key, c \in Content : CrashAfterPut(k, c)
         \/ \E k \in Key : CrashAfterRemove(k)
  PROVE  BInv'
<1>1. CASE Crash
  BY <1>1, NothingToCount DEF Crash, Die
<1>2. CASE Restart
  BY <1>2, NothingToCount DEF Restart
<1>3. ASSUME NEW k \in Key, NEW c \in Content, CrashAfterPut(k, c)
      PROVE  BInv'
  BY <1>3, PutIsCounted DEF CrashAfterPut, Die
<1>4. ASSUME NEW k \in Key, CrashAfterRemove(k)
      PROVE  BInv'
  BY <1>4, RemovalIsCounted
     DEF CrashAfterRemove, Die, AckApplies, LegacyConfirms, IsCurrentAttempt
<1>5. QED
  BY <1>1, <1>2, <1>3, <1>4

\* A new outbox counts nothing.
LEMMA InitBInv ==
  ASSUME Init
  PROVE  BInv
<1>1. QInv
  BY InitQInv
<1>2. Stored = {} /\ order = <<>> /\ totalBytes = 0
  BY DEF Init, Stored
<1>3. IsFiniteSet(Stored) /\ Cardinality(Stored) = 0
  BY <1>2, FS_EmptySet
<1>4. BytesAlong(order, disk) = 0
  <2>1. order \in Seq(Key) /\ Len(order) = 0 /\ Held(order, disk)
    BY <1>2 DEF Held
  <2>2. PICK p : Totals(p, 0, order, disk) /\ BytesAlong(order, disk) = p[0]
    BY <2>1, BytesAreTotal
  <2>3. QED
    BY <2>2 DEF Totals
<1>5. StoredBytes = 0 /\ MaxEntries \in Nat /\ MaxBytes \in Nat
  BY <1>4, LimitsArePositive DEF StoredBytes
<1>6. BytesAccounted
  BY <1>2, <1>3, <1>5 DEF BytesAccounted, Restorable
<1>7. QED
  BY <1>1, <1>3, <1>6 DEF BInv

\* The byte count admission relies on (reliable-relay-outbox.ts: enqueue) is the
\* length of what is stored, and restore() never finds more than it accepts: no
\* crash, and no store failure, makes a restart throw.
THEOREM BytesAreAccounted == ASSUME ~LateCallbacks PROVE Spec => []BytesAccounted
<1>1. BInv /\ [Next]_vars => BInv'
  <2> SUFFICES ASSUME BInv, [Next]_vars
               PROVE  BInv'
    OBVIOUS
  <2>1. QInv'
    BY NextKeepsQInv DEF BInv
  <2>2. QED
    BY <2>1, CountedTurns, OtherTurns, CountedCrashes DEF Next
<1>2. BInv => BytesAccounted
  BY DEF BInv
<1>3. QED
  BY <1>1, <1>2, InitBInv, PTL DEF Spec
=============================================================================
