-------------------------- MODULE ReliableOutbox --------------------------
(***************************************************************************)
(* ReliableRelayOutbox (src/src/core/relay/reliable-relay-outbox.ts), the  *)
(* Relay connections it is attached to one after the other, and its        *)
(* durable store seen as a map that survives the process.                  *)
(*                                                                         *)
(* Every action is one synchronous turn of the Node event loop: a call of  *)
(* the connection manager, a WebSocket callback, or a timer.  The turn     *)
(* ends with the flush() the code ends it with.  What runs between two     *)
(* turns -- a write on its way, an ACK on its way, the death of the socket *)
(* or of the process -- is what the actions interleave with.               *)
(*                                                                         *)
(* Sockets are numbered in the order they are opened; 0 is no socket.      *)
(***************************************************************************)
EXTENDS Naturals, Sequences, FiniteSets

CONSTANTS
  Key,            \* delivery keys
  Content,        \* message contents; equal contents have equal hashes
  None,           \* no key, no content
  ByteLength,     \* [Content -> Nat]: length of the serialized message
  MaxEntries,     \* RELIABLE_RELAY_OUTBOX_MAX_ENTRIES
  MaxBytes,       \* RELIABLE_RELAY_OUTBOX_MAX_BYTES
  DeliveryModes,  \* the modes a Relay hello may select
  LateCallbacks,  \* may a ws.send callback outlive its socket's close event?
  MaxFaults       \* bound: failures (of Relay, network, disk, process)

Acknowledged == "acknowledged"
LegacyWriteConfirmed == "legacy_write_confirmed"

ASSUME NoneIsNothing ==
  /\ None \notin Key /\ None \notin Content
  /\ None \notin {Acknowledged, LegacyWriteConfirmed}
ASSUME LengthsAreNatural == ByteLength \in [Content -> Nat]
ASSUME LimitsArePositive == MaxEntries \in Nat \ {0} /\ MaxBytes \in Nat \ {0}
ASSUME ModesAreKnown == DeliveryModes \subseteq {Acknowledged, LegacyWriteConfirmed}
ASSUME LateCallbacksIsBoolean == LateCallbacks \in BOOLEAN
ASSUME FaultsAreBounded == MaxFaults \in Nat

VARIABLES
  \* the ReliableRelayOutbox instance
  up,          \* the process runs and owns the outbox
  entries,     \* this.entries, by key
  order,       \* insertion order of this.entries, which is the store's too
  totalBytes,  \* this.totalBytes
  connection,  \* this.connection
  sending,     \* this.sending
  ackTimer,    \* this.ackTimer is armed
  \* the store, seen as the map its write-ahead log stands for
  disk,
  \* the current Relay WebSocket and what is in flight on it
  live,        \* number of the newest socket
  sock,        \* its state
  relayMode,   \* the mode its hello selected, None before the hello
  writes,      \* ws.send calls whose callback has not run
  wire,        \* frames written, not yet received by Relay
  acks,        \* ACKs sent by Relay, not yet received
  \* history
  accepted, relayGot, confirmed,
  faults

outbox == <<up, entries, order, totalBytes, connection, sending, ackTimer>>
channel == <<live, sock, relayMode, writes, wire, acks>>
history == <<accepted, relayGot, confirmed>>
vars == <<outbox, disk, channel, history, faults>>

NoEntry == [content |-> None, sentSocket |-> 0, attempt |-> 0]
NoConnection == [socket |-> 0, deliveryMode |-> None]
NotSending == [key |-> None, socket |-> 0, attempt |-> 0]

NewEntry(c) == [content |-> c, sentSocket |-> 0, attempt |-> 0]

Present(e) == {k \in Key : e[k].content # None}
Stored == {k \in Key : disk[k] # None}

\* k stands before j in the insertion order o.
Before(o, k, j) ==
  \A x, y \in DOMAIN o : o[x] = k /\ o[y] = j => x <= y

\* The order o without the key k that is in it.
Without(o, k) ==
  LET at == CHOOSE i \in DOMAIN o : o[i] = k
  IN  [i \in 1..(Len(o) - 1) |-> IF i < at THEN o[i] ELSE o[i + 1]]

---------------------------------------------------------------------------
(* A turn works on the outbox step by step and then ends.  Turn is what it *)
(* starts from; the operators below are the private methods it runs.       *)

Turn ==
  [entries |-> entries, order |-> order, connection |-> connection,
   sending |-> sending, ackTimer |-> ackTimer, writes |-> writes,
   sock |-> sock, faults |-> faults]

EndTurn(t) ==
  /\ entries' = t.entries /\ order' = t.order /\ connection' = t.connection
  /\ sending' = t.sending /\ ackTimer' = t.ackTimer /\ writes' = t.writes
  /\ sock' = t.sock
  /\ t.faults <= MaxFaults /\ faults' = t.faults

\* Mutant of ScheduleAckCheck: armed once every entry is out.
ScheduleAckCheckWhenAllAreOut(t) ==
  [t EXCEPT !.ackTimer =
    /\ t.connection.deliveryMode = Acknowledged
    /\ Present(t.entries) # {}
    /\ \A k \in Present(t.entries) :
         t.entries[k].sentSocket = t.connection.socket]

\* scheduleAckHealthCheck: armed when the connection acknowledges and one of
\* its entries is out.
ScheduleAckCheck(t) ==
  [t EXCEPT !.ackTimer =
    /\ t.connection.deliveryMode = Acknowledged
    /\ \E k \in Present(t.entries) :
         t.entries[k].sentSocket = t.connection.socket]

\* Mutant of GiveUpConnection: the failure is only counted.
KeepConnection(t) == [t EXCEPT !.faults = @ + 1]

\* Mutant of GiveUpConnection: nobody closes the socket.
ForgetConnection(t) ==
  [t EXCEPT !.connection = NoConnection, !.ackTimer = FALSE, !.faults = @ + 1]

\* The outbox gives the connection up: it forgets it, stops the timer and
\* asks the socket to close.  Entries stay.
GiveUpConnection(t) ==
  [t EXCEPT !.connection = NoConnection, !.ackTimer = FALSE,
            !.sock = IF @ = "open" THEN "closing" ELSE @,
            !.faults = @ + 1]

\* The entries flush() has still to write on the connection.
Unsent(t) ==
  {k \in Present(t.entries) : t.entries[k].sentSocket # t.connection.socket}

CanWrite(t) ==
  t.sending = NotSending /\ t.connection # NoConnection /\ t.sock = "open"

\* Mutant of First: any unsent entry.
AnyUnsent(t, k) == k \in Unsent(t)

First(t, k) == k \in Unsent(t) /\ \A j \in Unsent(t) : Before(t.order, k, j)

\* flush(): the end of most turns.
Flush(t) ==
  \/ \* a write is pending, or there is no open connection
     ~CanWrite(t) /\ EndTurn(t) /\ UNCHANGED wire
  \/ \* everything has been written on this connection
     CanWrite(t) /\ Unsent(t) = {} /\ EndTurn(ScheduleAckCheck(t)) /\ UNCHANGED wire
  \/ \* the first entry not written on this connection is handed to ws.send
     /\ CanWrite(t)
     /\ \E k \in Key :
          LET n == t.entries[k].attempt + 1
              s == t.connection.socket
          IN /\ First(t, k)
             /\ EndTurn([t EXCEPT
                  !.entries[k].attempt = n,
                  !.sending = [key |-> k, socket |-> s, attempt |-> n],
                  !.writes = @ \cup {[key |-> k, socket |-> s, attempt |-> n,
                                      deliveryMode |-> t.connection.deliveryMode]}])
             /\ wire' = wire \cup {<<k, t.entries[k].content>>}
  \/ \* ... or refused at once, the socket being saturated or broken
     /\ CanWrite(t)
     /\ \E k \in Key :
          /\ First(t, k)
          /\ EndTurn(GiveUpConnection([t EXCEPT !.entries[k].attempt = @ + 1,
                                                !.entries[k].sentSocket = 0]))
     /\ UNCHANGED wire

\* remove(key, entry) once the store has recorded it.
Removed(t, k) ==
  ScheduleAckCheck([t EXCEPT !.entries[k] = NoEntry, !.order = Without(@, k)])

\* Mutant of BytesWithout: the bytes stay counted.
BytesStayCounted(k) == totalBytes

BytesWithout(k) ==
  LET n == ByteLength[entries[k].content]
  IN  IF totalBytes >= n THEN totalBytes - n ELSE 0

---------------------------------------------------------------------------
Init ==
  /\ up = TRUE
  /\ entries = [k \in Key |-> NoEntry]
  /\ order = <<>>
  /\ totalBytes = 0
  /\ connection = NoConnection
  /\ sending = NotSending
  /\ ackTimer = FALSE
  /\ disk = [k \in Key |-> None]
  /\ live = 0 /\ sock = "down" /\ relayMode = None
  /\ writes = {} /\ wire = {} /\ acks = {}
  /\ accepted = {} /\ relayGot = {} /\ confirmed = {}
  /\ faults = 0

---------------------------------------------------------------------------
(* Producers: enqueueIfReliable through the managers' queueReliable.       *)

Full(c) ==
  \/ Cardinality(Present(entries)) >= MaxEntries
  \/ totalBytes + ByteLength[c] > MaxBytes

\* Mutant of IsNew: a queued message is overwritten.
IsNewOrQueued(k, c) == ~Full(c)

\* Only an unused key is taken.
IsNew(k, c) == entries[k].content = None /\ ~Full(c)

\* A new message is stored durably, then queued, then flushed.
Enqueue(k, c) ==
  /\ up
  /\ IsNew(k, c)
  /\ disk' = [disk EXCEPT ![k] = c]
  /\ totalBytes' = totalBytes + ByteLength[c]
  /\ accepted' = accepted \cup {<<k, c>>}
  /\ Flush([Turn EXCEPT !.entries[k] = NewEntry(c), !.order = Append(@, k)])
  /\ UNCHANGED <<up, live, relayMode, acks, relayGot, confirmed>>

\* Rejected: other content under a queued key, no room, or the store cannot
\* write.  Nothing is queued and the manager drops its connection.  (Equal
\* content under a queued key is accepted and changes nothing.)
EnqueueRejected(k, c) ==
  /\ up
  /\ entries[k].content # c
  /\ sock = "open" /\ faults < MaxFaults
  /\ sock' = "closing" /\ faults' = faults + 1
  /\ UNCHANGED <<outbox, disk, live, relayMode, writes, wire, acks, history>>

---------------------------------------------------------------------------
(* The connection: opened by the reconnect loop, hello, close.             *)

Connect ==
  /\ up /\ sock = "down"
  /\ live' = live + 1 /\ sock' = "open"
  /\ UNCHANGED <<outbox, disk, relayMode, writes, wire, acks, history, faults>>

\* attach() and detach() disown the pending write: its entry counts as not
\* written.
DisownSending(t) ==
  [t EXCEPT
    !.entries = [k \in Key |->
      IF k = t.sending.key THEN [@[k] EXCEPT !.sentSocket = 0] ELSE @[k]],
    !.sending = NotSending]

\* attach(), on a valid hello; it may still arrive when the socket is closing.
Attach(mode) ==
  /\ sock # "down" /\ relayMode = None
  /\ relayMode' = mode
  /\ LET t == IF sending # NotSending /\ sending.socket # live
              THEN DisownSending(Turn) ELSE Turn
     IN Flush([t EXCEPT !.ackTimer = FALSE,
                        !.connection = [socket |-> live, deliveryMode |-> mode]])
  /\ UNCHANGED <<up, totalBytes, disk, live, acks, history>>

\* Somebody asks the socket to close: the hello or liveness timer, another
\* sender under backpressure, or Relay.  The outbox learns of it later.
BeginClose ==
  /\ sock = "open" /\ faults < MaxFaults
  /\ sock' = "closing" /\ faults' = faults + 1
  /\ UNCHANGED <<outbox, disk, live, relayMode, writes, wire, acks, history>>

\* The close event, after which nothing arrives from this socket: detach().
\* ws fails the writes it still holds; LateCallbacks says whether it may run
\* their callbacks after the event.
SocketClosed ==
  /\ sock = "closing"
  /\ LateCallbacks \/ writes = {}
  /\ LET t == IF sending.socket = live THEN DisownSending(Turn) ELSE Turn
         own == connection.socket = live
     IN EndTurn([t EXCEPT
          !.connection = IF own THEN NoConnection ELSE @,
          !.ackTimer = IF own THEN FALSE ELSE @,
          !.sock = "down"])
  /\ relayMode' = None /\ wire' = {} /\ acks' = {}
  /\ UNCHANGED <<up, totalBytes, disk, live, history>>

---------------------------------------------------------------------------
(* The ws.send callback: settle().  w remembers what the closure captured. *)

IsCurrentAttempt(w) ==
  entries[w.key].content # None /\ entries[w.key].attempt = w.attempt

\* What settle() does last, whatever happened: the write is no longer pending.
Settled(t, w) ==
  [t EXCEPT
    !.sending = IF @ = [key |-> w.key, socket |-> w.socket, attempt |-> w.attempt]
                THEN NotSending ELSE @,
    !.writes = @ \ {w}]

\* ws reports success only while the socket lives.
CallbackInTime(w) == w \in writes /\ w.socket = live /\ sock # "down"

\* Mutant of LegacyConfirms: an acknowledging Relay's writes count too.
EveryWriteConfirms(w) == CallbackInTime(w) /\ IsCurrentAttempt(w)

LegacyConfirms(w) ==
  /\ CallbackInTime(w) /\ IsCurrentAttempt(w)
  /\ w.deliveryMode = LegacyWriteConfirmed

\* No error, on a Relay that acknowledges: the entry waits for its ACK.
WriteSucceeded(w) ==
  /\ CallbackInTime(w) /\ ~LegacyConfirms(w)
  /\ LET t == IF IsCurrentAttempt(w)
              THEN [Turn EXCEPT !.entries[w.key].sentSocket = w.socket] ELSE Turn
     IN Flush(ScheduleAckCheck(Settled(t, w)))
  /\ UNCHANGED <<up, totalBytes, disk, live, relayMode, acks, history>>

\* No error, on a legacy Relay: the entry is done with.
WriteConfirmed(w) ==
  /\ LegacyConfirms(w)
  /\ disk' = [disk EXCEPT ![w.key] = None]
  /\ totalBytes' = BytesWithout(w.key)
  /\ confirmed' = confirmed \cup {<<w.key, entries[w.key].content>>}
  /\ Flush(ScheduleAckCheck(Settled(Removed(Turn, w.key), w)))
  /\ UNCHANGED <<up, live, relayMode, acks, accepted, relayGot>>

\* ... unless the store cannot record it: the connection is given up and the
\* entry stays to be written again.
WriteConfirmedNotStored(w) ==
  /\ LegacyConfirms(w)
  /\ Flush(ScheduleAckCheck(Settled(GiveUpConnection(Turn), w)))
  /\ UNCHANGED <<up, totalBytes, disk, live, relayMode, acks, history>>

\* An error: the entry counts as not written, and the connection, if it is
\* still this one, is given up.  (If it is not, that socket has been asked to
\* close before.)
WriteFailed(w) ==
  /\ w \in writes
  /\ LET unsent == [Turn EXCEPT !.entries[w.key].sentSocket = 0]
         t == IF ~IsCurrentAttempt(w) THEN Turn
              ELSE IF connection.socket = w.socket THEN GiveUpConnection(unsent)
              ELSE unsent
     IN Flush(ScheduleAckCheck(Settled(t, w)))
  /\ UNCHANGED <<up, totalBytes, disk, live, relayMode, acks, history>>

---------------------------------------------------------------------------
(* Relay (external): it takes frames and, if it acknowledges, ACKs each.   *)

RelayReceives(k, c) ==
  /\ <<k, c>> \in wire
  /\ wire' = wire \ {<<k, c>>}
  /\ relayGot' = relayGot \cup {<<k, c>>}
  /\ acks' = IF relayMode = Acknowledged THEN acks \cup {k} ELSE acks
  /\ UNCHANGED <<outbox, disk, live, sock, relayMode, writes, accepted, confirmed, faults>>

\* Mutant of AckApplies: an ACK that overtakes the write callback is ignored.
AckAppliesWhenWritten(k) ==
  /\ connection.deliveryMode = Acknowledged
  /\ entries[k].content # None /\ entries[k].sentSocket = connection.socket

\* acknowledge() and acknowledgeResponse(): ignored without an acknowledging
\* connection or without such an entry.
AckApplies(k) ==
  connection.deliveryMode = Acknowledged /\ entries[k].content # None

AckIgnored(k) ==
  /\ k \in acks /\ ~AckApplies(k)
  /\ acks' = acks \ {k}
  /\ UNCHANGED <<outbox, disk, live, sock, relayMode, writes, wire, history, faults>>

AckRemoves(k) ==
  /\ k \in acks /\ AckApplies(k)
  /\ acks' = acks \ {k}
  /\ disk' = [disk EXCEPT ![k] = None]
  /\ totalBytes' = BytesWithout(k)
  /\ Flush(Removed(Turn, k))
  /\ UNCHANGED <<up, live, relayMode, history>>

\* The store cannot record the removal: the entry stays for a replay.
AckNotStored(k) ==
  /\ k \in acks /\ AckApplies(k)
  /\ acks' = acks \ {k}
  /\ EndTurn(GiveUpConnection(Turn))
  /\ UNCHANGED <<up, totalBytes, disk, live, relayMode, wire, history>>

\* The ACK timer fires on an entry that has waited too long.  (Firing early
\* only arms it again.)
AckTimeout ==
  /\ ackTimer /\ connection.deliveryMode = Acknowledged
  /\ EndTurn(GiveUpConnection(Turn))
  /\ UNCHANGED <<up, totalBytes, disk, live, relayMode, wire, acks, history>>

---------------------------------------------------------------------------
(* The process dies and starts again.                                      *)

\* Everything but the store is gone, the connection too.
Die ==
  /\ up' = FALSE
  /\ entries' = [k \in Key |-> NoEntry] /\ totalBytes' = 0
  /\ connection' = NoConnection /\ sending' = NotSending /\ ackTimer' = FALSE
  /\ sock' = "down" /\ relayMode' = None
  /\ writes' = {} /\ wire' = {} /\ acks' = {}
  /\ faults < MaxFaults /\ faults' = faults + 1
  /\ UNCHANGED <<live, relayGot>>

Crash == up /\ Die /\ UNCHANGED <<disk, order, accepted, confirmed>>

\* Between the store's put and the end of enqueue: the caller was told
\* nothing, but the message will be restored.
CrashAfterPut(k, c) ==
  /\ up /\ IsNew(k, c)
  /\ Die
  /\ disk' = [disk EXCEPT ![k] = c]
  /\ order' = Append(order, k)
  /\ accepted' = accepted \cup {<<k, c>>}
  /\ UNCHANGED confirmed

\* Between the store's remove and the end of the turn that asked for it.
CrashAfterRemove(k) ==
  /\ up
  /\ \/ k \in acks /\ AckApplies(k) /\ UNCHANGED confirmed
     \/ /\ \E w \in writes : w.key = k /\ LegacyConfirms(w)
        /\ confirmed' = confirmed \cup {<<k, entries[k].content>>}
  /\ Die
  /\ disk' = [disk EXCEPT ![k] = None]
  /\ order' = Without(order, k)
  /\ UNCHANGED accepted

\* The constructor restores the stored entries, in order; it throws when they
\* exceed the limits.
BytesAlong(o, d) ==
  LET total[i \in 0..Len(o)] ==
        IF i = 0 THEN 0 ELSE total[i - 1] + ByteLength[d[o[i]]]
  IN  total[Len(o)]

StoredBytes == BytesAlong(order, disk)
Restorable == Cardinality(Stored) <= MaxEntries /\ StoredBytes \in 0..MaxBytes

Restart ==
  /\ ~up /\ Restorable
  /\ up' = TRUE
  /\ entries' = [k \in Key |-> NewEntry(disk[k])]
  /\ totalBytes' = StoredBytes
  /\ UNCHANGED <<order, connection, sending, ackTimer, disk, channel, history, faults>>

---------------------------------------------------------------------------
Next ==
  \/ \E k \in Key, c \in Content :
       Enqueue(k, c) \/ EnqueueRejected(k, c) \/ RelayReceives(k, c) \/ CrashAfterPut(k, c)
  \/ Connect \/ (\E mode \in DeliveryModes : Attach(mode)) \/ BeginClose \/ SocketClosed
  \/ \E w \in writes :
       WriteSucceeded(w) \/ WriteConfirmed(w) \/ WriteConfirmedNotStored(w) \/ WriteFailed(w)
  \/ \E k \in Key : AckIgnored(k) \/ AckRemoves(k) \/ AckNotStored(k) \/ CrashAfterRemove(k)
  \/ AckTimeout \/ Crash \/ Restart

Spec == Init /\ [][Next]_vars

(***************************************************************************)
(* What the liveness property needs: the reconnect loop reconnects, Relay  *)
(* says hello, takes frames and ACKs them, ws runs its callbacks and emits *)
(* close, a supervisor restarts the process.  Failures are bounded.        *)
(***************************************************************************)
Fairness ==
  /\ WF_vars(Connect)
  /\ WF_vars(\E mode \in DeliveryModes : Attach(mode))
  /\ WF_vars(SocketClosed)
  /\ WF_vars(\E w \in writes : WriteSucceeded(w) \/ WriteConfirmed(w))
  /\ \A k \in Key :
       /\ WF_vars(\E c \in Content : RelayReceives(k, c))
       /\ WF_vars(AckIgnored(k) \/ AckRemoves(k))
  /\ WF_vars(Restart)

FairSpec == Spec /\ Fairness

---------------------------------------------------------------------------
(* Properties                                                              *)

Entry == [content : Content \cup {None}, sentSocket : Nat, attempt : Nat]

\* The shapes of the state.
TypeOK ==
  /\ up \in BOOLEAN
  /\ entries \in [Key -> Entry]
  /\ order \in Seq(Key)
  /\ totalBytes \in Nat
  /\ connection \in [socket : Nat, deliveryMode : DeliveryModes \cup {None}]
  /\ sending \in [key : Key \cup {None}, socket : Nat, attempt : Nat]
  /\ ackTimer \in BOOLEAN
  /\ disk \in [Key -> Content \cup {None}]
  /\ live \in Nat /\ sock \in {"down", "open", "closing"}
  /\ relayMode \in DeliveryModes \cup {None}
  /\ writes \subseteq [key : Key, socket : Nat, attempt : Nat, deliveryMode : DeliveryModes]
  /\ wire \subseteq Key \X Content /\ acks \subseteq Key
  /\ accepted \subseteq Key \X Content
  /\ relayGot \subseteq Key \X Content
  /\ confirmed \subseteq Key \X Content
  /\ faults \in Nat

\* NO LOSS.  A message once accepted is still in the durable store, or Relay
\* has it, or a Relay without ACKs confirmed its write; through every order of
\* callbacks, ACKs, closes, store failures and crashes.
NothingLost ==
  \A m \in accepted :
    m \in relayGot \/ m \in confirmed \/ disk[m[1]] = m[2]

\* The byte count that admission relies on is exact, and the store never
\* outgrows the limits restore() enforces: no crash makes a restart throw.
BytesAccounted ==
  /\ up => totalBytes = StoredBytes
  /\ Restorable

\* NO STALL.  An open attached connection with no write pending has written
\* everything there is: every way a turn can end has flushed.
NoStall ==
  connection # NoConnection /\ sock = "open" /\ sending = NotSending =>
    \A k \in Present(entries) : entries[k].sentSocket = connection.socket

\* While an entry waits for its ACK on the current connection the ACK timer
\* runs, so silence of Relay is always noticed.
AckWatchdogArmed ==
  connection.deliveryMode = Acknowledged
  /\ (\E k \in Present(entries) : entries[k].sentSocket = connection.socket) => ackTimer

\* The queue never stands still: the two together, for every way a turn can end
\* (reliable-relay-outbox.ts: flush, scheduleAckHealthCheck).
KeepsGoing == NoStall /\ AckWatchdogArmed

\* On one connection entries are written in the order they were accepted: what
\* has been written is a prefix of the queue.
WrittenInOrder ==
  connection # NoConnection =>
    \A i, j \in DOMAIN order :
      i < j /\ entries[order[j]].sentSocket = connection.socket =>
        \/ entries[order[i]].sentSocket = connection.socket
        \/ sending.key = order[i]

\* An ACK in flight on the attached connection is about the message queued now
\* under its key, and Relay has that message: a late ACK, or the ACK of an
\* earlier use of the key, never speaks for another message.
AckIsForTheQueuedMessage ==
  connection.deliveryMode = Acknowledged =>
    \A k \in acks : <<k, entries[k].content>> \in relayGot

\* At most one write is outstanding, and it is the one `sending` names.
OneWriteOutstanding ==
  \/ sending = NotSending /\ writes = {}
  \/ \E m \in DeliveryModes :
       writes = {[key |-> sending.key, socket |-> sending.socket,
                  attempt |-> sending.attempt, deliveryMode |-> m]}

\* A message is not written again on a connection that still carries it or its
\* ACK: replays happen on the next connection only.
NoReplayOnSameConnection ==
  [][\A k \in Key :
       /\ sending' # sending /\ sending'.key = k
       /\ relayMode' = Acknowledged
       => k \notin acks /\ (\A c \in Content : <<k, c>> \notin wire)]_vars

---------------------------------------------------------------------------
(***************************************************************************)
(* The inductive invariant behind the safety properties, when no callback  *)
(* outlives its socket.  It is stated of a turn t, so that it can be       *)
(* followed through a turn up to its flush; n, m, w, a, g stand for live,  *)
(* relayMode, wire, acks and relayGot.                                     *)
(***************************************************************************)

\* The outbox is connected to the newest socket, in the mode of its hello.
ConnectionIsLive(t, n, m) ==
  /\ t.sock = "down" => m = None
  /\ m = None => t.connection = NoConnection /\ t.writes = {}
  /\ t.sock # "down" => n > 0
  /\ t.connection # NoConnection =>
       t.connection.socket = n /\ t.connection.deliveryMode = m

\* The outstanding write is the one `sending` names, on the newest socket.
WriteIsSending(t, n, m) ==
  \/ t.sending = NotSending /\ t.writes = {}
  \/ /\ t.sending.key # None /\ t.sending.socket = n /\ n > 0
     /\ t.writes = {[key |-> t.sending.key, socket |-> n,
                     attempt |-> t.sending.attempt, deliveryMode |-> m]}

OnTheWay(w, a, k) == k \in a \/ \E c \in Content : <<k, c>> \in w

\* What is on its way on an acknowledging connection is what is queued, once;
\* an ACK is about what Relay has.
TrafficIsQueued(t, m, w, a, g) ==
  /\ m = None => w = {} /\ a = {}
  /\ m = Acknowledged =>
       /\ \A k \in Key, c \in Content :
            <<k, c>> \in w => t.entries[k].content = c /\ k \notin a
       /\ \A k \in a : t.entries[k].content # None /\ <<k, t.entries[k].content>> \in g

\* ... and flush() will not write it again on this connection.
TrafficIsMarked(t, n, m, w, a) ==
  t.connection # NoConnection /\ m = Acknowledged =>
    \A k \in Key : OnTheWay(w, a, k) =>
      \/ t.entries[k].sentSocket = n
      \/ t.sending.key = k /\ t.sending.attempt = t.entries[k].attempt

TurnInv(t, n, m, w, a, g) ==
  /\ ConnectionIsLive(t, n, m)
  /\ WriteIsSending(t, n, m)
  /\ TrafficIsQueued(t, m, w, a, g)
  /\ TrafficIsMarked(t, n, m, w, a)

\* Memory mirrors the store while the process runs; without it there is
\* neither memory nor socket.
MemoryMirrorsStore ==
  /\ up => \A k \in Key : entries[k].content = disk[k]
  /\ ~up => sock = "down" /\ sending = NotSending /\ \A k \in Key : entries[k] = NoEntry

\* Only accepted messages are stored or written.
OnlyAccepted ==
  /\ \A k \in Key : disk[k] # None => <<k, disk[k]>> \in accepted
  /\ wire \subseteq accepted

IInv ==
  /\ TypeOK
  /\ TurnInv(Turn, live, relayMode, wire, acks, relayGot)
  /\ MemoryMirrorsStore
  /\ OnlyAccepted
  /\ NothingLost

---------------------------------------------------------------------------
\* Every accepted message is eventually received by Relay, or its write is
\* confirmed by a Relay without ACKs.
EventuallyDelivered ==
  \A k \in Key, c \in Content :
    <<k, c>> \in accepted ~> <<k, c>> \in relayGot \cup confirmed

\* Every entry eventually leaves the store: replays do not go on for ever.
EventuallyReleased ==
  \A k \in Key : disk[k] # None ~> disk[k] = None

\* The outbox implements the delivery service.
Delivery == INSTANCE ReliableDelivery WITH owed <- disk, received <- relayGot
ImplementsDelivery == Delivery!DSpec
=============================================================================
