---------------------------- MODULE SourceCommits ----------------------------
(***************************************************************************)
(* How the rows of OpenClaw's transcripts reach Relay: one watcher per     *)
(* session and connection (core/relay/source-commit.ts and                 *)
(* openclaw/relay/openclaw-source-commit-watcher.ts), the projection of    *)
(* source pages (openclaw/relay/source-commit-projection.ts), the gate     *)
(* that lets one frame at a time to Relay (source-commit-publish-flow.ts)  *)
(* and the question for Relay's watermark after a reconnect                *)
(* (source-commit-checkpoint-client.ts).                                   *)
(*                                                                         *)
(* A session's transcript grows by rows, rewrites rows in place, and may   *)
(* start anew (an epoch, the code's source generation).  A row is its      *)
(* version; 0 is a row that mobile does not see.  The source changes       *)
(* between any two turns of the agent, whose actions run from one await    *)
(* of something outside to the next, promise continuations included.  A    *)
(* watcher whose connection is closed has no effects any more, since the   *)
(* gate and the socket refuse it; it is gone at once.                      *)
(***************************************************************************)
EXTENDS Naturals, Sequences, FiniteSets

CONSTANTS
  Session,
  Hidden,       \* the rows that are not visible when they are appended
  PageLimit,    \* SOURCE_COMMIT_PAGE_LIMIT
  Modes,        \* what the hellos of Relay may offer
  RowsOf,       \* bound: rows of each session's transcripts
  EditsOf,      \* bound: rewrites and new starts of each session
  MaxRows, MaxEpochs, MaxFaults  \* bounds

\* What Relay's hello may offer: ACKs of frames (the acknowledged delivery mode)
\* and its watermarks (RELAY_SOURCE_COMMIT_RESUME_CAPABILITY).
EventAcks == "event acks"
Watermarks == "watermarks"
NoHello == {"none"}

ASSUME BoundsAreNatural ==
  /\ MaxRows \in Nat /\ MaxEpochs \in Nat \ {0} /\ MaxFaults \in Nat
  /\ PageLimit \in Nat \ {0} /\ RowsOf \in [Session -> 0..MaxRows]
  /\ EditsOf \in [Session -> Nat]
ASSUME ModesAreKnown == Modes \subseteq SUBSET {EventAcks, Watermarks}

Epoch == 1..MaxEpochs
Row == 1..MaxRows

VARIABLES
  \* OpenClaw
  source,     \* each session's epoch, rows, and rewrite generation
  edits,      \* how often its rows were rewritten or it started anew
  \* the connection
  up,
  mode,       \* what the hello offered
  watcher,    \* the watcher of each session, or Off
  gate,       \* the sessions whose frames wait for their turn; the first is sent
  waiting,    \* its frame's ACK is awaited (waiters)
  wire, acks,
  \* Relay
  stored,     \* the version of each row it has, 0 if none
  watermark,  \* the committedThroughSeq of each scope
  \* history
  givenUp,    \* a frame of this connection was given up after it was written
  unhandled,  \* the process died of a rejection that nobody handles
  faults

connection == <<up, mode, watcher, gate, waiting, wire, acks, givenUp, unhandled>>
relay == <<stored, watermark>>
vars == <<source, edits, connection, relay, faults>>

NoCursor == [epoch |-> 0, through |-> 0, gen |-> 0]
NoPage == [epoch |-> 0, through |-> 0, to |-> 0, more |-> FALSE, rows |-> <<>>]
NoPrints == [epoch |-> 0, rows |-> [i \in Row |-> 0]]
Off == [at |-> "off", pending |-> FALSE, cursor |-> NoCursor, rewriting |-> FALSE, from |-> 0,
        page |-> NoPage, resolved |-> {}, latest |-> [e \in Epoch |-> 0],
        known |-> [e \in Epoch |-> 0], prints |-> NoPrints]

Init ==
  /\ source = [s \in Session |-> [epoch |-> 1, rows |-> <<>>, gen |-> 1]]
  /\ edits = [s \in Session |-> 0]
  /\ up = FALSE /\ mode = NoHello /\ watcher = [s \in Session |-> Off]
  /\ gate = <<>> /\ waiting = FALSE /\ wire = <<>> /\ acks = {}
  /\ stored = [s \in Session |-> [e \in Epoch |-> [i \in Row |-> 0]]]
  /\ watermark = [s \in Session |-> [e \in Epoch |-> 0]]
  /\ givenUp = FALSE /\ unhandled = FALSE /\ faults = 0

Fault == faults < MaxFaults /\ faults' = faults + 1
Least(a, b) == IF a <= b THEN a ELSE b

---------------------------------------------------------------------------
(* OpenClaw (external)                                                     *)

AppendRow(s) ==
  /\ Len(source[s].rows) < RowsOf[s]
  /\ source' = [source EXCEPT ![s].rows =
       Append(@, IF Len(@) + 1 \in Hidden THEN 0 ELSE 1)]
  /\ UNCHANGED <<edits, connection, relay, faults>>

Edit(s) == edits[s] < EditsOf[s] /\ edits' = [edits EXCEPT ![s] = @ + 1]

\* Media are added to a row, or a row becomes visible.
RewriteRow(s, i) ==
  /\ Edit(s)
  /\ i \in DOMAIN source[s].rows
  /\ source' = [source EXCEPT ![s].rows[i] = @ + 1, ![s].gen = @ + 1]
  /\ UNCHANGED <<connection, relay, faults>>

StartAnew(s) ==
  /\ source[s].epoch < MaxEpochs /\ source[s].rows # <<>>
  /\ Edit(s)
  /\ source' = [source EXCEPT ![s] = [epoch |-> @.epoch + 1, rows |-> <<>>, gen |-> 1]]
  /\ UNCHANGED <<connection, relay, faults>>

---------------------------------------------------------------------------
(* What a watcher's walk comes to                                          *)

\* SourceRowFingerprints.record, which forgets other scopes.
Recorded(w) ==
  IF w.rewriting /\ DOMAIN w.page.rows = {} THEN w.prints
  ELSE [epoch |-> w.cursor.epoch,
        rows |-> [i \in Row |->
          IF i \in DOMAIN w.page.rows THEN w.page.rows[i]
          ELSE IF w.prints.epoch = w.cursor.epoch THEN w.prints.rows[i] ELSE 0]]

\* Mutant of Ended: the rows of a page that failed count as sent.
EndedWithPrints(w) ==
  [w EXCEPT !.at = "idle", !.cursor = NoCursor, !.rewriting = FALSE, !.from = 0, !.page = NoPage,
            !.prints = Recorded(w)]

Ended(w) ==
  [w EXCEPT !.at = "idle", !.cursor = NoCursor, !.rewriting = FALSE, !.from = 0, !.page = NoPage]

Succeeded(w) ==
  [Ended(w) EXCEPT
     !.latest[w.cursor.epoch] = IF w.rewriting THEN @ ELSE w.cursor.through,
     !.known[w.cursor.epoch] = w.cursor.gen]

Tracked(w) ==
  {i \in Row : w.prints.epoch = w.cursor.epoch /\ w.prints.rows[i] # 0}

TrackedFrom(w) == CHOOSE i \in Tracked(w) : \A j \in Tracked(w) : i <= j

\* The drain's decision once the cursor was read and its scope is resolved.
\* The first rewrite generation seen is the baseline.
Decided(w) ==
  LET e == w.cursor.epoch IN
  CASE w.cursor.through > w.latest[e] -> [w EXCEPT !.at = "reading", !.from = w.latest[e]]
    [] w.cursor.through <= w.latest[e] /\ w.known[e] = w.cursor.gen -> Ended(w)
    [] w.cursor.through <= w.latest[e] /\ w.known[e] = 0 ->
         [Ended(w) EXCEPT !.known[e] = w.cursor.gen]
    [] OTHER ->
         IF Tracked(w) = {} \/ TrackedFrom(w) > w.cursor.through
         THEN Succeeded([w EXCEPT !.rewriting = TRUE])
         ELSE [w EXCEPT !.at = "reading", !.rewriting = TRUE, !.from = TrackedFrom(w) - 1]

\* A page has been taken care of: the walk goes on, is complete, or fails
\* because the source ended before the cursor.
Turned(w) ==
  LET v == [w EXCEPT !.from = w.page.to, !.prints = Recorded(w), !.page = NoPage] IN
  IF w.page.to >= w.cursor.through THEN Succeeded(v)
  ELSE IF w.page.more THEN [v EXCEPT !.at = "reading"]
  ELSE Ended(v)

\* A turn of the drain's loop up to its first await of something outside.
Begun(s, w) ==
  LET now == source[s]
      v == [w EXCEPT !.pending = FALSE,
              !.cursor = [epoch |-> now.epoch, through |-> Len(now.rows), gen |-> now.gen]]
  IN  IF now.epoch \in w.resolved THEN Decided(v) ELSE [v EXCEPT !.at = "resolving"]

\* The loop goes on while there are notifications.
Looped(s, w) == IF w.at = "idle" /\ w.pending THEN Begun(s, w) ELSE w
Becomes(s, w) == watcher' = [watcher EXCEPT ![s] = Looped(s, w)]

---------------------------------------------------------------------------
(* The connection                                                          *)

Connect ==
  /\ ~up /\ up' = TRUE /\ unhandled' = FALSE
  /\ UNCHANGED <<source, edits, mode, watcher, gate, waiting, wire, acks, givenUp, relay, faults>>

Hello(m) ==
  /\ up /\ mode = NoHello /\ mode' = m
  /\ UNCHANGED <<source, edits, up, watcher, gate, waiting, wire, acks, givenUp, unhandled, relay,
                 faults>>

\* ensureSourceCommitWatcher, when the gateway tells of the session.
Watch(s) ==
  /\ up /\ watcher[s].at = "off"
  /\ Becomes(s, [Off EXCEPT !.at = "idle", !.pending = TRUE])
  /\ UNCHANGED <<source, edits, up, mode, gate, waiting, wire, acks, givenUp, unhandled, relay,
                 faults>>

Goes ==
  /\ up' = FALSE /\ mode' = NoHello /\ watcher' = [s \in Session |-> Off]
  /\ gate' = <<>> /\ waiting' = FALSE /\ wire' = <<>> /\ acks' = {} /\ givenUp' = FALSE

\* close() rejects the promise of the awaited ACK.  While the frame is not
\* even written, nobody has that promise in hand.
IsOrphan == waiting /\ watcher[Head(gate)].at = "sending"

Close ==
  /\ up /\ Fault /\ Goes /\ unhandled' = IsOrphan
  /\ UNCHANGED <<source, edits, relay>>

---------------------------------------------------------------------------
(* The watchers                                                            *)

\* A change of the file, an event of the gateway, or the periodic rescan.
Notify(s) ==
  /\ watcher[s].at # "off" /\ Becomes(s, [watcher[s] EXCEPT !.pending = TRUE])
  /\ UNCHANGED <<source, edits, up, mode, gate, waiting, wire, acks, givenUp, unhandled, relay,
                 faults>>

\* Mutant of Resumed: the watcher starts at what is there now.
ResumedAtLatest(s, e) == Len(source[s].rows)

\* resolveWatermark: without the capability from the beginning.
Resumed(s, e) == IF Watermarks \in mode THEN watermark[s][e] ELSE 0

Resolve(s) ==
  /\ watcher[s].at = "resolving" /\ mode # NoHello
  /\ LET e == watcher[s].cursor.epoch
     IN  Becomes(s, Decided([watcher[s] EXCEPT !.resolved = @ \cup {e}, !.latest[e] = Resumed(s, e)]))
  /\ UNCHANGED <<source, edits, up, mode, gate, waiting, wire, acks, givenUp, unhandled, relay,
                 faults>>

ResolveFails(s) ==
  /\ watcher[s].at = "resolving" /\ Fault
  /\ Becomes(s, Ended(watcher[s]))
  /\ UNCHANGED <<source, edits, up, mode, gate, waiting, wire, acks, givenUp, unhandled, relay>>

\* The rows up to `last` that are sent: the visible ones; in a rewrite, those
\* that differ from what was sent.
Wanted(w, now, last) ==
  {i \in (w.from + 1)..last :
     /\ now.rows[i] # 0
     /\ (w.rewriting /\ now.epoch = w.cursor.epoch) => now.rows[i] # w.prints.rows[i]}

\* The watermark of a page that was read up to `to`.
Covered(w, to) == Least(to, w.cursor.through)

\* The next page of the session as it is now.
PageOf(w, now) ==
  LET to == Least(w.from + PageLimit, Len(now.rows))
  IN  [epoch |-> now.epoch, to |-> to, through |-> Covered(w, to), more |-> to < Len(now.rows),
       rows |-> [i \in Wanted(w, now, Least(to, w.cursor.through)) |-> now.rows[i]]]

\* A rewrite in which no row differs needs neither media nor a frame.
ReadPage(s) ==
  /\ watcher[s].at = "reading"
  /\ LET p == PageOf(watcher[s], source[s])
         w == [watcher[s] EXCEPT !.page = p]
     IN  Becomes(s, IF p.to = w.from THEN Ended(w)
                    ELSE IF w.rewriting /\ DOMAIN p.rows = {} THEN Turned(w)
                    ELSE [w EXCEPT !.at = "relaying"])
  /\ UNCHANGED <<source, edits, up, mode, gate, waiting, wire, acks, givenUp, unhandled, relay,
                 faults>>

Acks == EventAcks \in mode

GateIsOpen == gate = <<>>

\* The media of the page are uploaded.  Its frame, if it has one, gets in line.
Relayed(s) ==
  /\ watcher[s].at = "relaying"
  /\ IF DOMAIN watcher[s].page.rows = {}
     THEN Becomes(s, Turned(watcher[s])) /\ UNCHANGED <<gate, waiting>>
     ELSE /\ Becomes(s, [watcher[s] EXCEPT !.at = IF GateIsOpen THEN "sending" ELSE "queued"])
          /\ gate' = Append(gate, s)
          /\ waiting' = IF GateIsOpen THEN Acks ELSE waiting
  /\ UNCHANGED <<source, edits, up, mode, wire, acks, givenUp, unhandled, relay, faults>>

ReadFails(s) ==
  /\ watcher[s].at \in {"reading", "relaying"} /\ Fault
  /\ Becomes(s, Ended(watcher[s]))
  /\ UNCHANGED <<source, edits, up, mode, gate, waiting, wire, acks, givenUp, unhandled, relay>>

---------------------------------------------------------------------------
(* The gate                                                                *)

\* What a frame holds, and the id it is sent under: that of a commit does not
\* depend on the versions of its rows.
Frame(s) ==
  LET w == watcher[s]
  IN  [session |-> s, epoch |-> w.cursor.epoch, through |-> w.page.through, origin |-> w.page.epoch,
       rewriting |-> w.rewriting, rows |-> w.page.rows]
DeliveryId(f) ==
  [session |-> f.session, epoch |-> f.epoch, through |-> f.through, rewriting |-> f.rewriting,
   rows |-> [i \in DOMAIN f.rows |-> IF f.rewriting THEN f.rows[i] ELSE 0]]

\* The socket has drained, the media are there, and ws.send is called.
Write(s) ==
  /\ watcher[s].at = "sending"
  /\ Becomes(s, [watcher[s] EXCEPT !.at = "writing"])
  /\ wire' = Append(wire, Frame(s))
  /\ UNCHANGED <<source, edits, up, mode, gate, waiting, acks, givenUp, unhandled, relay, faults>>

\* The turn of the first in the gate is over, with its watcher at w; the next
\* one begins, and its ACK is registered before anything is sent.
Passes(s, w) ==
  LET behind == Tail(gate) IN
  /\ gate' = behind /\ waiting' = (behind # <<>> /\ Acks)
  /\ watcher' = [t \in Session |->
       IF t = s THEN Looped(s, w)
       ELSE IF behind # <<>> /\ t = Head(behind) THEN [watcher[t] EXCEPT !.at = "sending"]
       ELSE watcher[t]]

\* Mutant of Confirmed: the ACK is not awaited.
ConfirmedByWrite == TRUE

\* The frame has been taken: its ACK came first, or none is asked for.
Confirmed == ~waiting

Written(s) ==
  /\ watcher[s].at = "writing"
  /\ IF Confirmed THEN Passes(s, Turned(watcher[s]))
     ELSE Becomes(s, [watcher[s] EXCEPT !.at = "acking"]) /\ UNCHANGED <<gate, waiting>>
  /\ UNCHANGED <<source, edits, up, mode, wire, acks, givenUp, unhandled, relay, faults>>

\* The write is refused, fails, or is not confirmed in time, in which case it
\* may still reach Relay.
SendFails(s) ==
  /\ watcher[s].at \in {"sending", "writing"} /\ Fault
  /\ Passes(s, Ended(watcher[s])) /\ givenUp' = TRUE
  /\ UNCHANGED <<source, edits, up, mode, wire, acks, unhandled, relay>>

Awaited(a) == waiting /\ a = DeliveryId(Frame(Head(gate)))

AckArrives(a) ==
  /\ a \in acks /\ acks' = acks \ {a}
  /\ IF ~Awaited(a) THEN UNCHANGED <<watcher, gate, waiting>>
     ELSE IF watcher[Head(gate)].at = "acking"
     THEN Passes(Head(gate), Turned(watcher[Head(gate)]))
     ELSE waiting' = FALSE /\ UNCHANGED <<watcher, gate>>
  /\ UNCHANGED <<source, edits, up, mode, wire, givenUp, unhandled, relay, faults>>

\* The timer runs from the registration on, before the frame is written.  When
\* it fires before the write is confirmed, nobody handles the rejection.
AckTimeout(s) ==
  /\ waiting /\ watcher[s].at = "acking" /\ Fault
  /\ Passes(s, Ended(watcher[s])) /\ givenUp' = TRUE
  /\ UNCHANGED <<source, edits, up, mode, wire, acks, unhandled, relay>>

AckTimeoutUnhandled ==
  /\ waiting /\ watcher[Head(gate)].at \in {"sending", "writing"}
  /\ Fault /\ Goes /\ unhandled' = TRUE
  /\ UNCHANGED <<source, edits, relay>>

\* Relay (external) stores the rows of a frame and its watermark, then ACKs.
RelayTakes ==
  /\ wire # <<>> /\ wire' = Tail(wire)
  /\ LET f == Head(wire) IN
     /\ stored' = [stored EXCEPT ![f.session][f.origin] =
          [i \in Row |-> IF i \in DOMAIN f.rows THEN f.rows[i] ELSE @[i]]]
     /\ watermark' = [watermark EXCEPT ![f.session][f.epoch] = IF f.through > @ THEN f.through ELSE @]
     /\ acks' = IF Acks THEN acks \cup {DeliveryId(f)} ELSE acks
  /\ UNCHANGED <<source, edits, up, mode, watcher, gate, waiting, givenUp, unhandled, faults>>

---------------------------------------------------------------------------
Next ==
  \/ Connect \/ Close \/ RelayTakes \/ AckTimeoutUnhandled
  \/ \E m \in Modes : Hello(m)
  \/ \E a \in acks : AckArrives(a)
  \/ \E s \in Session :
       \/ AppendRow(s) \/ StartAnew(s) \/ \E i \in Row : RewriteRow(s, i)
       \/ Watch(s) \/ Notify(s) \/ Resolve(s) \/ ResolveFails(s)
       \/ ReadPage(s) \/ Relayed(s) \/ ReadFails(s) \/ Write(s) \/ Written(s)
       \/ SendFails(s) \/ AckTimeout(s)

Spec == Init /\ [][Next]_vars

\* At most one of them is possible at a time.
WatcherStep(s) ==
  Watch(s) \/ Resolve(s) \/ ReadPage(s) \/ Relayed(s) \/ Write(s) \/ Written(s)

\* The reconnect loop connects, Relay says hello, takes frames and ACKs them,
\* the rescan timer fires every few seconds, and every await of a watcher ends.
Fairness ==
  /\ WF_vars(Connect \/ \E m \in Modes : Hello(m))
  /\ WF_vars(RelayTakes) /\ WF_vars(\E a \in acks : AckArrives(a))
  /\ \A s \in Session : WF_vars(WatcherStep(s)) /\ WF_vars(Notify(s))

FairSpec == Spec /\ Fairness

---------------------------------------------------------------------------
(* Properties                                                              *)

Positions == {"off", "idle", "resolving", "reading", "relaying", "queued", "sending", "writing", "acking"}

TypeOK ==
  /\ \A s \in Session :
       /\ source[s].epoch \in Epoch /\ Len(source[s].rows) <= RowsOf[s]
       /\ watcher[s].at \in Positions
       /\ watcher[s].cursor.epoch \in 0..source[s].epoch
       /\ (\E i \in DOMAIN gate : gate[i] = s)
            <=> watcher[s].at \in {"queued", "sending", "writing", "acking"}
       /\ \A e \in Epoch : watermark[s][e] \in 0..MaxRows
  /\ \A i, j \in DOMAIN gate : gate[i] = gate[j] => i = j
  /\ mode \in Modes \cup {NoHello} /\ (gate # <<>> => up /\ mode # NoHello)

OnTheWay(s, e, i, v) ==
  \E k \in DOMAIN wire :
    /\ wire[k].session = s /\ wire[k].origin = e
    /\ i \in DOMAIN wire[k].rows /\ wire[k].rows[i] >= v

\* Relay's watermark of the current transcript has no gap below it: a watcher
\* that resumes there after a reconnect skips nothing.
ResumesWithoutGap ==
  \A s \in Session, i \in Row \ Hidden :
    LET e == source[s].epoch IN i <= watermark[s][e] => stored[s][e][i] # 0

\* The cursor of a watcher never passes what Relay took (or, where Relay does
\* not say what it takes, what was written before).
CursorIsBacked ==
  \A s \in Session, i \in Row \ Hidden :
    LET e == source[s].epoch IN
    i <= watcher[s].latest[e] =>
      \/ stored[s][e][i] # 0
      \/ ~Acks /\ OnTheWay(s, e, i, 1)

\* What the watcher takes for sent, Relay has, or will have if the connection
\* lives.
PrintsAreShown ==
  \A s \in Session, i \in Row :
    LET p == watcher[s].prints IN
    (p.epoch = source[s].epoch /\ p.rows[i] # 0) =>
      \/ stored[s][p.epoch][i] >= p.rows[i]
      \/ OnTheWay(s, p.epoch, i, p.rows[i])

\* What is claimed of Relay is so: a watermark stands above no gap, and a row whose
\* fingerprint is kept is with Relay or on its way (relay-manager.ts,
\* source-row-fingerprints.ts).
ClaimsAreTrue == ResumesWithoutGap /\ PrintsAreShown

\* Relay never has to look at two source frames at once, unless the agent has
\* given one up.
OneFrameAtATime == (Acks /\ ~givenUp) => Len(wire) + Cardinality(acks) <= 1

\* What a watcher holds for sent is with Relay, which takes the frames of all sessions one
\* by one (relay-manager.ts: enqueueSourceCommit; source-commit-publish-flow.ts: gateTail).
SentIsTaken == CursorIsBacked /\ OneFrameAtATime

\* Every row of the current transcript reaches Relay.
EveryRowArrives ==
  \A s \in Session :
    []<>(\A i \in DOMAIN source[s].rows \ Hidden : stored[s][source[s].epoch][i] # 0)

\* A watcher that has nothing left to do has sent every row that it sent on
\* this connection again since the row was last rewritten.
RewritesAreSeen ==
  \A s \in Session :
    LET w == watcher[s]
        e == source[s].epoch IN
    (w.at = "idle" /\ w.latest[e] = Len(source[s].rows) /\ w.known[e] = source[s].gen) =>
      \A i \in DOMAIN source[s].rows :
        (w.prints.epoch = e /\ w.prints.rows[i] # 0) => w.prints.rows[i] = source[s].rows[i]

\* A publication that fails tells its caller, and nobody else.
FailuresReachTheirCaller == ~unhandled
=============================================================================
