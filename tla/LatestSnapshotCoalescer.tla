----------------------- MODULE LatestSnapshotCoalescer -----------------------
(***************************************************************************)
(* LatestSnapshotCoalescer                                                 *)
(* (src/src/core/relay/assistant-stream-coalescer.ts): the growing text of *)
(* one assistant reply on its way to the Relay socket.                     *)
(*                                                                         *)
(* Snapshots are numbered as they are scheduled; each holds the whole text *)
(* so far.  An operation (a tool event, the final message) goes out after  *)
(* the snapshots that were scheduled before it.  This is one key: the keys *)
(* share nothing but the bound on remembered closed ones.                  *)
(*                                                                         *)
(* A state of the code's map has a chain of promises, here the line of its *)
(* jobs, whose head is the one that runs.  clear and dispose take a state  *)
(* out of the map while its jobs go on, and a second one may begin.        *)
(***************************************************************************)
EXTENDS Naturals, Sequences

CONSTANTS
  Operation,     \* calls of flushThen and closeAfterFlush
  Closing,       \* those that close the key
  Drain,         \* the job that sends snapshots
  MaxRetries,    \* maxCompensationRetries
  MaxSnapshots,  \* bound: snapshots scheduled
  MaxStates      \* bound: states at a time, in the map or still running

ASSUME ClosingOperations == Closing \subseteq Operation /\ Drain \notin Operation
ASSUME BoundsAreNatural == MaxRetries \in Nat /\ MaxSnapshots \in Nat /\ MaxStates \in Nat \ {0}

State == 1..MaxStates
NoState == 0

VARIABLES
  states,     \* every state, in the map or still running
  current,    \* the state in the map, or NoState
  closed,     \* the key is in closedKeys
  disposed,
  latest,     \* how many snapshots were scheduled
  progress,   \* where each operation is
  mark,       \* history: the latest snapshot when an operation was requested
  settled,    \* history: the newest snapshot delivered or given up
  discarded,  \* history: snapshots below this one were dropped, 0 if none were
  emitted,    \* history: the snapshot emitted last
  order       \* history: the operations in the order they were requested

ghosts == <<mark, settled, discarded, emitted, order>>
vars == <<states, current, closed, disposed, latest, progress, ghosts>>

NoSnapshot == [value |-> 0, failures |-> 0]
Fresh == [pending |-> NoSnapshot, timer |-> "none", draining |-> FALSE, flushing |-> FALSE,
          immediate |-> FALSE, sending |-> NoSnapshot, line |-> <<>>]

Init ==
  /\ states = [s \in State |-> Fresh] /\ current = NoState
  /\ closed = FALSE /\ disposed = FALSE
  /\ latest = 0 /\ progress = [i \in Operation |-> "new"]
  /\ mark = [i \in Operation |-> 0] /\ settled = 0 /\ discarded = 0 /\ emitted = 0
  /\ order = <<>>

HasPending(t) == t.pending # NoSnapshot

\* Mutant of Quiet: a drain is not looked for.
QuietButDraining(t) == ~HasPending(t) /\ t.timer = "none"

Quiet(t) == ~HasPending(t) /\ t.timer = "none" /\ ~t.draining

\* stateFor: the state in the map, or a new one (the first that nothing
\* refers to any more).
StateFor(s) ==
  IF current # NoState THEN s = current
  ELSE states[s] = Fresh /\ \A r \in 1..(s - 1) : states[r] # Fresh

---------------------------------------------------------------------------
(* Timers and the line                                                     *)

Cancelled(t) == [t EXCEPT !.timer = "none"]

\* enqueueSnapshotDrain: at most one drain is queued or running.
Drained(t, now) ==
  IF t.draining THEN t
  ELSE [t EXCEPT !.draining = TRUE, !.immediate = now, !.line = Append(@, Drain)]

\* flushState: a drain that is there already is told to hurry.
Flushed(t) ==
  IF t.draining THEN [t EXCEPT !.flushing = TRUE]
  ELSE IF HasPending(t) THEN Drained([t EXCEPT !.flushing = TRUE], TRUE)
  ELSE t

\* cleanupWhenIdle: the state leaves the map.
Cleaned(s, t) ==
  current' = IF s = current /\ Quiet(t) /\ t.line = <<>> THEN NoState ELSE current

Becomes(s, t) == states' = [states EXCEPT ![s] = t]

\* The job at the head of the line is over.
Leaves(s, t) ==
  LET u == [t EXCEPT !.line = Tail(@)]
  IN  Becomes(s, u) /\ Cleaned(s, u)

---------------------------------------------------------------------------
(* The calls                                                               *)

Schedule(s) ==
  /\ ~disposed /\ ~closed /\ latest < MaxSnapshots
  /\ StateFor(s) /\ current' = s
  /\ latest' = latest + 1
  /\ Becomes(s, [states[s] EXCEPT
       !.pending = [value |-> latest', failures |-> 0],
       !.timer = IF @ = "coalesce" \/ ~states[s].draining THEN "coalesce" ELSE "none"])
  /\ UNCHANGED <<closed, disposed, progress, ghosts>>

Flush ==
  /\ current # NoState
  /\ Becomes(current, Flushed(Cancelled(states[current])))
  /\ UNCHANGED <<current, closed, disposed, latest, progress, ghosts>>

Queued(t, i) == Append(t.line, i)

FlushThen(i, s) ==
  /\ progress[i] = "new"
  /\ StateFor(s) /\ current' = s
  /\ LET t == Flushed(Cancelled(states[s]))
     IN  Becomes(s, [t EXCEPT !.line = Queued(t, i)])
  /\ progress' = [progress EXCEPT ![i] = "waiting"]
  /\ closed' = (closed \/ i \in Closing)
  /\ mark' = [mark EXCEPT ![i] = latest] /\ order' = Append(order, i)
  /\ UNCHANGED <<disposed, latest, settled, discarded, emitted>>

\* The tail is compared with itself: the state leaves the map even while an
\* operation is in its line.
Clear ==
  /\ current # NoState
  /\ LET t == [Cancelled(states[current]) EXCEPT !.pending = NoSnapshot]
     IN  /\ Becomes(current, t)
         /\ current' = IF Quiet(t) THEN NoState ELSE current
  /\ discarded' = latest + 1
  /\ UNCHANGED <<closed, disposed, latest, progress, mark, settled, emitted, order>>

\* releaseClosed, or 4096 keys that were closed or asked for more recently.
Forget ==
  /\ closed /\ closed' = FALSE
  /\ UNCHANGED <<states, current, disposed, latest, progress, ghosts>>

Dispose ==
  /\ ~disposed /\ disposed' = TRUE
  /\ states' = [s \in State |->
       IF s = current THEN [Cancelled(states[s]) EXCEPT !.pending = NoSnapshot] ELSE states[s]]
  /\ current' = NoState /\ closed' = FALSE
  /\ discarded' = latest + 1
  /\ UNCHANGED <<latest, progress, mark, settled, emitted, order>>

---------------------------------------------------------------------------
(* The jobs                                                                *)

FireTimer(s) ==
  /\ states[s].timer # "none"
  /\ Becomes(s, Drained(Cancelled(states[s]), FALSE))
  /\ UNCHANGED <<current, closed, disposed, latest, progress, ghosts>>

\* The finally block.  A drain that was not flushed leaves a failed snapshot
\* for later.
DrainEnds(s, t) ==
  Leaves(s, [t EXCEPT !.draining = FALSE, !.flushing = FALSE,
               !.timer = IF HasPending(t) /\ ~t.immediate /\ ~disposed THEN "compensation" ELSE @])

\* The loop goes on: the next snapshot is sent, or there is none.
Loop(s, t) ==
  IF HasPending(t)
  THEN /\ Becomes(s, [t EXCEPT !.sending = t.pending, !.pending = NoSnapshot])
       /\ emitted' = t.pending.value
       /\ UNCHANGED current
  ELSE DrainEnds(s, t) /\ UNCHANGED emitted

Runs(s, job) == states[s].line # <<>> /\ Head(states[s].line) = job

BeginDrain(s) ==
  /\ Runs(s, Drain) /\ states[s].sending = NoSnapshot
  /\ Loop(s, states[s])
  /\ UNCHANGED <<closed, disposed, latest, progress, mark, settled, discarded, order>>

Sent(s) == [states[s] EXCEPT !.sending = NoSnapshot]
Settle(n) == settled' = IF n > settled THEN n ELSE settled

Delivered(s) ==
  /\ states[s].sending # NoSnapshot
  /\ Settle(states[s].sending.value)
  /\ Loop(s, Sent(s))
  /\ UNCHANGED <<closed, disposed, latest, progress, mark, discarded, order>>

Again(p) == [p EXCEPT !.failures = @ + 1]

Exhausted(p) == p.failures > MaxRetries

\* Mutant of Superseded: the failed snapshot replaces a newer one.
NeverSuperseded(s) == FALSE

\* A newer snapshot makes a retry pointless.
Superseded(s) == HasPending(states[s])

\* Mutant of Hurries: only the drain that a flush has queued does.
HurriesWhenQueuedSo(t) == t.immediate

Hurries(t) == t.immediate \/ t.flushing

\* The write failed, or was not confirmed in time.
Retryable(s) ==
  LET again == Again(states[s].sending)
      t == [Sent(s) EXCEPT !.pending = again]
  IN
  /\ states[s].sending # NoSnapshot
  /\ IF Superseded(s) THEN Loop(s, Sent(s)) /\ UNCHANGED settled
     ELSE IF Exhausted(again)
     THEN Loop(s, Sent(s)) /\ Settle(states[s].sending.value)
     ELSE IF Hurries(t) THEN Loop(s, t) /\ UNCHANGED settled
     ELSE DrainEnds(s, t) /\ UNCHANGED <<emitted, settled>>
  /\ UNCHANGED <<closed, disposed, latest, progress, mark, discarded, order>>

BeginOperation(i, s) ==
  /\ Runs(s, i) /\ progress[i] = "waiting"
  /\ progress' = [progress EXCEPT ![i] = "running"]
  /\ UNCHANGED <<states, current, closed, disposed, latest, ghosts>>

\* It may also throw; the line goes on all the same.
EndOperation(i, s) ==
  /\ Runs(s, i) /\ progress[i] = "running"
  /\ progress' = [progress EXCEPT ![i] = "done"]
  /\ Leaves(s, states[s])
  /\ UNCHANGED <<closed, disposed, latest, ghosts>>

---------------------------------------------------------------------------
Job(s) ==
  \/ FireTimer(s) \/ BeginDrain(s) \/ Delivered(s) \/ Retryable(s)
  \/ \E i \in Operation : BeginOperation(i, s) \/ EndOperation(i, s)

Next ==
  \/ \E s \in State : Schedule(s) \/ Job(s)
  \/ \E i \in Operation, s \in State : FlushThen(i, s)
  \/ Flush \/ Clear \/ Forget \/ Dispose

Spec == Init /\ [][Next]_vars

\* Timers fire, every write is confirmed, refused or given up after a while
\* (RELAY_WS_WRITE_CONFIRMATION_TIMEOUT_MS), and operations end.
FairSpec == Spec /\ \A s \in State : WF_vars(Job(s))

---------------------------------------------------------------------------
(* Properties                                                              *)

Begun(i) == progress[i] \in {"running", "done"}
Sending(s) == states[s].sending # NoSnapshot

TypeOK ==
  /\ current \in State \cup {NoState} /\ closed \in BOOLEAN /\ disposed \in BOOLEAN
  /\ latest \in Nat /\ progress \in [Operation -> {"new", "waiting", "running", "done"}]
  /\ \A s \in State :
       /\ states[s].timer \in {"none", "coalesce", "compensation"}
       /\ \A p \in {states[s].pending, states[s].sending} :
            p.value \in 0..latest /\ p.failures \in 0..MaxRetries
       /\ states[s].line \in Seq(Operation \cup {Drain})

\* The barrier: when an operation begins, the text that was there when it was
\* requested has been delivered or its retries are used up, and none of it is
\* sent after that.
Barrier ==
  \A i \in Operation : Begun(i) =>
    /\ settled >= mark[i] \/ discarded > mark[i]
    /\ ~disposed => \A s \in State : Sending(s) => states[s].sending.value > mark[i]

\* The text never shrinks: no snapshot is sent after a newer one.
NeverBackwards == [][emitted' >= emitted]_vars

\* A snapshot that waits has somebody who comes for it.
NoStall ==
  \A s \in State :
    HasPending(states[s]) /\ ~disposed
    => states[s].draining \/ (s = current /\ states[s].timer # "none")

\* Operations run one by one in the order in which they were requested.
\* (A clear lets a second state begin beside the operations of the first.)
OperationsInOrder ==
  discarded = 0 =>
    \A j \in DOMAIN order : Begun(order[j]) =>
      \A k \in 1..(j - 1) : progress[order[k]] = "done"

\* An operation comes after the text and the operations that were there before it
\* (assistant-stream-coalescer.ts: enqueueOperation).
OperationsKeepTheirPlace == Barrier /\ OperationsInOrder

\* An operation runs in the end, however often the snapshots before it fail.
OperationsRun == \A i \in Operation : progress[i] = "waiting" ~> progress[i] = "done"

\* The last text reaches the socket, or as many tries as there are.
LastTextSettles == []<>(settled = latest \/ discarded > latest)
==============================================================================
