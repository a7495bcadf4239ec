--------------------------- MODULE ActiveRunRecords ---------------------------
(***************************************************************************)
(* The record of a run on disk (src/openclaw/relay/openclaw-active-run-    *)
(* state.ts): the Relay manager writes it, gives it its provider's id,     *)
(* marks it terminal and clears it, one operation after the other; a       *)
(* send-file process looks it up and removes it when it is expired.  A     *)
(* lock file keeps them apart; a lock that is old is taken to be left      *)
(* behind.                                                                 *)
(***************************************************************************)
EXTENDS Integers, Sequences

CONSTANTS TTL,       \* OPENCLAW_ACTIVE_RUN_TTL_MS
          Grace,     \* OPENCLAW_TERMINAL_RUN_GRACE_MS
          LockAge,   \* age from which a lock is removed
          MaxClock, MaxOps,
          None

VARIABLES
  clock,
  file,     \* the record, or None
  lock,     \* [by, at] in the lock file, or None
  queue,    \* the manager's operations, with the time they were asked for
  ops,      \* operations asked for
  m, s,     \* the manager, the process that sends a file: [pc, now, seen]
  kept,     \* the record that the manager's finished operations amount to, or None
  robbed    \* a lock was removed while its holder still ran

vars == <<clock, file, lock, queue, ops, m, s, kept, robbed>>

Idle == [pc |-> "idle", now |-> 0, seen |-> None]

Init ==
  /\ clock = 0 /\ file = None /\ lock = None /\ queue = <<>> /\ ops = 0
  /\ m = Idle /\ s = Idle /\ kept = None /\ robbed = FALSE

\* isExpired
Expired(run, now) == now >= run.exp

Tick == clock < MaxClock /\ clock' = clock + 1
        /\ UNCHANGED <<file, lock, queue, ops, m, s, kept, robbed>>

\* mutateStore: the time is taken when the operation is asked for, not when it runs
Ask(op) ==
  /\ ops < MaxOps
  /\ ops' = ops + 1 /\ queue' = Append(queue, [op |-> op, now |-> clock])
  /\ UNCHANGED <<clock, file, lock, m, s, kept, robbed>>

\* recordOpenClawActiveRun
Recorded(now) == [state |-> "active", provider |-> FALSE, exp |-> now + TTL]

\* What an operation makes of the record: updateOpenClawActiveRunProviderId,
\* markOpenClawActiveRunTerminal, clearOpenClawActiveRun
Result(op, now, run) ==
  IF op = "record" THEN Recorded(now)
  ELSE IF op = "clear" \/ run = None THEN None
  ELSE IF Expired(run, now) THEN None
  ELSE IF op = "provider" THEN [run EXCEPT !.provider = TRUE]
  ELSE [run EXCEPT !.state = "terminal", !.exp = now + Grace]

-----------------------------------------------------------------------------
\* withRecordLock: the lock file is created, or removed when it is old
TakeLock(who) == lock = None /\ lock' = [by |-> who, at |-> clock] /\ UNCHANGED robbed

RemoveOldLock ==
  /\ lock # None /\ clock - lock.at > LockAge
  /\ m.pc = "lock" \/ s.pc = "lock"
  /\ lock' = None
  /\ robbed' = \/ robbed
               \/ lock.by = "m" /\ m.pc \notin {"idle", "lock"}
               \/ lock.by = "s" /\ s.pc \notin {"idle", "lock"}
  /\ UNCHANGED <<clock, file, queue, ops, m, s, kept>>

\* its finally removes whatever lock is there
Release == lock' = None /\ UNCHANGED robbed

-----------------------------------------------------------------------------
\* The manager's operations
Begin ==
  /\ m.pc = "idle" /\ queue # <<>>
  /\ m' = [pc |-> "lock", now |-> Head(queue).now, seen |-> None]
  /\ UNCHANGED <<clock, file, lock, queue, ops, s, kept, robbed>>

MLock ==
  /\ m.pc = "lock" /\ TakeLock("m")
  /\ m' = [m EXCEPT !.pc = IF Head(queue).op = "record" THEN "write" ELSE "read"]
  /\ UNCHANGED <<clock, file, queue, ops, s, kept>>

\* the lock is not given within 200 attempts: openclaw_active_run_lock_timeout
MTimeout ==
  /\ m.pc = "lock" /\ lock # None
  /\ m' = Idle /\ queue' = Tail(queue)
  /\ UNCHANGED <<clock, file, lock, ops, s, kept, robbed>>

MRead ==
  /\ m.pc = "read"
  /\ m' = [m EXCEPT !.pc = "write", !.seen = file]
  /\ UNCHANGED <<clock, file, lock, queue, ops, s, kept, robbed>>

\* writeRecordAtomic, unlink
MWrite ==
  /\ m.pc = "write"
  /\ file' = Result(Head(queue).op, m.now, m.seen)
  /\ m' = [m EXCEPT !.pc = "unlock"]
  /\ UNCHANGED <<clock, lock, queue, ops, s, kept, robbed>>

\* (what an operation finds expired when it is over, it may have found removed)
MUnlock ==
  /\ m.pc = "unlock" /\ Release
  /\ kept' = Result(Head(queue).op, m.now, IF kept = None \/ Expired(kept, clock) THEN None ELSE kept)
  /\ m' = Idle /\ queue' = Tail(queue)
  /\ UNCHANGED <<clock, file, ops, s>>

\* The manager dies at any point; its lock stays, and another manager starts.
Crash ==
  /\ m.pc # "idle"
  /\ kept' = file /\ m' = Idle /\ queue' = <<>>
  /\ UNCHANGED <<clock, file, lock, ops, s, robbed>>

-----------------------------------------------------------------------------
\* readRuns: the records there are
Listed == file # None

\* resolveOpenClawActiveRun of another process: an expired record is removed
Resolve ==
  /\ s.pc = "idle" /\ Listed
  /\ s' = IF Expired(file, clock) THEN [pc |-> "lock", now |-> clock, seen |-> file] ELSE Idle
  /\ UNCHANGED <<clock, file, lock, queue, ops, m, kept, robbed>>

\* removeExpiredRecord: under the lock, the record is read again
SLock ==
  /\ s.pc = "lock" /\ TakeLock("s")
  /\ s' = [s EXCEPT !.pc = "read"]
  /\ UNCHANGED <<clock, file, queue, ops, m, kept>>

\* Mutant of Removable: the record of before the lock.
RemovableAsSeen == s.seen # None /\ Expired(s.seen, s.now)
Removable == file # None /\ Expired(file, s.now)

SRead ==
  /\ s.pc = "read"
  /\ s' = [s EXCEPT !.pc = IF Removable THEN "unlink" ELSE "unlock"]
  /\ UNCHANGED <<clock, file, lock, queue, ops, m, kept, robbed>>

SUnlink ==
  /\ s.pc = "unlink"
  /\ file' = None /\ s' = [s EXCEPT !.pc = "unlock"]
  /\ UNCHANGED <<clock, lock, queue, ops, m, kept, robbed>>

SUnlock ==
  /\ s.pc = "unlock" /\ Release
  /\ s' = Idle
  /\ UNCHANGED <<clock, file, queue, ops, m, kept>>

Next ==
  \/ Tick \/ (\E op \in {"record", "provider", "terminal", "clear"} : Ask(op))
  \/ RemoveOldLock \/ Begin \/ MLock \/ MTimeout \/ MRead \/ MWrite \/ MUnlock \/ Crash
  \/ Resolve \/ SLock \/ SRead \/ SUnlink \/ SUnlock

Spec == Init /\ [][Next]_vars

-----------------------------------------------------------------------------
\* The processes do not undo each other's work: between its operations, the run is recorded
\* as they left it until it expires, however late they ran, whoever looked at an older
\* record meanwhile, and wherever a manager died - unless a holder of the lock was stalled
\* so long that its lock was removed.  Nothing is promised of a run that expires while an
\* operation on it waits: the record may be removed before a terminal mark, asked for in
\* time, would have given it its grace (openclaw-active-run-state.ts:166, 180).
RunsStayRecorded ==
  ~robbed /\ m.pc = "idle" /\ kept # None /\ clock < kept.exp => file = kept
=============================================================================
