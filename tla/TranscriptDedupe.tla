--------------------------- MODULE TranscriptDedupe ---------------------------
(***************************************************************************)
(* Removing OpenClaw's mirror of a prompt from a session transcript        *)
(* (src/src/openclaw/relay/transcript-dedupe.ts), and the coordinator that *)
(* tries it again until it succeeds or gives up                            *)
(* (src/src/openclaw/relay/chat-send-dedupe-coordinator.ts).               *)
(*                                                                         *)
(* OpenClaw appends to the file meanwhile.  A row names its parent; the    *)
(* rows of the transcript come in the order of Script.  This is one        *)
(* clientRunId, which a prompt that is sent again registers again.  Every  *)
(* await of an attempt is a step of its own, and attempts run side by side *)
(* when the connection closes under the first.                             *)
(***************************************************************************)
EXTENDS Naturals, Sequences, SequencesExt, FiniteSets

CONSTANTS
  Script,       \* the rows OpenClaw appends: [id, parent, kind], kind one of
                \* "prompt" (canonical), "mirror" and "other"
  MaxAttempts,  \* CHAT_SEND_MIRROR_DEDUPE_RETRY_DELAYS_MS.length
  MaxRetries,   \* maxRetries of an attempt
  MaxAsked,     \* bound: registrations, history requests, terminal events of the run
  AtOnce        \* bound: the attempts that may run at once

NoId == 0

VARIABLES
  file,       \* the rows in the transcript
  version,    \* its size and mtime, as one number
  appended,   \* how many rows of Script OpenClaw has appended
  request,    \* requests.has(clientRunId)
  timer,      \* the attempt number an armed timer captured, or none
  attempts,
  waiters,    \* fired timers that wait for an attempt: <<the number captured, the attempt>>
  try,        \* the attempts that run: where each is, what it read
  running,    \* running.get(clientRunId): the attempt that newcomers join, or none
  asked,
  late        \* history: rows appended between an attempt's last stat and its rename

vars == <<file, version, appended, request, timer, attempts, waiters, try, running,
          asked, late>>

Idle == [at |-> "idle", version |-> 0, rows |-> <<>>, retry |-> 0, fresh |-> 0]

Init ==
  /\ file = <<>> /\ version = 0 /\ appended = 0
  /\ request = FALSE /\ timer = {} /\ attempts = 0 /\ waiters = {}
  /\ try = [a \in AtOnce |-> Idle] /\ running = {} /\ asked = 0 /\ late = {}

----------------------------------------------------------------------------
(* dedupeChatSendUserMirrorTranscriptText                                  *)

Ids(rows) == {rows[i].id : i \in DOMAIN rows}
Prompts(rows) == {i \in DOMAIN rows : rows[i].kind = "prompt"}
Prompt(rows) ==
  IF Prompts(rows) = {} THEN NoId
  ELSE rows[CHOOSE i \in Prompts(rows) : \A j \in Prompts(rows) : i <= j].id

\* Only mirrors whose parent is the canonical prompt.
Mirrors(rows) ==
  {rows[i].id : i \in {i \in DOMAIN rows : /\ rows[i].kind = "mirror" /\ Prompt(rows) # NoId
                                           /\ rows[i].parent = Prompt(rows)}}

\* A mirror's parent is the prompt, which stays, so one step leads out of the
\* removed rows.
ParentOf(rows, id) == (CHOOSE r \in ToSet(rows) : r.id = id).parent
Rewired(rows, r) ==
  IF r.parent \in Mirrors(rows) THEN [r EXCEPT !.parent = ParentOf(rows, r.parent)] ELSE r

Deduped(rows) ==
  LET kept[i \in 0..Len(rows)] ==
        IF i = 0 THEN <<>>
        ELSE IF rows[i].id \in Mirrors(rows) THEN kept[i - 1]
        ELSE Append(kept[i - 1], Rewired(rows, rows[i]))
  IN kept[Len(rows)]

----------------------------------------------------------------------------
(* The coordinator.                                                        *)

\* schedule: an armed timer is replaced, the number of the attempt is captured now.
Schedule == timer' = {attempts}

\* The same prompt may come again, on this connection or on the next one.
Register ==
  /\ asked < MaxAsked /\ asked' = asked + 1
  /\ request' = TRUE /\ Schedule
  /\ UNCHANGED <<file, version, appended, attempts, waiters, try, running, late>>

\* A terminal event of the run hurries the next attempt.
ScheduleForRun ==
  /\ request /\ asked < MaxAsked /\ asked' = asked + 1
  /\ Schedule
  /\ UNCHANGED <<file, version, appended, request, attempts, waiters, try, running, late>>

\* Nothing of an attempt is left, not even a callback that waits for it.
Unused(a) == try[a] = Idle /\ \A w \in waiters : w[2] # a

\* runAttempt: the attempt in the map is shared, else a new one goes into it.
RunAttempt(a) ==
  IF running # {} THEN a \in running /\ UNCHANGED <<try, running>>
  ELSE Unused(a) /\ try' = [try EXCEPT ![a] = [Idle EXCEPT !.at = "stat"]] /\ running' = {a}

Fire(a) ==
  /\ timer # {} /\ timer' = {} /\ RunAttempt(a)
  /\ waiters' = waiters \cup {<<n, a>> : n \in timer}
  /\ UNCHANGED <<file, version, appended, request, attempts, asked, late>>

\* dedupePendingForSession, before a history is read.
AskForSession(a) ==
  /\ request /\ asked < MaxAsked /\ asked' = asked + 1 /\ RunAttempt(a)
  /\ UNCHANGED <<file, version, appended, request, timer, attempts, waiters, late>>

Clear == request' = FALSE /\ timer' = {} /\ attempts' = 0

\* A timer's callback after an attempt without a change.  The number it counts on is the
\* one it captured, also when the request is a newer one than its own.
Continue(w) ==
  /\ try[w[2]] = Idle /\ waiters' = waiters \ {w}
  /\ IF ~request THEN UNCHANGED <<request, timer, attempts>>
     ELSE IF w[1] + 1 >= MaxAttempts THEN Clear
     ELSE attempts' = w[1] + 1 /\ timer' = {w[1] + 1} /\ UNCHANGED request
  /\ UNCHANGED <<file, version, appended, try, running, asked, late>>

----------------------------------------------------------------------------
(* An attempt.                                                             *)

\* The end: the map forgets the attempt that is in it, which may be a newer one.
Ends(a) == try' = [try EXCEPT ![a] = Idle] /\ running' = {}

Gone(a) == Ends(a) /\ UNCHANGED <<file, version, request, timer, attempts, waiters>>

GoesOn(a, next) ==
  /\ try' = [try EXCEPT ![a] = next]
  /\ UNCHANGED <<file, version, request, timer, attempts, waiters, running>>

Stat(a) ==
  /\ try[a].at = "stat"
  /\ GoesOn(a, [try[a] EXCEPT !.at = "read", !.version = version])
  /\ UNCHANGED <<appended, asked, late>>

\* The file is read and, if there is a mirror, the new text is written aside.
Read(a) ==
  /\ try[a].at = "read"
  /\ IF Mirrors(file) = {} THEN Gone(a)
     ELSE GoesOn(a, [try[a] EXCEPT !.at = "written", !.rows = Deduped(file)])
  /\ UNCHANGED <<appended, asked, late>>

\* Mutant of Check: the second stat is not compared.
CheckNothing(a) ==
  /\ try[a].at = "written"
  /\ GoesOn(a, [try[a] EXCEPT !.at = "checked", !.fresh = appended])
  /\ UNCHANGED <<appended, asked, late>>

\* The file is looked at again: it must be as it was before it was read.
Check(a) ==
  /\ try[a].at = "written"
  /\ IF version = try[a].version
     THEN GoesOn(a, [try[a] EXCEPT !.at = "checked", !.fresh = appended])
     ELSE IF try[a].retry + 1 < MaxRetries
     THEN GoesOn(a, [Idle EXCEPT !.at = "stat", !.retry = try[a].retry + 1])
     ELSE Gone(a)
  /\ UNCHANGED <<appended, asked, late>>

\* The second stat and the rename are both awaited: what OpenClaw appends between them goes
\* with the old file.
Rename(a) ==
  /\ try[a].at = "checked"
  /\ file' = try[a].rows /\ version' = version + 1
  /\ late' = late \cup {Script[i].id : i \in (try[a].fresh + 1)..appended}
  /\ try' = [try EXCEPT ![a] = [Idle EXCEPT !.at = "renamed"]]
  /\ UNCHANGED <<appended, request, timer, attempts, waiters, running, asked>>

\* The attempt learns of the rename: it clears the request, whoever registered it, and the
\* callbacks that waited for it do nothing.
Changed(a) ==
  /\ try[a].at = "renamed" /\ Ends(a) /\ Clear
  /\ waiters' = {w \in waiters : w[2] # a}
  /\ UNCHANGED <<file, version, appended, asked, late>>

\* stat, read, write or rename throws.
Throw(a) ==
  /\ try[a].at \in {"stat", "read", "written", "checked"} /\ Gone(a)
  /\ UNCHANGED <<appended, asked, late>>

\* OpenClaw.
AppendRow ==
  /\ appended < Len(Script) /\ appended' = appended + 1
  /\ file' = Append(file, Script[appended + 1]) /\ version' = version + 1
  /\ UNCHANGED <<request, timer, attempts, waiters, try, running, asked, late>>

\* clearAll, when the Relay connection closes: what runs goes on, but not in the map, and a
\* new registration starts an attempt beside it.
ClearAll ==
  /\ request \/ running # {}
  /\ Clear /\ running' = {}
  /\ UNCHANGED <<file, version, appended, waiters, try, asked, late>>

Next ==
  \/ Register \/ ScheduleForRun \/ AppendRow \/ ClearAll \/ \E w \in waiters : Continue(w)
  \/ \E a \in AtOnce :
       \/ Fire(a) \/ AskForSession(a)
       \/ Stat(a) \/ Read(a) \/ Check(a) \/ Rename(a) \/ Changed(a) \/ Throw(a)

Spec == Init /\ [][Next]_vars

----------------------------------------------------------------------------
(* Properties.                                                             *)

\* OpenClaw's rows stay in the transcript and in their order, whatever attempts run beside
\* each other: only mirrors of the prompt go, and what was appended between the second stat
\* of an attempt and its rename.  Those rows are lost, whatever they are: the code does not
\* look again.  The children of a removed mirror name the prompt; one appended after the
\* mirror was removed names a parent that is gone.
CheckedRowsStay ==
  LET there == {Script[i] : i \in 1..appended} IN
  /\ \A r \in there : r.kind # "mirror" => r.id \in Ids(file) \cup late
  /\ \A i, j \in DOMAIN file : i < j => file[i].id < file[j].id
  /\ Prompt(file) # NoId /\ Mirrors(file) # {} =>
       \A r \in ToSet(Deduped(file)) : r.parent \in Ids(Deduped(file)) \cup {NoId}
                                       \/ r.parent \notin Ids(file)

\* A request is not forgotten: a timer is armed or an attempt's end will arm one, until a
\* mirror is gone, the connection closed or MaxAttempts attempts were counted.  (The mirror
\* may be one an earlier registration of the run was for, and an attempt may be counted
\* that began before this one.)
NotForgotten == request => timer # {} \/ waiters # {}
=============================================================================
