----------------------------- MODULE CronChanges -----------------------------
(***************************************************************************)
(* Telling the Relay that the cron jobs of Hermes changed: the watcher of  *)
(* jobs.json (src/src/hermes/runtime/hermes-cron-change-watcher.ts) and    *)
(* the digest that outlives a connection                                   *)
(* (src/src/hermes/relay/hermes-cron-change-relay.ts).                     *)
(*                                                                         *)
(* A content stands for its digest.  Hermes may replace the file, or the   *)
(* directory it is in, at any time; the kernel tells those who watch.      *)
(***************************************************************************)
EXTENDS Naturals

CONSTANTS
  None,
  Content,   \* the contents of jobs.json, "missing" (HERMES_CRON_JOBS_MISSING_DIGEST) among them
  MaxFaults  \* bound: connections lost, readings that fail

VARIABLES
  content,
  directory, \* the cron directory exists
  watched,   \* cronDirectoryWatcher is on the directory that exists
  home,      \* a notification of hermesHomeWatcher is on its way
  pending,   \* pendingCheck
  baseline,  \* baselineDigest of the watcher
  stored,    \* lastDigestByScope
  conn,      \* "down", "up", or "lost": the socket takes no more frames but did not close yet
  told,      \* history: the content when the Relay was told last, or connected first
  missed,    \* history: an event went to a lost connection, or a reading failed
  faults

watcher == <<watched, home, pending, baseline>>
vars == <<content, directory, watcher, stored, conn, told, missed, faults>>

Init ==
  /\ content \in Content /\ directory = (content # "missing")
  /\ watched = FALSE /\ home = FALSE /\ pending = FALSE /\ baseline = None
  /\ stored = None /\ conn = "down" /\ told = None /\ missed = FALSE /\ faults = 0

\* checkNow, on a baseline that the first reading takes from `stored`.
\* Mutant of Check: the first reading of a connection only sets the baseline.
CheckFirstQuietly(base) ==
  /\ baseline' = content
  /\ IF baseline # None /\ base # None /\ base # content
     THEN /\ told' = IF conn' = "up" THEN content ELSE told
          /\ missed' = (conn' # "up")
     ELSE UNCHANGED missed /\ told' = IF base = None THEN content ELSE told

Check(base) ==
  /\ baseline' = content
  /\ IF base # None /\ base # content
     THEN /\ told' = IF conn' = "up" THEN content ELSE told
          /\ missed' = (conn' # "up")
     ELSE UNCHANGED missed /\ told' = IF base = None THEN content ELSE told

----------------------------------------------------------------------------
\* The Relay's hello starts a watcher; it reads once, synchronously.
Start ==
  /\ conn = "down" /\ conn' = "up"
  /\ watched' = directory /\ home' = FALSE /\ pending' = FALSE
  /\ Check(stored)
  /\ UNCHANGED <<content, directory, stored, faults>>

CheckNow ==
  /\ pending /\ pending' = FALSE /\ UNCHANGED conn
  /\ Check(baseline)
  /\ UNCHANGED <<content, directory, watched, home, stored, faults>>

\* Neither there nor missing: the baseline stays, nothing tries again.
CheckFails ==
  /\ pending /\ faults < MaxFaults /\ faults' = faults + 1
  /\ pending' = FALSE /\ missed' = TRUE
  /\ UNCHANGED <<content, directory, watched, home, baseline, stored, conn, told>>

\* The cron directory came or went: it is watched anew and read.

HomeNotifies ==
  /\ home /\ home' = FALSE
  /\ watched' = directory /\ pending' = TRUE
  /\ UNCHANGED <<content, directory, baseline, stored, conn, told, missed, faults>>

\* The socket closes, or the network loses it, before the close event.
Lose ==
  /\ conn = "up" /\ faults < MaxFaults /\ faults' = faults + 1 /\ conn' = "lost"
  /\ UNCHANGED <<content, directory, watcher, stored, told, missed>>

Stop ==
  /\ conn \in {"up", "lost"} /\ conn' = "down"
  /\ stored' = IF baseline # None THEN baseline ELSE stored
  /\ watched' = FALSE /\ home' = FALSE /\ pending' = FALSE /\ baseline' = None
  /\ UNCHANGED <<content, directory, told, missed, faults>>

----------------------------------------------------------------------------
(* Hermes.                                                                 *)

Write(c) ==
  /\ directory /\ c # content /\ content' = c
  /\ pending' = (pending \/ (watched /\ conn # "down"))
  /\ UNCHANGED <<directory, watched, home, baseline, stored, conn, told, missed, faults>>

MoveDirectory(c) ==
  /\ IF directory THEN c = "missing" ELSE c \in Content
  /\ directory' = ~directory /\ content' = c /\ watched' = FALSE
  /\ home' = (conn # "down")
  /\ pending' = (pending \/ (watched /\ conn # "down"))
  /\ UNCHANGED <<baseline, stored, conn, told, missed, faults>>

Next ==
  \/ Start \/ CheckNow \/ CheckFails \/ HomeNotifies \/ Lose \/ Stop
  \/ \E c \in Content : Write(c) \/ MoveDirectory(c)

Spec == Init /\ [][Next]_vars

----------------------------------------------------------------------------
\* While a connection is up and no notification is on its way, the Relay was
\* told since the jobs changed last, also when they changed while no
\* connection was there.  It is not told of a change that was read while the
\* socket could take no more frames, which the comment at
\* hermes-cron-change-relay.ts:30 does not except, nor of one whose reading
\* failed.
RelayLearnsOfChanges ==
  conn = "up" /\ ~pending /\ ~home /\ ~missed => told = content
=============================================================================
