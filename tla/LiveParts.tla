----------------------------- MODULE LiveParts -----------------------------
(***************************************************************************)
(* Parts that keep their state in memory, side by side: the gate of the    *)
(* source commits, which this module extends, the connection to Relay, the *)
(* watcher of Hermes' cron jobs, the uploads of outgoing media and the     *)
(* turns of Hermes.  The parts do not meet: a behaviour is one of one of   *)
(* them.  Each has variables and constants of its own.                     *)
(***************************************************************************)
EXTENDS SourceCommits

CONSTANTS
  Handshake, HelloTimeout, PingInterval, Timeout, CloseTimeout, InitialDelay, MaxDelay, MaxTries,
                                       \* RelayConnection
  CronContent, None, MaxCronFaults,    \* CronChanges
  Pass, Versions, SizeOf, ChunkSizes, Attempts, Waits, MaxConn,   \* MediaUploads
  Key, Turns, MaxSessions,             \* HermesTurn
  Unused

ASSUME ConnectionConstants ==
  /\ Handshake \in Nat /\ HelloTimeout \in Nat /\ CloseTimeout \in Nat
  /\ PingInterval \in Nat /\ Timeout \in Nat
  /\ InitialDelay \in Nat /\ MaxDelay \in Nat
ASSUME NoneIsNoContent == None \notin CronContent
ASSUME UploadConstants ==
  /\ Versions \subseteq Nat \ {0} /\ 1 \in Versions /\ SizeOf \in [Versions -> Nat]
  /\ ChunkSizes \subseteq Nat \ {0} /\ MaxConn \in Nat \ {0}
  /\ Attempts \in Nat /\ Waits \in Nat
ASSUME TurnConstants == Turns \subseteq [Key \cup {0} -> Nat] /\ MaxSessions \in Nat

VARIABLES
  part,  \* which of the parts runs
  \* RelayConnection
  sock, clock, silent, idle, ping, hello, code, loop, backoff, aborted, history,
  \* CronChanges
  content, directory, watched, home, pending, baseline, digest, conn, told, missed, misses,
  \* MediaUploads
  file, versions, record, current, pass, cache, expired, atRelay, warned,
  \* HermesTurn
  rows, made, deleted, forgetting, titled, alias, turn, child, outcome, torn

ConnectionVars ==
  <<sock, clock, silent, idle, ping, hello, code, loop, backoff, aborted, history>>
CronVars ==
  <<content, directory, watched, home, pending, baseline, digest, conn, told, missed, misses>>
UploadVars == <<file, versions, record, current, pass, cache, expired, atRelay, warned>>
TurnVars ==
  <<rows, made, deleted, forgetting, titled, alias, turn, child, outcome, torn>>

ConnectionOff ==
  /\ sock = Unused /\ clock = Unused /\ silent = Unused /\ idle = Unused /\ ping = Unused
  /\ hello = Unused /\ code = Unused /\ loop = Unused /\ backoff = Unused
  /\ aborted = Unused /\ history = Unused
CronOff ==
  /\ content = Unused /\ directory = Unused /\ watched = Unused /\ home = Unused
  /\ pending = Unused /\ baseline = Unused /\ digest = Unused /\ conn = Unused
  /\ told = Unused /\ missed = Unused /\ misses = Unused
UploadsOff ==
  /\ file = Unused /\ versions = Unused /\ record = Unused /\ current = Unused
  /\ pass = Unused /\ cache = Unused /\ expired = Unused /\ atRelay = Unused /\ warned = Unused
TurnsOff ==
  /\ rows = Unused /\ made = Unused /\ deleted = Unused /\ forgetting = Unused
  /\ titled = Unused /\ alias = Unused /\ turn = Unused /\ child = Unused
  /\ outcome = Unused /\ torn = Unused

Connection == INSTANCE RelayConnection
Cron == INSTANCE CronChanges WITH Content <- CronContent, MaxFaults <- MaxCronFaults,
  stored <- digest, faults <- misses
Uploads == INSTANCE MediaUploads WITH conn <- current, relay <- atRelay,
  told <- warned
Chat == INSTANCE HermesTurn WITH Named <- {}

PartsInit ==
  /\ Init
  /\ \/ part = "gate" /\ ConnectionOff /\ CronOff /\ UploadsOff /\ TurnsOff
     \/ part = "connection" /\ Connection!Init /\ CronOff /\ UploadsOff /\ TurnsOff
     \/ part = "cron" /\ Cron!Init /\ ConnectionOff /\ UploadsOff /\ TurnsOff
     \/ part = "uploads" /\ Uploads!Init /\ ConnectionOff /\ CronOff /\ TurnsOff
     \/ part = "turns" /\ Chat!Init /\ ConnectionOff /\ CronOff /\ UploadsOff

OwnVars == <<ConnectionVars, CronVars, UploadVars, TurnVars>>

PartsNext ==
  \/ part = "gate" /\ Next /\ UNCHANGED <<part, OwnVars>>
  \/ /\ part = "connection" /\ Connection!Next
     /\ UNCHANGED <<part, vars, CronVars, UploadVars, TurnVars>>
  \/ /\ part = "cron" /\ Cron!Next
     /\ UNCHANGED <<part, vars, ConnectionVars, UploadVars, TurnVars>>
  \/ /\ part = "uploads" /\ Uploads!Next
     /\ UNCHANGED <<part, vars, ConnectionVars, CronVars, TurnVars>>
  \/ /\ part = "turns" /\ Chat!Next
     /\ UNCHANGED <<part, vars, ConnectionVars, CronVars, UploadVars>>

partsVars == <<part, vars, OwnVars>>

PartsSpec == PartsInit /\ [][PartsNext]_partsVars

-----------------------------------------------------------------------------

(* The properties of the parts, each of its own part (SentIsTaken is that  *)
(* of SourceCommits).                                                      *)

\* A dead connection is noticed, attempts become slower, and a stop is obeyed
\* (relay-liveness.ts, reconnect.ts).
ConnectionIsKept ==
  part = "connection" =>
    Connection!HalfOpenIsNoticed /\ Connection!RelayIsNotHammered /\ Connection!StopsWhenAsked

\* Relay is told when Hermes' jobs change, also while it is away
\* (hermes-cron-change-relay.ts).
RelayLearnsOfChanges == part = "cron" => Cron!RelayLearnsOfChanges

\* An attachment is uploaded whole, once, and never an old one in place of a new one
\* (outgoing-media-relay.ts).
AttachmentsAreTrue == part = "uploads" => Uploads!AttachmentsAreTrue

\* A Hermes turn keeps to its session, whatever other turns and aborts do
\* (hermes-runtime-chat.ts, hermes-runtime-state-db.ts).
TurnsKeepApart == part = "turns" => Chat!TurnsKeepApart
=============================================================================
