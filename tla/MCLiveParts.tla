---------------------------- MODULE MCLiveParts ----------------------------
(***************************************************************************)
(* A small instance of LiveParts, and of the other parts that have no      *)
(* state on disk: the usages of OpenClaw's sessions, the place of media in *)
(* the rows, the stream of a Hermes run, what is read of Hermes' and       *)
(* OpenClaw's sessions, and a streamed command.  These take the same       *)
(* variables, each as many as it has.  A behaviour is one of one part:     *)
(* one of PartsSpec, or one of another part.                               *)
(***************************************************************************)
EXTENDS LiveParts, TLC

CONSTANTS a, b, runA, runB, Anon

VARIABLES x1, x2, x3, x4, x5, x6, x7, x8, x9, x10, x11, x12, x13

\* Two sessions that compete for the gate: one has two rows, the other one.
GateRows == [x \in Session |-> IF x = a THEN 2 ELSE 1]
NoEdits == [x \in Session |-> 0]
AllModes == SUBSET {EventAcks, Watermarks}

\* A file of two bytes, then of three.
UploadSizes == <<2, 3>>
\* A turn of each key or two of one, and a deletion.
FewTurns ==
  {[k \in Key \cup {0} |-> 1],
   [k \in Key \cup {0} |-> CASE k = a -> 2 [] k = b -> 0 [] k = 0 -> 1]}

\* The runs of an OpenClaw session may change names.
RunSymmetry == Permutations({runA, runB})

-----------------------------------------------------------------------------
\* The variables after the first n are not taken.
Rest12 == <<x13>>
Rest11 == <<x12, Rest12>>
Rest10 == <<x11, Rest11>>
Rest9 == <<x10, Rest10>>
Rest8 == <<x9, Rest9>>
Rest7 == <<x8, Rest8>>
Rest6 == <<x7, Rest7>>
Rest5 == <<x6, Rest6>>
Rest4 == <<x5, Rest5>>
Rest0 == <<x1, x2, x3, x4, Rest4>>
Free12 == x13 = Unused
Free11 == x12 = Unused /\ Free12
Free10 == x11 = Unused /\ Free11
Free9 == x10 = Unused /\ Free10
Free8 == x9 = Unused /\ Free9
Free7 == x8 = Unused /\ Free8
Free6 == x7 = Unused /\ Free7
Free5 == x6 = Unused /\ Free6
Free4 == x5 = Unused /\ Free5
Free0 == x1 = Unused /\ x2 = Unused /\ x3 = Unused /\ x4 = Unused /\ Free4

\* Sessions of OpenClaw, by their names.
MainSession == [agent |-> "main", rest |-> "main"]
HomeSession == [agent |-> "main", rest |-> "home"]
Dashboard == [agent |-> "main", rest |-> "dashboard:x"]

\* Rows of a page with media: replies, their sidecars, tools.
PageRow(kind, id, run, call, parent, calls, media, display) ==
  [kind |-> kind, id |-> id, run |-> run, call |-> call, parent |-> parent, calls |-> calls,
   content |-> media, display |-> display]
PageRows ==
  {PageRow("reply", "a", "r1", "", "", <<"c1", "c2">>, <<"text">>, <<>>),
   PageRow("reply", "b", "r1", "", "", <<>>, <<"m0">>, <<>>),
   PageRow("reply", "d", "r2", "", "", <<>>, <<"text">>, <<>>),
   PageRow("sidecar", "s", "r1", "", "", <<>>, <<"m1">>, <<>>),
   PageRow("sidecar", "t", "r1", "", "b", <<>>, <<"m1">>, <<>>),
   PageRow("sidecar", "u", "r2", "", "a", <<>>, <<>>, <<"m2">>),
   PageRow("tool", "v", "r1", "c1", "", <<>>, <<"m3">>, <<>>),
   PageRow("tool", "w", "r1", "c2", "", <<>>, <<>>, <<"m4">>)}

\* Rows of a Hermes session: prompts of two runs and of none, one of attachments only, and
\* what follows them.
Prompt(run) == [role |-> "user", run |-> run, terminal |-> FALSE, blank |-> FALSE,
                says |-> "nothing"]
Said(role, terminal, says) == [role |-> role, run |-> None, terminal |-> terminal,
                               blank |-> FALSE, says |-> says]
SessionRows ==
  {Prompt("r1"), Prompt("r2"), Prompt(None), [Prompt("r2") EXCEPT !.blank = TRUE],
   Said("assistant", TRUE, "nothing"), Said("assistant", FALSE, "call"),
   Said("tool", FALSE, "receipt"), Said("tool", FALSE, "clarification")}

Placement == INSTANCE MediaRows WITH Rows <- PageRows, MaxRows <- 4,
  Events <- [run : {"r1", "r2"}, call : {"", "c1", "c2"}, content : {<<>>}],
  Blocks <- [run : {"r1", "r2"}, call : {"c1", "c2"}, media : {"m1"}], page <- x1, v3 <- x2,
  events <- x3, blocks <- x4
Tools == INSTANCE HermesApiStream WITH Name <- {"x", "y"}, CallId <- {a}, MaxEvents <- 4,
  read <- x1, deltas <- x2, pending <- x3, active <- x4, made <- x5, sent <- x6, aborted <- x7,
  ended <- x8
Hermes == INSTANCE HermesHistory WITH Row <- SessionRows, MaxRows <- 4, rows <- x1, limit <- x2,
  newer <- x3, cursor <- x4, more <- x5, shown <- x6
OpenClaw == INSTANCE OpenClawHistory WITH Run <- {runA, runB},
  Kind <- {"prompt", "text", "calls", "delivery", "custom", "event", "ping", "ack"},
  MaxRows <- 4, Limits <- {1, 3}, Late <- FALSE, rows <- x1, limit <- x2, cursor <- x3,
  shown <- x4, live <- x5
Usage == INSTANCE ContextUsage WITH Session <- {MainSession, [agent |-> "ops", rest |-> "y"]},
  Dashboards <- {},
  Configs <- {[main |-> [agent |-> "", rest |-> "main"], mainKey |-> "main", agent |-> ""]},
  Files <- TRUE, Quick <- TRUE, MaxWork <- 3, MaxAsks <- 2, MaxLosses <- 1, config <- x1,
  listed <- x2, used <- x3, link <- x4, defaults <- x5, refresh <- x6, timers <- x7, asks <- x8,
  readers <- x9, prints <- x10, phone <- x11, work <- x12, losses <- x13
Renamed == INSTANCE ContextUsage WITH Session <- {HomeSession, Dashboard},
  Dashboards <- {Dashboard},
  Configs <- {[main |-> HomeSession, mainKey |-> "home", agent |-> "main"]}, Files <- FALSE,
  Quick <- TRUE, MaxWork <- 2, MaxAsks <- 2, MaxLosses <- 1, config <- x1, listed <- x2,
  used <- x3, link <- x4, defaults <- x5, refresh <- x6, timers <- x7, asks <- x8,
  readers <- x9, prints <- x10, phone <- x11, work <- x12, losses <- x13
Command == INSTANCE StreamedCommand WITH MaxPieces <- 4, MaxWords <- 1, BlankPieces <- FALSE,
  mode <- x1, child <- x2, code <- x3, open <- x4, printed <- x5, buffer <- x6, pieces <- x7,
  events <- x8, answer <- x9

-----------------------------------------------------------------------------
MCInit ==
  \/ PartsInit /\ Free0
  \/ /\ Init /\ ConnectionOff /\ CronOff /\ UploadsOff /\ TurnsOff
     /\ \/ part = "placement" /\ Placement!Init /\ Free4
        \/ part = "tools" /\ Tools!Init /\ Free8
        \/ part = "hermes" /\ Hermes!Init /\ Free6
        \/ part = "openclaw" /\ OpenClaw!Init /\ Free5
        \/ part = "usage" /\ Usage!Init
        \/ part = "renamed" /\ Renamed!Init
        \/ part = "command" /\ Command!Init /\ Free9

MCNext ==
  \/ PartsNext /\ UNCHANGED Rest0
  \/ part = "placement" /\ Placement!Next /\ UNCHANGED <<partsVars, Rest4>>
  \/ part = "tools" /\ Tools!Next /\ UNCHANGED <<partsVars, Rest8>>
  \/ part = "hermes" /\ Hermes!Next /\ UNCHANGED <<partsVars, Rest6>>
  \/ part = "openclaw" /\ OpenClaw!Next /\ UNCHANGED <<partsVars, Rest5>>
  \/ part = "usage" /\ Usage!Next /\ UNCHANGED partsVars
  \/ part = "renamed" /\ Renamed!Next /\ UNCHANGED partsVars
  \/ part = "command" /\ Command!Next /\ UNCHANGED <<partsVars, Rest9>>

MCSpec == MCInit /\ [][MCNext]_<<partsVars, Rest0>>

-----------------------------------------------------------------------------
\* Each media block comes to stand in one row, of the run it was sent in
\* (assistant-media-sidecar.ts, outgoing-media-relay.ts).
MediaIsPlaced == part = "placement" => Placement!MediaIsPlaced

\* What the agent tells as it happens arrives in order and to its end: the stream of a Hermes
\* run (hermes-runtime-api-client.ts), and how full the context of each OpenClaw session is,
\* under whatever name (openclaw-context-usage-publisher.ts).
StreamIsTold ==
  /\ part = "tools" => Tools!StreamIsTold
  /\ part = "usage" => Usage!UsageSettles
  /\ part = "renamed" => Renamed!UsageSettles

\* What is read of a session is so: the pages of a Hermes session agree with each other and
\* with what was said live, those of an OpenClaw session say what was written, of the turn it
\* was written in (hermes-runtime-history.ts, chat-history.ts).
HistoriesAreTrue ==
  /\ part = "hermes" => Hermes!HistoryAgrees
  /\ part = "openclaw" => OpenClaw!HistoryIsTrue

\* A streamed command is told line by line, then its end (local-runtime.ts).
CommandIsTold == part = "command" => Command!CommandIsTold
=============================================================================
