--------------------------- MODULE OpenClawHistory ---------------------------
(***************************************************************************)
(* What the mobile reads of an OpenClaw session's own rows                 *)
(* (src/openclaw/relay/chat-history.ts): the events of a session grow in   *)
(* its SQLite log while pages of them are read; hidden events are taken    *)
(* out of the parents' graph, rows get the run of the user row they        *)
(* descend from, receipts of the message tool become rows of their own,    *)
(* heartbeats are hidden; and the outcome of a run is looked for in the    *)
(* last page (extractHistoryOutcome).                                      *)
(***************************************************************************)
EXTENDS Integers, Sequences, FiniteSets, SequencesExt

CONSTANTS Run,       \* the runs of the mobile
          Kind,      \* the kinds of rows that occur
          MaxRows,
          Limits,    \* how many rows of a page a reader asks for
          Late,      \* a row of an earlier turn may be written after the next prompt
          None

Kinds == {"prompt",     \* a user's row with the idempotency key of a run
          "text",       \* an assistant's row with text
          "calls",      \* a tool's row, or an assistant's row that only calls tools (which
                       \* hasUnresolvedUserBefore would take for an answer)
          "delivery",   \* a tool's row with the receipt of a message that was sent
          "custom",     \* a row that is not shown
          "event",      \* an event that is not a message
          "ping",       \* the prompt of a heartbeat
          "ack"}        \* the answer that nothing is to be said

VARIABLES
  rows,     \* the events of the session
  limit,
  cursor,   \* the seq the last page was read through
  shown,    \* what the pages said
  live      \* heartbeats of which a piece was published while they ran

vars == <<rows, limit, cursor, shown, live>>

IsUser(i) == rows[i].kind \in {"prompt", "ping"}
LastUser == LET us == {i \in DOMAIN rows : IsUser(i)} IN IF us = {} THEN 0 ELSE Max(us)

-----------------------------------------------------------------------------

\* resolveSqliteVisibleParentIds: the nearest ancestor that is a message
VisibleParent[i \in 0..Len(rows)] ==
  IF i = 0 \/ rows[i].parent = 0 THEN 0
  ELSE IF rows[rows[i].parent].kind = "event" THEN VisibleParent[rows[i].parent]
  ELSE rows[i].parent

\* restoreTranscriptTurnLineage: up the messages to the first user's row
UserAbove[i \in 0..Len(rows)] ==
  IF i = 0 \/ VisibleParent[i] = 0 THEN 0
  ELSE IF IsUser(VisibleParent[i]) THEN VisibleParent[i] ELSE UserAbove[VisibleParent[i]]

\* The run of a row: its own (a user's key, a receipt's run), or that of the user above.
RunOf(i) ==
  IF rows[i].run # None \/ IsUser(i) THEN rows[i].run
  ELSE IF UserAbove[i] = 0 THEN None ELSE rows[UserAbove[i]].run

-----------------------------------------------------------------------------

\* resolveHeartbeatArtifactEnd: only calls and rows without text before the answer.  The
\* receipt of a message is a row without text here; custom rows are still there.
ArtifactEnd(i) ==
  LET acks == {j \in DOMAIN rows : j > i /\ rows[j].kind = "ack"}
      real == {j \in DOMAIN rows :
                 j > i /\ rows[j].kind \in {"text", "custom", "prompt", "ping"}}
  IN IF acks # {} /\ \A j \in real : j > Min(acks) THEN Min(acks) ELSE 0

\* filterOpenClawHeartbeatArtifacts
InHeartbeat(i) ==
  \E p \in 1..i : rows[p].kind = "ping" /\ ArtifactEnd(p) >= i

\* prepareTranscriptHistoryMessages: what is left of the messages
Visible == {i \in DOMAIN rows :
              rows[i].kind \notin {"event", "custom"} /\ ~InHeartbeat(i)}

\* buildTranscriptHistoryResponse
Message(i) == [seq |-> i, run |-> RunOf(i)]

-----------------------------------------------------------------------------
Init ==
  /\ rows = <<>> /\ limit \in Limits /\ cursor = 0 /\ shown = {} /\ live = {}

\* OpenClaw writes an event: a prompt, or a row below one of its turn, or of any turn.
Append_(kind) ==
  /\ Len(rows) < MaxRows
  /\ \E parent \in (IF kind \in {"prompt", "ping"} THEN {0}
                    ELSE {p \in 0..Len(rows) : Late \/ p >= LastUser}) :
     \E run \in (IF kind = "prompt" THEN Run \ {rows[i].run : i \in DOMAIN rows}
                 ELSE IF kind = "delivery"
                   THEN {rows[i].run : i \in {j \in DOMAIN rows :
                           IsUser(j) /\ (Late \/ j = LastUser)}}
                 ELSE {None}) :
       rows' = Append(rows, [kind |-> kind, parent |-> parent, run |-> run])
  /\ UNCHANGED <<limit, cursor, shown, live>>

\* readOpenClawSqliteChatHistory, "newer": the next limit rows of the log, and the messages
\* that are left of them
ReadNewer ==
  LET through == Min({cursor + limit, Len(rows)})
  IN /\ through > cursor
     /\ shown' = shown \cup {Message(i) : i \in {j \in Visible : j > cursor /\ j <= through}}
     /\ cursor' = through
     /\ UNCHANGED <<rows, limit, live>>

\* shouldSuppressOpenClawHeartbeatChatEvent
Suppressed(prompt, text, state) ==
  /\ prompt # "message"
  /\ text = "ack" \/ (prompt = "ping" /\ (state # "final" \/ text = "none"))

\* The relay gets a piece of what a heartbeat says.  A run has the prompt of its chat.send,
\* and a heartbeat, which OpenClaw starts itself, has none.
Fragment ==
  \E text \in {"part", "ack"} :
    /\ LastUser # 0 /\ rows[LastUser].kind = "ping"
    /\ \A i \in DOMAIN rows : i > LastUser => rows[i].kind \notin {"text", "ack"}
    /\ ~Suppressed("none", text, "delta")
    /\ live' = live \cup {LastUser}
    /\ UNCHANGED <<rows, limit, cursor, shown>>

Next == ReadNewer \/ Fragment \/ \E kind \in Kind : Append_(kind)

Spec == Init /\ [][Next]_vars

-----------------------------------------------------------------------------
\* Who a row descends from, in the graph that OpenClaw wrote
Above[i \in 0..Len(rows)] ==
  IF i = 0 THEN {} ELSE {rows[i].parent} \cup Above[rows[i].parent]
TrueRun(i) ==
  LET users == {u \in Above[i] : u # 0 /\ IsUser(u)}
  IN IF rows[i].run # None \/ IsUser(i) THEN rows[i].run
     ELSE IF users = {} THEN None ELSE rows[Max(users)].run

\* What the pages said is the history of the whole log, with the run of the prompt each row
\* descends from, however the log was cut and however it grew: nothing is missing, nothing
\* was said that is not so, but for a heartbeat that was read before its answer.
PagesAreTrue ==
  /\ \A m \in shown : m.run = TrueRun(m.seq) /\ (m.seq \in Visible \/ InHeartbeat(m.seq))
  /\ cursor = Len(rows) => \A i \in Visible : Message(i) \in shown

\* A prompt, or a text that is not the answer of a heartbeat, is never hidden.
NothingRealIsHidden ==
  \A i \in DOMAIN rows : rows[i].kind \in {"prompt", "text"} => i \in Visible

\* "Only when ... is the whole segment hidden; when a heartbeat raises a real alert, all of
\* it is kept for the user" (filterOpenClawHeartbeatArtifacts): also one that was sent with
\* the message tool.
AlertsAreKept ==
  \A i \in DOMAIN rows : rows[i].kind = "delivery" => i \in Visible

\* "Streamed pieces ... of a heartbeat turn are hidden" as the history hides them
\* (openclaw-heartbeat-markers.ts), or one sees live what is gone after a refresh.
HeartbeatsAgree == \A p \in live : ArtifactEnd(p) = 0

-----------------------------------------------------------------------------
\* The page chat.history gives without a cursor
Page == {i \in Visible : Cardinality({j \in Visible : j > i}) < limit}

\* findHistoryScope: from the prompt of the run, or from its first row when the prompt is on
\* another page
Prompts(run) == {i \in Page : IsUser(i) /\ RunOf(i) = run}
Mine(run) == {i \in Page : RunOf(i) = run}
Start(run) == IF Prompts(run) # {} THEN Max(Prompts(run)) ELSE Min(Mine(run))

\* hasUnresolvedUserBefore
Unanswered(run) ==
  LET before == {i \in Page : i < Start(run) /\ rows[i].kind # "calls"}
  IN Prompts(run) # {} /\ before # {} /\ IsUser(Max(before))

\* extractHistoryMessageText, hasHistoryMessageContent: the rows that say something
Finals(run) == {i \in Page : i >= Start(run) /\ rows[i].kind \in {"text", "ack"}}

\* Mutant of Outcome: a later prompt does not end the turn.
OutcomeAcross(run) ==
  IF Mine(run) = {} \/ Finals(run) = {} THEN 0 ELSE Max(Finals(run))

\* extractHistoryOutcome: the last answer, unless a later prompt follows or an earlier one
\* is unanswered
Outcome(run) ==
  IF \/ Mine(run) = {} \/ Finals(run) = {}
     \/ \E i \in Page : i > Start(run) /\ IsUser(i)
     \/ Unanswered(run)
  THEN 0 ELSE Max(Finals(run))

\* A run is answered with a row of its own turn, or one of no turn.
OutcomeIsOfTheRun ==
  \A run \in Run : Outcome(run) # 0 => TrueRun(Outcome(run)) \in {run, None}

\* What is read of a session is what was written, of the turn it was written in.
HistoryIsTrue == PagesAreTrue /\ NothingRealIsHidden /\ OutcomeIsOfTheRun
=============================================================================
