---------------------------- MODULE HermesHistory ----------------------------
(***************************************************************************)
(* What the mobile reads of a Hermes session: pages of state.db rows       *)
(* (history_page, hermes-runtime-state-db.ts), each row turned into a      *)
(* message of its turn (hermes-runtime-history.ts), the text of a turn     *)
(* that ended in a typed outcome or a file receipt taken from there        *)
(* (hermes-runtime-history-turn-output.ts,                                 *)
(* hermes-runtime-chat-file-transfer.ts), and the answer that ends a run   *)
(* (hermes-runtime-history-completion.ts).                                 *)
(***************************************************************************)
EXTENDS Integers, Sequences, FiniteSets, SequencesExt

CONSTANTS Row,       \* the rows that occur, see Kinds
          MaxRows,
          None

(* A row: its role; the run a user row carries in its marker, or None; whether the     *)
(* assistant row is terminal; whether nothing of a user row is left when the markers    *)
(* are taken off; what a tool row or the calls of an assistant row say of the outcome.  *)
Kinds == [role : {"user", "assistant", "tool"}, run : STRING \cup {None},
          terminal : BOOLEAN, blank : BOOLEAN,
          says : {"nothing", "receipt", "ordinary", "clarification", "attempted", "call"}]

VARIABLES
  rows,     \* the session
  limit,    \* rows of a page
  newer,    \* the reader goes forwards, or backwards from the end
  cursor,   \* the last row of the page before
  more,     \* the reader was told of another page
  shown     \* messages read so far

vars == <<rows, limit, newer, cursor, more, shown>>

Users == {i \in DOMAIN rows : rows[i].role = "user"}
RunOf(u) == rows[u].run       \* the run in the marker of a user row
Blank(i) == rows[i].blank      \* nothing is left to show
LastUser(i) == LET us == {u \in Users : u < i} IN IF us = {} THEN 0 ELSE Max(us)

-----------------------------------------------------------------------------
\* turn_rows: from the user row before this one to the next user row
TurnRows(i) == {j \in DOMAIN rows : j >= LastUser(i) /\ \A u \in Users : u > i => j < u}

\* isTerminalHermesAssistantMessage
Terminals(turn) == {j \in turn : rows[j].role = "assistant" /\ rows[j].terminal}

\* The rows after the last user row of the run, to the next user row
OfRun(run) ==
  LET mine == {u \in Users : RunOf(u) = run}
  IN IF mine = {} THEN {}
     ELSE {j \in DOMAIN rows : j > Max(mine) /\ \A u \in Users : u > Max(mine) => j < u}

\* collectHermesFileTransferEvidence, collectHermesFileTransferOutcome,
\* hasHermesSendFileAttempt
Receipts(within) == {j \in within : rows[j].says = "receipt"}
Outcomes(within) == {j \in within : rows[j].says \in {"ordinary", "clarification", "attempted"}}
Asked(within) == {j \in within : rows[j].says = "call"}

\* resolveHermesTurnOutput: receipts, then the one typed outcome, then an unproved call
Output(within) ==
  IF Receipts(within) # {} THEN "receipt"
  ELSE IF Cardinality(Outcomes(within)) = 1 THEN rows[Max(Outcomes(within))].says
  ELSE IF Asked(within) # {} THEN "attempted" ELSE "none"

\* decideHermesAssistantRow: the text of the row itself, of its turn, or no message
Decision(i) ==
  LET turn == TurnRows(i)
      out == IF turn \cap Users = {} \/ RunOf(Min(turn \cap Users)) = None THEN "none"
             ELSE Output(turn \cap OfRun(RunOf(Min(turn \cap Users))))
  IN IF out = "none" THEN "raw" ELSE IF i = Max(Terminals(turn)) THEN out ELSE "drop"

-----------------------------------------------------------------------------

\* activeMobileTurn: the user row before it in the page, or the one before the page
ActiveRun(page, i) ==
  LET before == {u \in Users \cap page : u < i /\ ~Blank(u)}
      context == LastUser(Min(page))
  IN IF before # {} THEN RunOf(Max(before))
     ELSE IF context = 0 THEN None ELSE RunOf(context)

\* normalizeHermesHistoryMessages: the messages of a page.  The run is part of the id of
\* an assistant's message (hermesStateDbHistoryMessageId).
Messages(page) ==
  {[seq |-> i,
    run |-> IF rows[i].role = "user" THEN RunOf(i) ELSE ActiveRun(page, i),
    text |-> IF rows[i].role = "assistant" THEN Decision(i) ELSE "raw"] :
      i \in {j \in page : ~Blank(j) /\ (rows[j].role = "assistant" => Decision(j) # "drop")}}

\* the rows a page is taken from: no assistant row that only calls tools
Listed == {i \in DOMAIN rows : rows[i].role = "assistant" => rows[i].terminal}

Init ==
  /\ rows \in SeqOf(Row, MaxRows) /\ limit \in 1..MaxRows /\ newer \in BOOLEAN
  /\ cursor = IF newer THEN 0 ELSE Len(rows) + 1
  /\ more = TRUE /\ shown = {}

\* history_page: the rows next to the cursor, and whether one is left
Read ==
  LET there == {i \in Listed : IF newer THEN i > cursor ELSE i < cursor}
      page == {i \in there : Cardinality({j \in there : IF newer THEN j < i ELSE j > i}) < limit}
  IN /\ more
     /\ more' = (page # there)
     /\ shown' = shown \cup (IF page = {} THEN {} ELSE Messages(page))
     /\ cursor' = IF page = {} THEN cursor ELSE IF newer THEN Max(page) ELSE Min(page)
     /\ UNCHANGED <<rows, limit, newer>>

Next == Read

Spec == Init /\ [][Next]_vars

-----------------------------------------------------------------------------
\* However the session is cut into pages, and from whichever end, each message of the whole
\* session is shown once, with its text, and under the run of the user row before it.  Of a
\* row right behind a user row that is not shown (a prompt of attachments only) the run is
\* left open: normalizeHermesHistoryMessages passes over such a row, history_page does not,
\* so the page decides whether the run is that of this prompt or of one before.
PagesAgree ==
  ~more => LET whole == IF Listed = {} THEN {} ELSE Messages(Listed) IN
    /\ Cardinality(shown) = Cardinality(whole)
    /\ {[seq |-> m.seq, text |-> m.text] : m \in shown} =
         {[seq |-> m.seq, text |-> m.text] : m \in whole}
    /\ \A m \in shown \ whole : LastUser(m.seq) # 0 /\ Blank(LastUser(m.seq))
    /\ \A m \in shown : rows[m.seq].role # "user" /\ LastUser(m.seq) # 0 =>
         m.run = RunOf(LastUser(m.seq)) \/ Blank(LastUser(m.seq))

\* The last message of a turn says what the run was answered: verifyHermesFileTransfer-
\* IfRequired reads the whole session by run, the history reads one turn.
LiveAgrees ==
  \A u \in Users : RunOf(u) # None /\ u = Max({v \in Users : RunOf(v) = RunOf(u)}) =>
    LET live == Output(OfRun(RunOf(u)))  ends == Terminals(OfRun(RunOf(u)))
    IN live # "none" /\ ends # {} =>
         /\ Decision(Max(ends)) = live
         /\ \A i \in ends \ {Max(ends)} : Decision(i) = "drop"

\* The history tells the mobile what the runs told it.
HistoryAgrees == PagesAgree /\ LiveAgrees

-----------------------------------------------------------------------------
\* latestTerminalAssistantReplyFromHermesExport, from the end to the first user row
Reply(run) ==
  LET mine == {u \in Users : RunOf(u) = run}
      ends == {i \in Terminals(DOMAIN rows) : i > Max(Users)}
  IN IF mine = {} \/ ends = {} THEN 0 ELSE Min(ends)

\* "A subsequent user row begins another turn.  Do not let a later unrelated response
\* attach to the anchored source run" (hermes-runtime-history-completion.ts).
ReplyIsOfTheRun ==
  \A u \in Users : RunOf(u) # None /\ Reply(RunOf(u)) # 0 =>
    Reply(RunOf(u)) \in OfRun(RunOf(u))
=============================================================================
