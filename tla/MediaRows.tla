------------------------------ MODULE MediaRows ------------------------------
(***************************************************************************)
(* Where the media of a turn is shown.  OpenClaw writes a file a reply     *)
(* sends as a row of its own: a sidecar that names its run, or the mirror  *)
(* of a message-tool call that names run and call.  A history page folds   *)
(* them into the turn's reply (assistant-media-sidecar.ts), and a live     *)
(* delivery is put on the timeline events of its run                       *)
(* (outgoing-media-relay.ts, both in src/src/openclaw/relay/).             *)
(*                                                                         *)
(* The functions are pure; Init chooses their input and Next repeats it.   *)
(* All rows are of one session.  Content is a sequence of "text" and media *)
(* tokens; an empty string is a field that is not there.                   *)
(***************************************************************************)
EXTENDS Naturals, Sequences, FiniteSets, SequencesExt

CONSTANTS
  Rows,      \* rows a page may have: see RowOf
  MaxRows,   \* bound: rows of a page
  Events,    \* completions of a timeline: [run, call, content]
  Blocks     \* media blocks of a delivery: [run, call, media]

VARIABLES page, v3, events, blocks
vars == <<page, v3, events, blocks>>

Init ==
  /\ page \in SeqOf(Rows, MaxRows) /\ v3 \in BOOLEAN
  /\ events \in SeqOf(Events, 2) /\ blocks \in SeqOf(Blocks, 2)
  /\ IF page = <<>> THEN TRUE ELSE events = <<>> /\ blocks = <<>>

\* kind "reply", "sidecar" (run of its key) or "tool" (run and call of its
\* relation); parent is the id a sidecar names; calls are the message-tool
\* calls of a reply; display is openclawDisplayContent.
RowOf(kind, id, run, call, parent, calls, content, display) ==
  [kind |-> kind, id |-> id, run |-> run, call |-> call, parent |-> parent,
   calls |-> calls, content |-> content, display |-> display]

MediaOf(content) == SelectSeq(content, LAMBDA b : b # "text")
Put(rows, suppressed, merged(_)) ==
  LET kept == SelectSeq([i \in 1..Len(rows) |-> i], LAMBDA i : i \notin suppressed) IN
  [k \in 1..Len(kept) |-> merged(kept[k])]

----------------------------------------------------------------------------
(* assistant-media-sidecar.ts.                                             *)

\* What only the display shows becomes content.

Materialize(row) ==
  [row EXCEPT !.content = @ \o SelectSeq(row.display, LAMBDA b : b \notin ToSet(row.content))]

\* The row a sidecar names, or else every reply of its run.
ParentsOf(rows, i, projection3) ==
  LET named == {j \in 1..Len(rows) : rows[j].id = rows[i].parent} IN
  IF named # {} THEN {Min(named)}
  ELSE IF projection3 THEN {}
  ELSE {j \in 1..Len(rows) : rows[j].kind = "reply" /\ rows[j].run = rows[i].run}

\* A sidecar belongs to exactly one row, which is of the run it names.  (A
\* sidecar that names another sidecar is not among the inputs.)
Owner(rows, i, projection3) ==
  LET owners == ParentsOf(rows, i, projection3) IN
  IF Cardinality(owners) # 1 THEN 0
  ELSE LET j == CHOOSE j \in owners : TRUE IN
       IF rows[j].kind = "reply" /\ rows[j].run = rows[i].run THEN j ELSE 0

FoldSidecars(rows, projection3) ==
  LET sidecars == {i \in 1..Len(rows) : rows[i].kind = "sidecar"}
      owned == {i \in sidecars : Owner(rows, i, projection3) # 0}
      \* A replay of the run's sidecar goes without being folded again.
      first == {i \in owned : \A k \in owned : rows[k].run = rows[i].run => i <= k}
      merged(j) == [rows[j] EXCEPT !.content =
        FoldSeq(LAMBDA i, content : content \o MediaOf(rows[i].content), @,
                SelectSeq([i \in 1..Len(rows) |-> i],
                          LAMBDA i : i \in first /\ Owner(rows, i, projection3) = j))] IN
  Put(rows, owned, merged)

Relation(row) == IF row.kind = "tool" THEN <<row.run, row.call>> ELSE <<>>

\* Projection 3 keeps a tool row as a row, once.
DropReplays(rows) ==
  LET replays == {i \in 1..Len(rows) :
                    /\ rows[i].kind = "tool"
                    /\ \E k \in 1..(i - 1) : Relation(rows[k]) = Relation(rows[i])} IN
  Put(rows, replays, LAMBDA j : rows[j])

\* selectAutomaticMediaParent: the only reply with text, or the only reply.
ReplyOf(rows, run) ==
  LET replies == {j \in 1..Len(rows) : rows[j].kind = "reply" /\ rows[j].run = run}
      texts == {j \in replies : "text" \in ToSet(rows[j].content)} IN
  IF Cardinality(texts) = 1 THEN CHOOSE j \in texts : TRUE
  ELSE IF Cardinality(replies) = 1 THEN CHOOSE j \in replies : TRUE ELSE 0

FoldReplies(rows) ==
  LET tools == {i \in 1..Len(rows) : rows[i].kind = "tool" /\ MediaOf(rows[i].content) # <<>>
                                     /\ ReplyOf(rows, rows[i].run) # 0}
      first == {i \in tools : \A k \in tools : Relation(rows[k]) = Relation(rows[i]) => i <= k}
      calls(run) == FlattenSeq([k \in 1..Len(rows) |->
                      IF rows[k].kind = "reply" /\ rows[k].run = run THEN rows[k].calls ELSE <<>>])
      of(j) == {i \in first : ReplyOf(rows, rows[i].run) = j}
      order(run, call) == Min({n \in 1..Len(calls(run)) : calls(run)[n] = call})
      made(run, call) == Cardinality({n \in 1..Len(calls(run)) : calls(run)[n] = call})
      known(j) == \A i \in of(j) : made(rows[i].run, rows[i].call) = 1
      sorted(j) == SetToSortSeq(of(j), LAMBDA a, b :
        IF known(j) THEN order(rows[a].run, rows[a].call) < order(rows[b].run, rows[b].call)
        ELSE a < b)
      merged(j) == [rows[j] EXCEPT !.content =
        FoldSeq(LAMBDA i, content : content \o MediaOf(rows[i].content), @, sorted(j))] IN
  Put(rows, tools, merged)

\* relayOutgoingMediaInHistoryResponse, up to the uploads.
Project(rows, projection3) ==
  LET folded == FoldSidecars([i \in 1..Len(rows) |-> Materialize(rows[i])], projection3) IN
  IF projection3 THEN DropReplays(folded) ELSE FoldReplies(folded)

----------------------------------------------------------------------------
(* relayOpenClawDeliveryMediaInTimelineEvents.                             *)

\* appendUniqueContentBlocks: one block for a tool call and a file.
Append1(content, added) ==
  FoldSeq(LAMBDA b, all : IF b \in ToSet(all) THEN all ELSE Append(all, b), content, added)

\* Mutant of BlocksFor: a completion without a call of its own gets them all.
BlocksForAnyRow(all, k, added) ==
  LET related == SelectSeq(added, LAMBDA b : b.run = all[k].run /\ b.call # "")
      mine == SelectSeq(related, LAMBDA b : b.call = all[k].call) IN
  IF related = <<>> THEN added ELSE IF all[k].call = "" THEN added ELSE mine

BlocksFor(all, k, added) ==
  LET related == SelectSeq(added, LAMBDA b : b.run = all[k].run /\ b.call # "")
      mine == SelectSeq(related, LAMBDA b : b.call = all[k].call)
      alone == Cardinality({n \in 1..Len(all) : all[n].run = all[k].run}) = 1 IN
  IF related = <<>> THEN added
  ELSE IF all[k].call # "" THEN mine
  ELSE IF alone THEN added ELSE <<>>

\* The blocks of a delivery are all of its source run.
Deliver(all, added, run) ==
  [k \in 1..Len(all) |->
    IF all[k].run # run THEN all[k]
    ELSE [all[k] EXCEPT !.content = Append1(@, BlocksFor(all, k, added))]]

Next == UNCHANGED vars
Spec == Init /\ [][Next]_vars

----------------------------------------------------------------------------
(* Properties.                                                             *)

Shown(rows) ==
  UNION {ToSet(MediaOf(rows[i].content)) \cup ToSet(rows[i].display) : i \in 1..Len(rows)}

\* No file a page shows is lost in the folding, a row that is replayed puts
\* its file in the reply once, no file gets into another run's reply, and
\* folding the result again changes nothing.
FoldingKeepsMedia ==
  LET result == Project(page, v3) IN
  /\ Shown(page) = Shown(result)
  /\ \A i \in 1..Len(result) : result[i].kind = "reply" =>
       /\ IsInjective(MediaOf(result[i].content))
       /\ \A m \in ToSet(MediaOf(result[i].content)) :
            \E k \in 1..Len(page) : page[k].run = result[i].run /\ m \in Shown(<<page[k]>>)
  /\ Project(result, v3) = result

\* A file is put on the row of its call, or on the only row of the run, never
\* on every row of the turn, and delivering it again adds nothing.
DeliveredOnOneRow ==
  \A run \in {blocks[n].run : n \in 1..Len(blocks)} :
    LET added == SelectSeq(blocks, LAMBDA b : b.run = run)
        result == Deliver(events, added, run) IN
    /\ Deliver(result, added, run) = result
    /\ \A j, k \in 1..Len(events), n \in 1..Len(added) :
         /\ j # k /\ added[n] \in ToSet(result[j].content) \ ToSet(events[j].content)
         /\ added[n] \in ToSet(result[k].content) \ ToSet(events[k].content)
         => added[n].call # "" /\ events[j].call = added[n].call /\ events[k].call = added[n].call

MediaIsPlaced == FoldingKeepsMedia /\ DeliveredOnOneRow
=============================================================================
