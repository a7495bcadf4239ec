--------------------------- MODULE HermesApiStream ---------------------------
(***************************************************************************)
(* The event stream of one chat over the Hermes API server                 *)
(* (consumeHermesApiChatStream, src/hermes/runtime/                        *)
(* hermes-runtime-api-client.ts): text deltas are published as snapshots,  *)
(* at the coalescer's pace; tool events are published after the text that  *)
(* precedes them, under the identity the server gives or one made here.    *)
(***************************************************************************)
EXTENDS Integers, Sequences, SequencesExt

CONSTANTS Name,    \* tools
          CallId,  \* identities the server gives its tool calls
          Anon,    \* stands for an event without identity
          MaxEvents

Phase == {"started", "progress", "completed", "failed"}
Event == [kind : {"delta", "said", "finished", "error", "done"}]
         \cup [kind : {"tool"}, phase : Phase, name : Name, id : CallId \cup {Anon}]

VARIABLES
  read,      \* events read so far
  deltas,    \* deltaOutput, as its number of deltas
  pending,   \* the coalescer holds a snapshot that is not out
  active,    \* tools under way, in the order they started: identity and name
  made,      \* invocationCounter
  sent,      \* what was published, in order
  aborted,   \* the run was told to stop
  ended      \* how the stream ended, or "no"

vars == <<read, deltas, pending, active, made, sent, aborted, ended>>

Init == /\ read = 0 /\ deltas = 0 /\ pending = FALSE /\ active = <<>> /\ made = 0
        /\ sent = <<>> /\ aborted = FALSE /\ ended = "no"

Text(n) == [what |-> "text", upto |-> n]
Tool(id, phase) == [what |-> "tool", id |-> id, phase |-> phase, upto |-> deltas]

\* assistantSnapshots.flush: what is held goes out first
Flushed(held, out) == IF held THEN Append(out, Text(deltas)) ELSE out

\* Mutant of Finished: the tools that never end are dropped without a word.
FinishedQuietly(tools, phase) == <<>>

\* toolLifecycle.finishActive
Finished(tools, phase) == [i \in DOMAIN tools |-> Tool(tools[i].id, phase)]

IsActive(id) == \E i \in DOMAIN active : active[i].id = id
Without(id) == SelectSeq(active, LAMBDA t : t.id # id)
\* register: a tool that is known keeps its place
Registered(id, name) ==
  IF IsActive(id) THEN active ELSE Append(active, [id |-> id, name |-> name])
\* firstActiveId: the oldest tool of this name
Named(name) == SelectSeq(active, LAMBDA t : t.name = name)
Known(e) == IF e.id # Anon THEN <<e.id>>
            ELSE IF Named(e.name) = <<>> THEN <<>> ELSE <<Named(e.name)[1].id>>

-----------------------------------------------------------------------------
Delta(e) ==
  /\ e.kind = "delta"
  /\ deltas' = deltas + 1 /\ pending' = TRUE
  /\ UNCHANGED <<active, made, sent, ended>>

\* the coalescer's timer
Emit ==
  /\ pending /\ ended = "no"
  /\ pending' = FALSE /\ sent' = Append(sent, Text(deltas))
  /\ UNCHANGED <<read, deltas, active, made, aborted, ended>>

\* assistant.completed
Said(e) ==
  /\ e.kind = "said"
  /\ sent' = Flushed(pending, sent) /\ pending' = FALSE
  /\ UNCHANGED <<deltas, active, made, ended>>

\* the text that is held, then the tool event
Publish(event) == sent' = Append(Flushed(pending, sent), event) /\ pending' = FALSE

Started(e) ==
  LET id == IF e.id = Anon THEN made + 1 ELSE e.id IN
  /\ e.kind = "tool" /\ e.phase = "started"
  /\ made' = IF e.id = Anon THEN made + 1 ELSE made
  /\ active' = Registered(id, e.name)
  /\ Publish(Tool(id, "streaming"))
  /\ UNCHANGED <<deltas, ended>>

Progressed(e) ==
  /\ e.kind = "tool" /\ e.phase = "progress" /\ Known(e) # <<>>
  /\ active' = Registered(Known(e)[1], e.name)
  /\ Publish(Tool(Known(e)[1], "streaming"))
  /\ UNCHANGED <<deltas, made, ended>>

Ended(e) ==
  /\ e.kind = "tool" /\ e.phase \in {"completed", "failed"} /\ Known(e) # <<>>
  /\ active' = Without(Known(e)[1])
  /\ Publish(Tool(Known(e)[1], e.phase))
  /\ UNCHANGED <<deltas, made, ended>>

\* progress or an end of a tool nobody knows of
Unknown(e) ==
  /\ e.kind = "tool" /\ e.phase # "started" /\ Known(e) = <<>>
  /\ UNCHANGED <<deltas, pending, active, made, sent, ended>>

\* every tool that is under way ends as the stream does
Finish(phase) == /\ sent' = Flushed(pending, sent) \o Finished(active, phase)
                 /\ pending' = FALSE /\ active' = <<>>

\* run.completed, done
Completed(e) == /\ e.kind \in {"finished", "done"}
                /\ Finish("completed")
                /\ UNCHANGED <<deltas, made, ended>>

Error(e) == /\ e.kind = "error"
            /\ Finish("failed") /\ ended' = "failed"
            /\ UNCHANGED <<deltas, made>>

\* a chunk is read to its end even when the run is told to stop meanwhile
Handle ==
  /\ ended = "no" /\ read < MaxEvents
  /\ read' = read + 1 /\ UNCHANGED aborted
  /\ \E e \in Event : \/ Delta(e) \/ Said(e) \/ Started(e) \/ Progressed(e) \/ Ended(e)
                      \/ Unknown(e) \/ Completed(e) \/ Error(e)

Abort == /\ ~aborted /\ ended = "no"
         /\ aborted' = TRUE
         /\ UNCHANGED <<read, deltas, pending, active, made, sent, ended>>

\* between two chunks: the body ends, or it breaks or the run was told to stop
Close ==
  /\ ended = "no"
  /\ IF aborted THEN Finish("failed") /\ ended' = "aborted"
     ELSE \/ Finish("completed") /\ ended' = "ok"
          \/ Finish("failed") /\ ended' = "failed"
  /\ UNCHANGED <<read, deltas, made, aborted>>

Next == Handle \/ Emit \/ Abort \/ Close

Spec == Init /\ [][Next]_vars

-----------------------------------------------------------------------------
Tools == {i \in DOMAIN sent : sent[i].what = "tool"}

\* A tool event comes after the text that was read before it, and the text only grows.
TextComesFirst ==
  \A i \in DOMAIN sent, j \in DOMAIN sent : i < j =>
    /\ sent[i].upto <= sent[j].upto
    /\ sent[i].what = "text" /\ sent[j].what = "text" => sent[i].upto < sent[j].upto
    /\ sent[j].what = "tool" /\ sent[j].upto > 0 =>
         \E k \in 1..j : sent[k].what = "text" /\ sent[k].upto = sent[j].upto

\* However the stream ends, no tool is left running and no text is left out.
AllIsTold ==
  ended # "no" =>
    /\ deltas > 0 => \E i \in DOMAIN sent : sent[i] = Text(deltas)
    /\ \A i \in Tools : sent[i].phase = "streaming" =>
         \E j \in Tools : j > i /\ sent[j].id = sent[i].id /\ sent[j].phase # "streaming"

\* The events of the stream reach the mobile in order and to the end (publishToolEvent,
\* finishActiveTools).
StreamIsTold == TextComesFirst /\ AllIsTold
=============================================================================
