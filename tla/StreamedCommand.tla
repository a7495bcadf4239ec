---------------------------- MODULE StreamedCommand ----------------------------
(***************************************************************************)
(* A maintenance command of the mobile that runs the openclaw program      *)
(* (src/openclaw/runtime/local-runtime.ts: gateway start and restart,      *)
(* doctor --fix) and tells what it prints, line by line, then how it       *)
(* ended; or that is launched, and nobody waits for it.  A piece of output *)
(* is a count of words before, and after, the end of a line; a line is a   *)
(* count of words.                                                         *)
(***************************************************************************)
EXTENDS Integers, Sequences

CONSTANTS MaxPieces, MaxWords,
          BlankPieces,   \* a piece may have no word in it
          None

Stream == {"stdout", "stderr"}

VARIABLES
  mode,      \* the command is "streamed", "launched", or it blocks the relay: "blocking"
  child,     \* None, "runs", "failed" (it could not be started), "exited", "closed"
  code,      \* how the child ends: 0, 1, or None for a signal
  open,      \* streams that have not ended
  printed,   \* the lines of each stream, and the one it is in: [lines, last]
  buffer,    \* what the pump holds of the line a stream is in
  pieces,    \* pieces so far
  events,    \* what was published: [stream, line, status]
  answer     \* None, "ok", "failed"

vars == <<mode, child, code, open, printed, buffer, pieces, events, answer>>

Line(stream, line) == [stream |-> stream, line |-> line, status |-> None]
End(status) == [stream |-> "status", line |-> 1, status |-> status]

\* handleLocalCommand: which command runs in which way
Init ==
  /\ mode \in {"streamed", "launched", "blocking"}
  /\ child = None /\ code = None /\ open = Stream
  /\ printed = [s \in Stream |-> [lines |-> <<>>, last |-> 0]]
  /\ buffer = [s \in Stream |-> 0] /\ pieces = 0 /\ events = <<>> /\ answer = None

\* runGatewayLifecycleStreaming: spawn, pump, the first event
Start ==
  /\ mode = "streamed" /\ child = None
  /\ child' \in {"runs", "failed"}
  /\ events' \in {<<Line("status", 1)>>, <<>>}   \* runDoctorFix does not announce itself
  /\ UNCHANGED <<mode, code, open, printed, buffer, pieces, answer>>

\* launchGatewayLifecycleCommand: answered before the child is known to run
Launch ==
  /\ mode = "launched" /\ child = None
  /\ child' \in {"runs", "failed"}
  /\ answer' = "ok"
  /\ UNCHANGED <<mode, code, open, printed, buffer, pieces, events>>

\* openclaw: doctor, update, config set; what failed and printed something is answered as
\* if it had not failed.
Block ==
  /\ mode = "blocking" /\ child = None
  /\ child' = "closed" /\ code' \in {0, 1, None}
  /\ answer' \in IF code' = 0 THEN {"ok"} ELSE {"ok", "failed"}
  /\ UNCHANGED <<mode, open, printed, buffer, pieces, events>>

\* emitLine: an empty line is not told, but of stderr
Told(s, line) == IF line = 0 /\ s = "stdout" THEN <<>> ELSE <<Line(s, line)>>

\* pump: the child prints, and a piece without a word is dropped.
Piece(s, before, ends, after) ==
  /\ child = "runs" /\ s \in open /\ pieces < MaxPieces
  /\ IF ends THEN BlankPieces \/ before + after > 0 ELSE before > 0 /\ after = 0
  /\ pieces' = pieces + 1
  /\ printed' = [printed EXCEPT ![s] =
       IF ends THEN [lines |-> Append(@.lines, @.last + before), last |-> after]
       ELSE [@ EXCEPT !.last = @ + before]]
  /\ IF before + after = 0 \/ mode = "launched" THEN UNCHANGED <<buffer, events>>
     ELSE /\ buffer' = [buffer EXCEPT ![s] = IF ends THEN after ELSE @ + before]
          /\ events' = IF ends THEN events \o Told(s, buffer[s] + before) ELSE events
  /\ UNCHANGED <<mode, child, code, open, answer>>

Exit ==
  /\ child = "runs"
  /\ child' = "exited" /\ code' \in {0, 1, None}
  /\ UNCHANGED <<mode, open, printed, buffer, pieces, events, answer>>

\* A stream ends, and what is left of its last line is told; another process may hold it
\* open after the child has exited.
StreamEnds(s) ==
  /\ s \in open /\ child \in {"exited", "failed"}
  /\ open' = open \ {s}
  /\ events' = IF buffer[s] > 0 /\ mode = "streamed" THEN events \o Told(s, buffer[s]) ELSE events
  /\ UNCHANGED <<mode, child, code, printed, buffer, pieces, answer>>

\* finish: the first answer counts
Finished(result) == answer' = IF answer = None THEN result ELSE answer

\* child.once("error")
SpawnError ==
  /\ child = "failed" /\ mode = "streamed" /\ answer = None
  /\ events' = Append(events, End("failed")) /\ Finished("failed")
  /\ UNCHANGED <<mode, child, code, open, printed, buffer, pieces>>

\* Mutant of Settled: close does not look whether the command is answered.
SettledNever == FALSE
Settled == answer # None

\* child.once("close"), when the child has ended and its streams have; a child that did not
\* start closes too.
Close ==
  /\ child = "exited" \/ (child = "failed" /\ (mode = "launched" \/ answer # None))
  /\ open = {} /\ child' = "closed"
  /\ IF Settled \/ mode = "launched" THEN UNCHANGED <<events, answer>>
     ELSE /\ events' = Append(events, End(IF code = 0 THEN "completed" ELSE "failed"))
          /\ Finished(IF code = 0 THEN "ok" ELSE "failed")
  /\ UNCHANGED <<mode, code, open, printed, buffer, pieces>>

Next ==
  \/ Start \/ Launch \/ Block \/ Exit \/ SpawnError \/ Close
  \/ \E s \in Stream :
       \/ StreamEnds(s)
       \/ \E before, after \in 0..MaxWords, ends \in BOOLEAN : Piece(s, before, ends, after)

Spec == Init /\ [][Next]_vars

-----------------------------------------------------------------------------
LinesOf(s) == SelectSeq(events, LAMBDA e : e.stream = s)
Shown(s) == [i \in DOMAIN LinesOf(s) |-> LinesOf(s)[i].line]
\* The lines of a stream that are told: those with a word, and all of stderr
Due(s) == LET all == printed[s].lines \o (IF s \in open \/ printed[s].last = 0 THEN <<>>
                                          ELSE <<printed[s].last>>)
          IN IF s = "stdout" THEN SelectSeq(all, LAMBDA n : n > 0) ELSE all
Ends == {i \in DOMAIN events : events[i].status # None}

\* The mobile that follows a command sees every line once, as it was printed and in order,
\* whatever pieces it came in, then one end, and nothing after it; the end it sees is the
\* end the request is answered with, also of a command that did not start or was killed.
CommandIsTold ==
  mode = "streamed" =>
    /\ \A s \in Stream : Shown(s) = Due(s)
    /\ \A i \in Ends : i = Len(events)
    /\ (answer # None) = (Ends # {})
    /\ answer # None =>
         events[Len(events)].status = IF answer = "ok" THEN "completed" ELSE "failed"
=============================================================================
