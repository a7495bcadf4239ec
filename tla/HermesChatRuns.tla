--------------------------- MODULE HermesChatRuns ---------------------------
(***************************************************************************)
(* A chat command of the Relay, from its arrival to its terminal response, *)
(* in an agent whose runtime is Hermes: the message handler of             *)
(* hermes-relay-manager.ts, the guard against running a message twice      *)
(* (chat-send-idempotency.ts), the registry of runs that can be aborted    *)
(* (active-hermes-chat-runs.ts) and the queue that gives a session's runs  *)
(* their turns (hermes-runtime-chat-queue.ts, hermes-runtime-chat.ts).     *)
(*                                                                         *)
(* A step ends where the code awaits something that takes a while: the     *)
(* transcript of a voice message, attachments, a turn, the model, uploads. *)
(* The guard and the queue belong to the process, the registry to one      *)
(* connection.  Responses and chat events go to the durable outbox.        *)
(***************************************************************************)
EXTENDS Naturals, FiniteSets

CONSTANTS
  Command,         \* deliveries of chat.send, chat.voice.send and agent
  Key,             \* execution keys: gateway, session and idempotencyKey
  Session,
  KeyOf,           \* the key of each command, or None
  SessionOf,
  ContentOf,       \* what the fingerprint of a command covers
  Voice,           \* the commands that carry speech
  Attached,        \* the commands with attachments to fetch or to store
  Slash,           \* the commands whose message is a slash command
  None,
  MaxTerminals,    \* how many verdicts the guard remembers
  MaxConnections,  \* bound: connections the agent makes
  MaxCrashes       \* bound: restarts of the agent

ASSUME KeysAreNames == KeyOf \in [Command -> Key \cup {None}]
ASSUME SessionsAreNames == SessionOf \in [Command -> Session]
ASSUME NoneIsNobody == None \notin Command \cup Key
ASSUME SomeTerminals == MaxTerminals \in Nat \ {0}

VARIABLES
  connection,  \* the number of the current WebSocket
  socket,      \* its readyState: open, closing or closed
  crashes,
  pc,          \* where the handler of each command is
  sentOn,      \* the connection each command arrived on
  aborted,     \* the commands whose AbortController has fired, heard or not
  entries,     \* the guard's map: the command that owns each key, or None
  outcome,     \* the terminal promise of each command that runs the model
  settledAt,   \* when its verdict was given
  horizon,     \* verdicts given until then have outlived the TTL
  owner,       \* the command whose run a repeated command waits for
  tail,        \* hermesChatQueues: the last command in line, or None
  before,      \* the command each command in line waits for, or None
  active,      \* the commands whose runs the connection's activeChatRuns hold
  events,      \* the terminal chat events published for each run
  answers,     \* the responses sent to each command
  clock,       \* history: how many runs got in line and how many had a verdict
  ticket       \* history: when each entered its session's line

guardVars == <<entries, outcome, settledAt>>
lineVars == <<tail, before, ticket>>
linkVars == <<connection, socket, crashes>>
vars == <<linkVars, pc, sentOn, aborted, guardVars, horizon, owner, lineVars, active, events,
          answers, clock>>

IsOpen(c) == sentOn[c] = connection /\ socket = "open"
\* The registry a handler closes over is the current one and not yet cleared.
OnThisConnection(c) == sentOn[c] = connection /\ socket # "closed"

\* runHermesChat hands the signal of a fired controller on to the model, but not
\* to a slash command, nor to the chat run queued by it.
ToldToStop == aborted \ Slash

Verdicts == {"completed", "failed"}
InTurn == {"running", "draining"}
\* Everyone between acceptance and the end of the handler.
Live == {"attaching", "queued", "finishing"} \cup InTurn
LeftLine == {"finishing", "done"}

Init ==
  /\ connection = 1 /\ socket = "open" /\ crashes = 0
  /\ pc = [c \in Command |-> "new"] /\ sentOn = [c \in Command |-> 0]
  /\ aborted = {}
  /\ entries = [k \in Key |-> None]
  /\ outcome = [c \in Command |-> "none"] /\ settledAt = [c \in Command |-> 0]
  /\ horizon = 0
  /\ owner = [c \in Command |-> None]
  /\ tail = [s \in Session |-> None] /\ before = [c \in Command |-> None]
  /\ active = {}
  /\ events = [c \in Command |-> {}] /\ answers = [c \in Command |-> {}]
  /\ clock = [entered |-> 0, settled |-> 0] /\ ticket = [c \in Command |-> 0]

Go(c, from, to) == pc[c] = from /\ pc' = [pc EXCEPT ![c] = to]
Answer(c, a) == answers' = [answers EXCEPT ![c] = @ \cup {a}]
Remembering(c) == active \cup {c}
Forgetting(c) == active \ {c}
Tick(C) == clock' = [t \in DOMAIN clock |-> IF t \in C THEN clock[t] + 1 ELSE clock[t]]
Publish(c, e) == events' = [events EXCEPT ![c] = @ \cup {e}]

---------------------------------------------------------------------------
(* The guard                                                               *)

Owners == {c \in Command : \E k \in Key : entries[k] = c}
Without(E, C) == [k \in Key |-> IF E[k] \in C THEN None ELSE E[k]]

\* Mutant of Lapsed: a run that is not over counts as settled long ago.
LapsedOrRunning == {c \in Owners : settledAt[c] <= horizon}

\* prune: the verdicts whose retention is over.
Lapsed == {c \in Owners : outcome[c] \in Verdicts /\ settledAt[c] <= horizon}

\* pruneTerminalLimit: of these verdicts, those that are not among the newest.
Excess(C, at) ==
  {c \in C : Cardinality({d \in C : at[d] > at[c]}) >= MaxTerminals}

\* claim's prune() applies the retention, then the limit.
Pruned ==
  LET kept == {c \in Owners \ Lapsed : outcome[c] \in Verdicts}
  IN  Lapsed \cup Excess(kept, settledAt)

\* markTerminal: the verdict is given, and the oldest may have to make room.
\* (A run without a key has no entry; its outcome is only noted.)
Settle(c, verdict) ==
  /\ outcome' = [outcome EXCEPT ![c] = verdict]
  /\ settledAt' = [settledAt EXCEPT ![c] = clock.settled + 1]
  /\ Tick({"settled"})
  /\ entries' = Without(entries, Excess({d \in Owners : outcome'[d] \in Verdicts}, settledAt'))

\* Mutant of Release: nobody who waits is told.
ReleaseTellsNobody(c) ==
  /\ entries' = Without(entries, {c})
  /\ UNCHANGED <<outcome, settledAt, clock>>

\* release: only an entry that is still this owner's is removed.
Release(c) ==
  /\ outcome' = [outcome EXCEPT ![c] = "released"]
  /\ entries' = Without(entries, {c})
  /\ UNCHANGED <<settledAt, clock>>

---------------------------------------------------------------------------
(* The line of a session                                                   *)

\* runSerializedHermesChat: wait for whoever is last, and become the last.
Enter(c) ==
  /\ before' = [before EXCEPT ![c] = tail[SessionOf[c]]]
  /\ tail' = [tail EXCEPT ![SessionOf[c]] = c]
  /\ ticket' = [ticket EXCEPT ![c] = clock.entered + 1]

\* Mutant of Leave: whoever came after is not looked for.
LeaveNobodyInLine(c) ==
  /\ tail' = [tail EXCEPT ![SessionOf[c]] = None]
  /\ UNCHANGED <<before, ticket>>

\* Its finally block: nobody is last any more, unless somebody came after.
Leave(c) ==
  /\ tail' = [tail EXCEPT ![SessionOf[c]] = IF @ = c THEN None ELSE @]
  /\ UNCHANGED <<before, ticket>>

MayStart(c) == before[c] \in {None} \cup {d \in Command : pc[d] \in LeftLine}

---------------------------------------------------------------------------
(* Arrival                                                                 *)

\* The run is registered and accepted; without attachments it enters the line
\* before the handler gives up control.
Begin(c) ==
  /\ outcome' = [outcome EXCEPT ![c] = "pending"]
  /\ active' = IF OnThisConnection(c)' THEN Remembering(c) ELSE active
  /\ Answer(c, "accepted")
  /\ IF c \in Attached
     THEN pc' = [pc EXCEPT ![c] = "attaching"] /\ UNCHANGED <<lineVars, clock>>
     ELSE pc' = [pc EXCEPT ![c] = "queued"] /\ Enter(c) /\ Tick({"entered"})
  /\ UNCHANGED <<settledAt, owner>>

ClaimWithoutKey(c) == KeyOf[c] = None /\ Begin(c) /\ UNCHANGED entries

ClaimFresh(c) ==
  LET kept == Without(entries, Pruned) IN
  /\ KeyOf[c] # None /\ kept[KeyOf[c]] = None
  /\ entries' = [kept EXCEPT ![KeyOf[c]] = c]
  /\ Begin(c)

\* Refused, or told to wait for the run that is there.
ClaimKnown(c) ==
  LET kept == Without(entries, Pruned) IN
  /\ KeyOf[c] # None /\ kept[KeyOf[c]] # None
  /\ entries' = kept
  /\ IF ContentOf[kept[KeyOf[c]]] # ContentOf[c]
     THEN /\ pc' = [pc EXCEPT ![c] = "done"] /\ Answer(c, "rejected")
          /\ UNCHANGED owner
     ELSE /\ pc' = [pc EXCEPT ![c] = "reusing"] /\ Answer(c, "accepted")
          /\ owner' = [owner EXCEPT ![c] = kept[KeyOf[c]]]
  /\ UNCHANGED <<outcome, settledAt, active, clock, lineVars>>

Claim(c) ==
  /\ UNCHANGED <<linkVars, aborted, horizon, events>>
  /\ ClaimWithoutKey(c) \/ ClaimFresh(c) \/ ClaimKnown(c)

Deliver(c) ==
  /\ pc[c] = "new" /\ socket = "open"
  /\ sentOn' = [sentOn EXCEPT ![c] = connection]
  /\ IF c \in Voice
     THEN /\ pc' = [pc EXCEPT ![c] = "transcribing"]
          /\ UNCHANGED <<linkVars, aborted, guardVars, horizon, owner, lineVars, active, events,
                         answers, clock>>
     ELSE Claim(c)

Transcribed(c) == pc[c] = "transcribing" /\ UNCHANGED sentOn /\ Claim(c)

TranscriptFails(c) ==
  /\ Go(c, "transcribing", "done")
  /\ Answer(c, "rejected")
  /\ UNCHANGED <<linkVars, sentOn, aborted, guardVars, horizon, owner, lineVars, active, events,
                 clock>>

---------------------------------------------------------------------------
(* The run                                                                 *)

Attach(c) ==
  /\ Go(c, "attaching", "queued")
  /\ Enter(c) /\ Tick({"entered"})
  /\ UNCHANGED <<linkVars, sentOn, aborted, guardVars, horizon, owner, active, events, answers>>

Start(c) ==
  /\ Go(c, "queued", "running") /\ MayStart(c)
  /\ UNCHANGED <<linkVars, sentOn, aborted, guardVars, horizon, owner, lineVars, active, events,
                 answers, clock>>

\* A slash command leaves input behind: a chat run within the same turn, with a
\* context of its own that has no signal.
Drain(c) ==
  /\ c \in Slash /\ Go(c, "running", "draining")
  /\ UNCHANGED <<linkVars, sentOn, aborted, guardVars, horizon, owner, lineVars, active, events,
                 answers, clock>>

\* Mutant of ModelCompletes: the run stays registered until it is finished.
ModelCompletesRegistered(c) ==
  /\ pc[c] \in InTurn /\ pc' = [pc EXCEPT ![c] = "finishing"]
  /\ Leave(c)
  /\ UNCHANGED <<linkVars, sentOn, aborted, guardVars, horizon, owner, active, events, answers,
                 clock>>

\* An abort asks the model to stop, if it is heard at all; the model may have
\* finished all the same.
ModelCompletes(c) ==
  /\ pc[c] \in InTurn /\ pc' = [pc EXCEPT ![c] = "finishing"]
  /\ Leave(c)
  /\ active' = Forgetting(c)
  /\ UNCHANGED <<linkVars, sentOn, aborted, guardVars, horizon, owner, events, answers, clock>>

\* The catch block.  Without a connection the key is given back and nothing is
\* said; with one, the run ends in an event and a terminal response.
EndInError(c, event) ==
  /\ pc' = [pc EXCEPT ![c] = "done"]
  /\ active' = Forgetting(c)
  /\ IF IsOpen(c)
     THEN Publish(c, event) /\ Settle(c, "failed") /\ Answer(c, "error")
     ELSE Release(c) /\ UNCHANGED <<events, answers>>
  /\ UNCHANGED <<linkVars, sentOn, aborted, horizon, owner>>

AttachFails(c) == pc[c] = "attaching" /\ EndInError(c, "error") /\ UNCHANGED lineVars

\* The API client reports its own timeout as an abort.
ModelFails(c) ==
  /\ pc[c] \in InTurn
  /\ \E e \in {"aborted", "error"} : EndInError(c, e)
  /\ Leave(c)

\* Artifacts have been uploaded, or not: the final event, then the verdict.
Finish(c) ==
  /\ Go(c, "finishing", "done")
  /\ Publish(c, "final")
  /\ Settle(c, "completed")
  /\ Answer(c, "ok")
  /\ UNCHANGED <<linkVars, sentOn, aborted, horizon, owner, lineVars, active>>

\* Mutant of Reuse: whatever is not a release is a success.
ReuseMeansSuccess(c) ==
  /\ Go(c, "reusing", "done")
  /\ outcome[owner[c]] \in Verdicts \cup {"released"}
  /\ IF outcome[owner[c]] = "released" THEN UNCHANGED answers ELSE Answer(c, "ok")
  /\ UNCHANGED <<linkVars, sentOn, aborted, guardVars, horizon, owner, lineVars, active, events,
                 clock>>

\* A repeated command learns the verdict; of a release it learns nothing.
Reuse(c) ==
  /\ Go(c, "reusing", "done")
  /\ outcome[owner[c]] \in Verdicts \cup {"released"}
  /\ CASE outcome[owner[c]] = "completed" -> Answer(c, "ok")
       [] outcome[owner[c]] = "failed" -> Answer(c, "error")
       [] OTHER -> UNCHANGED answers
  /\ UNCHANGED <<linkVars, sentOn, aborted, guardVars, horizon, owner, lineVars, active, events,
                 clock>>

---------------------------------------------------------------------------
(* Around the run                                                          *)

\* chat.abort finds a registered run: the event goes out at once.
ChatAbort(c) ==
  /\ socket = "open" /\ c \in active \ aborted
  /\ aborted' = aborted \cup {c}
  /\ Publish(c, "aborted")
  /\ UNCHANGED <<linkVars, pc, sentOn, guardVars, horizon, owner, lineVars, active, answers,
                 clock>>

Retain ==
  /\ horizon' \in (horizon + 1)..clock.settled
  /\ UNCHANGED <<linkVars, pc, sentOn, aborted, guardVars, owner, lineVars, active, events,
                 answers, clock>>

\* readyState leaves OPEN before the close handler runs.
Lose ==
  /\ socket = "open" /\ socket' = "closing"
  /\ UNCHANGED <<connection, crashes, pc, sentOn, aborted, guardVars, horizon, owner, lineVars,
                 active, events, answers, clock>>

\* Mutant of Close: the runs are forgotten but not asked to stop.
CloseForgets ==
  /\ socket = "closing" /\ socket' = "closed"
  /\ active' = {}
  /\ UNCHANGED <<connection, crashes, pc, sentOn, aborted, guardVars, horizon, owner, lineVars,
                 events, answers, clock>>

Close ==
  /\ socket = "closing" /\ socket' = "closed"
  /\ aborted' = aborted \cup active /\ active' = {}
  /\ UNCHANGED <<connection, crashes, pc, sentOn, guardVars, horizon, owner, lineVars, events,
                 answers, clock>>

Reconnect ==
  /\ socket = "closed" /\ connection < MaxConnections
  /\ connection' = connection + 1 /\ socket' = "open"
  /\ UNCHANGED <<crashes, pc, sentOn, aborted, guardVars, horizon, owner, lineVars, active,
                 events, answers, clock>>

\* Guard, queue, registry and handlers are memory.
Crash ==
  /\ crashes < MaxCrashes /\ crashes' = crashes + 1
  /\ socket' = "closed" /\ active' = {}
  /\ pc' = [c \in Command |-> IF pc[c] = "new" THEN "new" ELSE "done"]
  /\ entries' = [k \in Key |-> None] /\ tail' = [s \in Session |-> None]
  /\ UNCHANGED <<connection, sentOn, aborted, outcome, settledAt, horizon, owner, before, ticket,
                 events, answers, clock>>

---------------------------------------------------------------------------
Handle(c) ==
  \/ Transcribed(c) \/ TranscriptFails(c)
  \/ Attach(c) \/ AttachFails(c)
  \/ Start(c) \/ ModelCompletes(c) \/ ModelFails(c)
  \/ Finish(c) \/ Reuse(c)

Next ==
  \/ \E c \in Command : Deliver(c) \/ Handle(c) \/ Drain(c) \/ ChatAbort(c)
  \/ Retain \/ Lose \/ Close \/ Reconnect \/ Crash

Spec == Init /\ [][Next]_vars

\* Every await of a handler ends: fetches, the transcript and the model have
\* timeouts, and promises run their continuations.
Fairness == \A c \in Command : WF_vars(Handle(c))

FairSpec == Spec /\ Fairness

---------------------------------------------------------------------------
(* Properties                                                              *)

TypeOK ==
  /\ connection \in Nat /\ socket \in {"open", "closing", "closed"} /\ crashes \in Nat
  /\ pc \in [Command -> {"new", "transcribing", "reusing", "done"} \cup Live]
  /\ sentOn \in [Command -> Nat]
  /\ aborted \subseteq Command /\ active \subseteq Command
  /\ entries \in [Key -> Command \cup {None}]
  /\ outcome \in [Command -> {"none", "pending", "released"} \cup Verdicts]
  /\ settledAt \in [Command -> Nat] /\ horizon \in Nat
  /\ owner \in [Command -> Command \cup {None}]
  /\ tail \in [Session -> Command \cup {None}]
  /\ before \in [Command -> Command \cup {None}]
  /\ events \in [Command -> SUBSET {"aborted", "error", "final"}]
  /\ answers \in [Command -> SUBSET {"accepted", "rejected", "ok", "error"}]
  /\ clock \in [{"entered", "settled"} -> Nat] /\ ticket \in [Command -> Nat]

\* Whoever runs the model for a key holds it, whatever the guard's map says.
Holders(k) == {c \in Command : KeyOf[c] = k /\ (pc[c] \in Live \/ entries[k] = c)}
HolderOf == [k \in Key |-> IF Holders(k) = {} THEN None ELSE CHOOSE c \in Holders(k) : TRUE]

Keyed == {c \in Command : KeyOf[c] # None}
VerdictOf ==
  [c \in Keyed |->
     CASE pc[c] \in Live -> "running"
       [] outcome[c] \in Verdicts -> "given"
       [] outcome[c] = "none" -> "none"
       [] OTHER -> "withdrawn"]

RunOnce == INSTANCE RunOncePerKey WITH Command <- Keyed, holder <- HolderOf, verdict <- VerdictOf

\* The guard, the handler and the catch block together make a message that is
\* sent again and again, over any number of connections, have one run at a
\* time, and none beside a verdict that is remembered.
ImplementsRunOnce == RunOnce!RSpec

\* A session's runs take their turns in the order in which they got in line,
\* each when everyone before it has left: its prompts, and the rewinding of
\* its history after an abort, are never mixed with those of another.
TurnsInOrder ==
  \A c, d \in Command :
    SessionOf[c] = SessionOf[d] /\ ticket[c] > 0 /\ ticket[c] < ticket[d]
      /\ pc[d] \in InTurn \cup LeftLine
    => pc[c] \in LeftLine

\* What a command is told in the end, its own run's verdict or another's, is
\* the verdict of a run of the same message.
SameMessage(c, d) ==
  \/ c = d
  \/ KeyOf[c] # None /\ KeyOf[c] = KeyOf[d] /\ ContentOf[c] = ContentOf[d]
AnswersAreTrue ==
  \A c \in Command :
    /\ "ok" \in answers[c]
       => \E d \in Command : SameMessage(c, d) /\ outcome[d] = "completed"
    /\ "error" \in answers[c]
       => \E d \in Command : SameMessage(c, d) /\ outcome[d] = "failed"

\* Where an accepted command is left without a verdict, its key is free: the
\* next attempt runs the model rather than waiting for a run that is gone.
SilenceLeavesKeyFree ==
  \A c \in Command :
    pc[c] = "done" /\ answers[c] = {"accepted"} /\ KeyOf[c] # None
    => entries[KeyOf[c]] \notin {c, owner[c]} \ {None}

\* A chat run whose connection is gone has been told to stop, also while it
\* still waits for attachments or for its turn.  Two kinds of run never are: a
\* slash command, and the chat run it leaves behind, are not given the signal;
\* a voice command accepted after its connection closed has nobody to fire it.
AbandonedRunsAreAborted ==
  \A c \in Command \ (Voice \cup Slash) :
    pc[c] \in Live \ {"finishing"} /\ ~OnThisConnection(c) => c \in ToldToStop

\* A run that was reported finished or failed is not reported aborted later.
NoAbortAfterEnd ==
  [][\A c \in Command :
       "aborted" \in events'[c] \ events[c]
       => pc[c] \in Live \ {"finishing"} /\ events[c] = {}]_vars

\* Every run gets its turn and ends: nothing that holds a turn waits for one.
EveryRunEnds == \A c \in Command : pc[c] \in Live ~> pc[c] = "done"

\* A repeated command does not wait for ever for the run it shares.
RepeatsAreReleased == \A c \in Command : pc[c] = "reusing" ~> pc[c] = "done"

\* What TurnsInOrder rests on: tickets are handed out once, the last in line is
\* known while anybody is in line, and each waits for the one just before it.
LineInv ==
  /\ \A c, d \in Command :
       ticket[c] <= clock.entered /\ (c # d /\ ticket[c] = ticket[d] => ticket[c] = 0)
  /\ \A c \in Command :
       /\ pc[c] \in {"queued", "finishing"} \cup InTurn => ticket[c] > 0
       /\ pc[c] \in {"new", "transcribing", "reusing", "attaching"} => ticket[c] = 0
  /\ \A s \in Session : tail[s] # None => SessionOf[tail[s]] = s /\ ticket[tail[s]] > 0
  /\ \A c \in Command : ticket[c] > 0 =>
       IF tail[SessionOf[c]] = None
       THEN pc[c] \in LeftLine ELSE ticket[c] <= ticket[tail[SessionOf[c]]]
  /\ \A c \in Command : before[c] # None =>
       SessionOf[before[c]] = SessionOf[c] /\ ticket[before[c]] \in 1..(ticket[c] - 1)
  /\ \A c, d \in Command :
       SessionOf[c] = SessionOf[d] /\ ticket[d] \in 1..(ticket[c] - 1)
       => IF before[c] = None
          THEN pc[d] \in LeftLine ELSE ticket[d] <= ticket[before[c]]
  /\ TurnsInOrder

\* What ImplementsRunOnce rests on: the guard's map names exactly the runs that
\* are under way and the verdicts that are remembered.
GuardInv ==
  /\ \A k \in Key : entries[k] # None =>
       /\ KeyOf[entries[k]] = k
       /\ outcome[entries[k]] \in {"pending"} \cup Verdicts
       /\ outcome[entries[k]] = "pending" => pc[entries[k]] \in Live
  /\ \A c \in Command :
       /\ pc[c] \in Live =>
            outcome[c] = "pending" /\ (KeyOf[c] # None => entries[KeyOf[c]] = c)
       /\ pc[c] \in {"new", "transcribing", "reusing"} => outcome[c] = "none"

\* What repeated commands rely on: the run they share is of their message, and
\* it was begun.
RepeatInv ==
  /\ \A c \in Command :
       /\ pc[c] = "reusing" => owner[c] # None /\ SameMessage(c, owner[c])
       /\ owner[c] # None =>
            pc[c] \in {"reusing", "done"} /\ outcome[owner[c]] # "none"
       /\ outcome[c] \in Verdicts => answers[c] # {"accepted"}
  /\ AnswersAreTrue
  /\ SilenceLeavesKeyFree

\* The inductive invariant.
RunsInv == TypeOK /\ LineInv /\ GuardInv /\ RepeatInv

\* Where a run can still be stopped.
Stoppable == Live \ {"finishing"}

\* Their controllers have fired, whether anybody listens or not.
AbandonedAreFired ==
  \A c \in Command \ Voice : pc[c] \in Stoppable /\ ~OnThisConnection(c) => c \in aborted

\* What AbandonedRunsAreAborted and NoAbortAfterEnd rest on: the registry of a
\* connection holds exactly the runs that arrived on it and can be stopped, and
\* of those only an abort has been reported.
RegistryInv ==
  /\ connection > 0
  /\ \A c \in Command :
       /\ sentOn[c] <= connection /\ (pc[c] = "new" => sentOn[c] = 0)
       /\ pc[c] = "transcribing" => c \in Voice
       /\ c \in active <=> pc[c] \in Stoppable /\ OnThisConnection(c)
       /\ pc[c] # "done" =>
            events[c] \subseteq {"aborted"} /\ (events[c] # {} => c \in aborted)
  /\ AbandonedAreFired
=============================================================================
