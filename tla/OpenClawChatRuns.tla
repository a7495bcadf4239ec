--------------------------- MODULE OpenClawChatRuns ---------------------------
(***************************************************************************)
(* Chat runs of the OpenClaw side: the chat.send commands of the phone, the*)
(* Gateway client that sends them (src/src/openclaw/gateway-client.ts), the*)
(* registry that maps the Gateway's run ids to the phone's                 *)
(* (src/src/openclaw/relay/chat-run-identity.ts) and the handler of chat   *)
(* events (src/src/openclaw/relay-manager.ts).                             *)
(*                                                                         *)
(* The Gateway is outside: it starts a run for a request it takes, answers *)
(* the request and sends the run's events, in the order of one socket, to  *)
(* those who subscribed to the session.  Several frames may be read before *)
(* the promise of an answered request continues, hence the "answered"      *)
(* phase; everything else waits for those continuations.                   *)
(*                                                                         *)
(* A text is the number of deltas in it.                                   *)
(***************************************************************************)
EXTENDS Naturals, Sequences

CONSTANTS
  None,
  Command,        \* chat.send commands
  Run,            \* run ids the Gateway gives
  KeyOf,          \* the idempotency key of a command, the run id the phone knows
  SessionOf,
  EndsOf,         \* how the run of a command may end: an assistant's "final" text or
                  \* "bare" final or "error", an "end" or "fail" without a role
  MaxIdentities,  \* OPENCLAW_CHAT_RUN_IDENTITY_MAX_ENTRIES
  DeltasOf,       \* bound: deltas of a command's run
  MaxDrops        \* bound: Gateway and Relay connections lost

Key == {KeyOf[c] : c \in Command}
Session == {SessionOf[c] : c \in Command}
Terminal == {"final", "bare", "end", "error", "fail"}
LiveRun == [cmd : Command, former : SUBSET Command, mixed : BOOLEAN,
            sent : Nat, over : BOOLEAN, answered : BOOLEAN]
ASSUME EndsAreTerminal == \A c \in Command : EndsOf[c] \subseteq Terminal
ASSUME SomeIdentities == MaxIdentities \in Nat \ {0}
ASSUME NoneIsNothing == None \notin LiveRun

VARIABLES
  phase,       \* where each command is
  wire,        \* frames the Gateway sent and the client did not read
  buffer,      \* bufferedEvents
  runs,        \* the registry's two maps, the connection's contexts and, as a
               \* history, the runs the bound pushed out of the registry
  ops,         \* what was handed to the coalescer and not sent yet
  up,          \* the Gateway connection is open
  subscribed,  \* subscribedSessionMessageKeys
  listening,   \* the sessions the Gateway sends this connection events of
  live,        \* the Gateway's run of each id and, as a history, the commands whose runs
               \* had the id before, and whether something of theirs was under way then
  drops,
  published    \* history: what went to the Relay outbox

gateway == <<up, subscribed, listening, drops>>
vars == <<phase, wire, buffer, runs, ops, gateway, live, published>>

Init ==
  /\ phase = [c \in Command |-> "new"]
  /\ wire = <<>> /\ buffer = <<>> /\ ops = [k \in Key \cup Run |-> <<>>]
  /\ published = [c \in Command |-> <<>>]
  /\ runs = [ids |-> <<>>, providers |-> [k \in Key \cup Run |-> None], contexts |-> <<>>,
             out |-> {}]
  /\ up = TRUE /\ subscribed = {} /\ listening = {} /\ drops = 0
  /\ live = [r \in Run |-> None]

----------------------------------------------------------------------------
(* The registry: identities from the one used longest ago to the one used  *)
(* last, and the run of each key the phone may name.                       *)

Knows(s, r) == \E i \in DOMAIN s : s[i].run = r
At(s, r) == CHOOSE i \in DOMAIN s : s[i].run = r
Find(s, r) == s[At(s, r)]   \* of a run it knows
Without(s, r) ==
  IF Knows(s, r) THEN [i \in 1..(Len(s) - 1) |-> s[IF i < At(s, r) THEN i ELSE i + 1]] ELSE s

\* What is deleted from a Map and set again comes last.
Put(s, x) == Append(Without(s, x.run), x)
Touch(s, r) == IF Knows(s, r) THEN Put(s, Find(s, r)) ELSE s

RemoveMapping(providers, id) ==
  IF providers[id.key] = id.run THEN [providers EXCEPT ![id.key] = None] ELSE providers

\* Mutant of Register: a run id that is given again begins no new generation.
RegisterOnce(st, r, k) ==
  LET id == IF Knows(st.ids, r) THEN [Find(st.ids, r) EXCEPT !.key = k]
            ELSE [run |-> r, key |-> k, terminal |-> FALSE, text |-> 0]
      ids == Put(st.ids, id)
  IN [st EXCEPT !.ids = IF Len(ids) > MaxIdentities THEN Tail(ids) ELSE ids,
                !.providers[k] = r]

Register(st, r, k) ==
  LET ids == Put(st.ids, [run |-> r, key |-> k, terminal |-> FALSE, text |-> 0])
      known == IF Knows(st.ids, r) THEN RemoveMapping(st.providers, Find(st.ids, r))
               ELSE st.providers
      providers == [known EXCEPT ![k] = r]
  IN IF Len(ids) > MaxIdentities
     THEN [st EXCEPT !.ids = Tail(ids), !.out = @ \cup {Head(ids).run},
                      !.providers = RemoveMapping(providers, Head(ids))]
     ELSE [st EXCEPT !.ids = ids, !.providers = providers]

\* setChatRunContext: a Map keeps the place of a key that is set again.
SetContext(st, r, k) ==
  LET c == [run |-> r, key |-> k]
      contexts == IF Knows(st.contexts, r)
                  THEN [i \in DOMAIN st.contexts |-> IF st.contexts[i].run = r THEN c
                                                     ELSE st.contexts[i]]
                  ELSE Append(st.contexts, c)
  IN [st EXCEPT !.contexts = IF Len(contexts) > MaxIdentities THEN Tail(contexts) ELSE contexts]

\* The context of an event: the connection's, else the process's registry.
HasContext(st, r) == Knows(st.contexts, r) \/ Knows(st.ids, r)
KeyFor(st, r) ==
  IF Knows(st.contexts, r) THEN Find(st.contexts, r).key
  ELSE IF Knows(st.ids, r) THEN Find(st.ids, r).key ELSE r

\* An assistant event of an unknown run makes its own identity.
EnsureContext(st, e) ==
  LET r == e.run IN
  IF Knows(st.contexts, r) THEN st
  ELSE IF Knows(st.ids, r) THEN [st EXCEPT !.ids = Touch(@, r)]
  ELSE IF e.what \in {"end", "fail"} THEN st
  ELSE SetContext(Register(st, r, r), r, r)

\* What is said of a run the registry does not know is lost.
Update(st, r, x) == [st EXCEPT !.ids = IF Knows(@, r) THEN Put(@, x) ELSE @]
SetText(st, r, n) == Update(st, r, [Find(st.ids, r) EXCEPT !.text = n])
MarkTerminal(st, r) == Update(st, r, [Find(st.ids, r) EXCEPT !.terminal = TRUE])
TextOf(st, r) == IF Knows(st.ids, r) THEN Find(st.ids, r).text ELSE 0
IsTerminal(st, r) == Knows(st.ids, r) /\ Find(st.ids, r).terminal

\* What the coalescer was asked to close this key for and has not sent yet.
Closing(queue, k) == \E i \in DOMAIN queue[k] : queue[k][i].what \in {"error", "fail", "end"}
Queued(queue, k, e, text) ==
  [queue EXCEPT ![k] = Append(@, [key |-> k, run |-> e.run, cmd |-> e.cmd, what |-> e.what,
                                  text |-> text])]

----------------------------------------------------------------------------
(* One chat event.  s is the registry and the queue.                      *)

\* Mutant of HandleDelta: late deltas of an ended run are let through.
HandleDeltaAlways(s, e, k) ==
  LET text == TextOf(s.st, e.run) + 1
  IN IF Closing(s.ops, k) THEN s
     ELSE [st |-> SetText(s.st, e.run, text), ops |-> Queued(s.ops, k, e, text)]

HandleDelta(s, e, k) ==
  LET text == TextOf(s.st, e.run) + 1
  IN IF IsTerminal(s.st, e.run) THEN [s EXCEPT !.st.ids = Touch(@, e.run)]
     ELSE [st |-> SetText(s.st, e.run, text),
           ops |-> IF Closing(s.ops, k) THEN s.ops ELSE Queued(s.ops, k, e, text)]

HandleTerminal(s, e, k) ==
  LET marked == MarkTerminal(s.st, e.run)
      ended == IF e.what \in {"end", "error", "fail"}
               THEN [marked EXCEPT !.contexts = Without(@, e.run)] ELSE marked
  IN IF HasContext(s.st, e.run)
     THEN [st |-> ended, ops |-> Queued(s.ops, k, e, TextOf(s.st, e.run))]
     ELSE [st |-> marked, ops |-> s.ops]

Handle(s, e) ==
  LET st == EnsureContext(s.st, e)
      now == [st |-> st, ops |-> s.ops]
  IN IF e.what = "delta" THEN HandleDelta(now, e, KeyFor(st, e.run))
     ELSE HandleTerminal(now, e, KeyFor(st, e.run))

\* Events are handled one after the other.
HandleEach(s, events) ==
  LET after[i \in 0..Len(events)] ==
        IF i = 0 THEN s ELSE Handle(after[i - 1], events[i])
  IN  after[Len(events)]

HandleAll(st, events) ==
  LET s == HandleEach([st |-> st, ops |-> ops], events) IN
  /\ runs' = s.st /\ ops' = s.ops

Quiet == \A c \in Command : phase[c] # "answered"
Hooks(p) == {c \in Command : p[c] \in {"requested", "answered"}}   \* responseHookRequests

\* The finally of request: the last one out hands on what was held back.
\* Mutant of Release: a failed request forgets to flush.
ReleaseOnlyAnswers(st) ==
  IF Hooks(phase') = {} /\ \E c \in Command : phase[c] = "answered"
  THEN HandleAll(st, buffer) /\ buffer' = <<>>
  ELSE HandleAll(st, <<>>) /\ UNCHANGED buffer

Release(st) ==
  IF Hooks(phase') = {} THEN HandleAll(st, buffer) /\ buffer' = <<>>
  ELSE HandleAll(st, <<>>) /\ UNCHANGED buffer

----------------------------------------------------------------------------
(* The command: idempotency, subscription, active run record, request.     *)

Owner(c) == \E d \in Command \ {c} : KeyOf[d] = KeyOf[c] /\ phase[d] \notin {"new", "joined"}

Issue(c) ==
  /\ Quiet /\ phase[c] = "new"
  /\ phase' = [phase EXCEPT ![c] = IF Owner(c) THEN "joined" ELSE "subscribing"]
  /\ UNCHANGED <<wire, buffer, runs, ops, gateway, live, published>>

\* A repeat gets the verdict of the first command of its key.
Join(c) ==
  /\ Quiet /\ phase[c] = "joined"
  /\ \E d \in Command \ {c} : /\ KeyOf[d] = KeyOf[c] /\ phase[d] \in {"done", "failed"}
                              /\ phase' = [phase EXCEPT ![c] = phase[d]]
  /\ UNCHANGED <<wire, buffer, runs, ops, gateway, live, published>>

Subscribe(c) ==
  /\ Quiet /\ phase[c] = "subscribing" /\ up
  /\ subscribed' = subscribed \cup {SessionOf[c]}
  /\ listening' = IF SessionOf[c] \in subscribed THEN listening ELSE listening \cup {SessionOf[c]}
  /\ phase' = [phase EXCEPT ![c] = "recording"]
  /\ UNCHANGED <<wire, buffer, runs, ops, up, drops, live, published>>

Fails(c) ==
  /\ Quiet /\ phase[c] \in {"subscribing", "recording"} /\ ~up
  /\ phase' = [phase EXCEPT ![c] = "failed"]
  /\ UNCHANGED <<wire, buffer, runs, ops, gateway, live, published>>

\* The active run is on disk and the request goes out.
Request(c) ==
  /\ Quiet /\ phase[c] = "recording" /\ up
  /\ phase' = [phase EXCEPT ![c] = "requested"]
  /\ UNCHANGED <<wire, buffer, runs, ops, gateway, live, published>>

Started(c) == \E r \in Run : live[r] # None /\ live[r].cmd = c

\* Something said of a run is on the socket, held back, or waits to be sent.
UnderWay(r) ==
  \/ \E i \in DOMAIN wire : wire[i].run = r
  \/ \E i \in DOMAIN buffer : buffer[i].run = r
  \/ \E k \in Key \cup Run : \E i \in DOMAIN ops[k] : ops[k][i].run = r

\* The Gateway may give the id of a run that is over again: the command's answer
\* begins a new generation of it.
Accept(c) ==
  /\ up /\ phase[c] = "requested" /\ ~Started(c)
  /\ \E r \in Run :
       /\ live[r] # None => live[r].over /\ phase[live[r].cmd] \in {"done", "failed"}
       /\ live' = [live EXCEPT ![r] =
            [cmd |-> c, sent |-> 0, over |-> FALSE, answered |-> FALSE,
             former |-> IF @ = None THEN {} ELSE @.former \cup {@.cmd},
             mixed |-> @ # None /\ (@.mixed \/ UnderWay(r))]]
  /\ UNCHANGED <<phase, wire, buffer, runs, ops, gateway, published>>

Respond(r) ==
  /\ up /\ live[r] # None /\ ~live[r].answered /\ phase[live[r].cmd] = "requested"
  /\ live' = [live EXCEPT ![r].answered = TRUE]
  /\ wire' = Append(wire, [what |-> "response", run |-> r, cmd |-> live[r].cmd])
  /\ UNCHANGED <<phase, buffer, runs, ops, gateway, published>>

\* The Gateway's run goes on, whoever listens; a delta may be late, after the end of its run.
Emit(r, what) ==
  /\ live[r] # None
  /\ IF what = "delta" THEN live[r].sent < DeltasOf[live[r].cmd]
     ELSE ~live[r].over /\ what \in EndsOf[live[r].cmd]
  /\ live' = [live EXCEPT ![r].sent = IF what = "delta" THEN @ + 1 ELSE @,
                          ![r].over = @ \/ what # "delta"]
  /\ wire' = IF up /\ SessionOf[live[r].cmd] \in listening
             THEN Append(wire, [what |-> what, run |-> r, cmd |-> live[r].cmd]) ELSE wire
  /\ UNCHANGED <<phase, buffer, runs, ops, gateway, published>>

ReadResponse ==
  /\ wire # <<>> /\ Head(wire).what = "response" /\ wire' = Tail(wire)
  /\ phase' = [phase EXCEPT ![Head(wire).cmd] = IF @ = "requested" THEN "answered" ELSE @]
  /\ UNCHANGED <<buffer, runs, ops, gateway, live, published>>

\* Mutant of ReadEvent: events are not held back while an answer is due.
ReadEventAtOnce ==
  /\ wire # <<>> /\ Head(wire).what # "response" /\ wire' = Tail(wire)
  /\ HandleAll(runs, <<Head(wire)>>) /\ UNCHANGED buffer
  /\ UNCHANGED <<phase, gateway, live, published>>

ReadEvent ==
  /\ wire # <<>> /\ Head(wire).what # "response" /\ wire' = Tail(wire)
  /\ IF Hooks(phase) # {} THEN buffer' = Append(buffer, Head(wire)) /\ UNCHANGED <<runs, ops>>
     ELSE HandleAll(runs, <<Head(wire)>>) /\ UNCHANGED buffer
  /\ UNCHANGED <<phase, gateway, live, published>>

\* The continuation of an answered request: onResponse registers, then the
\* events held back are handled.
Settle(c) ==
  /\ phase[c] = "answered" /\ phase' = [phase EXCEPT ![c] = "done"]
  /\ LET r == CHOOSE r \in Run : live[r] # None /\ live[r].cmd = c IN
     Release(SetContext(Register(runs, r, KeyOf[c]), r, KeyOf[c]))
  /\ UNCHANGED <<wire, gateway, live, published>>

\* The Gateway refuses the request or the client stops waiting.
RequestFails(c) ==
  /\ Quiet /\ phase[c] = "requested" /\ phase' = [phase EXCEPT ![c] = "failed"]
  /\ Release(runs)
  /\ UNCHANGED <<wire, gateway, live, published>>

\* An operation reaches its turn in the coalescer: per key, in order.
\* For a final without text the history decides, and may have no row yet.
Send(k) ==
  /\ Quiet /\ ops[k] # <<>> /\ ops' = [ops EXCEPT ![k] = Tail(@)]
  /\ LET o == Head(ops[k]) IN
       /\ \/ published' = [published EXCEPT ![o.cmd] = Append(@, o)]
          \/ o.what = "bare" /\ UNCHANGED published
       /\ runs' = IF o.what = "delta" THEN runs ELSE SetText(runs, o.run, 0)
  /\ UNCHANGED <<phase, wire, buffer, gateway, live>>

\* chat.abort names the phone's run; restoreOpenClawProviderRunIdForCommand
\* turns it into the Gateway's, which ends that run.
Abort(k) ==
  LET r == runs.providers[k] IN
  /\ Quiet /\ up /\ r # None /\ live[r] # None /\ ~live[r].over
  /\ live' = [live EXCEPT ![r].over = TRUE]
  /\ wire' = IF SessionOf[live[r].cmd] \in listening
             THEN Append(wire, [what |-> "error", run |-> r, cmd |-> live[r].cmd]) ELSE wire
  /\ UNCHANGED <<phase, buffer, runs, ops, gateway, published>>

----------------------------------------------------------------------------
(* Connections.                                                            *)

Drop ==
  /\ Quiet /\ up /\ drops < MaxDrops /\ drops' = drops + 1
  /\ up' = FALSE /\ listening' = {} /\ wire' = <<>>
  /\ phase' = [c \in Command |-> IF phase[c] = "requested" THEN "failed" ELSE phase[c]]

\* Mutant of GatewayDrops: the subscriptions are kept.
GatewayDropsKeeping ==
  /\ Drop /\ UNCHANGED subscribed
  /\ Release(runs) /\ UNCHANGED <<live, published>>

GatewayDrops ==
  /\ Drop /\ subscribed' = {}
  /\ Release(runs) /\ UNCHANGED <<live, published>>

\* A queue without the texts that wait in it.
WithoutTexts(q) ==
  LET kept[i \in 0..Len(q)] ==
        IF i = 0 THEN <<>>
        ELSE IF q[i].what = "delta" THEN kept[i - 1] ELSE Append(kept[i - 1], q[i])
  IN  kept[Len(q)]

TextsForgotten(queue) == [k \in Key \cup Run |-> WithoutTexts(queue[k])]

\* The Relay connection closes and takes its Gateway client along: the
\* coalescer forgets texts that wait, the next connection has no contexts.
RelayCloses ==
  /\ Drop /\ subscribed' = {}
  /\ LET s == HandleEach([st |-> runs, ops |-> TextsForgotten(ops)], buffer)
     IN runs' = [s.st EXCEPT !.contexts = <<>>] /\ ops' = TextsForgotten(s.ops)
  /\ buffer' = <<>> /\ UNCHANGED <<live, published>>

GatewayConnects ==
  /\ Quiet /\ ~up /\ up' = TRUE
  /\ UNCHANGED <<phase, wire, buffer, runs, ops, subscribed, listening, drops, live, published>>

\* refreshSessionDefaults, which subscribes the sessions of sessions.list one
\* after another.
Refresh(s) ==
  /\ Quiet /\ up /\ s \notin subscribed
  /\ subscribed' = subscribed \cup {s} /\ listening' = listening \cup {s}
  /\ UNCHANGED <<phase, wire, buffer, runs, ops, up, drops, live, published>>

Next ==
  \/ \E c \in Command : \/ Issue(c) \/ Join(c) \/ Subscribe(c) \/ Fails(c) \/ Request(c)
                        \/ Accept(c) \/ Settle(c) \/ RequestFails(c)
  \/ \E r \in Run : Respond(r) \/ \E what \in Terminal \cup {"delta"} : Emit(r, what)
  \/ ReadResponse \/ ReadEvent \/ \E k \in Key \cup Run : Send(k)
  \/ \E k \in Key : Abort(k)
  \/ GatewayDrops \/ RelayCloses \/ GatewayConnects \/ \E s \in Session : Refresh(s)

Spec == Init /\ [][Next]_vars

----------------------------------------------------------------------------
(* Properties.                                                             *)

\* A key the phone may name leads to a run the registry knows under that key,
\* whatever was registered anew or pushed out by the bound
\* (chat-run-identity.ts keeps two maps).
MapsAgree ==
  \A k \in Key \cup Run :
    LET r == runs.providers[k] IN r # None => Knows(runs.ids, r) /\ Find(runs.ids, r).key = k

\* What the phone gets of a run carries the key of the command that started
\* it.  Only a run whose request failed, or that the bound pushed out of the
\* registry, is shown under the Gateway's id, and only a run whose request
\* failed under the key of a former run of its id.  (What of the former run was
\* still under way when its id was given again is told from nothing.)
RightKey ==
  \A c \in Command : \A i \in DOMAIN published[c] :
    LET p == published[c][i] IN
      \/ p.key = KeyOf[c]
      \/ p.key = p.run /\ (phase[c] = "failed" \/ p.run \in runs.out)
      \/ phase[c] = "failed" /\ p.key \in {KeyOf[d] : d \in live[p.run].former}
      \/ live[p.run].mixed

\* chat-run-identity.ts:17-20: the answer to a command is the boundary between
\* the generations of a run id, so that no run inherits the end of another.
EndsAreOwn ==
  \A r \in Run : live[r] # None =>
    (phase[live[r].cmd] = "done" /\ ~live[r].over /\ ~live[r].mixed => ~IsTerminal(runs, r))

\* Runs stay apart, also those that one after the other have the same id: what
\* the phone sees of one is not shown as another's, and none is over because
\* another one is.
RunsStayApart == RightKey /\ EndsAreOwn

\* The text of a run only grows on its way out, and none follows the end of
\* the run (unless the bound pushed the run out of the registry).
TextOnlyGrows ==
  \A c \in Command : \A i, j \in DOMAIN published[c] :
    LET p == published[c][i]  q == published[c][j] IN
      i < j /\ p.key = q.key /\ q.what = "delta" /\ p.run \notin runs.out
        => (p.what = "delta" /\ p.text < q.text) \/ live[p.run].mixed

\* Events are held back only while an answer is due (gateway-client.ts).
NothingHeldBack == buffer # <<>> => Hooks(phase) # {}

\* The run a key of the phone leads to is the run of its command, so an
\* abort ends no other.
AbortsHit ==
  \A k \in Key : LET r == runs.providers[k] IN
    r # None => live[r] # None /\ KeyOf[live[r].cmd] = k

\* A key starts at most one run, however often its command is sent.
OneRunPerKey ==
  \A r, q \in Run :
    live[r] # None /\ live[q] # None /\ KeyOf[live[r].cmd] = KeyOf[live[q].cmd] => r = q

\* A session the manager believes subscribed is subscribed on the Gateway
\* connection of the moment, so a later command need not subscribe again.
SubscriptionsHold == up => subscribed \subseteq listening

\* relay-manager.ts:1317: "Subscribe before starting the run so its first
\* thinking/tool/text event cannot win the race with this request."
RunsStartSubscribed == \A c \in Command : phase[c] = "requested" => SessionOf[c] \in listening
=============================================================================
