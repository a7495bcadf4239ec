---------------------------- MODULE ContextUsage ----------------------------
(***************************************************************************)
(* How full the context of each OpenClaw session is, as the phone is told: *)
(* the publisher (src/src/openclaw/relay/openclaw-context-usage-           *)
(* publisher.ts), the refresh of a new Gateway connection                  *)
(* (relay-manager.ts: refreshSessionDefaults), and the names a session has *)
(* (src/src/openclaw/relay/session-context.ts).                            *)
(*                                                                         *)
(* A name is an agent and a rest, and a bare name has no agent.  A usage   *)
(* is the number of turns it counts.                                       *)
(***************************************************************************)
EXTENDS Integers, Sequences, FiniteSetsExt, SequencesExt

CONSTANTS
  None,
  Session,     \* the sessions, by the names the Gateway lists them under
  Dashboards,  \* those of them whose name says dashboard:
  Configs,     \* what config.get may say of names: [main, mainKey, agent]
  Files,       \* OpenClaw keeps sessions.json and transcripts; else it has a database
  Quick,       \* a refresh takes less than the shortest timer, reading files less than a request
  MaxWork,     \* bound: commands that start and turns that end
  MaxAsks,     \* bound: unanswered sessions.list requests
  MaxLosses    \* bound: connections lost

VARIABLES
  config,
  listed,    \* the order in which sessions.list and sessions.json name the sessions
  used,      \* the turns of each session
  link,      \* the Gateway connection is up
  defaults,  \* sessionDefaults
  refresh,   \* refreshSessionDefaults: [step, list, left, any]
  timers,    \* refreshTimers: [key, force, young: since before the refresh was through]
  asks,      \* requests to the Gateway, in their order, with the usages once it read them
  readers,   \* publishes that turned to the files
  prints,    \* fingerprints, by name
  phone,     \* what the Relay was told last of each session
  work, losses

vars == <<config, listed, used, link, defaults, refresh, timers, asks, readers, prints, phone,
          work, losses>>

-----------------------------------------------------------------------------
(* Names *)
Named(agent, rest) == [agent |-> agent, rest |-> rest]
Bare(rest) == Named("", rest)

\* DEFAULT_GATEWAY_SESSION_DEFAULTS
Fallback == [main |-> Named("main", "main"), mainKey |-> "main", agent |-> "main"]

\* extractGatewaySessionDefaults, of a snapshot that has a main session: a bare one whose
\* agent is not told is that of main
Extracted(c) ==
  LET main == IF c.agent = "" /\ c.main \in {Bare("main"), Bare(c.mainKey)}
                THEN Named("main", c.mainKey) ELSE c.main
  IN [main |-> main, mainKey |-> c.mainKey,
      agent |-> IF c.agent = "" /\ main.agent = "main" THEN "main" ELSE c.agent]

\* canonicalizeSessionKey
Canonical(k, d) ==
  IF \/ k \in {Bare("main"), Bare(d.mainKey), d.main}
     \/ d.agent # "" /\ k \in {Named(d.agent, "main"), Named(d.agent, d.mainKey)}
  THEN d.main ELSE k

\* sessionKeyCandidates
Candidates(k, d) ==
  LET c == Canonical(k, d)
  IN {c, IF c.agent # "" THEN Bare(c.rest)
         ELSE Named(IF d.agent # "" THEN d.agent ELSE "main", c.rest)}

\* contextUsageSnapshotFromSessionsList: the first session listed that shares a candidate
Found(k, d) == SelectInSeq(listed, LAMBDA s : Candidates(s, d) \cap Candidates(k, d) # {})

\* resolveAgentIdFromSessionKey
AgentOf(k, d) == IF k.agent # "" THEN k.agent ELSE IF d.agent # "" THEN d.agent ELSE "main"

\* readSessionStoreEntry: the name itself, or with the agent; for the main session also
\* others, down to the first one of the file
Entry(k, d) ==
  LET mine == SelectSeq(listed, LAMBDA s : s.agent = AgentOf(k, d))
      First(Fits(_)) == SelectInSeq(mine, Fits)
      own == First(LAMBDA s : s \in {k, Named(AgentOf(k, d), k.rest)})
      ofAgent == First(LAMBDA s : d.agent # "" /\ s = Named(d.agent, "main"))
      ofAny == First(LAMBDA s : s.rest = "main")
  IN IF mine = <<>> THEN None
     ELSE IF own # 0 THEN mine[own]
     ELSE IF k \notin {d.main, Bare(d.mainKey), Bare("main")} THEN None
     ELSE IF ofAgent # 0 THEN mine[ofAgent]
     ELSE IF ofAny # 0 THEN mine[ofAny] ELSE mine[1]

\* The names a session goes by: that of the list, and those a phone may use for it.
Aliases(s) ==
  {s} \cup IF s = Extracted(config).main THEN {Bare("main"), Bare(config.mainKey)}
           ELSE IF s.agent = Extracted(config).agent THEN {Bare(s.rest)} ELSE {}

\* The Relay, which is told the defaults (session_defaults), folds the names of a session.
Folded(k) ==
  LET d == Extracted(config)
      c == Canonical(k, d)
  IN Named(AgentOf(c, d), c.rest)

\* Every name that can come up.
Name == Session \cup {Bare(s.rest) : s \in Session} \cup {Fallback.main, Bare("main")}
          \cup {Extracted(c).main : c \in Configs} \cup {Bare(c.mainKey) : c \in Configs}

-----------------------------------------------------------------------------
Idle == [step |-> "idle", list |-> None, left |-> <<>>, any |-> FALSE]
Refreshing == [Idle EXCEPT !.step = "config"]

\* A Relay connection has a publisher and a Gateway client of its own.
Fresh ==
  /\ link' = TRUE /\ defaults' = Fallback /\ refresh' = Refreshing
  /\ timers' = {} /\ asks' = <<>> /\ readers' = {} /\ prints' = [k \in Name |-> None]

Init ==
  /\ config \in Configs /\ listed \in SetToSeqs(Session)
  /\ used = [s \in Session |-> 0] /\ phone = [s \in Session |-> None]
  /\ work = 0 /\ losses = 0
  /\ link = TRUE /\ defaults = Fallback /\ refresh = Refreshing
  /\ timers = {} /\ asks = <<>> /\ readers = {} /\ prints = [k \in Name |-> None]

\* scheduleRefresh: the last request for a name takes the place of the others.
Scheduled(k, force) ==
  LET key == Canonical(k, defaults)
  IN {t \in timers : t.key # key} \cup
       {[key |-> key, force |-> force, young |-> refresh.step # "idle"]}

\* The refresh is through, and the timers that wait were set before.
Grown == {[t EXCEPT !.young = FALSE] : t \in timers}

\* emit
Emit(k, usage, force) ==
  IF force \/ prints[k] # usage
  THEN prints' = [prints EXCEPT ![k] = usage] /\ phone' = [phone EXCEPT ![Folded(k)] = usage]
  ELSE UNCHANGED <<prints, phone>>

\* A turn ends: relay-manager.ts schedules a refresh when the Gateway's event arrives.
TurnEnds(s) ==
  /\ work < MaxWork /\ work' = work + 1
  /\ used' = [used EXCEPT ![s] = @ + 1]
  /\ IF link THEN \E k \in Aliases(s) : timers' = Scheduled(k, FALSE) ELSE UNCHANGED timers
  /\ UNCHANGED <<config, listed, link, defaults, refresh, asks, readers, prints, phone, losses>>

\* A chat.send or agent command was started.
CommandStarted(s) ==
  /\ work < MaxWork /\ work' = work + 1
  /\ link /\ \E k \in Aliases(s) : timers' = Scheduled(k, FALSE)
  /\ UNCHANGED <<config, listed, used, link, defaults, refresh, asks, readers, prints, phone,
                 losses>>

\* publish, when a timer ends: the names are those of this moment.
Publish(t) ==
  LET p == [key |-> Canonical(t.key, defaults), names |-> defaults, force |-> t.force,
            list |-> None]
  IN /\ timers' = timers \ {t} /\ Len(asks) < MaxAsks
     /\ Quick => ~t.young
     /\ IF link THEN asks' = Append(asks, p) /\ UNCHANGED readers
                ELSE readers' = readers \cup {p} /\ UNCHANGED asks
     /\ UNCHANGED <<config, listed, used, link, defaults, refresh, prints, phone, work, losses>>

\* The Gateway makes the list for the first request it did not look at.
GatewayReads ==
  /\ Quick => readers = {}
  /\ \E i \in DOMAIN asks :
      /\ asks[i].list = None /\ \A j \in 1..(i - 1) : asks[j].list # None
      /\ asks' = [asks EXCEPT ![i].list = used]
      /\ UNCHANGED <<config, listed, used, link, defaults, refresh, timers, readers, prints,
                     phone, work, losses>>

\* publish goes on with the list, or turns to the files when the session is not in it.
Answered ==
  /\ asks # <<>> /\ Head(asks).key # None /\ Head(asks).list # None
  /\ LET p == Head(asks)
         i == Found(p.key, p.names)
     IN IF i = 0 THEN readers' = readers \cup {p} /\ UNCHANGED <<prints, phone>>
        ELSE Emit(Canonical(p.key, p.names), p.list[listed[i]], p.force) /\ UNCHANGED readers
  /\ asks' = Tail(asks)
  /\ UNCHANGED <<config, listed, used, link, defaults, refresh, timers, work, losses>>

\* readUsageFromSessionLog: the usage of the transcript's last row, which takes precedence
\* over the one stored in sessions.json
Logged(s) == used[s]

\* readContextUsageSnapshot, told under the name that was asked for
FilesRead(p) ==
  /\ readers' = readers \ {p}
  /\ LET s == Entry(p.key, p.names)
     IN IF Files /\ s # None THEN Emit(p.key, Logged(s), p.force) ELSE UNCHANGED <<prints, phone>>
  /\ UNCHANGED <<config, listed, used, link, defaults, refresh, timers, asks, work, losses>>

-----------------------------------------------------------------------------
(* refreshSessionDefaults *)
Configured ==
  /\ refresh.step = "config" /\ link
  /\ defaults' = Extracted(config)
  /\ refresh' = [refresh EXCEPT !.step = "ask"]
  /\ UNCHANGED <<config, listed, used, link, timers, asks, readers, prints, phone, work,
                 losses>>

AskAll ==
  /\ refresh.step = "ask" /\ link /\ Len(asks) < MaxAsks
  /\ asks' = Append(asks, [key |-> None, names |-> defaults, force |-> TRUE, list |-> None])
  /\ refresh' = [refresh EXCEPT !.step = "asked"]
  /\ UNCHANGED <<config, listed, used, link, defaults, timers, readers, prints, phone, work,
                 losses>>

AllListed ==
  /\ asks # <<>> /\ Head(asks).key = None /\ Head(asks).list # None
  /\ refresh' = [step |-> "tell", list |-> Head(asks).list, left |-> listed, any |-> FALSE]
  /\ asks' = Tail(asks)
  /\ UNCHANGED <<config, listed, used, link, defaults, timers, readers, prints, phone, work,
                 losses>>

\* The next session, once its messages are subscribed to; a dashboard is passed over.
TellNext ==
  /\ refresh.step = "tell" /\ refresh.left # <<>> /\ link
  /\ LET s == Head(refresh.left)
     IN IF s \in Dashboards
          THEN /\ refresh' = [refresh EXCEPT !.left = Tail(@)]
               /\ UNCHANGED <<prints, phone>>
        ELSE /\ refresh' = [refresh EXCEPT !.left = Tail(@), !.any = TRUE]
             /\ Emit(Canonical(s, defaults), refresh.list[listed[Found(s, defaults)]], TRUE)
  /\ UNCHANGED <<config, listed, used, link, defaults, timers, asks, readers, work, losses>>

AllTold ==
  /\ refresh.step = "tell" /\ refresh.left = <<>>
  /\ refresh' = Idle
  /\ timers' = IF refresh.any THEN Grown
               ELSE {[t EXCEPT !.young = FALSE] : t \in Scheduled(defaults.main, TRUE)}
  /\ UNCHANGED <<config, listed, used, link, defaults, asks, readers, prints, phone, work, losses>>

-----------------------------------------------------------------------------
\* The Gateway connection is lost: every request fails, and with one of them the refresh.
GatewayLost ==
  /\ link /\ losses < MaxLosses /\ losses' = losses + 1
  /\ link' = FALSE /\ refresh' = Idle /\ asks' = <<>> /\ timers' = Grown
  /\ readers' = readers \cup {p \in ToSet(asks) : p.key # None}
  /\ UNCHANGED <<config, listed, used, defaults, prints, phone, work>>

\* onConnected
GatewayBack ==
  /\ ~link /\ link' = TRUE /\ refresh' = Refreshing
  /\ UNCHANGED <<config, listed, used, defaults, timers, asks, readers, prints, phone, work,
                 losses>>

\* The Relay connection closes (dispose), and the next one opens.
RelayLost ==
  /\ losses < MaxLosses /\ losses' = losses + 1 /\ Fresh
  /\ UNCHANGED <<config, listed, used, phone, work>>

Next ==
  \/ \E s \in Session : TurnEnds(s) \/ CommandStarted(s)
  \/ \E t \in timers : Publish(t)
  \/ \E p \in readers : FilesRead(p)
  \/ GatewayReads \/ Answered
  \/ Configured \/ AskAll \/ AllListed \/ TellNext \/ AllTold
  \/ GatewayLost \/ GatewayBack \/ RelayLost

Spec == Init /\ [][Next]_vars

-----------------------------------------------------------------------------
\* When nothing is under way the phone has the usage of every session, whatever names the
\* turns came under and whatever connections were lost; of a dashboard, unless a connection
\* was lost.
UsageSettles ==
  (link /\ refresh.step = "idle" /\ timers = {} /\ asks = <<>> /\ readers = {}) =>
    \A s \in Session : (used[s] > 0 /\ (s \in Dashboards => losses = 0)) =>
      phone[s] = used[s]
=============================================================================
