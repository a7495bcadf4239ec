--------------------------- MODULE RelayConnection ---------------------------
(***************************************************************************)
(* The life of the agent's connection to the Relay: the loop that connects *)
(* again (src/src/core/relay/reconnect.ts), one connection of a manager    *)
(* (runRelayManager, runHermesRelayManager) and the monitor that notices a *)
(* half-open one (src/src/core/relay/relay-liveness.ts).                   *)
(*                                                                         *)
(* Time is discrete and no timer is late: Tick waits for those that are    *)
(* due.  The network may swallow every frame of a connection, in both      *)
(* directions, without closing it.                                         *)
(***************************************************************************)
EXTENDS Naturals, FiniteSetsExt

CONSTANTS
  Handshake,      \* RELAY_WS_HANDSHAKE_TIMEOUT_MS
  HelloTimeout,   \* RELAY_HELLO_NEGOTIATION_TIMEOUT_MS
  PingInterval,   \* RELAY_LIVENESS_PING_INTERVAL_MS
  Timeout,        \* RELAY_LIVENESS_TIMEOUT_MS
  CloseTimeout,   \* the WebSocket library's, for the answer to a close frame
  InitialDelay, MaxDelay,
  MaxTries        \* bound: attempts in a row without a hello

VARIABLES
  sock,      \* the socket: "none", "connecting", "open", "closing" or "closed"
  clock,     \* since it is in that state
  silent,    \* history: for how long the network has swallowed everything, 0 if it does not
  idle,      \* now - lastActivityAt
  ping,      \* until the monitor's interval fires
  hello,     \* relayHelloNegotiated
  code,      \* the close code: "stop" is 4000
  loop,      \* withReconnect: "connect", "attempt", "sleep" or "over"
  backoff,   \* attempt, delay, established and the time left to sleep
  aborted,   \* the time since opts.signal was aborted, or 0
  history    \* tries since the last hello, and the time since

vars == <<sock, clock, silent, idle, ping, hello, code, loop, backoff, aborted, history>>

Fresh == [established |-> FALSE, delay |-> InitialDelay, left |-> 0]

Init ==
  /\ sock = "none" /\ clock = 0 /\ silent = 0 /\ idle = 0 /\ ping = 0 /\ hello = FALSE
  /\ code = "retry" /\ loop = "connect" /\ backoff = Fresh /\ aborted = 0
  /\ history = [tries |-> 0, since |-> 0]

Become(s) == sock' = s /\ clock' = 0
Alive == sock \in {"open", "closing"}

----------------------------------------------------------------------------
(* withReconnect.                                                          *)

Connect ==
  /\ loop = "connect" /\ aborted = 0 /\ history.tries < MaxTries
  /\ loop' = "attempt" /\ Become("connecting")
  /\ silent' = 0 /\ idle' = 0 /\ ping' = 0 /\ hello' = FALSE /\ code' = "retry"
  /\ backoff' = [backoff EXCEPT !.established = FALSE]
  /\ history' = [tries |-> history.tries + 1, since |-> history.since]
  /\ UNCHANGED aborted

\* The outbox of the gateway cannot be had, or the socket cannot be made.
Unavailable ==
  /\ loop = "connect" /\ aborted = 0 /\ history.tries < MaxTries
  /\ loop' = "attempt" /\ Become("closed") /\ code' = "retry"
  /\ backoff' = [backoff EXCEPT !.established = FALSE]
  /\ history' = [history EXCEPT !.tries = @ + 1]
  /\ UNCHANGED <<silent, idle, ping, hello, aborted>>

\* shouldRetryRelayClose, then the backoff.

Retry ==
  /\ loop = "attempt" /\ sock = "closed" /\ Become("none")
  /\ IF aborted > 0 \/ code = "stop" THEN loop' = "over" /\ UNCHANGED backoff
     ELSE /\ loop' = "sleep"
          /\ LET delay == IF backoff.established THEN InitialDelay ELSE backoff.delay IN
             backoff' = [backoff EXCEPT !.left = delay, !.delay = Min({2 * delay, MaxDelay})]
  /\ UNCHANGED <<silent, idle, ping, hello, code, aborted, history>>

Awake ==
  /\ loop = "sleep" /\ backoff.left = 0 /\ loop' = "connect"
  /\ UNCHANGED <<sock, clock, silent, idle, ping, hello, code, backoff, aborted, history>>

\* The signal: a socket that is open is closed, one that connects is given
\* up, a sleep ends at once.
Abort ==
  /\ aborted = 0 /\ loop # "over" /\ aborted' = 1
  /\ CASE sock = "connecting" -> Become("closed")
       [] sock = "open" -> Become("closing")
       [] OTHER -> UNCHANGED <<sock, clock>>
  /\ loop' = IF loop \in {"sleep", "connect"} THEN "over" ELSE loop
  /\ UNCHANGED <<silent, idle, ping, hello, code, backoff, history>>

----------------------------------------------------------------------------
(* The connection.                                                         *)

HandshakeFails ==
  /\ sock = "connecting" /\ Become("closed")
  /\ UNCHANGED <<silent, idle, ping, hello, code, loop, backoff, aborted, history>>

Open ==
  /\ sock = "connecting" /\ silent = 0 /\ Become("open")
  /\ idle' = 0 /\ ping' = PingInterval
  /\ UNCHANGED <<silent, hello, code, loop, backoff, aborted, history>>

\* Any frame, a pong among them.
Receive ==
  /\ Alive /\ silent = 0 /\ idle > 0 /\ idle' = 0
  /\ UNCHANGED <<sock, clock, silent, ping, hello, code, loop, backoff, aborted, history>>

\* A closing socket still reads, so its hello may come late.
Hello ==
  /\ Alive /\ ~hello /\ silent = 0
  /\ hello' = TRUE /\ idle' = 0 /\ backoff' = [backoff EXCEPT !.established = TRUE]
  /\ history' = [tries |-> 0, since |-> 0]
  /\ UNCHANGED <<sock, clock, silent, ping, code, loop, aborted>>

\* An invalid hello, backpressure, an outbox that is full or no ACK.
GiveUp ==
  /\ sock = "open" /\ Become("closing")
  /\ UNCHANGED <<silent, idle, ping, hello, code, loop, backoff, aborted, history>>

NoHello ==
  /\ sock = "open" /\ ~hello /\ clock = HelloTimeout /\ Become("closing")
  /\ UNCHANGED <<silent, idle, ping, hello, code, loop, backoff, aborted, history>>

\* The monitor's interval.  Mutant of Monitor: a ping counts as activity.
MonitorCountingPings ==
  /\ Alive /\ ping = 0 /\ ping' = PingInterval
  /\ IF idle > Timeout THEN Become("closed") /\ UNCHANGED idle
     ELSE UNCHANGED <<sock, clock>> /\ idle' = IF sock = "open" THEN 0 ELSE idle
  /\ UNCHANGED <<silent, hello, code, loop, backoff, aborted, history>>

Monitor ==
  /\ Alive /\ ping = 0 /\ ping' = PingInterval
  /\ IF idle > Timeout THEN Become("closed") ELSE UNCHANGED <<sock, clock>>
  /\ UNCHANGED <<silent, idle, hello, code, loop, backoff, aborted, history>>

\* The Relay closes, or answers a close frame.
RelayCloses ==
  /\ Alive /\ silent = 0 /\ Become("closed")
  /\ code' \in {"retry", "stop"}
  /\ UNCHANGED <<silent, idle, ping, hello, loop, backoff, aborted, history>>

CloseTimesOut ==
  /\ sock = "closing" /\ clock = CloseTimeout /\ Become("closed")
  /\ UNCHANGED <<silent, idle, ping, hello, code, loop, backoff, aborted, history>>

\* The network loses the connection without a word.
FallSilent ==
  /\ sock \in {"connecting", "open", "closing"} /\ silent = 0 /\ silent' = 1
  /\ UNCHANGED <<sock, clock, idle, ping, hello, code, loop, backoff, aborted, history>>

----------------------------------------------------------------------------
Due ==
  \/ sock = "connecting" /\ clock >= Handshake
  \/ sock = "open" /\ ~hello /\ clock = HelloTimeout
  \/ Alive /\ ping = 0
  \/ sock = "closing" /\ clock = CloseTimeout
  \/ loop = "sleep" /\ backoff.left = 0
  \/ loop = "connect" \/ sock = "closed"

\* A Relay that is there answers pings, so an open connection that is not
\* silent never gets idle for long.
Answered == silent > 0 \/ idle < PingInterval \/ ~Alive

Longest == Timeout + PingInterval + 1
Tick ==
  /\ ~Due /\ loop # "over" /\ Answered
  /\ clock' = Min({clock + 1, CloseTimeout + HelloTimeout + Handshake})
  /\ silent' = IF silent = 0 THEN 0 ELSE Min({silent + 1, Longest + 2})
  /\ idle' = IF Alive THEN Min({idle + 1, Longest}) ELSE idle
  /\ ping' = IF Alive THEN ping - 1 ELSE ping
  /\ backoff' = IF loop = "sleep" THEN [backoff EXCEPT !.left = @ - 1] ELSE backoff
  /\ aborted' = IF aborted = 0 THEN 0 ELSE aborted + 1
  /\ history' = [history EXCEPT !.since = IF loop = "sleep" THEN @ + 1 ELSE @]
  /\ UNCHANGED <<sock, hello, code, loop>>

Next ==
  \/ Connect \/ Unavailable \/ Retry \/ Awake \/ Abort
  \/ HandshakeFails \/ Open \/ Receive \/ Hello \/ GiveUp \/ NoHello \/ Monitor
  \/ RelayCloses \/ CloseTimesOut \/ FallSilent \/ Tick

Spec == Init /\ [][Next]_vars

----------------------------------------------------------------------------
(* Properties.                                                             *)

\* A connection the network has lost is gone after the liveness timeout and
\* one interval of the monitor, whatever else is under way on it.
HalfOpenIsNoticed == Alive => silent <= Timeout + PingInterval + 1

\* The n-th delay in a row, and what the delays before the n-th attempt add up to.
NthDelay[n \in Nat] ==
  Min({IF n <= 1 THEN InitialDelay ELSE 2 * NthDelay[n - 1], MaxDelay})
Slept[n \in Nat] == IF n <= 1 THEN 0 ELSE Slept[n - 1] + NthDelay[n - 1]

\* Attempts that get no hello come ever more slowly: the n-th one in a row
\* comes after n - 1 delays, each twice as long up to MaxDelay, and the first
\* one after a hello is not made to wait for the delays of an old outage.
RelayIsNotHammered ==
  /\ history.tries > 0 /\ sock = "connecting" => history.since >= Slept[history.tries]
  /\ loop = "sleep" /\ backoff.established => backoff.left <= InitialDelay

\* Once asked to stop, the loop ends as soon as the socket is closed, which
\* takes no longer than the library waits for an answer.
StopsWhenAsked ==
  /\ aborted > 0 /\ loop # "over" => aborted <= CloseTimeout + 1
  /\ aborted > 0 => loop \notin {"connect", "sleep"}
=============================================================================
