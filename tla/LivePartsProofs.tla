--------------------------- MODULE LivePartsProofs ---------------------------
(***************************************************************************)
(* Proofs about LiveParts.  The connection to Relay is kept as it has to   *)
(* be, for any timeouts and delays; the Relay learns of every change of    *)
(* Hermes' cron jobs, whatever the contents and however many connections   *)
(* are lost; passes that meet one attachment upload it once and whole; and *)
(* Hermes' turns keep to their sessions, and an abort to its turn.         *)
(***************************************************************************)
EXTENDS LiveParts, NaturalsInduction, WellFoundedInduction, TLAPS
-----------------------------------------------------------------------------
(* Numbers                                                                 *)

\* The smaller of two numbers.
LEMMA Lesser ==
  ASSUME NEW x \in Int, NEW y \in Int
  PROVE  Connection!Min({x, y}) = IF x <= y THEN x ELSE y
<1> DEFINE d == IF x <= y THEN x ELSE y
<1>1. d \in {x, y} /\ \A z \in {x, y} : d <= z
  OBVIOUS
<1>2. \A e \in {x, y} : (\A z \in {x, y} : e <= z) => e = d
  OBVIOUS
<1> HIDE DEF d
<1>3. Connection!Min({x, y}) = d
  BY <1>1, <1>2 DEF Connection!Min
<1>4. QED
  BY <1>3 DEF d

Precedes == {p \in Nat \X Nat : p[1] < p[2]}

\* There is no infinite descent in the natural numbers.
LEMMA PrecedesIsWellFounded == IsWellFoundedOn(Precedes, Nat)
<1>1. IsWellFoundedOn(OpToRel(<, Nat), Nat)
  BY NatLessThanWellFounded
<1>2. Precedes \subseteq OpToRel(<, Nat)
  BY DEF Precedes, OpToRel
<1>3. QED
  BY <1>1, <1>2, IsWellFoundedOnSubrelation

\* Induction over the natural numbers, for a set.
LEMMA InductionOnSets ==
  ASSUME NEW S, 0 \in S, \A n \in Nat : n \in S => n + 1 \in S
  PROVE  Nat \subseteq S
<1>1. SUFFICES ASSUME Nat \ S # {}
               PROVE  FALSE
  OBVIOUS
<1>2. PICK n \in Nat \ S : \A m \in Nat \ S : <<m, n>> \notin Precedes
  <2> DEFINE U == Nat \ S
  <2>1. U \subseteq Nat /\ U # {}
    BY <1>1
  <2> HIDE DEF U
  <2>2. \E n \in U : \A m \in U : <<m, n>> \notin Precedes
    BY <2>1, PrecedesIsWellFounded, WFMin, Zenon
  <2>3. QED
    BY <2>2 DEF U
<1>3. n - 1 \in S /\ n - 1 \in Nat
  <2>1. n # 0 /\ n - 1 \in Nat /\ n - 1 < n
    OBVIOUS
  <2>2. <<n - 1, n>> \in Precedes
    BY <2>1 DEF Precedes
  <2>3. QED
    BY <1>2, <2>1, <2>2
<1>4. QED
  BY <1>2, <1>3

\* p is the beginning, up to n, of the sequence that starts with base and goes on with F.
Begins(p, n, base, F) ==
  p[0] = base /\ \A i \in 1..n : p[i] = F[<<i - 1, p[i - 1]>>]

LEMMA BeginningsExist ==
  ASSUME NEW base, NEW F
  PROVE  \A n \in Nat : \E p : Begins(p, n, base, F)
<1> DEFINE S == {n \in Nat : \E p : Begins(p, n, base, F)}
<1>1. 0 \in S
  <2>1. Begins([i \in 0..0 |-> base], 0, base, F)
    BY DEF Begins
  <2>2. QED
    BY <2>1
<1>2. ASSUME NEW n \in Nat, n \in S
      PROVE  n + 1 \in S
  <2>1. PICK p : Begins(p, n, base, F)
    BY <1>2
  <2> DEFINE v == F[<<n, p[n]>>]
             q == [i \in 0..(n + 1) |-> IF i <= n THEN p[i] ELSE v]
  <2> HIDE DEF v
  <2>2. ASSUME NEW i \in 1..(n + 1)
        PROVE  q[i] = F[<<i - 1, q[i - 1]>>]
    <3>1. CASE i = n + 1
      <4>1. q[i] = v /\ q[i - 1] = p[n] /\ i - 1 = n
        BY <3>1
      <4>2. QED
        BY <4>1 DEF v
    <3>2. CASE i # n + 1
      <4>1. i \in 1..n /\ q[i] = p[i] /\ q[i - 1] = p[i - 1]
        BY <3>2
      <4>2. QED
        BY <4>1, <2>1 DEF Begins
    <3>3. QED
      BY <3>1, <3>2
  <2>3. q[0] = base
    BY <2>1 DEF Begins
  <2>4. Begins(q, n + 1, base, F)
    BY <2>2, <2>3 DEF Begins
  <2>5. QED
    BY <2>4
<1>3. Nat \subseteq S
  <2> HIDE DEF S
  <2>1. QED
    BY <1>1, <1>2, InductionOnSets
<1>4. QED
  BY <1>3

\* Two beginnings agree as far as both go.
LEMMA BeginningsAgree ==
  ASSUME NEW base, NEW F, NEW p, NEW q, NEW N \in Nat, NEW M \in Nat,
         Begins(p, N, base, F), Begins(q, M, base, F)
  PROVE  \A n \in Nat : n <= N /\ n <= M => p[n] = q[n]
<1> DEFINE S == {n \in Nat : n <= N /\ n <= M => p[n] = q[n]}
<1>1. 0 \in S
  BY DEF Begins
<1>2. ASSUME NEW n \in Nat, n \in S
      PROVE  n + 1 \in S
  <2> SUFFICES ASSUME n + 1 <= N, n + 1 <= M
               PROVE  p[n + 1] = q[n + 1]
    OBVIOUS
  <2>1. n + 1 \in 1..N /\ n + 1 \in 1..M /\ (n + 1) - 1 = n /\ p[n] = q[n]
    BY <1>2
  <2>2. p[n + 1] = F[<<n, p[n]>>] /\ q[n + 1] = F[<<n, q[n]>>]
    BY <2>1 DEF Begins
  <2>3. QED
    BY <2>1, <2>2
<1>3. Nat \subseteq S
  <2> HIDE DEF S
  <2>1. QED
    BY <1>1, <1>2, InductionOnSets
<1>4. QED
  BY <1>3

\* The sequence that starts with base and goes on with F is a function.
LEMMA SequenceExists ==
  ASSUME NEW base \in Nat, NEW F \in [Nat \X Nat -> Nat]
  PROVE  \E f \in [Nat -> Nat] : f[0] = base /\ \A n \in Nat : f[n + 1] = F[<<n, f[n]>>]
<1> DEFINE p(n) == CHOOSE p : Begins(p, n, base, F)
           f == [n \in Nat |-> p(n)[n]]
<1>1. \A n \in Nat : Begins(p(n), n, base, F)
  BY BeginningsExist
<1> HIDE DEF p
<1>2. f[0] = base
  BY <1>1 DEF Begins
<1>3. ASSUME NEW n \in Nat
      PROVE  f[n + 1] = F[<<n, f[n]>>]
  <2>1. p(n + 1)[n] = p(n)[n]
    <3>1. Begins(p(n + 1), n + 1, base, F) /\ Begins(p(n), n, base, F)
      BY <1>1
    <3>2. n \in Nat /\ n + 1 \in Nat /\ n <= n + 1 /\ n <= n
      OBVIOUS
    <3>3. QED
      BY <3>1, <3>2, BeginningsAgree
  <2>2. p(n + 1)[n + 1] = F[<<n, p(n + 1)[n]>>]
    <3>1. n + 1 \in 1..(n + 1) /\ (n + 1) - 1 = n
      OBVIOUS
    <3>2. QED
      BY <1>1, <3>1 DEF Begins
  <2>3. QED
    BY <2>1, <2>2
<1>4. f \in [Nat -> Nat]
  <2> DEFINE S == {n \in Nat : f[n] \in Nat}
  <2> HIDE DEF f
  <2>1. 0 \in S
    BY <1>2
  <2>2. ASSUME NEW n \in Nat, n \in S
        PROVE  n + 1 \in S
    <3>1. <<n, f[n]>> \in Nat \X Nat
      BY <2>2
    <3>2. F[<<n, f[n]>>] \in Nat
      BY <3>1
    <3>3. QED
      BY <1>3, <3>2
  <2>3. Nat \subseteq S
    <3> HIDE DEF S
    <3>1. QED
      BY <2>1, <2>2, InductionOnSets
  <2>4. f = [n \in Nat |-> f[n]]
    BY DEF f
  <2>5. QED
    BY <2>3, <2>4
<1>5. QED
  BY <1>2, <1>3, <1>4

\* The delays are numbers, each twice the one before, up to MaxDelay.
LEMMA DelaysDouble ==
  /\ Connection!NthDelay[1] = Connection!Min({InitialDelay, MaxDelay})
  /\ \A n \in Nat \ {0} : /\ Connection!NthDelay[n] \in Nat
                          /\ Connection!NthDelay[n + 1] =
                               Connection!Min({2 * Connection!NthDelay[n], MaxDelay})
<1> DEFINE Next0(i, v) == Connection!Min({IF i <= 1 THEN InitialDelay ELSE 2 * v, MaxDelay})
           F == [x \in Nat \X Nat |-> Next0(x[1] + 1, x[2])]
           d == Connection!NthDelay
           Step(g) == [n \in Nat |-> Next0(n, g[n - 1])]
<1>1. InitialDelay \in Nat /\ MaxDelay \in Nat
  BY ConnectionConstants
<1>2. \A i \in Nat, v \in Nat : Next0(i, v) \in Nat
  <2> SUFFICES ASSUME NEW i \in Nat, NEW v \in Nat
               PROVE  Next0(i, v) \in Nat
    OBVIOUS
  <2> DEFINE x == IF i <= 1 THEN InitialDelay ELSE 2 * v
  <2>1. x \in Nat
    BY <1>1
  <2> HIDE DEF x
  <2>2. Connection!Min({x, MaxDelay}) \in Nat
    BY <1>1, <2>1, Lesser
  <2>3. QED
    BY <2>2 DEF x
<1>3. \A v, w : Next0(0, v) = Next0(0, w) /\ Next0(1, v) = Next0(1, w)
  OBVIOUS
<1>4. PICK f \in [Nat -> Nat] :
        f[0] = Next0(0, 0) /\ \A n \in Nat : f[n + 1] = F[<<n, f[n]>>]
  <2>1. Next0(0, 0) \in Nat /\ F \in [Nat \X Nat -> Nat]
    <3> HIDE DEF Next0
    <3>1. \A x \in Nat \X Nat : x[1] + 1 \in Nat /\ x[2] \in Nat
      OBVIOUS
    <3>2. QED
      BY <1>2, <3>1
  <2> HIDE DEF Next0, F
  <2>2. QED
    BY <2>1, SequenceExists
<1>5. \A n \in Nat : f[n + 1] = Next0(n + 1, f[n])
  <2> HIDE DEF Next0
  <2>1. ASSUME NEW n \in Nat
        PROVE  F[<<n, f[n]>>] = Next0(n + 1, f[n])
    <3>1. <<n, f[n]>> \in Nat \X Nat
      OBVIOUS
    <3>2. QED
      BY <3>1
  <2> HIDE DEF F
  <2>2. QED
    BY <1>4, <2>1
<1>6. f = Step(f)
  <2> HIDE DEF Next0
  <2>1. ASSUME NEW n \in Nat
        PROVE  f[n] = Next0(n, f[n - 1])
    <3>1. CASE n = 0
      BY <1>3, <1>4, <3>1
    <3>2. CASE n # 0
      <4>1. n - 1 \in Nat /\ (n - 1) + 1 = n
        BY <3>2
      <4>2. f[(n - 1) + 1] = Next0((n - 1) + 1, f[n - 1])
        BY <1>5, <4>1
      <4>3. QED
        BY <4>1, <4>2
    <3>3. QED
      BY <3>1, <3>2
  <2> HIDE DEF F
  <2>2. f = [n \in Nat |-> f[n]]
    OBVIOUS
  <2>3. QED
    BY <2>1, <2>2
<1>7. d = Step(d)
  <2>1. d = CHOOSE g : g = Step(g)
    BY DEF Connection!NthDelay
  <2> HIDE DEF d, Step
  <2>2. QED
    BY <1>6, <2>1
<1>8. \A n \in Nat : d[n] = Next0(n, d[n - 1])
  <2> HIDE DEF d, Next0
  <2>1. QED
    BY <1>7
<1>9. \A n \in Nat : d[n] \in Nat
  <2> DEFINE S == {n \in Nat : d[n] \in Nat}
  <2> HIDE DEF Next0, d
  <2>1. 0 \in S
    <3>1. d[0] = Next0(0, 0)
      BY <1>3, <1>8
    <3>2. QED
      BY <1>2, <3>1
  <2>2. ASSUME NEW n \in Nat, n \in S
        PROVE  n + 1 \in S
    <3>1. (n + 1) - 1 = n /\ n + 1 \in Nat /\ d[n] \in Nat
      BY <2>2
    <3>2. d[n + 1] = Next0(n + 1, d[n])
      BY <1>8, <3>1
    <3>3. QED
      BY <1>2, <3>1, <3>2
  <2>3. Nat \subseteq S
    <3> HIDE DEF S
    <3>1. QED
      BY <2>1, <2>2, InductionOnSets
  <2>4. QED
    BY <2>3
<1>10. d[1] = Next0(1, 0)
  <2> HIDE DEF Next0, d
  <2>1. QED
    BY <1>3, <1>8
<1>11. \A n \in Nat \ {0} : d[n + 1] = Next0(n + 1, d[n])
  <2> HIDE DEF Next0, d
  <2>1. QED
    BY <1>8
<1>12. \A n \in Nat \ {0} : \A v : Next0(n + 1, v) = Connection!Min({2 * v, MaxDelay})
  <2> SUFFICES ASSUME NEW n \in Nat \ {0}, NEW v
               PROVE  Next0(n + 1, v) = Connection!Min({2 * v, MaxDelay})
    OBVIOUS
  <2>1. (IF n + 1 <= 1 THEN InitialDelay ELSE 2 * v) = 2 * v
    OBVIOUS
  <2>2. QED
    BY <2>1
<1>13. Next0(1, 0) = Connection!Min({InitialDelay, MaxDelay})
  OBVIOUS
<1> HIDE DEF Next0
<1>14. QED
  BY <1>9, <1>10, <1>11, <1>12, <1>13

\* What the delays before an attempt add up to: one delay more with every attempt.
LEMMA SleepsAddUp ==
  /\ Connection!Slept[1] = 0
  /\ \A n \in Nat \ {0} : /\ Connection!Slept[n] \in Nat
                          /\ Connection!Slept[n + 1] =
                               Connection!Slept[n] + Connection!NthDelay[n]
<1> DEFINE N0 == Connection!NthDelay
           Next0(i, v) == IF i <= 1 THEN 0 ELSE v + N0[i - 1]
           F == [x \in Nat \X Nat |-> Next0(x[1] + 1, x[2])]
           d == Connection!Slept
           Step(g) == [n \in Nat |-> Next0(n, g[n - 1])]
<1>1. \A n \in Nat \ {0} : N0[n] \in Nat
  BY DelaysDouble
<1> HIDE DEF N0
<1>2. \A i \in Nat, v \in Nat : Next0(i, v) \in Nat
  <2> SUFFICES ASSUME NEW i \in Nat, NEW v \in Nat, ~(i <= 1)
               PROVE  v + N0[i - 1] \in Nat
    OBVIOUS
  <2>1. i - 1 \in Nat \ {0}
    OBVIOUS
  <2>2. QED
    BY <1>1, <2>1
<1>3. \A v, w : Next0(0, v) = Next0(0, w) /\ Next0(1, v) = Next0(1, w)
  OBVIOUS
<1>4. PICK f \in [Nat -> Nat] :
        f[0] = Next0(0, 0) /\ \A n \in Nat : f[n + 1] = F[<<n, f[n]>>]
  <2>1. Next0(0, 0) \in Nat /\ F \in [Nat \X Nat -> Nat]
    <3> HIDE DEF Next0
    <3>1. \A x \in Nat \X Nat : x[1] + 1 \in Nat /\ x[2] \in Nat
      OBVIOUS
    <3>2. QED
      BY <1>2, <3>1
  <2> HIDE DEF Next0, F
  <2>2. QED
    BY <2>1, SequenceExists
<1>5. \A n \in Nat : f[n + 1] = Next0(n + 1, f[n])
  <2> HIDE DEF Next0
  <2>1. ASSUME NEW n \in Nat
        PROVE  F[<<n, f[n]>>] = Next0(n + 1, f[n])
    <3>1. <<n, f[n]>> \in Nat \X Nat
      OBVIOUS
    <3>2. QED
      BY <3>1
  <2> HIDE DEF F
  <2>2. QED
    BY <1>4, <2>1
<1>6. f = Step(f)
  <2> HIDE DEF Next0
  <2>1. ASSUME NEW n \in Nat
        PROVE  f[n] = Next0(n, f[n - 1])
    <3>1. CASE n = 0
      BY <1>3, <1>4, <3>1
    <3>2. CASE n # 0
      <4>1. n - 1 \in Nat /\ (n - 1) + 1 = n
        BY <3>2
      <4>2. f[(n - 1) + 1] = Next0((n - 1) + 1, f[n - 1])
        BY <1>5, <4>1
      <4>3. QED
        BY <4>1, <4>2
    <3>3. QED
      BY <3>1, <3>2
  <2> HIDE DEF F
  <2>2. f = [n \in Nat |-> f[n]]
    OBVIOUS
  <2>3. QED
    BY <2>1, <2>2
<1>7. d = Step(d)
  <2>1. d = CHOOSE g : g = Step(g)
    BY DEF Connection!Slept, N0
  <2> HIDE DEF d, Step
  <2>2. QED
    BY <1>6, <2>1
<1>8. \A n \in Nat : d[n] = Next0(n, d[n - 1])
  <2> HIDE DEF d, Next0
  <2>1. QED
    BY <1>7
<1>9. \A n \in Nat : d[n] \in Nat
  <2> DEFINE S == {n \in Nat : d[n] \in Nat}
  <2> HIDE DEF Next0, d
  <2>1. 0 \in S
    <3>1. d[0] = Next0(0, 0)
      BY <1>3, <1>8
    <3>2. QED
      BY <1>2, <3>1
  <2>2. ASSUME NEW n \in Nat, n \in S
        PROVE  n + 1 \in S
    <3>1. (n + 1) - 1 = n /\ n + 1 \in Nat /\ d[n] \in Nat
      BY <2>2
    <3>2. d[n + 1] = Next0(n + 1, d[n])
      BY <1>8, <3>1
    <3>3. QED
      BY <1>2, <3>1, <3>2
  <2>3. Nat \subseteq S
    <3> HIDE DEF S
    <3>1. QED
      BY <2>1, <2>2, InductionOnSets
  <2>4. QED
    BY <2>3
<1>10. d[1] = Next0(1, 0)
  <2> HIDE DEF Next0, d
  <2>1. QED
    BY <1>3, <1>8
<1>11. \A n \in Nat \ {0} : d[n + 1] = Next0(n + 1, d[n])
  <2> HIDE DEF Next0, d
  <2>1. QED
    BY <1>8
<1>12. \A n \in Nat \ {0} : \A v : Next0(n + 1, v) = v + N0[n]
  OBVIOUS
<1>13. Next0(1, 0) = 0
  OBVIOUS
<1> HIDE DEF Next0
<1>14. QED
  BY <1>9, <1>10, <1>11, <1>12, <1>13 DEF N0

-----------------------------------------------------------------------------
(* The connection                                                          *)

\* The shapes of the connection's state.
ConnectionTypes ==
  /\ sock \in {"none", "connecting", "open", "closing", "closed"}
  /\ loop \in {"connect", "attempt", "sleep", "over"}
  /\ clock \in Nat /\ silent \in Nat /\ idle \in Nat /\ ping \in Nat /\ aborted \in Nat
  /\ backoff \in [established : BOOLEAN, delay : Nat, left : Nat]
  /\ history \in [tries : Nat, since : Nat]

\* An attempt has a socket, and nothing else has one.
AttemptHasSocket == loop = "attempt" <=> sock # "none"

\* Until the monitor looks again no more time passes than is left, and what the network has
\* swallowed made the connection idle.
Watched ==
  Connection!Alive =>
    /\ idle + ping <= Timeout + PingInterval
    /\ silent > 0 => silent <= idle + 1

\* Since the signal was given there is no socket but one that closes.
Stopping ==
  /\ aborted > 0 => loop \notin {"connect", "sleep"} /\ sock \notin {"connecting", "open"}
  /\ sock = "closing" => clock <= CloseTimeout /\ aborted <= clock + 1
  /\ sock = "closed" => aborted <= CloseTimeout + 1

\* The attempts in a row have waited for their delays, and the next delay is as long as it
\* has to be.
Backing ==
  /\ loop \in {"connect", "sleep"} =>
       backoff.delay >= Connection!NthDelay[history.tries + 1]
  /\ loop = "connect" => history.since >= Connection!Slept[history.tries + 1]
  /\ loop = "sleep" =>
       /\ history.since + backoff.left >= Connection!Slept[history.tries + 1]
       /\ backoff.established => backoff.left <= InitialDelay
  /\ loop = "attempt" =>
       IF backoff.established THEN history.tries = 0
       ELSE /\ history.tries > 0
            /\ history.since >= Connection!Slept[history.tries]
            /\ backoff.delay >= Connection!NthDelay[history.tries]
  /\ sock = "connecting" => ~backoff.established

ConnectionInv == ConnectionTypes /\ AttemptHasSocket /\ Watched /\ Stopping /\ Backing

\* At first there is no attempt, and no delay to wait for.
LEMMA InitConnection ==
  ASSUME Connection!Init
  PROVE  ConnectionInv
<1>1. Connection!NthDelay[1] <= InitialDelay /\ Connection!Slept[1] = 0
  BY DelaysDouble, SleepsAddUp, Lesser, ConnectionConstants
<1>2. /\ sock = "none" /\ clock = 0 /\ silent = 0 /\ idle = 0 /\ ping = 0 /\ loop = "connect"
      /\ aborted = 0 /\ history = [tries |-> 0, since |-> 0]
      /\ backoff = [established |-> FALSE, delay |-> InitialDelay, left |-> 0]
  BY DEF Connection!Init, Connection!Fresh
<1>3. /\ history.tries = 0 /\ history.since = 0 /\ history.tries + 1 = 1
      /\ backoff.delay = InitialDelay /\ backoff.left = 0 /\ ~backoff.established
  BY <1>2
<1>4. ConnectionTypes
  BY <1>2, ConnectionConstants DEF ConnectionTypes
<1>5. Backing
  BY <1>1, <1>2, <1>3, ConnectionConstants DEF Backing
<1>6. QED
  BY <1>2, <1>4, <1>5
     DEF ConnectionInv, AttemptHasSocket, Watched, Connection!Alive, Stopping

\* The loop begins an attempt.
LEMMA AttemptKeeps ==
  ASSUME ConnectionInv, Connection!Connect \/ Connection!Unavailable
  PROVE  ConnectionInv'
<1>1. /\ loop = "connect" /\ loop' = "attempt" /\ aborted = 0 /\ aborted' = 0
      /\ sock' \in {"connecting", "closed"} /\ clock' = 0
      /\ backoff' = [backoff EXCEPT !.established = FALSE]
      /\ history' = [tries |-> history.tries + 1, since |-> history.since]
  BY DEF Connection!Connect, Connection!Unavailable, Connection!Become, ConnectionInv,
         ConnectionTypes
<1>2. /\ backoff'.established = FALSE /\ backoff'.delay = backoff.delay
      /\ history'.tries = history.tries + 1 /\ history'.since = history.since
  BY <1>1 DEF ConnectionInv, ConnectionTypes
<1>3. ConnectionTypes'
  <2>1. /\ silent' \in Nat /\ idle' \in Nat /\ ping' \in Nat
    BY DEF Connection!Connect, Connection!Unavailable, ConnectionInv, ConnectionTypes
  <2>2. backoff' \in [established : BOOLEAN, delay : Nat, left : Nat]
    BY <1>1 DEF ConnectionInv, ConnectionTypes
  <2>3. history' \in [tries : Nat, since : Nat]
    BY <1>1 DEF ConnectionInv, ConnectionTypes
  <2>4. QED
    BY <1>1, <2>1, <2>2, <2>3 DEF ConnectionTypes
<1>4. Stopping'
  BY <1>1, ConnectionConstants DEF Stopping
<1>5. Backing'
  BY <1>1, <1>2 DEF Backing, ConnectionInv, ConnectionTypes
<1>6. QED
  BY <1>1, <1>3, <1>4, <1>5 DEF ConnectionInv, AttemptHasSocket, Watched, Connection!Alive

\* The attempt is over: the loop ends or sleeps.
LEMMA RetryKeeps ==
  ASSUME ConnectionInv, Connection!Retry
  PROVE  ConnectionInv'
<1>1. /\ loop = "attempt" /\ sock' = "none" /\ clock' = 0
      /\ UNCHANGED <<silent, idle, ping, aborted, history>>
  BY DEF Connection!Retry, Connection!Become
<1>2. CASE loop' = "over"
  <2>1. backoff' = backoff
    BY <1>2 DEF Connection!Retry
  <2>2. QED
    BY <1>1, <1>2, <2>1 DEF ConnectionInv, ConnectionTypes, AttemptHasSocket, Watched,
       Connection!Alive, Stopping, Backing
<1>3. CASE loop' # "over"
  <2> DEFINE delay == IF backoff.established THEN InitialDelay ELSE backoff.delay
  <2>1. /\ loop' = "sleep" /\ ~(aborted > 0)
        /\ backoff' = [backoff EXCEPT !.left = delay,
                                      !.delay = Connection!Min({2 * delay, MaxDelay})]
    BY <1>3 DEF Connection!Retry
  <2>2. delay \in Nat /\ history.tries \in Nat /\ history.since \in Nat
    BY ConnectionConstants DEF ConnectionInv, ConnectionTypes
  <2>3. /\ backoff.established => delay = InitialDelay
        /\ ~backoff.established => delay = backoff.delay
    OBVIOUS
  <2> HIDE DEF delay
  <2> DEFINE twice == Connection!Min({2 * delay, MaxDelay})
  <2>4. twice \in Nat /\ twice = IF 2 * delay <= MaxDelay THEN 2 * delay ELSE MaxDelay
    BY <2>2, Lesser, ConnectionConstants
  <2>5. /\ backoff'.left = delay /\ backoff'.delay = twice
        /\ backoff'.established = backoff.established
        /\ backoff' \in [established : BOOLEAN, delay : Nat, left : Nat]
    BY <2>1, <2>2, <2>4 DEF ConnectionInv, ConnectionTypes
  <2> HIDE DEF twice
  <2>6. /\ twice >= Connection!NthDelay[history.tries + 1]
        /\ history.since + delay >= Connection!Slept[history.tries + 1]
    <3>1. CASE backoff.established
      <4>1. history.tries = 0 /\ history.tries + 1 = 1
        BY <1>1, <3>1 DEF ConnectionInv, Backing
      <4>2. Connection!Slept[1] = 0
        BY SleepsAddUp
      <4>3. Connection!NthDelay[1] = IF InitialDelay <= MaxDelay THEN InitialDelay ELSE MaxDelay
        BY DelaysDouble, Lesser, ConnectionConstants
      <4>4. twice >= Connection!NthDelay[1]
        BY <2>3, <2>4, <3>1, <4>3, ConnectionConstants
      <4>5. history.since + delay >= Connection!Slept[1]
        BY <2>2, <4>2
      <4>6. QED
        BY <4>1, <4>4, <4>5
    <3>2. CASE ~backoff.established
      <4> DEFINE n == history.tries
                 s == Connection!Slept
                 d == Connection!NthDelay
      <4>1. n \in Nat \ {0} /\ history.since >= s[n] /\ delay >= d[n]
        BY <1>1, <2>2, <2>3, <3>2 DEF ConnectionInv, Backing
      <4>2. s[n] \in Nat /\ s[n + 1] = s[n] + d[n]
        BY <4>1, SleepsAddUp
      <4>3. d[n] \in Nat /\ d[n + 1] = Connection!Min({2 * d[n], MaxDelay})
        BY <4>1, DelaysDouble
      <4>4. d[n + 1] = IF 2 * d[n] <= MaxDelay THEN 2 * d[n] ELSE MaxDelay
        BY <4>3, Lesser, ConnectionConstants
      <4> HIDE DEF n, s, d
      <4>5. twice >= d[n + 1]
        BY <2>2, <2>4, <4>1, <4>3, <4>4, ConnectionConstants
      <4>6. history.since + delay >= s[n + 1]
        BY <2>2, <4>1, <4>2, <4>3
      <4>7. QED
        BY <4>5, <4>6 DEF n, s, d
    <3>3. QED
      BY <3>1, <3>2
  <2>7. Backing'
    BY <1>1, <2>1, <2>3, <2>5, <2>6, ConnectionConstants DEF Backing
  <2>8. ConnectionTypes'
    BY <1>1, <2>1, <2>5 DEF ConnectionInv, ConnectionTypes
  <2>9. QED
    BY <1>1, <2>1, <2>7, <2>8 DEF ConnectionInv, AttemptHasSocket, Watched, Connection!Alive,
       Stopping
<1>4. QED
  BY <1>2, <1>3

\* The loop wakes up, or is told to stop.
LEMMA LoopKeeps ==
  ASSUME ConnectionInv, Connection!Awake \/ Connection!Abort
  PROVE  ConnectionInv'
<1>1. CASE Connection!Awake
  BY <1>1 DEF Connection!Awake, ConnectionInv, ConnectionTypes, AttemptHasSocket, Watched,
     Connection!Alive, Stopping, Backing
<1>2. CASE Connection!Abort
  <2>1. /\ aborted = 0 /\ aborted' = 1 /\ loop # "over"
        /\ loop' = IF loop \in {"sleep", "connect"} THEN "over" ELSE loop
        /\ UNCHANGED <<silent, idle, ping, backoff, history>>
        /\ \/ sock = "connecting" /\ sock' = "closed" /\ clock' = 0
           \/ sock = "open" /\ sock' = "closing" /\ clock' = 0
           \/ sock \notin {"connecting", "open"} /\ UNCHANGED <<sock, clock>>
    BY <1>2 DEF Connection!Abort, Connection!Become
  <2>2. QED
    BY <2>1, ConnectionConstants DEF ConnectionInv, ConnectionTypes, AttemptHasSocket, Watched,
       Connection!Alive, Stopping, Backing
<1>3. QED
  BY <1>1, <1>2

\* The socket opens, closes, or is seen to be dead.
LEMMA SocketKeeps ==
  ASSUME ConnectionInv,
         \/ Connection!HandshakeFails \/ Connection!Open \/ Connection!GiveUp
         \/ Connection!NoHello \/ Connection!Monitor \/ Connection!RelayCloses
         \/ Connection!CloseTimesOut
  PROVE  ConnectionInv'
<1> USE ConnectionConstants
<1>1. CASE Connection!HandshakeFails
  BY <1>1 DEF Connection!HandshakeFails, Connection!Become, ConnectionInv, ConnectionTypes,
     AttemptHasSocket, Watched, Connection!Alive, Stopping, Backing
<1>2. CASE Connection!Open
  BY <1>2 DEF Connection!Open, Connection!Become, ConnectionInv, ConnectionTypes,
     AttemptHasSocket, Watched, Connection!Alive, Stopping, Backing
<1>3. CASE Connection!GiveUp \/ Connection!NoHello
  BY <1>3 DEF Connection!GiveUp, Connection!NoHello, Connection!Become, ConnectionInv,
     ConnectionTypes, AttemptHasSocket, Watched, Connection!Alive, Stopping, Backing
<1>4. CASE Connection!Monitor
  BY <1>4 DEF Connection!Monitor, Connection!Become, ConnectionInv, ConnectionTypes,
     AttemptHasSocket, Watched, Connection!Alive, Stopping, Backing
<1>5. CASE Connection!RelayCloses \/ Connection!CloseTimesOut
  BY <1>5 DEF Connection!RelayCloses, Connection!CloseTimesOut, Connection!Become,
     ConnectionInv, ConnectionTypes, AttemptHasSocket, Watched, Connection!Alive, Stopping,
     Backing
<1>6. QED
  BY <1>1, <1>2, <1>3, <1>4, <1>5

\* Frames come, or the network swallows them.
LEMMA FramesKeep ==
  ASSUME ConnectionInv, Connection!Receive \/ Connection!Hello \/ Connection!FallSilent
  PROVE  ConnectionInv'
<1> USE ConnectionConstants
<1>1. CASE Connection!Receive
  BY <1>1 DEF Connection!Receive, ConnectionInv, ConnectionTypes, AttemptHasSocket, Watched,
     Connection!Alive, Stopping, Backing
<1>2. CASE Connection!Hello
  <2>1. /\ backoff' = [backoff EXCEPT !.established = TRUE]
        /\ history' = [tries |-> 0, since |-> 0] /\ idle' = 0 /\ Connection!Alive
        /\ UNCHANGED <<sock, clock, silent, ping, loop, aborted>> /\ silent = 0
    BY <1>2 DEF Connection!Hello
  <2>2. /\ backoff'.established = TRUE /\ history'.tries = 0
        /\ backoff' \in [established : BOOLEAN, delay : Nat, left : Nat]
    BY <2>1 DEF ConnectionInv, ConnectionTypes
  <2>3. loop = "attempt"
    BY <2>1 DEF ConnectionInv, AttemptHasSocket, Connection!Alive
  <2>4. Backing'
    BY <2>1, <2>2, <2>3 DEF Backing, Connection!Alive
  <2>5. ConnectionTypes'
    BY <2>1, <2>2 DEF ConnectionInv, ConnectionTypes
  <2>6. QED
    BY <2>1, <2>4, <2>5 DEF ConnectionInv, ConnectionTypes, AttemptHasSocket, Watched,
       Connection!Alive, Stopping
<1>3. CASE Connection!FallSilent
  BY <1>3 DEF Connection!FallSilent, ConnectionInv, ConnectionTypes, AttemptHasSocket, Watched,
     Connection!Alive, Stopping, Backing
<1>4. QED
  BY <1>1, <1>2, <1>3

\* Time passes.
LEMMA TickKeeps ==
  ASSUME ConnectionInv, Connection!Tick
  PROVE  ConnectionInv'
<1> USE ConnectionConstants
<1>1. /\ clock \in Nat /\ silent \in Nat /\ idle \in Nat /\ ping \in Nat /\ aborted \in Nat
      /\ backoff \in [established : BOOLEAN, delay : Nat, left : Nat]
      /\ history \in [tries : Nat, since : Nat]
  BY DEF ConnectionInv, ConnectionTypes
<1>2. /\ ~(sock = "closing" /\ clock = CloseTimeout) /\ ~(Connection!Alive /\ ping = 0)
      /\ ~(loop = "sleep" /\ backoff.left = 0)
      /\ loop # "connect" /\ sock # "closed" /\ loop # "over"
  BY DEF Connection!Tick, Connection!Due
<1>3. UNCHANGED <<sock, loop>>
  BY DEF Connection!Tick
<1>4. /\ clock' \in Nat /\ clock' <= clock + 1
      /\ clock + 1 <= CloseTimeout => clock' = clock + 1
  <2> DEFINE x == CloseTimeout + HelloTimeout + Handshake
  <2>1. x \in Nat /\ CloseTimeout <= x
    OBVIOUS
  <2>2. clock' = Connection!Min({clock + 1, x})
    BY DEF Connection!Tick
  <2> HIDE DEF x
  <2>3. clock' = IF clock + 1 <= x THEN clock + 1 ELSE x
    BY <1>1, <2>1, <2>2, Lesser
  <2>4. QED
    BY <1>1, <2>1, <2>3
<1>5. /\ silent' \in Nat /\ silent' <= silent + 1
      /\ silent = 0 => silent' = 0
  <2> DEFINE x == Timeout + PingInterval + 1 + 2
  <2>1. x \in Nat
    OBVIOUS
  <2>2. silent' = IF silent = 0 THEN 0 ELSE Connection!Min({silent + 1, x})
    BY DEF Connection!Tick, Connection!Longest
  <2> HIDE DEF x
  <2>3. Connection!Min({silent + 1, x}) = IF silent + 1 <= x THEN silent + 1 ELSE x
    BY <1>1, <2>1, Lesser
  <2>4. QED
    BY <1>1, <2>1, <2>2, <2>3
<1>6. /\ idle' \in Nat
      /\ Connection!Alive /\ idle + 1 <= Timeout + PingInterval + 1 => idle' = idle + 1
  <2> DEFINE x == Timeout + PingInterval + 1
  <2>1. x \in Nat
    OBVIOUS
  <2>2. idle' = IF Connection!Alive THEN Connection!Min({idle + 1, x}) ELSE idle
    BY DEF Connection!Tick, Connection!Longest
  <2>3. Connection!Min({idle + 1, x}) = IF idle + 1 <= x THEN idle + 1 ELSE x
    BY <1>1, <2>1, Lesser
  <2>4. QED
    BY <1>1, <2>1, <2>2, <2>3
<1>7. /\ ping' \in Nat
      /\ Connection!Alive => ping' = ping - 1
  <2>1. ping' = IF Connection!Alive THEN ping - 1 ELSE ping
    BY DEF Connection!Tick
  <2>2. QED
    BY <1>1, <1>2, <2>1
<1>8. aborted' \in Nat /\ (aborted = 0 => aborted' = 0) /\ (aborted # 0 => aborted' = aborted + 1)
  BY <1>1 DEF Connection!Tick
<1>9. /\ loop = "sleep" => backoff' = [backoff EXCEPT !.left = @ - 1]
      /\ loop # "sleep" => backoff' = backoff
  BY DEF Connection!Tick
<1>10. history' = [history EXCEPT !.since = IF loop = "sleep" THEN @ + 1 ELSE @]
  BY DEF Connection!Tick
<1>11. /\ backoff' \in [established : BOOLEAN, delay : Nat, left : Nat]
       /\ backoff'.established = backoff.established /\ backoff'.delay = backoff.delay
       /\ loop = "sleep" => backoff'.left = backoff.left - 1
  BY <1>1, <1>2, <1>9
<1>12. /\ history' \in [tries : Nat, since : Nat] /\ history'.tries = history.tries
       /\ loop = "sleep" => history'.since = history.since + 1
       /\ loop # "sleep" => history'.since = history.since
  BY <1>1, <1>10
<1>13. ConnectionTypes'
  BY <1>3, <1>4, <1>5, <1>6, <1>7, <1>8, <1>11, <1>12 DEF ConnectionInv, ConnectionTypes
<1>14. Watched'
  <2>1. Connection!Alive' <=> Connection!Alive
    BY <1>3 DEF Connection!Alive
  <2>2. SUFFICES ASSUME Connection!Alive
                 PROVE  /\ idle' + ping' <= Timeout + PingInterval
                        /\ silent' > 0 => silent' <= idle' + 1
    BY <2>1 DEF Watched
  <2> DEFINE x == Timeout + PingInterval
  <2>3. x \in Nat /\ idle + ping <= x /\ (silent > 0 => silent <= idle + 1)
    BY <2>2 DEF ConnectionInv, Watched
  <2>4. idle + 1 <= x + 1 => idle' = idle + 1
    BY <1>6, <2>2
  <2>5. ping' = ping - 1
    BY <1>7, <2>2
  <2> HIDE DEF x
  <2>6. idle' = idle + 1
    BY <1>1, <2>3, <2>4
  <2>7. idle' + ping' <= x
    BY <1>1, <2>3, <2>5, <2>6
  <2>8. silent' > 0 => silent' <= idle' + 1
    BY <1>1, <1>5, <2>3, <2>6
  <2>9. QED
    BY <2>7, <2>8 DEF x
<1>15. Stopping'
  <2>1. CASE sock = "closing"
    <3>1. clock <= CloseTimeout /\ aborted <= clock + 1
      BY <2>1 DEF ConnectionInv, Stopping
    <3>2. clock' = clock + 1 /\ clock' <= CloseTimeout
      BY <1>1, <1>2, <1>4, <2>1, <3>1
    <3>3. aborted' <= clock' + 1
      BY <1>1, <1>8, <3>1, <3>2
    <3>4. aborted > 0 => loop \notin {"connect", "sleep"}
      BY DEF ConnectionInv, Stopping
    <3>5. aborted' > 0 => aborted > 0
      BY <1>1, <1>8
    <3>6. QED
      BY <1>3, <2>1, <3>2, <3>3, <3>4, <3>5 DEF Stopping
  <2>2. CASE sock # "closing"
    BY <1>1, <1>2, <1>3, <1>8, <2>2 DEF ConnectionInv, Stopping
  <2>3. QED
    BY <2>1, <2>2
<1>16. Backing'
  <2>1. CASE loop = "sleep"
    <3>1. Connection!Slept[history.tries + 1] \in Nat
      <4>1. history.tries + 1 \in Nat \ {0}
        BY <1>1
      <4>2. QED
        BY <4>1, SleepsAddUp
    <3>2. history'.since + backoff'.left = history.since + backoff.left
      BY <1>1, <1>11, <1>12, <2>1
    <3>3. backoff'.left <= backoff.left
      BY <1>1, <1>11, <2>1
    <3>4. backoff.left \in Nat /\ backoff'.left \in Nat
      BY <1>1, <1>11
    <3>5. sock = "none"
      BY <2>1 DEF ConnectionInv, AttemptHasSocket
    <3>6. QED
      BY <1>3, <1>11, <1>12, <2>1, <3>2, <3>3, <3>4, <3>5 DEF ConnectionInv, Backing
  <2>2. CASE loop = "attempt"
    BY <1>3, <1>11, <1>12, <2>2 DEF ConnectionInv, Backing
  <2>3. QED
    BY <1>2, <2>1, <2>2 DEF ConnectionInv, ConnectionTypes
<1>17. QED
  BY <1>3, <1>13, <1>14, <1>15, <1>16 DEF ConnectionInv, AttemptHasSocket

\* Every step keeps the invariant.
LEMMA NextKeepsConnection ==
  ASSUME ConnectionInv, [Connection!Next]_(Connection!vars)
  PROVE  ConnectionInv'
<1>1. CASE UNCHANGED Connection!vars
  BY <1>1 DEF Connection!vars, ConnectionInv, ConnectionTypes, AttemptHasSocket, Watched,
     Connection!Alive, Stopping, Backing
<1>2. QED
  BY <1>1, AttemptKeeps, RetryKeeps, LoopKeeps, SocketKeeps, FramesKeep, TickKeeps
     DEF Connection!Next

-----------------------------------------------------------------------------
(* The watcher of the cron jobs.                                           *)

\* The shapes of the watcher's state.
CronTypes ==
  /\ content \in CronContent /\ directory \in BOOLEAN /\ watched \in BOOLEAN
  /\ home \in BOOLEAN /\ pending \in BOOLEAN /\ missed \in BOOLEAN
  /\ baseline \in CronContent \cup {None} /\ digest \in CronContent \cup {None}
  /\ conn \in {"down", "up", "lost"}

\* The watcher of a connection has read once, and is on the directory unless
\* it is about to hear of it; without a connection there is no watcher.
WatcherIsSet ==
  /\ conn # "down" => baseline # None /\ (home \/ watched = directory)
  /\ conn = "down" => ~pending /\ ~home

\* What the watcher has not read yet it will be told of.
ChangesArePending ==
  conn # "down" /\ ~missed => baseline = content \/ pending \/ home

\* The Relay knows what the watcher read, or what it remembers meanwhile.
RelayKnows ==
  ~missed => /\ conn # "down" => told = baseline
             /\ conn = "down" /\ digest # None => told = digest

\* Without a directory there are no jobs.
NoDirectoryNoJobs == ~directory => content = "missing"

CronInv ==
  /\ CronTypes /\ WatcherIsSet /\ ChangesArePending /\ RelayKnows /\ NoDirectoryNoJobs

\* At first no connection is there.
LEMMA InitCron ==
  ASSUME Cron!Init
  PROVE  CronInv
  BY DEF Cron!Init, CronInv, CronTypes, WatcherIsSet, ChangesArePending, RelayKnows,
     NoDirectoryNoJobs

\* A reading leaves the watcher with what is there, and the Relay with what
\* the watcher read.
LEMMA CheckTells ==
  ASSUME content \in CronContent,
         NEW base \in CronContent \cup {None}, Cron!Check(base), missed \in BOOLEAN
  PROVE  /\ baseline' = content /\ baseline' # None /\ missed' \in BOOLEAN
         /\ ~missed' /\ (base # None /\ ~missed => told = base) => told' = content
  BY NoneIsNoContent DEF Cron!Check

\* Every step keeps the invariant.
LEMMA NextKeepsCron ==
  ASSUME CronInv, [Cron!Next]_(Cron!vars)
  PROVE  CronInv'
<1> USE NoneIsNoContent
        DEF CronInv, CronTypes, WatcherIsSet, ChangesArePending, RelayKnows, NoDirectoryNoJobs,
            Cron!watcher
<1>1. CASE Cron!Start
  <2>1. Cron!Check(digest) /\ digest \in CronContent \cup {None}
    BY <1>1 DEF Cron!Start
  <2>2. /\ baseline' = content /\ baseline' # None /\ missed' \in BOOLEAN
        /\ ~missed' /\ (digest # None /\ ~missed => told = digest) => told' = content
    BY <2>1, CheckTells
  <2>3. QED
    BY <1>1, <2>2 DEF Cron!Start
<1>2. CASE Cron!CheckNow
  <2>1. Cron!Check(baseline) /\ baseline \in CronContent \cup {None}
    BY <1>2 DEF Cron!CheckNow
  <2>2. /\ baseline' = content /\ baseline' # None /\ missed' \in BOOLEAN
        /\ ~missed' /\ (baseline # None /\ ~missed => told = baseline) => told' = content
    BY <2>1, CheckTells
  <2>3. QED
    BY <1>2, <2>2 DEF Cron!CheckNow
<1>3. CASE Cron!CheckFails
  BY <1>3 DEF Cron!CheckFails
<1>4. CASE Cron!HomeNotifies
  BY <1>4 DEF Cron!HomeNotifies
<1>5. CASE Cron!Lose
  BY <1>5 DEF Cron!Lose
<1>6. CASE Cron!Stop
  BY <1>6 DEF Cron!Stop
<1>7. ASSUME NEW c \in CronContent, Cron!Write(c)
      PROVE  CronInv'
  BY <1>7 DEF Cron!Write
<1>8. ASSUME NEW c \in CronContent, Cron!MoveDirectory(c)
      PROVE  CronInv'
  BY <1>8 DEF Cron!MoveDirectory
<1>9. CASE UNCHANGED Cron!vars
  BY <1>9 DEF Cron!vars
<1>10. QED
  BY <1>1, <1>2, <1>3, <1>4, <1>5, <1>6, <1>7, <1>8, <1>9 DEF Cron!Next

-----------------------------------------------------------------------------
(* The uploads of an attachment.                                           *)

\* Chunks of one size cover a file, and none begins past its end.
LEMMA ChunksCover ==
  ASSUME NEW s \in Nat, NEW c \in Nat \ {0}
  PROVE  LET n == Uploads!TotalChunks(s, c) IN
           /\ n \in Nat \ {0} /\ n * c >= s
           /\ \A i \in Nat : i < n => s = 0 \/ i * c < s
<1>1. CASE s = 0
  BY <1>1 DEF Uploads!TotalChunks
<1>2. CASE s # 0
  <2> DEFINE x == s + c - 1
             n == x \div c
             r == x % c
  <2>1. x \in Nat /\ x >= c /\ c \in Nat \ {0}
    BY <1>2
  <2>2. x = n * c + r /\ r \in 0..(c - 1) /\ n \in Int
    BY <2>1
  <2>3. x = s + c - 1
    OBVIOUS
  <2> HIDE DEF n, r, x
  <2>4. n * c >= s
    BY <2>2, <2>3
  <2>5. n >= 1
    <3>1. SUFFICES ASSUME n <= 0
                   PROVE  FALSE
      BY <2>2
    <3>2. n * c <= 0
      BY <2>2, <3>1
    <3>3. s > 0 /\ n * c \in Int
      BY <1>2, <2>2
    <3>4. QED
      BY <2>4, <3>2, <3>3
  <2>6. ASSUME NEW i \in Nat, i < n
        PROVE  i * c < s
    <3>1. i + 1 <= n
      BY <2>2, <2>6
    <3>2. (i + 1) * c <= n * c
      BY <2>2, <3>1
    <3>3. (i + 1) * c = i * c + c
      OBVIOUS
    <3>4. n * c <= x /\ n * c \in Int /\ i * c \in Int
      BY <2>2
    <3>5. QED
      BY <2>3, <3>2, <3>3, <3>4
  <2>7. Uploads!TotalChunks(s, c) = n
    BY <1>2 DEF Uploads!TotalChunks, n, x
  <2>8. QED
    BY <2>2, <2>4, <2>5, <2>6, <2>7
<1>3. QED
  BY <1>1, <1>2

\* The shapes of the uploads' state.
PassRecord ==
  [at : {"idle", "record", "key", "lookup", "wait", "stat", "hash", "init", "chunk", "complete",
         "dropped", "unavailable", "available"},
   conn : Nat, reads : Nat, key : Nat, on : SUBSET Pass, try : Nat, size : Nat, claimed : Nat,
   whole : BOOLEAN, chunk : Nat, chunkSize : Nat \ {0}, sent : SUBSET Int, shown : Nat]

UploadTypes ==
  /\ versions \in Versions /\ file \in {0, versions} /\ current \in 1..MaxConn
  /\ pass \in [Pass -> PassRecord]
  /\ cache \in [1..MaxConn -> [Versions -> Nat]]

\* What is cached under a key is that version of the file or a later one.
CacheIsFresh ==
  \A c \in 1..MaxConn, k \in Versions : cache[c][k] = 0 \/ cache[c][k] >= k

Sends(r) == r.at \in {"stat", "hash", "init", "chunk", "complete"}
Same(r, t) == r.conn = t.conn /\ r.key = t.key

\* A pass is of a connection, and its key is the version it found; what it read of a file that
\* held still is the file's beginning, and after the last chunk all of it.
PassOk(r, last) ==
  /\ r.at \notin {"idle", "dropped", "unavailable", "available"} => r.conn \in 1..MaxConn
  /\ r.at \in {"lookup", "wait"} \/ Sends(r) => r.key \in Versions /\ r.key <= r.claimed
  /\ r.at \in {"lookup", "wait"} => r.claimed = r.key
  /\ r.claimed <= last
  /\ r.at = "available" => r.shown >= r.claimed
  /\ r.at = "hash" \/ (r.at \in {"init", "chunk", "complete"} /\ r.whole) =>
       r.claimed \in Versions /\ r.size = SizeOf[r.claimed]
  /\ r.at = "chunk" =>
       /\ r.chunk < Uploads!TotalChunks(r.size, r.chunkSize)
       /\ r.whole => r.sent = 0..(Uploads!Least(r.size, r.chunk * r.chunkSize) - 1)
  /\ r.at = "complete" /\ r.whole => r.sent = 0..(r.size - 1)

\* Who waits, waits for an upload that is under way.
WaitersAreHeard ==
  \A q \in Pass : pass[q].at = "wait" =>
    \E p \in Pass : p # q /\ pass[q].on = {p} /\ Sends(pass[p]) /\ Same(pass[p], pass[q])

OneSender ==
  \A p, q \in Pass : p # q /\ Sends(pass[p]) /\ Sends(pass[q]) => ~Same(pass[p], pass[q])

UploadInv ==
  /\ UploadTypes /\ CacheIsFresh /\ WaitersAreHeard /\ OneSender
  /\ \A p \in Pass : PassOk(pass[p], versions)

\* At first no pass has met the attachment.
LEMMA InitUploads ==
  ASSUME Uploads!Init
  PROVE  UploadInv
<1> USE UploadConstants
<1>1. /\ Uploads!Idle \in PassRecord /\ PassOk(Uploads!Idle, 1)
      /\ Uploads!Idle.at = "idle"
  BY DEF Uploads!Idle, PassRecord, PassOk, Sends
<1>2. /\ file = 1 /\ versions = 1 /\ current = 1 /\ pass = [p \in Pass |-> Uploads!Idle]
      /\ cache = [c \in 1..MaxConn |-> [k \in Versions |-> 0]]
  BY DEF Uploads!Init, Uploads!Keys
<1>3. \A p \in Pass : pass[p] = Uploads!Idle
  BY <1>2
<1>4. UploadTypes
  BY <1>1, <1>2 DEF UploadTypes
<1>5. CacheIsFresh
  BY <1>2 DEF CacheIsFresh
<1>6. WaitersAreHeard /\ OneSender
  BY <1>1, <1>3 DEF WaitersAreHeard, OneSender, Sends
<1>7. QED
  BY <1>1, <1>2, <1>3, <1>4, <1>5, <1>6 DEF UploadInv

\* A pass goes on: if it sends, it goes on sending under its key or was allowed to begin; if
\* it comes to wait, then for a pass that sends.
LEMMA SetKeeps ==
  ASSUME UploadInv, NEW p \in Pass, NEW f \in PassRecord, PassOk(f, versions),
         Uploads!Set(p, f), UNCHANGED <<file, versions, current, cache>>,
         Sends(pass[p]) => Sends(f) /\ Same(f, pass[p]),
         Sends(f) => Sends(pass[p]) \/ \A q \in Pass \ {p} : Sends(pass[q]) => ~Same(pass[q], f),
         f.at = "wait" =>
           \E q \in Pass : q # p /\ f.on = {q} /\ Sends(pass[q]) /\ Same(pass[q], f)
  PROVE  UploadInv'
<1>1. pass \in [Pass -> PassRecord]
  BY DEF UploadInv, UploadTypes
<1>2. pass' = [pass EXCEPT ![p] = f]
  BY DEF Uploads!Set
<1>3. pass'[p] = f /\ \A q \in Pass \ {p} : pass'[q] = pass[q]
  BY <1>1, <1>2
<1>4. UploadTypes'
  BY <1>1, <1>2 DEF UploadInv, UploadTypes
<1>5. CacheIsFresh'
  BY DEF UploadInv, CacheIsFresh
<1>6. \A q \in Pass : PassOk(pass'[q], versions')
  BY <1>3 DEF UploadInv
<1>7. OneSender'
  <2>1. SUFFICES ASSUME NEW x \in Pass, NEW y \in Pass, x # y, Sends(pass'[x]), Sends(pass'[y])
                 PROVE  ~Same(pass'[x], pass'[y])
    BY DEF OneSender
  <2>2. CASE x # p /\ y # p
    BY <1>3, <2>1, <2>2 DEF UploadInv, OneSender
  <2>3. ASSUME NEW z \in Pass \ {p}, Sends(f), Sends(pass[z])
        PROVE  ~Same(pass[z], f)
    BY <2>3 DEF UploadInv, OneSender, Same
  <2>4. QED
    BY <1>3, <2>1, <2>2, <2>3 DEF Same
<1>8. WaitersAreHeard'
  <2>1. SUFFICES ASSUME NEW x \in Pass, pass'[x].at = "wait"
                 PROVE  \E y \in Pass : y # x /\ pass'[x].on = {y} /\ Sends(pass'[y])
                                        /\ Same(pass'[y], pass'[x])
    BY DEF WaitersAreHeard
  <2>2. CASE x = p
    BY <1>3, <2>1, <2>2
  <2>3. CASE x # p
    <3>1. PICK y \in Pass : y # x /\ pass[x].on = {y} /\ Sends(pass[y]) /\ Same(pass[y], pass[x])
      BY <1>3, <2>1, <2>3 DEF UploadInv, WaitersAreHeard
    <3>2. Sends(pass'[y]) /\ Same(pass'[y], pass[x])
      BY <1>3, <3>1 DEF Same
    <3>3. QED
      BY <1>3, <2>3, <3>1, <3>2
  <2>4. QED
    BY <2>2, <2>3
<1>9. QED
  BY <1>4, <1>5, <1>6, <1>7, <1>8 DEF UploadInv

\* The end of a pass: what it shows is not older than what it claims.
LEMMA EndIsOk ==
  ASSUME UploadTypes, NEW r \in PassRecord, PassOk(r, versions),
         NEW what \in {"dropped", "unavailable", "available"}, NEW v \in Nat,
         what = "available" => v >= r.claimed
  PROVE  /\ Uploads!Ended(r, what, v) \in PassRecord /\ Uploads!Ended(r, what, v).at = what
         /\ PassOk(Uploads!Ended(r, what, v), versions) /\ ~Sends(Uploads!Ended(r, what, v))
<1> DEFINE e == Uploads!Ended(r, what, v)
<1>0. r.claimed \in Nat
  BY DEF PassRecord
<1>1. Uploads!Idle \in PassRecord
  BY DEF Uploads!Idle, PassRecord
<1>2. e \in PassRecord
  BY <1>0, <1>1 DEF Uploads!Ended, PassRecord
<1>3. e.at = what /\ e.claimed = r.claimed /\ e.shown = v
  BY <1>1 DEF Uploads!Ended, PassRecord
<1> HIDE DEF e
<1>4. PassOk(e, versions) /\ ~Sends(e)
  BY <1>3 DEF PassOk, Sends
<1>5. QED
  BY <1>2, <1>3, <1>4 DEF e

\* An upload settles: for the pass that made it and for those that wait for it.
LEMMA SettleKeeps ==
  ASSUME UploadInv, NEW p \in Pass, Sends(pass[p]),
         NEW what \in {"unavailable", "available"}, NEW v \in Nat,
         Uploads!Settle(p, what, v), what = "available" => v = pass[p].claimed,
         UNCHANGED <<file, versions, current>>,
         cache' \in [1..MaxConn -> [Versions -> Nat]], CacheIsFresh'
  PROVE  UploadInv'
<1> DEFINE Hears(q) == q = p \/ (pass[q].on = {p} /\ pass[q].at = "wait")
           E(q) == Uploads!Ended(pass[q], what, v)
<1>1. /\ pass \in [Pass -> PassRecord] /\ UploadTypes
      /\ \A q \in Pass : pass[q] \in PassRecord /\ PassOk(pass[q], versions)
  BY DEF UploadInv, UploadTypes
<1>2. pass' = [q \in Pass |-> IF Hears(q) THEN E(q) ELSE pass[q]]
  BY DEF Uploads!Settle
<1>3. ASSUME NEW q \in Pass, Hears(q)
      PROVE  /\ E(q) \in PassRecord /\ E(q).at = what /\ PassOk(E(q), versions)
             /\ ~Sends(E(q))
  <2>1. what = "available" => v >= pass[q].claimed
    <3>1. CASE q = p
      BY <1>1, <3>1 DEF PassRecord
    <3>2. CASE q # p
      <4>1. Same(pass[p], pass[q]) /\ pass[q].at = "wait"
        BY <1>3, <3>2 DEF UploadInv, WaitersAreHeard
      <4>2. pass[q].claimed = pass[p].key /\ pass[p].key <= pass[p].claimed
        BY <1>1, <4>1 DEF PassOk, Same
      <4>3. QED
        BY <1>1, <4>2 DEF PassRecord
    <3>3. QED
      BY <3>1, <3>2
  <2>2. pass[q] \in PassRecord /\ PassOk(pass[q], versions) /\ UploadTypes
    BY <1>1
  <2>3. what \in {"dropped", "unavailable", "available"}
    OBVIOUS
  <2>4. /\ Uploads!Ended(pass[q], what, v) \in PassRecord
        /\ Uploads!Ended(pass[q], what, v).at = what
        /\ PassOk(Uploads!Ended(pass[q], what, v), versions)
        /\ ~Sends(Uploads!Ended(pass[q], what, v))
    BY ONLY v \in Nat, <2>1, <2>2, <2>3, EndIsOk
  <2>5. QED
    BY <2>4
<1>4. \A q \in Pass : /\ Hears(q) => pass'[q] = E(q)
                      /\ ~Hears(q) => pass'[q] = pass[q]
  BY <1>2
<1> HIDE DEF E
<1>5. \A q \in Pass : pass'[q] \in PassRecord /\ PassOk(pass'[q], versions)
  BY <1>1, <1>3, <1>4
<1>6. UploadTypes'
  <2>1. pass' \in [Pass -> PassRecord]
    BY <1>2, <1>5
  <2>2. QED
    BY <1>1, <2>1 DEF UploadTypes
<1>7. \A q \in Pass : Sends(pass'[q]) => pass'[q] = pass[q]
  BY <1>3, <1>4
<1>8. OneSender'
  BY <1>7 DEF UploadInv, OneSender
<1>9. WaitersAreHeard'
  <2>1. SUFFICES ASSUME NEW x \in Pass, pass'[x].at = "wait"
                 PROVE  \E y \in Pass : y # x /\ pass'[x].on = {y} /\ Sends(pass'[y])
                                        /\ Same(pass'[y], pass'[x])
    BY DEF WaitersAreHeard
  <2>2. ~Hears(x) /\ pass'[x] = pass[x]
    BY <1>3, <1>4, <2>1
  <2>3. PICK y \in Pass : y # x /\ pass[x].on = {y} /\ Sends(pass[y]) /\ Same(pass[y], pass[x])
    BY <2>1, <2>2 DEF UploadInv, WaitersAreHeard
  <2>4. y # p /\ pass[y].at # "wait"
    BY <2>1, <2>2, <2>3 DEF Sends
  <2>5. pass'[y] = pass[y]
    BY <1>4, <2>4
  <2>6. QED
    BY <2>2, <2>3, <2>5
<1>10. QED
  BY <1>5, <1>6, <1>8, <1>9 DEF UploadInv

\* A pass that does not send ends.
LEMMA ShowKeeps ==
  ASSUME UploadInv, NEW p \in Pass, ~Sends(pass[p]),
         NEW what \in {"dropped", "unavailable", "available"}, NEW v \in Nat,
         what = "available" => v >= pass[p].claimed,
         Uploads!Show(p, what, v), UNCHANGED <<file, versions, current, cache>>
  PROVE  UploadInv'
<1> DEFINE e == Uploads!Ended(pass[p], what, v)
<1>1. pass[p] \in PassRecord /\ PassOk(pass[p], versions) /\ UploadTypes
  BY DEF UploadInv, UploadTypes
<1>2. e \in PassRecord /\ e.at = what /\ PassOk(e, versions) /\ ~Sends(e)
  BY <1>1, EndIsOk
<1>3. Uploads!Set(p, e)
  BY DEF Uploads!Show
<1> HIDE DEF e
<1>4. QED
  BY <1>2, <1>3, SetKeeps

\* A pass meets the attachment and looks for its record.
LEMMA MeetKeeps ==
  ASSUME UploadInv, NEW p \in Pass, Uploads!Meet(p) \/ Uploads!ReadRecord(p)
  PROVE  UploadInv'
<1> USE UploadConstants
<1>1. /\ UNCHANGED <<file, versions, current, cache>>
      /\ ~Sends(pass[p]) /\ current \in 1..MaxConn /\ versions \in Nat
      /\ pass[p] \in PassRecord /\ PassOk(pass[p], versions)
  BY DEF Uploads!Meet, Uploads!ReadRecord, Uploads!Rest, UploadInv, UploadTypes, Sends
<1>2. CASE Uploads!Meet(p)
  <2>1. PICK n \in {1, Waits + 1} :
          Uploads!Set(p, [Uploads!Idle EXCEPT !.at = "record", !.conn = current, !.reads = n])
    BY <1>2 DEF Uploads!Meet
  <2> DEFINE f == [Uploads!Idle EXCEPT !.at = "record", !.conn = current, !.reads = n]
  <2>2. Uploads!Idle \in PassRecord
    BY DEF Uploads!Idle, PassRecord
  <2>3. f \in PassRecord
    <3>1. n \in Nat /\ current \in Nat
      BY <1>1
    <3>2. QED
      BY <2>2, <3>1 DEF PassRecord
  <2>4. f.at = "record" /\ f.conn = current /\ f.claimed = Uploads!Idle.claimed
    BY <2>2 DEF PassRecord
  <2>5. Uploads!Idle.claimed = 0
    BY DEF Uploads!Idle
  <2> HIDE DEF f
  <2>6. PassOk(f, versions) /\ ~Sends(f)
    BY <1>1, <2>4, <2>5 DEF PassOk, Sends
  <2>7. Uploads!Set(p, f)
    BY <2>1 DEF f
  <2>8. QED
    BY <1>1, <2>3, <2>4, <2>6, <2>7, SetKeeps
<1>3. CASE Uploads!ReadRecord(p)
  <2>1. /\ pass[p].at = "record"
        /\ \/ Uploads!Set(p, [pass[p] EXCEPT !.at = "key"])
           \/ Uploads!Show(p, "dropped", 0) \/ Uploads!Show(p, "unavailable", 0)
           \/ pass[p].reads > 1 /\ Uploads!Set(p, [pass[p] EXCEPT !.reads = @ - 1])
    BY <1>3 DEF Uploads!ReadRecord
  <2>2. CASE Uploads!Show(p, "dropped", 0) \/ Uploads!Show(p, "unavailable", 0)
    BY <1>1, <2>2, ShowKeeps
  <2>3. ASSUME NEW f \in PassRecord, Uploads!Set(p, f), f.at \in {"record", "key"},
               f.conn = pass[p].conn, f.claimed = pass[p].claimed
        PROVE  UploadInv'
    <3>1. PassOk(f, versions) /\ ~Sends(f)
      BY <1>1, <2>1, <2>3 DEF PassOk, Sends
    <3>2. QED
      BY <1>1, <2>3, <3>1, SetKeeps
  <2>4. CASE Uploads!Set(p, [pass[p] EXCEPT !.at = "key"])
    <3> DEFINE f == [pass[p] EXCEPT !.at = "key"]
    <3>1. /\ f \in PassRecord /\ f.at = "key" /\ f.conn = pass[p].conn
          /\ f.claimed = pass[p].claimed
      BY <1>1 DEF PassRecord
    <3>2. QED
      BY <2>3, <2>4, <3>1
  <2>5. CASE pass[p].reads > 1 /\ Uploads!Set(p, [pass[p] EXCEPT !.reads = @ - 1])
    <3> DEFINE f == [pass[p] EXCEPT !.reads = @ - 1]
    <3>1. /\ f \in PassRecord /\ f.at = "record" /\ f.conn = pass[p].conn
          /\ f.claimed = pass[p].claimed
      BY <1>1, <2>1, <2>5 DEF PassRecord
    <3>2. QED
      BY <2>3, <2>5, <3>1
  <2>6. QED
    BY <2>1, <2>2, <2>4, <2>5
<1>4. QED
  BY <1>2, <1>3

\* A pass finds the file, and then what is cached of it, who sends it, or that it may send it.
LEMMA LookupKeeps ==
  ASSUME UploadInv, NEW p \in Pass, Uploads!StatForKey(p) \/ Uploads!Lookup(p)
  PROVE  UploadInv'
<1> USE UploadConstants
<1>1. /\ UNCHANGED <<file, versions, current, cache>> /\ ~Sends(pass[p])
      /\ pass[p] \in PassRecord /\ PassOk(pass[p], versions)
      /\ versions \in Versions /\ versions \in Nat /\ file \in {0, versions}
  BY DEF Uploads!StatForKey, Uploads!Lookup, Uploads!Rest, UploadInv, UploadTypes, Sends
<1>2. CASE Uploads!StatForKey(p)
  <2>1. CASE file = 0
    BY <1>1, <1>2, <2>1, ShowKeeps DEF Uploads!StatForKey
  <2>2. CASE file # 0
    <3> DEFINE f == [pass[p] EXCEPT !.at = "lookup", !.key = file, !.claimed = file]
    <3>1. Uploads!Set(p, f) /\ pass[p].at = "key"
      BY <1>2, <2>2 DEF Uploads!StatForKey, Uploads!CacheKey
    <3>2. /\ f \in PassRecord /\ f.at = "lookup" /\ f.key = file /\ f.claimed = file
          /\ f.conn = pass[p].conn
      <4>1. file \in Nat
        BY <1>1
      <4>2. QED
        BY <1>1, <4>1 DEF PassRecord
    <3> HIDE DEF f
    <3>3. PassOk(f, versions) /\ ~Sends(f)
      BY <1>1, <2>2, <3>1, <3>2 DEF PassOk, Sends
    <3>4. QED
      BY <1>1, <3>1, <3>2, <3>3, SetKeeps
  <2>3. QED
    BY <2>1, <2>2
<1>3. CASE Uploads!Lookup(p)
  <2> DEFINE me == pass[p]
             held == cache[me.conn][me.key]
             flight == Uploads!InFlight(p)
  <2>1. /\ me.at = "lookup" /\ me.conn \in 1..MaxConn /\ me.key \in Versions
        /\ me.claimed = me.key
    BY <1>1, <1>3 DEF Uploads!Lookup, PassOk
  <2>2. held \in Nat /\ (held > 0 => held >= me.claimed)
    <3>1. cache \in [1..MaxConn -> [Versions -> Nat]]
      BY DEF UploadInv, UploadTypes
    <3>2. held \in Nat
      BY <2>1, <3>1
    <3>3. held = 0 \/ held >= me.key
      BY <2>1 DEF UploadInv, CacheIsFresh
    <3>4. QED
      BY <2>1, <3>2, <3>3
  <2>3. flight = {q \in Pass \ {p} : Sends(pass[q]) /\ Same(pass[q], me)}
    BY DEF Uploads!InFlight, Uploads!Uploading, Sends, Same
  <2>4. \/ held > 0 /\ Uploads!Show(p, "available", held)
        \/ flight # {} /\ Uploads!Set(p, [me EXCEPT !.at = "wait", !.on = flight])
        \/ Uploads!Show(p, "unavailable", 0)
        \/ flight = {} /\ Uploads!Set(p, [me EXCEPT !.at = "stat"])
    BY <1>3, <2>2 DEF Uploads!Lookup
  <2>5. CASE \/ held > 0 /\ Uploads!Show(p, "available", held)
             \/ Uploads!Show(p, "unavailable", 0)
    BY <1>1, <2>2, <2>5, ShowKeeps
  <2>6. CASE flight # {} /\ Uploads!Set(p, [me EXCEPT !.at = "wait", !.on = flight])
    <3> DEFINE f == [me EXCEPT !.at = "wait", !.on = flight]
    <3>1. flight \subseteq Pass
      BY <2>3
    <3>2. /\ f \in PassRecord /\ f.at = "wait" /\ f.on = flight /\ f.key = me.key
          /\ f.claimed = me.claimed /\ f.conn = me.conn
      BY <1>1, <3>1 DEF PassRecord
    <3>3. PICK q \in flight : TRUE
      BY <2>6
    <3>4. q \in Pass /\ q # p /\ Sends(pass[q]) /\ Same(pass[q], me)
      BY <2>3, <3>3
    <3>5. flight = {q}
      BY <2>3, <3>3 DEF UploadInv, OneSender, Same
    <3> HIDE DEF f, flight
    <3>6. PassOk(f, versions) /\ ~Sends(f)
      BY <1>1, <2>1, <3>2 DEF PassOk, Sends
    <3>7. Same(pass[q], f)
      BY <3>2, <3>4 DEF Same
    <3>8. Uploads!Set(p, f)
      BY <2>6 DEF f
    <3>9. QED
      BY <1>1, <3>2, <3>4, <3>5, <3>6, <3>7, <3>8, SetKeeps
  <2>7. CASE flight = {} /\ Uploads!Set(p, [me EXCEPT !.at = "stat"])
    <3> DEFINE f == [me EXCEPT !.at = "stat"]
    <3>1. /\ f \in PassRecord /\ f.at = "stat" /\ f.key = me.key
          /\ f.claimed = me.claimed /\ f.conn = me.conn
      BY <1>1 DEF PassRecord
    <3>2. \A q \in Pass \ {p} : Sends(pass[q]) => ~Same(pass[q], me)
      BY <2>3, <2>7
    <3> HIDE DEF f, flight
    <3>3. PassOk(f, versions)
      BY <1>1, <2>1, <3>1 DEF PassOk, Sends, PassRecord
    <3>4. \A q \in Pass \ {p} : Sends(pass[q]) => ~Same(pass[q], f)
      BY <3>1, <3>2 DEF Same
    <3>5. Uploads!Set(p, f)
      BY <2>7 DEF f
    <3>6. QED
      BY <1>1, <3>1, <3>3, <3>4, <3>5, SetKeeps
  <2>8. QED
    BY <2>4, <2>5, <2>6, <2>7
<1>4. QED
  BY <1>2, <1>3

\* An upload that fails settles, or is tried again.
LEMMA FailKeeps ==
  ASSUME UploadInv, NEW p \in Pass, Sends(pass[p]), NEW code_, Uploads!Fail(p, code_),
         UNCHANGED <<file, versions, current>>
  PROVE  UploadInv'
<1>1. Uploads!Settle(p, "unavailable", 0) /\ UNCHANGED cache
  BY DEF Uploads!Fail
<1>2. cache' \in [1..MaxConn -> [Versions -> Nat]] /\ CacheIsFresh'
  BY <1>1 DEF UploadInv, UploadTypes, CacheIsFresh
<1>3. QED
  BY <1>1, <1>2, SettleKeeps

LEMMA AgainKeeps ==
  ASSUME UploadInv, NEW p \in Pass, Sends(pass[p]), NEW answer, Uploads!Again(p, answer),
         UNCHANGED <<file, versions, current>>
  PROVE  UploadInv'
<1>1. CASE Uploads!Fail(p, Uploads!Code(p, answer))
  BY <1>1, FailKeeps
<1>2. CASE Uploads!Set(p, [pass[p] EXCEPT !.try = @ + 1]) /\ UNCHANGED cache
  <2> DEFINE f == [pass[p] EXCEPT !.try = @ + 1]
  <2>1. pass[p] \in PassRecord /\ PassOk(pass[p], versions)
    BY DEF UploadInv, UploadTypes
  <2>2. /\ f \in PassRecord /\ f.at = pass[p].at /\ f.conn = pass[p].conn
        /\ f.key = pass[p].key /\ f.claimed = pass[p].claimed /\ f.shown = pass[p].shown
        /\ f.size = pass[p].size /\ f.whole = pass[p].whole /\ f.chunk = pass[p].chunk
        /\ f.chunkSize = pass[p].chunkSize /\ f.sent = pass[p].sent
    BY <2>1 DEF PassRecord
  <2>3. Uploads!Set(p, f) /\ UNCHANGED <<file, versions, current, cache>>
    BY <1>2
  <2> HIDE DEF f
  <2>4. PassOk(f, versions)
    BY <2>1, <2>2 DEF PassOk, Sends
  <2>5. Sends(f) /\ Same(f, pass[p]) /\ f.at # "wait"
    BY <2>2 DEF Sends, Same
  <2>6. QED
    BY <2>2, <2>3, <2>4, <2>5, SetKeeps
<1>3. QED
  BY <1>1, <1>2 DEF Uploads!Again

\* An upload goes on under its key.
LEMMA SendKeeps ==
  ASSUME UploadInv, NEW p \in Pass, Sends(pass[p]), NEW f \in PassRecord, PassOk(f, versions),
         Uploads!Set(p, f), UNCHANGED <<file, versions, current, cache>>,
         Sends(f), f.conn = pass[p].conn, f.key = pass[p].key
  PROVE  UploadInv'
<1>1. f.at # "wait" /\ Same(f, pass[p])
  BY DEF Sends, Same
<1>2. QED
  BY <1>1, SetKeeps

\* The file is looked at and hashed before it is sent.
LEMMA StatKeeps ==
  ASSUME UploadInv, NEW p \in Pass, Uploads!Stat(p) \/ Uploads!Hash(p)
  PROVE  UploadInv'
<1> USE UploadConstants
<1>1. /\ UNCHANGED <<file, versions, current>> /\ pass[p].at \in {"stat", "hash"}
      /\ pass[p] \in PassRecord /\ PassOk(pass[p], versions) /\ Sends(pass[p])
      /\ versions \in Versions /\ versions \in Nat /\ file \in {0, versions} /\ file \in Nat
  BY DEF Uploads!Stat, Uploads!Hash, Uploads!Rest, UploadInv, UploadTypes, Sends
<1>2. CASE file = 0
  <2>1. Uploads!Fail(p, "error")
    BY <1>2 DEF Uploads!Stat, Uploads!Hash
  <2>2. QED
    BY <1>1, <2>1, FailKeeps
<1>3. CASE file # 0
  <2>0. /\ pass[p].conn \in 1..MaxConn /\ pass[p].key \in Versions
        /\ pass[p].key <= pass[p].claimed /\ pass[p].claimed <= versions
        /\ pass[p].at = "hash" => pass[p].size = SizeOf[pass[p].claimed]
    BY <1>1 DEF PassOk, Sends
  <2>00. file = versions /\ pass[p].key \in Nat /\ pass[p].claimed \in Nat
    BY <1>1, <1>3, <2>0 DEF PassRecord
  <2>1. CASE Uploads!Stat(p)
    <3> DEFINE f == [pass[p] EXCEPT !.at = "hash", !.size = SizeOf[file], !.claimed = file]
    <3>1. Uploads!Set(p, f) /\ UNCHANGED cache
      BY <1>3, <2>1 DEF Uploads!Stat
    <3>2. SizeOf[file] \in Nat
      BY <1>1, <1>3
    <3>3. /\ f \in PassRecord /\ f.at = "hash" /\ f.conn = pass[p].conn
          /\ f.key = pass[p].key /\ f.claimed = file /\ f.size = SizeOf[file]
      BY <1>1, <3>2 DEF PassRecord
    <3> HIDE DEF f
    <3>4. PassOk(f, versions) /\ Sends(f)
      BY <1>1, <2>0, <2>00, <3>3 DEF PassOk, Sends
    <3>5. QED
      BY <1>1, <3>1, <3>3, <3>4, SendKeeps
  <2>2. CASE Uploads!Hash(p)
    <3> DEFINE w == (file = pass[p].claimed)
               f == [pass[p] EXCEPT !.at = "init", !.whole = w, !.claimed = file]
    <3>1. Uploads!Set(p, f) /\ UNCHANGED cache /\ pass[p].at = "hash"
      BY <1>3, <2>2 DEF Uploads!Hash
    <3>2. w \in BOOLEAN
      OBVIOUS
    <3>3. /\ f \in PassRecord /\ f.at = "init" /\ f.conn = pass[p].conn
          /\ f.key = pass[p].key /\ f.claimed = file /\ f.size = pass[p].size /\ f.whole = w
      BY <1>1, <3>2 DEF PassRecord
    <3>4. f.whole => f.size = SizeOf[f.claimed]
      BY <2>0, <3>1, <3>3
    <3> HIDE DEF f, w
    <3>5. PassOk(f, versions) /\ Sends(f)
      BY <1>1, <2>0, <2>00, <3>3, <3>4 DEF PassOk, Sends
    <3>6. QED
      BY <1>1, <3>1, <3>3, <3>5, SendKeeps
  <2>3. QED
    BY <2>1, <2>2
<1>4. QED
  BY <1>2, <1>3

\* The Relay is asked for an upload, and says how large a chunk may be.
LEMMA InitUploadKeeps ==
  ASSUME UploadInv, NEW p \in Pass, Uploads!InitUpload(p)
  PROVE  UploadInv'
<1> USE UploadConstants
<1>1. /\ UNCHANGED <<file, versions, current>> /\ pass[p].at = "init"
      /\ pass[p] \in PassRecord /\ PassOk(pass[p], versions) /\ Sends(pass[p])
  BY DEF Uploads!InitUpload, UploadInv, UploadTypes, Sends
<1>2. \/ \E answer \in {"expired", "lost", "ok", "refused"} : Uploads!Again(p, answer)
      \/ Uploads!Fail(p, "error")
      \/ \E size \in ChunkSizes :
           /\ Uploads!Set(p, [pass[p] EXCEPT !.at = "chunk", !.try = 1, !.chunk = 0,
                                             !.chunkSize = size, !.sent = {}])
           /\ UNCHANGED cache
  BY DEF Uploads!InitUpload
<1>3. ASSUME NEW size \in ChunkSizes, UNCHANGED cache,
             Uploads!Set(p, [pass[p] EXCEPT !.at = "chunk", !.try = 1, !.chunk = 0,
                                            !.chunkSize = size, !.sent = {}])
      PROVE  UploadInv'
  <2> DEFINE f == [pass[p] EXCEPT !.at = "chunk", !.try = 1, !.chunk = 0,
                                  !.chunkSize = size, !.sent = {}]
  <2>1. size \in Nat \ {0}
    OBVIOUS
  <2>2. /\ f \in PassRecord /\ f.at = "chunk" /\ f.conn = pass[p].conn /\ f.key = pass[p].key
        /\ f.claimed = pass[p].claimed /\ f.size = pass[p].size /\ f.whole = pass[p].whole
        /\ f.chunk = 0 /\ f.chunkSize = size /\ f.sent = {}
    BY <1>1, <2>1 DEF PassRecord
  <2>3. f.size \in Nat
    BY <2>2 DEF PassRecord
  <2>4. 0 < Uploads!TotalChunks(f.size, size)
    BY <2>1, <2>3, ChunksCover
  <2>5. 0..(Uploads!Least(f.size, 0 * size) - 1) = {}
    BY <2>1, <2>3 DEF Uploads!Least
  <2>6. Uploads!Set(p, f)
    BY <1>3
  <2> HIDE DEF f
  <2>7. PassOk(f, versions) /\ Sends(f)
    BY <1>1, <2>2, <2>4, <2>5 DEF PassOk, Sends
  <2>8. QED
    BY <1>1, <1>3, <2>2, <2>6, <2>7, SendKeeps
<1>4. QED
  BY <1>1, <1>2, <1>3, AgainKeeps, FailKeeps

\* What is read of a file that holds still is its next chunk.
LEMMA ChunkFollows ==
  ASSUME NEW size \in Nat, NEW c \in Nat \ {0}, NEW i \in Nat,
         i < Uploads!TotalChunks(size, c)
  PROVE  /\ (0..(Uploads!Least(size, i * c) - 1))
              \cup ((i * c)..(Uploads!Least(Uploads!Least(size, size), (i + 1) * c) - 1))
            = 0..(Uploads!Least(size, (i + 1) * c) - 1)
         /\ i + 1 = Uploads!TotalChunks(size, c) => Uploads!Least(size, (i + 1) * c) = size
<1> DEFINE n == Uploads!TotalChunks(size, c)
           x == i * c
           y == (i + 1) * c
<1>1. n \in Nat \ {0} /\ n * c >= size /\ (size = 0 \/ x < size)
  BY ChunksCover
<1>2. x \in Nat /\ y = x + c /\ y \in Nat
  OBVIOUS
<1>3. i + 1 = n => y >= size
  BY <1>1
<1> HIDE DEF x, y, n
<1>4. Uploads!Least(size, size) = size
  BY DEF Uploads!Least
<1>5. CASE size = 0
  <2>1. Uploads!Least(size, x) = 0 /\ Uploads!Least(size, y) = 0
    BY <1>2, <1>5 DEF Uploads!Least
  <2>2. (0..(0 - 1)) = {} /\ (x..(0 - 1)) = {}
    BY <1>2
  <2>3. QED
    BY <1>4, <1>5, <2>1, <2>2 DEF x, y
<1>6. CASE size # 0
  <2>1. Uploads!Least(size, x) = x
    BY <1>1, <1>2, <1>6 DEF Uploads!Least
  <2> DEFINE z == Uploads!Least(size, y)
  <2>2. z \in Nat /\ x < z /\ (i + 1 = n => z = size)
    BY <1>1, <1>2, <1>3, <1>6 DEF Uploads!Least
  <2> HIDE DEF z
  <2>3. (0..(x - 1)) \cup (x..(z - 1)) = 0..(z - 1)
    BY <1>2, <2>2
  <2>4. QED
    BY <1>4, <2>1, <2>2, <2>3 DEF x, y, z, n
<1>7. QED
  BY <1>5, <1>6

\* A chunk is sent.
LEMMA PutChunkKeeps ==
  ASSUME UploadInv, NEW p \in Pass, Uploads!PutChunk(p)
  PROVE  UploadInv'
<1> USE UploadConstants
<1> DEFINE me == pass[p]
           n == Uploads!TotalChunks(me.size, me.chunkSize)
           read == Uploads!ReadChunk(me, file)
           at == IF me.chunk + 1 = n THEN "complete" ELSE "chunk"
           sent_ == me.sent \cup read
           w == me.whole /\ file \in {0, me.claimed}
           chunk_ == me.chunk + 1
           f == [me EXCEPT !.try = 1, !.chunk = chunk_, !.at = at, !.sent = sent_, !.whole = w]
<1>1. /\ UNCHANGED <<file, versions, current>> /\ me.at = "chunk"
      /\ me \in PassRecord /\ PassOk(me, versions) /\ Sends(me)
      /\ file \in {0} \cup Versions
  BY DEF Uploads!PutChunk, Uploads!Rest, UploadInv, UploadTypes, Sends
<1>2. \/ \E answer \in {"ok", "lost", "refused"} : Uploads!Again(p, answer)
      \/ Uploads!Set(p, f) /\ UNCHANGED cache
  BY DEF Uploads!PutChunk
<1>3. /\ me.size \in Nat /\ me.chunkSize \in Nat \ {0} /\ me.chunk \in Nat
      /\ me.whole \in BOOLEAN /\ me.sent \in SUBSET Int
  BY <1>1 DEF PassRecord
<1>4. /\ me.chunk < n /\ me.key \in Versions /\ me.key <= me.claimed /\ me.claimed <= versions
      /\ me.conn \in 1..MaxConn
      /\ me.whole => /\ me.claimed \in Versions /\ me.size = SizeOf[me.claimed]
                     /\ me.sent = 0..(Uploads!Least(me.size, me.chunk * me.chunkSize) - 1)
  BY <1>1 DEF PassOk, Sends
<1>5. read \subseteq Int
  <2> DEFINE x == me.chunk * me.chunkSize
             y == (me.chunk + 1) * me.chunkSize
             l == IF file = 0 THEN me.size ELSE SizeOf[file]
  <2>1. x \in Int /\ y \in Int
    BY <1>3
  <2>2. l \in Int
    BY <1>1, <1>3
  <2>3. read = x..(Uploads!Least(Uploads!Least(me.size, l), y) - 1)
    BY DEF Uploads!ReadChunk
  <2> HIDE DEF x, y, l, read
  <2>4. Uploads!Least(Uploads!Least(me.size, l), y) \in Int
    BY <1>3, <2>1, <2>2 DEF Uploads!Least
  <2>5. QED
    BY <2>1, <2>3, <2>4
<1>6. w => read = (me.chunk * me.chunkSize)..
                    (Uploads!Least(Uploads!Least(me.size, me.size),
                                   (me.chunk + 1) * me.chunkSize) - 1)
  BY <1>1, <1>4 DEF Uploads!ReadChunk
<1>7. w => sent_ = 0..(Uploads!Least(me.size, (me.chunk + 1) * me.chunkSize) - 1)
  <2> DEFINE x == 0..(Uploads!Least(me.size, me.chunk * me.chunkSize) - 1)
             y == (me.chunk * me.chunkSize)..
                    (Uploads!Least(Uploads!Least(me.size, me.size),
                                   (me.chunk + 1) * me.chunkSize) - 1)
             z == 0..(Uploads!Least(me.size, (me.chunk + 1) * me.chunkSize) - 1)
  <2>1. x \cup y = z
    <3> DEFINE size == me.size
               c == me.chunkSize
               i == me.chunk
    <3>1. size \in Nat /\ c \in Nat \ {0} /\ i \in Nat /\ i < Uploads!TotalChunks(size, c)
      BY <1>3, <1>4
    <3> HIDE DEF size, c, i
    <3>2. (0..(Uploads!Least(size, i * c) - 1))
            \cup ((i * c)..(Uploads!Least(Uploads!Least(size, size), (i + 1) * c) - 1))
          = 0..(Uploads!Least(size, (i + 1) * c) - 1)
      BY ONLY <3>1, ChunkFollows
    <3>3. QED
      BY <3>2 DEF size, c, i
  <2>2. w => me.sent = x /\ read = y
    BY <1>4, <1>6
  <2> HIDE DEF x, y, z, read, w
  <2>3. QED
    BY <2>1, <2>2 DEF z
<1>8. me.chunk + 1 = n => Uploads!Least(me.size, (me.chunk + 1) * me.chunkSize) = me.size
  BY <1>3, <1>4, ChunkFollows
<1>9. n \in Nat
  BY <1>3, ChunksCover
<1>10. at \in {"complete", "chunk"} /\ sent_ \in SUBSET Int /\ w \in BOOLEAN
  BY <1>3, <1>5
<1>11. /\ at = "complete" <=> me.chunk + 1 = n
       /\ w => me.whole
       /\ chunk_ = me.chunk + 1 /\ chunk_ \in Nat
  BY <1>3
<1> HIDE DEF read, n, at, sent_, w, chunk_
<1>12. f \in PassRecord
  BY <1>1, <1>10, <1>11 DEF PassRecord
<1>13. /\ f.at = at /\ f.conn = me.conn /\ f.key = me.key /\ f.claimed = me.claimed
       /\ f.size = me.size /\ f.chunkSize = me.chunkSize /\ f.chunk = chunk_
       /\ f.sent = sent_ /\ f.whole = w
  BY <1>1 DEF PassRecord
<1> HIDE DEF f
<1>14. PassOk(f, versions) /\ Sends(f)
  <2>1. f.at = "chunk" => f.chunk < Uploads!TotalChunks(f.size, f.chunkSize)
    BY <1>3, <1>4, <1>9, <1>10, <1>11, <1>13 DEF n
  <2>2. f.whole =>
          /\ f.claimed \in Versions /\ f.size = SizeOf[f.claimed]
          /\ f.sent = 0..(Uploads!Least(f.size, f.chunk * f.chunkSize) - 1)
    BY <1>4, <1>7, <1>11, <1>13
  <2>3. f.at = "complete" /\ f.whole => f.sent = 0..(f.size - 1)
    BY <1>7, <1>8, <1>11, <1>13
  <2>4. f.at \in {"chunk", "complete"}
    BY <1>10, <1>13
  <2>5. QED
    BY <1>4, <1>13, <2>1, <2>2, <2>3, <2>4 DEF PassOk, Sends
<1>15. QED
  BY <1>1, <1>2, <1>12, <1>13, <1>14, AgainKeeps, SendKeeps

\* The Relay has the file, and the cache learns of it.
LEMMA CompleteKeeps ==
  ASSUME UploadInv, NEW p \in Pass, Uploads!Complete(p)
  PROVE  UploadInv'
<1> USE UploadConstants
<1> DEFINE me == pass[p]
<1>1. /\ UNCHANGED <<file, versions, current>> /\ me.at = "complete"
      /\ me \in PassRecord /\ PassOk(me, versions) /\ Sends(me)
      /\ cache \in [1..MaxConn -> [Versions -> Nat]]
  BY DEF Uploads!Complete, Uploads!Rest, UploadInv, UploadTypes, Sends
<1>2. \/ \E answer \in {"ok", "lost", "refused"} : Uploads!Again(p, answer)
      \/ /\ cache' = [cache EXCEPT ![me.conn][me.key] = me.claimed]
         /\ Uploads!Settle(p, "available", me.claimed)
  BY DEF Uploads!Complete
<1>3. CASE /\ cache' = [cache EXCEPT ![me.conn][me.key] = me.claimed]
           /\ Uploads!Settle(p, "available", me.claimed)
  <2>1. /\ me.conn \in 1..MaxConn /\ me.key \in Versions /\ me.claimed \in Nat
        /\ me.key <= me.claimed
    BY <1>1 DEF PassOk, PassRecord
  <2> DEFINE c == me.conn
             k == me.key
             v == me.claimed
  <2> HIDE DEF c, k, v
  <2>2. cache' = [cache EXCEPT ![c][k] = v] /\ c \in 1..MaxConn /\ k \in Versions /\ v \in Nat
        /\ k <= v
    BY <1>3, <2>1 DEF c, k, v
  <2>3. cache' \in [1..MaxConn -> [Versions -> Nat]]
    BY <1>1, <2>2
  <2>4. \A d \in 1..MaxConn, j \in Versions :
          cache'[d][j] = IF d = c /\ j = k THEN v ELSE cache[d][j]
    BY <1>1, <2>2
  <2>5. CacheIsFresh'
    BY <2>2, <2>4 DEF UploadInv, CacheIsFresh
  <2>6. QED
    BY <1>1, <1>3, <2>1, <2>3, <2>5, SettleKeeps
<1>4. QED
  BY <1>1, <1>2, <1>3, AgainKeeps

\* OpenClaw, the Relay and the network do not touch the passes.
LEMMA AroundKeeps ==
  ASSUME UploadInv,
         \/ Uploads!Rewrite \/ Uploads!Remove \/ Uploads!Commit \/ Uploads!CleanUp
         \/ Uploads!Reconnect \/ (\E k \in Uploads!Keys : Uploads!RelayForgets(k))
         \/ UNCHANGED Uploads!vars
  PROVE  UploadInv'
<1> USE UploadConstants
<1>0. /\ versions \in Versions /\ file \in {0, versions} /\ current \in 1..MaxConn
      /\ versions \in Nat /\ MaxConn \in Nat
  BY DEF UploadInv, UploadTypes
<1>1. /\ UNCHANGED <<pass, cache>> /\ versions' \in Versions /\ file' \in {0, versions'}
      /\ versions' >= versions /\ current' \in 1..MaxConn /\ versions' \in Nat
  <2>1. CASE Uploads!Rewrite \/ Uploads!Remove
    BY <1>0, <2>1 DEF Uploads!Rewrite, Uploads!Remove
  <2>2. CASE Uploads!Reconnect
    BY <1>0, <2>2 DEF Uploads!Reconnect
  <2>3. CASE Uploads!Commit \/ Uploads!CleanUp \/ UNCHANGED Uploads!vars
    BY <1>0, <2>3 DEF Uploads!Commit, Uploads!CleanUp, Uploads!vars
  <2>4. ASSUME NEW k, Uploads!RelayForgets(k)
        PROVE  UNCHANGED <<pass, cache, versions, file, current>>
    BY <2>4 DEF Uploads!RelayForgets
  <2>5. QED
    BY <1>0, <2>1, <2>2, <2>3, <2>4
<1>2. UploadTypes' /\ CacheIsFresh' /\ WaitersAreHeard' /\ OneSender'
  BY <1>1 DEF UploadInv, UploadTypes, CacheIsFresh, WaitersAreHeard, OneSender
<1>3. ASSUME NEW p \in Pass
      PROVE  PassOk(pass'[p], versions')
  <2>1. PassOk(pass[p], versions) /\ pass[p].claimed \in Nat
    BY DEF UploadInv, UploadTypes, PassRecord
  <2>2. pass'[p] = pass[p] /\ pass[p].claimed <= versions'
    BY <1>0, <1>1, <2>1 DEF PassOk
  <2>3. PassOk(pass[p], versions')
    BY <2>1, <2>2 DEF PassOk
  <2>4. QED
    BY <2>2, <2>3
<1>4. QED
  BY <1>2, <1>3 DEF UploadInv

\* Every step keeps the invariant.
LEMMA NextKeepsUploads ==
  ASSUME UploadInv, [Uploads!Next]_(Uploads!vars)
  PROVE  UploadInv'
BY MeetKeeps, LookupKeeps, StatKeeps, InitUploadKeeps, PutChunkKeeps, CompleteKeeps, AroundKeeps
   DEF Uploads!Next

-----------------------------------------------------------------------------
(* The turns of Hermes and their sessions.                                 *)

\* The shapes of the turns' state.
TurnRecord ==
  [n : Nat, pc : {"idle", "api", "ensure", "cli", "stream", "run", "select", "recover"},
   resume : Nat, mapped : Nat, before : SUBSET Nat, head : Int, stop : BOOLEAN, files : BOOLEAN]
RowRecord == [s : Nat \ {0}, by : Chat!Turn, kind : {"prompt", "answer"}, on : BOOLEAN]
ChildRecord ==
  [s : Nat, stage : {"none", "spawned", "prompted", "served", "answered", "ended",
                      "failed", "missing"}]
Answers == {"done", "failed", "aborted", "left"}

TurnTypes ==
  /\ rows \in Seq(RowRecord)
  /\ made \in Nat /\ deleted \subseteq 1..made
  /\ titled \in [Key -> Nat] /\ alias \in [Key -> Nat]
  /\ turn \in [Key -> TurnRecord]
  /\ child \in [Chat!Turn -> ChildRecord]
  /\ outcome \in [Chat!Turn -> {"open"} \cup Answers]
  /\ \A k \in Key : turn[k].n > 0 => Chat!Now(k) \in Chat!Turn

\* The sessions of a key: the one it is mapped to, the one of its name, and those its turns
\* resume, run in or wrote to.
Has(k, s) ==
  \/ s = alias[k] \/ s = titled[k] \/ s = turn[k].resume \/ s = turn[k].mapped
  \/ \E t \in Chat!Turn : t[1] = k /\ child[t].s = s
  \/ \E i \in 1..Len(rows) : rows[i].by[1] = k /\ rows[i].s = s

\* No two keys have a session in common.
SessionsApart ==
  /\ \A k \in Key, s \in Nat : Has(k, s) => s <= made
  /\ \A j, k \in Key, s \in Nat : j # k /\ s # 0 => ~(Has(j, s) /\ Has(k, s))

\* Turns are answered one after the other, each once; a process that is not there, or whose
\* turn was aborted, will write no prompt, and the server serves no turn that is still there.
AnswersOnce(k) ==
  /\ \A t \in Chat!Turn : t[1] = k =>
       /\ outcome[t] = "open" <=> t[2] > turn[k].n \/ (t[2] = turn[k].n /\ turn[k].pc # "idle")
       /\ t[2] > turn[k].n => child[t].stage = "none"
       /\ outcome[t] = "aborted" => child[t].stage # "spawned"
       /\ child[t].stage \in {"prompted", "served", "answered", "ended"} => child[t].s # 0
       /\ child[t].stage = "served" => outcome[t] \in {"failed", "left"}
       /\ child[t].stage = "none" => child[t].s = 0
  /\ \A i \in 1..Len(rows) : rows[i].by[1] = k => rows[i].by[2] <= turn[k].n

\* The rows of the turn a key is in.
Mine(k) == {i \in 1..Len(rows) : rows[i].by = Chat!Now(k)}

\* While a process runs for a turn, the turn's rows are where the process writes, after the
\* head that was read before; a session it made is the turn's alone and was not there before.
ProcessOk(k, c) ==
  /\ c.stage # "none"
  /\ turn[k].head <= Len(rows)
  /\ \A i \in Mine(k) : rows[i].s = c.s /\ i > turn[k].head
  /\ c.stage \in {"spawned", "missing"} => Mine(k) = {}
  /\ turn[k].resume # 0 => c.s = turn[k].resume
  /\ \A s \in turn[k].before : s <= made
  /\ turn[k].resume = 0 /\ c.s # 0 =>
       /\ c.s \notin turn[k].before /\ (turn[k].pc # "recover" => c.s \notin deleted)
       /\ \A t \in Chat!Turn : t # Chat!Now(k) => child[t].s # c.s
       /\ \A i \in 1..Len(rows) : rows[i].s = c.s => rows[i].by = Chat!Now(k)
  /\ turn[k].pc = "select" => c.s # 0
  /\ turn[k].pc = "recover" => c.stage \in {"ended", "failed", "missing"}

\* A turn resumes the session its key is mapped to or the one of its name, unless the key has
\* forgotten its own since; before it writes it has no rows and no process.
TurnOk(k) ==
  /\ turn[k].pc = "idle" => turn[k].resume = 0 /\ turn[k].mapped = 0
  /\ turn[k].pc # "idle" =>
       /\ turn[k].n > 0
       /\ turn[k].resume = 0 => alias[k] = 0
       /\ turn[k].resume # 0 =>
            /\ turn[k].resume \in {alias[k], titled[k]} \/ alias[k] = 0
            /\ turn[k].mapped # turn[k].resume => alias[k] \in {0, titled[k]}
  /\ turn[k].pc \in {"api", "ensure", "cli", "stream"} => child[Chat!Now(k)].stage = "none"
  /\ turn[k].pc \in {"api", "ensure", "cli"} => Mine(k) = {}
  /\ turn[k].pc = "ensure" => turn[k].resume = 0
  /\ turn[k].pc = "stream" => turn[k].resume # 0
  /\ turn[k].pc \in {"run", "select", "recover"} => ProcessOk(k, child[Chat!Now(k)])

\* A row may be rewound when its turn was answered, that of a completed turn only behind the
\* prompt of a later one that was aborted.
Excused(i) ==
  /\ outcome[rows[i].by] # "open"
  /\ outcome[rows[i].by] = "done" =>
       \E j \in 1..(i - 1) :
         /\ rows[j].s = rows[i].s /\ rows[j].kind = "prompt" /\ outcome[rows[j].by] = "aborted"
         /\ rows[j].by[1] = rows[i].by[1] /\ rows[j].by[2] > rows[i].by[2]

RewindsOk(k) == \A i \in 1..Len(rows) : rows[i].by[1] = k /\ ~rows[i].on => Excused(i)

\* No cancelled prompt is in the session the key is mapped to, nor in the one its turn resumes.
Clean(s) ==
  \A i \in 1..Len(rows) : rows[i].s = s /\ rows[i].on /\ rows[i].kind = "prompt" =>
     outcome[rows[i].by] # "aborted"
PromptsGo(k) == \A s \in {alias[k], turn[k].resume} \ {0, titled[k]} : Clean(s)

KeyOk(k) == AnswersOnce(k) /\ TurnOk(k) /\ RewindsOk(k) /\ PromptsGo(k)

TurnInv == TurnTypes /\ SessionsApart /\ \A k \in Key : KeyOk(k)

\* Nothing of a key is touched.
Still(k) ==
  /\ turn'[k] = turn[k] /\ alias'[k] = alias[k] /\ titled'[k] = titled[k]
  /\ \A t \in Chat!Turn : t[1] = k => child'[t] = child[t] /\ outcome'[t] = outcome[t]
  /\ \A i \in 1..Len(rows') : rows'[i].by[1] = k => i <= Len(rows) /\ rows'[i] = rows[i]
  /\ \A i \in 1..Len(rows) : rows[i].by[1] = k => rows'[i] = rows[i]

\* The rows stay, but those of the key may be switched off; its turn may add some.
Rewritten(k) ==
  /\ rows' \in Seq(RowRecord) /\ Len(rows) <= Len(rows')
  /\ \A i \in 1..Len(rows) :
       /\ rows'[i].s = rows[i].s /\ rows'[i].by = rows[i].by /\ rows'[i].kind = rows[i].kind
       /\ rows'[i].on => rows[i].on
       /\ rows[i].by[1] # k => rows'[i] = rows[i]
  /\ \A i \in 1..Len(rows') : i > Len(rows) => rows'[i].by = Chat!Now(k) /\ Has(k, rows'[i].s)

\* A set of numbers that is not empty has a smallest one, and a bounded one a greatest.
LEMMA Smallest ==
  ASSUME NEW S, S \subseteq Nat, S # {}
  PROVE  Chat!Min(S) \in S /\ \A y \in S : Chat!Min(S) <= y
<1>1. \E n \in S : \A m \in S : <<m, n>> \notin Precedes
  BY PrecedesIsWellFounded, WFMin, Zenon
<1>2. PICK n \in S : \A m \in S : <<m, n>> \notin Precedes
  BY <1>1
<1>3. ASSUME NEW m \in S
      PROVE  n <= m
  <2>1. m \in Nat /\ n \in Nat /\ <<m, n>> \notin Precedes
    BY <1>2
  <2>2. CASE m < n
    <3>1. <<m, n>> \in Precedes
      BY <2>1, <2>2 DEF Precedes
    <3>2. QED
      BY <2>1, <3>1
  <2>3. QED
    BY <2>1, <2>2
<1>4. \E x \in S : \A y \in S : x <= y
  BY <1>3
<1>5. QED
  BY <1>4 DEF Chat!Min

LEMMA Greatest ==
  ASSUME NEW n \in Nat, NEW S, S \subseteq 1..n, S # {}
  PROVE  Chat!Max(S) \in S
<1> DEFINE D == {d \in Nat : n - d \in S}
<1>1. D # {} /\ D \subseteq Nat
  <2>1. PICK x \in S : TRUE
    OBVIOUS
  <2>2. x \in 1..n
    BY <2>1
  <2>3. n - x \in Nat /\ n - (n - x) = x
    BY <2>2
  <2>4. n - x \in D
    BY <2>1, <2>3
  <2>5. QED
    BY <2>4
<1> DEFINE d == Chat!Min(D)
<1>2. d \in D /\ \A e \in D : d <= e
  <2> HIDE DEF D
  <2>1. QED
    BY <1>1, Smallest
<1> HIDE DEF d
<1>3. ASSUME NEW y \in S
      PROVE  n - d >= y
  <2>1. y \in 1..n /\ n - y \in Nat /\ n - (n - y) = y
    OBVIOUS
  <2>2. n - y \in D
    BY <2>1
  <2>3. QED
    BY <1>2, <2>1, <2>2
<1>4. \E x \in S : \A y \in S : x >= y
  BY <1>2, <1>3
<1>5. QED
  BY <1>4 DEF Chat!Max

\* A turn is its key and its number.
LEMMA TurnShape ==
  \A t \in Chat!Turn : t[1] \in Key /\ t[2] \in Nat \ {0} /\ t = <<t[1], t[2]>>
<1>1. ASSUME NEW t \in Chat!Turn
      PROVE  t[1] \in Key /\ t[2] \in Nat \ {0} /\ t = <<t[1], t[2]>>
  <2>1. PICK k \in Key, most \in Turns : t \in {k} \X (1..most[k])
    BY DEF Chat!Turn
  <2>2. most[k] \in Nat
    BY TurnConstants
  <2>3. QED
    BY <2>1, <2>2
<1>2. QED
  BY <1>1

LEMMA ThisTurn ==
  ASSUME NEW k \in Key
  PROVE  /\ Chat!Now(k)[1] = k /\ Chat!Now(k)[2] = turn[k].n
         /\ \A t \in Chat!Turn : t = Chat!Now(k) <=> t[1] = k /\ t[2] = turn[k].n
BY TurnShape DEF Chat!Now

\* A key that is not touched has the sessions it had.
LEMMA StillHas ==
  ASSUME NEW k \in Key, Still(k), NEW s, Has(k, s)'
  PROVE  Has(k, s)
<1>1. \/ s = alias'[k] \/ s = titled'[k] \/ s = turn'[k].resume \/ s = turn'[k].mapped
      \/ \E t \in Chat!Turn : t[1] = k /\ child'[t].s = s
      \/ \E i \in 1..Len(rows') : rows'[i].by[1] = k /\ rows'[i].s = s
  BY DEF Has
<1>2. CASE \E t \in Chat!Turn : t[1] = k /\ child'[t].s = s
  BY <1>2 DEF Has, Still
<1>3. CASE \E i \in 1..Len(rows') : rows'[i].by[1] = k /\ rows'[i].s = s
  <2>1. PICK i \in 1..Len(rows') : rows'[i].by[1] = k /\ rows'[i].s = s
    BY <1>3
  <2>2. i <= Len(rows) /\ rows'[i] = rows[i]
    BY <2>1 DEF Still
  <2>3. i \in 1..Len(rows)
    BY <2>1, <2>2
  <2>4. QED
    BY <2>1, <2>2, <2>3 DEF Has
<1>4. QED
  BY <1>1, <1>2, <1>3 DEF Has, Still

\* A step of one key leaves the sessions apart, if it takes for it at most one that is new.
LEMMA SessionsStayApart ==
  ASSUME TurnInv, NEW k \in Key, \A j \in Key \ {k} : Still(j), made' \in {made, made + 1},
         \A s \in Nat : Has(k, s)' => s = 0 \/ Has(k, s) \/ (s = made + 1 /\ made' = s)
  PROVE  SessionsApart'
<1>1. made \in Nat /\ SessionsApart
  BY DEF TurnInv, TurnTypes
<1>2. \A j \in Key \ {k}, s \in Nat : Has(j, s)' => Has(j, s)
  BY StillHas
<1>3. \A j \in Key, s \in Nat : Has(j, s)' => s <= made'
  BY <1>1, <1>2 DEF SessionsApart
<1>4. ASSUME NEW j \in Key, NEW i \in Key, NEW s \in Nat, j # i, s # 0, Has(j, s)', Has(i, s)'
      PROVE  FALSE
  BY <1>1, <1>2, <1>4 DEF SessionsApart
<1>5. QED
  BY <1>3, <1>4 DEF SessionsApart

\* What is true of a key stays so while it is not touched.
LEMMA StillKeeps ==
  ASSUME TurnInv, NEW k \in Key, Still(k), TurnTypes', SessionsApart', UNCHANGED deleted,
         made <= made', Len(rows) <= Len(rows')
  PROVE  KeyOk(k)'
<1> DEFINE me == Chat!Now(k)
<1>1. /\ turn'[k] = turn[k] /\ alias'[k] = alias[k] /\ titled'[k] = titled[k]
      /\ Chat!Now(k)' = me /\ KeyOk(k)
  BY DEF Still, Chat!Now, TurnInv
<1>2. /\ Len(rows) \in Nat /\ Len(rows') \in Nat /\ made \in Nat /\ made' \in Nat
      /\ turn[k] \in TurnRecord /\ alias[k] \in Nat /\ titled[k] \in Nat
  BY DEF TurnInv, TurnTypes
<1>3. \A i \in 1..Len(rows') : rows'[i].by[1] = k => i \in 1..Len(rows) /\ rows'[i] = rows[i]
  BY <1>2 DEF Still
<1>4. \A i \in 1..Len(rows) : rows[i].by[1] = k => i \in 1..Len(rows') /\ rows'[i] = rows[i]
  BY <1>2 DEF Still
<1>5. \A t \in Chat!Turn : t[1] = k => child'[t] = child[t] /\ outcome'[t] = outcome[t]
  BY DEF Still
<1>6. \A i \in 1..Len(rows') : rows'[i].by \in Chat!Turn /\ rows'[i].by[1] \in Key
                               /\ rows'[i].s \in Nat \ {0}
  <2>1. \A i \in 1..Len(rows') : rows'[i] \in RowRecord
    BY DEF TurnTypes
  <2>2. QED
    BY <2>1, TurnShape DEF RowRecord
<1>7. \A t \in Chat!Turn : t[1] \in Key /\ child'[t].s \in Nat
  <2>1. \A t \in Chat!Turn : child'[t] \in ChildRecord
    BY DEF TurnTypes
  <2>2. QED
    BY <2>1, TurnShape DEF ChildRecord
\* no row of another key, and no process of one, is in a session of this one
<1>8. ASSUME NEW s \in Nat \ {0}, Has(k, s)'
      PROVE  /\ \A i \in 1..Len(rows') : rows'[i].s = s => rows'[i].by[1] = k
             /\ \A t \in Chat!Turn : child'[t].s = s => t[1] = k
  <2>1. ASSUME NEW j \in Key, j # k
        PROVE  ~Has(j, s)'
    BY <1>8, <2>1 DEF SessionsApart
  <2>2. ASSUME NEW i \in 1..Len(rows'), rows'[i].s = s, NEW j \in Key, rows'[i].by[1] = j,
               j # k
        PROVE  FALSE
    <3>1. Has(j, s)'
      BY <2>2 DEF Has
    <3>2. QED
      BY <2>1, <2>2, <3>1
  <2>3. ASSUME NEW t \in Chat!Turn, child'[t].s = s, t[1] # k
        PROVE  FALSE
    <3>1. Has(t[1], s)'
      BY <2>3 DEF Has
    <3>2. QED
      BY <1>7, <2>1, <2>3, <3>1
  <2>4. QED
    BY <1>6, <2>2, <2>3
<1>9. me[1] = k /\ (turn[k].n > 0 => me \in Chat!Turn)
  BY ThisTurn DEF TurnInv, TurnTypes
<1> HIDE DEF me
<1>10. AnswersOnce(k)'
  <2>1. AnswersOnce(k)
    BY <1>1 DEF KeyOk
  <2>2. QED
    BY <1>1, <1>3, <1>5, <2>1 DEF AnswersOnce
<1>11. RewindsOk(k)'
  <2>1. RewindsOk(k)
    BY <1>1 DEF KeyOk
  <2>2. ASSUME NEW i \in 1..Len(rows'), rows'[i].by[1] = k, ~rows'[i].on
        PROVE  Excused(i)'
    <3>1. i \in 1..Len(rows) /\ rows'[i] = rows[i] /\ rows[i].by \in Chat!Turn
      BY <1>3, <1>6, <2>2
    <3>2. outcome'[rows[i].by] = outcome[rows[i].by]
      BY <1>5, <2>2, <3>1
    <3>3. outcome[rows[i].by] # "open"
      BY <2>1, <2>2, <3>1 DEF RewindsOk, Excused
    <3>4. ASSUME outcome[rows[i].by] = "done"
          PROVE  \E j \in 1..(i - 1) :
                   /\ rows'[j].s = rows'[i].s /\ rows'[j].kind = "prompt"
                   /\ outcome'[rows'[j].by] = "aborted"
                   /\ rows'[j].by[1] = rows'[i].by[1] /\ rows'[j].by[2] > rows'[i].by[2]
      <4>1. PICK j \in 1..(i - 1) :
              /\ rows[j].s = rows[i].s /\ rows[j].kind = "prompt"
              /\ outcome[rows[j].by] = "aborted"
              /\ rows[j].by[1] = rows[i].by[1] /\ rows[j].by[2] > rows[i].by[2]
        BY <2>1, <2>2, <3>1, <3>4 DEF RewindsOk, Excused
      <4>2. j \in 1..Len(rows) /\ rows[j].by[1] = k
        BY <1>2, <2>2, <3>1, <4>1
      <4>3. rows'[j] = rows[j] /\ rows[j].by \in Chat!Turn
        BY <1>4, <1>6, <4>2
      <4>4. outcome'[rows[j].by] = outcome[rows[j].by]
        BY <1>5, <4>2, <4>3
      <4>5. QED
        BY <3>1, <4>1, <4>3, <4>4
    <3>5. QED
      BY <3>1, <3>2, <3>3, <3>4 DEF Excused
  <2>3. QED
    BY <2>2 DEF RewindsOk
<1>12. PromptsGo(k)'
  <2>1. PromptsGo(k)
    BY <1>1 DEF KeyOk
  <2>2. ASSUME NEW s \in {alias[k], turn[k].resume} \ {0, titled[k]}
        PROVE  Clean(s)'
    <3>1. s \in Nat \ {0} /\ Clean(s)
      BY <1>2, <2>1 DEF PromptsGo, TurnRecord
    <3>2. Has(k, s)'
      BY <1>1 DEF Has
    <3>3. ASSUME NEW i \in 1..Len(rows'), rows'[i].s = s, rows'[i].on, rows'[i].kind = "prompt"
          PROVE  outcome'[rows'[i].by] # "aborted"
      <4>1. rows'[i].by[1] = k
        BY <1>8, <3>1, <3>2, <3>3
      <4>2. i \in 1..Len(rows) /\ rows'[i] = rows[i] /\ rows[i].by \in Chat!Turn
        BY <1>3, <1>6, <4>1
      <4>3. QED
        BY <1>5, <3>1, <3>3, <4>1, <4>2 DEF Clean
    <3>4. QED
      BY <3>3 DEF Clean
  <2>3. QED
    BY <1>1, <2>2 DEF PromptsGo
<1>13. TurnOk(k)'
  <2>1. TurnOk(k)
    BY <1>1 DEF KeyOk
  <2>2. Mine(k)' = Mine(k)
    <3>1. Mine(k) = {i \in 1..Len(rows) : rows[i].by = me}
          /\ Mine(k)' = {i \in 1..Len(rows') : rows'[i].by = me}
      BY <1>1 DEF Mine, me
    <3>2. QED
      BY <1>3, <1>4, <1>9, <3>1
  <2>3. ASSUME turn[k].pc # "idle"
        PROVE  me \in Chat!Turn /\ child'[me] = child[me]
    <3>1. me \in Chat!Turn
      BY <1>9, <2>1, <2>3 DEF TurnOk
    <3>2. QED
      BY <1>5, <1>9, <3>1
  <2>4. ASSUME turn[k].pc \in {"run", "select", "recover"}
        PROVE  ProcessOk(k, child[me])'
    <3> DEFINE c == child[me]
    <3>1. me \in Chat!Turn /\ child'[me] = c /\ ProcessOk(k, c) /\ Chat!Now(k) = me /\ c.s \in Nat
      <4>1. me \in Chat!Turn /\ child'[me] = c
        BY <2>3, <2>4
      <4>2. QED
        BY <1>7, <2>1, <2>4, <4>1 DEF TurnOk, me
    <3> HIDE DEF c
    <3>2. /\ c.stage # "none"
          /\ turn[k].head <= Len(rows')
          /\ \A i \in Mine(k)' : rows'[i].s = c.s /\ i > turn[k].head
          /\ c.stage \in {"spawned", "missing"} => Mine(k)' = {}
          /\ turn[k].resume # 0 => c.s = turn[k].resume
          /\ \A s \in turn[k].before : s <= made'
      <4>1. \A i \in Mine(k) : rows'[i] = rows[i]
        BY <1>4, <1>9, <3>1 DEF Mine
      <4>2. turn[k].head \in Int /\ turn[k].before \subseteq Nat
        BY <1>2 DEF TurnRecord
      <4>3. QED
        BY <1>2, <2>2, <3>1, <4>1, <4>2 DEF ProcessOk
    <3>3. ASSUME turn[k].resume = 0, c.s # 0
          PROVE  /\ c.s \notin turn[k].before /\ (turn[k].pc # "recover" => c.s \notin deleted)
                 /\ \A t \in Chat!Turn : t # me => child'[t].s # c.s
                 /\ \A i \in 1..Len(rows') : rows'[i].s = c.s => rows'[i].by = me
      <4>1. /\ c.s \notin turn[k].before /\ (turn[k].pc # "recover" => c.s \notin deleted)
            /\ \A t \in Chat!Turn : t # me => child[t].s # c.s
            /\ \A i \in 1..Len(rows) : rows[i].s = c.s => rows[i].by = me
        BY <3>1, <3>3 DEF ProcessOk
      <4>2. PICK s \in Nat \ {0} : s = c.s
        BY <3>1, <3>3
      <4>3. Has(k, s)'
        BY <1>9, <3>1, <4>2 DEF Has
      <4>4. QED
        BY <1>3, <1>5, <1>8, <4>1, <4>2, <4>3
    <3>4. /\ turn[k].pc = "select" => c.s # 0
          /\ turn[k].pc = "recover" => c.stage \in {"ended", "failed", "missing"}
      BY <3>1 DEF ProcessOk
    <3>5. c = child[me] /\ (child[me])' = c
      <4>1. me' = me
        BY <1>1 DEF me
      <4>2. QED
        BY <3>1, <4>1 DEF c
    <3>6. QED
      BY <1>1, <3>2, <3>3, <3>4, <3>5 DEF ProcessOk
  <2>5. QED
    <3>1. (child[Chat!Now(k)])' = child'[me] /\ (child[me])' = child'[me] /\ Chat!Now(k) = me
      BY <1>1 DEF me
    <3>2. turn[k].pc \in {"api", "ensure", "cli", "stream"} => child'[me].stage = "none"
      BY <2>1, <2>3, <3>1 DEF TurnOk
    <3>3. QED
      BY <1>1, <2>1, <2>2, <2>4, <3>1, <3>2 DEF TurnOk
<1>14. QED
  BY <1>10, <1>11, <1>12, <1>13 DEF KeyOk

\* A step of one key keeps what is true of all, if it keeps what is true of the key.
LEMMA StepKeeps ==
  ASSUME TurnInv, NEW k \in Key, TurnTypes', \A j \in Key \ {k} : Still(j), UNCHANGED deleted,
         made' \in {made, made + 1}, Len(rows) <= Len(rows'),
         \A s \in Nat : Has(k, s)' => s = 0 \/ Has(k, s) \/ (s = made + 1 /\ made' = s),
         SessionsApart' => KeyOk(k)'
  PROVE  TurnInv'
<1>1. SessionsApart' /\ made <= made'
  <2>1. SessionsApart'
    BY SessionsStayApart
  <2>2. made \in Nat
    BY DEF TurnInv, TurnTypes
  <2>3. QED
    BY <2>1, <2>2
<1>2. \A j \in Key \ {k} : KeyOk(j)'
  BY <1>1, StillKeeps
<1>3. QED
  BY <1>1, <1>2 DEF TurnInv

\* What a reader of the invariant needs of a key's turn and its number.
LEMMA TurnFacts ==
  ASSUME TurnInv, NEW k \in Key
  PROVE  /\ turn[k] \in TurnRecord /\ alias[k] \in Nat /\ titled[k] \in Nat
         /\ Len(rows) \in Nat /\ made \in Nat
         /\ AnswersOnce(k) /\ TurnOk(k) /\ RewindsOk(k) /\ PromptsGo(k)
         /\ \A i \in 1..Len(rows) : rows[i] \in RowRecord /\ rows[i].by \in Chat!Turn
                                    /\ rows[i].by[1] \in Key
         /\ turn[k].pc # "idle" =>
              /\ Chat!Now(k) \in Chat!Turn /\ outcome[Chat!Now(k)] = "open"
              /\ child[Chat!Now(k)] \in ChildRecord
<1>1. KeyOk(k) /\ TurnTypes
  BY DEF TurnInv
<1>2. \A i \in 1..Len(rows) : rows[i] \in RowRecord
  BY <1>1 DEF TurnTypes
<1>3. \A i \in 1..Len(rows) : rows[i].by \in Chat!Turn
  BY <1>2 DEF RowRecord
<1>4. \A i \in 1..Len(rows) : rows[i].by[1] \in Key
  BY <1>3, TurnShape
<1>5. ASSUME turn[k].pc # "idle"
      PROVE  /\ Chat!Now(k) \in Chat!Turn /\ outcome[Chat!Now(k)] = "open"
             /\ child[Chat!Now(k)] \in ChildRecord
  <2>1. Chat!Now(k) \in Chat!Turn
    BY <1>1, <1>5 DEF KeyOk, TurnOk, TurnTypes
  <2>2. Chat!Now(k)[1] = k /\ Chat!Now(k)[2] = turn[k].n
    BY ThisTurn
  <2>3. QED
    BY <1>1, <1>5, <2>1, <2>2 DEF KeyOk, AnswersOnce, TurnTypes
<1>6. QED
  BY <1>1, <1>2, <1>3, <1>4, <1>5 DEF KeyOk, TurnTypes

\* The answer of a turn excuses no less.
LEMMA ExcusedStays ==
  ASSUME TurnInv, NEW k \in Key, NEW how, Chat!Settle(k, how), turn[k].pc # "idle", Rewritten(k),
         NEW i \in 1..Len(rows), Excused(i)
  PROVE  Excused(i)'
<1> DEFINE me == Chat!Now(k)
<1>1. me \in Chat!Turn /\ outcome[me] = "open"
  BY TurnFacts
<1>2. \A t \in Chat!Turn : outcome[t] # "open" => outcome'[t] = outcome[t]
  BY <1>1 DEF Chat!Settle, TurnInv, TurnTypes
<1>3. \A j \in 1..Len(rows) : /\ rows[j].by \in Chat!Turn
                              /\ rows'[j].s = rows[j].s /\ rows'[j].by = rows[j].by
                              /\ rows'[j].kind = rows[j].kind
  BY TurnFacts DEF Rewritten
<1>4. outcome'[rows'[i].by] = outcome[rows[i].by] /\ outcome[rows[i].by] # "open"
  BY <1>2, <1>3 DEF Excused
<1>5. ASSUME outcome[rows[i].by] = "done"
      PROVE  \E j \in 1..(i - 1) :
               /\ rows'[j].s = rows'[i].s /\ rows'[j].kind = "prompt"
               /\ outcome'[rows'[j].by] = "aborted"
               /\ rows'[j].by[1] = rows'[i].by[1] /\ rows'[j].by[2] > rows'[i].by[2]
  <2>1. PICK j \in 1..(i - 1) :
          /\ rows[j].s = rows[i].s /\ rows[j].kind = "prompt"
          /\ outcome[rows[j].by] = "aborted"
          /\ rows[j].by[1] = rows[i].by[1] /\ rows[j].by[2] > rows[i].by[2]
    BY <1>5 DEF Excused
  <2>2. j \in 1..Len(rows) /\ Len(rows) \in Nat
    BY TurnFacts
  <2>3. rows[j].by \in Chat!Turn /\ outcome'[rows[j].by] = "aborted"
    BY <1>2, <1>3, <2>1, <2>2
  <2>4. QED
    BY <1>3, <2>1, <2>2, <2>3
<1>6. QED
  BY <1>4, <1>5 DEF Excused

\* A turn is answered, and the next one of its key may start.
LEMMA TurnSettles ==
  ASSUME TurnInv, NEW k \in Key, NEW how \in Answers, Chat!Settle(k, how),
         turn[k].pc # "idle", UNCHANGED <<made, deleted, titled>>, Rewritten(k),
         \/ child' = child
         \/ /\ how \in {"failed", "left"} /\ turn[k].resume # 0
            /\ child' = [child EXCEPT ![Chat!Now(k)] =
                           [s |-> turn[k].resume, stage |-> "served"]],
         alias' \in [Key -> Nat], \A j \in Key \ {k} : alias'[j] = alias[j],
         alias'[k] = 0 \/ Has(k, alias'[k]),
         how = "aborted" => child[Chat!Now(k)].stage # "spawned",
         \A i \in 1..Len(rows') : rows'[i].by[1] = k /\ ~rows'[i].on => Excused(i)',
         PromptsGo(k)'
  PROVE  TurnInv'
<1> DEFINE me == Chat!Now(k)
<1>1. /\ me \in Chat!Turn /\ outcome[me] = "open" /\ me[1] = k /\ me[2] = turn[k].n
      /\ turn[k] \in TurnRecord /\ Len(rows) \in Nat /\ AnswersOnce(k)
      /\ \A i \in 1..Len(rows) : rows[i].by \in Chat!Turn /\ rows[i].by[1] \in Key
  BY TurnFacts, ThisTurn
<1>2. /\ turn' = [turn EXCEPT ![k] = Chat!Idle(turn[k].n)]
      /\ outcome' = [outcome EXCEPT ![me] = how]
      /\ Chat!Idle(turn[k].n) \in TurnRecord
  <2>1. turn \in [Key -> TurnRecord]
    BY DEF TurnInv, TurnTypes
  <2>2. QED
    BY <1>1, <2>1 DEF Chat!Settle, Chat!Idle, TurnRecord
<1> DEFINE f == Chat!Idle(turn[k].n)
<1>3. f.n = turn[k].n /\ f.pc = "idle" /\ f.resume = 0 /\ f.mapped = 0
  BY DEF Chat!Idle
<1> HIDE DEF f, me
<1>4. /\ turn' \in [Key -> TurnRecord] /\ turn'[k] = f
      /\ \A j \in Key \ {k} : turn'[j] = turn[j]
  BY <1>2 DEF TurnInv, TurnTypes, f
<1>5. /\ outcome' \in [Chat!Turn -> {"open"} \cup Answers] /\ outcome'[me] = how
      /\ \A t \in Chat!Turn : t # me => outcome'[t] = outcome[t]
  BY <1>1, <1>2 DEF TurnInv, TurnTypes
<1> DEFINE left == [s |-> turn[k].resume, stage |-> "served"]
<1>6. left \in ChildRecord /\ left.s = turn[k].resume /\ left.stage = "served"
  BY <1>1 DEF TurnRecord, ChildRecord
<1> HIDE DEF left
<1>7. /\ child' \in [Chat!Turn -> ChildRecord]
       /\ \A t \in Chat!Turn : t # me => child'[t] = child[t]
       /\ \/ child'[me] = child[me]
          \/ child'[me] = left /\ how \in {"failed", "left"} /\ turn[k].resume # 0
  <2>1. CASE child' = child
    BY <2>1 DEF TurnInv, TurnTypes
  <2>2. CASE /\ how \in {"failed", "left"} /\ turn[k].resume # 0
             /\ child' = [child EXCEPT ![me] = left]
    BY <1>1, <1>6, <2>2 DEF TurnInv, TurnTypes
  <2>3. QED
    BY <2>1, <2>2 DEF me, left
<1>8. TurnTypes'
  <2>1. \A j \in Key : turn'[j].n = turn[j].n
    BY <1>3, <1>4
  <2>2. \A j \in Key : Chat!Now(j)' = Chat!Now(j)
    BY <2>1 DEF Chat!Now
  <2>3. QED
    BY <1>4, <1>5, <1>7, <2>1, <2>2 DEF TurnInv, TurnTypes, Rewritten
<1>9. ASSUME NEW j \in Key \ {k}
      PROVE  Still(j)
  <2>1. \A i \in 1..Len(rows') : rows'[i].by[1] = j => i <= Len(rows) /\ rows'[i] = rows[i]
    BY <1>1 DEF Rewritten, me
  <2>2. \A i \in 1..Len(rows) : rows[i].by[1] = j => rows'[i] = rows[i]
    BY DEF Rewritten
  <2>3. QED
    BY <1>1, <1>4, <1>5, <1>7, <2>1, <2>2 DEF Still
<1>10. ASSUME NEW s \in Nat, Has(k, s)'
      PROVE  s = 0 \/ Has(k, s)
  <2>1. CASE \E i \in 1..Len(rows') : rows'[i].by[1] = k /\ rows'[i].s = s
    <3>1. PICK i \in 1..Len(rows') : rows'[i].by[1] = k /\ rows'[i].s = s
      BY <2>1
    <3>2. CASE i > Len(rows)
      BY <3>1, <3>2 DEF Rewritten
    <3>3. CASE i <= Len(rows)
      <4>1. i \in 1..Len(rows) /\ rows[i].s = s /\ rows[i].by[1] = k
        BY <1>1, <3>1, <3>3 DEF Rewritten
      <4>2. QED
        BY <4>1 DEF Has
    <3>4. QED
      BY <1>1, <3>2, <3>3 DEF Rewritten
  <2>2. CASE ~\E i \in 1..Len(rows') : rows'[i].by[1] = k /\ rows'[i].s = s
    <3>1. ASSUME NEW t \in Chat!Turn, t[1] = k, child'[t].s = s
          PROVE  Has(k, s)
      BY <1>6, <1>7, <3>1 DEF Has
    <3>2. QED
      BY <1>3, <1>4, <1>10, <2>2, <3>1 DEF Has
  <2>3. QED
    BY <2>1, <2>2
<1>11. KeyOk(k)'
  <2>1. AnswersOnce(k)'
    <3>1. \A t \in Chat!Turn : t = me <=> t[1] = k /\ t[2] = turn[k].n
      BY ThisTurn DEF me
    <3>2. \A i \in 1..Len(rows') : rows'[i].by[1] = k => rows'[i].by[2] <= turn[k].n
      BY <1>1 DEF AnswersOnce, Rewritten, me, TurnRecord
    <3>3. \A t \in Chat!Turn : t[1] = k => t[2] \in Nat
      BY TurnShape
    <3>4. how = "aborted" => child[me].stage # "spawned"
      BY DEF me
    <3>5. turn[k].n \in Nat
      BY <1>1 DEF TurnRecord
    <3>6. /\ how \notin {"failed", "left"} => child'[me] = child[me]
          /\ child'[me].stage = "served" => how \in {"failed", "left"}
          /\ child'[me].stage \in {"prompted", "served", "answered", "ended"} =>
               child'[me].s # 0
          /\ child'[me].stage = "none" => child'[me].s = 0
          /\ how = "aborted" => child'[me].stage # "spawned"
      BY <1>1, <1>6, <1>7, <3>4 DEF AnswersOnce
    <3>7. \A t \in Chat!Turn : t[1] = k => t = me \/ child'[t] = child[t]
      BY <1>7
    <3>8. how # "open"
      BY DEF Answers
    <3>9. ASSUME NEW t \in Chat!Turn, t[1] = k
          PROVE  /\ outcome'[t] = "open" <=> t[2] > turn[k].n
                 /\ t[2] > turn[k].n => child'[t].stage = "none"
                 /\ outcome'[t] = "aborted" => child'[t].stage # "spawned"
                 /\ child'[t].stage \in {"prompted", "served", "answered", "ended"} =>
                      child'[t].s # 0
                 /\ child'[t].stage = "served" => outcome'[t] \in {"failed", "left"}
                 /\ child'[t].stage = "none" => child'[t].s = 0
      <4>1. CASE t = me
        BY <1>1, <1>5, <3>5, <3>6, <3>8, <4>1
      <4>2. CASE t # me
        <5>1. outcome'[t] = outcome[t] /\ child'[t] = child[t] /\ t[2] # turn[k].n
          BY <1>5, <3>1, <3>7, <3>9, <4>2
        <5>2. QED
          BY <1>1, <3>9, <5>1 DEF AnswersOnce
      <4>3. QED
        BY <4>1, <4>2
    <3>10. QED
      BY <1>3, <1>4, <3>2, <3>9 DEF AnswersOnce
  <2>2. TurnOk(k)'
    BY <1>3, <1>4 DEF TurnOk
  <2>3. QED
    BY <2>1, <2>2 DEF KeyOk, RewindsOk
<1>12. QED
  BY <1>8, <1>9, <1>10, <1>11, StepKeeps DEF Rewritten

\* A turn that goes on, with its process or without, and adds no rows.
LEMMA MoveKeeps ==
  ASSUME TurnInv, NEW k \in Key, NEW f \in TurnRecord, turn' = [turn EXCEPT ![k] = f],
         turn[k].pc # "idle", f.pc # "idle", f.n = turn[k].n, f.mapped = turn[k].mapped,
         f.resume \in {0, turn[k].resume}, UNCHANGED <<rows, made, deleted, titled, outcome>>,
         NEW c \in ChildRecord, child' = [child EXCEPT ![Chat!Now(k)] = c],
         c = child[Chat!Now(k)] \/ (c.stage = "spawned" /\ c.s \in {0, turn[k].resume}),
         alias' \in [Key -> Nat], \A j \in Key \ {k} : alias'[j] = alias[j],
         alias'[k] \in {0, alias[k]},
         Mine(k)' = Mine(k) => TurnOk(k)'
  PROVE  TurnInv'
<1> DEFINE me == Chat!Now(k)
<1>1. /\ me \in Chat!Turn /\ outcome[me] = "open" /\ me[1] = k /\ me[2] = turn[k].n
      /\ turn[k] \in TurnRecord /\ Len(rows) \in Nat /\ AnswersOnce(k) /\ RewindsOk(k)
      /\ PromptsGo(k)
  BY TurnFacts, ThisTurn
<1> HIDE DEF me
<1>2. /\ turn' \in [Key -> TurnRecord] /\ turn'[k] = f
      /\ \A j \in Key \ {k} : turn'[j] = turn[j]
  BY DEF TurnInv, TurnTypes
<1>3. /\ child' \in [Chat!Turn -> ChildRecord] /\ child'[me] = c
      /\ \A t \in Chat!Turn : t # me => child'[t] = child[t]
  BY <1>1 DEF TurnInv, TurnTypes, me
<1>4. TurnTypes'
  <2>1. \A j \in Key : turn'[j].n = turn[j].n
    BY <1>2
  <2>2. \A j \in Key : Chat!Now(j)' = Chat!Now(j)
    BY <2>1 DEF Chat!Now
  <2>3. QED
    BY <1>2, <1>3, <2>1, <2>2 DEF TurnInv, TurnTypes
<1>5. ASSUME NEW j \in Key \ {k}
      PROVE  Still(j)
  BY <1>1, <1>2, <1>3 DEF Still
<1>6. ASSUME NEW s \in Nat, Has(k, s)'
      PROVE  s = 0 \/ Has(k, s)
  <2>1. c.s = child[me].s \/ c.s = 0 \/ c.s = turn[k].resume
    BY DEF me
  <2>2. QED
    BY <1>1, <1>2, <1>3, <1>6, <2>1 DEF Has
<1>7. KeyOk(k)'
  <2>1. AnswersOnce(k)'
    <3>1. \A t \in Chat!Turn : t = me <=> t[1] = k /\ t[2] = turn[k].n
      BY ThisTurn DEF me
    <3>2. c = child[me] \/ c.stage = "spawned"
      BY DEF me
    <3>3. \A t \in Chat!Turn : t[1] = k => t[2] \in Nat
      BY TurnShape
    <3>4. turn[k].n \in Nat
      BY <1>1 DEF TurnRecord
    <3>5. QED
      BY <1>1, <1>2, <1>3, <3>1, <3>2, <3>3, <3>4 DEF AnswersOnce
  <2>2. RewindsOk(k)'
    BY <1>1 DEF RewindsOk, Excused
  <2>3. PromptsGo(k)'
    <3>1. \A s : Clean(s)' <=> Clean(s)
      BY DEF Clean
    <3>2. QED
      BY <1>1, <1>2, <3>1 DEF PromptsGo
  <2>4. TurnOk(k)'
    <3>1. Mine(k)' = Mine(k)
      BY <1>2 DEF Mine, Chat!Now
    <3>2. QED
      BY <3>1
  <2>5. QED
    BY <2>1, <2>2, <2>3, <2>4 DEF KeyOk
<1>8. QED
  BY <1>1, <1>4, <1>5, <1>6, <1>7, StepKeeps

\* Only the place of the turn changes.
LEMMA PlaceKeeps ==
  ASSUME TurnInv, NEW k \in Key, NEW f \in TurnRecord, turn' = [turn EXCEPT ![k] = f],
         turn[k].pc # "idle", f.pc # "idle", f.n = turn[k].n, f.mapped = turn[k].mapped,
         f.resume = turn[k].resume, f.before = turn[k].before, f.head = turn[k].head,
         UNCHANGED <<rows, made, deleted, titled, alias, child, outcome>>,
         \/ f.pc = turn[k].pc
         \/ f.pc = "cli" /\ turn[k].pc \in {"api", "ensure"}
         \/ f.pc = "select" /\ turn[k].pc = "run" /\ child[Chat!Now(k)].s # 0
         \/ f.pc = "recover" /\ turn[k].pc = "run"
              /\ child[Chat!Now(k)].stage \in {"ended", "failed", "missing"}
  PROVE  TurnInv'
<1>1. /\ Chat!Now(k) \in Chat!Turn /\ turn[k] \in TurnRecord /\ TurnOk(k)
      /\ child[Chat!Now(k)] \in ChildRecord
  BY TurnFacts
<1>2. turn'[k] = f /\ Chat!Now(k)' = Chat!Now(k)
  BY DEF TurnInv, TurnTypes, Chat!Now
<1>3. child' = [child EXCEPT ![Chat!Now(k)] = child[Chat!Now(k)]]
  BY <1>1 DEF TurnInv, TurnTypes
<1>4. alias' \in [Key -> Nat]
  BY DEF TurnInv, TurnTypes
<1>5. ASSUME Mine(k)' = Mine(k)
      PROVE  TurnOk(k)'
  <2> DEFINE c == child[Chat!Now(k)]
  <2>1. (child[Chat!Now(k)])' = c
    BY <1>2
  <2> HIDE DEF c
  <2>2. ASSUME f.pc \in {"run", "select", "recover"}
        PROVE  ProcessOk(k, child[Chat!Now(k)])'
    <3>1. ProcessOk(k, c)
      BY <1>1, <2>2 DEF TurnOk, c
    <3>2. f.pc # "recover" => turn[k].pc # "recover"
      BY <2>2
    <3>3. f.pc = "select" => c.s # 0
      BY <3>1 DEF ProcessOk, c
    <3>4. f.pc = "recover" => c.stage \in {"ended", "failed", "missing"}
      BY <3>1 DEF ProcessOk, c
    <3>5. QED
      BY <1>2, <1>5, <2>1, <3>1, <3>3, <3>4, <3>2 DEF ProcessOk
  <2>3. QED
    BY <1>1, <1>2, <1>5, <2>1, <2>2 DEF TurnOk, c
<1>6. QED
  BY <1>1, <1>3, <1>4, <1>5, MoveKeeps

\* A key without a turn takes its next one.
LEMMA TakeKeeps ==
  ASSUME TurnInv, NEW k \in Key, NEW files \in BOOLEAN, Chat!Take(k, 0, files)
  PROVE  TurnInv'
<1> DEFINE n == turn[k].n + 1
           f == [Chat!Idle(n) EXCEPT !.files = files, !.resume = alias[k], !.mapped = alias[k],
                   !.pc = IF ~files THEN "api" ELSE IF alias[k] = 0 THEN "ensure" ELSE "cli"]
<1>1. /\ turn[k].pc = "idle" /\ turn' = [turn EXCEPT ![k] = f]
      /\ UNCHANGED <<rows, made, deleted, titled, alias, child, outcome>>
      /\ \E most \in Turns : turn[k].n < most[k]
  BY DEF Chat!Take, Chat!db, Chat!sessions
<1>2. /\ turn[k] \in TurnRecord /\ alias[k] \in Nat /\ AnswersOnce(k) /\ RewindsOk(k)
      /\ PromptsGo(k)
  BY TurnFacts
<1>3. turn[k].n \in Nat /\ n \in Nat /\ n = turn[k].n + 1
  BY <1>2 DEF TurnRecord
<1>4. Chat!Idle(n) \in TurnRecord
  BY <1>3 DEF Chat!Idle, TurnRecord
<1>5. /\ f \in TurnRecord /\ f.n = n /\ f.resume = alias[k] /\ f.mapped = alias[k]
      /\ f.pc \in {"api", "ensure", "cli"} /\ (f.pc = "ensure" => alias[k] = 0)
  BY <1>2, <1>4 DEF TurnRecord, Chat!Idle
<1>6. <<k, n>> \in Chat!Turn
  <2>1. PICK most \in Turns : turn[k].n < most[k]
    BY <1>1
  <2>2. n \in 1..most[k]
    BY <1>3, <2>1, TurnConstants
  <2>3. <<k, n>> \in {k} \X (1..most[k])
    BY <2>2
  <2> DEFINE U == {k} \X (1..most[k])
             W == {{j} \X (1..m[j]) : j \in Key, m \in Turns}
  <2>4. \E j \in Key, m \in Turns : U = {j} \X (1..m[j])
    OBVIOUS
  <2>5. U \in W
    BY <2>4
  <2>6. W = {{j} \X (1..m[j]) : j \in Key, m \in Turns}
    OBVIOUS
  <2>7. <<k, n>> \in U
    BY <2>3
  <2> HIDE DEF U, W
  <2>8. <<k, n>> \in UNION W
    BY <2>5, <2>7
  <2>9. QED
    BY <2>6, <2>8 DEF Chat!Turn
<1> HIDE DEF f, n
<1>7. /\ turn' \in [Key -> TurnRecord] /\ turn'[k] = f /\ Chat!Now(k)' = <<k, n>>
      /\ \A j \in Key \ {k} : turn'[j] = turn[j] /\ Chat!Now(j)' = Chat!Now(j)
  BY <1>1, <1>5 DEF TurnInv, TurnTypes, Chat!Now
<1>8. TurnTypes'
  BY <1>1, <1>6, <1>7 DEF TurnInv, TurnTypes
<1>9. ASSUME NEW j \in Key \ {k}
      PROVE  Still(j)
  BY <1>1, <1>2, <1>7, TurnFacts DEF Still
<1>10. ASSUME NEW s \in Nat, Has(k, s)'
       PROVE  Has(k, s)
  BY <1>1, <1>5, <1>7, <1>10 DEF Has
<1>11. \A t \in Chat!Turn : t[2] \in Nat /\ (t = <<k, n>> <=> t[1] = k /\ t[2] = n)
  BY TurnShape
<1>12. \A i \in 1..Len(rows) : rows[i].by \in Chat!Turn
  BY TurnFacts
<1>13. AnswersOnce(k)'
  <2>1. ASSUME NEW t \in Chat!Turn, t[1] = k
        PROVE  /\ outcome[t] = "open" <=> t[2] > n \/ t[2] = n
               /\ t[2] > n => child[t].stage = "none"
               /\ outcome[t] = "aborted" => child[t].stage # "spawned"
               /\ child[t].stage \in {"prompted", "served", "answered", "ended"} =>
                    child[t].s # 0
               /\ child[t].stage = "served" => outcome[t] \in {"failed", "left"}
               /\ child[t].stage = "none" => child[t].s = 0
    <3>1. outcome[t] = "open" <=> t[2] > turn[k].n
      BY <1>1, <1>2, <2>1 DEF AnswersOnce
    <3>2. t[2] > turn[k].n <=> t[2] > n \/ t[2] = n
      BY <1>3, <1>11
    <3>3. QED
      BY <1>2, <2>1, <3>1, <3>2 DEF AnswersOnce
  <2>2. \A i \in 1..Len(rows) : rows[i].by[1] = k => rows[i].by[2] <= n
    BY <1>2, <1>3, <1>11, <1>12 DEF AnswersOnce
  <2>3. f.pc # "idle"
    BY <1>5
  <2>4. QED
    BY <1>1, <1>5, <1>7, <2>1, <2>2, <2>3 DEF AnswersOnce
<1>14. RewindsOk(k)' /\ PromptsGo(k)'
  <2>1. RewindsOk(k)'
    BY <1>1, <1>2 DEF RewindsOk, Excused
  <2>2. \A x : Clean(x)' <=> Clean(x)
    BY <1>1 DEF Clean
  <2>3. QED
    BY <1>1, <1>2, <1>5, <1>7, <2>1, <2>2 DEF PromptsGo
<1>15. TurnOk(k)'
  <2>1. Mine(k)' = {}
    BY <1>1, <1>2, <1>3, <1>7, <1>11, <1>12 DEF Mine, AnswersOnce
  <2>2. child[<<k, n>>].stage = "none"
    BY <1>2, <1>3, <1>6, <1>11 DEF AnswersOnce
  <2>3. QED
    BY <1>1, <1>3, <1>5, <1>7, <2>1, <2>2 DEF TurnOk
<1>16. QED
  <2>1. KeyOk(k)'
    BY <1>13, <1>14, <1>15 DEF KeyOk
  <2>2. Len(rows) <= Len(rows') /\ made' = made /\ deleted' = deleted
    BY <1>1, TurnFacts
  <2>3. QED
    BY <1>8, <1>9, <1>10, <2>1, <2>2, StepKeeps

\* The API server cannot be reached; the user stops a turn; the rows say that it is over.
LEMMA EasyMovesKeep ==
  ASSUME TurnInv, NEW k \in Key, Chat!ApiDown(k) \/ Chat!Abort(k) \/ Chat!HistoryDone(k)
  PROVE  TurnInv'
<1>1. turn[k] \in TurnRecord /\ UNCHANGED <<rows, made, deleted, titled, alias, child, outcome>>
  BY TurnFacts DEF Chat!ApiDown, Chat!Abort, Chat!HistoryDone, Chat!db, Chat!sessions
<1>2. CASE Chat!ApiDown(k)
  <2> DEFINE f == [turn[k] EXCEPT !.pc = "cli"]
  <2>1. turn' = [turn EXCEPT ![k] = f] /\ turn[k].pc = "api"
    BY <1>2 DEF Chat!ApiDown
  <2>2. /\ f \in TurnRecord /\ f.pc = "cli" /\ f.n = turn[k].n /\ f.mapped = turn[k].mapped
        /\ f.resume = turn[k].resume /\ f.before = turn[k].before /\ f.head = turn[k].head
    BY <1>1 DEF TurnRecord
  <2> HIDE DEF f
  <2>3. QED
    BY <1>1, <2>1, <2>2, PlaceKeeps
<1>3. CASE Chat!Abort(k)
  <2> DEFINE f == [turn[k] EXCEPT !.stop = TRUE]
  <2>1. turn' = [turn EXCEPT ![k] = f] /\ turn[k].pc # "idle"
    BY <1>3 DEF Chat!Abort
  <2>2. /\ f \in TurnRecord /\ f.pc = turn[k].pc /\ f.n = turn[k].n
        /\ f.mapped = turn[k].mapped
        /\ f.resume = turn[k].resume /\ f.before = turn[k].before /\ f.head = turn[k].head
    BY <1>1 DEF TurnRecord
  <2> HIDE DEF f
  <2>3. QED
    BY <1>1, <2>1, <2>2, PlaceKeeps
<1>4. CASE Chat!HistoryDone(k)
  <2> DEFINE f == [turn[k] EXCEPT !.pc = "select"]
  <2>1. turn' = [turn EXCEPT ![k] = f] /\ turn[k].pc = "run" /\ Chat!Replied(k)
    BY <1>4 DEF Chat!HistoryDone
  <2>2. /\ f \in TurnRecord /\ f.pc = "select" /\ f.n = turn[k].n /\ f.mapped = turn[k].mapped
        /\ f.resume = turn[k].resume /\ f.before = turn[k].before /\ f.head = turn[k].head
    BY <1>1 DEF TurnRecord
  <2>3. child[Chat!Now(k)].s # 0
    <3>1. PICK i \in DOMAIN rows : rows[i].by = Chat!Now(k)
      BY <2>1 DEF Chat!Replied, Chat!RowsIn
    <3>2. i \in 1..Len(rows) /\ rows[i] \in RowRecord
      BY <3>1, TurnFacts DEF TurnInv, TurnTypes
    <3>3. ProcessOk(k, child[Chat!Now(k)])
      BY <2>1, TurnFacts DEF TurnOk
    <3>4. rows[i].s = child[Chat!Now(k)].s
      BY <3>1, <3>2, <3>3 DEF ProcessOk, Mine
    <3>5. QED
      BY <3>2, <3>4 DEF RowRecord
  <2> HIDE DEF f
  <2>4. QED
    BY <1>1, <2>1, <2>2, <2>3, PlaceKeeps
<1>5. QED
  BY <1>2, <1>3, <1>4

\* The API server has a session of the key's name, or makes one.
LEMMA Opened ==
  ASSUME TurnInv, NEW k \in Key, NEW s \in Chat!HermesSession, Chat!Open(k, s)
  PROVE  /\ s \in Nat \ {0} /\ titled' \in [Key -> Nat] /\ titled'[k] = s
         /\ \A j \in Key \ {k} : titled'[j] = titled[j]
         /\ \/ s = titled[k] /\ made' = made
            \/ s = made + 1 /\ made' = s
<1>1. s \in Nat \ {0} /\ titled \in [Key -> Nat]
  BY TurnConstants DEF Chat!HermesSession, TurnInv, TurnTypes
<1>2. QED
  BY <1>1 DEF Chat!Open

\* A turn gets its session from the API server, and the key is mapped to it.
LEMMA EnsureKeeps ==
  ASSUME TurnInv, NEW k \in Key, Chat!Ensure(k)
  PROVE  TurnInv'
<1>1. /\ turn[k] \in TurnRecord /\ alias[k] \in Nat /\ titled[k] \in Nat /\ made \in Nat
      /\ AnswersOnce(k) /\ RewindsOk(k) /\ PromptsGo(k) /\ TurnOk(k)
      /\ turn[k].pc = "ensure" /\ UNCHANGED <<rows, deleted, child, outcome>>
      /\ turn[k].resume = 0 /\ Len(rows) \in Nat
  BY TurnFacts DEF Chat!Ensure, TurnOk
<1>2. CASE turn' = [turn EXCEPT ![k].pc = "cli"] /\ UNCHANGED <<made, titled, alias>>
  <2> DEFINE f == [turn[k] EXCEPT !.pc = "cli"]
  <2>1. /\ f \in TurnRecord /\ f.pc = "cli" /\ f.n = turn[k].n /\ f.mapped = turn[k].mapped
        /\ f.resume = turn[k].resume /\ f.before = turn[k].before /\ f.head = turn[k].head
    BY <1>1 DEF TurnRecord
  <2>2. turn' = [turn EXCEPT ![k] = f]
    BY <1>2
  <2> HIDE DEF f
  <2>3. QED
    BY <1>1, <1>2, <2>1, <2>2, PlaceKeeps
<1>3. ASSUME NEW s \in Chat!HermesSession, Chat!Open(k, s), alias' = [alias EXCEPT ![k] = s],
             turn' = [turn EXCEPT ![k].resume = s, ![k].pc = "cli"]
      PROVE  TurnInv'
  <2> DEFINE f == [turn[k] EXCEPT !.resume = s, !.pc = "cli"]
  <2>1. /\ s \in Nat \ {0} /\ titled' \in [Key -> Nat] /\ titled'[k] = s
        /\ \A j \in Key \ {k} : titled'[j] = titled[j]
        /\ \/ s = titled[k] /\ made' = made
           \/ s = made + 1 /\ made' = s
    BY <1>3, Opened
  <2>2. /\ f \in TurnRecord /\ f.pc = "cli" /\ f.n = turn[k].n /\ f.mapped = turn[k].mapped
        /\ f.resume = s
    BY <1>1, <2>1 DEF TurnRecord
  <2>3. turn' = [turn EXCEPT ![k] = f]
    BY <1>3
  <2> HIDE DEF f
  <2>4. /\ turn' \in [Key -> TurnRecord] /\ turn'[k] = f
        /\ \A j \in Key \ {k} : turn'[j] = turn[j]
    BY <2>2, <2>3 DEF TurnInv, TurnTypes
  <2>5. /\ alias' \in [Key -> Nat] /\ alias'[k] = s
        /\ \A j \in Key \ {k} : alias'[j] = alias[j]
    BY <1>3, <2>1 DEF TurnInv, TurnTypes
  <2>6. \A j \in Key : turn'[j].n = turn[j].n /\ Chat!Now(j)' = Chat!Now(j)
    BY <2>2, <2>4 DEF Chat!Now
  <2>7. TurnTypes'
    <3>1. made' \in Nat /\ 1..made \subseteq 1..made'
      BY <1>1, <2>1
    <3>2. deleted' \subseteq 1..made'
      BY <1>1, <3>1 DEF TurnInv, TurnTypes
    <3>3. QED
      BY <1>1, <2>1, <2>4, <2>5, <2>6, <3>1, <3>2 DEF TurnInv, TurnTypes
  <2>8. \A j \in Key \ {k} : Still(j)
    BY <1>1, <2>1, <2>4, <2>5 DEF Still
  <2>9. \A x \in Nat : Has(k, x)' => x = 0 \/ Has(k, x) \/ (x = made + 1 /\ made' = x)
    BY <1>1, <2>1, <2>2, <2>4, <2>5 DEF Has
  <2>10. AnswersOnce(k)'
    BY <1>1, <2>2, <2>4 DEF AnswersOnce
  <2>11. RewindsOk(k)'
    BY <1>1 DEF RewindsOk, Excused
  <2>12. PromptsGo(k)'
    BY <1>1, <2>1, <2>2, <2>4, <2>5 DEF PromptsGo
  <2>13. TurnOk(k)'
    <3>1. Mine(k)' = Mine(k)
      BY <1>1, <2>6 DEF Mine
    <3>2. child'[Chat!Now(k)'] = child[Chat!Now(k)]
      BY <1>1, <2>6
    <3>3. QED
      BY <1>1, <2>1, <2>2, <2>4, <2>5, <3>1, <3>2 DEF TurnOk
  <2>14. Len(rows) <= Len(rows') /\ made' \in {made, made + 1}
    BY <1>1, <2>1
  <2>15. KeyOk(k)'
    BY <2>10, <2>11, <2>12, <2>13 DEF KeyOk
  <2>16. QED
    BY <1>1, <2>7, <2>8, <2>9, <2>14, <2>15, StepKeeps
<1>4. QED
  BY <1>2, <1>3 DEF Chat!Ensure

\* A row is added behind the others.
LEMMA RowAdded ==
  ASSUME TurnInv, NEW t \in Chat!Turn, NEW s \in Nat \ {0}, NEW kind \in {"prompt", "answer"},
         rows' = Append(rows, Chat!Row(s, t, kind))
  PROVE  /\ rows' \in Seq(RowRecord) /\ Len(rows') = Len(rows) + 1
         /\ \A i \in 1..Len(rows) : rows'[i] = rows[i]
         /\ rows'[Len(rows) + 1] = [s |-> s, by |-> t, kind |-> kind, on |-> TRUE]
<1> DEFINE r == Chat!Row(s, t, kind)
<1>1. r \in RowRecord /\ r = [s |-> s, by |-> t, kind |-> kind, on |-> TRUE]
  BY DEF Chat!Row, RowRecord
<1>2. rows \in Seq(RowRecord)
  BY DEF TurnInv, TurnTypes
<1> HIDE DEF r
<1>3. rows' = Append(rows, r)
  BY DEF r
<1>4. QED
  BY <1>1, <1>2, <1>3

\* Over the API: the prompt is written in the session the turn resumes, or in one of its name.
LEMMA ApiPromptKeeps ==
  ASSUME TurnInv, NEW k \in Key, Chat!ApiPrompt(k)
  PROVE  TurnInv'
<1>1. /\ turn[k] \in TurnRecord /\ alias[k] \in Nat /\ titled[k] \in Nat /\ made \in Nat
      /\ AnswersOnce(k) /\ RewindsOk(k) /\ PromptsGo(k) /\ TurnOk(k)
      /\ turn[k].pc = "api" /\ UNCHANGED <<deleted, alias, child, outcome>>
      /\ Len(rows) \in Nat /\ Chat!Now(k) \in Chat!Turn /\ outcome[Chat!Now(k)] = "open"
      /\ \A i \in 1..Len(rows) : rows[i].by \in Chat!Turn /\ rows[i].by[1] \in Key
  BY TurnFacts DEF Chat!ApiPrompt
<1>2. PICK s \in Chat!HermesSession :
        /\ IF turn[k].resume # 0 THEN s = turn[k].resume /\ UNCHANGED <<made, titled>>
                                 ELSE Chat!Open(k, s)
        /\ rows' = Append(rows, Chat!Row(s, Chat!Now(k), "prompt"))
        /\ turn' = [turn EXCEPT ![k].resume = s, ![k].pc = "stream"]
  BY DEF Chat!ApiPrompt
<1>3. /\ s \in Nat \ {0} /\ titled' \in [Key -> Nat]
      /\ \A j \in Key \ {k} : titled'[j] = titled[j]
      /\ \/ turn[k].resume # 0 /\ s = turn[k].resume /\ made' = made /\ titled' = titled
         \/ turn[k].resume = 0 /\ titled'[k] = s
              /\ ((s = titled[k] /\ made' = made) \/ (s = made + 1 /\ made' = s))
  <2>1. s \in Nat \ {0}
    BY TurnConstants DEF Chat!HermesSession
  <2>2. CASE turn[k].resume # 0
    BY <1>2, <2>1, <2>2 DEF TurnInv, TurnTypes
  <2>3. CASE turn[k].resume = 0
    <3>1. Chat!Open(k, s)
      BY <1>2, <2>3
    <3>2. /\ titled' \in [Key -> Nat] /\ titled'[k] = s
          /\ \A j \in Key \ {k} : titled'[j] = titled[j]
          /\ ((s = titled[k] /\ made' = made) \/ (s = made + 1 /\ made' = s))
      BY <3>1, Opened
    <3>3. QED
      BY <2>1, <2>3, <3>2
  <2>4. QED
    BY <2>2, <2>3
<1> DEFINE f == [turn[k] EXCEPT !.resume = s, !.pc = "stream"]
<1>4. /\ f \in TurnRecord /\ f.pc = "stream" /\ f.n = turn[k].n /\ f.mapped = turn[k].mapped
      /\ f.resume = s
  BY <1>1, <1>3 DEF TurnRecord
<1>5. turn' = [turn EXCEPT ![k] = f]
  BY <1>2
<1> HIDE DEF f
<1>6. /\ turn' \in [Key -> TurnRecord] /\ turn'[k] = f
      /\ \A j \in Key \ {k} : turn'[j] = turn[j]
  BY <1>4, <1>5 DEF TurnInv, TurnTypes
<1>7. /\ rows' \in Seq(RowRecord) /\ Len(rows') = Len(rows) + 1
      /\ \A i \in 1..Len(rows) : rows'[i] = rows[i]
      /\ rows'[Len(rows) + 1] = [s |-> s, by |-> Chat!Now(k), kind |-> "prompt", on |-> TRUE]
  BY <1>1, <1>2, <1>3, RowAdded
<1>8. \A j \in Key : turn'[j].n = turn[j].n /\ Chat!Now(j)' = Chat!Now(j)
  BY <1>4, <1>6 DEF Chat!Now
<1>9. TurnTypes'
  <2>1. made' \in Nat /\ 1..made \subseteq 1..made'
    BY <1>1, <1>3
  <2>2. deleted' \subseteq 1..made'
    BY <1>1, <2>1 DEF TurnInv, TurnTypes
  <2>3. QED
    BY <1>1, <1>3, <1>6, <1>7, <1>8, <2>1, <2>2 DEF TurnInv, TurnTypes
<1>10. Chat!Now(k)[1] = k /\ Chat!Now(k)[2] = turn[k].n
  BY ThisTurn
<1> DEFINE me == Chat!Now(k)
           r == [s |-> s, by |-> me, kind |-> "prompt", on |-> TRUE]
<1>11. /\ r.s = s /\ r.by = me /\ r.kind = "prompt" /\ r.on
       /\ rows'[Len(rows) + 1] = r
  BY <1>7
<1> HIDE DEF me, r
<1>12. \A i \in 1..Len(rows') : \/ i \in 1..Len(rows) /\ rows'[i] = rows[i]
                                \/ i = Len(rows) + 1 /\ rows'[i] = r
  BY <1>1, <1>7, <1>11
<1>13. me \in Chat!Turn /\ me[1] = k /\ me[2] = turn[k].n /\ outcome[me] = "open"
  BY <1>1, <1>10 DEF me
<1>14. ASSUME NEW j \in Key \ {k}
       PROVE  Still(j)
  BY <1>1, <1>3, <1>6, <1>7, <1>11, <1>12, <1>13 DEF Still
<1>15. \A x \in Nat : Has(k, x)' => x = 0 \/ Has(k, x) \/ (x = made + 1 /\ made' = x)
  <2>1. \A x \in Nat : (\E i \in 1..Len(rows') : rows'[i].by[1] = k /\ rows'[i].s = x) =>
          x = s \/ Has(k, x)
    BY <1>11, <1>12 DEF Has
  <2>2. (s = made + 1 /\ made' = s) \/ Has(k, s)
    BY <1>3 DEF Has
  <2>3. titled'[k] = titled[k] \/ titled'[k] = s
    BY <1>3
  <2>4. QED
    BY <1>1, <1>4, <1>6, <2>1, <2>2, <2>3 DEF Has
<1>16. AnswersOnce(k)'
  <2>1. turn[k].n \in Nat
    BY <1>1 DEF TurnRecord
  <2>2. \A i \in 1..Len(rows') : rows'[i].by[1] = k => rows'[i].by[2] <= turn[k].n
    BY <1>1, <1>11, <1>12, <1>13, <2>1 DEF AnswersOnce
  <2>3. QED
    BY <1>1, <1>4, <1>6, <2>2 DEF AnswersOnce
<1>17. RewindsOk(k)'
  <2>1. ASSUME NEW i \in 1..Len(rows'), rows'[i].by[1] = k, ~rows'[i].on
        PROVE  Excused(i)'
    <3>1. i \in 1..Len(rows) /\ rows'[i] = rows[i] /\ Excused(i)
      BY <1>1, <1>11, <1>12, <2>1 DEF RewindsOk
    <3>2. \A j \in 1..(i - 1) : rows'[j] = rows[j]
      BY <1>1, <1>7, <3>1
    <3>3. QED
      BY <1>1, <3>1, <3>2 DEF Excused
  <2>2. QED
    BY <2>1 DEF RewindsOk
<1>18. PromptsGo(k)'
  <2>1. ASSUME NEW x \in {alias[k], s} \ {0, titled'[k]}
        PROVE  x \in {alias[k], turn[k].resume} \ {0, titled[k]}
    BY <1>1, <1>3, <2>1 DEF TurnOk
  <2>2. ASSUME NEW x, Clean(x)
        PROVE  Clean(x)'
    <3>1. ASSUME NEW i \in 1..Len(rows'), rows'[i].s = x, rows'[i].on, rows'[i].kind = "prompt"
          PROVE  outcome[rows'[i].by] # "aborted"
      <4>1. CASE i \in 1..Len(rows) /\ rows'[i] = rows[i]
        BY <2>2, <3>1, <4>1 DEF Clean
      <4>2. CASE rows'[i] = r
        BY <1>11, <1>13, <4>2
      <4>3. QED
        BY <1>12, <4>1, <4>2
    <3>2. QED
      BY <1>1, <3>1 DEF Clean
  <2>3. QED
    BY <1>1, <1>4, <1>6, <2>1, <2>2 DEF PromptsGo
<1>19. TurnOk(k)'
  <2>1. child'[Chat!Now(k)'] = child[Chat!Now(k)]
    BY <1>1, <1>8
  <2>2. QED
    BY <1>1, <1>3, <1>4, <1>6, <2>1 DEF TurnOk
<1>20. QED
  <2>1. KeyOk(k)'
    BY <1>16, <1>17, <1>18, <1>19 DEF KeyOk
  <2>2. Len(rows) <= Len(rows') /\ made' \in {made, made + 1} /\ deleted' = deleted
    BY <1>1, <1>3, <1>7
  <2>3. QED
    BY <1>9, <1>14, <1>15, <2>1, <2>2, StepKeeps

\* Rows of a key are switched off.
LEMMA SwitchedOff ==
  ASSUME TurnInv, NEW k \in Key, NEW X,
         rows' = [i \in DOMAIN rows |-> [rows[i] EXCEPT !.on = @ /\ i \notin X]],
         \A i \in 1..Len(rows) : i \in X => rows[i].by[1] = k
  PROVE  /\ Rewritten(k) /\ Len(rows') = Len(rows)
         /\ \A i \in 1..Len(rows) : rows'[i].on <=> rows[i].on /\ i \notin X
<1>1. /\ DOMAIN rows = 1..Len(rows) /\ Len(rows) \in Nat
      /\ \A i \in 1..Len(rows) : rows[i] \in RowRecord
  BY TurnFacts DEF TurnInv, TurnTypes
<1>2. ASSUME NEW i \in 1..Len(rows)
      PROVE  /\ rows'[i] \in RowRecord /\ rows'[i].s = rows[i].s /\ rows'[i].by = rows[i].by
             /\ rows'[i].kind = rows[i].kind /\ (rows'[i].on <=> rows[i].on /\ i \notin X)
             /\ i \notin X => rows'[i] = rows[i]
  <2> DEFINE r == rows[i]
             on == r.on /\ i \notin X
  <2>1. r \in RowRecord
    BY <1>1
  <2>2. rows'[i] = [r EXCEPT !.on = on]
    BY <1>1
  <2>3. on \in BOOLEAN
    BY <2>1 DEF RowRecord
  <2>4. i \notin X => on = r.on
    BY <2>1 DEF RowRecord
  <2>5. on <=> r.on /\ i \notin X
    OBVIOUS
  <2> HIDE DEF on, r
  <2>6. [r EXCEPT !.on = on] = [s |-> r.s, by |-> r.by, kind |-> r.kind, on |-> on]
        /\ r = [s |-> r.s, by |-> r.by, kind |-> r.kind, on |-> r.on]
    BY <2>1 DEF RowRecord
  <2> DEFINE q == rows'[i]
  <2>7. /\ q \in RowRecord /\ q.s = r.s /\ q.by = r.by /\ q.kind = r.kind /\ q.on = on
        /\ i \notin X => q = r
    BY <2>1, <2>2, <2>3, <2>4, <2>6 DEF RowRecord
  <2>8. QED
    BY <2>5, <2>7 DEF r
<1>3. DOMAIN rows' = 1..Len(rows)
  BY <1>1
<1>4. rows' \in Seq(RowRecord) /\ Len(rows') = Len(rows)
  <2>1. rows' = [i \in 1..Len(rows) |-> rows'[i]]
    BY <1>1
  <2>2. rows' \in [1..Len(rows) -> RowRecord]
    BY <1>2, <2>1
  <2>3. QED
    BY <1>1, <2>2
<1>5. QED
  BY <1>1, <1>2, <1>4 DEF Rewritten

\* The rows stay as they are.
LEMMA RowsStay ==
  ASSUME TurnInv, NEW k \in Key, UNCHANGED rows
  PROVE  Rewritten(k)
BY TurnFacts DEF Rewritten, TurnInv, TurnTypes

\* The turn answers, adds no rows and leaves the key its session or none.
LEMMA PlainSettleKeeps ==
  ASSUME TurnInv, NEW k \in Key, NEW how \in Answers, Chat!Settle(k, how),
         turn[k].pc # "idle", UNCHANGED <<rows, made, deleted, titled, child>>,
         alias' \in [Key -> Nat], \A j \in Key \ {k} : alias'[j] = alias[j],
         alias'[k] = 0 \/ Has(k, alias'[k]),
         how = "aborted" => child[Chat!Now(k)].stage # "spawned",
         PromptsGo(k)'
  PROVE  TurnInv'
<1>1. Rewritten(k)
  BY RowsStay
<1>2. \A i \in 1..Len(rows') : rows'[i].by[1] = k /\ ~rows'[i].on => Excused(i)'
  BY <1>1, ExcusedStays, TurnFacts DEF RewindsOk
<1>3. QED
  BY <1>1, <1>2, TurnSettles

\* The turn's key has no session to resume once it is answered.
LEMMA NothingResumed ==
  ASSUME TurnInv, NEW k \in Key, NEW how, Chat!Settle(k, how)
  PROVE  turn'[k].resume = 0
BY DEF Chat!Settle, Chat!Idle, TurnInv, TurnTypes

\* No more prompts count as cancelled than before.
LEMMA CleanStays ==
  ASSUME TurnInv, NEW k \in Key, NEW how \in Answers \ {"aborted"}, Chat!Settle(k, how),
         turn[k].pc # "idle", Rewritten(k), NEW s, Clean(s),
         \A i \in 1..Len(rows') : i > Len(rows) => rows'[i].kind # "prompt"
  PROVE  Clean(s)'
<1>1. /\ Chat!Now(k) \in Chat!Turn /\ Len(rows) \in Nat
      /\ \A i \in 1..Len(rows) : rows[i].by \in Chat!Turn
  BY TurnFacts
<1>2. \A t \in Chat!Turn : outcome'[t] = outcome[t] \/ outcome'[t] # "aborted"
  BY <1>1 DEF Chat!Settle, TurnInv, TurnTypes
<1>3. \A i \in 1..Len(rows') : rows'[i].kind = "prompt" => i \in 1..Len(rows)
  <2>1. Len(rows') \in Nat
    BY DEF Rewritten
  <2>2. QED
    BY <1>1, <2>1
<1>4. QED
  BY <1>1, <1>2, <1>3 DEF Clean, Rewritten

\* A turn that fails or is left maps its key as before.
LEMMA FailureKeeps ==
  ASSUME TurnInv, NEW k \in Key, NEW how \in {"failed", "left"}, Chat!Settle(k, how),
         turn[k].pc # "idle", UNCHANGED <<rows, made, deleted, titled, alias>>,
         \/ child' = child
         \/ /\ turn[k].resume # 0
            /\ child' = [child EXCEPT ![Chat!Now(k)] =
                           [s |-> turn[k].resume, stage |-> "served"]]
  PROVE  TurnInv'
<1>1. /\ PromptsGo(k) /\ alias \in [Key -> Nat] /\ how \in Answers /\ how # "aborted"
      /\ RewindsOk(k) /\ Len(rows) \in Nat
  BY TurnFacts DEF TurnInv, TurnTypes, Answers
<1>2. Rewritten(k) /\ turn'[k].resume = 0
  BY RowsStay, NothingResumed
<1>3. PromptsGo(k)'
  BY <1>1, <1>2, CleanStays DEF PromptsGo
<1>4. \A i \in 1..Len(rows') : rows'[i].by[1] = k /\ ~rows'[i].on => Excused(i)'
  BY <1>1, <1>2, ExcusedStays DEF RewindsOk
<1>5. Has(k, alias'[k])
  BY DEF Has
<1>6. QED
  BY <1>1, <1>2, <1>3, <1>4, <1>5, TurnSettles

\* Over the API: the answer is written behind the prompt.
LEMMA ApiAnswerKeeps ==
  ASSUME TurnInv, NEW k \in Key, Chat!ApiAnswer(k)
  PROVE  TurnInv'
<1>1. /\ turn[k].pc = "stream" /\ Chat!Settle(k, "done")
      /\ rows' = Append(rows, Chat!Row(turn[k].resume, Chat!Now(k), "answer"))
      /\ alias' = [alias EXCEPT ![k] = turn[k].resume]
      /\ UNCHANGED <<made, deleted, titled, child>>
  BY DEF Chat!ApiAnswer, Chat!sessions
<1>2. /\ turn[k].resume \in Nat \ {0}
      /\ alias \in [Key -> Nat] /\ RewindsOk(k) /\ PromptsGo(k) /\ Chat!Now(k) \in Chat!Turn
      /\ outcome[Chat!Now(k)] = "open" /\ Len(rows) \in Nat
      /\ \A i \in 1..Len(rows) : rows[i].by \in Chat!Turn /\ rows[i].by[1] \in Key
  BY <1>1, TurnFacts DEF TurnOk, TurnRecord, TurnInv, TurnTypes
<1> DEFINE s == turn[k].resume
           r == [s |-> s, by |-> Chat!Now(k), kind |-> "answer", on |-> TRUE]
<1>3. /\ rows' \in Seq(RowRecord) /\ Len(rows') = Len(rows) + 1
      /\ \A i \in 1..Len(rows) : rows'[i] = rows[i]
      /\ rows'[Len(rows) + 1] = r
  BY <1>1, <1>2, RowAdded
<1>4. r.s = s /\ r.by = Chat!Now(k) /\ r.kind = "answer" /\ r.on
  OBVIOUS
<1> HIDE DEF r
<1>5. \A i \in 1..Len(rows') : \/ i \in 1..Len(rows) /\ rows'[i] = rows[i]
                               \/ i = Len(rows) + 1 /\ rows'[i] = r
  BY <1>2, <1>3
<1>6. Has(k, s)
  BY DEF Has
<1>7. Rewritten(k)
  BY <1>2, <1>3, <1>4, <1>5, <1>6 DEF Rewritten
<1>8. ASSUME NEW i \in 1..Len(rows'), rows'[i].by[1] = k, ~rows'[i].on
      PROVE  Excused(i)'
  <2>1. i \in 1..Len(rows) /\ rows'[i] = rows[i]
    BY <1>4, <1>5, <1>8
  <2>2. Excused(i)
    BY <1>2, <1>8, <2>1 DEF RewindsOk
  <2>3. QED
    BY <1>1, <1>7, <2>1, <2>2, ExcusedStays
<1>9. alias' \in [Key -> Nat] /\ alias'[k] = s /\ \A j \in Key \ {k} : alias'[j] = alias[j]
  BY <1>1, <1>2
<1>10. PromptsGo(k)'
  <2>1. turn'[k].resume = 0
    BY <1>1, NothingResumed
  <2>2. \A i \in 1..Len(rows') : i > Len(rows) => rows'[i].kind # "prompt"
    BY <1>2, <1>4, <1>5
  <2>3. "done" \in Answers \ {"aborted"}
    BY DEF Answers
  <2>4. PICK x : x = s
    OBVIOUS
  <2>5. ASSUME x \notin {0, titled[k]}
        PROVE  Clean(x)'
    <3>1. Clean(x)
      BY <1>2, <2>4, <2>5 DEF PromptsGo
    <3>2. turn[k].pc # "idle"
      BY <1>1
    <3>3. QED
      BY <1>1, <1>7, <2>2, <2>3, <3>1, <3>2, CleanStays
  <2>6. alias'[k] = x /\ titled' = titled
    BY <1>1, <1>9, <2>4
  <2>7. QED
    BY <2>1, <2>5, <2>6 DEF PromptsGo
<1>11. QED
  BY <1>1, <1>6, <1>7, <1>8, <1>9, <1>10, TurnSettles DEF Answers

\* Over the API: a turn is aborted before the server took it, or left to the server.
LEMMA ApiAbortedKeeps ==
  ASSUME TurnInv, NEW k \in Key, Chat!ApiAborted(k)
  PROVE  TurnInv'
BY FailureKeeps DEF Chat!ApiAborted, Chat!db, Chat!sessions

LEMMA ApiLeftKeeps ==
  ASSUME TurnInv, NEW k \in Key, Chat!ApiLeft(k)
  PROVE  TurnInv'
<1>1. /\ turn[k].pc = "stream" /\ UNCHANGED <<rows, made, deleted, titled, alias>>
      /\ child' = [child EXCEPT ![Chat!Now(k)] = [s |-> turn[k].resume, stage |-> "served"]]
      /\ \E how \in {"failed", "left"} : Chat!Settle(k, how)
  BY DEF Chat!ApiLeft, Chat!db, Chat!sessions
<1>2. turn[k].resume # 0
  BY <1>1, TurnFacts DEF TurnOk
<1>3. QED
  BY <1>1, <1>2, FailureKeeps

\* What a key forgets is of no other key.
LEMMA OwnIsForgotten ==
  ASSUME TurnInv, NEW k \in Key, turn[k].mapped # 0
  PROVE  /\ Chat!Forgotten(k, turn[k].mapped) \in [Key -> Nat]
         /\ Chat!Forgotten(k, turn[k].mapped)[k] = 0
         /\ \A j \in Key \ {k} : Chat!Forgotten(k, turn[k].mapped)[j] = alias[j]
<1> DEFINE s == turn[k].mapped
<1>1. s \in Nat \ {0} /\ alias \in [Key -> Nat] /\ Has(k, s)
  BY TurnFacts DEF TurnRecord, TurnInv, TurnTypes, Has
<1> HIDE DEF s
<1>2. ASSUME NEW j \in Key \ {k}
      PROVE  alias[j] # s
  <2>1. ~Has(j, s)
    BY <1>1 DEF TurnInv, SessionsApart
  <2>2. QED
    BY <2>1 DEF Has
<1>3. QED
  BY <1>1, <1>2 DEF Chat!Forgotten, s

\* The session is gone: the turn starts again without one, or fails.
LEMMA ApiMissingKeeps ==
  ASSUME TurnInv, NEW k \in Key, Chat!ApiMissing(k)
  PROVE  TurnInv'
<1>1. turn[k].pc = "api" /\ UNCHANGED <<rows, made, deleted, titled, child>>
  BY DEF Chat!ApiMissing, Chat!db, Chat!sessions
<1>2. CASE Chat!Settle(k, "failed") /\ UNCHANGED alias
  BY <1>1, <1>2, FailureKeeps
<1>3. CASE /\ turn[k].mapped # 0 /\ alias' = Chat!Forgotten(k, turn[k].mapped)
           /\ turn' = [turn EXCEPT ![k].resume = 0] /\ UNCHANGED outcome
  <2> DEFINE f == [turn[k] EXCEPT !.resume = 0]
             c == child[Chat!Now(k)]
  <2>1. turn' = [turn EXCEPT ![k] = f]
    BY <1>3
  <2>2. /\ turn[k] \in TurnRecord /\ TurnOk(k) /\ c \in ChildRecord /\ Chat!Now(k) \in Chat!Turn
        /\ child \in [Chat!Turn -> ChildRecord] /\ turn \in [Key -> TurnRecord]
    BY <1>1, TurnFacts DEF TurnInv, TurnTypes
  <2>3. /\ f \in TurnRecord /\ f.pc = "api" /\ f.n = turn[k].n /\ f.mapped = turn[k].mapped
        /\ f.resume = 0
    BY <1>1, <2>2 DEF TurnRecord
  <2> HIDE DEF f
  <2>4. turn'[k] = f /\ Chat!Now(k)' = Chat!Now(k)
    BY <2>1, <2>2, <2>3 DEF Chat!Now
  <2>5. child' = [child EXCEPT ![Chat!Now(k)] = c] /\ child'[Chat!Now(k)'] = c
    BY <1>1, <2>2, <2>4
  <2>6. /\ alias' \in [Key -> Nat] /\ alias'[k] = 0
        /\ \A j \in Key \ {k} : alias'[j] = alias[j]
    BY <1>3, OwnIsForgotten
  <2>7. c.stage = "none" /\ turn[k].n > 0 /\ Mine(k) = {}
    BY <1>1, <2>2 DEF TurnOk
  <2> HIDE DEF c
  <2>8. ASSUME Mine(k)' = Mine(k)
        PROVE  TurnOk(k)'
    BY <2>3, <2>4, <2>5, <2>6, <2>7, <2>8 DEF TurnOk
  <2>9. c = child[Chat!Now(k)]
    BY DEF c
  <2>10. QED
    BY <1>1, <1>3, <2>1, <2>2, <2>3, <2>5, <2>6, <2>8, <2>9, MoveKeeps
<1>4. QED
  BY <1>2, <1>3 DEF Chat!ApiMissing

\* The rows that are there are numbered.
LEMMA HeadIsARow ==
  ASSUME TurnInv, NEW s
  PROVE  Chat!ActiveHead(s) \in 0..Len(rows)
<1>1. Len(rows) \in Nat /\ Chat!RowsIn(s) \subseteq 1..Len(rows)
  BY DEF Chat!RowsIn, TurnInv, TurnTypes
<1>2. CASE Chat!RowsIn(s) = {}
  BY <1>1, <1>2 DEF Chat!ActiveHead
<1>3. CASE Chat!RowsIn(s) # {}
  <2>1. Chat!Max(Chat!RowsIn(s)) \in Chat!RowsIn(s)
    BY <1>1, <1>3, Greatest
  <2>2. QED
    BY <1>1, <1>3, <2>1 DEF Chat!ActiveHead
<1>4. QED
  BY <1>2, <1>3

\* A process is started for the turn, with no head but one of the rows that are there.
LEMMA SpawnKeeps ==
  ASSUME TurnInv, NEW k \in Key, turn[k].pc \in {"cli", "run"}, Mine(k) = {},
         NEW f \in TurnRecord, turn' = [turn EXCEPT ![k] = f], f.pc = "run", f.n = turn[k].n,
         f.mapped = turn[k].mapped, f.resume \in {0, turn[k].resume}, f.head <= Len(rows),
         \A s \in f.before : s <= made,
         child' = [child EXCEPT ![Chat!Now(k)] = Chat!Spawned(f.resume)],
         UNCHANGED <<rows, made, deleted, titled, outcome>>,
         alias' \in [Key -> Nat], \A j \in Key \ {k} : alias'[j] = alias[j],
         alias'[k] \in {0, alias[k]}, f.resume # 0 => alias'[k] = alias[k],
         f.resume = 0 => alias'[k] = 0
  PROVE  TurnInv'
<1> DEFINE c == Chat!Spawned(f.resume)
<1>1. /\ turn[k] \in TurnRecord /\ TurnOk(k) /\ Chat!Now(k) \in Chat!Turn /\ turn[k].pc # "idle"
      /\ child \in [Chat!Turn -> ChildRecord] /\ turn \in [Key -> TurnRecord]
  BY TurnFacts DEF TurnInv, TurnTypes
<1>2. c \in ChildRecord /\ c.stage = "spawned" /\ c.s = f.resume
  BY DEF Chat!Spawned, ChildRecord, TurnRecord
<1> HIDE DEF c
<1>3. child' = [child EXCEPT ![Chat!Now(k)] = c]
  BY DEF c
<1>4. turn'[k] = f /\ Chat!Now(k)' = Chat!Now(k)
  BY <1>1 DEF Chat!Now
<1>5. child'[Chat!Now(k)'] = c /\ (child[Chat!Now(k)])' = c
  BY <1>1, <1>3, <1>4
<1>6. ASSUME Mine(k)' = Mine(k)
      PROVE  TurnOk(k)'
  <2>1. ProcessOk(k, child[Chat!Now(k)])'
    BY <1>2, <1>4, <1>5, <1>6 DEF ProcessOk
  <2>2. turn[k].n > 0
    BY <1>1 DEF TurnOk
  <2>3. f.resume # 0 =>
          /\ f.resume \in {alias'[k], titled'[k]} \/ alias'[k] = 0
          /\ f.mapped # f.resume => alias'[k] \in {0, titled'[k]}
    BY <1>1 DEF TurnOk
  <2>4. QED
    BY <1>4, <2>1, <2>2, <2>3 DEF TurnOk
<1>7. QED
  BY <1>1, <1>2, <1>3, <1>6, MoveKeeps

LEMMA CliKeeps ==
  ASSUME TurnInv, NEW k \in Key, Chat!Cli(k)
  PROVE  TurnInv'
<1>1. PICK head \in {-1, IF turn[k].resume \in Chat!Live
                          THEN Chat!ActiveHead(turn[k].resume) ELSE -1} :
        turn' = [turn EXCEPT ![k].pc = "run", ![k].before = Chat!Live, ![k].head = head]
  BY DEF Chat!Cli
<1>2. /\ turn[k].pc = "cli"
      /\ child' = [child EXCEPT ![Chat!Now(k)] = Chat!Spawned(turn[k].resume)]
      /\ UNCHANGED <<rows, made, deleted, titled, alias, outcome>>
  BY DEF Chat!Cli, Chat!db, Chat!sessions
<1>3. /\ turn[k] \in TurnRecord /\ TurnOk(k) /\ made \in Nat /\ Len(rows) \in Nat
      /\ alias \in [Key -> Nat]
  BY TurnFacts DEF TurnInv, TurnTypes
<1>4. head \in Int /\ head <= Len(rows)
  BY <1>1, <1>3, HeadIsARow
<1>5. Chat!Live \subseteq Nat /\ \A s \in Chat!Live : s <= made
  BY <1>3 DEF Chat!Live
<1> DEFINE f == [turn[k] EXCEPT !.pc = "run", !.before = Chat!Live, !.head = head]
<1>6. turn' = [turn EXCEPT ![k] = f]
  BY <1>1
<1>7. /\ f \in TurnRecord /\ f.pc = "run" /\ f.n = turn[k].n /\ f.mapped = turn[k].mapped
      /\ f.resume = turn[k].resume /\ f.head = head /\ f.before = Chat!Live
  BY <1>3, <1>4, <1>5 DEF TurnRecord
<1> HIDE DEF f
<1>8. Mine(k) = {} /\ (turn[k].resume = 0 => alias[k] = 0)
  BY <1>2, <1>3 DEF TurnOk
<1>9. QED
  BY <1>2, <1>3, <1>4, <1>5, <1>6, <1>7, <1>8, SpawnKeeps

\* The waiting for a process ends in its answer or in failure.
LEMMA TimesOutKeeps ==
  ASSUME TurnInv, NEW k \in Key, Chat!TimesOut(k)
  PROVE  TurnInv'
<1>1. turn[k].pc = "run" /\ UNCHANGED <<rows, made, deleted, titled, alias, child>>
  BY DEF Chat!TimesOut, Chat!db, Chat!sessions
<1>2. CASE Chat!Settle(k, "failed")
  BY <1>1, <1>2, FailureKeeps
<1>3. CASE /\ child[Chat!Now(k)].stage = "answered"
           /\ turn' = [turn EXCEPT ![k].pc = "select"] /\ UNCHANGED outcome
  <2> DEFINE f == [turn[k] EXCEPT !.pc = "select"]
  <2>1. turn' = [turn EXCEPT ![k] = f]
    BY <1>3
  <2>2. /\ f \in TurnRecord /\ f.pc = "select" /\ f.n = turn[k].n /\ f.mapped = turn[k].mapped
        /\ f.resume = turn[k].resume /\ f.before = turn[k].before /\ f.head = turn[k].head
    BY TurnFacts DEF TurnRecord
  <2> HIDE DEF f
  <2>3. child[Chat!Now(k)].s # 0
    BY <1>1, <1>3, TurnFacts, ThisTurn DEF AnswersOnce
  <2>4. QED
    BY <1>1, <1>3, <2>1, <2>2, <2>3, PlaceKeeps
<1>4. QED
  BY <1>2, <1>3 DEF Chat!TimesOut

\* The process of a turn is gone.
LEMMA ClosedKeeps ==
  ASSUME TurnInv, NEW k \in Key, Chat!Closed(k)
  PROVE  TurnInv'
<1> DEFINE c == child[Chat!Now(k)]
<1>1. turn[k].pc = "run" /\ UNCHANGED <<rows, made, deleted, titled>>
  BY DEF Chat!Closed, Chat!db, Chat!sessions
<1>2. /\ turn[k] \in TurnRecord /\ TurnOk(k) /\ Chat!Now(k) \in Chat!Turn /\ ProcessOk(k, c)
      /\ AnswersOnce(k)
  BY <1>1, TurnFacts DEF TurnOk
<1>3. CASE /\ c.stage \in {"ended", "failed", "missing"}
           /\ turn' = [turn EXCEPT ![k].pc = "recover"] /\ UNCHANGED <<alias, child, outcome>>
  <2> DEFINE f == [turn[k] EXCEPT !.pc = "recover"]
  <2>1. turn' = [turn EXCEPT ![k] = f]
    BY <1>3
  <2>2. /\ f \in TurnRecord /\ f.pc = "recover" /\ f.n = turn[k].n
        /\ f.mapped = turn[k].mapped
        /\ f.resume = turn[k].resume /\ f.before = turn[k].before /\ f.head = turn[k].head
    BY <1>2 DEF TurnRecord
  <2> HIDE DEF f
  <2>3. QED
    BY <1>1, <1>3, <2>1, <2>2, PlaceKeeps
<1>4. CASE /\ c.stage = "ended"
           /\ turn' = [turn EXCEPT ![k].pc = "select"] /\ UNCHANGED <<alias, child, outcome>>
  <2> DEFINE f == [turn[k] EXCEPT !.pc = "select"]
  <2>1. turn' = [turn EXCEPT ![k] = f]
    BY <1>4
  <2>2. /\ f \in TurnRecord /\ f.pc = "select" /\ f.n = turn[k].n
        /\ f.mapped = turn[k].mapped
        /\ f.resume = turn[k].resume /\ f.before = turn[k].before /\ f.head = turn[k].head
    BY <1>2 DEF TurnRecord
  <2> HIDE DEF f
  <2>3. c.s # 0
    BY <1>2, <1>4, ThisTurn DEF AnswersOnce
  <2>4. QED
    BY <1>1, <1>4, <2>1, <2>2, <2>3, PlaceKeeps
<1>5. CASE Chat!Settle(k, "failed") /\ UNCHANGED <<alias, child>>
  BY <1>1, <1>5, FailureKeeps
<1>6. CASE /\ c.stage = "missing" /\ turn[k].mapped # 0
           /\ alias' = Chat!Forgotten(k, turn[k].mapped)
           /\ turn' = [turn EXCEPT ![k].resume = 0, ![k].head = -1]
           /\ child' = [child EXCEPT ![Chat!Now(k)] = Chat!Spawned(0)] /\ UNCHANGED outcome
  <2> DEFINE f == [turn[k] EXCEPT !.resume = 0, !.head = -1]
  <2>1. turn' = [turn EXCEPT ![k] = f]
    BY <1>6
  <2>2. /\ f \in TurnRecord /\ f.pc = "run" /\ f.n = turn[k].n /\ f.mapped = turn[k].mapped
        /\ f.resume = 0 /\ f.before = turn[k].before /\ f.head = -1
    <3>1. 0 \in Nat /\ -1 \in Int
      OBVIOUS
    <3>2. f \in TurnRecord
      BY <1>2, <3>1 DEF TurnRecord
    <3>3. QED
      BY <1>1, <1>2, <3>2 DEF TurnRecord
  <2> HIDE DEF f
  <2>3. /\ alias' \in [Key -> Nat] /\ alias'[k] = 0
        /\ \A j \in Key \ {k} : alias'[j] = alias[j]
    BY <1>6, OwnIsForgotten
  <2>4. Mine(k) = {} /\ \A s \in turn[k].before : s <= made
    BY <1>2, <1>6 DEF ProcessOk
  <2>5. f.head <= Len(rows)
    BY <2>2, TurnFacts
  <2>6. QED
    BY <1>1, <1>6, <2>1, <2>2, <2>3, <2>4, <2>5, SpawnKeeps
<1>7. QED
  BY <1>3, <1>4, <1>5, <1>6 DEF Chat!Closed

\* A step of a turn's process, which may add a row behind the others.
LEMMA ProcessKeeps ==
  ASSUME TurnInv, NEW k \in Key, NEW t \in Chat!Turn, t[1] = k, child[t].stage # "none",
         NEW c \in ChildRecord, child' = [child EXCEPT ![t] = c],
         UNCHANGED <<deleted, titled, alias, turn, outcome>>,
         c.stage \notin {"none", "spawned", "served"},
         \/ c.s = child[t].s /\ made' = made
         \/ child[t].stage = "spawned" /\ child[t].s = 0 /\ c.s = made + 1 /\ made' = made + 1,
         c.stage \in {"prompted", "answered", "ended"} => c.s # 0,
         c.stage = "missing" => child[t].stage = "spawned",
         child[t].stage \in {"ended", "failed", "missing"} =>
           c.stage \in {"ended", "failed", "missing"},
         NEW kind \in {"prompt", "answer"},
         \/ rows' = rows
         \/ /\ rows' = Append(rows, Chat!Row(c.s, t, kind)) /\ c.s # 0 /\ c.stage # "missing"
            /\ kind = "prompt" => child[t].stage = "spawned"
  PROVE  TurnInv'
<1> DEFINE me == Chat!Now(k)
           r == [s |-> c.s, by |-> t, kind |-> kind, on |-> TRUE]
           N == Len(rows)
<1>1. /\ turn[k] \in TurnRecord /\ alias[k] \in Nat /\ titled[k] \in Nat /\ made \in Nat
      /\ AnswersOnce(k) /\ RewindsOk(k) /\ PromptsGo(k) /\ TurnOk(k)
      /\ N \in Nat /\ child[t] \in ChildRecord /\ rows \in Seq(RowRecord)
      /\ \A i \in 1..N :
           rows[i].by \in Chat!Turn /\ rows[i].by[1] \in Key /\ rows[i].s \in Nat \ {0}
  <2>1. \A i \in 1..N : rows[i] \in RowRecord
    BY TurnFacts
  <2>2. QED
    BY <2>1, TurnFacts DEF TurnInv, TurnTypes, RowRecord
<1>2. c.s \in Nat /\ made' \in Nat /\ made <= made' /\ 1..made \subseteq 1..made'
  BY <1>1 DEF ChildRecord
<1>3. /\ child' \in [Chat!Turn -> ChildRecord] /\ child'[t] = c
      /\ \A u \in Chat!Turn : u # t => child'[u] = child[u]
  BY DEF TurnInv, TurnTypes
<1>4. \A j \in Key : Chat!Now(j)' = Chat!Now(j)
  BY DEF Chat!Now
<1>5. r.s = c.s /\ r.by = t /\ r.kind = kind /\ r.on
  OBVIOUS
<1>6. \/ rows' = rows /\ Len(rows') = N
      \/ /\ rows' \in Seq(RowRecord) /\ Len(rows') = N + 1 /\ c.s # 0 /\ c.stage # "missing"
         /\ \A i \in 1..N : rows'[i] = rows[i]
         /\ rows'[N + 1] = r
         /\ kind = "prompt" => child[t].stage = "spawned"
  <2>1. CASE rows' = rows
    BY <2>1
  <2>2. CASE /\ rows' = Append(rows, Chat!Row(c.s, t, kind)) /\ c.s # 0 /\ c.stage # "missing"
             /\ kind = "prompt" => child[t].stage = "spawned"
    <3>1. c.s \in Nat \ {0}
      BY <1>2, <2>2
    <3>2. QED
      BY <2>2, <3>1, RowAdded
  <2>3. QED
    BY <2>1, <2>2
<1> HIDE DEF r, me, N
<1>7. /\ rows' \in Seq(RowRecord) /\ Len(rows') \in Nat /\ N <= Len(rows')
      /\ \A i \in 1..N : rows'[i] = rows[i] /\ i \in 1..Len(rows')
      /\ \A i \in 1..Len(rows') :
           \/ i \in 1..N /\ rows'[i] = rows[i]
           \/ /\ i = N + 1 /\ rows'[i] = r /\ c.s # 0 /\ c.stage # "missing"
              /\ kind = "prompt" => child[t].stage = "spawned"
  <2>1. N <= Len(rows') /\ Len(rows') \in Nat
    BY <1>1, <1>6
  <2>2. N = Len(rows)
    BY DEF N
  <2>3. QED
    BY <1>1, <1>6, <2>1, <2>2
<1>8. TurnTypes'
  <2>1. deleted' \subseteq 1..made'
    BY <1>2 DEF TurnInv, TurnTypes
  <2>2. QED
    BY <1>2, <1>3, <1>4, <1>7, <2>1 DEF TurnInv, TurnTypes
<1>9. ASSUME NEW j \in Key \ {k}
      PROVE  Still(j)
  <2>1. \A i \in 1..Len(rows') : rows'[i].by[1] = j => i <= Len(rows) /\ rows'[i] = rows[i]
    BY <1>1, <1>5, <1>7 DEF N
  <2>2. \A i \in 1..Len(rows) : rows'[i] = rows[i]
    BY <1>7 DEF N
  <2>3. QED
    BY <1>3, <2>1, <2>2 DEF Still
<1>10. ASSUME NEW x \in Nat, Has(k, x)'
       PROVE  x = 0 \/ Has(k, x) \/ (x = made + 1 /\ made' = x)
  <2>1. (c.s = made + 1 /\ made' = c.s) \/ Has(k, c.s)
    BY DEF Has
  <2>2. ASSUME NEW i \in 1..Len(rows'), rows'[i].by[1] = k, rows'[i].s = x
        PROVE  x = c.s \/ Has(k, x)
    BY <1>5, <1>7, <2>2 DEF Has, N
  <2>3. ASSUME NEW u \in Chat!Turn, u[1] = k, child'[u].s = x
        PROVE  x = c.s \/ Has(k, x)
    BY <1>3, <2>3 DEF Has
  <2>4. QED
    BY <1>10, <2>1, <2>2, <2>3 DEF Has
<1>11. AnswersOnce(k)'
  <2>1. \A u \in Chat!Turn : u[1] = k /\ u[2] > turn[k].n => u # t
    BY <1>1 DEF AnswersOnce
  <2>2. t[2] \in Nat /\ turn[k].n \in Nat
    BY <1>1, TurnShape DEF TurnRecord
  <2>3. t[2] <= turn[k].n
    BY <1>1, <2>2 DEF AnswersOnce
  <2>4. \A i \in 1..Len(rows') : rows'[i].by[1] = k => rows'[i].by[2] <= turn[k].n
    BY <1>1, <1>5, <1>7, <2>3 DEF AnswersOnce, N
  <2>5. QED
    BY <1>1, <1>3, <2>1, <2>4 DEF AnswersOnce
<1>12. RewindsOk(k)'
  <2>1. ASSUME NEW i \in 1..Len(rows'), rows'[i].by[1] = k, ~rows'[i].on
        PROVE  Excused(i)'
    <3>1. i \in 1..N /\ rows'[i] = rows[i] /\ Excused(i)
      BY <1>1, <1>5, <1>7, <2>1 DEF RewindsOk, N
    <3>2. \A j \in 1..(i - 1) : rows'[j] = rows[j]
      BY <1>1, <1>7, <3>1
    <3>3. QED
      BY <3>1, <3>2 DEF Excused
  <2>2. QED
    BY <2>1 DEF RewindsOk
<1>13. PromptsGo(k)'
  <2>1. child[t].stage = "spawned" => outcome[t] # "aborted"
    BY <1>1 DEF AnswersOnce
  <2>2. ASSUME NEW s \in {alias[k], turn[k].resume} \ {0, titled[k]},
               NEW i \in 1..Len(rows'), rows'[i].s = s, rows'[i].on, rows'[i].kind = "prompt"
        PROVE  outcome[rows'[i].by] # "aborted"
    <3>1. CASE i \in 1..N /\ rows'[i] = rows[i]
      BY <1>1, <2>2, <3>1 DEF PromptsGo, Clean, N
    <3>2. CASE rows'[i] = r /\ (kind = "prompt" => child[t].stage = "spawned")
      BY <1>5, <2>1, <2>2, <3>2
    <3>3. QED
      BY <1>7, <3>1, <3>2
  <2>3. QED
    BY <2>2 DEF PromptsGo, Clean
<1>14. TurnOk(k)'
  <2>1. me' = me /\ me = Chat!Now(k) /\ Chat!Now(k)' = me
    BY <1>4 DEF me
  <2>2. Mine(k) = {i \in 1..N : rows[i].by = me}
        /\ Mine(k)' = {i \in 1..Len(rows') : rows'[i].by = me}
    BY <2>1 DEF Mine, N
  <2>3. turn[k].pc \in {"api", "ensure", "cli", "stream"} => t # me
    BY <1>1, <2>1 DEF TurnOk
  <2>4. t # me => Mine(k)' = Mine(k)
    BY <1>5, <1>7, <2>2
  <2>5. ASSUME turn[k].pc \in {"run", "select", "recover"}
        PROVE  ProcessOk(k, child[Chat!Now(k)])'
    <3> DEFINE d == child[me]
               e == child'[me]
    <3>1. me \in Chat!Turn /\ ProcessOk(k, d) /\ d \in ChildRecord
      BY <1>1, <2>1, <2>5, TurnFacts DEF TurnOk
    <3>2. (child[Chat!Now(k)])' = e
      BY <2>1
    <3>3. turn[k].head \in Int /\ turn[k].before \subseteq Nat
      BY <1>1 DEF TurnRecord
    <3>4. turn[k].head <= N /\ (\A s \in turn[k].before : s <= made) /\ d.stage # "none"
      BY <3>1 DEF ProcessOk, N
    <3>5. turn[k].head <= Len(rows') /\ \A s \in turn[k].before : s <= made'
      BY <1>1, <1>2, <1>7, <3>3, <3>4
    <3>6. CASE t # me
      <4>1. e = d /\ Mine(k)' = Mine(k)
        BY <1>3, <2>4, <3>1, <3>6
      <4> HIDE DEF d, e
      <4>2. \A i \in Mine(k) : rows'[i] = rows[i]
        BY <1>7, <2>2
      <4>3. ASSUME turn[k].resume = 0, d.s # 0
            PROVE  /\ \A u \in Chat!Turn : u # me => child'[u].s # d.s
                   /\ \A i \in 1..Len(rows') : rows'[i].s = d.s => rows'[i].by = me
        <5>1. /\ \A u \in Chat!Turn : u # me => child[u].s # d.s
              /\ \A i \in 1..N : rows[i].s = d.s => rows[i].by = me
          BY <2>1, <3>1, <4>3 DEF ProcessOk, N
        <5>2. d.s <= made /\ d.s \in Nat
          <6>1. PICK s \in Nat : s = d.s
            BY <3>1 DEF ChildRecord
          <6>2. Has(k, s)
            BY <2>1, <3>1, <6>1, ThisTurn DEF Has, d
          <6>3. QED
            BY <6>1, <6>2 DEF TurnInv, SessionsApart
        <5>3. c.s # d.s
          BY <1>1, <3>6, <5>1, <5>2
        <5>4. QED
          BY <1>3, <1>5, <1>7, <5>1, <5>3
      <4>4. QED
        BY <2>1, <3>1, <3>2, <3>5, <4>1, <4>2, <4>3 DEF ProcessOk
    <3>7. CASE t = me
      <4>1. e = c /\ d = child[t]
        BY <1>3, <3>7
      <4> HIDE DEF d, e
      <4>2. /\ \A i \in 1..N : rows[i].by = me => rows[i].s = d.s /\ i > turn[k].head
            /\ d.stage \in {"spawned", "missing"} => \A i \in 1..N : rows[i].by # me
            /\ turn[k].resume # 0 => d.s = turn[k].resume
            /\ turn[k].pc = "select" => d.s # 0
            /\ turn[k].pc = "recover" => d.stage \in {"ended", "failed", "missing"}
        BY <2>2, <3>1 DEF ProcessOk
      <4>3. ASSUME NEW i \in 1..Len(rows'), rows'[i].by = me
            PROVE  rows'[i].s = c.s /\ i > turn[k].head
        <5>1. CASE i \in 1..N /\ rows'[i] = rows[i]
          <6>1. rows[i].s = d.s /\ i > turn[k].head /\ d.stage # "spawned"
            BY <4>2, <4>3, <5>1
          <6>2. QED
            BY <4>1, <5>1, <6>1
        <5>2. CASE i = N + 1 /\ rows'[i] = r
          BY <1>1, <1>5, <3>3, <3>4, <5>2
        <5>3. QED
          BY <1>7, <5>1, <5>2
      <4>4. ASSUME c.stage \in {"spawned", "missing"}
            PROVE  Mine(k)' = {}
        <5>1. d.stage = "spawned" /\ \A i \in 1..N : rows[i].by # me
          BY <4>1, <4>2, <4>4
        <5>2. QED
          BY <1>7, <2>2, <4>4, <5>1
      <4>5. turn[k].resume # 0 => c.s = turn[k].resume
        BY <4>1, <4>2
      <4>6. ASSUME turn[k].resume = 0, c.s # 0
            PROVE  /\ c.s \notin turn[k].before
                   /\ turn[k].pc # "recover" => c.s \notin deleted
                   /\ \A u \in Chat!Turn : u # me => child'[u].s # c.s
                   /\ \A i \in 1..Len(rows') : rows'[i].s = c.s => rows'[i].by = me
        <5>1. CASE c.s = d.s
          <6>1. /\ c.s \notin turn[k].before
                /\ turn[k].pc # "recover" => c.s \notin deleted
                /\ \A u \in Chat!Turn : u # me => child[u].s # c.s
                /\ \A i \in 1..N : rows[i].s = c.s => rows[i].by = me
            BY <2>1, <3>1, <4>6, <5>1 DEF ProcessOk, N
          <6>2. QED
            BY <1>3, <1>5, <1>7, <3>7, <6>1
        <5>2. CASE c.s = made + 1
          <6>1. c.s \notin turn[k].before /\ c.s \notin deleted
            BY <1>1, <3>3, <3>4, <5>2 DEF TurnInv, TurnTypes
          <6>2. ASSUME NEW u \in Chat!Turn
                PROVE  child[u].s # c.s
            <7>1. PICK s \in Nat, j \in Key : s = child[u].s /\ j = u[1]
              BY TurnShape DEF TurnInv, TurnTypes, ChildRecord
            <7>2. Has(j, s)
              BY <7>1 DEF Has
            <7>3. s <= made
              BY <7>2 DEF TurnInv, SessionsApart
            <7>4. QED
              BY <1>1, <5>2, <7>1, <7>3
          <6>3. ASSUME NEW i \in 1..N
                PROVE  rows[i].s # c.s
            <7>1. PICK s \in Nat, j \in Key : s = rows[i].s /\ j = rows[i].by[1]
              BY <1>1
            <7>2. Has(j, s)
              BY <7>1 DEF Has, N
            <7>3. s <= made
              BY <7>2 DEF TurnInv, SessionsApart
            <7>4. QED
              BY <1>1, <5>2, <7>1, <7>3
          <6>4. QED
            BY <1>3, <1>5, <1>7, <3>7, <6>1, <6>2, <6>3
        <5>3. QED
          BY <4>1, <5>1, <5>2
      <4>7. turn[k].pc = "select" => c.s # 0
        BY <4>1, <4>2
      <4>8. turn[k].pc = "recover" => c.stage \in {"ended", "failed", "missing"}
        BY <4>1, <4>2
      <4>9. QED
        BY <2>1, <2>2, <3>2, <3>5, <4>1, <4>3, <4>4, <4>5, <4>6, <4>7, <4>8 DEF ProcessOk
    <3>8. QED
      BY <3>6, <3>7
  <2>6. turn[k].pc \in {"api", "ensure", "cli", "stream"} => child'[me] = child[me]
    BY <1>1, <1>3, <2>1, <2>3, TurnFacts
  <2>7. QED
    BY <1>1, <2>1, <2>3, <2>4, <2>5, <2>6 DEF TurnOk
<1>15. QED
  <2>1. KeyOk(k)'
    BY <1>11, <1>12, <1>13, <1>14 DEF KeyOk
  <2>2. Len(rows) <= Len(rows') /\ made' \in {made, made + 1} /\ deleted' = deleted
    BY <1>7 DEF N
  <2>3. QED
    BY <1>8, <1>9, <1>10, <2>1, <2>2, StepKeeps

LEMMA ChildKeeps ==
  ASSUME TurnInv, NEW t \in Chat!Turn,
         Chat!ChildPrompts(t) \/ Chat!ChildAnswers(t) \/ Chat!ChildExits(t)
  PROVE  TurnInv'
<1> DEFINE k == t[1]
<1>1. k \in Key /\ child[t] \in ChildRecord /\ AnswersOnce(k)
  BY TurnShape, TurnFacts DEF TurnInv, TurnTypes
<1>2. child[t].stage \in {"prompted", "served", "answered", "ended"} => child[t].s # 0
  BY <1>1 DEF AnswersOnce
<1>3. CASE Chat!ChildPrompts(t)
  <2>1. /\ child[t].stage = "spawned" /\ UNCHANGED <<deleted, titled, alias, turn, outcome>>
    BY <1>3 DEF Chat!ChildPrompts
  <2>2. PICK s \in Chat!HermesSession :
          /\ IF child[t].s # 0 THEN s = child[t].s /\ UNCHANGED made
                               ELSE s = made + 1 /\ made' = s
          /\ rows' = Append(rows, Chat!Row(s, t, "prompt"))
          /\ child' = [child EXCEPT ![t].s = s, ![t].stage = "prompted"]
    BY <1>3 DEF Chat!ChildPrompts
  <2> DEFINE c == [child[t] EXCEPT !.s = s, !.stage = "prompted"]
  <2>3. s \in Nat \ {0}
    BY TurnConstants DEF Chat!HermesSession
  <2>4. c \in ChildRecord /\ c.s = s /\ c.stage = "prompted"
    BY <1>1, <2>3 DEF ChildRecord
  <2>5. child' = [child EXCEPT ![t] = c]
    BY <2>2
  <2> HIDE DEF c, k
  <2>6. \/ c.s = child[t].s /\ made' = made
        \/ child[t].stage = "spawned" /\ child[t].s = 0 /\ c.s = made + 1 /\ made' = made + 1
    BY <2>1, <2>2, <2>4
  <2>7. rows' = Append(rows, Chat!Row(c.s, t, "prompt")) /\ c.s # 0
    BY <2>2, <2>3, <2>4
  <2>8. t[1] = k
    BY DEF k
  <2>9. QED
    BY <1>1, <2>1, <2>4, <2>5, <2>6, <2>7, <2>8, ProcessKeeps
<1>4. CASE Chat!ChildAnswers(t)
  <2>1. /\ child[t].stage \in {"prompted", "served"}
        /\ UNCHANGED <<made, deleted, titled, alias, turn, outcome>>
        /\ rows' = Append(rows, Chat!Row(child[t].s, t, "answer"))
        /\ child' = [child EXCEPT ![t].stage = "answered"]
    BY <1>4 DEF Chat!ChildAnswers, Chat!sessions
  <2> DEFINE c == [child[t] EXCEPT !.stage = "answered"]
  <2>2. c \in ChildRecord /\ c.s = child[t].s /\ c.stage = "answered"
    BY <1>1 DEF ChildRecord
  <2>3. child' = [child EXCEPT ![t] = c]
    BY <2>1
  <2> HIDE DEF c, k
  <2>4. rows' = Append(rows, Chat!Row(c.s, t, "answer")) /\ c.s # 0
    BY <1>2, <2>1, <2>2
  <2>5. t[1] = k
    BY DEF k
  <2>6. QED
    BY <1>1, <2>1, <2>2, <2>3, <2>4, <2>5, ProcessKeeps
<1>5. CASE Chat!ChildExits(t)
  <2> DEFINE how == CASE child[t].stage = "answered" -> "ended"
                      [] child[t].stage \in {"prompted", "served"} -> "failed"
                      [] OTHER -> IF child[t].s \in deleted THEN "missing" ELSE "failed"
             c == [child[t] EXCEPT !.stage = how]
  <2>1. /\ child[t].stage \in {"spawned", "prompted", "served", "answered"}
        /\ UNCHANGED <<rows, made, deleted, titled, alias, turn, outcome>>
        /\ child' = [child EXCEPT ![t] = c]
    BY <1>5 DEF Chat!ChildExits, Chat!db, Chat!sessions
  <2>2. /\ how \in {"ended", "failed", "missing"}
        /\ how = "ended" => child[t].stage = "answered"
        /\ how = "missing" => child[t].stage = "spawned"
    BY <2>1
  <2> HIDE DEF how
  <2>3. c \in ChildRecord /\ c.s = child[t].s /\ c.stage = how
    BY <1>1, <2>2 DEF ChildRecord
  <2> HIDE DEF c, k
  <2>4. t[1] = k
    BY DEF k
  <2>5. c.stage \in {"prompted", "answered", "ended"} => c.s # 0
    BY <1>2, <2>2, <2>3
  <2>6. QED
    BY <1>1, <2>1, <2>2, <2>3, <2>4, <2>5, ProcessKeeps
<1>6. QED
  BY <1>3, <1>4, <1>5

\* The server undoes a turn that was left to it.
LEMMA ServerUndoesKeeps ==
  ASSUME TurnInv, NEW t \in Chat!Turn, Chat!ServerUndoes(t)
  PROVE  TurnInv'
<1> DEFINE k == t[1]
           X == {i \in 1..Len(rows) : rows[i].by = t}
           c == [child[t] EXCEPT !.stage = "failed"]
<1>1. /\ k \in Key /\ child \in [Chat!Turn -> ChildRecord] /\ DOMAIN rows = 1..Len(rows)
      /\ AnswersOnce(k) /\ TurnOk(k) /\ RewindsOk(k) /\ PromptsGo(k) /\ Len(rows) \in Nat
      /\ \A i \in 1..Len(rows) : rows[i].by \in Chat!Turn
      /\ turn[k].pc # "idle" => Chat!Now(k) \in Chat!Turn /\ outcome[Chat!Now(k)] = "open"
  BY TurnShape, TurnFacts DEF TurnInv, TurnTypes
<1>2. /\ child[t].stage = "served"
      /\ UNCHANGED <<made, deleted, titled, alias, turn, outcome>>
      /\ child' = [child EXCEPT ![t] = c]
      /\ rows' = [i \in DOMAIN rows |-> [rows[i] EXCEPT !.on = @ /\ rows[i].by # t]]
  BY DEF Chat!ServerUndoes, Chat!sessions
<1>3. c \in ChildRecord /\ c.s = child[t].s /\ c.stage = "failed"
  BY <1>1 DEF ChildRecord
<1> HIDE DEF c
<1>4. /\ child' \in [Chat!Turn -> ChildRecord] /\ child'[t] = c
      /\ \A u \in Chat!Turn : u # t => child'[u] = child[u]
  BY <1>1, <1>2, <1>3
<1>5. outcome[t] \in {"failed", "left"}
  BY <1>1, <1>2 DEF AnswersOnce
<1>6. rows' = [i \in DOMAIN rows |-> [rows[i] EXCEPT !.on = @ /\ i \notin X]]
  BY <1>1, <1>2
<1>7. \A i \in 1..Len(rows) : i \in X => rows[i].by[1] = k
  OBVIOUS
<1>8. \A i \in 1..Len(rows) : i \in X <=> rows[i].by = t
  OBVIOUS
<1> HIDE DEF X, k
<1>9. /\ Rewritten(k) /\ Len(rows') = Len(rows)
      /\ \A i \in 1..Len(rows) : rows'[i].on <=> rows[i].on /\ i \notin X
  BY <1>1, <1>6, <1>7, SwitchedOff
<1>10. /\ rows' \in Seq(RowRecord)
       /\ \A i \in 1..Len(rows) :
            /\ rows'[i].s = rows[i].s /\ rows'[i].by = rows[i].by
            /\ rows'[i].kind = rows[i].kind
            /\ rows'[i].on => rows[i].on
            /\ rows[i].by[1] # k => rows'[i] = rows[i]
  BY <1>9 DEF Rewritten
<1>11. \A j \in Key : Chat!Now(j)' = Chat!Now(j)
  BY <1>2 DEF Chat!Now
<1>12. TurnTypes'
  BY <1>2, <1>4, <1>10, <1>11 DEF TurnInv, TurnTypes
<1>13. ASSUME NEW j \in Key \ {k}
       PROVE  Still(j)
  <2>1. \A u \in Chat!Turn : u[1] = j => u # t
    BY DEF k
  <2>2. \A u \in Chat!Turn : u[1] = j => child'[u] = child[u]
    BY <1>4, <2>1
  <2>3. \A i \in 1..Len(rows) : rows[i].by[1] = j => rows'[i] = rows[i]
    BY <1>10
  <2>4. \A i \in 1..Len(rows') : rows'[i].by[1] = j => i <= Len(rows) /\ rows'[i] = rows[i]
    BY <1>1, <1>9, <1>10
  <2>5. turn'[j] = turn[j] /\ alias'[j] = alias[j] /\ titled'[j] = titled[j]
    BY <1>2
  <2>6. QED
    BY <1>2, <2>2, <2>3, <2>4, <2>5 DEF Still
<1>14. ASSUME NEW s \in Nat, Has(k, s)'
       PROVE  Has(k, s)
  <2>1. \A u \in Chat!Turn : child'[u].s = child[u].s
    BY <1>3, <1>4
  <2>2. QED
    BY <1>2, <1>9, <1>10, <1>14, <2>1 DEF Has
<1>15. AnswersOnce(k)'
  <2>1. t[2] > turn[k].n => child[t].stage = "none"
    BY <1>1 DEF AnswersOnce, k
  <2>2. \A u \in Chat!Turn : u # t => child'[u] = child[u]
    BY <1>4
  <2>3. ASSUME NEW u \in Chat!Turn, u[1] = k
        PROVE  /\ u[2] > turn[k].n => child'[u].stage = "none"
               /\ outcome[u] = "aborted" => child'[u].stage # "spawned"
               /\ child'[u].stage \in {"prompted", "served", "answered", "ended"} =>
                    child'[u].s # 0
               /\ child'[u].stage = "served" => outcome[u] \in {"failed", "left"}
               /\ child'[u].stage = "none" => child'[u].s = 0
    <3>1. CASE u = t
      BY <1>2, <1>3, <1>4, <2>1, <3>1
    <3>2. CASE u # t
      BY <1>1, <2>2, <2>3, <3>2 DEF AnswersOnce
    <3>3. QED
      BY <3>1, <3>2
  <2>4. \A i \in 1..Len(rows') : rows'[i].by[1] = k => rows'[i].by[2] <= turn[k].n
    BY <1>1, <1>9, <1>10 DEF AnswersOnce
  <2>5. \A u \in Chat!Turn : u[1] = k =>
          (outcome[u] = "open" <=> u[2] > turn[k].n \/ (u[2] = turn[k].n /\ turn[k].pc # "idle"))
    BY <1>1 DEF AnswersOnce
  <2>6. turn' = turn /\ outcome' = outcome
    BY <1>2
  <2>7. QED
    BY <2>3, <2>4, <2>5, <2>6 DEF AnswersOnce
<1>16. RewindsOk(k)'
  <2>1. ASSUME NEW i \in 1..Len(rows), rows[i].by[1] = k, ~rows'[i].on
        PROVE  Excused(i)'
    <3>1. CASE rows[i].by = t
      BY <1>2, <1>5, <1>10, <3>1 DEF Excused
    <3>2. CASE rows[i].by # t
      <4>1. Excused(i)
        BY <1>1, <1>8, <1>9, <2>1, <3>2 DEF RewindsOk
      <4>2. \A j \in 1..(i - 1) : j \in 1..Len(rows)
        BY <1>1
      <4>3. /\ outcome' = outcome /\ rows'[i].s = rows[i].s /\ rows'[i].by = rows[i].by
            /\ \A j \in 1..(i - 1) : /\ rows'[j].s = rows[j].s /\ rows'[j].by = rows[j].by
                                     /\ rows'[j].kind = rows[j].kind
        BY <1>2, <1>10, <4>2
      <4>4. QED
        BY <4>1, <4>3 DEF Excused
    <3>3. QED
      BY <3>1, <3>2
  <2>2. QED
    BY <1>9, <1>10, <2>1 DEF RewindsOk
<1>17. PromptsGo(k)'
  <2>1. ASSUME NEW s, Clean(s)
        PROVE  Clean(s)'
    <3>1. ASSUME NEW i \in 1..Len(rows), rows'[i].s = s, rows'[i].on, rows'[i].kind = "prompt"
          PROVE  outcome'[rows'[i].by] # "aborted"
      BY <1>2, <1>10, <2>1, <3>1 DEF Clean
    <3>2. QED
      BY <1>9, <3>1 DEF Clean
  <2>2. QED
    BY <1>1, <1>2, <2>1 DEF PromptsGo
<1>18. TurnOk(k)'
  <2>1. Mine(k)' = Mine(k)
    BY <1>1, <1>9, <1>10, <1>11 DEF Mine
  <2> DEFINE d == child[Chat!Now(k)]
  <2>2. ASSUME turn[k].pc # "idle"
        PROVE  (child[Chat!Now(k)])' = d
    <3>1. Chat!Now(k) # t
      BY <1>1, <1>5, <2>2
    <3>2. QED
      BY <1>1, <1>4, <1>11, <2>2, <3>1
  <2> HIDE DEF d
  <2>3. ASSUME turn[k].pc \in {"run", "select", "recover"}
        PROVE  ProcessOk(k, child[Chat!Now(k)])'
    <3>1. ProcessOk(k, d)
      BY <1>1, <2>3 DEF TurnOk, d
    <3>2. (child[Chat!Now(k)])' = d
      BY <2>2, <2>3
    <3>3. \A i \in Mine(k) : rows'[i].s = rows[i].s
      BY <1>10 DEF Mine
    <3>4. \A u \in Chat!Turn : child'[u].s = child[u].s
      BY <1>3, <1>4
    <3>5. /\ turn' = turn /\ made' = made /\ deleted' = deleted /\ Len(rows') = Len(rows)
          /\ Chat!Now(k)' = Chat!Now(k)
      BY <1>1, <1>2, <1>9, <1>11
    <3>6. \A i \in 1..Len(rows) : rows'[i].s = rows[i].s /\ rows'[i].by = rows[i].by
      BY <1>10
    <3>7. /\ \A i \in Mine(k)' : rows'[i].s = d.s /\ i > turn[k].head
          /\ turn[k].resume = 0 /\ d.s # 0 =>
               /\ \A u \in Chat!Turn : u # Chat!Now(k) => child'[u].s # d.s
               /\ \A i \in 1..Len(rows') : rows'[i].s = d.s => rows'[i].by = Chat!Now(k)
      BY <2>1, <3>1, <3>3, <3>4, <3>5, <3>6 DEF ProcessOk
    <3>8. QED
      BY <2>1, <3>1, <3>2, <3>5, <3>7 DEF ProcessOk
  <2>4. QED
    BY <1>1, <1>2, <2>1, <2>2, <2>3 DEF TurnOk, d
<1>19. QED
  <2>1. KeyOk(k)'
    BY <1>15, <1>16, <1>17, <1>18 DEF KeyOk
  <2>2. Len(rows) <= Len(rows') /\ made' = made /\ deleted' = deleted
    BY <1>1, <1>2, <1>9
  <2>3. QED
    BY <1>1, <1>12, <1>13, <1>14, <2>1, <2>2, StepKeeps

\* The session a completed turn is found in is the one its process was in.
LEMMA SelectedIsOwn ==
  ASSUME TurnInv, NEW k \in Key, turn[k].pc = "select", Chat!Selected(k) # 0
  PROVE  Chat!Selected(k) = child[Chat!Now(k)].s
<1> DEFINE c == child[Chat!Now(k)]
           own == IF turn[k].resume # 0 THEN {turn[k].resume} \cap Chat!Live
                  ELSE Chat!Live \ turn[k].before
<1>1. /\ ProcessOk(k, c) /\ c \in ChildRecord /\ Chat!Now(k) \in Chat!Turn /\ made \in Nat
      /\ turn[k] \in TurnRecord /\ c.s # 0
  BY TurnFacts DEF TurnOk, ProcessOk
<1>2. PICK s \in own : own = {s} /\ Chat!Selected(k) = Chat!Max(own)
  BY DEF Chat!Selected
<1>3. s \in Nat
  BY <1>1, <1>2 DEF Chat!Live
<1>4. Chat!Max(own) = s
  BY <1>2, <1>3 DEF Chat!Max
<1>5. CASE turn[k].resume # 0
  BY <1>1, <1>2, <1>4, <1>5 DEF ProcessOk
<1>6. CASE turn[k].resume = 0
  <2>1. PICK x \in Nat : x = c.s
    BY <1>1 DEF ChildRecord
  <2>2. Has(k, x)
    BY <1>1, <2>1, ThisTurn DEF Has
  <2>3. x <= made
    BY <2>2 DEF TurnInv, SessionsApart
  <2>4. x \in Chat!Live \ turn[k].before
    BY <1>1, <1>6, <2>1, <2>3 DEF ProcessOk, Chat!Live
  <2>5. QED
    BY <1>2, <1>4, <1>6, <2>1, <2>4
<1>7. QED
  BY <1>5, <1>6

\* A completed turn maps its key to its session.
LEMMA SelectKeeps ==
  ASSUME TurnInv, NEW k \in Key, Chat!Select(k)
  PROVE  TurnInv'
<1> DEFINE s == Chat!Selected(k)
           c == child[Chat!Now(k)]
<1>1. /\ turn[k].pc = "select" /\ Chat!Settle(k, "done")
      /\ alias' = IF s = 0 THEN alias ELSE [alias EXCEPT ![k] = s]
      /\ UNCHANGED <<rows, made, deleted, titled, child>>
  BY DEF Chat!Select, Chat!db, Chat!sessions
<1>2. /\ Chat!Now(k) \in Chat!Turn /\ outcome[Chat!Now(k)] = "open"
      /\ alias \in [Key -> Nat] /\ PromptsGo(k)
      /\ \A i \in 1..Len(rows) : rows[i].by \in Chat!Turn
      /\ TurnOk(k) /\ ProcessOk(k, c) /\ c \in ChildRecord
  BY <1>1, TurnFacts DEF TurnOk, TurnInv, TurnTypes
<1>3. \A t \in Chat!Turn : outcome'[t] = outcome[t] \/ outcome'[t] = "done"
  BY <1>1, <1>2 DEF Chat!Settle, TurnInv, TurnTypes
<1>4. outcome'[Chat!Now(k)] = "done"
  BY <1>1, <1>2 DEF Chat!Settle, TurnInv, TurnTypes
<1>5. CASE s = 0
  <2>1. PromptsGo(k)'
    <3>1. alias' = alias /\ turn'[k].resume = 0
      BY <1>1, <1>5, NothingResumed
    <3>2. \A x : Clean(x) => Clean(x)'
      BY <1>1, <1>2, <1>3 DEF Clean
    <3>3. QED
      BY <1>1, <1>2, <3>1, <3>2 DEF PromptsGo
  <2>2. QED
    BY <1>1, <1>2, <1>5, <2>1, PlainSettleKeeps DEF Has, Answers
<1>6. CASE s # 0
  <2>1. s = c.s /\ s \in Nat
    BY <1>1, <1>2, <1>6, SelectedIsOwn DEF ChildRecord
  <2> HIDE DEF s
  <2>2. alias' \in [Key -> Nat] /\ alias'[k] = s /\ \A j \in Key \ {k} : alias'[j] = alias[j]
    BY <1>1, <1>2, <1>6, <2>1
  <2>3. Has(k, s)
    BY <1>2, <2>1, ThisTurn DEF Has
  <2>4. ASSUME s # titled[k], NEW i \in 1..Len(rows), rows[i].s = s, rows[i].on,
               rows[i].kind = "prompt"
        PROVE  outcome'[rows[i].by] # "aborted"
    <3>1. CASE turn[k].resume = 0
      BY <1>2, <1>4, <1>6, <2>1, <2>4, <3>1 DEF ProcessOk
    <3>2. CASE turn[k].resume # 0
      <4>1. s = turn[k].resume
        BY <1>1, <1>2, <2>1, <3>2 DEF ProcessOk
      <4>2. Clean(s)
        BY <1>2, <1>6, <2>4, <4>1 DEF PromptsGo
      <4>3. QED
        BY <1>2, <1>3, <2>4, <4>2 DEF Clean
    <3>3. QED
      BY <3>1, <3>2
  <2>5. PromptsGo(k)'
    <3>1. PICK x : x = s
      OBVIOUS
    <3>2. x # titled[k] => Clean(x)'
      BY <1>1, <2>4, <3>1 DEF Clean
    <3>3. turn'[k].resume = 0
      BY <1>1, NothingResumed
    <3>4. titled' = titled /\ alias'[k] = x
      BY <1>1, <2>2, <3>1
    <3>5. QED
      BY <3>2, <3>3, <3>4 DEF PromptsGo
  <2>6. QED
    BY <1>1, <2>2, <2>3, <2>5, PlainSettleKeeps DEF Answers
<1>7. QED
  BY <1>5, <1>6

\* The rows of a cancelled turn are rewound, or its session is forgotten.
LEMMA RecoverKeeps ==
  ASSUME TurnInv, NEW k \in Key, Chat!Recover(k)
  PROVE  TurnInv'
<1> DEFINE c == child[Chat!Now(k)]
           X == Chat!After(k)
<1>1. /\ turn[k].pc = "recover" /\ Chat!Settle(k, "aborted")
      /\ UNCHANGED <<made, deleted, titled, child>>
  BY DEF Chat!Recover, Chat!sessions
<1>2. turn'[k].resume = 0 /\ "aborted" \in Answers
  BY <1>1, NothingResumed DEF Answers
<1>3. /\ Chat!Now(k) \in Chat!Turn /\ outcome[Chat!Now(k)] = "open"
      /\ alias \in [Key -> Nat] /\ PromptsGo(k)
      /\ RewindsOk(k) /\ AnswersOnce(k) /\ turn[k] \in TurnRecord /\ Len(rows) \in Nat
      /\ \A i \in 1..Len(rows) : rows[i] \in RowRecord /\ rows[i].by \in Chat!Turn
                                 /\ rows[i].by[1] \in Key
      /\ TurnOk(k) /\ ProcessOk(k, c) /\ c \in ChildRecord
      /\ DOMAIN rows = 1..Len(rows)
  BY <1>1, TurnFacts DEF TurnOk, TurnInv, TurnTypes
<1>4. /\ outcome'[Chat!Now(k)] = "aborted"
      /\ \A t \in Chat!Turn : t # Chat!Now(k) => outcome'[t] = outcome[t]
  BY <1>1, <1>3 DEF Chat!Settle, TurnInv, TurnTypes
<1>5. c.stage # "spawned"
  BY <1>1, <1>3 DEF ProcessOk
<1>6. turn[k].resume = 0 => alias[k] = 0
  BY <1>1, <1>3 DEF TurnOk
<1> HIDE DEF X, c
<1>7. c = child[Chat!Now(k)]
  BY DEF c
<1>8. CASE /\ UNCHANGED rows
           /\ alias' = IF turn[k].resume # 0 /\ turn[k].mapped = turn[k].resume
                       THEN Chat!Forgotten(k, turn[k].mapped) ELSE alias
  <2>1. CASE turn[k].resume # 0 /\ turn[k].mapped = turn[k].resume
    <3>1. /\ alias' \in [Key -> Nat] /\ alias'[k] = 0
          /\ \A j \in Key \ {k} : alias'[j] = alias[j]
      BY <1>8, <2>1, OwnIsForgotten
    <3>2. PromptsGo(k)'
      BY <1>2, <3>1 DEF PromptsGo
    <3>3. QED
      BY <1>1, <1>5, <1>7, <1>8, <1>2, <3>1, <3>2, PlainSettleKeeps
  <2>2. CASE ~(turn[k].resume # 0 /\ turn[k].mapped = turn[k].resume)
    <3>1. alias' = alias /\ alias[k] \in {0, titled[k]}
      BY <1>1, <1>3, <1>6, <1>8, <2>2 DEF TurnOk
    <3>2. PromptsGo(k)'
      BY <1>1, <1>2, <3>1 DEF PromptsGo
    <3>3. QED
      BY <1>1, <1>3, <1>5, <1>7, <1>8, <1>2, <3>1, <3>2, PlainSettleKeeps DEF Has
  <2>3. QED
    BY <2>1, <2>2
<1>9. CASE /\ Chat!Rewindable(k) /\ UNCHANGED alias
           /\ rows' = [i \in DOMAIN rows |-> [rows[i] EXCEPT !.on = @ /\ i \notin Chat!After(k)]]
  <2>1. X = {i \in 1..Len(rows) : rows[i].s = turn[k].resume /\ rows[i].on
                                  /\ i > turn[k].head}
    BY <1>3 DEF X, Chat!After, Chat!RowsIn
  <2>2. turn[k].resume \in Nat \ {0}
    BY <1>3, <1>9 DEF Chat!Rewindable, Chat!Live, TurnRecord
  <2>3. \A i \in X : rows[i].by[1] = k
    <3>1. PICK s \in Nat \ {0} : s = turn[k].resume
      BY <2>2
    <3>2. Has(k, s)
      BY <3>1 DEF Has
    <3>3. ASSUME NEW i \in X, NEW j \in Key, rows[i].by[1] = j
          PROVE  j = k
      <4>1. Has(j, s)
        BY <2>1, <3>1, <3>3 DEF Has
      <4>2. QED
        BY <3>2, <4>1 DEF TurnInv, SessionsApart
    <3>4. QED
      BY <1>3, <2>1, <3>3
  <2>4. rows' = [i \in DOMAIN rows |-> [rows[i] EXCEPT !.on = @ /\ i \notin X]]
    BY <1>9 DEF X
  <2>5. \A i \in 1..Len(rows) : i \in X => rows[i].by[1] = k
    BY <2>3
  <2>6. /\ Rewritten(k) /\ Len(rows') = Len(rows)
        /\ \A i \in 1..Len(rows) : rows'[i].on <=> rows[i].on /\ i \notin X
    BY <2>4, <2>5, SwitchedOff
  <2>7. ASSUME X # {}
        PROVE  \E i \in X : /\ rows[i].kind = "prompt" /\ rows[i].by = Chat!Now(k)
                            /\ \A j \in X : i <= j
    <3>1. X \subseteq Nat
      BY <2>1
    <3>2. Chat!Min(X) \in X /\ \A j \in X : Chat!Min(X) <= j
      BY <2>7, <3>1, Smallest
    <3>3. rows[Chat!Min(X)].kind = "prompt" /\ rows[Chat!Min(X)].by = Chat!Now(k)
      BY <1>9, <2>7 DEF X, Chat!Rewindable
    <3>4. QED
      BY <3>2, <3>3
  <2>8. ASSUME NEW i \in 1..Len(rows'), rows'[i].by[1] = k, ~rows'[i].on
        PROVE  Excused(i)'
    <3>1. /\ i \in 1..Len(rows) /\ rows'[i].by = rows[i].by /\ rows'[i].s = rows[i].s
          /\ rows[i].by \in Chat!Turn
      BY <1>3, <2>6 DEF Rewritten
    <3>2. CASE i \notin X
      <4>1. Excused(i)
        BY <1>3, <2>6, <2>8, <3>1, <3>2 DEF RewindsOk
      <4>2. QED
        BY <1>1, <2>6, <3>1, <4>1, ExcusedStays
    <3>3. CASE i \in X /\ rows[i].by = Chat!Now(k)
      BY <1>4, <3>1, <3>3 DEF Excused
    <3>4. CASE i \in X /\ rows[i].by # Chat!Now(k)
      <4>1. PICK j \in X : /\ rows[j].kind = "prompt" /\ rows[j].by = Chat!Now(k)
                           /\ \A l \in X : j <= l
        BY <2>7, <3>4
      <4>2. j \in 1..(i - 1) /\ j \in 1..Len(rows)
        BY <1>3, <2>1, <3>1, <3>4, <4>1
      <4>3. /\ rows'[j].s = rows'[i].s /\ rows'[j].kind = "prompt" /\ rows'[j].by = Chat!Now(k)
        BY <2>1, <2>6, <3>1, <3>4, <4>1, <4>2 DEF Rewritten
      <4>4. rows[i].by[2] < turn[k].n /\ outcome[rows[i].by] # "open"
        <5>1. rows[i].by[2] <= turn[k].n /\ rows[i].by[2] \in Nat /\ turn[k].n \in Nat
          BY <1>3, <2>8, <3>1, TurnShape DEF AnswersOnce, TurnRecord
        <5>2. rows[i].by[2] # turn[k].n
          BY <2>8, <3>1, <3>4, ThisTurn
        <5>3. QED
          BY <1>3, <2>8, <3>1, <5>1, <5>2 DEF AnswersOnce
      <4>5. Chat!Now(k)[1] = k /\ Chat!Now(k)[2] = turn[k].n
        BY ThisTurn
      <4>6. outcome'[rows'[i].by] # "open"
        BY <1>4, <3>1, <3>4, <4>4
      <4>7. rows'[j].by[2] > rows'[i].by[2] /\ rows'[j].by[1] = rows'[i].by[1]
        BY <1>3, <2>8, <3>1, <4>3, <4>4, <4>5, TurnShape DEF TurnRecord
      <4>8. outcome'[rows'[j].by] = "aborted"
        BY <1>4, <4>3
      <4>9. QED
        BY <4>2, <4>3, <4>6, <4>7, <4>8 DEF Excused
    <3>5. QED
      BY <3>2, <3>3, <3>4
  <2>9. PromptsGo(k)'
    <3>1. ASSUME alias[k] \notin {0, titled[k]}, NEW i \in 1..Len(rows), rows'[i].s = alias[k],
                 rows'[i].on, rows'[i].kind = "prompt"
          PROVE  outcome'[rows'[i].by] # "aborted"
      <4>1. /\ rows'[i].by = rows[i].by /\ rows[i].s = alias[k] /\ rows[i].on /\ i \notin X
            /\ rows[i].kind = "prompt" /\ rows[i].by \in Chat!Turn
        BY <1>3, <2>6, <3>1 DEF Rewritten
      <4>2. ASSUME rows[i].by = Chat!Now(k)
            PROVE  FALSE
        <5>1. i > turn[k].head /\ rows[i].s = c.s
          BY <1>3, <4>2 DEF ProcessOk, Mine
        <5>2. c.s = turn[k].resume
          BY <1>3, <2>2 DEF ProcessOk
        <5>3. QED
          BY <2>1, <4>1, <5>1, <5>2
      <4>3. QED
        BY <1>3, <1>4, <3>1, <4>1, <4>2 DEF PromptsGo, Clean
    <3>2. PICK x : x = alias[k]
      OBVIOUS
    <3>3. x \notin {0, titled[k]} => Clean(x)'
      BY <2>6, <3>1, <3>2 DEF Clean
    <3>4. titled' = titled /\ alias'[k] = x
      BY <1>1, <1>9, <3>2
    <3>5. QED
      BY <1>2, <3>3, <3>4 DEF PromptsGo
  <2>10. alias' \in [Key -> Nat] /\ (\A j \in Key \ {k} : alias'[j] = alias[j])
         /\ Has(k, alias'[k])
    BY <1>3, <1>9 DEF Has
  <2>11. QED
    BY <1>1, <1>5, <1>7, <1>2, <2>6, <2>8, <2>9, <2>10, TurnSettles
<1>10. QED
  BY <1>8, <1>9 DEF Chat!Recover

\* A key may lose its session, and a session be deleted that no running turn has made.
LEMMA LossKeeps ==
  ASSUME TurnInv, UNCHANGED <<rows, made, titled, turn, child, outcome>>,
         deleted' \subseteq 1..made, alias' \in [Key -> Nat],
         \A k \in Key : alias'[k] \in {0, alias[k]},
         \A k \in Key : turn[k].pc \in {"run", "select"} /\ turn[k].resume = 0 =>
                         child[Chat!Now(k)].s \notin deleted' \ deleted
  PROVE  TurnInv'
<1>1. \A k \in Key : Chat!Now(k)' = Chat!Now(k) /\ Mine(k)' = Mine(k)
  BY DEF Chat!Now, Mine
<1>2. TurnTypes'
  BY <1>1 DEF TurnInv, TurnTypes
<1>3. \A k \in Key, x \in Nat : Has(k, x)' => x = 0 \/ Has(k, x)
  BY DEF Has
<1>4. SessionsApart'
  BY <1>3 DEF SessionsApart, TurnInv, TurnTypes
<1>5. ASSUME NEW k \in Key
      PROVE  KeyOk(k)'
  <2>1. AnswersOnce(k) /\ TurnOk(k) /\ RewindsOk(k) /\ PromptsGo(k)
    BY TurnFacts
  <2>2. AnswersOnce(k)' /\ RewindsOk(k)'
    BY <2>1 DEF AnswersOnce, RewindsOk, Excused
  <2>3. PromptsGo(k)'
    <3>1. \A s : Clean(s)' <=> Clean(s)
      BY DEF Clean
    <3>2. QED
      BY <2>1, <3>1 DEF PromptsGo
  <2> DEFINE c == child[Chat!Now(k)]
  <2>4. (child[Chat!Now(k)])' = c
    BY <1>1
  <2>5. turn[k].pc \in {"run", "select"} /\ turn[k].resume = 0 => c.s \notin deleted' \ deleted
    OBVIOUS
  <2> HIDE DEF c
  <2>6. ASSUME turn[k].pc \in {"run", "select", "recover"}
        PROVE  ProcessOk(k, child[Chat!Now(k)])'
    <3>1. ProcessOk(k, c)
      BY <2>1, <2>6 DEF TurnOk, c
    <3>2. QED
      BY <1>1, <2>4, <2>5, <2>6, <3>1 DEF ProcessOk
  <2>7. TurnOk(k)'
    BY <1>1, <2>1, <2>4, <2>6 DEF TurnOk, c
  <2>8. QED
    BY <2>2, <2>3, <2>7 DEF KeyOk
<1>6. QED
  BY <1>2, <1>4, <1>5 DEF TurnInv

\* The user deletes a session, but none that a running turn has made.
LEMMA DeleteKeeps ==
  ASSUME TurnInv, NEW s \in Chat!HermesSession, Chat!Delete(s), ~torn'
  PROVE  TurnInv'
<1>1. /\ s \in Chat!Live /\ ~Chat!MadeByTurn(s) /\ deleted' = deleted \cup {s}
      /\ UNCHANGED <<rows, made, titled, alias, turn, child, outcome>>
  BY DEF Chat!Delete
<1>2. alias \in [Key -> Nat] /\ deleted' \subseteq 1..made
  BY <1>1 DEF TurnInv, TurnTypes, Chat!Live
<1>3. \A k \in Key : turn[k].pc \in {"run", "select"} /\ turn[k].resume = 0 =>
                      child[Chat!Now(k)].s \notin deleted' \ deleted
  BY <1>1 DEF Chat!MadeByTurn
<1>4. QED
  BY <1>1, <1>2, <1>3, LossKeeps

\* The session that was deleted is forgotten.
LEMMA ForgetKeeps ==
  ASSUME TurnInv, NEW j, NEW s, Chat!Forget(j, s)
  PROVE  TurnInv'
<1>1. /\ UNCHANGED <<rows, made, deleted, titled, turn, child, outcome>>
      /\ alias' = [k \in Key |-> IF k = j \/ alias[k] = s THEN 0 ELSE alias[k]]
  BY DEF Chat!Forget, Chat!Forgotten
<1>2. alias \in [Key -> Nat] /\ deleted \subseteq 1..made
  BY DEF TurnInv, TurnTypes
<1>3. alias' \in [Key -> Nat] /\ \A k \in Key : alias'[k] \in {0, alias[k]}
  BY <1>1, <1>2
<1>4. QED
  BY <1>1, <1>2, <1>3, LossKeeps

\* At first no turn was taken and no session made.
LEMMA InitTurns ==
  ASSUME Chat!Init
  PROVE  TurnInv
<1>1. /\ rows = <<>> /\ made = 0 /\ deleted = {} /\ Len(rows) = 0
      /\ titled = [k \in Key |-> 0] /\ alias = [k \in Key |-> 0]
      /\ turn = [k \in Key |-> Chat!Idle(0)]
      /\ child = [t \in Chat!Turn |-> [s |-> 0, stage |-> "none"]]
      /\ outcome = [t \in Chat!Turn |-> "open"]
  BY DEF Chat!Init
<1>2. Chat!Idle(0) \in TurnRecord /\ Chat!Idle(0).n = 0 /\ Chat!Idle(0).pc = "idle"
      /\ Chat!Idle(0).resume = 0 /\ Chat!Idle(0).mapped = 0
  BY DEF Chat!Idle, TurnRecord
<1>3. rows \in Seq(RowRecord)
  BY <1>1
<1>4. TurnTypes
  BY <1>1, <1>2, <1>3 DEF TurnTypes, ChildRecord
<1>5. \A k \in Key, s \in Nat : Has(k, s) => s = 0
  BY <1>1, <1>2 DEF Has
<1>6. SessionsApart
  BY <1>1, <1>5 DEF SessionsApart
<1>7. ASSUME NEW k \in Key
      PROVE  KeyOk(k)
  <2>1. AnswersOnce(k)
    BY <1>1, <1>2, TurnShape DEF AnswersOnce
  <2>2. RewindsOk(k) /\ PromptsGo(k) /\ TurnOk(k)
    BY <1>1, <1>2 DEF RewindsOk, PromptsGo, TurnOk
  <2>3. QED
    BY <2>1, <2>2 DEF KeyOk
<1>8. QED
  BY <1>4, <1>6, <1>7 DEF TurnInv

\* Every step of the turns keeps the invariant.
LEMMA TurnStep ==
  ASSUME TurnInv, [Chat!Next]_(Chat!vars), ~torn'
  PROVE  TurnInv'
<1>1. CASE UNCHANGED Chat!vars
  <2>1. UNCHANGED <<rows, made, deleted, titled, alias, turn, child, outcome>>
    BY <1>1 DEF Chat!vars
  <2>2. TurnTypes' /\ SessionsApart'
    <3>1. TurnTypes'
      BY <2>1 DEF TurnInv, TurnTypes, Chat!Now
    <3>2. \A k, s : Has(k, s)' <=> Has(k, s)
      BY <2>1 DEF Has
    <3>3. SessionsApart'
      BY <2>1, <3>2 DEF TurnInv, SessionsApart
    <3>4. QED
      BY <3>1, <3>3
  <2>3. ASSUME NEW k \in Key
        PROVE  KeyOk(k)'
    <3>1. AnswersOnce(k) /\ TurnOk(k) /\ RewindsOk(k) /\ PromptsGo(k)
      BY TurnFacts
    <3>2. AnswersOnce(k)'
      BY <2>1, <3>1 DEF AnswersOnce
    <3>3. RewindsOk(k)'
      BY <2>1, <3>1 DEF RewindsOk, Excused
    <3>4. PromptsGo(k)'
      BY <2>1, <3>1 DEF PromptsGo, Clean
    <3>5. TurnOk(k)'
      BY <2>1, <3>1 DEF TurnOk, ProcessOk, Mine, Chat!Now
    <3>6. QED
      BY <3>2, <3>3, <3>4, <3>5 DEF KeyOk
  <2>4. QED
    BY <2>2, <2>3 DEF TurnInv
<1>2. ASSUME NEW k \in Key, NEW files \in BOOLEAN, NEW name \in ({} \cap Chat!Live) \cup {0},
             Chat!Take(k, name, files)
      PROVE  TurnInv'
  <2>1. name = 0
    BY <1>2
  <2>2. QED
    BY <1>2, <2>1, TakeKeeps
<1>3. ASSUME NEW k \in Key,
             \/ Chat!Ensure(k) \/ Chat!ApiDown(k) \/ Chat!ApiPrompt(k)
             \/ Chat!ApiAnswer(k) \/ Chat!ApiAborted(k) \/ Chat!ApiLeft(k) \/ Chat!ApiMissing(k)
             \/ Chat!Cli(k) \/ Chat!HistoryDone(k) \/ Chat!TimesOut(k) \/ Chat!Abort(k)
             \/ Chat!Closed(k) \/ Chat!Select(k) \/ Chat!Recover(k)
      PROVE  TurnInv'
  BY <1>3, EnsureKeeps, EasyMovesKeep, ApiPromptKeeps, ApiAnswerKeeps, ApiAbortedKeeps,
     ApiLeftKeeps,
     ApiMissingKeeps, CliKeeps, TimesOutKeeps, ClosedKeeps, SelectKeeps, RecoverKeeps
<1>4. ASSUME NEW t \in Chat!Turn,
             \/ Chat!ChildPrompts(t) \/ Chat!ChildAnswers(t) \/ Chat!ChildExits(t)
             \/ Chat!ServerUndoes(t)
      PROVE  TurnInv'
  BY <1>4, ChildKeeps, ServerUndoesKeeps
<1>5. ASSUME NEW s \in Chat!HermesSession,
             Chat!Delete(s) \/ \E k \in Key \cup {0} : Chat!Forget(k, s)
      PROVE  TurnInv'
  BY <1>5, DeleteKeeps, ForgetKeeps
<1>6. Chat!Next => TurnInv'
  BY <1>2, <1>3, <1>4, <1>5 DEF Chat!Next
<1>7. Chat!Next \/ UNCHANGED Chat!vars
  OBVIOUS
<1>8. QED
  BY <1>1, <1>6, <1>7

\* What was torn stays so.
LEMMA OnlyDeletionsTear ==
  ASSUME Chat!Next, ~torn'
  PROVE  ~torn
<1>1. ASSUME NEW k \in Key, NEW files, NEW name, Chat!Take(k, name, files)
      PROVE  ~torn
  BY <1>1 DEF Chat!Take, Chat!db, Chat!sessions
<1>2. ASSUME NEW k \in Key,
             \/ Chat!Ensure(k) \/ Chat!ApiDown(k) \/ Chat!ApiPrompt(k)
             \/ Chat!ApiAnswer(k) \/ Chat!ApiAborted(k) \/ Chat!ApiLeft(k) \/ Chat!ApiMissing(k)
      PROVE  ~torn
  BY <1>2 DEF Chat!Ensure, Chat!ApiDown, Chat!ApiPrompt, Chat!ApiAnswer, Chat!ApiAborted,
              Chat!ApiLeft, Chat!ApiMissing, Chat!db, Chat!sessions
<1>3. ASSUME NEW k \in Key,
             \/ Chat!Cli(k) \/ Chat!HistoryDone(k) \/ Chat!TimesOut(k) \/ Chat!Abort(k)
             \/ Chat!Closed(k) \/ Chat!Select(k) \/ Chat!Recover(k)
      PROVE  ~torn
  BY <1>3 DEF Chat!Cli, Chat!HistoryDone, Chat!TimesOut, Chat!Abort, Chat!Closed, Chat!Select,
              Chat!Recover, Chat!db, Chat!sessions
<1>4. ASSUME NEW t \in Chat!Turn,
             \/ Chat!ChildPrompts(t) \/ Chat!ChildAnswers(t) \/ Chat!ChildExits(t)
             \/ Chat!ServerUndoes(t)
      PROVE  ~torn
  BY <1>4 DEF Chat!ChildPrompts, Chat!ChildAnswers, Chat!ChildExits, Chat!ServerUndoes,
              Chat!db, Chat!sessions
<1>5. ASSUME NEW s \in Chat!HermesSession,
             Chat!Delete(s) \/ \E k \in Key \cup {0} : Chat!Forget(k, s)
      PROVE  ~torn
  BY <1>5 DEF Chat!Delete, Chat!Forget
<1>6. QED
  BY <1>1, <1>2, <1>3, <1>4, <1>5 DEF Chat!Next

\* The invariant is what keeps the turns apart.
LEMMA TurnsApart ==
  ASSUME TurnInv
  PROVE  Chat!TurnsKeepApart
<1>1. /\ DOMAIN rows = 1..Len(rows)
      /\ \A i \in 1..Len(rows) : rows[i].by \in Chat!Turn /\ rows[i].by[1] \in Key
                                 /\ rows[i].s \in Nat \ {0}
  <2>1. \A i \in 1..Len(rows) : rows[i] \in RowRecord
    BY DEF TurnInv, TurnTypes
  <2>2. QED
    BY <2>1, TurnShape DEF RowRecord, TurnInv, TurnTypes
<1>2. \A k \in Key : RewindsOk(k) /\ PromptsGo(k) /\ alias[k] \in Nat
  BY TurnFacts
<1>3. Chat!CompletedTurnsStay
  BY <1>1, <1>2 DEF RewindsOk, Excused, Chat!CompletedTurnsStay
<1>4. Chat!MappedToOwn
  <2>1. ASSUME NEW k \in Key, NEW s \in Nat \ {0}, alias[k] = s, NEW i \in Chat!RowsIn(s),
               NEW j \in Key, rows[i].by[1] = j
        PROVE  j = k
    <3>1. Has(k, s) /\ Has(j, s)
      BY <1>1, <2>1 DEF Has, Chat!RowsIn
    <3>2. QED
      BY <3>1 DEF TurnInv, SessionsApart
  <2>2. \A s : \A i \in Chat!RowsIn(s) : rows[i].by[1] \in Key
    BY <1>1 DEF Chat!RowsIn
  <2>3. QED
    BY <1>2, <2>1, <2>2 DEF Chat!MappedToOwn
<1>5. Chat!CancelledPromptsGo
  BY <1>1, <1>2 DEF PromptsGo, Clean, Chat!CancelledPromptsGo, Chat!RowsIn
<1>6. QED
  BY <1>3, <1>4, <1>5 DEF Chat!TurnsKeepApart

-----------------------------------------------------------------------------
(* The parts together                                                      *)

\* Where the connection runs, its invariant holds.
PartsConnectionInv == part = "connection" => ConnectionInv

\* The inductive invariant of the connection holds among the parts.
THEOREM ConnectionInvariance == PartsSpec => []PartsConnectionInv
<1>1. PartsInit => PartsConnectionInv
  BY InitConnection DEF PartsInit, PartsConnectionInv
<1>2. ASSUME PartsConnectionInv, [PartsNext]_partsVars
      PROVE  PartsConnectionInv'
  <2>1. part' = part /\ (part = "connection" => [Connection!Next]_(Connection!vars))
    <3>1. CASE UNCHANGED partsVars
      BY <3>1 DEF partsVars, OwnVars, ConnectionVars, Connection!vars
    <3>2. CASE PartsNext
      <4>1. part' = part
        BY <3>2 DEF PartsNext
      <4>2. ASSUME part = "connection"
            PROVE  Connection!Next
        BY <3>2, <4>2 DEF PartsNext
      <4>3. QED
        BY <4>1, <4>2
    <3>3. QED
      BY <1>2, <3>1, <3>2
  <2>2. QED
    BY <1>2, <2>1, NextKeepsConnection DEF PartsConnectionInv
<1>3. QED
  BY <1>1, <1>2, PTL DEF PartsSpec

\* A connection the network has lost is noticed in time, attempts become slower and slower,
\* and a stop is obeyed in the time the library waits for a close, for any timeouts, delays
\* and order of events (relay-liveness.ts, reconnect.ts).
THEOREM ConnectionKeeps == PartsSpec => []ConnectionIsKept
<1>1. ASSUME ConnectionInv
      PROVE  Connection!HalfOpenIsNoticed
  BY <1>1, ConnectionConstants
     DEF ConnectionInv, ConnectionTypes, Watched, Connection!HalfOpenIsNoticed, Connection!Alive
<1>2. ASSUME ConnectionInv
      PROVE  Connection!RelayIsNotHammered
  <2>1. sock = "connecting" => loop = "attempt" /\ ~backoff.established
    BY <1>2 DEF ConnectionInv, AttemptHasSocket, Backing
  <2>2. QED
    BY <1>2, <2>1 DEF ConnectionInv, Backing, Connection!RelayIsNotHammered
<1>3. ASSUME ConnectionInv
      PROVE  Connection!StopsWhenAsked
  BY <1>3, ConnectionConstants
     DEF ConnectionInv, ConnectionTypes, AttemptHasSocket, Stopping, Connection!StopsWhenAsked
<1>4. PartsConnectionInv => ConnectionIsKept
  BY <1>1, <1>2, <1>3 DEF PartsConnectionInv, ConnectionIsKept
<1>5. QED
  BY <1>4, ConnectionInvariance, PTL

\* Where the watcher of the cron jobs runs, its invariant holds.
PartsCronInv == part = "cron" => CronInv

\* The Relay learns of the changes of the jobs, also of those that happen while no connection
\* is there, whatever the contents and however many connections are lost
\* (hermes-cron-change-relay.ts).
THEOREM ChangesAreTold == PartsSpec => []RelayLearnsOfChanges
<1>1. PartsInit => PartsCronInv
  BY InitCron DEF PartsInit, PartsCronInv
<1>2. ASSUME PartsCronInv, [PartsNext]_partsVars
      PROVE  PartsCronInv'
  <2>1. part' = part /\ (part = "cron" => [Cron!Next]_(Cron!vars))
    <3>1. CASE UNCHANGED partsVars
      BY <3>1 DEF partsVars, OwnVars, CronVars, Cron!vars, Cron!watcher
    <3>2. CASE PartsNext
      <4>1. part' = part
        BY <3>2 DEF PartsNext
      <4>2. ASSUME part = "cron"
            PROVE  Cron!Next
        BY <3>2, <4>2 DEF PartsNext
      <4>3. QED
        BY <4>1, <4>2
    <3>3. QED
      BY <1>2, <3>1, <3>2
  <2>2. QED
    BY <1>2, <2>1, NextKeepsCron DEF PartsCronInv
<1>3. PartsCronInv => RelayLearnsOfChanges
  BY DEF PartsCronInv, CronInv, RelayKnows, ChangesArePending, RelayLearnsOfChanges,
         Cron!RelayLearnsOfChanges
<1>4. QED
  BY <1>1, <1>2, <1>3, PTL DEF PartsSpec

\* Where the uploads run, their invariant holds.
PartsUploadInv == part = "uploads" => UploadInv

\* Passes that meet one attachment share its upload, none shows an older file than the one it
\* found, and a file that held still is sent to its last byte, for any number of passes and
\* connections, sizes of chunks and versions of the file (outgoing-media-relay.ts,
\* file-upload.ts).
THEOREM UploadsAreTrue == PartsSpec => []AttachmentsAreTrue
<1>1. PartsInit => PartsUploadInv
  BY InitUploads DEF PartsInit, PartsUploadInv
<1>2. ASSUME PartsUploadInv, [PartsNext]_partsVars
      PROVE  PartsUploadInv'
  <2>1. part' = part /\ (part = "uploads" => [Uploads!Next]_(Uploads!vars))
    <3>1. CASE UNCHANGED partsVars
      BY <3>1 DEF partsVars, OwnVars, UploadVars, Uploads!vars
    <3>2. CASE PartsNext
      <4>1. part' = part
        BY <3>2 DEF PartsNext
      <4>2. ASSUME part = "uploads"
            PROVE  Uploads!Next
        BY <3>2, <4>2 DEF PartsNext
      <4>3. QED
        BY <4>1, <4>2
    <3>3. QED
      BY <1>2, <3>1, <3>2
  <2>2. QED
    BY <1>2, <2>1, NextKeepsUploads DEF PartsUploadInv
<1>3. ASSUME UploadInv
      PROVE  Uploads!AttachmentsAreTrue
  <2>1. Uploads!OneAtATime
    BY <1>3 DEF UploadInv, OneSender, Sends, Same, Uploads!OneAtATime, Uploads!Uploading
  <2>2. Uploads!NeverStale /\ Uploads!WholeFile
    BY <1>3 DEF UploadInv, PassOk, Uploads!NeverStale, Uploads!WholeFile
  <2>3. QED
    BY <2>1, <2>2 DEF Uploads!AttachmentsAreTrue
<1>4. PartsUploadInv => AttachmentsAreTrue
  BY <1>3 DEF PartsUploadInv, AttachmentsAreTrue
<1>5. QED
  BY <1>1, <1>2, <1>4, PTL DEF PartsSpec

\* Where the turns run, their invariant holds until a session is deleted under the turn that
\* made it.
PartsTurnInv == part = "turns" => (~torn => TurnInv)

\* Hermes' turns keep apart, for any keys, turns and sessions: a key is never mapped to a session
\* with turns of another, what was answered stays except what a process wrote behind a later
\* prompt that was cancelled, and no cancelled prompt is in the session the next turn resumes
\* (hermes-runtime-chat.ts, hermes-runtime-chat-output.ts, hermes-runtime-state-db.ts).
THEOREM TurnsAreApart == PartsSpec => []TurnsKeepApart
<1>1. PartsInit => PartsTurnInv
  BY InitTurns DEF PartsInit, PartsTurnInv
<1>2. ASSUME PartsTurnInv, [PartsNext]_partsVars
      PROVE  PartsTurnInv'
  <2>1. part' = part /\ (part = "turns" => [Chat!Next]_(Chat!vars))
    <3>1. CASE UNCHANGED partsVars
      BY <3>1 DEF partsVars, OwnVars, TurnVars, Chat!vars
    <3>2. CASE PartsNext
      <4>1. part' = part
        BY <3>2 DEF PartsNext
      <4>2. ASSUME part = "turns"
            PROVE  Chat!Next
        BY <3>2, <4>2 DEF PartsNext
      <4>3. QED
        BY <4>1, <4>2
    <3>3. QED
      BY <1>2, <3>1, <3>2
  <2>2. part = "turns" /\ ~torn' => ~torn
    <3>1. CASE Chat!Next
      BY <3>1, OnlyDeletionsTear
    <3>2. CASE UNCHANGED Chat!vars
      BY <3>2 DEF Chat!vars
    <3>3. QED
      BY <2>1, <3>1, <3>2
  <2>3. QED
    BY <1>2, <2>1, <2>2, TurnStep DEF PartsTurnInv
<1>3. PartsTurnInv => TurnsKeepApart
  BY TurnsApart DEF PartsTurnInv, TurnsKeepApart, Chat!TurnsKeepApart
<1>4. QED
  BY <1>1, <1>2, <1>3, PTL DEF PartsSpec
==============================================================================
