------------------------ MODULE HermesChatRunsProofs ------------------------
(***************************************************************************)
(* Turns, verdicts and repeated commands, for any number of commands, keys *)
(* and sessions, with connections lost and the agent restarted anywhere.   *)
(***************************************************************************)
EXTENDS HermesChatRuns, TLAPS

Positions == {"new", "transcribing", "reusing", "done"} \cup Live
\* Where no command has got in line yet, or ever will.
NotInLine == {"new", "transcribing", "reusing", "attaching"}

\* What one handler's move does to the positions.
LEMMA Moves ==
  ASSUME TypeOK, NEW c \in Command, NEW x \in Positions, pc' = [pc EXCEPT ![c] = x]
  PROVE  /\ pc' \in [Command -> Positions] /\ pc'[c] = x
         /\ \A d \in Command : d # c => pc'[d] = pc[d]
  BY DEF TypeOK, Positions

\* What counting does.
LEMMA Counting ==
  ASSUME TypeOK, NEW C, Tick(C)
  PROVE  /\ clock' \in [{"entered", "settled"} -> Nat]
         /\ "entered" \in C => clock'.entered = clock.entered + 1
         /\ "entered" \notin C => clock'.entered = clock.entered
  BY DEF TypeOK, Tick

---------------------------------------------------------------------------
(* The line                                                                *)

\* Moves of a command that is not in line and stays out of it.
LEMMA OutOfLineKeeps ==
  ASSUME TypeOK, LineInv, NEW c \in Command, pc[c] \in NotInLine,
         NEW x \in {"transcribing", "reusing", "attaching", "done"},
         pc' = [pc EXCEPT ![c] = x], UNCHANGED lineVars, clock'.entered = clock.entered
  PROVE  LineInv'
<1>1. /\ pc'[c] = x
      /\ \A d \in Command : d # c => pc'[d] = pc[d]
  BY Moves DEF Positions, Live
<1>2. ticket[c] = 0
  BY DEF LineInv, NotInLine
<1>3. \A d \in Command : ticket[d] > 0 => pc'[d] = pc[d]
  BY <1>1, <1>2
<1>4. x \notin {"queued", "finishing"} \cup InTurn
  BY DEF InTurn
<1>5. \A d, e \in Command : ticket[d] \in Nat /\ ticket[e] \in Nat
  BY DEF TypeOK
<1>6. TurnsInOrder'
  BY <1>1, <1>2, <1>3, <1>5 DEF LineInv, TurnsInOrder, lineVars
<1>7. QED
  BY <1>1, <1>2, <1>3, <1>4, <1>5, <1>6 DEF LineInv, lineVars

\* Moves within the line: a start in turn, and moves within and after a turn.
LEMMA InLineKeeps ==
  ASSUME TypeOK, LineInv, NEW c \in Command, NEW x,
         \/ pc[c] = "queued" /\ x = "running" /\ MayStart(c)
         \/ pc[c] = "running" /\ x = "draining"
         \/ pc[c] = "finishing" /\ x = "done",
         pc' = [pc EXCEPT ![c] = x], UNCHANGED lineVars, clock'.entered = clock.entered
  PROVE  LineInv'
<1>1. /\ pc'[c] = x
      /\ \A d \in Command : d # c => pc'[d] = pc[d]
  BY Moves DEF Positions, Live, InTurn
<1>2. /\ ticket \in [Command -> Nat] /\ before \in [Command -> Command \cup {None}]
      /\ ticket[c] > 0
  BY DEF TypeOK, LineInv, InTurn
<1>3. \A d \in Command : pc[d] \in LeftLine => pc'[d] \in LeftLine
  BY <1>1 DEF LeftLine
<1>4. ASSUME NEW d \in Command, NEW e \in Command, SessionOf[d] = SessionOf[e],
             ticket[d] > 0, ticket[d] < ticket[e], pc'[e] \in InTurn \cup LeftLine
      PROVE  pc'[d] \in LeftLine
  <2>1. CASE e # c \/ pc[c] # "queued"
    <3>1. pc[e] \in InTurn \cup LeftLine
      BY <1>1, <1>4, <2>1 DEF InTurn, LeftLine
    <3>2. QED
      BY <1>3, <1>4, <3>1 DEF LineInv, TurnsInOrder
  <2>2. CASE e = c /\ pc[c] = "queued"
    <3>1. MayStart(c)
      BY <2>2
    <3>2. CASE before[c] = None
      BY <1>2, <1>3, <1>4, <2>2, <3>2 DEF LineInv
    <3>3. CASE before[c] # None
      <4>1. before[c] \in Command /\ pc[before[c]] \in LeftLine
        BY <1>2, <3>1, <3>3 DEF MayStart
      <4>2. /\ SessionOf[before[c]] = SessionOf[c]
            /\ ticket[d] <= ticket[before[c]]
        BY <1>2, <1>4, <2>2, <3>3 DEF LineInv
      <4>3. ticket[d] = ticket[before[c]] => d = before[c]
        BY <1>4, <1>2, <4>1 DEF LineInv
      <4>4. ticket[d] < ticket[before[c]] => pc[d] \in LeftLine
        BY <1>4, <2>2, <4>1, <4>2 DEF LineInv, TurnsInOrder
      <4>5. ticket[d] \in Nat /\ ticket[before[c]] \in Nat
        BY <1>2, <4>1
      <4>6. QED
        BY <1>3, <4>1, <4>2, <4>3, <4>4, <4>5
    <3>4. QED
      BY <3>2, <3>3
  <2>3. QED
    BY <2>1, <2>2
<1>5. TurnsInOrder'
  BY <1>4 DEF TurnsInOrder, lineVars
<1>6. x \notin NotInLine
  BY DEF NotInLine
<1>7. QED
  BY <1>1, <1>2, <1>3, <1>5, <1>6 DEF LineInv, lineVars, NotInLine

\* A command gets in line behind whoever is last.
LEMMA EnterKeeps ==
  ASSUME TypeOK, LineInv, NEW c \in Command, pc[c] \in NotInLine,
         pc' = [pc EXCEPT ![c] = "queued"], Enter(c),
         clock'.entered = clock.entered + 1
  PROVE  LineInv'
<1> DEFINE s == SessionOf[c]
           n == clock.entered + 1
<1>1. /\ pc'[c] = "queued"
      /\ \A d \in Command : d # c => pc'[d] = pc[d]
  BY Moves DEF Positions, Live
<1>2. /\ s \in Session /\ n \in Nat /\ n > 0
      /\ ticket \in [Command -> Nat] /\ before \in [Command -> Command \cup {None}]
      /\ tail \in [Session -> Command \cup {None}]
  <2>1. clock.entered \in Nat
    BY DEF TypeOK
  <2>2. s \in Session
    BY SessionsAreNames
  <2>3. QED
    BY <2>1, <2>2 DEF TypeOK
<1>3. /\ ticket'[c] = n /\ before'[c] = tail[s] /\ tail'[s] = c
      /\ \A d \in Command : d # c => ticket'[d] = ticket[d] /\ before'[d] = before[d]
      /\ \A t \in Session : t # s => tail'[t] = tail[t]
  BY <1>2 DEF Enter
<1>4. ticket[c] = 0 /\ \A d \in Command : ticket[d] < n
  <2>1. clock.entered \in Nat /\ \A d \in Command : ticket[d] <= clock.entered
    BY DEF TypeOK, LineInv
  <2>2. ticket[c] = 0
    BY DEF LineInv, NotInLine
  <2>3. QED
    BY <1>2, <2>1, <2>2
<1>5. c # None
  BY NoneIsNobody
<1> HIDE DEF s, n
<1>6. clock'.entered = n
  BY DEF n
<1>7. \A d, e \in Command :
        ticket'[d] <= clock'.entered /\ (d # e /\ ticket'[d] = ticket'[e] => ticket'[d] = 0)
  BY <1>2, <1>3, <1>4, <1>6 DEF LineInv
<1>8. \A d \in Command :
        /\ pc'[d] \in {"queued", "finishing"} \cup InTurn => ticket'[d] > 0
        /\ pc'[d] \in {"new", "transcribing", "reusing", "attaching"} => ticket'[d] = 0
  BY <1>1, <1>2, <1>3, <1>4 DEF LineInv
<1>9. \A t \in Session : tail'[t] # None => SessionOf[tail'[t]] = t /\ ticket'[tail'[t]] > 0
  <2>1. \A t \in Session : tail[t] # None =>
          SessionOf[tail[t]] = t /\ ticket[tail[t]] > 0 /\ tail[t] \in Command
    BY <1>2 DEF LineInv
  <2>2. QED
    BY <1>2, <1>3, <1>4, <2>1 DEF s
<1>10. \A d \in Command : ticket'[d] > 0 =>
         IF tail'[SessionOf[d]] = None
         THEN pc'[d] \in LeftLine ELSE ticket'[d] <= ticket'[tail'[SessionOf[d]]]
  <2>1. ASSUME NEW d \in Command, ticket'[d] > 0, SessionOf[d] = s
        PROVE  ticket'[d] <= ticket'[tail'[SessionOf[d]]] /\ tail'[SessionOf[d]] # None
    BY <1>2, <1>3, <1>4, <1>5, <2>1
  <2>2. ASSUME NEW d \in Command, ticket'[d] > 0, SessionOf[d] # s
        PROVE  IF tail'[SessionOf[d]] = None
               THEN pc'[d] \in LeftLine ELSE ticket'[d] <= ticket'[tail'[SessionOf[d]]]
    <3>1. d # c /\ SessionOf[d] \in Session
      BY <2>2, SessionsAreNames DEF s
    <3>2. tail'[SessionOf[d]] = tail[SessionOf[d]] /\ ticket'[d] = ticket[d] /\ pc'[d] = pc[d]
      BY <1>1, <1>3, <2>2, <3>1
    <3>3. tail[SessionOf[d]] # None =>
            tail[SessionOf[d]] \in Command /\ SessionOf[tail[SessionOf[d]]] = SessionOf[d]
      BY <1>2, <3>1 DEF LineInv
    <3>4. tail[SessionOf[d]] # None => tail[SessionOf[d]] # c
      BY <2>2, <3>3 DEF s
    <3>5. QED
      BY <1>3, <2>2, <3>2, <3>3, <3>4 DEF LineInv
  <2>3. QED
    BY <2>1, <2>2
<1>11. \A d \in Command : before'[d] # None =>
         SessionOf[before'[d]] = SessionOf[d] /\ ticket'[before'[d]] \in 1..(ticket'[d] - 1)
  <2>1. before'[c] # None =>
          SessionOf[before'[c]] = s /\ ticket'[before'[c]] \in 1..(n - 1)
    BY <1>2, <1>3, <1>4 DEF LineInv
  <2>2. ASSUME NEW d \in Command, d # c, before'[d] # None
        PROVE  SessionOf[before'[d]] = SessionOf[d]
               /\ ticket'[before'[d]] \in 1..(ticket'[d] - 1)
    <3>1. before[d] \in Command /\ ticket[before[d]] \in 1..(ticket[d] - 1)
          /\ SessionOf[before[d]] = SessionOf[d] /\ before'[d] = before[d]
      BY <1>2, <1>3, <2>2 DEF LineInv
    <3>2. before[d] # c
      BY <1>4, <3>1
    <3>3. QED
      BY <1>3, <2>2, <3>1, <3>2
  <2>3. QED
    BY <1>3, <2>1, <2>2 DEF s
<1>12. \A d, e \in Command :
         SessionOf[d] = SessionOf[e] /\ ticket'[e] \in 1..(ticket'[d] - 1)
         => IF before'[d] = None
            THEN pc'[e] \in LeftLine ELSE ticket'[e] <= ticket'[before'[d]]
  <2>1. ASSUME NEW d \in Command, NEW e \in Command, SessionOf[d] = SessionOf[e],
               ticket'[e] \in 1..(ticket'[d] - 1)
        PROVE  e # c /\ ticket'[e] = ticket[e] /\ pc'[e] = pc[e] /\ ticket[e] > 0
    BY <1>1, <1>2, <1>3, <1>4, <2>1
  <2>2. ASSUME NEW e \in Command, SessionOf[e] = s, ticket'[e] \in 1..(ticket'[c] - 1)
        PROVE  IF before'[c] = None
               THEN pc'[e] \in LeftLine ELSE ticket'[e] <= ticket'[before'[c]]
    <3>1. e # c /\ ticket'[e] = ticket[e] /\ pc'[e] = pc[e] /\ ticket[e] > 0
      BY <2>1, <2>2 DEF s
    <3>2. tail[s] # None => tail[s] \in Command /\ ticket[tail[s]] > 0
      BY <1>2 DEF LineInv
    <3>3. tail[s] # None => ticket'[tail[s]] = ticket[tail[s]]
      BY <1>3, <1>4, <3>2
    <3>4. IF tail[s] = None THEN pc[e] \in LeftLine ELSE ticket[e] <= ticket[tail[s]]
      BY <2>2, <3>1 DEF LineInv
    <3>5. QED
      BY <1>3, <3>1, <3>3, <3>4
  <2>3. ASSUME NEW d \in Command, NEW e \in Command, d # c, SessionOf[d] = SessionOf[e],
               ticket'[e] \in 1..(ticket'[d] - 1)
        PROVE  IF before'[d] = None
               THEN pc'[e] \in LeftLine ELSE ticket'[e] <= ticket'[before'[d]]
    <3>1. e # c /\ ticket'[e] = ticket[e] /\ pc'[e] = pc[e] /\ ticket[e] > 0
      BY <2>1, <2>3
    <3>2. before'[d] = before[d] /\ ticket'[d] = ticket[d]
      BY <1>3, <2>3
    <3>3. before[d] # None => before[d] \in Command /\ ticket[before[d]] > 0
      BY <1>2 DEF LineInv
    <3>4. before[d] # None => ticket'[before[d]] = ticket[before[d]]
      BY <1>3, <1>4, <3>3
    <3>5. QED
      BY <2>3, <3>1, <3>2, <3>4 DEF LineInv
  <2>4. QED
    BY <2>2, <2>3 DEF s
<1>13. TurnsInOrder'
  <2>1. ASSUME NEW d \in Command, NEW e \in Command, SessionOf[d] = SessionOf[e],
               ticket'[d] > 0, ticket'[d] < ticket'[e], pc'[e] \in InTurn \cup LeftLine
        PROVE  pc'[d] \in LeftLine
    <3>1. e # c
      BY <1>1, <2>1 DEF InTurn, LeftLine
    <3>2. d # c
      BY <1>2, <1>3, <1>4, <2>1, <3>1
    <3>3. QED
      BY <1>1, <1>3, <2>1, <3>1, <3>2 DEF LineInv, TurnsInOrder
  <2>2. QED
    BY <2>1 DEF TurnsInOrder
<1>14. QED
  BY <1>7, <1>8, <1>9, <1>10, <1>11, <1>12, <1>13 DEF LineInv

\* The end of a turn: everyone before has left, so if it was the last nobody is
\* in line any more.
LEMMA LeaveKeeps ==
  ASSUME TypeOK, LineInv, NEW c \in Command, pc[c] \in InTurn, NEW x \in LeftLine,
         pc' = [pc EXCEPT ![c] = x], Leave(c), clock'.entered = clock.entered
  PROVE  LineInv'
<1> DEFINE s == SessionOf[c]
<1>1. /\ pc'[c] = x
      /\ \A d \in Command : d # c => pc'[d] = pc[d]
  BY Moves DEF Positions, Live, LeftLine
<1>2. /\ ticket \in [Command -> Nat] /\ tail \in [Session -> Command \cup {None}]
      /\ s \in Session /\ ticket[c] > 0
  BY SessionsAreNames DEF TypeOK, LineInv
<1>3. /\ UNCHANGED <<ticket, before>>
      /\ \A t \in Session : tail'[t] = IF t = s /\ tail[t] = c THEN None ELSE tail[t]
  BY <1>2 DEF Leave
<1> HIDE DEF s
<1>4. \A d \in Command : pc[d] \in LeftLine => pc'[d] \in LeftLine
  BY <1>1 DEF LeftLine
<1>5. ASSUME NEW d \in Command, ticket[d] > 0, SessionOf[d] = s, tail[s] = c
      PROVE  pc'[d] \in LeftLine
  <2>1. ticket[d] <= ticket[c]
    BY <1>2, <1>5, NoneIsNobody DEF LineInv
  <2>2. ticket[d] = ticket[c] => d = c
    BY <1>2 DEF LineInv
  <2>3. ticket[d] < ticket[c] => pc[d] \in LeftLine
    BY <1>5 DEF LineInv, TurnsInOrder, s
  <2>4. QED
    BY <1>1, <1>2, <1>4, <2>1, <2>2, <2>3
<1>6. \A d \in Command : ticket[d] > 0 =>
        IF tail'[SessionOf[d]] = None
        THEN pc'[d] \in LeftLine ELSE ticket[d] <= ticket[tail'[SessionOf[d]]]
  <2>1. \A d \in Command : SessionOf[d] \in Session
    BY SessionsAreNames
  <2>2. QED
    BY <1>3, <1>4, <1>5, <2>1 DEF LineInv
<1>7. TurnsInOrder'
  BY <1>1, <1>3, <1>4 DEF LineInv, TurnsInOrder, LeftLine
<1>8. \A d \in Command :
        /\ pc'[d] \in {"queued", "finishing"} \cup InTurn => ticket[d] > 0
        /\ pc'[d] \in {"new", "transcribing", "reusing", "attaching"} => ticket[d] = 0
  BY <1>1, <1>2 DEF LineInv, LeftLine, InTurn
<1>9. QED
  BY <1>3, <1>4, <1>6, <1>7, <1>8 DEF LineInv

\* After a restart nobody is in line.
LEMMA CrashKeepsLine ==
  ASSUME TypeOK, LineInv, Crash
  PROVE  LineInv'
<1>1. /\ pc' = [c \in Command |-> IF pc[c] = "new" THEN "new" ELSE "done"]
      /\ tail' = [t \in Session |-> None] /\ UNCHANGED <<before, ticket, clock>>
  BY DEF Crash
<1>2. /\ ticket \in [Command -> Nat]
      /\ \A c \in Command : ticket[c] > 0 => pc'[c] \in LeftLine
  BY <1>1 DEF TypeOK, LineInv, LeftLine
<1>3. TurnsInOrder'
  BY <1>1, <1>2 DEF TurnsInOrder
<1>4. \A c \in Command : SessionOf[c] \in Session
  BY SessionsAreNames
<1>5. QED
  BY <1>1, <1>2, <1>3, <1>4 DEF LineInv, InTurn
---------------------------------------------------------------------------
(* The guard                                                               *)

\* Commands of which nothing has been begun.
Unbegun == {"new", "transcribing", "reusing"}
Settled == {c \in Command : outcome[c] \in Verdicts}

\* Only verdicts are forgotten.
LEMMA PrunedAreSettled == Pruned \subseteq Settled
  BY DEF Pruned, Lapsed, Excess, Owners, Settled

\* The map after some owners were removed from it.
LEMMA WithoutEffect ==
  ASSUME TypeOK, NEW C
  PROVE  /\ Without(entries, C) \in [Key -> Command \cup {None}]
         /\ \A k \in Key :
              /\ Without(entries, C)[k] # None =>
                   Without(entries, C)[k] = entries[k] /\ entries[k] \notin C
              /\ entries[k] \notin C => Without(entries, C)[k] = entries[k]
  BY DEF Without, TypeOK

\* Moves that begin and end nothing, where some verdicts may be forgotten.
LEMMA QuietGuard ==
  ASSUME TypeOK, GuardInv, NEW c \in Command, NEW x \in Positions, NEW C \in SUBSET Settled,
         pc' = [pc EXCEPT ![c] = x],
         \/ pc[c] \in Unbegun /\ x \in Unbegun \cup {"done"}
         \/ pc[c] \in Live /\ x \in Live,
         entries' = Without(entries, C), outcome' = outcome
  PROVE  GuardInv'
<1>1. /\ pc'[c] = x
      /\ \A d \in Command : d # c => pc'[d] = pc[d]
  BY Moves
<1>2. \A d \in Command : pc[d] \in Live <=> pc'[d] \in Live
  BY <1>1 DEF Live, Unbegun, InTurn
<1>3. \A d \in Command : pc'[d] \in Unbegun => outcome'[d] = "none"
  BY <1>1 DEF GuardInv, Unbegun, Live, InTurn
<1>4. \A k \in Key : entries'[k] # None => entries'[k] = entries[k]
  BY WithoutEffect
<1>5. \A k \in Key : entries[k] # None => entries[k] \in Command
  BY DEF TypeOK
<1>6. \A d \in Command : pc[d] \in Live => d \notin C
  BY DEF GuardInv, Settled, Verdicts
<1>7. \A d \in Command : pc[d] \in Live /\ KeyOf[d] # None =>
        KeyOf[d] \in Key /\ entries'[KeyOf[d]] = d
  BY <1>6, WithoutEffect, KeysAreNames DEF GuardInv
<1>8. QED
  BY <1>2, <1>3, <1>4, <1>5, <1>7 DEF GuardInv, Unbegun

\* A run is begun, and its key, if it has one, was free.
LEMMA BeginGuard ==
  ASSUME TypeOK, GuardInv, NEW c \in Command, NEW x \in Live, NEW C \in SUBSET Settled,
         pc' = [pc EXCEPT ![c] = x], pc[c] \in Unbegun,
         outcome' = [outcome EXCEPT ![c] = "pending"],
         \/ KeyOf[c] = None /\ entries' = entries
         \/ /\ KeyOf[c] # None /\ Without(entries, C)[KeyOf[c]] = None
            /\ entries' = [Without(entries, C) EXCEPT ![KeyOf[c]] = c]
  PROVE  GuardInv'
<1>1. /\ pc'[c] = x
      /\ \A d \in Command : d # c => pc'[d] = pc[d]
  BY Moves DEF Positions
<1>2. outcome'[c] = "pending" /\ \A d \in Command : d # c => outcome'[d] = outcome[d]
  BY DEF TypeOK
<1>3. c # None /\ outcome[c] = "none" /\ pc[c] \notin Live
  BY NoneIsNobody DEF GuardInv, Unbegun, Live, InTurn
<1>4. \A k \in Key : entries[k] # None => entries[k] \in Command \ {c}
  BY <1>3 DEF TypeOK, GuardInv, Verdicts
<1>5. \A k \in Key : entries'[k] # None =>
        entries'[k] = entries[k] \/ (entries'[k] = c /\ KeyOf[c] = k)
  BY WithoutEffect, KeysAreNames DEF TypeOK
<1>6. ASSUME NEW d \in Command, pc'[d] \in Live
      PROVE  outcome'[d] = "pending" /\ (KeyOf[d] # None => entries'[KeyOf[d]] = d)
  <2>1. CASE d = c
    BY <1>2, <2>1, WithoutEffect, KeysAreNames
  <2>2. CASE d # c
    <3>1. outcome[d] = "pending" /\ (KeyOf[d] # None => entries[KeyOf[d]] = d)
      BY <1>1, <1>6, <2>2 DEF GuardInv
    <3>2. d \notin C /\ d # None
      BY <3>1, NoneIsNobody DEF Settled, Verdicts
    <3>3. KeyOf[d] # None => KeyOf[d] \in Key /\ Without(entries, C)[KeyOf[d]] = d
      BY <3>1, <3>2, WithoutEffect, KeysAreNames
    <3>4. KeyOf[d] # None => entries'[KeyOf[d]] = d
      BY <3>1, <3>2, <3>3, WithoutEffect
    <3>5. QED
      BY <1>2, <2>2, <3>1, <3>4
  <2>3. QED
    BY <2>1, <2>2
<1>7. \A d \in Command : pc'[d] \in Unbegun => outcome'[d] = "none"
  BY <1>1, <1>2 DEF GuardInv, Unbegun, Live, InTurn
<1>8. ASSUME NEW k \in Key, entries'[k] # None
      PROVE  /\ KeyOf[entries'[k]] = k
             /\ outcome'[entries'[k]] \in {"pending"} \cup Verdicts
             /\ outcome'[entries'[k]] = "pending" => pc'[entries'[k]] \in Live
  <2>1. CASE entries'[k] = c /\ KeyOf[c] = k
    BY <1>1, <1>2, <2>1
  <2>2. CASE entries'[k] = entries[k]
    BY <1>1, <1>2, <1>4, <1>8, <2>2 DEF GuardInv
  <2>3. QED
    BY <1>5, <1>8, <2>1, <2>2
<1>9. QED
  BY <1>6, <1>7, <1>8 DEF GuardInv, Unbegun

\* A run ends, with a verdict or by giving its key back.
LEMMA EndGuard ==
  ASSUME TypeOK, GuardInv, NEW c \in Command, pc[c] \in Live, pc' = [pc EXCEPT ![c] = "done"],
         NEW o \in Verdicts \cup {"released"}, outcome' = [outcome EXCEPT ![c] = o],
         NEW C, entries' = Without(entries, C),
         \A d \in C : d = c \/ d \in Settled, o = "released" => c \in C
  PROVE  GuardInv'
<1>1. /\ pc'[c] = "done"
      /\ \A d \in Command : d # c => pc'[d] = pc[d]
  BY Moves DEF Positions
<1>2. outcome'[c] = o /\ \A d \in Command : d # c => outcome'[d] = outcome[d]
  BY DEF TypeOK
<1>3. \A k \in Key : entries'[k] # None =>
        entries'[k] = entries[k] /\ entries[k] \in Command /\ entries[k] \notin C
  BY WithoutEffect DEF TypeOK
<1>4. ASSUME NEW d \in Command, pc'[d] \in Live
      PROVE  outcome'[d] = "pending" /\ (KeyOf[d] # None => entries'[KeyOf[d]] = d)
  <2>1. d # c
    BY <1>1, <1>4 DEF Live, InTurn
  <2>2. outcome[d] = "pending" /\ (KeyOf[d] # None => entries[KeyOf[d]] = d)
    BY <1>1, <1>4, <2>1 DEF GuardInv
  <2>3. d \notin C
    BY <2>1, <2>2 DEF Settled, Verdicts
  <2>4. QED
    BY <1>2, <2>1, <2>2, <2>3, WithoutEffect, KeysAreNames
<1>5. \A d \in Command : pc'[d] \in Unbegun => outcome'[d] = "none"
  BY <1>1, <1>2 DEF GuardInv, Unbegun
<1>6. ASSUME NEW k \in Key, entries'[k] # None
      PROVE  /\ KeyOf[entries'[k]] = k
             /\ outcome'[entries'[k]] \in {"pending"} \cup Verdicts
             /\ outcome'[entries'[k]] = "pending" => pc'[entries'[k]] \in Live
  <2>1. CASE entries[k] = c
    <3>1. outcome'[c] \in Verdicts
      BY <1>2, <1>3, <1>6, <2>1
    <3>2. outcome'[c] # "pending"
      BY <3>1 DEF Verdicts
    <3>3. QED
      BY <1>3, <1>6, <2>1, <3>1, <3>2 DEF GuardInv
  <2>2. CASE entries[k] # c
    BY <1>1, <1>2, <1>3, <1>6, <2>2 DEF GuardInv
  <2>3. QED
    BY <2>1, <2>2
<1>7. QED
  BY <1>4, <1>5, <1>6 DEF GuardInv, Unbegun

\* After a restart the map is empty.
LEMMA CrashGuard ==
  ASSUME TypeOK, GuardInv, Crash
  PROVE  GuardInv'
  BY DEF Crash, GuardInv, TypeOK, Live, InTurn
---------------------------------------------------------------------------
(* Repeated commands                                                       *)

\* An answer once true stays true while no verdict is taken back.
LEMMA AnswersStay ==
  ASSUME TypeOK, AnswersAreTrue, NEW c \in Command,
         \A d \in Command : outcome[d] \in Verdicts => outcome'[d] = outcome[d],
         \A d \in Command : d # c => answers'[d] = answers[d],
         "ok" \in answers'[c] =>
           "ok" \in answers[c] \/ \E d \in Command : SameMessage(c, d) /\ outcome'[d] = "completed",
         "error" \in answers'[c] =>
           "error" \in answers[c] \/ \E d \in Command : SameMessage(c, d) /\ outcome'[d] = "failed"
  PROVE  AnswersAreTrue'
<1>1. \A d, e \in Command : SameMessage(d, e)' <=> SameMessage(d, e)
  BY DEF SameMessage
<1>2. \A d \in Command :
        "ok" \in answers[d] => \E e \in Command : SameMessage(d, e) /\ outcome'[e] = "completed"
  BY DEF AnswersAreTrue, Verdicts
<1>3. \A d \in Command :
        "error" \in answers[d] => \E e \in Command : SameMessage(d, e) /\ outcome'[e] = "failed"
  BY DEF AnswersAreTrue, Verdicts
<1>4. QED
  BY <1>1, <1>2, <1>3 DEF AnswersAreTrue

\* Moves that answer nothing and begin and end nothing.
LEMMA QuietRepeat ==
  ASSUME TypeOK, RepeatInv, NEW c \in Command, NEW x \in Positions \ {"reusing", "done"},
         pc' = [pc EXCEPT ![c] = x], pc[c] \notin {"reusing", "done"},
         UNCHANGED <<entries, outcome, owner, answers>>
  PROVE  RepeatInv'
<1>1. /\ pc'[c] = x
      /\ \A d \in Command : d # c => pc'[d] = pc[d]
  BY Moves
<1>2. AnswersAreTrue'
  BY DEF RepeatInv, AnswersAreTrue, SameMessage
<1>3. SilenceLeavesKeyFree'
  BY <1>1 DEF RepeatInv, SilenceLeavesKeyFree
<1>4. QED
  BY <1>1, <1>2, <1>3 DEF RepeatInv, SameMessage

\* A run is begun.
LEMMA BeginRepeat ==
  ASSUME TypeOK, GuardInv, RepeatInv, NEW c \in Command, NEW x \in Live, NEW C \in SUBSET Settled,
         pc' = [pc EXCEPT ![c] = x], pc[c] \in {"new", "transcribing"},
         outcome' = [outcome EXCEPT ![c] = "pending"],
         answers' = [answers EXCEPT ![c] = @ \cup {"accepted"}], owner' = owner,
         \/ KeyOf[c] = None /\ entries' = entries
         \/ KeyOf[c] # None /\ entries' = [Without(entries, C) EXCEPT ![KeyOf[c]] = c]
  PROVE  RepeatInv'
<1>1. /\ pc'[c] = x /\ x \notin {"reusing", "done"}
      /\ \A d \in Command : d # c => pc'[d] = pc[d]
  BY Moves DEF Positions, Live, InTurn
<1>2. /\ outcome'[c] = "pending" /\ \A d \in Command : d # c => outcome'[d] = outcome[d]
      /\ outcome[c] = "none" /\ c # None
  BY NoneIsNobody DEF TypeOK, GuardInv
<1>3. /\ \A d \in Command : d # c => answers'[d] = answers[d]
      /\ answers'[c] = answers[c] \cup {"accepted"}
  BY DEF TypeOK
<1>4. \A k \in Key : entries'[k] \in {entries[k], None, c}
  BY WithoutEffect DEF TypeOK
<1>5. AnswersAreTrue'
  BY <1>2, <1>3, AnswersStay DEF RepeatInv, Verdicts
<1>6. SilenceLeavesKeyFree'
  <2>1. ASSUME NEW d \in Command, pc'[d] = "done", answers'[d] = {"accepted"}, KeyOf[d] # None
        PROVE  entries'[KeyOf[d]] \notin {d, owner'[d]} \ {None}
    <3>1. d # c /\ pc[d] = "done" /\ answers[d] = {"accepted"}
      BY <1>1, <1>3, <2>1
    <3>2. KeyOf[d] \in Key
      BY <2>1, KeysAreNames
    <3>3. entries[KeyOf[d]] \notin {d, owner[d]} \ {None}
      BY <2>1, <3>1 DEF RepeatInv, SilenceLeavesKeyFree
    <3>4. owner[d] # c
      BY <1>2 DEF RepeatInv
    <3>5. QED
      BY <1>4, <3>1, <3>2, <3>3, <3>4
  <2>2. QED
    BY <2>1 DEF SilenceLeavesKeyFree
<1>7. \A d \in Command : owner[d] # c
  BY <1>2 DEF RepeatInv
<1>8. \A d \in Command : owner[d] # None => owner[d] \in Command
  BY DEF TypeOK
<1>9. \A d \in Command :
        /\ pc'[d] = "reusing" => owner'[d] # None /\ SameMessage(d, owner'[d])
        /\ owner'[d] # None => pc'[d] \in {"reusing", "done"} /\ outcome'[owner'[d]] # "none"
        /\ outcome'[d] \in Verdicts => answers'[d] # {"accepted"}
  BY <1>1, <1>2, <1>3, <1>7, <1>8 DEF RepeatInv, Verdicts
<1>10. QED
  BY <1>5, <1>6, <1>9 DEF RepeatInv, SameMessage

\* A command is refused, or shares the run that its key names.
LEMMA KnownRepeat ==
  ASSUME TypeOK, GuardInv, RepeatInv, NEW c \in Command, pc[c] \in {"new", "transcribing"},
         ClaimKnown(c)
  PROVE  RepeatInv'
<1> DEFINE d0 == Without(entries, Pruned)[KeyOf[c]]
<1>1. /\ KeyOf[c] \in Key /\ d0 # None /\ d0 = entries[KeyOf[c]] /\ d0 \in Command
  BY KeysAreNames, WithoutEffect DEF ClaimKnown, TypeOK
<1>2. /\ entries' = Without(entries, Pruned) /\ outcome' = outcome
      /\ \/ /\ pc' = [pc EXCEPT ![c] = "done"] /\ owner' = owner
            /\ answers' = [answers EXCEPT ![c] = @ \cup {"rejected"}]
         \/ /\ pc' = [pc EXCEPT ![c] = "reusing"] /\ owner' = [owner EXCEPT ![c] = d0]
            /\ answers' = [answers EXCEPT ![c] = @ \cup {"accepted"}]
            /\ ContentOf[d0] = ContentOf[c]
  BY DEF ClaimKnown, Answer
<1>3. KeyOf[d0] = KeyOf[c] /\ outcome[d0] # "none" /\ KeyOf[c] # None
  BY <1>1 DEF GuardInv, Verdicts, ClaimKnown
<1> HIDE DEF d0
<1>4. outcome[c] = "none" /\ owner[c] = None
  BY DEF GuardInv, RepeatInv
<1>5. /\ \A d \in Command : d # c => /\ pc'[d] = pc[d] /\ answers'[d] = answers[d]
                                     /\ owner'[d] = owner[d]
      /\ \/ /\ pc'[c] = "reusing" /\ owner'[c] = d0 /\ ContentOf[d0] = ContentOf[c]
            /\ answers'[c] = answers[c] \cup {"accepted"}
         \/ /\ pc'[c] = "done" /\ owner'[c] = None
            /\ answers'[c] = answers[c] \cup {"rejected"}
  BY <1>2, <1>4 DEF TypeOK
<1>6. AnswersAreTrue'
  BY <1>2, <1>5, AnswersStay DEF RepeatInv
<1>7. \A k \in Key : entries'[k] \in {entries[k], None}
  BY <1>2, WithoutEffect
<1>8. SilenceLeavesKeyFree'
  <2>1. ASSUME NEW d \in Command, pc'[d] = "done", answers'[d] = {"accepted"}, KeyOf[d] # None
        PROVE  entries'[KeyOf[d]] \notin {d, owner'[d]} \ {None}
    <3>1. d # c
      BY <1>5, <2>1
    <3>2. entries[KeyOf[d]] \notin {d, owner[d]} \ {None} /\ KeyOf[d] \in Key
      BY <1>5, <2>1, <3>1, KeysAreNames DEF RepeatInv, SilenceLeavesKeyFree
    <3>3. QED
      BY <1>5, <1>7, <3>1, <3>2
  <2>2. QED
    BY <2>1 DEF SilenceLeavesKeyFree
<1>9. \A d \in Command :
        /\ pc'[d] = "reusing" => owner'[d] # None /\ SameMessage(d, owner'[d])
        /\ owner'[d] # None => pc'[d] \in {"reusing", "done"} /\ outcome'[owner'[d]] # "none"
        /\ outcome'[d] \in Verdicts => answers'[d] # {"accepted"}
  <2>1. ASSUME NEW d \in Command, d # c
        PROVE  /\ pc'[d] = "reusing" => owner'[d] # None /\ SameMessage(d, owner'[d])
               /\ owner'[d] # None => pc'[d] \in {"reusing", "done"} /\ outcome'[owner'[d]] # "none"
               /\ outcome'[d] \in Verdicts => answers'[d] # {"accepted"}
    BY <1>2, <1>5, <2>1 DEF RepeatInv
  <2>2. /\ pc'[c] = "reusing" => owner'[c] # None /\ SameMessage(c, owner'[c])
        /\ owner'[c] # None => pc'[c] \in {"reusing", "done"} /\ outcome'[owner'[c]] # "none"
        /\ outcome'[c] \in Verdicts => answers'[c] # {"accepted"}
    BY <1>1, <1>2, <1>3, <1>4, <1>5 DEF SameMessage, Verdicts
  <2>3. QED
    BY <2>1, <2>2
<1>10. QED
  BY <1>6, <1>8, <1>9 DEF RepeatInv, SameMessage

\* A run ends: with a verdict it answers, without one its key is free.
LEMMA EndRepeat ==
  ASSUME TypeOK, GuardInv, RepeatInv, NEW c \in Command, pc[c] \in Live,
         pc' = [pc EXCEPT ![c] = "done"], owner' = owner,
         NEW o \in Verdicts \cup {"released"}, outcome' = [outcome EXCEPT ![c] = o],
         NEW C, entries' = Without(entries, C), o = "released" => c \in C,
         CASE o = "completed" -> answers' = [answers EXCEPT ![c] = @ \cup {"ok"}]
           [] o = "failed" -> answers' = [answers EXCEPT ![c] = @ \cup {"error"}]
           [] OTHER -> answers' = answers
  PROVE  RepeatInv'
<1>1. /\ pc'[c] = "done" /\ pc[c] \notin {"reusing", "done"}
      /\ \A d \in Command : d # c => pc'[d] = pc[d]
  BY Moves DEF Positions, Live, InTurn
<1>2. /\ outcome'[c] = o /\ \A d \in Command : d # c => outcome'[d] = outcome[d]
      /\ outcome[c] = "pending"
  BY DEF TypeOK, GuardInv
<1>3. /\ \A d \in Command : d # c => answers'[d] = answers[d]
      /\ o = "completed" => answers'[c] = answers[c] \cup {"ok"}
      /\ o = "failed" => answers'[c] = answers[c] \cup {"error"}
      /\ o = "released" => answers'[c] = answers[c]
  BY DEF TypeOK, Verdicts
<1>4. owner[c] = None
  BY <1>1 DEF RepeatInv
<1>5. AnswersAreTrue'
  <2>1. "ok" \in answers'[c] => "ok" \in answers[c] \/ outcome'[c] = "completed"
    BY <1>2, <1>3 DEF Verdicts
  <2>2. "error" \in answers'[c] => "error" \in answers[c] \/ outcome'[c] = "failed"
    BY <1>2, <1>3 DEF Verdicts
  <2>3. SameMessage(c, c)
    BY DEF SameMessage
  <2>4. AnswersAreTrue /\ \A d \in Command : outcome[d] \in Verdicts => outcome'[d] = outcome[d]
    BY <1>2 DEF RepeatInv, Verdicts
  <2>5. QED
    BY <1>3, <2>1, <2>2, <2>3, <2>4, AnswersStay
<1>6. \A k \in Key : entries'[k] \in {entries[k], None} /\ (o = "released" => entries'[k] # c)
  <2>1. \A k \in Key : entries'[k] # None => entries'[k] = entries[k] /\ entries[k] \notin C
    BY WithoutEffect
  <2>2. QED
    BY <2>1, NoneIsNobody
<1>7. SilenceLeavesKeyFree'
  <2>1. ASSUME NEW d \in Command, pc'[d] = "done", answers'[d] = {"accepted"}, KeyOf[d] # None
        PROVE  entries'[KeyOf[d]] \notin {d, owner'[d]} \ {None}
    <3>1. KeyOf[d] \in Key
      BY <2>1, KeysAreNames
    <3>2. CASE d # c
      BY <1>1, <1>3, <1>6, <2>1, <3>1, <3>2 DEF RepeatInv, SilenceLeavesKeyFree
    <3>3. CASE d = c
      <4>1. o = "released"
        BY <1>3, <2>1, <3>3 DEF Verdicts
      <4>2. QED
        BY <1>4, <1>6, <3>1, <3>3, <4>1
    <3>4. QED
      BY <3>2, <3>3
  <2>2. QED
    BY <2>1 DEF SilenceLeavesKeyFree
<1>8. \A d \in Command : owner[d] # None => owner[d] \in Command
  BY DEF TypeOK
<1>9. o # "none" /\ (o \in Verdicts => answers'[c] # {"accepted"})
  BY <1>3 DEF Verdicts
<1>10. \A d \in Command :
        /\ pc'[d] = "reusing" => owner'[d] # None /\ SameMessage(d, owner'[d])
        /\ owner'[d] # None => pc'[d] \in {"reusing", "done"} /\ outcome'[owner'[d]] # "none"
        /\ outcome'[d] \in Verdicts => answers'[d] # {"accepted"}
  BY <1>1, <1>2, <1>3, <1>4, <1>8, <1>9 DEF RepeatInv
<1>11. QED
  BY <1>5, <1>7, <1>10 DEF RepeatInv, SameMessage

\* A repeated command ends with the verdict of the run it shares, or silently.
LEMMA ReuseRepeat ==
  ASSUME TypeOK, GuardInv, RepeatInv, NEW c \in Command, Reuse(c)
  PROVE  RepeatInv'
<1>1. /\ pc[c] = "reusing" /\ pc'[c] = "done" /\ UNCHANGED <<entries, outcome, owner>>
      /\ \A d \in Command : d # c => pc'[d] = pc[d]
  BY DEF Reuse, Go, guardVars, TypeOK
<1>2. owner[c] \in Command /\ SameMessage(c, owner[c]) /\ outcome[c] = "none"
  BY <1>1 DEF RepeatInv, GuardInv, TypeOK
<1>3. /\ \A d \in Command : d # c => answers'[d] = answers[d]
      /\ \/ outcome[owner[c]] = "completed" /\ answers'[c] = answers[c] \cup {"ok"}
         \/ outcome[owner[c]] = "failed" /\ answers'[c] = answers[c] \cup {"error"}
         \/ outcome[owner[c]] = "released" /\ answers'[c] = answers[c]
  BY DEF Reuse, Answer, TypeOK, Verdicts
<1>4. AnswersAreTrue'
  BY <1>1, <1>2, <1>3, AnswersStay DEF RepeatInv
<1>5. SilenceLeavesKeyFree'
  <2>1. ASSUME NEW d \in Command, pc'[d] = "done", answers'[d] = {"accepted"}, KeyOf[d] # None
        PROVE  entries'[KeyOf[d]] \notin {d, owner'[d]} \ {None}
    <3>1. CASE d # c
      BY <1>1, <1>3, <2>1, <3>1 DEF RepeatInv, SilenceLeavesKeyFree
    <3>2. CASE d = c
      <4>1. outcome[owner[c]] = "released" /\ KeyOf[c] \in Key
        BY <1>3, <2>1, <3>2, KeysAreNames
      <4>2. entries[KeyOf[c]] # None => outcome[entries[KeyOf[c]]] \in {"pending"} \cup Verdicts
        BY <4>1 DEF GuardInv
      <4>3. QED
        BY <1>1, <1>2, <3>2, <4>1, <4>2 DEF Verdicts
    <3>3. QED
      BY <3>1, <3>2
  <2>2. QED
    BY <2>1 DEF SilenceLeavesKeyFree
<1>6. \A d \in Command :
        /\ pc'[d] = "reusing" => owner'[d] # None /\ SameMessage(d, owner'[d])
        /\ owner'[d] # None => pc'[d] \in {"reusing", "done"} /\ outcome'[owner'[d]] # "none"
        /\ outcome'[d] \in Verdicts => answers'[d] # {"accepted"}
  BY <1>1, <1>2, <1>3 DEF RepeatInv, Verdicts
<1>7. QED
  BY <1>4, <1>5, <1>6 DEF RepeatInv, SameMessage

\* A voice command without a transcript is refused.
LEMMA RefusedRepeat ==
  ASSUME TypeOK, GuardInv, RepeatInv, NEW c \in Command, TranscriptFails(c)
  PROVE  RepeatInv'
<1>1. /\ pc[c] = "transcribing" /\ pc'[c] = "done" /\ UNCHANGED <<entries, outcome, owner>>
      /\ \A d \in Command : d # c => pc'[d] = pc[d] /\ answers'[d] = answers[d]
      /\ answers'[c] = answers[c] \cup {"rejected"}
  BY DEF TranscriptFails, Go, Answer, guardVars, TypeOK
<1>2. outcome[c] = "none" /\ owner[c] = None
  BY <1>1 DEF RepeatInv, GuardInv
<1>3. AnswersAreTrue'
  BY <1>1, AnswersStay DEF RepeatInv
<1>4. SilenceLeavesKeyFree'
  BY <1>1 DEF RepeatInv, SilenceLeavesKeyFree
<1>5. \A d \in Command :
        /\ pc'[d] = "reusing" => owner'[d] # None /\ SameMessage(d, owner'[d])
        /\ owner'[d] # None => pc'[d] \in {"reusing", "done"} /\ outcome'[owner'[d]] # "none"
        /\ outcome'[d] \in Verdicts => answers'[d] # {"accepted"}
  BY <1>1, <1>2 DEF RepeatInv, Verdicts
<1>6. QED
  BY <1>3, <1>4, <1>5 DEF RepeatInv, SameMessage

\* A restart frees all keys.
LEMMA CrashRepeat ==
  ASSUME TypeOK, RepeatInv, Crash
  PROVE  RepeatInv'
<1>1. /\ pc' = [c \in Command |-> IF pc[c] = "new" THEN "new" ELSE "done"]
      /\ entries' = [k \in Key |-> None] /\ UNCHANGED <<outcome, owner, answers>>
  BY DEF Crash
<1>2. AnswersAreTrue'
  BY <1>1 DEF RepeatInv, AnswersAreTrue, SameMessage
<1>3. SilenceLeavesKeyFree'
  BY <1>1, KeysAreNames DEF SilenceLeavesKeyFree
<1>4. QED
  BY <1>1, <1>2, <1>3 DEF RepeatInv, SameMessage
---------------------------------------------------------------------------
(* Types                                                                   *)

\* What the beginning of a run leaves of the types.
LEMMA BeginTypes ==
  ASSUME TypeOK, NEW c \in Command, Begin(c)
  PROVE  /\ pc' \in [Command -> Positions]
         /\ outcome' \in [Command -> {"none", "pending", "released"} \cup Verdicts]
         /\ answers' \in [Command -> SUBSET {"accepted", "rejected", "ok", "error"}]
         /\ tail' \in [Session -> Command \cup {None}]
         /\ before' \in [Command -> Command \cup {None}]
         /\ ticket' \in [Command -> Nat] /\ clock' \in [{"entered", "settled"} -> Nat]
         /\ settledAt' = settledAt /\ owner' = owner /\ active' \subseteq Command
<1>1. outcome' = [outcome EXCEPT ![c] = "pending"] /\ settledAt' = settledAt /\ owner' = owner
      /\ answers' = [answers EXCEPT ![c] = @ \cup {"accepted"}]
      /\ active' \subseteq Command
  BY DEF Begin, Answer, Remembering, TypeOK
<1>2. CASE c \in Attached
  <2>1. pc' = [pc EXCEPT ![c] = "attaching"] /\ UNCHANGED <<lineVars, clock>>
    BY <1>2 DEF Begin
  <2>2. QED
    BY <1>1, <2>1 DEF TypeOK, Positions, Live, lineVars
<1>3. CASE c \notin Attached
  <2>1. pc' = [pc EXCEPT ![c] = "queued"] /\ Enter(c) /\ Tick({"entered"})
    BY <1>3 DEF Begin
  <2>2. clock' \in [{"entered", "settled"} -> Nat]
    BY <2>1, Counting
  <2>3. SessionOf[c] \in Session /\ clock.entered \in Nat
    BY SessionsAreNames DEF TypeOK
  <2>4. QED
    BY <1>1, <2>1, <2>2, <2>3 DEF TypeOK, Positions, Live, Enter
<1>4. QED
  BY <1>2, <1>3

LEMMA ClaimTypes ==
  ASSUME TypeOK, NEW c \in Command, Claim(c), sentOn' \in [Command -> Nat]
  PROVE  TypeOK'
<1>1. UNCHANGED <<connection, socket, crashes, aborted, horizon, events>>
  BY DEF Claim, linkVars
<1>2. CASE ClaimWithoutKey(c)
  BY <1>1, <1>2, BeginTypes DEF ClaimWithoutKey, TypeOK, Positions
<1>3. CASE ClaimFresh(c)
  <2>1. entries' \in [Key -> Command \cup {None}]
    BY <1>3, WithoutEffect DEF ClaimFresh
  <2>2. QED
    BY <1>1, <1>3, <2>1, BeginTypes DEF ClaimFresh, TypeOK, Positions
<1>4. CASE ClaimKnown(c)
  <2>1. entries' \in [Key -> Command \cup {None}]
    BY <1>4, WithoutEffect DEF ClaimKnown
  <2>2. owner' \in [Command -> Command \cup {None}]
    BY <1>4, WithoutEffect, KeysAreNames DEF ClaimKnown, TypeOK
  <2>3. /\ pc' \in [Command -> Positions]
        /\ answers' \in [Command -> SUBSET {"accepted", "rejected", "ok", "error"}]
    BY <1>4 DEF ClaimKnown, Answer, TypeOK, Positions
  <2>4. QED
    BY <1>1, <1>4, <2>1, <2>2, <2>3 DEF ClaimKnown, TypeOK, lineVars, Positions
<1>5. QED
  BY <1>2, <1>3, <1>4 DEF Claim

\* What a verdict leaves: the run's own, and the verdicts of others make room.
LEMMA SettleEffect ==
  ASSUME TypeOK, NEW c \in Command, NEW v \in Verdicts, Settle(c, v)
  PROVE  /\ outcome' = [outcome EXCEPT ![c] = v]
         /\ settledAt' \in [Command -> Nat] /\ clock' \in [{"entered", "settled"} -> Nat]
         /\ clock'.entered = clock.entered
         /\ \E C : entries' = Without(entries, C) /\ \A d \in C : d = c \/ d \in Settled
<1>1. clock.settled \in Nat
  BY DEF TypeOK
<1>2. /\ clock' \in [{"entered", "settled"} -> Nat]
      /\ clock'.entered = clock.entered
  BY Counting DEF Settle
<1> DEFINE C == Excess({d \in Owners : outcome'[d] \in Verdicts}, settledAt')
<1>3. outcome' = [outcome EXCEPT ![c] = v] /\ entries' = Without(entries, C)
      /\ settledAt' = [settledAt EXCEPT ![c] = clock.settled + 1]
  BY DEF Settle
<1>4. \A d \in C : d = c \/ d \in Settled
  BY <1>3 DEF Excess, Owners, Settled, TypeOK
<1>5. settledAt' \in [Command -> Nat]
  BY <1>1, <1>3 DEF TypeOK
<1> HIDE DEF C
<1>6. QED
  BY <1>2, <1>3, <1>4, <1>5

LEMMA EndTypes ==
  ASSUME TypeOK, NEW c \in Command, NEW e \in {"aborted", "error"}, EndInError(c, e),
         tail' \in [Session -> Command \cup {None}], before' \in [Command -> Command \cup {None}],
         ticket' \in [Command -> Nat]
  PROVE  TypeOK'
<1>1. /\ pc' = [pc EXCEPT ![c] = "done"]
      /\ UNCHANGED <<connection, socket, crashes, sentOn, aborted, horizon, owner>>
      /\ active' \subseteq Command
  BY DEF EndInError, linkVars, Forgetting, TypeOK
<1>2. CASE IsOpen(c)
  <2>1. Publish(c, e) /\ Settle(c, "failed") /\ Answer(c, "error")
    BY <1>2 DEF EndInError
  <2>2. /\ entries' \in [Key -> Command \cup {None}]
        /\ outcome' = [outcome EXCEPT ![c] = "failed"]
        /\ settledAt' \in [Command -> Nat] /\ clock' \in [{"entered", "settled"} -> Nat]
    BY <2>1, SettleEffect, WithoutEffect DEF Verdicts
  <2>3. QED
    BY <1>1, <2>1, <2>2 DEF TypeOK, Publish, Answer, Verdicts
<1>3. CASE ~IsOpen(c)
  <2>1. Release(c) /\ UNCHANGED <<events, answers>>
    BY <1>3 DEF EndInError
  <2>2. entries' \in [Key -> Command \cup {None}]
    BY <2>1, WithoutEffect DEF Release
  <2>3. QED
    BY <1>1, <2>1, <2>2 DEF TypeOK, Release
<1>4. QED
  BY <1>2, <1>3

LEMMA LeaveTypes ==
  ASSUME TypeOK, NEW c \in Command, Leave(c)
  PROVE  /\ tail' \in [Session -> Command \cup {None}]
         /\ before' \in [Command -> Command \cup {None}] /\ ticket' \in [Command -> Nat]
  BY SessionsAreNames DEF Leave, TypeOK

LEMMA NextTypes == TypeOK /\ [Next]_vars => TypeOK'
<1> SUFFICES ASSUME TypeOK, [Next]_vars PROVE TypeOK'
  OBVIOUS
<1>1. ASSUME NEW c \in Command, Deliver(c) PROVE TypeOK'
  <2>1. sentOn' \in [Command -> Nat]
    BY <1>1 DEF Deliver, TypeOK
  <2>2. CASE c \in Voice
    BY <1>1, <2>1, <2>2 DEF Deliver, TypeOK, linkVars, guardVars, lineVars
  <2>3. CASE c \notin Voice
    BY <1>1, <2>1, <2>3, ClaimTypes DEF Deliver
  <2>4. QED
    BY <2>2, <2>3
<1>2. ASSUME NEW c \in Command, Transcribed(c) PROVE TypeOK'
  <2>1. sentOn' \in [Command -> Nat]
    BY <1>2 DEF Transcribed, TypeOK
  <2>2. QED
    BY <1>2, <2>1, ClaimTypes DEF Transcribed
<1>3. ASSUME NEW c \in Command, TranscriptFails(c) PROVE TypeOK'
  BY <1>3 DEF TranscriptFails, Go, Answer, TypeOK, linkVars, guardVars, lineVars
<1>4. ASSUME NEW c \in Command, Attach(c) PROVE TypeOK'
  <2>1. clock' \in [{"entered", "settled"} -> Nat]
    BY <1>4, Counting DEF Attach
  <2>2. SessionOf[c] \in Session /\ clock.entered \in Nat
    BY SessionsAreNames DEF TypeOK
  <2>3. QED
    BY <1>4, <2>1, <2>2 DEF Attach, Go, Enter, TypeOK, linkVars, guardVars, Live
<1>5. ASSUME NEW c \in Command, AttachFails(c) PROVE TypeOK'
  <2>1. UNCHANGED lineVars /\ EndInError(c, "error")
    BY <1>5 DEF AttachFails
  <2>2. /\ tail' \in [Session -> Command \cup {None}]
        /\ before' \in [Command -> Command \cup {None}] /\ ticket' \in [Command -> Nat]
    BY <2>1 DEF lineVars, TypeOK
  <2>3. QED
    BY <2>1, <2>2, EndTypes
<1>6. ASSUME NEW c \in Command, Start(c) PROVE TypeOK'
  BY <1>6 DEF Start, Go, TypeOK, linkVars, guardVars, lineVars, Live, InTurn
<1>7. ASSUME NEW c \in Command, Drain(c) PROVE TypeOK'
  BY <1>7 DEF Drain, Go, TypeOK, linkVars, guardVars, lineVars, Live, InTurn
<1>8. ASSUME NEW c \in Command, ModelCompletes(c) PROVE TypeOK'
  BY <1>8, LeaveTypes DEF ModelCompletes, Forgetting, TypeOK, linkVars, guardVars, Live
<1>9. ASSUME NEW c \in Command, ModelFails(c) PROVE TypeOK'
  BY <1>9, LeaveTypes, EndTypes DEF ModelFails
<1>10. ASSUME NEW c \in Command, Finish(c) PROVE TypeOK'
  <2>1. /\ entries' \in [Key -> Command \cup {None}]
        /\ outcome' = [outcome EXCEPT ![c] = "completed"]
        /\ settledAt' \in [Command -> Nat] /\ clock' \in [{"entered", "settled"} -> Nat]
    BY <1>10, SettleEffect, WithoutEffect DEF Finish, Verdicts
  <2>2. QED
    BY <1>10, <2>1 DEF Finish, Go, Publish, Answer, TypeOK, linkVars, lineVars, Verdicts
<1>11. ASSUME NEW c \in Command, Reuse(c) PROVE TypeOK'
  <2>1. answers' \in [Command -> SUBSET {"accepted", "rejected", "ok", "error"}]
    BY <1>11 DEF Reuse, Answer, TypeOK
  <2>2. QED
    BY <1>11, <2>1 DEF Reuse, Go, TypeOK, linkVars, guardVars, lineVars
<1>12. ASSUME NEW c \in Command, ChatAbort(c) PROVE TypeOK'
  BY <1>12 DEF ChatAbort, Publish, TypeOK, linkVars, guardVars, lineVars
<1>13. CASE Retain
  <2>1. horizon' \in Nat
    BY <1>13 DEF Retain, TypeOK
  <2>2. QED
    BY <1>13, <2>1 DEF Retain, TypeOK, linkVars, guardVars, lineVars
<1>14. CASE Lose
  BY <1>14 DEF Lose, TypeOK, guardVars, lineVars
<1>15. CASE Close
  <2>1. aborted' \subseteq Command
    BY <1>15 DEF Close, TypeOK
  <2>2. QED
    BY <1>15, <2>1 DEF Close, TypeOK, guardVars, lineVars
<1>16. CASE Reconnect
  BY <1>16 DEF Reconnect, TypeOK, guardVars, lineVars
<1>17. CASE Crash
  BY <1>17 DEF Crash, TypeOK
<1>18. CASE UNCHANGED vars
  BY <1>18 DEF vars, TypeOK, linkVars, guardVars, lineVars
<1>19. QED
  BY <1>1, <1>2, <1>3, <1>4, <1>5, <1>6, <1>7, <1>8, <1>9, <1>10, <1>11, <1>12, <1>13, <1>14,
     <1>15, <1>16, <1>17, <1>18 DEF Next, Handle
---------------------------------------------------------------------------
(* Steps                                                                   *)

LEMMA WithoutNobody ==
  ASSUME TypeOK
  PROVE  Without(entries, {}) = entries
  BY DEF Without, TypeOK

\* A handler moves on and touches neither the guard nor what was answered.
LEMMA QuietMoves ==
  ASSUME RunsInv, NEW c \in Command, NEW x \in Positions \ {"reusing", "done"},
         pc' = [pc EXCEPT ![c] = x],
         \/ pc[c] \in {"new", "transcribing"} /\ x \in Unbegun
         \/ pc[c] \in Live /\ x \in Live,
         UNCHANGED <<entries, outcome, owner, answers>>
  PROVE  GuardInv' /\ RepeatInv'
<1>1. entries' = Without(entries, {}) /\ {} \in SUBSET Settled
  BY WithoutNobody DEF RunsInv
<1>2. GuardInv'
  BY <1>1, QuietGuard DEF RunsInv, Unbegun
<1>3. pc[c] \notin {"reusing", "done"}
  BY DEF Live, InTurn
<1>4. RepeatInv'
  BY <1>3, QuietRepeat DEF RunsInv
<1>5. QED
  BY <1>2, <1>4

\* A command that begins a run.
LEMMA BeginMoves ==
  ASSUME RunsInv, NEW c \in Command, pc[c] \in {"new", "transcribing"}, Begin(c),
         NEW C \in SUBSET Settled,
         \/ KeyOf[c] = None /\ entries' = entries
         \/ /\ KeyOf[c] # None /\ Without(entries, C)[KeyOf[c]] = None
            /\ entries' = [Without(entries, C) EXCEPT ![KeyOf[c]] = c]
  PROVE  LineInv' /\ GuardInv' /\ RepeatInv'
<1> DEFINE x == IF c \in Attached THEN "attaching" ELSE "queued"
<1>1. /\ x \in {"attaching", "queued"} /\ pc' = [pc EXCEPT ![c] = x]
      /\ outcome' = [outcome EXCEPT ![c] = "pending"] /\ owner' = owner
      /\ answers' = [answers EXCEPT ![c] = @ \cup {"accepted"}]
  BY DEF Begin, Answer
<1>2. LineInv'
  <2>1. CASE c \in Attached
    BY <2>1, OutOfLineKeeps DEF Begin, RunsInv, NotInLine
  <2>2. CASE c \notin Attached
    <3>1. pc' = [pc EXCEPT ![c] = "queued"] /\ Enter(c) /\ Tick({"entered"})
      BY <2>2 DEF Begin
    <3>2. clock'.entered = clock.entered + 1
      BY <3>1, Counting DEF RunsInv
    <3>3. QED
      BY <3>1, <3>2, EnterKeeps DEF RunsInv, NotInLine
  <2>3. QED
    BY <2>1, <2>2
<1> HIDE DEF x
<1>3. x \in Live /\ pc[c] \in Unbegun
  BY <1>1 DEF Live, Unbegun
<1>4. GuardInv'
  BY <1>1, <1>3, BeginGuard DEF RunsInv
<1>5. RepeatInv'
  BY <1>1, <1>3, BeginRepeat DEF RunsInv
<1>6. QED
  BY <1>2, <1>4, <1>5

LEMMA ClaimMoves ==
  ASSUME RunsInv, NEW c \in Command, pc[c] \in {"new", "transcribing"}, Claim(c)
  PROVE  LineInv' /\ GuardInv' /\ RepeatInv'
<1>1. CASE ClaimWithoutKey(c)
  BY <1>1, BeginMoves DEF ClaimWithoutKey
<1>2. CASE ClaimFresh(c)
  <2>1. Pruned \in SUBSET Settled
    BY PrunedAreSettled
  <2>2. QED
    BY <1>2, <2>1, BeginMoves DEF ClaimFresh
<1>3. CASE ClaimKnown(c)
  <2>1. UNCHANGED lineVars /\ clock' = clock /\ outcome' = outcome
        /\ entries' = Without(entries, Pruned)
    BY <1>3 DEF ClaimKnown
  <2>2. PICK x \in {"done", "reusing"} : pc' = [pc EXCEPT ![c] = x]
    BY <1>3 DEF ClaimKnown
  <2>3. LineInv'
    BY <2>1, <2>2, OutOfLineKeeps DEF RunsInv, NotInLine
  <2>4. GuardInv'
    BY <2>1, <2>2, PrunedAreSettled, QuietGuard DEF RunsInv, Unbegun, Positions
  <2>5. RepeatInv'
    BY <1>3, KnownRepeat DEF RunsInv
  <2>6. QED
    BY <2>3, <2>4, <2>5
<1>4. QED
  BY <1>1, <1>2, <1>3 DEF Claim

\* The end of a run, but for the line.
LEMMA EndMoves ==
  ASSUME RunsInv, NEW c \in Command, pc[c] \in Live,
         NEW e \in {"aborted", "error"}, EndInError(c, e)
  PROVE  GuardInv' /\ RepeatInv' /\ clock'.entered = clock.entered
<1>1. pc' = [pc EXCEPT ![c] = "done"] /\ owner' = owner
  BY DEF EndInError
<1>2. CASE IsOpen(c)
  <2>1. Settle(c, "failed") /\ Answer(c, "error")
    BY <1>2 DEF EndInError
  <2>2. PICK C : entries' = Without(entries, C) /\ \A d \in C : d = c \/ d \in Settled
    BY <2>1, SettleEffect DEF RunsInv, Verdicts
  <2>3. outcome' = [outcome EXCEPT ![c] = "failed"] /\ clock'.entered = clock.entered
    BY <2>1, SettleEffect DEF RunsInv, Verdicts
  <2>4. "failed" \in Verdicts \cup {"released"} /\ "failed" # "released"
    BY DEF Verdicts
  <2>5. GuardInv'
    BY <1>1, <2>2, <2>3, <2>4, EndGuard DEF RunsInv
  <2>6. RepeatInv'
    BY <1>1, <2>1, <2>2, <2>3, <2>4, EndRepeat DEF RunsInv, Answer
  <2>7. QED
    BY <2>3, <2>5, <2>6
<1>3. CASE ~IsOpen(c)
  <2>1. Release(c) /\ answers' = answers
    BY <1>3 DEF EndInError
  <2>2. outcome' = [outcome EXCEPT ![c] = "released"] /\ entries' = Without(entries, {c})
        /\ clock' = clock
    BY <2>1 DEF Release
  <2>3. GuardInv'
    BY <1>1, <2>2, EndGuard DEF RunsInv
  <2>4. RepeatInv'
    BY <1>1, <2>1, <2>2, EndRepeat DEF RunsInv
  <2>5. QED
    BY <2>2, <2>3, <2>4
<1>4. QED
  BY <1>2, <1>3

LEMMA FinishMoves ==
  ASSUME RunsInv, NEW c \in Command, Finish(c)
  PROVE  LineInv' /\ GuardInv' /\ RepeatInv'
<1>1. /\ pc[c] = "finishing" /\ pc' = [pc EXCEPT ![c] = "done"] /\ pc[c] \in Live
      /\ owner' = owner /\ UNCHANGED lineVars
      /\ answers' = [answers EXCEPT ![c] = @ \cup {"ok"}]
  BY DEF Finish, Go, Answer, Live
<1>2. PICK C : entries' = Without(entries, C) /\ \A d \in C : d = c \/ d \in Settled
  BY SettleEffect DEF Finish, RunsInv, Verdicts
<1>3. outcome' = [outcome EXCEPT ![c] = "completed"] /\ clock'.entered = clock.entered
  BY SettleEffect DEF Finish, RunsInv, Verdicts
<1>4. "completed" \in Verdicts \cup {"released"}
  BY DEF Verdicts
<1>5. LineInv'
  BY <1>1, <1>3, InLineKeeps DEF RunsInv
<1>6. GuardInv'
  BY <1>1, <1>2, <1>3, <1>4, EndGuard DEF RunsInv
<1>7. RepeatInv'
  BY <1>1, <1>2, <1>3, <1>4, EndRepeat DEF RunsInv
<1>8. QED
  BY <1>5, <1>6, <1>7

\* Nothing that the invariant mentions changes.
LEMMA OutsideMoves ==
  ASSUME RunsInv, pc' = pc, entries' = entries, outcome' = outcome, owner' = owner,
         tail' = tail, before' = before, ticket' = ticket, answers' = answers, clock' = clock
  PROVE  LineInv' /\ GuardInv' /\ RepeatInv'
<1>1. LineInv'
  BY DEF RunsInv, LineInv, TurnsInOrder
<1>2. GuardInv'
  BY DEF RunsInv, GuardInv
<1>3. RepeatInv'
  BY DEF RunsInv, RepeatInv, AnswersAreTrue, SilenceLeavesKeyFree, SameMessage
<1>4. QED
  BY <1>1, <1>2, <1>3

LEMMA RunsInvStarts == Init => RunsInv
<1> SUFFICES ASSUME Init PROVE RunsInv
  OBVIOUS
<1>1. TypeOK
  BY DEF Init, TypeOK
<1>2. LineInv
  BY DEF Init, LineInv, TurnsInOrder, InTurn, LeftLine
<1>3. GuardInv
  BY DEF Init, GuardInv, Live, InTurn
<1>4. RepeatInv
  BY DEF Init, RepeatInv, AnswersAreTrue, SilenceLeavesKeyFree, Verdicts
<1>5. QED
  BY <1>1, <1>2, <1>3, <1>4 DEF RunsInv

LEMMA RunsInvKept == RunsInv /\ [Next]_vars => RunsInv'
<1> SUFFICES ASSUME RunsInv, [Next]_vars PROVE RunsInv'
  OBVIOUS
<1> DEFINE Kept == LineInv' /\ GuardInv' /\ RepeatInv'
<1>1. ASSUME NEW c \in Command, Deliver(c) PROVE Kept
  <2>1. CASE c \in Voice
    <3>1. /\ pc[c] = "new" /\ pc' = [pc EXCEPT ![c] = "transcribing"]
          /\ UNCHANGED <<entries, outcome, owner, answers, lineVars, clock>>
      BY <1>1, <2>1 DEF Deliver, guardVars
    <3>2. LineInv'
      BY <3>1, OutOfLineKeeps DEF RunsInv, NotInLine
    <3>3. GuardInv' /\ RepeatInv'
      BY <3>1, QuietMoves DEF Positions, Unbegun
    <3>4. QED
      BY <3>2, <3>3
  <2>2. CASE c \notin Voice
    BY <1>1, <2>2, ClaimMoves DEF Deliver
  <2>3. QED
    BY <2>1, <2>2
<1>2. ASSUME NEW c \in Command, Transcribed(c) PROVE Kept
  BY <1>2, ClaimMoves DEF Transcribed
<1>3. ASSUME NEW c \in Command, TranscriptFails(c) PROVE Kept
  <2>1. /\ pc[c] = "transcribing" /\ pc' = [pc EXCEPT ![c] = "done"]
        /\ UNCHANGED <<entries, outcome, lineVars, clock>>
    BY <1>3 DEF TranscriptFails, Go, guardVars
  <2>2. entries' = Without(entries, {}) /\ {} \in SUBSET Settled
    BY <2>1, WithoutNobody DEF RunsInv
  <2>3. LineInv'
    BY <2>1, OutOfLineKeeps DEF RunsInv, NotInLine
  <2>4. GuardInv'
    BY <2>1, <2>2, QuietGuard DEF RunsInv, Unbegun, Positions
  <2>5. RepeatInv'
    BY <1>3, RefusedRepeat DEF RunsInv
  <2>6. QED
    BY <2>3, <2>4, <2>5
<1>4. ASSUME NEW c \in Command, Attach(c) PROVE Kept
  <2>1. /\ pc[c] = "attaching" /\ pc' = [pc EXCEPT ![c] = "queued"] /\ Enter(c)
        /\ UNCHANGED <<entries, outcome, owner, answers>>
    BY <1>4 DEF Attach, Go, guardVars
  <2>2. clock'.entered = clock.entered + 1
    BY <1>4, Counting DEF Attach, RunsInv
  <2>3. LineInv'
    BY <2>1, <2>2, EnterKeeps DEF RunsInv, NotInLine
  <2>4. GuardInv' /\ RepeatInv'
    BY <2>1, QuietMoves DEF Positions, Live
  <2>5. QED
    BY <2>3, <2>4
<1>5. ASSUME NEW c \in Command, AttachFails(c) PROVE Kept
  <2>1. /\ pc[c] = "attaching" /\ pc' = [pc EXCEPT ![c] = "done"] /\ UNCHANGED lineVars
        /\ EndInError(c, "error")
    BY <1>5 DEF AttachFails, EndInError
  <2>2. GuardInv' /\ RepeatInv' /\ clock'.entered = clock.entered
    BY <2>1, EndMoves DEF Live
  <2>3. LineInv'
    BY <2>1, <2>2, OutOfLineKeeps DEF RunsInv, NotInLine
  <2>4. QED
    BY <2>2, <2>3
<1>6. ASSUME NEW c \in Command, Start(c) \/ Drain(c) PROVE Kept
  <2>1. UNCHANGED <<entries, outcome, owner, answers, lineVars, clock>>
    BY <1>6 DEF Start, Drain, guardVars
  <2>2. PICK x \in InTurn :
          /\ pc' = [pc EXCEPT ![c] = x]
          /\ \/ pc[c] = "queued" /\ x = "running" /\ MayStart(c)
             \/ pc[c] = "running" /\ x = "draining"
    BY <1>6 DEF Start, Drain, Go, InTurn
  <2>3. LineInv'
    BY <2>1, <2>2, InLineKeeps DEF RunsInv
  <2>4. GuardInv' /\ RepeatInv'
    BY <2>1, <2>2, QuietMoves DEF Positions, Live, InTurn
  <2>5. QED
    BY <2>3, <2>4
<1>7. ASSUME NEW c \in Command, ModelCompletes(c) PROVE Kept
  <2>1. /\ pc[c] \in InTurn /\ pc' = [pc EXCEPT ![c] = "finishing"] /\ Leave(c)
        /\ UNCHANGED <<entries, outcome, owner, answers, clock>>
    BY <1>7 DEF ModelCompletes, guardVars
  <2>2. LineInv'
    BY <2>1, LeaveKeeps DEF RunsInv, LeftLine
  <2>3. GuardInv' /\ RepeatInv'
    BY <2>1, QuietMoves DEF Positions, Live
  <2>4. QED
    BY <2>2, <2>3
<1>8. ASSUME NEW c \in Command, ModelFails(c) PROVE Kept
  <2>1. PICK e \in {"aborted", "error"} : EndInError(c, e)
    BY <1>8 DEF ModelFails
  <2>2. pc[c] \in InTurn /\ pc' = [pc EXCEPT ![c] = "done"] /\ Leave(c)
    BY <1>8, <2>1 DEF ModelFails, EndInError
  <2>3. GuardInv' /\ RepeatInv' /\ clock'.entered = clock.entered
    BY <2>1, <2>2, EndMoves DEF Live
  <2>4. LineInv'
    BY <2>2, <2>3, LeaveKeeps DEF RunsInv, LeftLine
  <2>5. QED
    BY <2>3, <2>4
<1>9. ASSUME NEW c \in Command, Finish(c) PROVE Kept
  BY <1>9, FinishMoves
<1>10. ASSUME NEW c \in Command, Reuse(c) PROVE Kept
  <2>1. /\ pc[c] = "reusing" /\ pc' = [pc EXCEPT ![c] = "done"]
        /\ UNCHANGED <<entries, outcome, lineVars, clock>>
    BY <1>10 DEF Reuse, Go, guardVars
  <2>2. entries' = Without(entries, {}) /\ {} \in SUBSET Settled
    BY <2>1, WithoutNobody DEF RunsInv
  <2>3. LineInv'
    BY <2>1, OutOfLineKeeps DEF RunsInv, NotInLine
  <2>4. GuardInv'
    BY <2>1, <2>2, QuietGuard DEF RunsInv, Unbegun, Positions
  <2>5. RepeatInv'
    BY <1>10, ReuseRepeat DEF RunsInv
  <2>6. QED
    BY <2>3, <2>4, <2>5
<1>11. ASSUME NEW c \in Command, ChatAbort(c) PROVE Kept
  BY <1>11, OutsideMoves DEF ChatAbort, guardVars, lineVars
<1>12. ASSUME Retain \/ Lose \/ Close \/ Reconnect PROVE Kept
  BY <1>12, OutsideMoves DEF Retain, Lose, Close, Reconnect, guardVars, lineVars
<1>13. ASSUME Crash PROVE Kept
  BY <1>13, CrashKeepsLine, CrashGuard, CrashRepeat DEF RunsInv
<1>14. ASSUME UNCHANGED vars PROVE Kept
  BY <1>14, OutsideMoves DEF vars, guardVars, lineVars
<1>15. Kept
  BY <1>1, <1>2, <1>3, <1>4, <1>5, <1>6, <1>7, <1>8, <1>9, <1>10, <1>11, <1>12, <1>13, <1>14
     DEF Next, Handle
<1>16. QED
  BY <1>15, NextTypes DEF RunsInv

---------------------------------------------------------------------------
(* Theorems                                                                *)

\* The lines, the guard and the repeated commands hold together: the
\* strengthening from which the others follow.
THEOREM RunsInvariance == Spec => []RunsInv
  BY RunsInvStarts, RunsInvKept, PTL DEF Spec

\* Every session's runs take their turns in the order in which they got in
\* line, one after the other, however many there are.
THEOREM TurnsAreTaken == Spec => []TurnsInOrder
<1>1. RunsInv => TurnsInOrder
  BY DEF RunsInv, LineInv
<1>2. QED
  BY <1>1, RunsInvariance, PTL

\* No command is told a verdict that no run of its message ever had.
THEOREM AnswersHold == Spec => []AnswersAreTrue
<1>1. RunsInv => AnswersAreTrue
  BY DEF RunsInv, RepeatInv
<1>2. QED
  BY <1>1, RunsInvariance, PTL

\* A command that is left without a verdict does not keep its key.
THEOREM KeysAreFreed == Spec => []SilenceLeavesKeyFree
<1>1. RunsInv => SilenceLeavesKeyFree
  BY DEF RunsInv, RepeatInv
<1>2. QED
  BY <1>1, RunsInvariance, PTL
---------------------------------------------------------------------------
(* One run per key                                                         *)

\* Under the invariant the holders are those of the guard's map.
LEMMA HolderIs == TypeOK /\ GuardInv => HolderOf = entries
<1> SUFFICES ASSUME TypeOK, GuardInv PROVE HolderOf = entries
  OBVIOUS
<1>1. ASSUME NEW k \in Key
      PROVE  HolderOf[k] = entries[k]
  <2>1. \A c \in Holders(k) : c = entries[k] /\ c # None
    BY <1>1, NoneIsNobody DEF Holders, GuardInv
  <2>2. CASE entries[k] = None
    <3>1. Holders(k) = {}
      BY <2>1, <2>2
    <3>2. QED
      BY <1>1, <2>2, <3>1 DEF HolderOf
  <2>3. CASE entries[k] # None
    <3>1. entries[k] \in Holders(k)
      BY <1>1, <2>3 DEF Holders, GuardInv, TypeOK
    <3>2. Holders(k) = {entries[k]}
      BY <2>1, <3>1
    <3>3. QED
      BY <1>1, <3>2 DEF HolderOf
  <2>4. QED
    BY <2>2, <2>3
<1>2. HolderOf = [k \in Key |-> HolderOf[k]] /\ entries = [k \in Key |-> entries[k]]
  BY DEF HolderOf, TypeOK
<1>3. QED
  BY <1>1, <1>2

LEMMA HolderBecomes == (TypeOK /\ GuardInv)' => (HolderOf = entries)'
  BY HolderIs, PTL

\* Under the invariant a verdict can be read off the terminal promise.
LEMMA VerdictIs ==
  TypeOK /\ GuardInv =>
    /\ VerdictOf = [c \in Keyed |-> VerdictOf[c]]
    /\ \A c \in Keyed :
         /\ outcome[c] \in Verdicts => VerdictOf[c] = "given"
         /\ pc[c] \in Live => VerdictOf[c] = "running"
         /\ outcome[c] = "none" => VerdictOf[c] = "none"
         /\ outcome[c] = "released" => VerdictOf[c] = "withdrawn"
         /\ outcome[c] = "pending" /\ pc[c] \notin Live => VerdictOf[c] = "withdrawn"
  BY DEF VerdictOf, Keyed, GuardInv, Verdicts

LEMMA VerdictBecomes ==
  TypeOK' /\ GuardInv' =>
    /\ VerdictOf' = [c \in Keyed |-> VerdictOf'[c]]
    /\ \A c \in Keyed :
         /\ outcome'[c] \in Verdicts => VerdictOf'[c] = "given"
         /\ pc'[c] \in Live => VerdictOf'[c] = "running"
         /\ outcome'[c] = "none" => VerdictOf'[c] = "none"
         /\ outcome'[c] = "released" => VerdictOf'[c] = "withdrawn"
         /\ outcome'[c] = "pending" /\ pc'[c] \notin Live => VerdictOf'[c] = "withdrawn"
  BY DEF VerdictOf, Keyed, GuardInv, Verdicts

\* Both states satisfy the invariant, and the step is one of the others, or of
\* a command without a key: nothing happens to holders and verdicts.
LEMMA OtherSteps ==
  ASSUME RunsInv, RunsInv', entries' = entries,
         \A c \in Keyed : outcome'[c] = outcome[c] /\ (pc'[c] \in Live <=> pc[c] \in Live)
  PROVE  UNCHANGED RunOnce!rvars
<1>1. HolderOf' = HolderOf
  BY HolderIs, HolderBecomes DEF RunsInv
<1>2. VerdictOf' = VerdictOf
  BY DEF VerdictOf
<1>3. QED
  BY <1>1, <1>2 DEF RunOnce!rvars

\* The keys whose owners are forgotten.
KeysOf(C) == {k \in Key : entries[k] \in C}

LEMMA Forgets ==
  ASSUME RunsInv, NEW C
  PROVE  /\ RunOnce!Without(KeysOf(C)) = Without(entries, C)
         /\ C \subseteq Settled => RunOnce!Forget(KeysOf(C))
<1>1. HolderOf = entries
  BY HolderIs DEF RunsInv
<1>2. RunOnce!Without(KeysOf(C)) = Without(entries, C)
  BY <1>1 DEF RunOnce!Without, Without, KeysOf
<1>3. ASSUME C \subseteq Settled, NEW k \in KeysOf(C)
      PROVE  HolderOf[k] # None /\ VerdictOf[HolderOf[k]] = "given"
  <2>1. k \in Key /\ entries[k] \in Command /\ entries[k] # None
        /\ outcome[entries[k]] \in Verdicts
    BY <1>3, NoneIsNobody DEF KeysOf, Settled
  <2>2. entries[k] \in Keyed
    BY <2>1, NoneIsNobody DEF RunsInv, GuardInv, Keyed
  <2>3. QED
    BY <1>1, <2>1, <2>2, VerdictIs DEF RunsInv
<1>4. C \subseteq Settled => RunOnce!Forget(KeysOf(C))
  BY <1>3 DEF RunOnce!Forget
<1>5. QED
  BY <1>2, <1>4

\* A run that begins owns its key.
LEMMA BeginOwns ==
  ASSUME RunsInv, RunsInv', NEW c \in Command, pc[c] \in {"new", "transcribing"}, Begin(c),
         NEW C \in SUBSET Settled, KeyOf[c] # None, Without(entries, C)[KeyOf[c]] = None,
         entries' = [Without(entries, C) EXCEPT ![KeyOf[c]] = c]
  PROVE  RunOnce!Own(c)
<1>1. HolderOf' = entries'
  BY HolderBecomes DEF RunsInv
<1>2. /\ outcome' = [outcome EXCEPT ![c] = "pending"] /\ outcome[c] = "none" /\ c \in Keyed
      /\ \E x \in Live : pc' = [pc EXCEPT ![c] = x]
  BY DEF Begin, RunsInv, GuardInv, Keyed, Live
<1>3. /\ pc'[c] \in Live /\ outcome'[c] = "pending"
      /\ \A d \in Command : d # c => pc'[d] = pc[d] /\ outcome'[d] = outcome[d]
  BY <1>2 DEF RunsInv, TypeOK
<1>4. VerdictOf[c] = "none" /\ VerdictOf'[c] = "running"
  BY <1>2, <1>3, VerdictIs, VerdictBecomes DEF RunsInv
<1>5. \A d \in Keyed : d # c => VerdictOf'[d] = VerdictOf[d]
  BY <1>3 DEF VerdictOf, Keyed
<1>6. VerdictOf' = [VerdictOf EXCEPT ![c] = "running"]
  BY <1>2, <1>4, <1>5 DEF VerdictOf
<1>7. KeysOf(C) \in SUBSET Key
  BY DEF KeysOf
<1>8. QED
  BY <1>1, <1>4, <1>6, <1>7, Forgets DEF RunOnce!Own, RunOnce!Rules

\* A verdict, for a command with a key or without one.
LEMMA SettleDecides ==
  ASSUME RunsInv, RunsInv', NEW c \in Command, pc[c] \in Live, pc' = [pc EXCEPT ![c] = "done"],
         NEW v \in Verdicts, Settle(c, v)
  PROVE  RunOnce!Lapse \/ (c \in Keyed /\ RunOnce!Decide(c))
<1>1. HolderOf' = entries' /\ HolderOf = entries
  BY HolderIs, HolderBecomes DEF RunsInv
<1>2. PICK C : entries' = Without(entries, C) /\ \A d \in C : d = c \/ d \in Settled
  BY SettleEffect DEF RunsInv
<1>3. /\ outcome'[c] = v /\ outcome[c] = "pending"
      /\ \A d \in Command : d # c => pc'[d] = pc[d] /\ outcome'[d] = outcome[d]
  BY SettleEffect DEF RunsInv, TypeOK, GuardInv
<1>4. KeysOf(C) \in SUBSET Key /\ HolderOf' = RunOnce!Without(KeysOf(C))
  BY <1>1, <1>2, Forgets DEF KeysOf
<1>5. \A d \in Keyed : d # c => VerdictOf'[d] = VerdictOf[d]
  BY <1>3 DEF VerdictOf, Keyed
<1>6. CASE c \in Keyed
  <2>1. VerdictOf[c] = "running" /\ VerdictOf'[c] = "given"
    BY <1>3, <1>6, VerdictIs, VerdictBecomes DEF RunsInv
  <2>2. VerdictOf' = [VerdictOf EXCEPT ![c] = "given"]
    BY <1>5, <1>6, <2>1 DEF VerdictOf
  <2>3. ASSUME NEW k \in KeysOf(C) PROVE HolderOf[k] # None /\ VerdictOf'[HolderOf[k]] = "given"
    <3>1. k \in Key /\ entries[k] \in Command /\ entries[k] # None
          /\ (entries[k] = c \/ outcome[entries[k]] \in Verdicts)
      BY <1>2, <2>3, NoneIsNobody DEF KeysOf, Settled
    <3>2. entries[k] \in Keyed
      BY <3>1, NoneIsNobody DEF RunsInv, GuardInv, Keyed
    <3>3. outcome'[entries[k]] \in Verdicts
      BY <1>3, <3>1
    <3>4. QED
      BY <1>1, <3>1, <3>2, <3>3, VerdictBecomes DEF RunsInv
  <2>4. QED
    BY <1>4, <1>6, <2>1, <2>2, <2>3 DEF RunOnce!Decide, RunOnce!Rules
<1>7. CASE c \notin Keyed
  <2>1. VerdictOf' = VerdictOf
    BY <1>3, <1>7 DEF VerdictOf, Keyed
  <2>2. ASSUME NEW k \in KeysOf(C) PROVE HolderOf[k] # None /\ VerdictOf[HolderOf[k]] = "given"
    <3>1. k \in Key /\ entries[k] \in Command /\ entries[k] # None
      BY <1>2, <2>2, NoneIsNobody DEF KeysOf, Settled
    <3>2. entries[k] \in Keyed
      BY <3>1, NoneIsNobody DEF RunsInv, GuardInv, Keyed
    <3>3. outcome[entries[k]] \in Verdicts
      BY <1>2, <1>7, <2>2, <3>2 DEF KeysOf, Settled
    <3>4. QED
      BY <1>1, <3>1, <3>2, <3>3, VerdictIs DEF RunsInv
  <2>3. QED
    BY <1>4, <2>1, <2>2 DEF RunOnce!Lapse, RunOnce!Forget
<1>8. QED
  BY <1>6, <1>7

\* A key given back.
LEMMA ReleaseWithdraws ==
  ASSUME RunsInv, RunsInv', NEW c \in Command, pc[c] \in Live, pc' = [pc EXCEPT ![c] = "done"],
         Release(c)
  PROVE  UNCHANGED RunOnce!rvars \/ (c \in Keyed /\ RunOnce!Withdraw(c))
<1>1. HolderOf' = entries' /\ HolderOf = entries
  BY HolderIs, HolderBecomes DEF RunsInv
<1>2. /\ outcome'[c] = "released" /\ outcome[c] = "pending"
      /\ entries' = Without(entries, {c})
      /\ \A d \in Command : d # c => pc'[d] = pc[d] /\ outcome'[d] = outcome[d]
  BY DEF Release, RunsInv, TypeOK, GuardInv
<1>3. \A k \in Key : entries[k] = c => KeyOf[c] = k
  BY NoneIsNobody DEF RunsInv, GuardInv
<1>4. \A d \in Keyed : d # c => VerdictOf'[d] = VerdictOf[d]
  BY <1>2 DEF VerdictOf, Keyed
<1>5. CASE c \in Keyed
  <2>1. KeyOf[c] \in Key /\ entries[KeyOf[c]] = c
    BY <1>5, KeysAreNames DEF Keyed, RunsInv, GuardInv
  <2>2. entries' = [entries EXCEPT ![KeyOf[c]] = None]
    BY <1>2, <1>3, <2>1 DEF Without, RunsInv, TypeOK
  <2>3. VerdictOf[c] = "running" /\ VerdictOf'[c] = "withdrawn"
    BY <1>2, <1>5, VerdictIs, VerdictBecomes DEF RunsInv
  <2>4. VerdictOf' = [VerdictOf EXCEPT ![c] = "withdrawn"]
    BY <1>4, <1>5, <2>3 DEF VerdictOf
  <2>5. QED
    BY <1>1, <1>5, <2>1, <2>2, <2>3, <2>4 DEF RunOnce!Withdraw, RunOnce!Rules
<1>6. CASE c \notin Keyed
  <2>1. \A k \in Key : entries[k] # c
    BY <1>3, <1>6, NoneIsNobody DEF Keyed
  <2>2. entries' = entries
    BY <1>2, <2>1 DEF Without, RunsInv, TypeOK
  <2>3. \A d \in Keyed : outcome'[d] = outcome[d] /\ (pc'[d] \in Live <=> pc[d] \in Live)
    BY <1>2, <1>6 DEF Keyed
  <2>4. QED
    BY <2>2, <2>3, OtherSteps
<1>7. QED
  BY <1>5, <1>6

\* A command that is refused or shares a run; the guard may forget verdicts.
LEMMA KnownLapses ==
  ASSUME RunsInv, RunsInv', NEW c \in Command, pc[c] \in {"new", "transcribing"}, ClaimKnown(c)
  PROVE  RunOnce!Lapse
<1>1. /\ entries' = Without(entries, Pruned) /\ outcome' = outcome
      /\ \E x \in {"done", "reusing"} : pc' = [pc EXCEPT ![c] = x]
  BY DEF ClaimKnown
<1>2. \A d \in Command : pc'[d] \in Live <=> pc[d] \in Live
  BY <1>1 DEF Live, InTurn, RunsInv, TypeOK
<1>3. VerdictOf' = VerdictOf
  BY <1>1, <1>2 DEF VerdictOf, Keyed
<1>4. HolderOf' = RunOnce!Without(KeysOf(Pruned)) /\ RunOnce!Forget(KeysOf(Pruned))
      /\ KeysOf(Pruned) \in SUBSET Key
  BY <1>1, Forgets, PrunedAreSettled, HolderBecomes DEF RunsInv, KeysOf
<1>5. QED
  BY <1>3, <1>4 DEF RunOnce!Lapse

LEMMA CrashRestarts ==
  ASSUME RunsInv, RunsInv', Crash
  PROVE  RunOnce!Restart
<1>1. HolderOf' = [k \in Key |-> None]
  BY HolderBecomes DEF RunsInv, Crash
<1>2. /\ outcome' = outcome /\ \A c \in Command : pc'[c] \notin Live
  BY DEF Crash, Live, InTurn
<1>3. \A c \in Keyed :
        VerdictOf'[c] = IF VerdictOf[c] = "running" THEN "withdrawn" ELSE VerdictOf[c]
  BY <1>2 DEF VerdictOf, Keyed, RunsInv, GuardInv, Verdicts
<1>4. VerdictOf' = [c \in Keyed |-> IF VerdictOf[c] = "running" THEN "withdrawn" ELSE VerdictOf[c]]
  BY <1>3 DEF VerdictOf
<1>5. QED
  BY <1>1, <1>4 DEF RunOnce!Restart

LEMMA ClaimImplements ==
  ASSUME RunsInv, RunsInv', NEW c \in Command, pc[c] \in {"new", "transcribing"}, Claim(c)
  PROVE  [RunOnce!RNext]_(RunOnce!rvars)
<1>1. CASE ClaimWithoutKey(c)
  <2>1. entries' = entries /\ c \notin Keyed
        /\ \A d \in Command : d # c => pc'[d] = pc[d] /\ outcome'[d] = outcome[d]
    BY <1>1 DEF ClaimWithoutKey, Begin, Keyed, RunsInv, TypeOK
  <2>2. \A d \in Keyed : outcome'[d] = outcome[d] /\ (pc'[d] \in Live <=> pc[d] \in Live)
    BY <2>1 DEF Keyed
  <2>3. QED
    BY <2>1, <2>2, OtherSteps
<1>2. CASE ClaimFresh(c)
  <2>1. RunOnce!Own(c) /\ c \in Keyed
    BY <1>2, BeginOwns, PrunedAreSettled DEF ClaimFresh, Keyed
  <2>2. QED
    BY <2>1 DEF RunOnce!RNext
<1>3. CASE ClaimKnown(c)
  BY <1>3, KnownLapses DEF RunOnce!RNext
<1>4. QED
  BY <1>1, <1>2, <1>3 DEF Claim

LEMMA EndImplements ==
  ASSUME RunsInv, RunsInv', NEW c \in Command, pc[c] \in Live,
         NEW e \in {"aborted", "error"}, EndInError(c, e)
  PROVE  [RunOnce!RNext]_(RunOnce!rvars)
<1>1. pc' = [pc EXCEPT ![c] = "done"]
  BY DEF EndInError
<1>2. CASE IsOpen(c)
  <2>1. Settle(c, "failed") /\ "failed" \in Verdicts
    BY <1>2 DEF EndInError, Verdicts
  <2>2. QED
    BY <1>1, <2>1, SettleDecides DEF RunOnce!RNext
<1>3. CASE ~IsOpen(c)
  <2>1. Release(c)
    BY <1>3 DEF EndInError
  <2>2. QED
    BY <1>1, <2>1, ReleaseWithdraws DEF RunOnce!RNext
<1>4. QED
  BY <1>2, <1>3

\* Every step begins a run, ends one, forgets verdicts, restarts, or stutters.
LEMMA StepRunsOnce ==
  ASSUME RunsInv, RunsInv', [Next]_vars
  PROVE  [RunOnce!RNext]_(RunOnce!rvars)
<1> DEFINE Step == [RunOnce!RNext]_(RunOnce!rvars)
<1>1. ASSUME NEW c \in Command, NEW x \in Positions, pc' = [pc EXCEPT ![c] = x],
             pc[c] \in Live <=> x \in Live, UNCHANGED guardVars
      PROVE  Step
  <2>1. \A d \in Command : pc'[d] \in Live <=> pc[d] \in Live
    BY <1>1 DEF RunsInv, TypeOK
  <2>2. QED
    BY <1>1, <2>1, OtherSteps DEF guardVars, Keyed
<1>2. ASSUME UNCHANGED <<pc, guardVars>> PROVE Step
  BY <1>2, OtherSteps DEF guardVars
<1>3. ASSUME NEW c \in Command, Deliver(c) PROVE Step
  <2>1. CASE c \in Voice
    BY <1>1, <1>3, <2>1 DEF Deliver, Positions, Live, InTurn
  <2>2. CASE c \notin Voice
    BY <1>3, <2>2, ClaimImplements DEF Deliver
  <2>3. QED
    BY <2>1, <2>2
<1>4. ASSUME NEW c \in Command, Transcribed(c) PROVE Step
  BY <1>4, ClaimImplements DEF Transcribed
<1>5. ASSUME NEW c \in Command, TranscriptFails(c) \/ Reuse(c) PROVE Step
  <2>1. /\ pc[c] \in {"transcribing", "reusing"} /\ pc' = [pc EXCEPT ![c] = "done"]
        /\ UNCHANGED guardVars
    BY <1>5 DEF TranscriptFails, Reuse, Go
  <2>2. QED
    BY <1>1, <2>1 DEF Positions, Live, InTurn
<1>6. ASSUME NEW c \in Command, Attach(c) \/ Start(c) \/ Drain(c) \/ ModelCompletes(c) PROVE Step
  <2>1. /\ pc[c] \in Live /\ UNCHANGED guardVars
        /\ \E x \in Live : pc' = [pc EXCEPT ![c] = x]
    BY <1>6 DEF Attach, Start, Drain, ModelCompletes, Go, Live, InTurn
  <2>2. QED
    BY <1>1, <2>1 DEF Positions
<1>7. ASSUME NEW c \in Command, AttachFails(c) PROVE Step
  BY <1>7, EndImplements DEF AttachFails, Live
<1>8. ASSUME NEW c \in Command, ModelFails(c) PROVE Step
  BY <1>8, EndImplements DEF ModelFails, Live
<1>9. ASSUME NEW c \in Command, Finish(c) PROVE Step
  <2>1. /\ pc[c] \in Live /\ pc' = [pc EXCEPT ![c] = "done"]
        /\ Settle(c, "completed") /\ "completed" \in Verdicts
    BY <1>9 DEF Finish, Go, Live, Verdicts
  <2>2. QED
    BY <2>1, SettleDecides DEF RunOnce!RNext
<1>10. ASSUME NEW c \in Command, ChatAbort(c) PROVE Step
  BY <1>2, <1>10 DEF ChatAbort
<1>11. ASSUME Retain \/ Lose \/ Close \/ Reconnect PROVE Step
  BY <1>2, <1>11 DEF Retain, Lose, Close, Reconnect
<1>12. ASSUME Crash PROVE Step
  BY <1>12, CrashRestarts DEF RunOnce!RNext
<1>13. ASSUME UNCHANGED vars PROVE Step
  BY <1>2, <1>13 DEF vars
<1>14. QED
  BY <1>3, <1>4, <1>5, <1>6, <1>7, <1>8, <1>9, <1>10, <1>11, <1>12, <1>13 DEF Next, Handle

LEMMA StartsOnce == Init => RunOnce!RInit
<1> SUFFICES ASSUME Init PROVE RunOnce!RInit
  OBVIOUS
<1>1. HolderOf = [k \in Key |-> None]
  BY HolderIs, RunsInvStarts DEF Init, RunsInv
<1>2. VerdictOf = [c \in Keyed |-> "none"]
  BY DEF Init, VerdictOf, Keyed, Live, InTurn, Verdicts
<1>3. QED
  BY <1>1, <1>2 DEF RunOnce!RInit

\* A message that is sent again and again under one key, over any number of
\* connections, has one run at a time and none beside a remembered verdict.
THEOREM RunsOncePerKey == Spec => ImplementsRunOnce
<1>1. Init => RunOnce!RInit
  BY StartsOnce
<1>2. RunsInv /\ RunsInv' /\ [Next]_vars => [RunOnce!RNext]_(RunOnce!rvars)
  BY StepRunsOnce
<1>3. QED
  BY <1>1, <1>2, RunsInvariance, PTL DEF Spec, ImplementsRunOnce, RunOnce!RSpec

---------------------------------------------------------------------------
(* The registry of the runs that can be aborted                            *)

\* A handler's move: the registry is right about it, whatever it reports when
\* it ends.
LEMMA MoveRegistry ==
  ASSUME TypeOK, RegistryInv, NEW c \in Command, pc[c] # "done",
         NEW x \in Positions \ {"new"}, pc' = [pc EXCEPT ![c] = x],
         UNCHANGED <<connection, socket, aborted>>,
         sentOn'[c] <= connection,
         x # "done" => events'[c] = events[c], x = "transcribing" => c \in Voice,
         \A d \in Command \ {c} :
           sentOn'[d] = sentOn[d] /\ events'[d] = events[d] /\ (d \in active' <=> d \in active),
         c \in active' <=> x \in Stoppable /\ OnThisConnection(c)',
         c \notin Voice /\ x \in Stoppable => OnThisConnection(c)' \/ c \in aborted
  PROVE  RegistryInv'
<1>1. pc'[c] = x /\ \A d \in Command : d # c => pc'[d] = pc[d]
  BY Moves
<1>2. connection' > 0
  BY DEF RegistryInv
<1>3. ASSUME NEW d \in Command
      PROVE  /\ sentOn'[d] <= connection' /\ (pc'[d] = "new" => sentOn'[d] = 0)
             /\ pc'[d] = "transcribing" => d \in Voice
             /\ d \in active' <=> pc'[d] \in Stoppable /\ OnThisConnection(d)'
             /\ pc'[d] # "done" =>
                  events'[d] \subseteq {"aborted"} /\ (events'[d] # {} => d \in aborted')
             /\ d \notin Voice /\ pc'[d] \in Stoppable /\ ~OnThisConnection(d)' => d \in aborted'
  <2>1. CASE d = c
    BY <1>1, <2>1 DEF RegistryInv
  <2>2. CASE d # c
    BY <1>1, <2>2 DEF RegistryInv, AbandonedAreFired, OnThisConnection, Stoppable
  <2>3. QED
    BY <2>1, <2>2
<1>4. AbandonedAreFired'
  BY <1>3 DEF AbandonedAreFired, Stoppable
<1>5. QED
  BY <1>2, <1>3, <1>4 DEF RegistryInv

\* "aborted" is reported only of a run that has not ended, and first.
AbortStep ==
  \A c \in Command :
    "aborted" \in events'[c] \ events[c] => pc[c] \in Stoppable /\ events[c] = {}

\* A command is claimed: a run begins where the connection can stop it.
LEMMA ClaimRegistry ==
  ASSUME TypeOK, RegistryInv, NEW c \in Command, pc[c] \in {"new", "transcribing"}, Claim(c),
         sentOn'[c] <= connection, \A d \in Command \ {c} : sentOn'[d] = sentOn[d],
         c \notin Voice => sentOn'[c] = connection /\ socket = "open"
  PROVE  RegistryInv' /\ AbortStep
<1>1. UNCHANGED <<connection, socket, aborted, events>>
  BY DEF Claim, linkVars
<1>2. AbortStep
  BY <1>1 DEF AbortStep
<1>3. c \notin active
  BY DEF RegistryInv, Stoppable, Live, InTurn
<1>4. CASE Begin(c)
  <2>1. active' = IF OnThisConnection(c)' THEN active \cup {c} ELSE active
    BY <1>4 DEF Begin, Remembering
  <2>2. PICK x \in {"attaching", "queued"} : pc' = [pc EXCEPT ![c] = x]
    BY <1>4 DEF Begin
  <2>3. x \in Stoppable /\ x \in Positions \ {"new"} /\ x # "done"
    BY <2>2 DEF Stoppable, Live, Positions
  <2>4. c \notin Voice => OnThisConnection(c)'
    BY <1>1 DEF OnThisConnection
  <2>5. c \in active' <=> OnThisConnection(c)'
    BY <1>3, <2>1
  <2>6. \A d \in Command \ {c} : d \in active' <=> d \in active
    BY <2>1
  <2>7. QED
    BY <1>1, <1>2, <2>2, <2>3, <2>4, <2>5, <2>6, MoveRegistry
<1>5. CASE ClaimKnown(c)
  <2>1. active' = active
    BY <1>5 DEF ClaimKnown
  <2>2. PICK x \in {"done", "reusing"} : pc' = [pc EXCEPT ![c] = x]
    BY <1>5 DEF ClaimKnown
  <2>3. x \notin Stoppable /\ x \in Positions \ {"new"}
    BY <2>2 DEF Stoppable, Live, InTurn, Positions
  <2>4. QED
    BY <1>1, <1>2, <1>3, <2>1, <2>2, <2>3, MoveRegistry
<1>6. QED
  BY <1>4, <1>5 DEF Claim, ClaimWithoutKey, ClaimFresh

\* Moves of a run that can be stopped, and stays so.
LEMMA StoppableRegistry ==
  ASSUME TypeOK, RegistryInv, NEW c \in Command, pc[c] \in Stoppable,
         NEW x \in Stoppable, pc' = [pc EXCEPT ![c] = x],
         UNCHANGED <<connection, socket, sentOn, aborted, active, events>>
  PROVE  RegistryInv' /\ AbortStep
<1>1. x \in Positions \ {"new"} /\ x \notin {"done", "transcribing"} /\ pc[c] # "done"
  BY DEF Stoppable, Live, InTurn, Positions
<1>2. sentOn[c] <= connection /\ (c \in active <=> OnThisConnection(c))
  BY DEF RegistryInv
<1>3. c \notin Voice => OnThisConnection(c)' \/ c \in aborted
  BY DEF RegistryInv, AbandonedAreFired, OnThisConnection, Stoppable
<1>4. RegistryInv'
  BY <1>1, <1>2, <1>3, MoveRegistry DEF OnThisConnection
<1>5. QED
  BY <1>4 DEF AbortStep

\* A handler leaves the registry, or was not in it.
LEMMA LeavingRegistry ==
  ASSUME TypeOK, RegistryInv, NEW c \in Command, pc[c] # "done",
         NEW x \in {"finishing", "done"}, pc' = [pc EXCEPT ![c] = x],
         UNCHANGED <<connection, socket, sentOn, aborted>>,
         active' = active \ {c},
         \A d \in Command \ {c} : events'[d] = events[d],
         x # "done" => events'[c] = events[c],
         "aborted" \in events'[c] => pc[c] \in Stoppable \/ "aborted" \in events[c]
  PROVE  RegistryInv' /\ AbortStep
<1>1. RegistryInv'
  <2>1. sentOn[c] <= connection
    BY DEF RegistryInv
  <2>2. x \in Positions \ {"new"} /\ x \notin Stoppable /\ x # "transcribing"
    BY DEF Stoppable, Live, InTurn, Positions
  <2>3. QED
    BY <2>1, <2>2, MoveRegistry
<1>2. events[c] \subseteq {"aborted"}
  BY DEF RegistryInv
<1>3. AbortStep
  BY <1>2 DEF AbortStep
<1>4. QED
  BY <1>1, <1>3

\* The handlers' steps.
LEMMA HandleRegistry ==
  ASSUME TypeOK, RegistryInv, NEW c \in Command, Deliver(c) \/ Handle(c) \/ Drain(c)
  PROVE  RegistryInv' /\ AbortStep
<1>0. events \in [Command -> SUBSET {"aborted", "error", "final"}] /\ sentOn \in [Command -> Nat]
  BY DEF TypeOK
<1>1. CASE Deliver(c)
  <2>1. /\ pc[c] = "new" /\ socket = "open" /\ sentOn' = [sentOn EXCEPT ![c] = connection]
        /\ connection \in Nat
    BY <1>1 DEF Deliver, TypeOK
  <2>2. /\ sentOn'[c] = connection /\ sentOn'[c] <= connection
        /\ \A d \in Command \ {c} : sentOn'[d] = sentOn[d]
    BY <1>0, <2>1
  <2>3. CASE c \in Voice
    <3>1. /\ pc' = [pc EXCEPT ![c] = "transcribing"]
          /\ UNCHANGED <<connection, socket, aborted, active, events>>
      BY <1>1, <2>3 DEF Deliver, linkVars
    <3>2. /\ "transcribing" \notin Stoppable /\ "new" \notin Stoppable
          /\ "transcribing" \in Positions \ {"new"}
      BY DEF Stoppable, Live, InTurn, Positions
    <3>3. c \notin active
      BY <2>1, <3>2 DEF RegistryInv
    <3>4. RegistryInv'
      BY <2>1, <2>2, <2>3, <3>1, <3>2, <3>3, MoveRegistry
    <3>5. QED
      BY <3>1, <3>4 DEF AbortStep
  <2>4. CASE c \notin Voice
    <3>1. Claim(c)
      BY <1>1, <2>4 DEF Deliver
    <3>2. QED
      BY <2>1, <2>2, <3>1, ClaimRegistry
  <2>5. QED
    BY <2>3, <2>4
<1>2. CASE Transcribed(c)
  <2>1. /\ pc[c] = "transcribing" /\ sentOn' = sentOn /\ Claim(c)
        /\ c \in Voice /\ sentOn[c] <= connection
    BY <1>2 DEF Transcribed, RegistryInv
  <2>2. QED
    BY <2>1, ClaimRegistry
<1>3. CASE TranscriptFails(c) \/ Reuse(c)
  <2>1. /\ pc[c] \in {"transcribing", "reusing"} /\ pc' = [pc EXCEPT ![c] = "done"]
        /\ UNCHANGED <<connection, socket, sentOn, aborted, active, events>>
    BY <1>3 DEF TranscriptFails, Reuse, Go, linkVars
  <2>2. /\ c \notin active /\ pc[c] # "done"
    BY <2>1 DEF RegistryInv, Stoppable, Live, InTurn, Positions
  <2>3. active' = active \ {c}
    BY <2>1, <2>2
  <2>4. QED
    BY <2>1, <2>2, <2>3, LeavingRegistry
<1>4. CASE Attach(c) \/ Start(c) \/ Drain(c)
  <2>1. PICK x \in {"queued", "running", "draining"} :
          /\ pc[c] \in {"attaching", "queued", "running"} /\ pc' = [pc EXCEPT ![c] = x]
          /\ UNCHANGED <<connection, socket, sentOn, aborted, active, events>>
    BY <1>4 DEF Attach, Start, Drain, Go, linkVars
  <2>2. pc[c] \in Stoppable /\ x \in Stoppable
    BY <2>1 DEF Stoppable, Live, InTurn
  <2>3. QED
    BY <2>1, <2>2, StoppableRegistry
<1>5. CASE ModelCompletes(c)
  <2>1. /\ pc[c] \in InTurn /\ pc' = [pc EXCEPT ![c] = "finishing"]
        /\ active' = active \ {c}
        /\ UNCHANGED <<connection, socket, sentOn, aborted, events>>
    BY <1>5 DEF ModelCompletes, Forgetting, linkVars
  <2>2. /\ pc[c] # "done"
    BY <2>1 DEF Stoppable, Live, InTurn, Positions
  <2>3. QED
    BY <2>1, <2>2, LeavingRegistry
<1>6. CASE Finish(c)
  <2>1. /\ pc[c] = "finishing" /\ pc' = [pc EXCEPT ![c] = "done"]
        /\ events' = [events EXCEPT ![c] = @ \cup {"final"}]
        /\ UNCHANGED <<connection, socket, sentOn, aborted, active>>
    BY <1>6 DEF Finish, Go, Publish, linkVars
  <2>2. /\ c \notin active
    BY <2>1 DEF RegistryInv, Stoppable, Live, InTurn, Positions
  <2>3. active' = active \ {c}
    BY <2>1, <2>2
  <2>4. /\ \A d \in Command \ {c} : events'[d] = events[d]
        /\ "aborted" \in events'[c] => "aborted" \in events[c]
    BY <1>0, <2>1
  <2>5. QED
    BY <2>1, <2>2, <2>3, <2>4, LeavingRegistry
<1>7. CASE AttachFails(c) \/ ModelFails(c)
  <2>1. PICK e \in {"aborted", "error"} : EndInError(c, e)
    BY <1>7 DEF AttachFails, ModelFails
  <2>2. pc[c] \in Stoppable
    BY <1>7 DEF AttachFails, ModelFails, Stoppable, Live, InTurn
  <2>3. /\ pc' = [pc EXCEPT ![c] = "done"] /\ active' = active \ {c}
        /\ UNCHANGED <<connection, socket, sentOn, aborted>>
        /\ events' = [events EXCEPT ![c] = @ \cup {e}] \/ events' = events
    BY <2>1 DEF EndInError, Forgetting, Publish, linkVars
  <2>4. pc[c] # "done"
    BY <2>2 DEF Stoppable, Live, InTurn, Positions
  <2>5. \A d \in Command \ {c} : events'[d] = events[d]
    BY <1>0, <2>3
  <2>6. QED
    BY <2>2, <2>3, <2>4, <2>5, LeavingRegistry
<1>8. QED
  BY <1>1, <1>2, <1>3, <1>4, <1>5, <1>6, <1>7 DEF Handle

\* What befalls the connection and the process.
LEMMA OutsideRegistry ==
  ASSUME TypeOK, RegistryInv,
         \/ \E c \in Command : ChatAbort(c)
         \/ Retain \/ Lose \/ Close \/ Reconnect \/ Crash \/ UNCHANGED vars
  PROVE  RegistryInv' /\ AbortStep
<1>0. events \in [Command -> SUBSET {"aborted", "error", "final"}] /\ sentOn \in [Command -> Nat]
      /\ connection \in Nat /\ aborted \subseteq Command /\ active \subseteq Command
  BY DEF TypeOK
<1>1. ASSUME NEW c \in Command, ChatAbort(c)
      PROVE  RegistryInv' /\ AbortStep
  <2>1. /\ c \in active /\ c \notin aborted /\ aborted' = aborted \cup {c}
        /\ events' = [events EXCEPT ![c] = @ \cup {"aborted"}]
        /\ UNCHANGED <<connection, socket, pc, sentOn, active>>
    BY <1>1 DEF ChatAbort, Publish, linkVars
  <2>2. pc[c] \in Stoppable /\ events[c] = {}
    BY <2>1 DEF RegistryInv, Stoppable, Live, InTurn
  <2>3. AbortStep
    BY <1>0, <2>1, <2>2 DEF AbortStep
  <2>4. \A d \in Command : pc[d] # "done" =>
          events'[d] \subseteq {"aborted"} /\ (events'[d] # {} => d \in aborted')
    BY <1>0, <2>1 DEF RegistryInv
  <2>5. AbandonedAreFired'
    BY <2>1 DEF RegistryInv, AbandonedAreFired, OnThisConnection
  <2>6. QED
    BY <2>1, <2>3, <2>4, <2>5 DEF RegistryInv, OnThisConnection
<1>2. CASE Retain \/ Lose \/ UNCHANGED vars
  <2>1. /\ UNCHANGED <<connection, pc, sentOn, aborted, active, events>>
        /\ socket' = "closed" <=> socket = "closed"
    BY <1>2 DEF Retain, Lose, vars, linkVars
  <2>2. \A c \in Command : OnThisConnection(c)' <=> OnThisConnection(c)
    BY <2>1 DEF OnThisConnection
  <2>3. AbandonedAreFired'
    BY <2>1, <2>2 DEF RegistryInv, AbandonedAreFired
  <2>4. QED
    BY <2>1, <2>2, <2>3 DEF RegistryInv, AbortStep
<1>3. CASE Close
  <2>1. /\ UNCHANGED <<connection, pc, sentOn, events>> /\ socket' = "closed"
        /\ aborted' = aborted \cup active /\ active' = {}
    BY <1>3 DEF Close
  <2>2. \A c \in Command : ~OnThisConnection(c)'
    BY <2>1 DEF OnThisConnection
  <2>3. AbandonedAreFired'
    BY <2>1 DEF RegistryInv, AbandonedAreFired, Stoppable
  <2>4. QED
    BY <2>1, <2>2, <2>3 DEF RegistryInv, AbortStep
<1>4. CASE Reconnect
  <2>1. /\ UNCHANGED <<pc, sentOn, aborted, active, events>> /\ socket = "closed"
        /\ connection' = connection + 1
    BY <1>4 DEF Reconnect
  <2>2. \A c \in Command : ~OnThisConnection(c)
    BY <2>1 DEF OnThisConnection
  <2>3. \A c \in Command : sentOn[c] <= connection' /\ ~OnThisConnection(c)'
    BY <1>0, <2>1 DEF RegistryInv, OnThisConnection
  <2>4. connection' > 0
    BY <1>0, <2>1
  <2>5. AbandonedAreFired'
    BY <2>1, <2>2 DEF RegistryInv, AbandonedAreFired
  <2>6. QED
    BY <2>1, <2>2, <2>3, <2>4, <2>5 DEF RegistryInv, AbortStep
<1>5. CASE Crash
  <2>1. /\ UNCHANGED <<connection, sentOn, events>> /\ active' = {}
        /\ pc' = [c \in Command |-> IF pc[c] = "new" THEN "new" ELSE "done"]
    BY <1>5 DEF Crash
  <2>2. \A c \in Command : pc'[c] \notin Stoppable /\ pc'[c] # "transcribing"
    BY <2>1 DEF Stoppable, Live, InTurn
  <2>3. AbandonedAreFired'
    BY <2>2 DEF AbandonedAreFired, Stoppable
  <2>4. \A c \in Command : pc'[c] # "done" =>
          events'[c] \subseteq {"aborted"} /\ (events'[c] # {} => c \in aborted')
    BY <1>5, <2>1 DEF RegistryInv, Crash
  <2>5. QED
    BY <2>1, <2>2, <2>3, <2>4 DEF RegistryInv, AbortStep
<1>6. QED
  BY <1>1, <1>2, <1>3, <1>4, <1>5

LEMMA RegistryStarts == Init => RegistryInv
<1> SUFFICES ASSUME Init PROVE RegistryInv
  OBVIOUS
<1>1. /\ connection = 1 /\ active = {}
      /\ \A c \in Command : pc[c] = "new" /\ sentOn[c] = 0 /\ events[c] = {}
  BY DEF Init
<1>2. "new" \notin Stoppable
  BY DEF Stoppable, Live, InTurn
<1>3. AbandonedAreFired
  BY <1>1, <1>2 DEF AbandonedAreFired, Stoppable
<1>4. QED
  BY <1>1, <1>2, <1>3 DEF RegistryInv

LEMMA StepRegistry == TypeOK /\ RegistryInv /\ [Next]_vars => RegistryInv' /\ AbortStep
<1> SUFFICES ASSUME TypeOK, RegistryInv, [Next]_vars
             PROVE  RegistryInv' /\ AbortStep
  OBVIOUS
<1>1. ASSUME NEW c \in Command, Deliver(c) \/ Handle(c) \/ Drain(c)
      PROVE  RegistryInv' /\ AbortStep
  BY <1>1, HandleRegistry
<1>2. CASE \/ \E c \in Command : ChatAbort(c)
           \/ Retain \/ Lose \/ Close \/ Reconnect \/ Crash \/ UNCHANGED vars
  BY <1>2, OutsideRegistry
<1>3. QED
  BY <1>1, <1>2 DEF Next

\* Whatever becomes of connections, a chat run nobody can be told of any more has
\* been told to stop, in any of its stages and however many there are; slash
\* commands, whose runs hear no signal, and voice commands are not among them.
THEOREM AbandonedAreStopped == Spec => []AbandonedRunsAreAborted
<1>1. RunsInv => TypeOK
  BY DEF RunsInv
<1>2. RegistryInv => AbandonedRunsAreAborted
  BY DEF RegistryInv, AbandonedAreFired, AbandonedRunsAreAborted, Stoppable, ToldToStop
<1>3. QED
  BY <1>1, <1>2, RunsInvariance, RegistryStarts, StepRegistry, PTL DEF Spec

\* A run that has been reported finished or failed is never reported aborted.
THEOREM EndsAreFinal == Spec => NoAbortAfterEnd
<1>1. RunsInv => TypeOK
  BY DEF RunsInv
<1>2. AbortStep => \A c \in Command :
        "aborted" \in events'[c] \ events[c]
        => pc[c] \in Live \ {"finishing"} /\ events[c] = {}
  BY DEF AbortStep, Stoppable
<1>3. QED
  BY <1>1, <1>2, RunsInvariance, RegistryStarts, StepRegistry, PTL DEF Spec, NoAbortAfterEnd
=============================================================================
