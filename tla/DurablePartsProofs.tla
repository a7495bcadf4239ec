-------------------------- MODULE DurablePartsProofs --------------------------
(***************************************************************************)
(* Proofs about the parts on disk beside the journal: the lock of the      *)
(* journal, for any number of stores and cleaners that start, stop and die *)
(* at any point; the records of active runs, for any lifetimes of records  *)
(* and locks and any number of operations and crashes; the dedupe, for any *)
(* transcript that OpenClaw goes on writing; openclaw.json, the keys and   *)
(* the backups, for any commands that overlap and die.                     *)
(***************************************************************************)
EXTENDS DurableParts, FiniteSetTheorems, NaturalsInduction, WellFoundedInduction,
        SequenceTheorems, TLAPS

-----------------------------------------------------------------------------
(* The lock of the journal                                                 *)

LockPositions == Lock!InGate \cup {"new", "entering", "owning", "closing", "unlocking", "done",
"dead"}

\* Before anybody starts nobody holds anything.
LEMMA InitLockInv ==
  ASSUME Lock!Init
  PROVE  Lock!LockInv
  BY DEF Lock!Init, Lock!LockInv, Lock!TypeOK, Lock!GateIsHeld, Lock!LockIsHeld,
     Lock!JudgedRight, Lock!NothingWipedInUse,
         Lock!InGate, Lock!Using

\* What one agent's move does to the positions.
LEMMA Moves ==
  ASSUME Lock!TypeOK, NEW i \in Lock!Agent, NEW x \in LockPositions,
           agents' = [agents EXCEPT ![i] = x]
  PROVE  /\ agents' \in [Lock!Agent -> LockPositions] /\ agents'[i] = x
         /\ \A j \in Lock!Agent : j # i => agents'[j] = agents[j]
  BY DEF Lock!TypeOK, LockPositions

\* A lock found stale stays so while others move: the dead do not come back.
LEMMA StaleStays ==
  ASSUME Lock!TypeOK, NEW i \in Lock!Agent, NEW x \in LockPositions,
           agents' = [agents EXCEPT ![i] = x],
         agents[i] # "dead", UNCHANGED <<lock, written>>, Lock!LockIsStale
  PROVE  Lock!LockIsStale'
<1>1. lock \in Lock!Agent /\ lock # i
  BY DEF Lock!LockIsStale, Lock!Alive, Lock!TypeOK, Lock!Agent
<1>2. QED
  BY <1>1, Moves DEF Lock!LockIsStale, Lock!Alive

\* Moves that leave the lock alone.
LEMMA LookingKeeps ==
  ASSUME Lock!LockInv, NEW i \in Lock!Agent, NEW x \in LockPositions,
           agents' = [agents EXCEPT ![i] = x],
         agents[i] # "dead", UNCHANGED <<lock, written, wiped>>, directory' \in BOOLEAN,
         \/ gate' = gate /\ (x \in Lock!InGate => agents[i] \in Lock!InGate)
         \/ gate = Nobody /\ gate' = i
         \/ agents[i] \in Lock!InGate /\ gate' = Nobody /\ x \notin Lock!InGate,
         x \in Lock!Using => agents[i] \in Lock!Using,
         x = "unlocking" => lock = i /\ written,
         x # "writing",
         x = "repairing" => Lock!LockIsStale,
         x = "wiping" => lock = Nobody \/ Lock!LockIsStale
  PROVE  Lock!LockInv'
<1>1. /\ agents' \in [Lock!Agent -> LockPositions] /\ agents'[i] = x
      /\ \A j \in Lock!Agent : j # i => agents'[j] = agents[j]
  BY Moves DEF Lock!LockInv
<1>2. Lock!TypeOK'
  BY <1>1 DEF Lock!LockInv, Lock!TypeOK, LockPositions
<1>3. Lock!GateIsHeld'
  <2>1. \A j \in Lock!Agent : agents[j] \in Lock!InGate => gate = j
    BY DEF Lock!LockInv, Lock!GateIsHeld
  <2>2. \A j \in Lock!Agent : j # Nobody
    BY NobodyIsNone DEF Lock!Agent
  <2>3. QED
    BY <1>1, <2>1, <2>2 DEF Lock!GateIsHeld
<1>4. Lock!LockIsHeld'
  BY <1>1 DEF Lock!LockInv, Lock!LockIsHeld
<1>5. Lock!JudgedRight'
  <2>1. Lock!LockIsStale => Lock!LockIsStale'
    BY StaleStays DEF Lock!LockInv
  <2>2. QED
    BY <1>1, <2>1 DEF Lock!LockInv, Lock!JudgedRight
<1>6. QED
  BY <1>2, <1>3, <1>4, <1>5 DEF Lock!LockInv, Lock!NothingWipedInUse

\* Moves within the gate that change the lock, which nobody else uses.
LEMMA LockingKeeps ==
  ASSUME Lock!LockInv, NEW i \in Lock!Agent, NEW x \in LockPositions,
           agents' = [agents EXCEPT ![i] = x],
         agents[i] \in Lock!InGate, x \in Lock!InGate \ {"repairing", "wiping"},
         UNCHANGED <<gate, wiped>>, directory' \in BOOLEAN,
         lock' \in Instance \cup {Nobody}, written' \in BOOLEAN,
         \A j \in Lock!Agent : j # i => agents[j] \notin Lock!Using \cup {"writing", "unlocking"},
         x \in Lock!Using \cup {"writing"} => lock' = i,
         x \in Lock!Using => written'
  PROVE  Lock!LockInv'
<1>1. /\ agents' \in [Lock!Agent -> LockPositions] /\ agents'[i] = x
      /\ \A j \in Lock!Agent : j # i => agents'[j] = agents[j]
  BY Moves DEF Lock!LockInv
<1>2. Lock!TypeOK'
  BY <1>1 DEF Lock!LockInv, Lock!TypeOK, LockPositions
<1>3. Lock!GateIsHeld'
  BY <1>1 DEF Lock!LockInv, Lock!GateIsHeld
<1>4. Lock!LockIsHeld'
  BY <1>1 DEF Lock!LockIsHeld, Lock!InGate
<1>5. Lock!JudgedRight'
  BY <1>1 DEF Lock!JudgedRight, Lock!LockInv, Lock!GateIsHeld, Lock!InGate
<1>6. QED
  BY <1>2, <1>3, <1>4, <1>5 DEF Lock!LockInv, Lock!NothingWipedInUse

\* Moves that change nothing but a position.
LEMMA MovingKeeps ==
  ASSUME Lock!LockInv, NEW i \in Lock!Agent,
           NEW x \in LockPositions \ (Lock!Using \cup {"writing"}),
         agents' = [agents EXCEPT ![i] = x], agents[i] # "dead",
         x \in Lock!InGate => agents[i] \in Lock!InGate,
         UNCHANGED <<gate, lock, written, wiped>>, directory' \in BOOLEAN,
         x = "unlocking" => lock = i /\ written,
         x = "repairing" => Lock!LockIsStale,
         x = "wiping" => lock = Nobody \/ Lock!LockIsStale
  PROVE  Lock!LockInv'
  BY LookingKeeps

\* Whoever relies on the lock is alive and named by it.
LEMMA NoHolder ==
  ASSUME Lock!LockInv, NEW i, lock = Nobody \/ Lock!LockIsStale \/ lock = i
  PROVE  \A j \in Lock!Agent : j # i => agents[j] \notin Lock!Using \cup {"writing", "unlocking"}
<1>1. \A j \in Lock!Agent : j # Nobody
  BY NobodyIsNone DEF Lock!Agent
<1>2. QED
  BY <1>1 DEF Lock!LockInv, Lock!LockIsHeld, Lock!LockIsStale, Lock!Alive, Lock!Using

\* close() removes a lock that names this store, so nobody else is using it.
LEMMA RemoveOwnLockKeeps ==
  ASSUME Lock!LockInv, NEW i \in Instance, Lock!RemoveOwnLock(i)
  PROVE  Lock!LockInv'
<1>1. /\ agents[i] = "unlocking" /\ agents' = [agents EXCEPT ![i] = "done"]
      /\ lock' = Nobody /\ written' = FALSE /\ UNCHANGED <<gate, directory, wiped>>
  BY DEF Lock!RemoveOwnLock, Lock!Go
<1>2. i \in Lock!Agent /\ "done" \in LockPositions
  BY DEF Lock!Agent, LockPositions
<1>3. /\ agents' \in [Lock!Agent -> LockPositions] /\ agents'[i] = "done"
      /\ \A j \in Lock!Agent : j # i => agents'[j] = agents[j]
  BY <1>1, <1>2, Moves DEF Lock!LockInv
<1>4. lock = i
  BY <1>1, <1>2 DEF Lock!LockInv, Lock!LockIsHeld
<1>5. \A j \in Lock!Agent : j # i => agents[j] \notin Lock!Using \cup {"writing", "unlocking"}
  BY <1>4, NoHolder
<1>6. ~Lock!LockIsStale
  BY <1>1, <1>4 DEF Lock!LockIsStale, Lock!Alive
<1>7. Lock!TypeOK'
  BY <1>1, <1>3 DEF Lock!LockInv, Lock!TypeOK, LockPositions
<1>8. Lock!GateIsHeld'
  BY <1>1, <1>3 DEF Lock!LockInv, Lock!GateIsHeld, Lock!InGate
<1>9. Lock!LockIsHeld'
  BY <1>3, <1>5 DEF Lock!LockIsHeld, Lock!Using
<1>10. Lock!JudgedRight'
  BY <1>1, <1>3, <1>6 DEF Lock!LockInv, Lock!JudgedRight
<1>11. QED
  BY <1>1, <1>7, <1>8, <1>9, <1>10 DEF Lock!LockInv, Lock!NothingWipedInUse

\* clear() removes everything under a lock that is stale or absent: nobody works.
LEMMA WipeKeeps ==
  ASSUME Lock!LockInv, NEW c \in Cleaner, Lock!Wipe(c)
  PROVE  Lock!LockInv'
<1>1. /\ agents[c] = "wiping" /\ agents' = [agents EXCEPT ![c] = "failing"]
      /\ lock' = Nobody /\ written' = FALSE /\ directory' = FALSE
      /\ wiped' = wiped \cup Lock!Writers /\ UNCHANGED gate
  BY DEF Lock!Wipe, Lock!Go
<1>2. c \in Lock!Agent /\ "failing" \in LockPositions /\ c \notin Instance
  BY Disjoint DEF Lock!Agent, LockPositions, Lock!InGate
<1>3. lock = Nobody \/ Lock!LockIsStale
  BY <1>1, <1>2 DEF Lock!LockInv, Lock!JudgedRight
<1>4. \A j \in Lock!Agent : j # c => agents[j] \notin Lock!Using \cup {"writing", "unlocking"}
  BY <1>3, NoHolder
<1>5. UNCHANGED wiped
  BY <1>1, <1>2, <1>4 DEF Lock!Writers, Lock!Agent
<1>6. QED
  BY <1>1, <1>2, <1>4, <1>5, LockingKeeps DEF Lock!InGate, Lock!Using

\* The steps of a store up to its close().
LEMMA InstanceKeeps ==
  ASSUME Lock!LockInv, NEW i \in Instance,
         \/ Lock!MakeDirectory(i) \/ Lock!CheckLock(i) \/ Lock!RepairLock(i) \/ Lock!CreateLock(i)
         \/ Lock!WriteLock(i) \/ Lock!WriteLockFails(i) \/ Lock!OpenJournal(i)
         \/ Lock!Close(i) \/ Lock!ReadOwnLock(i)
  PROVE  Lock!LockInv'
<1>1. i \in Lock!Agent
  BY DEF Lock!Agent
<1>2. CASE Lock!MakeDirectory(i)
  <2>1. /\ agents[i] = "new" /\ agents' = [agents EXCEPT ![i] = "entering"]
        /\ directory' \in BOOLEAN
        /\ UNCHANGED <<gate, lock, written, wiped>>
    BY <1>2 DEF Lock!MakeDirectory, Lock!Go
  <2>2. /\ "entering" \in LockPositions \ (Lock!Using \cup {"writing"})
        /\ "entering" \notin Lock!InGate
    BY DEF LockPositions, Lock!Using, Lock!InGate
  <2>3. QED
    BY <1>1, <2>1, <2>2, MovingKeeps
<1>3. CASE Lock!CheckLock(i)
  <2> DEFINE x == IF lock = Nobody THEN "creating"
                  ELSE IF Lock!LockIsStale THEN "repairing" ELSE "failing"
  <2>1. /\ agents[i] = "checking" /\ agents' = [agents EXCEPT ![i] = x]
        /\ UNCHANGED <<gate, lock, written, directory, wiped>>
    BY <1>3 DEF Lock!CheckLock
  <2>2. directory' \in BOOLEAN /\ "checking" \in Lock!InGate
    BY <2>1 DEF Lock!LockInv, Lock!TypeOK, Lock!InGate
  <2>3. /\ x \in LockPositions \ (Lock!Using \cup {"writing"})
        /\ x = "repairing" => Lock!LockIsStale
        /\ x # "unlocking" /\ x # "wiping"
    BY DEF LockPositions, Lock!Using, Lock!InGate
  <2> HIDE DEF x
  <2>4. QED
    BY <1>1, <2>1, <2>2, <2>3, MovingKeeps
<1>4. CASE Lock!RepairLock(i)
  <2>1. Lock!LockIsStale
    BY <1>1, <1>4 DEF Lock!RepairLock, Lock!Go, Lock!LockInv, Lock!JudgedRight
  <2>2. \A j \in Lock!Agent : j # i => agents[j] \notin Lock!Using \cup {"writing", "unlocking"}
    BY <2>1, NoHolder
  <2>3. directory' \in BOOLEAN
    BY <1>4 DEF Lock!RepairLock, Lock!LockInv, Lock!TypeOK
  <2>4. QED
    BY <1>1, <1>4, <2>2, <2>3, LockingKeeps DEF Lock!RepairLock, Lock!Go, LockPositions,
       Lock!InGate, Lock!Using
<1>5. CASE Lock!CreateLock(i)
  <2>1. directory' \in BOOLEAN
    BY <1>5 DEF Lock!CreateLock, Lock!LockInv, Lock!TypeOK
  <2>2. CASE lock = Nobody /\ directory
    <3>1. \A j \in Lock!Agent : j # i => agents[j] \notin Lock!Using \cup {"writing", "unlocking"}
      BY <2>2, NoHolder
    <3>2. QED
      BY <1>1, <1>5, <2>1, <2>2, <3>1, LockingKeeps DEF Lock!CreateLock, LockPositions,
         Lock!InGate, Lock!Using
  <2>3. CASE ~(lock = Nobody /\ directory)
    BY <1>1, <1>5, <2>1, <2>3, LookingKeeps DEF Lock!CreateLock, LockPositions, Lock!InGate,
       Lock!Using
  <2>4. QED
    BY <2>2, <2>3
<1>6. CASE Lock!WriteLock(i) \/ Lock!WriteLockFails(i)
  <2>1. lock = i
    BY <1>1, <1>6 DEF Lock!WriteLock, Lock!WriteLockFails, Lock!Go, Lock!LockInv, Lock!LockIsHeld
  <2>2. \A j \in Lock!Agent : j # i => agents[j] \notin Lock!Using \cup {"writing", "unlocking"}
    BY <2>1, NoHolder
  <2>3. directory' \in BOOLEAN
    BY <1>6 DEF Lock!WriteLock, Lock!WriteLockFails, Lock!LockInv, Lock!TypeOK
  <2>4. CASE Lock!WriteLock(i)
    BY <1>1, <2>1, <2>2, <2>3, <2>4, LockingKeeps DEF Lock!WriteLock, Lock!Go, LockPositions,
       Lock!InGate, Lock!Using
  <2>5. CASE Lock!WriteLockFails(i)
    BY <1>1, <2>1, <2>2, <2>3, <2>5, LockingKeeps DEF Lock!WriteLockFails, Lock!Go,
       LockPositions, Lock!InGate, Lock!Using
  <2>6. QED
    BY <1>6, <2>4, <2>5
<1>7. CASE Lock!OpenJournal(i) \/ Lock!Close(i)
  <2>1. directory' \in BOOLEAN
    BY <1>7 DEF Lock!OpenJournal, Lock!Close, Lock!LockInv, Lock!TypeOK
  <2>2. QED
    BY <1>1, <1>7, <2>1, LookingKeeps DEF Lock!OpenJournal, Lock!Close, Lock!Go, LockPositions,
       Lock!InGate, Lock!Using
<1>8. CASE Lock!ReadOwnLock(i)
  <2> DEFINE x == IF lock = i /\ written THEN "unlocking" ELSE "done"
  <2>1. /\ agents[i] = "closing" /\ agents' = [agents EXCEPT ![i] = x]
        /\ UNCHANGED <<gate, lock, written, directory, wiped>>
    BY <1>8 DEF Lock!ReadOwnLock
  <2>2. directory' \in BOOLEAN
    BY <2>1 DEF Lock!LockInv, Lock!TypeOK
  <2>3. /\ x \in LockPositions \ (Lock!Using \cup {"writing"}) /\ x \notin Lock!InGate
        /\ x = "unlocking" => lock = i /\ written
        /\ x # "repairing" /\ x # "wiping"
    BY DEF LockPositions, Lock!Using, Lock!InGate
  <2> HIDE DEF x
  <2>4. QED
    BY <1>1, <2>1, <2>2, <2>3, MovingKeeps
<1>9. QED
  BY <1>2, <1>3, <1>4, <1>5, <1>6, <1>7, <1>8

\* Entering and leaving the gate, and dying, for stores and cleaners alike.
LEMMA AgentKeeps ==
  ASSUME Lock!LockInv, NEW i \in Lock!Agent, Lock!EnterGate(i) \/ Lock!LeaveGate(i) \/ Lock!Die(i)
  PROVE  Lock!LockInv'
<1>1. directory' \in BOOLEAN
  BY DEF Lock!EnterGate, Lock!LeaveGate, Lock!Die, Lock!LockInv, Lock!TypeOK
<1>2. CASE Lock!EnterGate(i)
  <2>1. CASE gate = Nobody
    BY <1>1, <1>2, <2>1, LookingKeeps DEF Lock!EnterGate, LockPositions, Lock!InGate, Lock!Using
  <2>2. CASE gate # Nobody /\ i \in Instance
    BY <1>1, <1>2, <2>2, LookingKeeps DEF Lock!EnterGate, LockPositions, Lock!InGate, Lock!Using
  <2>3. CASE gate # Nobody /\ i \notin Instance
    BY <1>1, <1>2, <2>3, LookingKeeps DEF Lock!EnterGate, LockPositions, Lock!InGate, Lock!Using
  <2>4. QED
    BY <2>1, <2>2, <2>3
<1>3. CASE Lock!LeaveGate(i)
  BY <1>1, <1>3, LookingKeeps DEF Lock!LeaveGate, Lock!Go, LockPositions, Lock!InGate, Lock!Using
<1>4. CASE Lock!Die(i)
  BY <1>1, <1>4, LookingKeeps DEF Lock!Die, LockPositions, Lock!InGate, Lock!Using
<1>5. QED
  BY <1>2, <1>3, <1>4

\* clear() goes on only past locks that are stale.
LEMMA CheckAllLocksKeeps ==
  ASSUME Lock!LockInv, NEW c \in Cleaner, Lock!CheckAllLocks(c)
  PROVE  Lock!LockInv'
<1> DEFINE x == IF directory /\ (lock = Nobody \/ Lock!LockIsStale) THEN "wiping" ELSE "failing"
<1>1. /\ c \in Lock!Agent /\ agents[c] = "checking" /\ agents' = [agents EXCEPT ![c] = x]
      /\ UNCHANGED <<gate, lock, written, directory, wiped>>
  BY DEF Lock!CheckAllLocks, Lock!Agent
<1>2. directory' \in BOOLEAN /\ "checking" \in Lock!InGate
  BY <1>1 DEF Lock!LockInv, Lock!TypeOK, Lock!InGate
<1>3. /\ x \in LockPositions \ (Lock!Using \cup {"writing"})
      /\ x = "wiping" => lock = Nobody \/ Lock!LockIsStale
      /\ x # "unlocking" /\ x # "repairing"
  BY DEF LockPositions, Lock!Using, Lock!InGate
<1> HIDE DEF x
<1>4. QED
  BY <1>1, <1>2, <1>3, MovingKeeps

\* Every step keeps the invariant.
LEMMA NextKeepsLockInv ==
  ASSUME Lock!LockInv, [Lock!Next]_(Lock!vars)
  PROVE  Lock!LockInv'
<1>1. Instance \subseteq Lock!Agent /\ Cleaner \subseteq Lock!Agent
  BY DEF Lock!Agent
<1>2. CASE UNCHANGED Lock!vars
  BY <1>2 DEF Lock!vars, Lock!LockInv, Lock!TypeOK, Lock!GateIsHeld, Lock!LockIsHeld,
     Lock!JudgedRight, Lock!NothingWipedInUse, Lock!LockIsStale, Lock!Alive
<1>3. CASE Lock!Next
  BY <1>1, <1>3, InstanceKeeps, AgentKeeps, RemoveOwnLockKeeps, CheckAllLocksKeeps, WipeKeeps
     DEF Lock!Next
<1>4. QED
  BY <1>2, <1>3

-----------------------------------------------------------------------------
(* The records of active runs: as long as no lock is taken from a process  *)
(* that still runs, the two processes exclude each other, and the record   *)
(* of a run is what the manager's operations made of it.                   *)

Op == {"record", "provider", "terminal", "clear"}
Run == [state : {"active", "terminal"}, provider : BOOLEAN, exp : Int]
MaybeRun == Run \cup {Absent}
Request == [op : Op, now : Int]
Process(positions) == [pc : positions, now : Int, seen : MaybeRun]

MPositions == {"idle", "lock", "read", "write", "unlock"}
SPositions == {"idle", "lock", "read", "unlink", "unlock"}

Types ==
  /\ clock \in Int /\ record \in MaybeRun /\ recorded \in MaybeRun
  /\ recordLock \in [by : {"m", "s"}, at : Int] \cup {Absent}
  /\ queue \in Seq(Request)
  /\ m \in Process(MPositions) /\ s \in Process(SPositions)
  /\ robbed \in BOOLEAN

\* The processes inside withRecordLock.
MWorks == m.pc \in {"read", "write", "unlock"}
SWorks == s.pc \in {"read", "unlink", "unlock"}

\* An operation that has begun is the first of the queue, and both processes
\* took the time before now.
Clocks ==
  /\ m.pc # "idle" => queue # <<>>
  /\ 0 <= clock /\ s.now <= clock

\* Who works is named in the lock.
Exclusion ==
  ~robbed => /\ MWorks => recordLock # Absent /\ recordLock.by = "m"
             /\ SWorks => recordLock # Absent /\ recordLock.by = "s"

\* A record r is what the finished operations amount to, as far as anything is
\* promised.
Holds(r) == recorded = Absent \/ clock >= recorded.exp \/ r = recorded

\* The record is as the finished operations left it; in an operation, what it
\* read is the record, and what it writes is made of that.
RecordHolds ==
  ~robbed =>
    /\ m.pc # "unlock" => Holds(record)
    /\ m.pc = "write" /\ Head(queue).op # "record" => m.seen = record
    /\ m.pc = "unlock" =>
         /\ Head(queue).op # "record" => Holds(m.seen)
         /\ record = Records!Result(Head(queue).op, m.now, m.seen)

\* What is about to be removed has expired.
OnlyExpiredGoes == ~robbed /\ s.pc = "unlink" => record # Absent /\ Records!Expired(record, s.now)

RecordsInv == Types /\ Clocks /\ Exclusion /\ RecordHolds /\ OnlyExpiredGoes

\* Absent is neither a record nor the content of a lock.
AbsentIsNothing == Absent \notin Run /\ Absent \notin [by : {"m", "s"}, at : Int]

\* What an operation makes of a record is a record.
LEMMA ResultType ==
  ASSUME TTL \in Int, Grace \in Int, NEW o \in Op, NEW now \in Int, NEW run \in MaybeRun
  PROVE  Records!Result(o, now, run) \in MaybeRun
<1>1. Records!Recorded(now) \in Run
  BY DEF Records!Recorded, Run
<1>2. CASE run = Absent
  BY <1>1, <1>2 DEF Records!Result, MaybeRun
<1>3. CASE run # Absent
  <2>1. run \in Run /\ now + Grace \in Int
    BY <1>3 DEF MaybeRun
  <2>2. [run EXCEPT !.provider = TRUE] \in Run
    BY <2>1 DEF Run
  <2>3. [run EXCEPT !.state = "terminal", !.exp = now + Grace] \in Run
    BY <2>1 DEF Run
  <2>4. QED
    BY <1>1, <2>2, <2>3 DEF Records!Result, MaybeRun
<1>4. QED
  BY <1>2, <1>3

\* An operation that is done makes of the promise what it made of the record.
LEMMA ResultHolds ==
  ASSUME NEW o \in Op, NEW now, NEW run, o # "record" => Holds(run), recorded \in MaybeRun,
         clock \in Int
  PROVE  LET k == Records!Result(o, now, IF recorded = Absent \/ Records!Expired(recorded,
  clock) THEN Absent ELSE recorded)
         IN  k = Absent \/ Records!Result(o, now, run) = k
<1>1. CASE o = "record"
  BY <1>1 DEF Records!Result
<1>2. CASE o # "record" /\ (recorded = Absent \/ Records!Expired(recorded, clock))
  BY <1>2 DEF Records!Result
<1>3. CASE o # "record" /\ recorded # Absent /\ ~Records!Expired(recorded, clock)
  <2>1. run = recorded
    BY <1>3 DEF Holds, Records!Expired, MaybeRun, Run
  <2>2. QED
    BY <1>3, <2>1
<1>4. QED
  BY <1>1, <1>2, <1>3

\* The first request is one of the requests.
LEMMA HeadIsRequest ==
  ASSUME RecordsInv, m.pc # "idle"
  PROVE  Head(queue).op \in Op /\ Head(queue).now \in Int /\ Tail(queue) \in Seq(Request)
<1>1. queue \in Seq(Request) /\ queue # <<>>
  BY DEF RecordsInv, Types, Clocks
<1>2. Head(queue) \in Request /\ Tail(queue) \in Seq(Request)
  BY <1>1, HeadTailProperties
<1>3. QED
  BY <1>2 DEF Request

\* At first there is neither a record nor a lock.
LEMMA InitRecords ==
  ASSUME Records!Init
  PROVE  RecordsInv
<1>1. Records!Idle \in Process(MPositions) /\ Records!Idle \in Process(SPositions)
  BY DEF Records!Idle, Process, MPositions, SPositions, MaybeRun
<1>2. Types
  <2>1. queue \in Seq(Request)
    BY DEF Records!Init
  <2>2. clock \in Int /\ record \in MaybeRun /\ recorded \in MaybeRun
    BY DEF Records!Init, MaybeRun
  <2>3. m \in Process(MPositions) /\ s \in Process(SPositions)
    BY <1>1 DEF Records!Init
  <2>4. recordLock \in [by : {"m", "s"}, at : Int] \cup {Absent}
    BY DEF Records!Init
  <2>5. robbed \in BOOLEAN
    BY DEF Records!Init
  <2>6. QED
    BY <2>1, <2>2, <2>3, <2>4, <2>5 DEF Types
<1>3. QED
  BY <1>2 DEF Records!Init, Records!Idle, RecordsInv, Clocks, Exclusion, MWorks, SWorks,
     RecordHolds, Holds,
     OnlyExpiredGoes

\* Time passes, and operations are asked for.
LEMMA TickAskKeep ==
  ASSUME RecordsInv, Records!Tick \/ \E o \in Op : Records!Ask(o)
  PROVE  RecordsInv'
<1>1. CASE Records!Tick
  <2>1. Holds(record) => Holds(record)'
    BY <1>1 DEF Records!Tick, Holds, RecordsInv, Types, MaybeRun, Run
  <2>2. Holds(m.seen) => Holds(m.seen)'
    BY <1>1 DEF Records!Tick, Holds, RecordsInv, Types, MaybeRun, Run
  <2>3. Types' /\ Clocks'
    BY <1>1 DEF Records!Tick, RecordsInv, Types, Clocks, Process
  <2>4. RecordHolds'
    BY <1>1, <2>1, <2>2 DEF Records!Tick, RecordsInv, RecordHolds, Records!Result,
       Records!Expired, Records!Recorded
  <2>5. QED
    BY <1>1, <2>3, <2>4 DEF Records!Tick, RecordsInv, Exclusion, MWorks, SWorks, OnlyExpiredGoes,
       Records!Expired
<1>2. ASSUME NEW o \in Op, Records!Ask(o)
      PROVE  RecordsInv'
  <2>1. queue \in Seq(Request) /\ [op |-> o, now |-> clock] \in Request
    BY DEF RecordsInv, Types, Request
  <2>2. queue' \in Seq(Request) /\ queue' # <<>> /\ (queue # <<>> => Head(queue') = Head(queue))
    BY <1>2, <2>1, AppendProperties, HeadTailAppend DEF Records!Ask
  <2>3. m.pc # "idle" => Head(queue') = Head(queue)
    BY <2>2 DEF RecordsInv, Clocks
  <2>4. Types' /\ Clocks'
    BY <1>2, <2>2 DEF Records!Ask, RecordsInv, Types, Clocks
  <2>5. RecordHolds'
    BY <1>2, <2>3 DEF Records!Ask, RecordsInv, RecordHolds, Holds, Records!Result,
       Records!Expired, Records!Recorded
  <2>6. QED
    BY <1>2, <2>4, <2>5 DEF Records!Ask, RecordsInv, Exclusion, MWorks, SWorks, OnlyExpiredGoes,
       Records!Expired
<1>3. QED
  BY <1>1, <1>2

\* An old lock is removed.
LEMMA RemoveOldLockKeeps ==
  ASSUME RecordsInv, Records!RemoveOldLock
  PROVE  RecordsInv'
<1>1. Types'
  BY DEF Records!RemoveOldLock, RecordsInv, Types
<1>2. ~robbed' => ~robbed /\ ~MWorks /\ ~SWorks
  BY DEF Records!RemoveOldLock, RecordsInv, Types, Exclusion, MWorks, SWorks
<1>3. Exclusion'
  BY <1>2 DEF Records!RemoveOldLock, Exclusion, MWorks, SWorks
<1>4. RecordHolds'
  BY <1>2 DEF Records!RemoveOldLock, RecordsInv, RecordHolds, Holds, Records!Result,
     Records!Expired, Records!Recorded
<1>5. QED
  BY <1>1, <1>2, <1>3, <1>4 DEF Records!RemoveOldLock, RecordsInv, Clocks, OnlyExpiredGoes,
     Records!Expired

\* The manager's operation up to the time it writes.
LEMMA ReadingKeeps ==
  ASSUME RecordsInv, Records!Begin \/ Records!MLock \/ Records!MTimeout \/ Records!MRead,
           AbsentIsNothing
  PROVE  RecordsInv'
<1>1. CASE Records!Begin
  <2>1. Head(queue) \in Request
    BY <1>1, HeadTailProperties DEF Records!Begin, RecordsInv, Types
  <2>2. m' \in Process(MPositions)
    BY <1>1, <2>1 DEF Records!Begin, Request, Process, MPositions, MaybeRun
  <2>3. QED
    BY <1>1, <2>2 DEF Records!Begin, RecordsInv, Types, Clocks, Exclusion, MWorks, SWorks,
       RecordHolds,
       Holds, OnlyExpiredGoes, Records!Expired
<1>2. CASE Records!MLock
  <2>1. m' \in Process(MPositions) /\ m'.pc \in {"read", "write"}
        /\ (m'.pc = "write" => Head(queue).op = "record")
    BY <1>2 DEF Records!MLock, RecordsInv, Types, Process, MPositions
  <2>2. recordLock' \in [by : {"m", "s"}, at : Int] /\ recordLock'.by = "m" /\ robbed' = robbed
    BY <1>2 DEF Records!MLock, Records!TakeLock, RecordsInv, Types
  <2>3. ~robbed => ~SWorks
    BY <1>2 DEF Records!MLock, Records!TakeLock, RecordsInv, Exclusion
  <2>4. Types' /\ Clocks'
    BY <1>2, <2>1, <2>2 DEF Records!MLock, RecordsInv, Types, Clocks
  <2>5. Exclusion'
    BY <1>2, <2>2, <2>3 DEF Records!MLock, AbsentIsNothing, Exclusion, MWorks, SWorks
  <2>6. RecordHolds'
    BY <1>2, <2>1, <2>2 DEF Records!MLock, RecordsInv, RecordHolds, Holds
  <2>7. QED
    BY <1>2, <2>2, <2>4, <2>5, <2>6 DEF Records!MLock, RecordsInv, OnlyExpiredGoes,
       Records!Expired
<1>3. CASE Records!MTimeout
  <2>1. Tail(queue) \in Seq(Request)
    BY <1>3, HeadIsRequest DEF Records!MTimeout
  <2>2. m' \in Process(MPositions) /\ m'.pc = "idle"
    BY <1>3 DEF Records!MTimeout, Records!Idle, Process, MPositions, MaybeRun
  <2>3. QED
    BY <1>3, <2>1, <2>2 DEF Records!MTimeout, RecordsInv, Types, Clocks, Exclusion, MWorks,
       SWorks,
       RecordHolds, Holds, OnlyExpiredGoes, Records!Expired
<1>4. CASE Records!MRead
  <2>1. m' \in Process(MPositions) /\ m'.pc = "write" /\ m'.seen = record
    BY <1>4 DEF Records!MRead, RecordsInv, Types, Process, MPositions
  <2>2. QED
    BY <1>4, <2>1 DEF Records!MRead, RecordsInv, Types, Clocks, Exclusion, MWorks, SWorks,
       RecordHolds, Holds, OnlyExpiredGoes, Records!Expired
<1>5. QED
  BY <1>1, <1>2, <1>3, <1>4

\* The manager's operation writes and lets go of the lock, or dies.
LEMMA WritingKeeps ==
  ASSUME RecordsInv, Records!MWrite \/ Records!MUnlock \/ Records!Crash, TTL \in Int,
           Grace \in Int, AbsentIsNothing
  PROVE  RecordsInv'
<1>1. CASE Records!MWrite
  <2>1. /\ Head(queue).op \in Op /\ m.now \in Int /\ m.seen \in MaybeRun
    BY <1>1, HeadIsRequest DEF Records!MWrite, RecordsInv, Types, Process
  <2>2. record' \in MaybeRun
    BY <1>1, <2>1, ResultType DEF Records!MWrite
  <2>3. m' \in Process(MPositions) /\ m'.pc = "unlock" /\ m'.seen = m.seen /\ m'.now = m.now
    BY <1>1 DEF Records!MWrite, RecordsInv, Types, Process, MPositions
  <2>4. Types' /\ Clocks' /\ Exclusion'
    BY <1>1, <2>2, <2>3 DEF Records!MWrite, RecordsInv, Types, Clocks, Exclusion, MWorks, SWorks
  <2>5. ~robbed => s.pc # "unlink"
    BY <1>1 DEF Records!MWrite, RecordsInv, Exclusion, MWorks, SWorks
  <2>6. ~robbed /\ Head(queue).op # "record" => Holds(m.seen)
    BY <1>1 DEF Records!MWrite, RecordsInv, RecordHolds
  <2>7. RecordHolds'
    BY <1>1, <2>3, <2>6 DEF Records!MWrite, RecordHolds, Holds, Records!Result, Records!Expired,
       Records!Recorded
  <2>8. QED
    BY <1>1, <2>4, <2>5, <2>7 DEF Records!MWrite, RecordsInv, OnlyExpiredGoes
<1>2. CASE Records!MUnlock
  <2>1. /\ Head(queue).op \in Op /\ Tail(queue) \in Seq(Request) /\ m.now \in Int
        /\ recorded \in MaybeRun /\ clock \in Int
    BY <1>2, HeadIsRequest DEF Records!MUnlock, RecordsInv, Types, Process
  <2>2. recorded' \in MaybeRun
    BY <1>2, <2>1, ResultType DEF Records!MUnlock, MaybeRun
  <2>3. m' \in Process(MPositions) /\ m'.pc = "idle"
    BY <1>2 DEF Records!MUnlock, Records!Idle, Process, MPositions, MaybeRun
  <2>4. ~robbed => recorded' = Absent \/ record = recorded'
    <3>1. SUFFICES ASSUME ~robbed PROVE recorded' = Absent \/ record = recorded'
      OBVIOUS
    <3>2. /\ Head(queue).op # "record" => Holds(m.seen)
          /\ record = Records!Result(Head(queue).op, m.now, m.seen)
      BY <1>2, <3>1 DEF Records!MUnlock, RecordsInv, RecordHolds
    <3>3. QED
      BY <1>2, <2>1, <3>2, ResultHolds DEF Records!MUnlock
  <2>5. ~robbed => ~SWorks
    BY <1>2 DEF Records!MUnlock, RecordsInv, Exclusion, MWorks, SWorks
  <2>6. QED
    BY <1>2, <2>1, <2>2, <2>3, <2>4, <2>5 DEF Records!MUnlock, Records!Release, RecordsInv,
       Types, Clocks,
       Exclusion, MWorks, SWorks, RecordHolds, Holds, OnlyExpiredGoes
<1>3. CASE Records!Crash
  <2>1. m' \in Process(MPositions) /\ m'.pc = "idle"
    BY <1>3 DEF Records!Crash, Records!Idle, Process, MPositions, MaybeRun
  <2>2. QED
    BY <1>3, <2>1 DEF Records!Crash, RecordsInv, Types, Clocks, Exclusion, MWorks, SWorks,
       RecordHolds,
       Holds, OnlyExpiredGoes, Records!Expired
<1>4. QED
  BY <1>1, <1>2, <1>3

\* The process that looks a run up.
LEMMA SenderKeeps ==
  ASSUME RecordsInv,
           \/ Records!Resolve \/ Records!SLock \/ Records!SRead
         \/ Records!SUnlink \/ Records!SUnlock,
         AbsentIsNothing
  PROVE  RecordsInv'
<1>1. CASE Records!Resolve
  <2>1. s' \in Process(SPositions) /\ s'.pc \in {"idle", "lock"} /\ (s'.now = clock \/ s'.now = 0)
    BY <1>1 DEF Records!Resolve, Records!Idle, RecordsInv, Types, Process, SPositions, MaybeRun
  <2>2. s'.now <= clock
    BY <2>1 DEF RecordsInv, Clocks, Types
  <2>3. QED
    BY <1>1, <2>1, <2>2 DEF Records!Resolve, RecordsInv, Types, Clocks, Exclusion, MWorks, SWorks,
       RecordHolds, Holds, Records!Result, Records!Expired, Records!Recorded, OnlyExpiredGoes
<1>2. CASE Records!SLock
  <2>1. s' \in Process(SPositions) /\ s'.pc = "read" /\ s'.now = s.now
    BY <1>2 DEF Records!SLock, RecordsInv, Types, Process, SPositions
  <2>2. recordLock' \in [by : {"m", "s"}, at : Int] /\ recordLock'.by = "s" /\ robbed' = robbed
    BY <1>2 DEF Records!SLock, Records!TakeLock, RecordsInv, Types
  <2>3. ~robbed => ~MWorks
    BY <1>2 DEF Records!SLock, Records!TakeLock, RecordsInv, Exclusion
  <2>4. QED
    BY <1>2, <2>1, <2>2, <2>3 DEF Records!SLock, AbsentIsNothing, RecordsInv, Types, Clocks,
       Exclusion,
       MWorks, SWorks, RecordHolds, Holds, OnlyExpiredGoes
<1>3. CASE Records!SRead
  <2>1. s' \in Process(SPositions) /\ s'.pc \in {"unlink", "unlock"} /\ s'.now = s.now
        /\ (s'.pc = "unlink" => Records!Removable)
    BY <1>3 DEF Records!SRead, RecordsInv, Types, Process, SPositions
  <2>2. QED
    BY <1>3, <2>1 DEF Records!SRead, Records!Removable, RecordsInv, Types, Clocks, Exclusion,
       MWorks, SWorks,
       RecordHolds, Holds, Records!Result, Records!Expired, Records!Recorded, OnlyExpiredGoes
<1>4. CASE Records!SUnlink
  <2>1. s' \in Process(SPositions) /\ s'.pc = "unlock" /\ s'.now = s.now
    BY <1>4 DEF Records!SUnlink, RecordsInv, Types, Process, SPositions
  <2>2. ~robbed => ~MWorks /\ Records!Expired(record, s.now) /\ record # Absent
    BY <1>4 DEF Records!SUnlink, RecordsInv, Exclusion, MWorks, SWorks, OnlyExpiredGoes
  <2>3. ~robbed => Holds(Absent)
    <3>1. SUFFICES ASSUME ~robbed,
    recorded # Absent PROVE clock >= recorded.exp \/ Absent = recorded
      BY DEF Holds
    <3>2. Holds(record) /\ record \in Run /\ recorded \in Run /\ s.now \in Int /\ clock \in Int
      BY <2>2, <3>1 DEF RecordsInv, RecordHolds, Types, MWorks, MaybeRun, Process
    <3>3. record.exp <= s.now /\ s.now <= clock /\ record.exp \in Int
      BY <2>2, <3>1, <3>2 DEF Records!Expired, RecordsInv, Clocks, Run
    <3>4. QED
      BY <3>1, <3>2, <3>3 DEF Holds
  <2>4. QED
    BY <1>4, <2>1, <2>2, <2>3 DEF Records!SUnlink, RecordsInv, Types, Clocks, Exclusion, MWorks,
       SWorks,
       RecordHolds, Holds, OnlyExpiredGoes, MaybeRun
<1>5. CASE Records!SUnlock
  <2>1. s' \in Process(SPositions) /\ s'.pc = "idle" /\ s'.now <= clock
    BY <1>5 DEF Records!SUnlock, Records!Idle, RecordsInv, Types, Clocks, Process, SPositions,
       MaybeRun
  <2>2. ~robbed => ~MWorks
    BY <1>5 DEF Records!SUnlock, RecordsInv, Exclusion, MWorks, SWorks
  <2>3. QED
    BY <1>5, <2>1, <2>2 DEF Records!SUnlock, Records!Release, RecordsInv, Types, Clocks,
       Exclusion, MWorks,
       SWorks, RecordHolds, Holds, OnlyExpiredGoes
<1>6. QED
  BY <1>1, <1>2, <1>3, <1>4, <1>5

\* Every step keeps the invariant.
LEMMA NextKeepsRecords ==
  ASSUME RecordsInv, [Records!Next]_(Records!vars), TTL \in Int, Grace \in Int, AbsentIsNothing
  PROVE  RecordsInv'
<1>1. CASE UNCHANGED Records!vars
  BY <1>1 DEF Records!vars, RecordsInv, Types, Clocks, Exclusion, MWorks, SWorks, RecordHolds,
     Holds, Records!Result, Records!Expired, Records!Recorded, OnlyExpiredGoes
<1>2. QED
  BY <1>1, TickAskKeep, RemoveOldLockKeeps, ReadingKeeps, WritingKeeps, SenderKeeps
     DEF Records!Next, Op

-----------------------------------------------------------------------------
(* The copies of prompts taken out of a transcript                         *)

\* A row of the transcript, and what an attempt keeps.
Row == [id : Nat \ {0}, parent : Nat, kind : {"prompt", "mirror", "other"}]
Attempt ==
  [at : {"idle", "stat", "read", "written", "checked", "renamed"}, version : Nat,
   rows : Seq(Row), retry : Nat, fresh : Nat]

InOrder(rows) == \A i, j \in DOMAIN rows : i < j => rows[i].id < rows[j].id

\* The rows are OpenClaw's, of which only the parents changed.
FromScript(rows, n) ==
  \A i \in DOMAIN rows : \E j \in 1..n :
    j \in DOMAIN Script /\ rows[i].id = Script[j].id /\ rows[i].kind = Script[j].kind

\* Of the first n rows OpenClaw wrote, all but mirrors are among the rows, or came too late.
HasAll(rows, n, gone) ==
  \A j \in 1..n : j \in DOMAIN Script /\ Script[j].kind # "mirror" =>
                    Script[j].id \in Dedupe!Ids(rows) \cup gone

\* The file.
FileOk == transcript \in Seq(Row) /\ InOrder(transcript) /\ FromScript(transcript, appended)
          /\ HasAll(transcript, appended, late)

\* An attempt r that saw no change of the file (which holds rows, is in version v and has
\* had n rows) has taken the mirrors, and nothing else, out of it; what was added since its
\* last look is all that a rename would lose.
TryOk(r, rows, v, n, gone) ==
  /\ r \in Attempt /\ r.version <= v
  /\ r.at = "written" /\ r.version = v => r.rows = Dedupe!Deduped(rows)
  /\ r.at = "checked" =>
       /\ InOrder(r.rows) /\ FromScript(r.rows, n)
       /\ r.fresh <= n /\ HasAll(r.rows, r.fresh, gone)

\* So has each of the attempts that run beside one another.
TriesOk ==
  /\ DOMAIN try = AtOnce /\ try = [a \in AtOnce |-> try[a]]
  /\ \A a \in AtOnce : TryOk(try[a], transcript, version, appended, late)

DedupeInv ==
  /\ version \in Nat /\ appended \in 0..Len(Script)
  /\ FileOk /\ TriesOk
  /\ request => timer # {} \/ waiters # {}

\* The order of the natural numbers, as a relation.
Precedes == {p \in Nat \X Nat : p[1] < p[2]}

\* There is no infinite descent in the natural numbers.
LEMMA PrecedesIsWellFounded == IsWellFoundedOn(Precedes, Nat)
<1>1. IsWellFoundedOn(OpToRel(<, Nat), Nat)
  BY NatLessThanWellFounded
<1>2. Precedes \subseteq OpToRel(<, Nat)
  BY DEF Precedes, OpToRel
<1>3. QED
  BY <1>1, <1>2, IsWellFoundedOnSubrelation

\* A set of numbers that is not empty has a smallest one.
LEMMA SmallestExists ==
  ASSUME NEW S, S \subseteq Nat, S # {}
  PROVE  \E n \in S : \A other \in S : n <= other
<1>1. \E n \in S : \A other \in S : <<other, n>> \notin Precedes
  BY PrecedesIsWellFounded, WFMin, Zenon
<1>2. PICK n \in S : \A other \in S : <<other, n>> \notin Precedes
  BY <1>1
<1>3. ASSUME NEW other \in S
      PROVE  n <= other
  <2>1. other \in Nat /\ n \in Nat /\ <<other, n>> \notin Precedes
    BY <1>2
  <2>2. CASE other < n
    <3>1. <<other, n>> \in Precedes
      BY <2>1, <2>2 DEF Precedes
    <3>2. QED
      BY <2>1, <3>1
  <2>3. QED
    BY <2>1, <2>2
<1>4. QED
  BY <1>3

\* Induction over the natural numbers, for a set.
LEMMA InductionOnSets ==
  ASSUME NEW S, 0 \in S, \A n \in Nat : n \in S => n + 1 \in S
  PROVE  Nat \subseteq S
<1>1. SUFFICES ASSUME Nat \ S # {}
               PROVE  FALSE
  OBVIOUS
<1> DEFINE U == Nat \ S
<1>2. U \subseteq Nat /\ U # {}
  BY <1>1
<1> HIDE DEF U
<1>3. PICK n \in U : \A other \in U : n <= other
  BY <1>2, SmallestExists
<1>4. n # 0 /\ n \in Nat /\ n - 1 \in Nat /\ n - 1 < n
  BY <1>2, <1>3 DEF U
<1>5. n - 1 \in S
  BY <1>3, <1>4 DEF U
<1>6. n \in S
  BY <1>4, <1>5
<1>7. QED
  BY <1>3, <1>6 DEF U

\* What a mirror is, and what becomes of a row whose parent goes.
LEMMA MirrorFacts ==
  ASSUME NEW rows \in Seq(Row), InOrder(rows)
  PROVE  /\ \A i \in DOMAIN rows : rows[i].id \in Dedupe!Mirrors(rows) =>
              rows[i].kind = "mirror" /\ rows[i].parent = Dedupe!Prompt(rows)
         /\ Dedupe!Mirrors(rows) # {} =>
              Dedupe!Prompt(rows) \in Dedupe!Ids(rows) \ Dedupe!Mirrors(rows)
         /\ \A i \in DOMAIN rows :
              /\ Dedupe!Rewired(rows, rows[i]) \in Row
              /\ Dedupe!Rewired(rows, rows[i]).id = rows[i].id
              /\ Dedupe!Rewired(rows, rows[i]).kind = rows[i].kind
              /\ Dedupe!Rewired(rows, rows[i]).parent =
                   IF rows[i].parent \in Dedupe!Mirrors(rows) THEN Dedupe!Prompt(rows)
                   ELSE rows[i].parent
<1>1. /\ DOMAIN rows = 1..Len(rows) /\ Len(rows) \in Nat
      /\ \A i \in DOMAIN rows : rows[i] \in Row /\ rows[i].id \in Nat \ {0}
  <2>1. DOMAIN rows = 1..Len(rows) /\ Len(rows) \in Nat
    OBVIOUS
  <2>2. \A i \in DOMAIN rows : rows[i] \in Row
    BY <2>1
  <2>3. QED
    BY <2>1, <2>2 DEF Row
<1>2. \A i, j \in DOMAIN rows : rows[i].id = rows[j].id => i = j
  <2>1. SUFFICES ASSUME NEW i \in DOMAIN rows, NEW j \in DOMAIN rows, i < j
                 PROVE  rows[i].id # rows[j].id
    BY <1>1
  <2>2. rows[i].id < rows[j].id
    BY <2>1 DEF InOrder
  <2>3. QED
    BY <1>1, <2>2
<1>3. ASSUME NEW i \in DOMAIN rows, rows[i].id \in Dedupe!Mirrors(rows)
      PROVE  /\ rows[i].kind = "mirror" /\ rows[i].parent = Dedupe!Prompt(rows)
             /\ Dedupe!Prompt(rows) # Dedupe!NoId
  <2>1. PICK j \in DOMAIN rows : /\ rows[i].id = rows[j].id /\ rows[j].kind = "mirror"
                                 /\ Dedupe!Prompt(rows) # Dedupe!NoId
                                 /\ rows[j].parent = Dedupe!Prompt(rows)
    BY <1>3 DEF Dedupe!Mirrors
  <2>2. QED
    BY <1>2, <2>1
<1>4. ASSUME NEW other \in Dedupe!Mirrors(rows)
      PROVE  /\ \E j \in DOMAIN rows : rows[j].id = other
             /\ Dedupe!ParentOf(rows, other) = Dedupe!Prompt(rows)
             /\ Dedupe!Prompt(rows) # Dedupe!NoId
  <2>1. PICK j \in DOMAIN rows : rows[j].id = other
    BY <1>4 DEF Dedupe!Mirrors
  <2>2. \A r \in Dedupe!ToSet(rows) : r.id = other => r = rows[j]
    BY <1>2, <2>1 DEF Dedupe!ToSet
  <2>3. rows[j] \in Dedupe!ToSet(rows)
    BY DEF Dedupe!ToSet
  <2>4. (CHOOSE r \in Dedupe!ToSet(rows) : r.id = other) = rows[j]
    BY <2>1, <2>2, <2>3
  <2>5. Dedupe!ParentOf(rows, other) = rows[j].parent
    BY <2>4 DEF Dedupe!ParentOf
  <2>6. QED
    BY <1>3, <2>1, <2>5
<1>5. ASSUME Dedupe!Prompt(rows) # Dedupe!NoId
      PROVE  \E i \in DOMAIN rows : rows[i].kind = "prompt" /\ rows[i].id = Dedupe!Prompt(rows)
  <2>1. Dedupe!Prompts(rows) # {}
    BY <1>5 DEF Dedupe!Prompt
  <2>2. Dedupe!Prompts(rows) \subseteq Nat
    BY <1>1 DEF Dedupe!Prompts
  <2>3. PICK least \in Dedupe!Prompts(rows) : \A n \in Dedupe!Prompts(rows) : least <= n
    BY <2>1, <2>2, SmallestExists
  <2> DEFINE first == CHOOSE i \in Dedupe!Prompts(rows) : \A j \in Dedupe!Prompts(rows) : i <= j
  <2>4. \E i \in Dedupe!Prompts(rows) : \A j \in Dedupe!Prompts(rows) : i <= j
    BY <2>3
  <2>5. first \in Dedupe!Prompts(rows)
    BY <2>4
  <2>6. Dedupe!Prompt(rows) = rows[first].id
    BY <2>1 DEF Dedupe!Prompt
  <2> HIDE DEF first
  <2>7. QED
    BY <2>5, <2>6 DEF Dedupe!Prompts
<1>6. ASSUME Dedupe!Mirrors(rows) # {}
      PROVE  /\ Dedupe!Prompt(rows) \in Dedupe!Ids(rows) \ Dedupe!Mirrors(rows)
             /\ Dedupe!Prompt(rows) \in Nat
  <2>1. PICK i \in DOMAIN rows : rows[i].kind = "prompt" /\ rows[i].id = Dedupe!Prompt(rows)
    BY <1>4, <1>5, <1>6
  <2>2. rows[i].id \notin Dedupe!Mirrors(rows)
    BY <1>3, <2>1
  <2>3. QED
    BY <1>1, <2>1, <2>2 DEF Dedupe!Ids
<1>7. ASSUME NEW i \in DOMAIN rows
      PROVE  /\ Dedupe!Rewired(rows, rows[i]) \in Row
             /\ Dedupe!Rewired(rows, rows[i]).id = rows[i].id
             /\ Dedupe!Rewired(rows, rows[i]).kind = rows[i].kind
             /\ Dedupe!Rewired(rows, rows[i]).parent =
                  IF rows[i].parent \in Dedupe!Mirrors(rows) THEN Dedupe!Prompt(rows)
                  ELSE rows[i].parent
  <2> DEFINE r == rows[i]
  <2>1. r \in Row
    BY <1>1
  <2> HIDE DEF r
  <2>2. CASE r.parent \in Dedupe!Mirrors(rows)
    <3>1. Dedupe!ParentOf(rows, r.parent) = Dedupe!Prompt(rows) /\ Dedupe!Prompt(rows) \in Nat
      BY <1>4, <1>6, <2>2
    <3>2. Dedupe!Rewired(rows, r) = [r EXCEPT !.parent = Dedupe!Prompt(rows)]
      BY <2>2, <3>1 DEF Dedupe!Rewired
    <3>3. QED
      BY <2>1, <2>2, <3>1, <3>2 DEF Row, r
  <2>3. CASE r.parent \notin Dedupe!Mirrors(rows)
    <3>1. Dedupe!Rewired(rows, r) = r
      BY <2>3 DEF Dedupe!Rewired
    <3>2. QED
      BY <2>1, <2>3, <3>1 DEF r
  <2>4. QED
    BY <2>2, <2>3
<1>8. QED
  BY <1>3, <1>6, <1>7

\* p holds, for each n, what is taken of the first n rows.
Keeping(p, n, rows) ==
  p[0] = <<>>
  /\ \A i \in 1..n : p[i] = IF rows[i].id \in Dedupe!Mirrors(rows) THEN p[i - 1]
                            ELSE Append(p[i - 1], Dedupe!Rewired(rows, rows[i]))

\* There is such a function for any n.
LEMMA KeepingExists ==
  ASSUME NEW rows, NEW N \in Nat
  PROVE  \E p : Keeping(p, N, rows)
<1> DEFINE S == {n \in Nat : \E p : Keeping(p, n, rows)}
<1>1. 0 \in S
  <2>1. Keeping([i \in 0..0 |-> <<>>], 0, rows)
    BY DEF Keeping
  <2>2. QED
    BY <2>1
<1>2. ASSUME NEW n \in Nat, n \in S
      PROVE  n + 1 \in S
  <2>1. PICK p : Keeping(p, n, rows)
    BY <1>2
  <2> DEFINE b == IF rows[n + 1].id \in Dedupe!Mirrors(rows) THEN p[n]
                  ELSE Append(p[n], Dedupe!Rewired(rows, rows[n + 1]))
             u == [i \in 0..(n + 1) |-> IF i <= n THEN p[i] ELSE b]
  <2> HIDE DEF b
  <2>2. ASSUME NEW i \in 1..(n + 1)
        PROVE  u[i] = IF rows[i].id \in Dedupe!Mirrors(rows) THEN u[i - 1]
                      ELSE Append(u[i - 1], Dedupe!Rewired(rows, rows[i]))
    <3>1. CASE i = n + 1
      <4>1. u[i] = b /\ u[i - 1] = p[n]
        BY <3>1
      <4>2. QED
        BY <4>1, <3>1 DEF b
    <3>2. CASE i # n + 1
      <4>1. i \in 1..n /\ u[i] = p[i] /\ u[i - 1] = p[i - 1]
        BY <3>2
      <4>2. QED
        BY <4>1, <2>1 DEF Keeping
    <3>3. QED
      BY <3>1, <3>2
  <2>3. u[0] = <<>>
    BY <2>1 DEF Keeping
  <2>4. Keeping(u, n + 1, rows)
    BY <2>2, <2>3 DEF Keeping
  <2>5. QED
    BY <2>4
<1>3. Nat \subseteq S
  <2> HIDE DEF S
  <2>1. QED
    BY <1>1, <1>2, InductionOnSets
<1>4. QED
  BY <1>3

\* What is taken of the first n rows: all but the mirrors, in their order.
KeptOf(w, n, rows) ==
  /\ w \in Seq(Row) /\ InOrder(w)
  /\ \A i \in DOMAIN w : \E j \in 1..n : /\ w[i] = Dedupe!Rewired(rows, rows[j])
                                         /\ rows[j].id \notin Dedupe!Mirrors(rows)
  /\ \A j \in 1..n : rows[j].id \notin Dedupe!Mirrors(rows) => rows[j].id \in Dedupe!Ids(w)

\* A row that is taken comes behind those before it.
LEMMA OneMoreKept ==
  ASSUME NEW rows \in Seq(Row), InOrder(rows), NEW n \in Nat, n + 1 \in DOMAIN rows,
         NEW w, KeptOf(w, n, rows), rows[n + 1].id \notin Dedupe!Mirrors(rows)
  PROVE  KeptOf(Append(w, Dedupe!Rewired(rows, rows[n + 1])), n + 1, rows)
<1> DEFINE x == Dedupe!Rewired(rows, rows[n + 1])
           u == Append(w, x)
<1>1. x \in Row /\ x.id = rows[n + 1].id
  BY MirrorFacts
<1>2. /\ w \in Seq(Row) /\ Len(w) \in Nat /\ DOMAIN w = 1..Len(w)
      /\ DOMAIN rows = 1..Len(rows) /\ Len(rows) \in Nat /\ 1..n \subseteq DOMAIN rows
      /\ \A j \in DOMAIN rows : rows[j] \in Row
  BY DEF KeptOf
<1> HIDE DEF x
<1>3. /\ u \in Seq(Row) /\ Len(u) = Len(w) + 1 /\ DOMAIN u = 1..(Len(w) + 1)
      /\ u[Len(w) + 1] = x /\ \A i \in 1..Len(w) : u[i] = w[i]
  BY <1>1, <1>2
<1> HIDE DEF u
<1>4. ASSUME NEW i \in 1..Len(w)
      PROVE  w[i].id < x.id /\ w[i].id \in Nat
  <2>1. PICK j \in 1..n : w[i] = Dedupe!Rewired(rows, rows[j])
    BY <1>2 DEF KeptOf
  <2>2. w[i].id = rows[j].id /\ j \in DOMAIN rows /\ rows[j] \in Row
    BY <1>2, <2>1, MirrorFacts
  <2>3. rows[j].id < rows[n + 1].id
    BY <2>2 DEF InOrder
  <2>4. QED
    BY <1>1, <2>2, <2>3 DEF Row
<1>5. InOrder(u)
  BY <1>2, <1>3, <1>4 DEF InOrder, KeptOf
<1>6. ASSUME NEW i \in DOMAIN u
      PROVE  \E j \in 1..(n + 1) : /\ u[i] = Dedupe!Rewired(rows, rows[j])
                                   /\ rows[j].id \notin Dedupe!Mirrors(rows)
  <2>1. CASE i = Len(w) + 1
    BY <1>3, <2>1 DEF x
  <2>2. CASE i # Len(w) + 1
    <3>1. i \in 1..Len(w) /\ u[i] = w[i]
      BY <1>2, <1>3, <2>2
    <3>2. PICK j \in 1..n : /\ w[i] = Dedupe!Rewired(rows, rows[j])
                              /\ rows[j].id \notin Dedupe!Mirrors(rows)
      BY <1>2, <3>1 DEF KeptOf
    <3>3. j \in 1..(n + 1)
      OBVIOUS
    <3>4. QED
      BY <3>1, <3>2, <3>3
  <2>3. QED
    BY <2>1, <2>2
<1>7. Dedupe!Ids(u) = Dedupe!Ids(w) \cup {x.id}
  <2>1. \A i \in 1..Len(w) : i \in DOMAIN u /\ u[i].id = w[i].id
    BY <1>2, <1>3
  <2>2. Len(w) + 1 \in DOMAIN u /\ \A i \in DOMAIN u : i \in 1..Len(w) \/ i = Len(w) + 1
    BY <1>2, <1>3
  <2>3. QED
    BY <1>2, <1>3, <2>1, <2>2 DEF Dedupe!Ids
<1>8. ASSUME NEW j \in 1..(n + 1), rows[j].id \notin Dedupe!Mirrors(rows)
      PROVE  rows[j].id \in Dedupe!Ids(u)
  <2>1. CASE j = n + 1
    BY <1>1, <1>7, <2>1
  <2>2. CASE j # n + 1
    <3>1. j \in 1..n
      BY <2>2
    <3>2. QED
      BY <1>7, <1>8, <3>1 DEF KeptOf
  <2>3. QED
    BY <2>1, <2>2
<1>9. QED
  BY <1>3, <1>5, <1>6, <1>8 DEF KeptOf, u, x

\* Deduped keeps all rows but the mirrors, in their order.
LEMMA DedupedLeaves ==
  ASSUME NEW rows \in Seq(Row), InOrder(rows)
  PROVE  KeptOf(Dedupe!Deduped(rows), Len(rows), rows)
<1> DEFINE N == Len(rows)
           Grown(g) == [i \in 0..N |-> IF i = 0 THEN <<>>
                                      ELSE IF rows[i].id \in Dedupe!Mirrors(rows) THEN g[i - 1]
                                      ELSE Append(g[i - 1], Dedupe!Rewired(rows, rows[i]))]
           taken == CHOOSE g : g = Grown(g)
<1>1. N \in Nat /\ DOMAIN rows = 1..N
  OBVIOUS
<1>2. Dedupe!Deduped(rows) = taken[N]
  BY DEF Dedupe!Deduped
<1>3. taken = Grown(taken)
  <2>1. PICK p : Keeping(p, N, rows)
    BY <1>1, KeepingExists
  <2> DEFINE g == [i \in 0..N |-> p[i]]
  <2>2. ASSUME NEW i \in 0..N
        PROVE  g[i] = IF i = 0 THEN <<>>
                      ELSE IF rows[i].id \in Dedupe!Mirrors(rows) THEN g[i - 1]
                      ELSE Append(g[i - 1], Dedupe!Rewired(rows, rows[i]))
    <3>1. CASE i = 0
      BY <2>1, <3>1 DEF Keeping
    <3>2. CASE i # 0
      <4>1. i \in 1..N /\ i - 1 \in 0..N
        BY <1>1, <3>2
      <4>2. p[i] = IF rows[i].id \in Dedupe!Mirrors(rows) THEN p[i - 1]
                   ELSE Append(p[i - 1], Dedupe!Rewired(rows, rows[i]))
        BY <2>1, <4>1 DEF Keeping
      <4>3. g[i] = p[i] /\ g[i - 1] = p[i - 1]
        BY <4>1
      <4>4. QED
        BY <3>2, <4>2, <4>3
    <3>3. QED
      BY <3>1, <3>2
  <2>3. g = Grown(g)
    BY <2>2
  <2>4. QED
    BY <2>3
<1> HIDE DEF taken, N
<1>4. /\ taken[0] = <<>>
      /\ \A i \in 1..N : taken[i] = IF rows[i].id \in Dedupe!Mirrors(rows) THEN taken[i - 1]
                                   ELSE Append(taken[i - 1], Dedupe!Rewired(rows, rows[i]))
  <2>1. \A i \in 0..N : taken[i] = IF i = 0 THEN <<>>
                                  ELSE IF rows[i].id \in Dedupe!Mirrors(rows) THEN taken[i - 1]
                                  ELSE Append(taken[i - 1], Dedupe!Rewired(rows, rows[i]))
    BY <1>3, Zenon
  <2>2. 0 \in 0..N /\ \A i \in 1..N : i \in 0..N /\ i # 0
    BY <1>1
  <2>3. taken[0] = <<>>
    BY <2>1, <2>2
  <2>4. ASSUME NEW i \in 1..N
        PROVE  taken[i] = IF rows[i].id \in Dedupe!Mirrors(rows) THEN taken[i - 1]
                         ELSE Append(taken[i - 1], Dedupe!Rewired(rows, rows[i]))
    <3>1. i \in 0..N /\ i # 0
      BY <2>2
    <3>2. QED
      BY <2>1, <3>1, Zenon
  <2>5. QED
    BY <2>3, <2>4
<1> DEFINE S == {n \in Nat : n <= N => KeptOf(taken[n], n, rows)}
<1>5. 0 \in S
  <2>1. KeptOf(<<>>, 0, rows)
    BY DEF KeptOf, InOrder
  <2>2. QED
    BY <1>4, <2>1
<1>6. ASSUME NEW n \in Nat, n \in S
      PROVE  n + 1 \in S
  <2> SUFFICES ASSUME n + 1 <= N
               PROVE  KeptOf(taken[n + 1], n + 1, rows)
    OBVIOUS
  <2>1. KeptOf(taken[n], n, rows) /\ n + 1 \in 1..N /\ (n + 1) - 1 = n /\ n + 1 \in DOMAIN rows
    BY <1>1, <1>6
  <2>2. taken[n + 1] = IF rows[n + 1].id \in Dedupe!Mirrors(rows) THEN taken[n]
                      ELSE Append(taken[n], Dedupe!Rewired(rows, rows[n + 1]))
    BY <1>4, <2>1
  <2>3. CASE rows[n + 1].id \in Dedupe!Mirrors(rows)
    <3>1. taken[n + 1] = taken[n]
      BY <2>2, <2>3
    <3>2. \A j \in 1..(n + 1) : j \in 1..n \/ j = n + 1
      OBVIOUS
    <3>3. \A j \in 1..n : j \in 1..(n + 1)
      OBVIOUS
    <3>4. QED
      BY <2>1, <2>3, <3>1, <3>2, <3>3 DEF KeptOf
  <2>4. CASE rows[n + 1].id \notin Dedupe!Mirrors(rows)
    BY <2>1, <2>2, <2>4, OneMoreKept
  <2>5. QED
    BY <2>3, <2>4
<1>7. N \in S
  <2> HIDE DEF S
  <2>1. QED
    BY <1>1, <1>5, <1>6, InductionOnSets
<1>8. QED
  BY <1>1, <1>2, <1>7 DEF N

\* The ids of the script tell its rows apart.
LEMMA ScriptIds ==
  /\ DOMAIN Script = 1..Len(Script) /\ Len(Script) \in Nat
  /\ \A i \in DOMAIN Script : Script[i] \in Row /\ Script[i].id \in Nat \ {0}
  /\ \A i, j \in DOMAIN Script : Script[i].id = Script[j].id => i = j
<1>1. /\ DOMAIN Script = 1..Len(Script) /\ Len(Script) \in Nat
      /\ \A i \in DOMAIN Script : Script[i] \in Row
  <2>1. Script \in Seq(Row)
    BY ScriptIsInOrder DEF Row
  <2>2. QED
    BY <2>1
<1>2. \A i \in DOMAIN Script : Script[i].id \in Nat \ {0}
  BY <1>1 DEF Row
<1>3. ASSUME NEW i \in DOMAIN Script, NEW j \in DOMAIN Script, i < j
      PROVE  Script[i].id # Script[j].id
  <2>1. Script[i].id < Script[j].id
    BY <1>3, ScriptIsInOrder DEF InOrder
  <2>2. QED
    BY <1>2, <2>1
<1>4. QED
  <2>1. \A i, j \in DOMAIN Script : i < j \/ j < i \/ i = j
    BY <1>1
  <2>2. QED
    BY <1>1, <1>2, <1>3, <2>1

\* What an attempt makes of a file has its rows in order, and all but the mirrors.
LEMMA DedupedIsFile ==
  ASSUME NEW rows \in Seq(Row), InOrder(rows), NEW n \in Nat, NEW gone,
         FromScript(rows, n), HasAll(rows, n, gone)
  PROVE  /\ Dedupe!Deduped(rows) \in Seq(Row) /\ InOrder(Dedupe!Deduped(rows))
         /\ FromScript(Dedupe!Deduped(rows), n) /\ HasAll(Dedupe!Deduped(rows), n, gone)
<1> DEFINE w == Dedupe!Deduped(rows)
<1>1. KeptOf(w, Len(rows), rows)
  BY DedupedLeaves
<1>2. /\ DOMAIN rows = 1..Len(rows)
      /\ \A i \in DOMAIN rows : rows[i] \in Row
  OBVIOUS
<1> HIDE DEF w
<1>3. FromScript(w, n)
  <2>1. SUFFICES ASSUME NEW i \in DOMAIN w
                 PROVE  \E j \in 1..n : /\ j \in DOMAIN Script /\ w[i].id = Script[j].id
                                        /\ w[i].kind = Script[j].kind
    BY DEF FromScript
  <2>2. PICK l \in 1..Len(rows) : w[i] = Dedupe!Rewired(rows, rows[l])
    BY <1>1 DEF KeptOf
  <2>3. w[i].id = rows[l].id /\ w[i].kind = rows[l].kind /\ l \in DOMAIN rows
    BY <1>2, <2>2, MirrorFacts
  <2>4. QED
    BY <2>3 DEF FromScript
<1>4. HasAll(w, n, gone)
  <2>1. SUFFICES ASSUME NEW j \in 1..n, j \in DOMAIN Script, Script[j].kind # "mirror",
                        Script[j].id \notin gone
                 PROVE  Script[j].id \in Dedupe!Ids(w)
    BY DEF HasAll
  <2>2. PICK i \in DOMAIN rows : rows[i].id = Script[j].id
    BY <2>1 DEF HasAll, Dedupe!Ids
  <2>3. PICK l \in 1..n : /\ l \in DOMAIN Script /\ rows[i].id = Script[l].id
                          /\ rows[i].kind = Script[l].kind
    BY DEF FromScript
  <2>4. l = j
    BY <2>1, <2>2, <2>3, ScriptIds
  <2>5. rows[i].id \notin Dedupe!Mirrors(rows)
    BY <2>1, <2>3, <2>4, MirrorFacts
  <2>6. QED
    BY <1>1, <1>2, <2>2, <2>5 DEF KeptOf
<1>5. QED
  BY <1>1, <1>3, <1>4 DEF KeptOf, w

\* A file after one more row of OpenClaw's.
LEMMA OneMoreRow ==
  ASSUME NEW n \in Nat, n + 1 \in DOMAIN Script, NEW gone, NEW rows \in Seq(Row),
         InOrder(rows), FromScript(rows, n), HasAll(rows, n, gone)
  PROVE  LET more == Append(rows, Script[n + 1])
         IN  /\ more \in Seq(Row) /\ InOrder(more)
             /\ FromScript(more, n + 1) /\ HasAll(more, n + 1, gone)
<1> DEFINE row == Script[n + 1]
           u == Append(rows, row)
<1>1. row \in Row /\ row.id \in Nat
  BY ScriptIds
<1>2. /\ Len(rows) \in Nat /\ DOMAIN rows = 1..Len(rows)
      /\ \A i \in DOMAIN rows : rows[i] \in Row
  OBVIOUS
<1> HIDE DEF row
<1>3. /\ u \in Seq(Row) /\ Len(u) = Len(rows) + 1 /\ DOMAIN u = 1..(Len(rows) + 1)
      /\ u[Len(rows) + 1] = row /\ \A i \in 1..Len(rows) : u[i] = rows[i]
  BY <1>1, <1>2
<1> HIDE DEF u
<1>4. ASSUME NEW i \in 1..Len(rows)
      PROVE  rows[i].id < row.id
  <2>1. PICK j \in 1..n : j \in DOMAIN Script /\ rows[i].id = Script[j].id
    BY <1>2 DEF FromScript
  <2>2. Script[j].id < Script[n + 1].id
    BY <2>1, ScriptIsInOrder DEF InOrder
  <2>3. QED
    BY <2>1, <2>2 DEF row
<1>5. InOrder(u)
  BY <1>2, <1>3, <1>4 DEF InOrder
<1>6. FromScript(u, n + 1)
  <2>1. SUFFICES ASSUME NEW i \in DOMAIN u
                 PROVE  \E j \in 1..(n + 1) : /\ j \in DOMAIN Script /\ u[i].id = Script[j].id
                                              /\ u[i].kind = Script[j].kind
    BY DEF FromScript
  <2>2. CASE i = Len(rows) + 1
    <3>1. u[i] = Script[n + 1] /\ n + 1 \in 1..(n + 1)
      BY <1>3, <2>2 DEF row
    <3>2. QED
      BY <3>1
  <2>3. CASE i # Len(rows) + 1
    <3>1. i \in 1..Len(rows) /\ u[i] = rows[i]
      BY <1>2, <1>3, <2>3
    <3>2. PICK j \in 1..n : /\ j \in DOMAIN Script /\ rows[i].id = Script[j].id
                            /\ rows[i].kind = Script[j].kind
      BY <1>2, <3>1 DEF FromScript
    <3>3. j \in 1..(n + 1)
      OBVIOUS
    <3>4. QED
      BY <3>1, <3>2, <3>3
  <2>4. QED
    BY <2>2, <2>3
<1>7. Dedupe!Ids(rows) \subseteq Dedupe!Ids(u) /\ row.id \in Dedupe!Ids(u)
  <2>1. \A i \in 1..Len(rows) : i \in DOMAIN u /\ u[i].id = rows[i].id
    BY <1>2, <1>3
  <2>2. Len(rows) + 1 \in DOMAIN u
    BY <1>2, <1>3
  <2>3. QED
    BY <1>2, <1>3, <2>1, <2>2 DEF Dedupe!Ids
<1>8. HasAll(u, n + 1, gone)
  <2>1. SUFFICES ASSUME NEW j \in 1..(n + 1), j \in DOMAIN Script, Script[j].kind # "mirror",
                        Script[j].id \notin gone
                 PROVE  Script[j].id \in Dedupe!Ids(u)
    BY DEF HasAll
  <2>2. CASE j = n + 1
    BY <1>7, <2>2 DEF row
  <2>3. CASE j # n + 1
    <3>1. j \in 1..n
      BY <2>3
    <3>2. QED
      BY <1>7, <2>1, <3>1 DEF HasAll
  <2>4. QED
    BY <2>2, <2>3
<1>9. QED
  BY <1>3, <1>5, <1>6, <1>8 DEF u, row

\* An attempt that is over, or about to look at the file, has nothing to keep.
LEMMA FreshTry ==
  ASSUME NEW at \in {"idle", "stat", "renamed"}, NEW n \in Nat,
         NEW rows, NEW v \in Nat, NEW total, NEW gone
  PROVE  TryOk([at |-> at, version |-> 0, rows |-> <<>>, retry |-> n, fresh |-> 0],
               rows, v, total, gone)
<1> DEFINE r == [at |-> at, version |-> 0, rows |-> <<>>, retry |-> n, fresh |-> 0]
<1>1. r \in Attempt
  <2>1. <<>> \in Seq(Row)
    OBVIOUS
  <2>2. QED
    BY <2>1 DEF Attempt
<1>2. r.at = at /\ r.version = 0
  OBVIOUS
<1> HIDE DEF r
<1>3. TryOk(r, rows, v, total, gone)
  BY <1>1, <1>2 DEF TryOk
<1>4. QED
  BY <1>3 DEF r

\* Before the first row nothing is missing.
LEMMA InitDedupe ==
  ASSUME Dedupe!Init
  PROVE  DedupeInv
<1>1. <<>> \in Seq(Row) /\ DOMAIN <<>> = {}
  OBVIOUS
<1>2. FileOk
  BY <1>1 DEF Dedupe!Init, FileOk, InOrder, FromScript, HasAll
<1>3. TryOk(Dedupe!Idle, transcript, 0, appended, late)
  BY FreshTry DEF Dedupe!Idle
<1>4. TriesOk
  BY <1>3 DEF Dedupe!Init, TriesOk
<1>5. QED
  BY <1>2, <1>4, ScriptIds DEF Dedupe!Init, DedupeInv

\* The coordinator's steps: the file rests, an attempt at most begins or ends.
LEMMA CoordinatorKeeps ==
  ASSUME DedupeInv,
         \/ Dedupe!Register \/ Dedupe!ScheduleForRun \/ Dedupe!ClearAll
         \/ \E w \in waiters : Dedupe!Continue(w)
         \/ \E a \in AtOnce : Dedupe!Fire(a) \/ Dedupe!AskForSession(a) \/ Dedupe!Changed(a)
  PROVE  DedupeInv'
<1> DEFINE Begun == [Dedupe!Idle EXCEPT !.at = "stat"]
<1>1. /\ UNCHANGED <<transcript, version, appended, late>>
      /\ \/ try' = try
         \/ \E a \in AtOnce : \/ try' = [try EXCEPT ![a] = Begun]
                              \/ try' = [try EXCEPT ![a] = Dedupe!Idle]
  BY DEF Dedupe!Register, Dedupe!ScheduleForRun, Dedupe!Fire, Dedupe!AskForSession,
       Dedupe!Continue, Dedupe!ClearAll, Dedupe!Changed, Dedupe!RunAttempt, Dedupe!Ends
<1>2. FileOk'
  BY <1>1 DEF DedupeInv, FileOk, InOrder, FromScript, HasAll, Dedupe!Ids
<1>3. TriesOk'
  <2>1. /\ TryOk(Dedupe!Idle, transcript, version, appended, late)
        /\ TryOk(Begun, transcript, version, appended, late)
    <3>1. Begun = [at |-> "stat", version |-> 0, rows |-> <<>>, retry |-> 0, fresh |-> 0]
      BY DEF Dedupe!Idle
    <3>2. version \in Nat
      BY DEF DedupeInv
    <3> HIDE DEF Begun
    <3>3. TryOk(Begun, transcript, version, appended, late)
      BY <3>1, <3>2, FreshTry
    <3>4. TryOk(Dedupe!Idle, transcript, version, appended, late)
      BY <3>2, FreshTry DEF Dedupe!Idle
    <3>5. QED
      BY <3>3, <3>4
  <2> HIDE DEF Begun
  <2>2. CASE try' = try
    BY <1>1, <2>2 DEF DedupeInv, TriesOk
  <2>3. ASSUME NEW a \in AtOnce, NEW r, try' = [try EXCEPT ![a] = r],
               TryOk(r, transcript, version, appended, late)
        PROVE  TriesOk'
    BY <1>1, <2>3 DEF DedupeInv, TriesOk
  <2>4. QED
    BY <1>1, <2>1, <2>2, <2>3
<1>4. (request => timer # {} \/ waiters # {})'
  BY DEF DedupeInv, Dedupe!Register, Dedupe!ScheduleForRun, Dedupe!Fire, Dedupe!AskForSession,
       Dedupe!Continue, Dedupe!ClearAll, Dedupe!Changed, Dedupe!Clear, Dedupe!Schedule
<1>5. QED
  BY <1>1, <1>2, <1>3, <1>4 DEF DedupeInv

\* An attempt looks, reads and compares while the file rests.
LEMMA AttemptKeeps ==
  ASSUME DedupeInv, NEW a \in AtOnce,
         Dedupe!Stat(a) \/ Dedupe!Read(a) \/ Dedupe!Check(a) \/ Dedupe!Throw(a)
  PROVE  DedupeInv'
<1>1. /\ UNCHANGED <<transcript, version, appended, late, request, timer, waiters>>
      /\ \E r : try' = [try EXCEPT ![a] = r]
  BY DEF Dedupe!Stat, Dedupe!Read, Dedupe!Check, Dedupe!Throw, Dedupe!Gone, Dedupe!GoesOn,
     Dedupe!Ends
<1>2. FileOk'
  BY <1>1 DEF DedupeInv, FileOk
<1>3. /\ transcript \in Seq(Row) /\ InOrder(transcript) /\ FromScript(transcript, appended)
      /\ HasAll(transcript, appended, late) /\ appended \in Nat /\ version \in Nat
      /\ DOMAIN try = AtOnce /\ try = [b \in AtOnce |-> try[b]]
      /\ TryOk(try[a], transcript, version, appended, late)
  BY ScriptIds DEF DedupeInv, FileOk, TriesOk
<1> DEFINE d == Dedupe!Deduped(transcript)
<1>4. /\ d \in Seq(Row) /\ InOrder(d) /\ FromScript(d, appended) /\ HasAll(d, appended, late)
  BY <1>3, DedupedIsFile
<1> HIDE DEF d
<1>5. PICK p : p = try[a]
  OBVIOUS
<1>6. /\ p \in Attempt /\ p.version <= version
      /\ p.at = "written" /\ p.version = version => p.rows = d
  BY <1>3, <1>5 DEF TryOk, d
<1>7. \/ try' = [try EXCEPT ![a] = Dedupe!Idle]
      \/ try' = [try EXCEPT ![a] = [p EXCEPT !.at = "read", !.version = version]]
      \/ try' = [try EXCEPT ![a] = [p EXCEPT !.at = "written", !.rows = d]]
      \/ /\ p.at = "written" /\ version = p.version
         /\ try' = [try EXCEPT ![a] = [p EXCEPT !.at = "checked", !.fresh = appended]]
      \/ try' = [try EXCEPT ![a] = [Dedupe!Idle EXCEPT !.at = "stat", !.retry = p.retry + 1]]
  BY <1>5 DEF Dedupe!Stat, Dedupe!Read, Dedupe!Check, Dedupe!Throw, Dedupe!Gone,
     Dedupe!GoesOn, Dedupe!Ends, d
<1>8. PICK q : /\ try' = [try EXCEPT ![a] = q]
               /\ TryOk(q, transcript, version, appended, late)
  <2>1. TryOk(Dedupe!Idle, transcript, version, appended, late)
    BY <1>3, FreshTry DEF Dedupe!Idle
  <2>2. TryOk([p EXCEPT !.at = "read", !.version = version], transcript, version, appended, late)
    <3>1. PICK q : q = [p EXCEPT !.at = "read", !.version = version]
      OBVIOUS
    <3>2. q \in Attempt /\ q.at = "read" /\ q.version = version
      BY <1>3, <1>6, <3>1 DEF Attempt
    <3>3. TryOk(q, transcript, version, appended, late)
      BY <1>3, <3>2 DEF TryOk
    <3>4. QED
      BY <3>1, <3>3
  <2>3. TryOk([p EXCEPT !.at = "written", !.rows = d], transcript, version, appended, late)
    <3>1. PICK q : q = [p EXCEPT !.at = "written", !.rows = d]
      OBVIOUS
    <3>2. q \in Attempt /\ q.at = "written" /\ q.version = p.version /\ q.rows = d
      BY <1>4, <1>6, <3>1 DEF Attempt
    <3>3. TryOk(q, transcript, version, appended, late)
      BY <1>6, <3>2 DEF TryOk, d
    <3>4. QED
      BY <3>1, <3>3
  <2>4. ASSUME p.at = "written", version = p.version
        PROVE  TryOk([p EXCEPT !.at = "checked", !.fresh = appended],
                     transcript, version, appended, late)
    <3>1. PICK q : q = [p EXCEPT !.at = "checked", !.fresh = appended]
      OBVIOUS
    <3>2. /\ q \in Attempt /\ q.at = "checked" /\ q.version = p.version /\ q.rows = p.rows
          /\ q.fresh = appended
      BY <1>3, <1>6, <3>1 DEF Attempt
    <3>3. TryOk(q, transcript, version, appended, late)
      BY <1>3, <1>4, <1>6, <2>4, <3>2 DEF TryOk
    <3>4. QED
      BY <3>1, <3>3
  <2>5. TryOk([Dedupe!Idle EXCEPT !.at = "stat", !.retry = p.retry + 1],
              transcript, version, appended, late)
    <3>1. PICK q : q = [Dedupe!Idle EXCEPT !.at = "stat", !.retry = p.retry + 1]
      OBVIOUS
    <3>2. q = [at |-> "stat", version |-> 0, rows |-> <<>>, retry |-> p.retry + 1, fresh |-> 0]
      BY <3>1 DEF Dedupe!Idle
    <3>3. p.retry + 1 \in Nat
      BY <1>6 DEF Attempt
    <3>4. TryOk(q, transcript, version, appended, late)
      BY <1>3, <3>2, <3>3, FreshTry
    <3>5. QED
      BY <3>1, <3>4
  <2>6. QED
    BY <1>7, <2>1, <2>2, <2>3, <2>4, <2>5
<1>9. TriesOk'
  BY <1>1, <1>3, <1>8 DEF DedupeInv, TriesOk
<1>10. QED
  BY <1>1, <1>2, <1>9 DEF DedupeInv

\* The rename loses what was added behind the last look, and says so.  The other attempts see
\* another file, but one that has already looked goes on with what it read.
LEMMA RenameKeeps ==
  ASSUME DedupeInv, NEW a \in AtOnce, Dedupe!Rename(a)
  PROVE  DedupeInv'
<1>1. PICK p : p = try[a]
  OBVIOUS
<1>2. /\ transcript' = p.rows /\ version' = version + 1 /\ appended' = appended
      /\ late' = late \cup {Script[i].id : i \in (p.fresh + 1)..appended}
      /\ try' = [try EXCEPT ![a] = [Dedupe!Idle EXCEPT !.at = "renamed"]]
      /\ UNCHANGED <<request, timer, waiters>> /\ p.at = "checked"
  BY <1>1 DEF Dedupe!Rename
<1>3. /\ DOMAIN try = AtOnce /\ try = [b \in AtOnce |-> try[b]]
      /\ \A b \in AtOnce : TryOk(try[b], transcript, version, appended, late)
      /\ appended \in Nat /\ version \in Nat
  BY ScriptIds DEF DedupeInv, TriesOk
<1>4. TryOk(p, transcript, version, appended, late)
  BY <1>1, <1>3
<1>5. /\ p.rows \in Seq(Row) /\ InOrder(p.rows) /\ FromScript(p.rows, appended)
      /\ p.fresh \in Nat /\ p.fresh <= appended /\ HasAll(p.rows, p.fresh, late)
  BY <1>2, <1>4 DEF TryOk, Attempt
<1>6. HasAll(p.rows, appended, late')
  <2>1. SUFFICES ASSUME NEW j \in 1..appended, j \in DOMAIN Script, Script[j].kind # "mirror"
                 PROVE  Script[j].id \in Dedupe!Ids(p.rows) \cup late'
    BY DEF HasAll
  <2>2. CASE j <= p.fresh
    <3>1. j \in 1..p.fresh
      BY <1>3, <1>5, <2>2
    <3>2. QED
      BY <1>2, <1>5, <2>1, <3>1 DEF HasAll
  <2>3. CASE ~(j <= p.fresh)
    <3>1. j \in (p.fresh + 1)..appended
      BY <1>3, <1>5, <2>3
    <3>2. QED
      BY <1>2, <3>1
  <2>4. QED
    BY <2>2, <2>3
<1>7. FileOk'
  BY <1>2, <1>5, <1>6 DEF FileOk
<1>8. PICK q : q = [Dedupe!Idle EXCEPT !.at = "renamed"]
  OBVIOUS
<1>9. q = [at |-> "renamed", version |-> 0, rows |-> <<>>, retry |-> 0, fresh |-> 0]
  BY <1>8 DEF Dedupe!Idle
<1>10. TryOk(q, transcript', version + 1, appended, late')
  BY <1>3, <1>9, FreshTry
<1>11. ASSUME NEW b \in AtOnce, b # a
       PROVE  TryOk(try[b], transcript', version + 1, appended, late')
  <2>1. PICK r : r = try[b]
    OBVIOUS
  <2>2. TryOk(r, transcript, version, appended, late) /\ r.version \in Nat
    BY <1>3, <2>1 DEF TryOk, Attempt
  <2>3. r.version < version + 1
    BY <1>3, <2>2 DEF TryOk
  <2>4. HasAll(r.rows, r.fresh, late) => HasAll(r.rows, r.fresh, late')
    BY <1>2 DEF HasAll
  <2>5. TryOk(r, transcript', version + 1, appended, late')
    BY <1>3, <2>2, <2>3, <2>4 DEF TryOk
  <2>6. QED
    BY <2>1, <2>5
<1>12. TriesOk'
  <2>1. DOMAIN try' = AtOnce /\ try' = [b \in AtOnce |-> try'[b]]
    BY <1>2, <1>3
  <2>2. ASSUME NEW b \in AtOnce
        PROVE  TryOk(try'[b], transcript', version + 1, appended, late')
    <3>1. CASE b = a
      BY <1>2, <1>3, <1>8, <1>10, <3>1
    <3>2. CASE b # a
      <4>1. try'[b] = try[b]
        BY <1>2, <1>3, <3>2
      <4>2. QED
        BY <1>11, <3>2, <4>1
    <3>3. QED
      BY <3>1, <3>2
  <2>3. QED
    BY <1>2, <2>1, <2>2 DEF TriesOk
<1>13. QED
  BY <1>2, <1>3, <1>7, <1>12, ScriptIds DEF DedupeInv

\* OpenClaw's next row changes the file, so what an attempt read before is not written.
LEMMA AppendKeeps ==
  ASSUME DedupeInv, Dedupe!AppendRow
  PROVE  DedupeInv'
<1>1. /\ transcript' = Append(transcript, Script[appended + 1]) /\ version' = version + 1
      /\ appended' = appended + 1 /\ appended + 1 \in DOMAIN Script
      /\ UNCHANGED <<request, timer, waiters, try, late>>
  BY ScriptIds DEF DedupeInv, Dedupe!AppendRow
<1>2. /\ transcript \in Seq(Row) /\ InOrder(transcript) /\ FromScript(transcript, appended)
      /\ HasAll(transcript, appended, late) /\ appended \in Nat /\ version \in Nat
      /\ \A a \in AtOnce : TryOk(try[a], transcript, version, appended, late)
  BY ScriptIds DEF DedupeInv, FileOk, TriesOk
<1>3. FileOk'
  BY <1>1, <1>2, OneMoreRow DEF FileOk
<1>4. ASSUME NEW a \in AtOnce
      PROVE  TryOk(try[a], transcript', version + 1, appended + 1, late)
  <2>1. PICK r : r = try[a]
    OBVIOUS
  <2>2. /\ TryOk(r, transcript, version, appended, late)
        /\ r.version \in Nat /\ r.fresh \in Nat
    BY <1>2, <2>1 DEF TryOk, Attempt
  <2>3. r.version < version + 1
    BY <1>2, <2>2 DEF TryOk
  <2>4. FromScript(r.rows, appended) => FromScript(r.rows, appended + 1)
    <3>1. \A j \in 1..appended : j \in 1..(appended + 1)
      BY <1>2
    <3>2. QED
      BY <3>1 DEF FromScript
  <2>5. r.fresh <= appended => r.fresh <= appended + 1
    BY <1>2, <2>2
  <2>6. TryOk(r, transcript', version + 1, appended + 1, late)
    BY <1>2, <2>2, <2>3, <2>4, <2>5 DEF TryOk
  <2>7. QED
    BY <2>1, <2>6
<1>5. TriesOk'
  BY <1>1, <1>4 DEF DedupeInv, TriesOk
<1>6. QED
  BY <1>1, <1>2, <1>3, <1>5, ScriptIds DEF DedupeInv

\* Every step keeps the invariant.
LEMMA NextKeepsDedupe ==
  ASSUME DedupeInv, [Dedupe!Next]_(Dedupe!vars)
  PROVE  DedupeInv'
<1>1. CASE UNCHANGED Dedupe!vars
  BY <1>1 DEF Dedupe!vars, DedupeInv, FileOk, TriesOk
<1>2. CASE Dedupe!Next
  BY <1>2, CoordinatorKeeps, AttemptKeeps, RenameKeeps, AppendKeeps DEF Dedupe!Next
<1>3. QED
  BY <1>1, <1>2

\* The invariant says that of what an attempt looked at nothing but mirrors went, and that the
\* transcript is left without holes.
LEMMA MirrorsOnly ==
  ASSUME DedupeInv
  PROVE  Dedupe!NotForgotten /\ Dedupe!CheckedRowsStay
<1>1. /\ transcript \in Seq(Row) /\ InOrder(transcript) /\ HasAll(transcript, appended, late)
      /\ appended \in 0..Len(Script)
  BY DEF DedupeInv, FileOk
<1>2. ASSUME NEW i \in 1..appended, Script[i].kind # "mirror"
      PROVE  Script[i].id \in Dedupe!Ids(transcript) \cup late
  <2>1. i \in DOMAIN Script
    BY <1>1, ScriptIds
  <2>2. QED
    BY <1>1, <1>2, <2>1 DEF HasAll
<1>3. ASSUME NEW r \in Dedupe!ToSet(Dedupe!Deduped(transcript))
      PROVE  \/ r.parent \in Dedupe!Ids(Dedupe!Deduped(transcript)) \cup {Dedupe!NoId}
             \/ r.parent \notin Dedupe!Ids(transcript)
  <2> DEFINE w == Dedupe!Deduped(transcript)
  <2>1. KeptOf(w, Len(transcript), transcript)
    BY <1>1, DedupedLeaves
  <2>2. PICK i \in DOMAIN w : r = w[i]
    BY <1>3 DEF Dedupe!ToSet
  <2> HIDE DEF w
  <2>3. PICK j \in 1..Len(transcript) : r = Dedupe!Rewired(transcript, transcript[j])
    BY <2>1, <2>2 DEF KeptOf
  <2>4. /\ DOMAIN transcript = 1..Len(transcript)
        /\ r.parent = IF transcript[j].parent \in Dedupe!Mirrors(transcript)
                      THEN Dedupe!Prompt(transcript) ELSE transcript[j].parent
    BY <1>1, <2>3, MirrorFacts
  <2>5. r.parent \notin Dedupe!Mirrors(transcript)
    <3>1. CASE transcript[j].parent \in Dedupe!Mirrors(transcript)
      BY <1>1, <2>4, <3>1, MirrorFacts
    <3>2. CASE transcript[j].parent \notin Dedupe!Mirrors(transcript)
      BY <2>4, <3>2
    <3>3. QED
      BY <3>1, <3>2
  <2>6. CASE r.parent \in Dedupe!Ids(transcript)
    <3>1. PICK l \in DOMAIN transcript : transcript[l].id = r.parent
      BY <2>6 DEF Dedupe!Ids
    <3>2. r.parent \in Dedupe!Ids(w)
      BY <2>1, <2>4, <2>5, <3>1 DEF KeptOf
    <3>3. QED
      BY <3>2 DEF w
  <2>7. QED
    BY <2>6
<1>4. Dedupe!NotForgotten
  BY DEF DedupeInv, Dedupe!NotForgotten
<1>5. Dedupe!CheckedRowsStay
  BY <1>1, <1>2, <1>3 DEF Dedupe!CheckedRowsStay, InOrder
<1>6. QED
  BY <1>4, <1>5

-----------------------------------------------------------------------------
(* openclaw.json, the keys and the backups                                  *)

\* What openclaw.json may hold.
Content == [providers : SUBSET Id, primary : Id \cup {Absent}]
Seen == Content \cup (SUBSET Id) \cup {Absent}
CommandPositions ==
  {"idle", "read", "open", "write", "readKeys", "openKeys", "writeKeys", "end"}
Asked ==
  [pc : CommandPositions, op : {"add", "delete", "default", Absent}, id : Id \cup {Absent},
   key : {Absent, Config!ValidKey}, seen : Seen]
Backup ==
  [payload : {"none", "part", "there", "hidden"}, meta : {"none", "torn", "whole"},
   created : Nat, content : Content \cup {HalfWritten}, taken : Content \cup {HalfWritten}]
WorkPositions ==
  {"idle", "payload", "whole", "described", "hide", "show", "describe", "updated", "limit"}

SeenIsFile(c) ==
  /\ c.pc \in {"open", "write"} => c.seen \in Content
  /\ c.pc \in {"openKeys", "writeKeys"} => c.seen \in SUBSET Id

FileTypes ==
  /\ config \in Content \cup {HalfWritten} /\ keys \in (SUBSET Id) \cup {HalfWritten}
  /\ meant \in [config : Content, keys : SUBSET Id]
  /\ cmd \in [Slot -> Asked] /\ mixed \in BOOLEAN
  /\ \A slot \in Slot : Config!Running(slot) =>
       /\ cmd[slot].id \in Id /\ cmd[slot].op \in {"add", "delete", "default"}
       /\ SeenIsFile(cmd[slot])

\* How far a command that runs alone has come: what it read is what the commands before it
\* amount to, and the files are that, or what it makes of it, or open for its writing.
Fits(c, file, auth, due) ==
  /\ c.pc \in {"read", "open"} => file = due.config
  /\ c.pc \in {"read", "open", "write", "readKeys", "openKeys"} => auth = due.keys
  /\ c.pc \in {"open", "write"} => c.seen = due.config
  /\ c.pc = "write" => file = HalfWritten
  /\ c.pc \in {"readKeys", "openKeys", "writeKeys", "end"} => file = Config!Changed(c, due.config)
  /\ c.pc \in {"openKeys", "writeKeys"} => c.seen = due.keys
  /\ c.pc = "writeKeys" => auth = HalfWritten
  /\ c.pc = "end" => auth = Config!ChangedKeys(c, due.keys)
  /\ c.pc \in {"readKeys", "openKeys", "writeKeys"} =>
       c.op = "delete" \/ (c.op = "add" /\ c.key # Absent)

\* As long as no command met another one, the one that runs fits the files.
OneByOne ==
  ~mixed =>
    /\ \A slot \in Slot, t \in Slot : Config!Running(slot) /\ Config!Running(t) => slot = t
    /\ \A slot \in Slot : Config!Running(slot) => Fits(cmd[slot], config, keys, meant)
    /\ (\A slot \in Slot : ~Config!Running(slot)) => config = meant.config /\ keys = meant.keys

BackupTypes ==
  /\ made \in Seq(Backup) /\ work \in [pc : WorkPositions, id : Nat]
  /\ answered \subseteq DOMAIN made
  /\ work.pc # "idle" => work.id \in DOMAIN made
  /\ work.pc = "idle" => work.id = 0

\* A described backup has a whole payload, and a copy is what it was taken of.
CopiesAreTrue ==
  \A i \in DOMAIN made :
    /\ made[i].meta = "whole" => made[i].payload # "part"
    /\ made[i].content = made[i].taken

\* A new backup is there before the old ones may go.
NewIsThere == work.pc = "limit" => Config!Listed(work.id)

Newer(i) == {j \in DOMAIN made \ {i} : made[j].created >= made[i].created}
Stays(i) == Config!Listed(i) \/ work.id = i \/ Cardinality(Newer(i)) >= Limit
BackupsStay == \A i \in answered \ cut : Stays(i)

FilesInv == FileTypes /\ OneByOne
BackupsInv == BackupTypes /\ CopiesAreTrue /\ NewIsThere /\ BackupsStay
ConfigInv == FilesInv /\ BackupsInv

\* What a command makes of a file is a file again, and is not one that is open.
LEMMA WhatIsMade ==
  /\ \A c \in Asked, x \in Content : c.id \in Id => Config!Changed(c, x) \in Content
  /\ \A c \in Asked, x \in SUBSET Id : c.id \in Id => Config!ChangedKeys(c, x) \in SUBSET Id
  /\ Config!Empty \in Content /\ HalfWritten \notin Content /\ HalfWritten \notin SUBSET Id
<1>1. ASSUME NEW c \in Asked, NEW x \in Content, c.id \in Id
      PROVE  Config!Changed(c, x) \in Content
  BY <1>1 DEF Config!Changed, Content
<1>2. ASSUME NEW c \in Asked, NEW x \in SUBSET Id, c.id \in Id
      PROVE  Config!ChangedKeys(c, x) \in SUBSET Id
  BY <1>2 DEF Config!ChangedKeys
<1>3. Config!Empty \in Content
  BY DEF Config!Empty, Content
<1>4. HalfWritten \notin SUBSET Id
  BY ConfigConstants
<1>5. HalfWritten \notin Content
  <2>1. ASSUME NEW f \in Content
        PROVE  /\ f = [providers |-> f.providers, primary |-> f.primary]
               /\ f.primary \in Id \cup {Absent} /\ f.providers \in SUBSET Id
    BY DEF Content
  <2>2. QED
    BY <2>1, ConfigConstants
<1>6. QED
  BY <1>1, <1>2, <1>3, <1>4, <1>5

\* The files of a command that runs alone, when it takes a step and the others rest.
LEMMA OneSteps ==
  ASSUME FilesInv, NEW slot \in Slot, NEW c \in Asked, cmd' = [cmd EXCEPT ![slot] = c],
         Config!Running(slot), c.pc # "idle", SeenIsFile(c), c.id \in Id,
         c.op \in {"add", "delete", "default"},
         config' \in Content \cup {HalfWritten}, keys' \in (SUBSET Id) \cup {HalfWritten},
         UNCHANGED <<meant, mixed>>,
         ~mixed => Fits(c, config', keys', meant')
  PROVE  FilesInv'
<1>1. /\ cmd' \in [Slot -> Asked] /\ cmd'[slot] = c
      /\ \A t \in Slot \ {slot} : cmd'[t] = cmd[t]
  BY DEF FilesInv, FileTypes
<1>2. Config!Running(slot)' /\ \A t \in Slot : Config!Running(t)' <=> Config!Running(t)
  BY <1>1 DEF Config!Running
<1>3. FileTypes'
  BY <1>1, <1>2 DEF FilesInv, FileTypes
<1>4. ASSUME ~mixed'
      PROVE  /\ \A x \in Slot, y \in Slot : Config!Running(x)' /\ Config!Running(y)' => x = y
             /\ \A x \in Slot : Config!Running(x)' => x = slot
  BY <1>2, <1>4 DEF FilesInv, OneByOne
<1>5. OneByOne'
  <2>1. SUFFICES ASSUME ~mixed'
                 PROVE  /\ \A x \in Slot, y \in Slot :
                             Config!Running(x)' /\ Config!Running(y)' => x = y
                        /\ \A x \in Slot : Config!Running(x)' =>
                             Fits(cmd'[x], config', keys', meant')
                        /\ (\A x \in Slot : ~Config!Running(x)') =>
                             config' = meant'.config /\ keys' = meant'.keys
    BY DEF OneByOne
  <2>2. ASSUME NEW x \in Slot, Config!Running(x)'
        PROVE  Fits(cmd'[x], config', keys', meant')
    <3>1. x = slot /\ ~mixed
      BY <1>4, <2>1, <2>2
    <3>2. QED
      BY <1>1, <3>1 DEF Fits
  <2>3. QED
    BY <1>2, <1>4, <2>1, <2>2
<1>6. QED
  BY <1>3, <1>5 DEF FilesInv

\* The phone's command, of which a new one starts.
LEMMA CommandKeeps ==
  ASSUME FilesInv, NEW slot \in Slot, NEW does \in {"add", "delete", "default"}, NEW id \in Id,
         NEW key \in {Absent, Config!ValidKey}, Config!Command(slot, does, id, key)
  PROVE  FilesInv'
<1>1. CASE UNCHANGED <<cmd, mixed>>
  BY <1>1 DEF Config!Command, FilesInv, FileTypes, OneByOne, Fits, Config!Running,
       Config!Changed, Config!ChangedKeys
<1>2. CASE ~UNCHANGED <<cmd, mixed>>
  <2> DEFINE first == IF does = "default" \/ id \notin BuiltIn THEN "read"
                      ELSE IF does = "add" /\ key = Absent THEN "end" ELSE "readKeys"
             c == [pc |-> first, op |-> does, id |-> id, key |-> key, seen |-> Absent]
  <2>1. /\ cmd' = [cmd EXCEPT ![slot] = c] /\ ~Config!Running(slot)
        /\ mixed' = (mixed \/ \E t \in Slot : Config!Running(t))
        /\ UNCHANGED <<config, keys, meant>>
    BY <1>2 DEF Config!Command
  <2>0. /\ first \in {"read", "end", "readKeys"}
        /\ first # "read" => does # "default" /\ id \in BuiltIn
        /\ first = "end" => does = "add" /\ key = Absent
        /\ first = "readKeys" => does = "delete" \/ (does = "add" /\ key # Absent)
    OBVIOUS
  <2> HIDE DEF first
  <2>2. c \in Asked /\ c.pc = first /\ c.op = does /\ c.id = id /\ c.key = key
    <3>1. first \in CommandPositions /\ Absent \in Seen
      BY <2>0 DEF CommandPositions, Seen
    <3>2. c \in Asked
      BY <3>1 DEF Asked
    <3>3. QED
      BY <3>2
  <2> HIDE DEF c
  <2>3. /\ cmd' \in [Slot -> Asked] /\ cmd'[slot] = c
        /\ \A t \in Slot \ {slot} : cmd'[t] = cmd[t]
    BY <2>1, <2>2 DEF FilesInv, FileTypes
  <2>4. FileTypes'
    <3>1. SeenIsFile(c)
      BY <2>0, <2>2 DEF SeenIsFile
    <3>2. QED
      BY <2>1, <2>2, <2>3, <3>1 DEF FilesInv, FileTypes, Config!Running
  <2>5. ASSUME ~mixed'
        PROVE  /\ ~mixed /\ \A t \in Slot : ~Config!Running(t)
               /\ config = meant.config /\ keys = meant.keys
    BY <2>1, <2>5 DEF FilesInv, OneByOne
  <2>6. ASSUME ~mixed'
        PROVE  Fits(c, config', keys', meant')
    <3>1. meant' = meant /\ config' = meant.config /\ keys' = meant.keys
      BY <2>1, <2>5, <2>6
    <3>2. first # "read" => Config!Changed(c, meant.config) = meant.config
      BY <2>0, <2>2 DEF Config!Changed
    <3>3. first = "end" => Config!ChangedKeys(c, meant.keys) = meant.keys
      BY <2>0, <2>2 DEF Config!ChangedKeys
    <3>4. QED
      BY <2>0, <2>2, <3>1, <3>2, <3>3 DEF Fits
  <2>7. OneByOne'
    <3>1. ASSUME NEW x \in Slot, Config!Running(x)', ~mixed'
          PROVE  x = slot /\ Fits(cmd'[x], config', keys', meant')
      <4>1. x = slot
        BY <2>3, <2>5, <3>1 DEF Config!Running
      <4>2. QED
        BY <2>3, <2>6, <3>1, <4>1 DEF Fits
    <3>2. Config!Running(slot)'
      BY <2>0, <2>2, <2>3 DEF Config!Running
    <3>3. QED
      BY <3>1, <3>2 DEF OneByOne
  <2>8. QED
    BY <2>4, <2>7 DEF FilesInv
<1>3. QED
  BY <1>1, <1>2

\* What is known of a command that runs.
LEMMA RunningFacts ==
  ASSUME FilesInv, NEW slot \in Slot, Config!Running(slot)
  PROVE  /\ cmd[slot] \in Asked /\ cmd[slot].id \in Id
         /\ cmd[slot].op \in {"add", "delete", "default"}
         /\ cmd[slot].pc \in CommandPositions /\ cmd[slot].pc # "idle" /\ cmd[slot].seen \in Seen
         /\ SeenIsFile(cmd[slot])
         /\ config \in Content \cup {HalfWritten} /\ keys \in (SUBSET Id) \cup {HalfWritten}
         /\ meant.config \in Content /\ meant.keys \in SUBSET Id
         /\ ~mixed => Fits(cmd[slot], config, keys, meant)
  BY DEF FilesInv, FileTypes, OneByOne, Config!Running, Asked

\* A command reads one of the files.
LEMMA ReadKeeps ==
  ASSUME FilesInv, NEW slot \in Slot, Config!Read(slot)
  PROVE  FilesInv'
<1> DEFINE to == IF cmd[slot].pc = "read" THEN "open" ELSE "openKeys"
           seen == IF cmd[slot].pc = "read" THEN Config!Json(config, Config!Empty)
                    ELSE Config!Json(keys, {})
           c == [cmd[slot] EXCEPT !.pc = to, !.seen = seen]
<1>1. /\ cmd[slot].pc \in {"read", "readKeys"} /\ Config!Running(slot)
      /\ cmd' = [cmd EXCEPT ![slot] = c] /\ UNCHANGED <<config, keys, meant, mixed>>
  BY DEF Config!Read, Config!Running
<1>2. to \in CommandPositions /\ seen \in Seen
  BY <1>1, WhatIsMade, RunningFacts DEF CommandPositions, Seen, Config!Json
<1>3. ~mixed => seen = IF cmd[slot].pc = "read" THEN meant.config ELSE meant.keys
  BY <1>1, WhatIsMade, RunningFacts DEF Fits, Config!Json
<1>4. to = IF cmd[slot].pc = "read" THEN "open" ELSE "openKeys"
  OBVIOUS
<1>0. IF cmd[slot].pc = "read" THEN seen \in Content ELSE seen \in SUBSET Id
  BY <1>1, WhatIsMade, RunningFacts DEF Config!Json
<1> HIDE DEF to, seen
<1>5. /\ c \in Asked /\ c.pc = to /\ c.seen = seen
      /\ c.op = cmd[slot].op /\ c.id = cmd[slot].id /\ c.key = cmd[slot].key
  BY <1>1, <1>2, RunningFacts DEF Asked
<1> HIDE DEF c
<1>6. ~mixed => Fits(c, config', keys', meant')
  BY <1>1, <1>3, <1>4, <1>5, RunningFacts DEF Fits, Config!Changed
<1>7. SeenIsFile(c) /\ c.pc # "idle"
  BY <1>0, <1>4, <1>5 DEF SeenIsFile
<1>8. QED
  BY <1>1, <1>5, <1>6, <1>7, RunningFacts, OneSteps

\* A command opens one of the files, or leaves the keys alone.
LEMMA OpenKeeps ==
  ASSUME FilesInv, NEW slot \in Slot, Config!Open(slot)
  PROVE  FilesInv'
<1>1. cmd[slot].pc \in {"open", "openKeys"} /\ Config!Running(slot)
      /\ UNCHANGED <<meant, mixed>>
  BY DEF Config!Open, Config!Running
<1>2. ASSUME NEW to \in {"write", "writeKeys", "end"}, cmd' = [cmd EXCEPT ![slot].pc = to],
             \/ to = "write" /\ cmd[slot].pc = "open" /\ config' = HalfWritten /\ keys' = keys
             \/ to = "writeKeys" /\ cmd[slot].pc = "openKeys" /\ config' = config
                 /\ keys' = HalfWritten
             \/ /\ to = "end" /\ cmd[slot].pc = "openKeys" /\ config' = config
                 /\ keys' = keys
                /\ cmd[slot].key = Absent /\ cmd[slot].id \notin cmd[slot].seen
      PROVE  FilesInv'
  <2> DEFINE c == [cmd[slot] EXCEPT !.pc = to]
  <2>1. cmd' = [cmd EXCEPT ![slot] = c]
    BY <1>2
  <2>2. /\ c \in Asked /\ c.pc = to /\ c.seen = cmd[slot].seen
        /\ c.op = cmd[slot].op /\ c.id = cmd[slot].id /\ c.key = cmd[slot].key
    BY <1>1, RunningFacts DEF Asked, CommandPositions
  <2> HIDE DEF c
  <2>3. ASSUME ~mixed
        PROVE  Fits(c, config', keys', meant')
    <3>1. Fits(cmd[slot], config, keys, meant) /\ meant' = meant
      BY <1>1, <2>3, RunningFacts
    <3>2. Config!Changed(c, meant.config) = Config!Changed(cmd[slot], meant.config)
      BY <2>2 DEF Config!Changed
    <3>3. CASE to = "write"
      BY <1>1, <1>2, <2>2, <3>1, <3>3 DEF Fits
    <3>4. CASE to = "writeKeys"
      BY <1>1, <1>2, <2>2, <3>1, <3>2, <3>4 DEF Fits
    <3>5. CASE to = "end"
      <4>1. /\ cmd[slot].pc = "openKeys" /\ config' = config
                 /\ keys' = keys /\ c.key = Absent
            /\ c.id \notin cmd[slot].seen
        BY <1>2, <2>2, <3>5
      <4>2. cmd[slot].seen = meant.keys /\ keys = meant.keys /\ c.op = "delete"
            /\ config = Config!Changed(cmd[slot], meant.config)
        BY <2>2, <3>1, <4>1 DEF Fits
      <4>3. Config!ChangedKeys(c, meant.keys) = meant.keys
        BY <4>1, <4>2, <1>1, RunningFacts DEF Config!ChangedKeys
      <4>4. QED
        BY <2>2, <3>1, <3>2, <3>5, <4>1, <4>2, <4>3 DEF Fits
    <3>6. QED
      BY <1>2, <3>3, <3>4, <3>5
  <2>4. SeenIsFile(c)
    BY <1>1, <1>2, <2>2, RunningFacts DEF SeenIsFile
  <2>5. /\ c.pc # "idle" /\ config' \in Content \cup {HalfWritten}
        /\ keys' \in (SUBSET Id) \cup {HalfWritten}
    BY <1>1, <1>2, <2>2, RunningFacts
  <2>6. QED
    BY <1>1, <2>1, <2>2, <2>3, <2>4, <2>5, RunningFacts, OneSteps
<1>3. QED
  BY <1>2 DEF Config!Open

\* A command writes a file.
LEMMA WriteKeeps ==
  ASSUME FilesInv, NEW slot \in Slot, Config!Write(slot)
  PROVE  FilesInv'
<1>1. /\ cmd[slot].pc \in {"write", "writeKeys"} /\ Config!Running(slot)
      /\ UNCHANGED <<meant, mixed>>
      /\ cmd' = [cmd EXCEPT ![slot] =
                    [cmd[slot] EXCEPT !.pc = Config!After(cmd[slot]), !.seen = Absent]]
      /\ \/ /\ cmd[slot].pc = "write" /\ keys' = keys
            /\ config' \in Config!Written(config, Config!Changed(cmd[slot], cmd[slot].seen))
         \/ /\ cmd[slot].pc = "writeKeys" /\ config' = config
            /\ keys' \in Config!Written(keys, Config!ChangedKeys(cmd[slot], cmd[slot].seen))
  BY DEF Config!Write, Config!Running
<1>2. PICK old : old = cmd[slot]
  OBVIOUS
<1> DEFINE c == [old EXCEPT !.pc = Config!After(old), !.seen = Absent]
<1>3. /\ old \in Asked /\ old.id \in Id /\ old.op \in {"add", "delete", "default"}
      /\ config \in Content \cup {HalfWritten} /\ keys \in (SUBSET Id) \cup {HalfWritten}
      /\ meant.config \in Content /\ meant.keys \in SUBSET Id
      /\ (~mixed => Fits(old, config, keys, meant)) /\ SeenIsFile(old)
  BY <1>1, <1>2, RunningFacts
<1>4. /\ Config!After(old) \in {"readKeys", "end"} /\ Absent \in Seen
      /\ old.pc = "writeKeys" => Config!After(old) = "end"
      /\ Config!After(old) = "readKeys" =>
           old.op = "delete" \/ (old.op = "add" /\ old.key # Absent)
      /\ old.pc = "write" /\ Config!After(old) = "end" =>
           old.op = "default" \/ (old.op = "add" /\ old.key = Absent)
  BY <1>1, <1>2, <1>3 DEF Config!After, Seen
<1>5. /\ c \in Asked /\ c.pc = Config!After(old)
      /\ c.op = old.op /\ c.id = old.id /\ c.key = old.key
  BY <1>3, <1>4 DEF Asked, CommandPositions
<1>6. cmd' = [cmd EXCEPT ![slot] = c]
  BY <1>1, <1>2
<1> HIDE DEF c
<1>7. /\ Config!Changed(c, meant.config) = Config!Changed(old, meant.config)
      /\ Config!ChangedKeys(c, meant.keys) = Config!ChangedKeys(old, meant.keys)
  BY <1>5 DEF Config!Changed, Config!ChangedKeys
<1>0. SeenIsFile(c) /\ c.pc # "idle"
  BY <1>4, <1>5 DEF SeenIsFile
<1>8. CASE old.pc = "write"
  <2>1. keys' = keys /\ config' \in Config!Written(config, Config!Changed(old, old.seen))
    BY <1>1, <1>2, <1>8
  <2>2. ~mixed => config' = Config!Changed(old, meant.config) /\ keys = meant.keys
    BY <1>3, <1>8, <2>1 DEF Fits, Config!Written
  <2>3. Config!After(old) = "end" => Config!ChangedKeys(old, meant.keys) = meant.keys
    BY <1>4, <1>8 DEF Config!ChangedKeys
  <2>4. ~mixed => Fits(c, config', keys', meant')
    BY <1>1, <1>4, <1>5, <1>7, <2>1, <2>2, <2>3 DEF Fits
  <2>5. config' \in Content \cup {HalfWritten} /\ keys' \in (SUBSET Id) \cup {HalfWritten}
    BY <1>3, <1>8, <2>1, WhatIsMade DEF Config!Written, SeenIsFile
  <2>6. QED
    BY <1>0, <1>1, <1>3, <1>5, <1>6, <2>4, <2>5, OneSteps
<1>9. CASE old.pc = "writeKeys"
  <2>1. config' = config /\ keys' \in Config!Written(keys, Config!ChangedKeys(old, old.seen))
    BY <1>1, <1>2, <1>9
  <2>2. ~mixed => /\ keys' = Config!ChangedKeys(old, meant.keys)
                   /\ config = Config!Changed(old, meant.config)
    BY <1>3, <1>9, <2>1 DEF Fits, Config!Written
  <2>3. ~mixed => Fits(c, config', keys', meant')
    BY <1>1, <1>4, <1>5, <1>7, <1>9, <2>1, <2>2 DEF Fits
  <2>4. config' \in Content \cup {HalfWritten} /\ keys' \in (SUBSET Id) \cup {HalfWritten}
    BY <1>3, <1>9, <2>1, WhatIsMade DEF Config!Written, SeenIsFile
  <2>5. QED
    BY <1>0, <1>1, <1>3, <1>5, <1>6, <2>3, <2>4, OneSteps
<1>10. QED
  BY <1>1, <1>2, <1>8, <1>9

\* A command is answered, and counts from then on.
LEMMA AnswerKeeps ==
  ASSUME FilesInv, NEW slot \in Slot, Config!Answer(slot)
  PROVE  FilesInv'
<1>1. PICK old : old = cmd[slot]
  OBVIOUS
<1>2. /\ old.pc = "end" /\ Config!Running(slot) /\ UNCHANGED <<config, keys, mixed>>
      /\ cmd' = [cmd EXCEPT ![slot] = Config!Rest]
      /\ meant' = [config |-> Config!Changed(old, meant.config),
                   keys |-> Config!ChangedKeys(old, meant.keys)]
  BY <1>1 DEF Config!Answer, Config!Running, Config!ChangedKeys
<1>3. /\ old \in Asked /\ old.id \in Id
      /\ meant.config \in Content /\ meant.keys \in SUBSET Id
      /\ ~mixed => Fits(old, config, keys, meant)
  BY <1>1, <1>2, RunningFacts
<1>4. /\ Config!Changed(old, meant.config) \in Content
      /\ Config!ChangedKeys(old, meant.keys) \in SUBSET Id
      /\ Config!Rest \in Asked /\ Config!Rest.pc = "idle"
  BY <1>3, WhatIsMade DEF Config!Rest, Asked, CommandPositions, Seen
<1>5. /\ cmd' \in [Slot -> Asked] /\ cmd'[slot] = Config!Rest
      /\ \A t \in Slot \ {slot} : cmd'[t] = cmd[t]
  BY <1>2, <1>4 DEF FilesInv, FileTypes
<1>6. ~Config!Running(slot)' /\ \A t \in Slot \ {slot} : Config!Running(t)' <=> Config!Running(t)
  BY <1>4, <1>5 DEF Config!Running
<1>7. FileTypes'
  BY <1>2, <1>4, <1>5, <1>6 DEF FilesInv, FileTypes
<1>8. ASSUME ~mixed'
      PROVE  /\ \A t \in Slot : ~Config!Running(t)'
             /\ config' = meant'.config /\ keys' = meant'.keys
  <2>1. \A t \in Slot : Config!Running(t) => t = slot
    BY <1>2, <1>8 DEF FilesInv, OneByOne
  <2>2. config = Config!Changed(old, meant.config) /\ keys = Config!ChangedKeys(old, meant.keys)
    BY <1>2, <1>3, <1>8 DEF Fits
  <2>3. QED
    BY <1>2, <1>6, <2>1, <2>2
<1>9. OneByOne'
  BY <1>8 DEF OneByOne
<1>10. QED
  BY <1>7, <1>9 DEF FilesInv

\* The process dies, or a backup is put in the place of openclaw.json.
LEMMA OthersKeep ==
  ASSUME FilesInv, BackupTypes, CopiesAreTrue,
         \/ Config!Create \/ Config!Work \/ Config!Enforce \/ Config!Die
         \/ \E i \in DOMAIN made : Config!Update(i) \/ Config!Delete(i) \/ Config!Restore(i)
         \/ UNCHANGED Config!vars
  PROVE  FilesInv'
<1>1. CASE UNCHANGED <<config, keys, cmd, meant, mixed>>
  BY <1>1 DEF FilesInv, FileTypes, OneByOne, Config!Running
<1>2. CASE Config!Die
  <2>1. /\ cmd' = [slot \in Slot |-> Config!Rest] /\ UNCHANGED <<config, keys, meant>>
        /\ mixed' = (mixed \/ \E slot \in Slot : Config!Running(slot))
    BY <1>2 DEF Config!Die
  <2>2. Config!Rest \in Asked /\ Config!Rest.pc = "idle"
    BY DEF Config!Rest, Asked, CommandPositions, Seen
  <2>3. cmd' \in [Slot -> Asked] /\ \A slot \in Slot : ~Config!Running(slot)'
    BY <2>1, <2>2 DEF Config!Running
  <2>4. FileTypes'
    BY <2>1, <2>3 DEF FilesInv, FileTypes
  <2>5. ~mixed' => config' = meant'.config /\ keys' = meant'.keys
    BY <2>1 DEF FilesInv, OneByOne
  <2>6. OneByOne'
    BY <2>3, <2>5 DEF OneByOne
  <2>7. QED
    BY <2>4, <2>6 DEF FilesInv
<1>3. ASSUME NEW i \in DOMAIN made, Config!Restore(i)
      PROVE  FilesInv'
  <2>1. PICK copy : copy = made[i].taken
    OBVIOUS
  <2>2. /\ config' = copy /\ meant' = [meant EXCEPT !.config = Config!Json(copy, Config!Empty)]
        /\ mixed' = (mixed \/ copy = HalfWritten \/ \E slot \in Slot : Config!Running(slot))
        /\ UNCHANGED <<keys, cmd>>
    BY <1>3, <2>1 DEF Config!Restore, CopiesAreTrue
  <2>3. copy \in Content \cup {HalfWritten}
    <3>1. made[i] \in Backup
      BY DEF BackupTypes
    <3>2. QED
      BY <2>1, <3>1 DEF Backup
  <2>4. Config!Json(copy, Config!Empty) \in Content
    BY <2>3, WhatIsMade DEF Config!Json
  <2>5. \A slot \in Slot : Config!Running(slot)' <=> Config!Running(slot)
    BY <2>2 DEF Config!Running
  <2>6. /\ meant' \in [config : Content, keys : SUBSET Id]
        /\ meant'.config = Config!Json(copy, Config!Empty) /\ meant'.keys = meant.keys
    BY <2>2, <2>4 DEF FilesInv, FileTypes
  <2>7. FileTypes'
    BY <2>2, <2>3, <2>5, <2>6 DEF FilesInv, FileTypes
  <2>8. ASSUME ~mixed'
        PROVE  /\ \A slot \in Slot : ~Config!Running(slot)'
               /\ config' = meant'.config /\ keys' = meant'.keys
    BY <2>2, <2>5, <2>6, <2>8 DEF FilesInv, OneByOne, Config!Json
  <2>9. OneByOne'
    BY <2>8 DEF OneByOne
  <2>10. QED
    BY <2>7, <2>9 DEF FilesInv
<1>4. QED
  BY <1>1, <1>2, <1>3 DEF Config!Create, Config!Work, Config!Enforce, Config!Update,
       Config!Delete, Config!vars

\* The shape of the list of backups.
LEMMA MadeShape ==
  ASSUME BackupTypes
  PROVE  /\ Len(made) \in Nat /\ DOMAIN made = 1..Len(made)
         /\ \A i \in DOMAIN made : made[i] \in Backup /\ i \in Nat \ {0}
         /\ work.pc \in WorkPositions /\ work.id \in Nat
  BY DEF BackupTypes

\* As long as backups are only added and keep their time, none gets fewer newer ones.
LEMMA NewerStays ==
  ASSUME BackupTypes, made' \in Seq(Backup), Len(made) <= Len(made'), NEW i \in DOMAIN made,
         \A j \in DOMAIN made : made'[j].created = made[j].created
  PROVE  Cardinality(Newer(i)) >= Limit => Cardinality(Newer(i)') >= Limit
<1>1. /\ DOMAIN made = 1..Len(made) /\ DOMAIN made' = 1..Len(made')
      /\ Len(made) \in Nat /\ Len(made') \in Nat
  BY MadeShape
<1>2. Newer(i) \subseteq Newer(i)'
  BY <1>1 DEF Newer
<1>3. IsFiniteSet(Newer(i)')
  <2>1. IsFiniteSet(1..Len(made'))
    BY <1>1, FS_Interval
  <2>2. Newer(i)' \subseteq 1..Len(made')
    BY <1>1 DEF Newer
  <2>3. QED
    BY <2>1, <2>2, FS_Subset
<1>4. Cardinality(Newer(i)) <= Cardinality(Newer(i)') /\ IsFiniteSet(Newer(i))
  BY <1>2, <1>3, FS_Subset
<1>5. Cardinality(Newer(i)) \in Nat /\ Cardinality(Newer(i)') \in Nat
  BY <1>3, <1>4, FS_CardinalityType
<1>6. QED
  BY <1>4, <1>5, ConfigConstants

\* A new backup is begun.
LEMMA CreateKeeps ==
  ASSUME FilesInv, BackupsInv, Config!Create
  PROVE  BackupsInv'
<1>1. PICK now \in 1..MaxConfigClock :
        made' = Append(made, [payload |-> "none", meta |-> "none", created |-> now,
                              content |-> config, taken |-> config])
  BY DEF Config!Create
<1> DEFINE b == [payload |-> "none", meta |-> "none", created |-> now,
                 content |-> config, taken |-> config]
<1>2. /\ work.pc = "idle" /\ UNCHANGED <<answered, cut>>
      /\ work' = [pc |-> "payload", id |-> Len(made) + 1]
  BY DEF Config!Create, Config!Idle, Config!Begin
<1>3. /\ Len(made) \in Nat /\ DOMAIN made = 1..Len(made) /\ made \in Seq(Backup)
      /\ work.id = 0
  BY <1>2, MadeShape DEF BackupsInv, BackupTypes
<1>4. b \in Backup
  BY ConfigConstants DEF Backup, FilesInv, FileTypes
<1>5. b.meta = "none" /\ b.content = b.taken
  OBVIOUS
<1> HIDE DEF b
<1>6. /\ made' \in Seq(Backup) /\ Len(made') = Len(made) + 1 /\ made'[Len(made) + 1] = b
      /\ DOMAIN made' = 1..(Len(made) + 1)
      /\ \A i \in 1..Len(made) : made'[i] = made[i]
  BY <1>1, <1>3, <1>4 DEF b
<1>7. BackupTypes'
  BY <1>2, <1>3, <1>6 DEF BackupsInv, BackupTypes, WorkPositions
<1>8. CopiesAreTrue'
  BY <1>3, <1>5, <1>6 DEF BackupsInv, CopiesAreTrue
<1>9. NewIsThere'
  BY <1>2 DEF NewIsThere
<1>10. BackupsStay'
  <2>1. ASSUME NEW i \in answered \ cut
        PROVE  Stays(i)'
    <3>1. i \in 1..Len(made) /\ Stays(i) /\ i # 0
      BY <1>3 DEF BackupsInv, BackupTypes, BackupsStay
    <3>2. CASE Config!Listed(i)
      BY <1>6, <3>1, <3>2 DEF Stays, Config!Listed
    <3>3. CASE Cardinality(Newer(i)) >= Limit
      BY <1>3, <1>6, <3>1, <3>3, NewerStays DEF Stays, BackupsInv
    <3>4. QED
      BY <1>3, <3>1, <3>2, <3>3 DEF Stays
  <2>2. QED
    BY <1>2, <2>1 DEF BackupsStay
<1>11. QED
  BY <1>7, <1>8, <1>9, <1>10 DEF BackupsInv

\* The payloads and descriptions of some backups change, and nothing else of them: what they
\* are copies of stays, and a backup that stays as it is stays on.
LEMMA ChangeKeeps ==
  ASSUME BackupsInv, made' \in Seq(Backup), Len(made') = Len(made),
         \A i \in DOMAIN made : /\ made'[i].created = made[i].created
                                /\ made'[i].content = made[i].content
                                /\ made'[i].taken = made[i].taken
                                /\ made'[i].meta = "whole" => made'[i].payload # "part",
         work' \in [pc : WorkPositions, id : Nat], answered' \subseteq DOMAIN made,
         work'.pc # "idle" => work'.id \in DOMAIN made,
         work'.pc = "idle" => work'.id = 0,
         NewIsThere',
         \A i \in answered' \ cut' :
           \/ Config!Listed(i)' \/ work'.id = i
           \/ Cardinality(Newer(i)') >= Limit
           \/ i \in answered \ cut /\ ~Config!Listed(i) /\ work.id # i
  PROVE  BackupsInv'
<1>1. /\ DOMAIN made = 1..Len(made) /\ DOMAIN made' = 1..Len(made) /\ Len(made) \in Nat
      /\ BackupTypes
  BY MadeShape DEF BackupsInv
<1>2. BackupTypes'
  BY <1>1 DEF BackupTypes
<1>3. CopiesAreTrue'
  BY <1>1 DEF BackupsInv, CopiesAreTrue
<1>4. ASSUME NEW i \in answered' \ cut'
      PROVE  Stays(i)'
  <2>1. CASE i \in answered \ cut /\ ~Config!Listed(i) /\ work.id # i
    <3>1. Cardinality(Newer(i)) >= Limit /\ i \in DOMAIN made
      BY <2>1 DEF BackupsInv, BackupTypes, BackupsStay, Stays
    <3>2. Cardinality(Newer(i)') >= Limit
      BY <1>1, <3>1, NewerStays
    <3>3. QED
      BY <3>2 DEF Stays
  <2>2. QED
    BY <2>1 DEF Stays
<1>5. BackupsStay'
  BY <1>4 DEF BackupsStay
<1>6. QED
  BY <1>2, <1>3, <1>5 DEF BackupsInv

\* A step of the writing of a backup.
LEMMA WorkKeeps ==
  ASSUME BackupsInv, Config!Work
  PROVE  BackupsInv'
<1>1. PICK step : step = Config!Steps[work.pc]
  OBVIOUS
<1>2. PICK k : k = work.id
  OBVIOUS
<1>3. /\ work.pc \in DOMAIN Config!Steps /\ cut' = cut
      /\ made' = [made EXCEPT ![k].payload = step.payload, ![k].meta = step.meta]
      /\ work' = [pc |-> step.next, id |-> IF step.next = "idle" THEN 0 ELSE k]
      /\ answered' = answered \cup (IF step.next = "idle" THEN {k} ELSE {})
  BY <1>1, <1>2 DEF Config!Work
<1>4. /\ step.payload \in {"none", "part", "there", "hidden"}
      /\ step.meta \in {"none", "torn", "whole"} /\ step.next \in WorkPositions
      /\ step.meta = "whole" => step.payload # "part"
      /\ step.next \in {"idle", "limit"} => step.meta = "whole" /\ step.payload = "there"
  BY <1>1, <1>3 DEF Config!Steps, WorkPositions
<1>5. work.pc # "idle"
  BY <1>3 DEF Config!Steps
<1>6. /\ k \in DOMAIN made /\ DOMAIN made = 1..Len(made) /\ Len(made) \in Nat
      /\ made \in Seq(Backup) /\ k \in Nat \ {0} /\ made[k] \in Backup
      /\ answered \subseteq DOMAIN made
  BY <1>2, <1>5, MadeShape DEF BackupsInv, BackupTypes
<1> DEFINE b == [made[k] EXCEPT !.payload = step.payload, !.meta = step.meta]
<1>7. /\ b \in Backup /\ b.payload = step.payload /\ b.meta = step.meta
      /\ b.created = made[k].created /\ b.content = made[k].content /\ b.taken = made[k].taken
  BY <1>4, <1>6 DEF Backup
<1>8. made' = [made EXCEPT ![k] = b]
  BY <1>3
<1> HIDE DEF b
<1>9. /\ made' \in Seq(Backup) /\ Len(made') = Len(made) /\ made'[k] = b
      /\ \A i \in DOMAIN made \ {k} : made'[i] = made[i]
  BY <1>6, <1>7, <1>8
<1>10. \A i \in DOMAIN made : /\ made'[i].created = made[i].created
                              /\ made'[i].content = made[i].content
                              /\ made'[i].taken = made[i].taken
                              /\ made'[i].meta = "whole" => made'[i].payload # "part"
  BY <1>4, <1>7, <1>9 DEF BackupsInv, CopiesAreTrue
<1>11. /\ work' \in [pc : WorkPositions, id : Nat] /\ answered' \subseteq DOMAIN made
       /\ work'.pc = step.next /\ work'.id = IF step.next = "idle" THEN 0 ELSE k
  BY <1>3, <1>4, <1>6
<1>12. NewIsThere'
  BY <1>4, <1>7, <1>9, <1>11 DEF NewIsThere, Config!Listed
<1>13. ASSUME NEW i \in answered' \ cut'
       PROVE  \/ Config!Listed(i)' \/ work'.id = i
              \/ Cardinality(Newer(i)') >= Limit
              \/ i \in answered \ cut /\ ~Config!Listed(i) /\ work.id # i
  <2>1. CASE i = k
    BY <1>4, <1>7, <1>9, <1>11, <2>1 DEF Config!Listed
  <2>2. CASE i # k
    <3>1. i \in answered \ cut /\ made'[i] = made[i] /\ work.id # i
      BY <1>2, <1>3, <1>6, <1>9, <2>2
    <3>2. Config!Listed(i) => Config!Listed(i)'
      BY <3>1 DEF Config!Listed
    <3>3. QED
      BY <3>1, <3>2
  <2>3. QED
    BY <2>1, <2>2
<1>14. QED
  BY <1>6, <1>9, <1>10, <1>11, <1>12, <1>13, ChangeKeeps

\* The cardinality the module of the commands speaks of is the usual one.
LEMMA SameCardinality == \A S : Config!Cardinality(S) = Cardinality(S)
  BY DEF Config!Cardinality, Cardinality, Config!IsFiniteSet, IsFiniteSet

\* The oldest backups go where there are too many.
LEMMA EnforceKeeps ==
  ASSUME BackupsInv, Config!Enforce
  PROVE  BackupsInv'
<1>1. PICK some \in SUBSET Config!AllListed :
        /\ Cardinality(some) = Config!Kept
        /\ \A i \in some, j \in Config!AllListed \ some : made[i].created >= made[j].created
        /\ made' = [i \in DOMAIN made |->
                      IF i \in Config!AllListed \ some
                      THEN [made[i] EXCEPT !.payload = "none", !.meta = "none"]
                      ELSE made[i]]
        /\ answered' = answered \cup ({work.id} \cap some)
  BY SameCardinality DEF Config!Enforce
<1>2. work.pc = "limit" /\ work' = [pc |-> "idle", id |-> 0] /\ cut' = cut
  BY DEF Config!Enforce
<1>3. /\ DOMAIN made = 1..Len(made) /\ Len(made) \in Nat /\ made \in Seq(Backup)
      /\ \A i \in DOMAIN made : made[i] \in Backup /\ i \in Nat \ {0}
      /\ answered \subseteq DOMAIN made /\ Config!AllListed \subseteq DOMAIN made
      /\ Config!Listed(work.id)
  BY <1>2, MadeShape DEF BackupsInv, BackupTypes, Config!AllListed, NewIsThere
<1>4. \A i \in DOMAIN made :
        /\ made'[i] \in Backup /\ made'[i].created = made[i].created
        /\ made'[i].content = made[i].content /\ made'[i].taken = made[i].taken
        /\ i \notin Config!AllListed \ some => made'[i] = made[i]
        /\ made'[i] = made[i] \/ made'[i].meta = "none"
  BY <1>1, <1>3 DEF Backup
<1>5. made' \in Seq(Backup) /\ Len(made') = Len(made) /\ DOMAIN made' = DOMAIN made
  <2>1. made' \in [1..Len(made) -> Backup]
    BY <1>1, <1>3, <1>4
  <2>2. QED
    BY <1>3, <2>1
<1>6. \A i \in DOMAIN made : made'[i].meta = "whole" => made'[i].payload # "part"
  BY <1>4 DEF BackupsInv, CopiesAreTrue
<1>7. /\ work' \in [pc : WorkPositions, id : Nat] /\ answered' \subseteq DOMAIN made
      /\ work'.pc = "idle" /\ work'.id = 0
  BY <1>1, <1>2, <1>3 DEF WorkPositions
<1>8. ASSUME NEW i \in answered' \ cut'
      PROVE  \/ Config!Listed(i)' \/ work'.id = i
             \/ Cardinality(Newer(i)') >= Limit
             \/ i \in answered \ cut /\ ~Config!Listed(i) /\ work.id # i
  <2>1. CASE i \in Config!AllListed \ some
    <3>0. IsFiniteSet(1..Len(made))
      BY <1>3, FS_Interval
    <3>1. IsFiniteSet(Config!AllListed)
      BY <1>3, <3>0, FS_Subset
    <3>2. some \subseteq Config!AllListed \ {i} /\ some \subseteq Newer(i)'
      BY <1>1, <1>3, <1>4, <1>5, <2>1 DEF Newer
    <3>3. /\ Cardinality(some) # Cardinality(Config!AllListed)
          /\ Cardinality(Config!AllListed) \in Nat
      BY <2>1, <3>1, <3>2, FS_Subset, FS_CardinalityType
    <3>4. Cardinality(some) = Limit
      BY <1>1, <3>3, SameCardinality DEF Config!Kept
    <3>5. IsFiniteSet(Newer(i)')
      <4>1. Newer(i)' \subseteq 1..Len(made)
        BY <1>3, <1>5 DEF Newer
      <4>2. QED
        BY <3>0, <4>1, FS_Subset
    <3>6. Cardinality(some) <= Cardinality(Newer(i)')
      BY <3>2, <3>5, FS_Subset
    <3>7. Cardinality(Newer(i)') \in Nat
      BY <3>5, FS_CardinalityType
    <3>8. QED
      BY <3>4, <3>6, <3>7, ConfigConstants
  <2>2. CASE i \notin Config!AllListed \ some
    <3>1. i \in DOMAIN made /\ made'[i] = made[i]
      BY <1>1, <1>3, <1>4, <2>2
    <3>2. CASE Config!Listed(i)
      BY <3>1, <3>2 DEF Config!Listed
    <3>3. CASE ~Config!Listed(i)
      BY <1>1, <1>2, <1>3, <3>3 DEF Config!AllListed
    <3>4. QED
      BY <3>2, <3>3
  <2>3. QED
    BY <2>1, <2>2
<1>9. NewIsThere'
  BY <1>2 DEF NewIsThere
<1>10. QED
  BY <1>3, <1>4, <1>5, <1>6, <1>7, <1>8, <1>9, ChangeKeeps

\* The phone deletes a backup.
LEMMA DeleteKeeps ==
  ASSUME BackupsInv, NEW k \in DOMAIN made, Config!Delete(k)
  PROVE  BackupsInv'
<1>1. /\ made' = [made EXCEPT ![k].payload = "none", ![k].meta = "none"]
      /\ answered' = answered \ {k} /\ UNCHANGED <<work, cut>> /\ work.pc = "idle"
  BY DEF Config!Delete, Config!Idle
<1>2. /\ DOMAIN made = 1..Len(made) /\ Len(made) \in Nat /\ made \in Seq(Backup)
      /\ made[k] \in Backup /\ answered \subseteq DOMAIN made
      /\ work \in [pc : WorkPositions, id : Nat] /\ work.id = 0 /\ 0 \notin DOMAIN made
  BY <1>1, MadeShape DEF BackupsInv, BackupTypes
<1> DEFINE b == [made[k] EXCEPT !.payload = "none", !.meta = "none"]
<1>3. /\ b \in Backup /\ b.meta = "none" /\ b.created = made[k].created
      /\ b.content = made[k].content /\ b.taken = made[k].taken
  BY <1>2 DEF Backup
<1>4. made' = [made EXCEPT ![k] = b]
  BY <1>1
<1> HIDE DEF b
<1>5. /\ made' \in Seq(Backup) /\ Len(made') = Len(made) /\ made'[k] = b
      /\ \A i \in DOMAIN made \ {k} : made'[i] = made[i]
  BY <1>2, <1>3, <1>4
<1>6. \A i \in DOMAIN made : /\ made'[i].created = made[i].created
                             /\ made'[i].content = made[i].content
                             /\ made'[i].taken = made[i].taken
                             /\ made'[i].meta = "whole" => made'[i].payload # "part"
  BY <1>3, <1>5 DEF BackupsInv, CopiesAreTrue
<1>7. ASSUME NEW i \in answered' \ cut'
      PROVE  \/ Config!Listed(i)'
             \/ i \in answered \ cut /\ ~Config!Listed(i) /\ work.id # i
  <2>1. i \in answered \ cut /\ made'[i] = made[i] /\ work.id # i
    BY <1>1, <1>2, <1>5
  <2>2. Config!Listed(i) => Config!Listed(i)'
    BY <2>1 DEF Config!Listed
  <2>3. CASE Config!Listed(i)
    BY <2>2, <2>3
  <2>4. CASE ~Config!Listed(i)
    BY <2>1, <2>4
  <2>5. QED
    BY <2>3, <2>4
<1>8. NewIsThere'
  BY <1>1 DEF NewIsThere
<1>9. QED
  BY <1>1, <1>2, <1>5, <1>6, <1>7, <1>8, ChangeKeeps

\* The process dies, an update of a backup begins, or the backups are left alone.
LEMMA QuietKeeps ==
  ASSUME BackupsInv, UNCHANGED <<made, answered>>,
         \/ UNCHANGED <<work, cut>>
         \/ Config!Die
         \/ \E i \in DOMAIN made : Config!Update(i)
  PROVE  BackupsInv'
<1>1. /\ DOMAIN made = 1..Len(made) /\ Len(made) \in Nat /\ made \in Seq(Backup)
      /\ work \in [pc : WorkPositions, id : Nat] /\ answered \subseteq DOMAIN made
      /\ 0 \notin DOMAIN made
  BY MadeShape DEF BackupsInv, BackupTypes
<1>2. \A i : (Config!Listed(i)' <=> Config!Listed(i)) /\ Newer(i)' = Newer(i)
  BY DEF Config!Listed, Newer
<1>3. CASE UNCHANGED <<work, cut>>
  BY <1>2, <1>3 DEF BackupsInv, BackupTypes, CopiesAreTrue, NewIsThere, BackupsStay, Stays
<1>4. CASE Config!Die
  <2>1. /\ work' = [pc |-> "idle", id |-> 0]
        /\ cut' = IF work.pc = "idle" THEN cut ELSE cut \cup {work.id}
    BY <1>4 DEF Config!Die, Config!Idle
  <2>2. \A i \in answered' \ cut' : i \in answered \ cut /\ work.id # i
    BY <1>1, <2>1 DEF BackupsInv, BackupTypes
  <2>3. BackupsStay'
    BY <1>2, <2>2 DEF BackupsInv, BackupsStay, Stays
  <2>4. QED
    BY <1>1, <2>1, <2>3 DEF BackupsInv, BackupTypes, CopiesAreTrue, NewIsThere, WorkPositions
<1>5. ASSUME NEW k \in DOMAIN made, Config!Update(k)
      PROVE  BackupsInv'
  <2>1. /\ work.pc = "idle" /\ work.id = 0 /\ cut' = cut
        /\ work' \in {[pc |-> "hide", id |-> k], [pc |-> "describe", id |-> k]}
    BY <1>5 DEF Config!Update, Config!Begin, Config!Idle, BackupsInv, BackupTypes
  <2>2. BackupsStay'
    BY <1>1, <1>2, <2>1 DEF BackupsInv, BackupsStay, Stays
  <2>3. QED
    BY <1>1, <2>1, <2>2 DEF BackupsInv, BackupTypes, CopiesAreTrue, NewIsThere, WorkPositions
<1>6. QED
  BY <1>3, <1>4, <1>5

\* At first the files are empty, nothing runs and nothing was copied.
LEMMA InitConfig ==
  ASSUME Config!Init
  PROVE  ConfigInv
<1>1. Config!Rest \in Asked /\ Config!Rest.pc = "idle" /\ Config!Empty \in Content
  BY WhatIsMade DEF Config!Rest, Asked, CommandPositions, Seen
<1>2. \A slot \in Slot : cmd[slot] = Config!Rest /\ ~Config!Running(slot)
  BY <1>1 DEF Config!Init, Config!Running
<1>3. FileTypes
  BY <1>1, <1>2 DEF Config!Init, FileTypes
<1>4. OneByOne
  BY <1>2 DEF Config!Init, OneByOne
<1>5. BackupsInv
  <2>1. made = <<>> /\ work = [pc |-> "idle", id |-> 0] /\ answered = {}
    BY DEF Config!Init
  <2>2. QED
    BY <2>1 DEF BackupsInv, BackupTypes, CopiesAreTrue, NewIsThere, BackupsStay, WorkPositions
<1>6. QED
  BY <1>3, <1>4, <1>5 DEF ConfigInv, FilesInv

\* Every step keeps the invariant.
LEMMA NextKeepsConfig ==
  ASSUME ConfigInv, [Config!Next]_(Config!vars)
  PROVE  ConfigInv'
<1>1. FilesInv /\ BackupsInv /\ BackupTypes /\ CopiesAreTrue
  BY DEF ConfigInv, BackupsInv
<1>2. ASSUME NEW slot \in Slot, NEW id \in Id, NEW does \in {"add", "delete", "default"},
             NEW key \in {Absent, Config!ValidKey}, Config!Command(slot, does, id, key)
      PROVE  ConfigInv'
  BY <1>1, <1>2, CommandKeeps, QuietKeeps DEF Config!Command, ConfigInv
<1>3. ASSUME NEW slot \in Slot,
             \/ Config!Read(slot) \/ Config!Open(slot)
             \/ Config!Write(slot) \/ Config!Answer(slot)
      PROVE  ConfigInv'
  <2>1. UNCHANGED <<made, answered, work, cut>>
    BY <1>3 DEF Config!Read, Config!Open, Config!Write, Config!Answer
  <2>2. QED
    BY <1>1, <1>3, <2>1, ReadKeeps, OpenKeeps, WriteKeeps, AnswerKeeps, QuietKeeps DEF ConfigInv
<1>4. CASE \/ Config!Create \/ Config!Work \/ Config!Enforce \/ Config!Die
           \/ UNCHANGED Config!vars
           \/ \E i \in DOMAIN made : Config!Update(i) \/ Config!Delete(i) \/ Config!Restore(i)
  <2>1. FilesInv'
    BY <1>1, <1>4, OthersKeep
  <2>2. BackupsInv'
    <3>1. CASE Config!Create \/ Config!Work \/ Config!Enforce
      BY <1>1, <3>1, CreateKeeps, WorkKeeps, EnforceKeeps
    <3>2. CASE \E i \in DOMAIN made : Config!Delete(i)
      BY <1>1, <3>2, DeleteKeeps
    <3>3. CASE Config!Die
      BY <1>1, <3>3, QuietKeeps DEF Config!Die
    <3>4. CASE \E i \in DOMAIN made : Config!Update(i)
      BY <1>1, <3>4, QuietKeeps DEF Config!Update
    <3>5. CASE (\E i \in DOMAIN made : Config!Restore(i)) \/ UNCHANGED Config!vars
      BY <1>1, <3>5, QuietKeeps DEF Config!Restore, Config!vars
    <3>6. QED
      BY <1>4, <3>1, <3>2, <3>3, <3>4, <3>5
  <2>3. QED
    BY <2>1, <2>2 DEF ConfigInv
<1>5. Config!Next => ConfigInv'
  BY <1>2, <1>3, <1>4 DEF Config!Next
<1>6. QED
  BY <1>4, <1>5

\* The invariant is what the files and the backups have to keep.
LEMMA FilesAreKept ==
  ASSUME ConfigInv
  PROVE  Config!ConfigIsKept
<1>1. Config!FilesAsMeant
  BY DEF ConfigInv, FilesInv, OneByOne, Config!FilesAsMeant
<1>2. Config!BackupsSurvive
  <2>1. \A i \in answered \ cut :
           Config!Listed(i) \/ work.id = i \/ Cardinality(Newer(i)) >= Limit
    BY DEF ConfigInv, BackupsInv, BackupsStay, Stays
  <2>2. Config!Idle => \A i \in Config!AllListed : made[i].payload = "there"
    BY DEF ConfigInv, BackupsInv, CopiesAreTrue, Config!AllListed, Config!Listed
  <2>3. QED
    BY <2>1, <2>2, SameCardinality DEF Config!BackupsSurvive, Newer
<1>3. QED
  BY <1>1, <1>2 DEF Config!ConfigIsKept

-----------------------------------------------------------------------------
(* The parts together                                                      *)

\* A behaviour of the parts is, seen from the journal, one of the journal alone: what
\* OutboxStoreProofs proves of it holds beside the other parts.
THEOREM JournalRuns == PartsSpec => Spec
<1>1. PartsInit => Init
  BY DEF PartsInit, StoreOff
<1>2. [PartsNext]_partsVars => [Next]_vars
  BY DEF PartsNext, partsVars
<1>3. QED
  BY <1>1, <1>2, PTL DEF PartsSpec, Spec

\* Where the lock runs, its invariant holds.
PartsLockInv == part = "lock" => Lock!LockInv

\* The invariant of the lock is inductive among the parts.
THEOREM LockInvariance == PartsSpec => []PartsLockInv
<1>1. PartsInit => PartsLockInv
  BY InitLockInv DEF PartsInit, PartsLockInv
<1>2. ASSUME PartsLockInv, [PartsNext]_partsVars
      PROVE  PartsLockInv'
  <2>1. part' = part /\ (part = "lock" => [Lock!Next]_(Lock!vars))
    BY <1>2 DEF PartsNext, partsVars, LockVars, Lock!vars
  <2>2. QED
    BY <1>2, <2>1, NextKeepsLockInv DEF PartsLockInv
<1>3. QED
  BY <1>1, <1>2, PTL DEF PartsSpec

\* A store that works is the one the lock file names, whatever the others do.
THEOREM WriterIsNamed == PartsSpec => [](part = "lock" => Lock!WriterHoldsLock)
<1>1. PartsLockInv => (part = "lock" => Lock!WriterHoldsLock)
  BY DEF PartsLockInv, Lock!LockInv, Lock!LockIsHeld, Lock!WriterHoldsLock, Lock!Writers,
     Lock!Agent
<1>2. QED
  BY <1>1, LockInvariance, PTL

\* No two stores ever append to one journal.
THEOREM MutualExclusion == PartsSpec => []OneWriter
<1>1. PartsLockInv => OneWriter
  BY DEF PartsLockInv, Lock!LockInv, Lock!LockIsHeld, OneWriter, Lock!OneWriter, Lock!Writers,
     Lock!Agent
<1>2. QED
  BY <1>1, LockInvariance, PTL

\* Clearing the storage never takes the journal from under a working store.
THEOREM ClearIsSafe == PartsSpec => []NothingWipedInUse
<1>1. PartsLockInv => NothingWipedInUse
  BY DEF PartsLockInv, Lock!LockInv, NothingWipedInUse
<1>2. QED
  BY <1>1, LockInvariance, PTL

\* Where the records run, their invariant holds.
PartsRecordsInv == part = "records" => RecordsInv

\* A run that is under way is on record, and nobody undoes another's work.
THEOREM RecordsStay ==
  ASSUME TTL \in Int, Grace \in Int, AbsentIsNothing
  PROVE  PartsSpec => []RunsStayRecorded
<1>1. PartsInit => PartsRecordsInv
  BY InitRecords DEF PartsInit, PartsRecordsInv
<1>2. ASSUME PartsRecordsInv, [PartsNext]_partsVars
      PROVE  PartsRecordsInv'
  <2>1. part' = part /\ (part = "records" => [Records!Next]_(Records!vars))
    BY <1>2 DEF PartsNext, partsVars, RecordsVars, Records!vars
  <2>2. QED
    BY <1>2, <2>1, NextKeepsRecords DEF PartsRecordsInv
<1>3. PartsRecordsInv => RunsStayRecorded
  BY DEF PartsRecordsInv, RecordsInv, RecordHolds, Holds, Types, MaybeRun, Run,
     RunsStayRecorded, Records!RunsStayRecorded
<1>4. QED
  BY <1>1, <1>2, <1>3, PTL DEF PartsSpec
\* Where the commands on openclaw.json run, their invariant holds.
PartsConfigInv == part = "config" => ConfigInv

\* The files are what the finished commands amount to unless commands met, and no backup the
\* mobile was told of goes before newer ones fill its place (provider-config.ts:95-268,
\* backup-manager.ts:118-264).
THEOREM FilesStay == PartsSpec => []ConfigIsKept
<1>1. PartsInit => PartsConfigInv
  BY InitConfig DEF PartsInit, PartsConfigInv
<1>2. ASSUME PartsConfigInv, [PartsNext]_partsVars
      PROVE  PartsConfigInv'
  <2>1. part' = part /\ (part = "config" => [Config!Next]_(Config!vars))
    BY <1>2 DEF PartsNext, partsVars, ConfigVars, Config!vars
  <2>2. QED
    BY <1>2, <2>1, NextKeepsConfig DEF PartsConfigInv
<1>3. PartsConfigInv => ConfigIsKept
  BY FilesAreKept DEF PartsConfigInv, ConfigIsKept
<1>4. QED
  BY <1>1, <1>2, <1>3, PTL DEF PartsSpec
\* Where the dedupe runs, its invariant holds.
PartsDedupeInv == part = "dedupe" => DedupeInv

\* Whatever OpenClaw writes meanwhile and however many attempts run beside one another, of the
\* rows that were there when an attempt last looked only copies of the prompt go out of a
\* transcript, and a request is not forgotten (transcript-dedupe.ts:31-126,
\* chat-send-dedupe-coordinator.ts).
THEOREM CheckedRowsAreKept == PartsSpec => []CheckedRowsStay
<1>1. PartsInit => PartsDedupeInv
  BY InitDedupe DEF PartsInit, PartsDedupeInv
<1>2. ASSUME PartsDedupeInv, [PartsNext]_partsVars
      PROVE  PartsDedupeInv'
  <2>1. part' = part /\ (part = "dedupe" => [Dedupe!Next]_(Dedupe!vars))
    BY <1>2 DEF PartsNext, partsVars, DedupeVars, Dedupe!vars
  <2>2. QED
    BY <1>2, <2>1, NextKeepsDedupe DEF PartsDedupeInv
<1>3. PartsDedupeInv => CheckedRowsStay
  BY MirrorsOnly DEF PartsDedupeInv, CheckedRowsStay
<1>4. QED
  BY <1>1, <1>2, <1>3, PTL DEF PartsSpec
=============================================================================
