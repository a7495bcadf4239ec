----------------------------- MODULE StoreLock -----------------------------
(***************************************************************************)
(* The locks around the durable outbox (reliable-relay-outbox-store.ts):   *)
(* the owner lock file, the operation lock -- a directory whose creation   *)
(* is the gate to checking, repairing and taking the owner lock -- and     *)
(* clearReliableRelayOutboxStorage, which removes everything.              *)
(*                                                                         *)
(* An instance is one FileReliableRelayOutboxStore in a process of its     *)
(* own; it is used once.  A cleaner is one call of clear...Storage.  Their *)
(* actions interleave at every file-system call.                           *)
(***************************************************************************)
EXTENDS Naturals, FiniteSets

CONSTANTS Instance, Cleaner, Nobody

Agent == Instance \cup Cleaner

VARIABLES
  pc,         \* where each agent is
  gate,       \* whose directory is at operationLockPath, or Nobody
  lock,       \* whose file is at lockPath, or Nobody
  written,    \* the lock file has its content
  directory,  \* the storage directory exists
  wiped       \* history: who was using the journal when it was removed

vars == <<pc, gate, lock, written, directory, wiped>>

\* Between creating and removing the gate, in the code's order.
InGate == {"checking", "repairing", "creating", "writing", "opening", "leaving", "failing",
           "wiping"}
\* The journal is open for appending.
Using == {"opening", "leaving", "owning"}
Alive(i) == pc[i] # "dead"
Writers == {i \in Instance : pc[i] \in Using}

Go(i, from, to) == pc[i] = from /\ pc' = [pc EXCEPT ![i] = to]

\* Mutant of LockIsStale: nobody asks whether the process is gone.
LockIsReadable == lock # Nobody /\ written

\* readLockOwner: a lock is stale when it names a process that is gone.  One
\* without content could be anybody's.
LockIsStale == lock # Nobody /\ written /\ ~Alive(lock)

Init ==
  /\ pc = [i \in Agent |-> "new"]
  /\ gate = Nobody /\ lock = Nobody /\ written = FALSE
  /\ directory = FALSE /\ wiped = {}

---------------------------------------------------------------------------
(* The constructor                                                         *)

MakeDirectory(i) ==
  /\ Go(i, "new", "entering")
  /\ directory' = TRUE
  /\ UNCHANGED <<gate, lock, written, wiped>>

\* acquireOperationLock; without it the constructor throws.
EnterGate(i) ==
  /\ \/ i \in Instance /\ pc[i] = "entering"
     \/ i \in Cleaner /\ pc[i] = "new"
  /\ IF gate = Nobody
     THEN gate' = i /\ pc' = [pc EXCEPT ![i] = "checking"]
     ELSE gate' = gate /\ pc' = [pc EXCEPT ![i] = IF i \in Instance THEN "closing" ELSE "done"]
  /\ UNCHANGED <<lock, written, directory, wiped>>

\* acquireLock looks at the lock that is there ...
CheckLock(i) ==
  /\ pc[i] = "checking"
  /\ pc' = [pc EXCEPT ![i] = IF lock = Nobody THEN "creating"
                             ELSE IF LockIsStale THEN "repairing" ELSE "failing"]
  /\ UNCHANGED <<gate, lock, written, directory, wiped>>

\* ... removes a stale one ...
RepairLock(i) ==
  /\ Go(i, "repairing", "creating")
  /\ lock' = Nobody /\ written' = FALSE
  /\ UNCHANGED <<gate, directory, wiped>>

\* ... and creates its own, which fails when there is one, or no directory.
CreateLock(i) ==
  /\ pc[i] = "creating"
  /\ IF lock = Nobody /\ directory
     THEN lock' = i /\ written' = FALSE /\ pc' = [pc EXCEPT ![i] = "writing"]
     ELSE UNCHANGED <<lock, written>> /\ pc' = [pc EXCEPT ![i] = "failing"]
  /\ UNCHANGED <<gate, directory, wiped>>

WriteLock(i) ==
  /\ Go(i, "writing", "opening")
  /\ written' = TRUE
  /\ UNCHANGED <<gate, lock, directory, wiped>>

\* A lock that cannot be written or synced is removed again, if possible.
WriteLockFails(i) ==
  /\ Go(i, "writing", "failing")
  /\ \/ lock' = Nobody /\ written' = FALSE
     \/ lock' = lock /\ written' \in BOOLEAN
  /\ UNCHANGED <<gate, directory, wiped>>

\* openNewestGeneration returns, or throws.
OpenJournal(i) ==
  /\ Go(i, "opening", "leaving") \/ Go(i, "opening", "failing")
  /\ UNCHANGED <<gate, lock, written, directory, wiped>>

\* releaseOperationLock, on the way out of the constructor.
LeaveGate(i) ==
  /\ \/ Go(i, "leaving", "owning")
     \/ i \in Instance /\ Go(i, "failing", "closing")
     \/ i \in Cleaner /\ Go(i, "failing", "done")
  /\ gate' = Nobody
  /\ UNCHANGED <<lock, written, directory, wiped>>

---------------------------------------------------------------------------
(* close(): the journal first; the lock file if it is still this store's.  *)

Close(i) ==
  /\ Go(i, "owning", "closing")
  /\ UNCHANGED <<gate, lock, written, directory, wiped>>

ReadOwnLock(i) ==
  /\ pc[i] = "closing"
  /\ pc' = [pc EXCEPT ![i] = IF lock = i /\ written THEN "unlocking" ELSE "done"]
  /\ UNCHANGED <<gate, lock, written, directory, wiped>>

RemoveOwnLock(i) ==
  /\ Go(i, "unlocking", "done")
  /\ lock' = Nobody /\ written' = FALSE
  /\ UNCHANGED <<gate, directory, wiped>>

---------------------------------------------------------------------------
(* clearReliableRelayOutboxStorage, which enters the gate like a store     *)

\* Mutant of CheckAllLocks: a lock is no obstacle.
CheckNoLock(c) ==
  /\ Go(c, "checking", "wiping")
  /\ UNCHANGED <<gate, lock, written, directory, wiped>>

CheckAllLocks(c) ==
  /\ pc[c] = "checking"
  /\ pc' = [pc EXCEPT ![c] = IF directory /\ (lock = Nobody \/ LockIsStale)
                             THEN "wiping" ELSE "failing"]
  /\ UNCHANGED <<gate, lock, written, directory, wiped>>

Wipe(c) ==
  /\ Go(c, "wiping", "failing")
  /\ lock' = Nobody /\ written' = FALSE /\ directory' = FALSE
  /\ wiped' = wiped \cup Writers
  /\ UNCHANGED gate

---------------------------------------------------------------------------
\* The process dies.  Its files stay.
Die(i) ==
  /\ pc[i] \notin {"new", "done", "dead"}
  /\ pc' = [pc EXCEPT ![i] = "dead"]
  /\ UNCHANGED <<gate, lock, written, directory, wiped>>

Next ==
  \/ \E i \in Instance :
       \/ MakeDirectory(i) \/ EnterGate(i) \/ CheckLock(i) \/ RepairLock(i) \/ CreateLock(i)
       \/ WriteLock(i) \/ WriteLockFails(i) \/ OpenJournal(i) \/ LeaveGate(i)
       \/ Close(i) \/ ReadOwnLock(i) \/ RemoveOwnLock(i) \/ Die(i)
  \/ \E c \in Cleaner :
       EnterGate(c) \/ CheckAllLocks(c) \/ Wipe(c) \/ LeaveGate(c) \/ Die(c)

Spec == Init /\ [][Next]_vars

---------------------------------------------------------------------------
(* Properties                                                              *)

\* The shapes of the state.
TypeOK ==
  /\ pc \in [Agent -> InGate \cup {"new", "entering", "owning", "closing", "unlocking",
                                   "done", "dead"}]
  /\ gate \in Agent \cup {Nobody} /\ lock \in Instance \cup {Nobody}
  /\ written \in BOOLEAN /\ directory \in BOOLEAN /\ wiped \subseteq Instance

\* Two stores never append to one journal, whoever crashes between whichever
\* two steps of checking, repairing and taking the lock.
OneWriter == \A i, j \in Writers : i = j

\* A store that works holds the lock: nobody repairs it away, no close() of
\* another store removes it.
WriterHoldsLock == \A i \in Writers : lock = i /\ written

\* Clearing the storage never removes the journal under a working store.
NothingWipedInUse == wiped = {}

\* What a crash leaves behind is repaired by the next owner.
CrashIsRepaired ==
  (\A i \in Agent : pc[i] \in {"new", "done", "dead"}) =>
    gate = Nobody /\ (lock = Nobody \/ LockIsStale)

---------------------------------------------------------------------------
(* The inductive invariant.  The gate keeps those who look at the lock     *)
(* apart; a lock that was found stale stays so, because its process cannot *)
(* come back; a store in use is alive and named by the lock.               *)

GateIsHeld == \A i \in Agent : pc[i] \in InGate => gate = i

LockIsHeld ==
  \A i \in Agent :
    /\ pc[i] \in Using \cup {"writing", "unlocking"} => lock = i
    /\ pc[i] \in Using \cup {"unlocking"} => written

JudgedRight ==
  \A i \in Agent :
    /\ pc[i] = "repairing" => LockIsStale
    /\ pc[i] = "wiping" => lock = Nobody \/ LockIsStale

LockInv == TypeOK /\ GateIsHeld /\ LockIsHeld /\ JudgedRight /\ NothingWipedInUse
============================================================================
