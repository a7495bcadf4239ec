---------------------------- MODULE DurableParts ----------------------------
(***************************************************************************)
(* The parts that keep something on disk, side by side: the outbox's       *)
(* journal, which this module extends, the lock of the journal, the copies *)
(* the dedupe takes out of a transcript, the records of active runs,       *)
(* openclaw.json and its backups.  The parts do not meet: a behaviour is   *)
(* one of one of them, and the others are off.                             *)
(***************************************************************************)
EXTENDS OutboxStore

CONSTANTS
  Instance, Cleaner, Nobody,                              \* StoreLock
  Script, MaxAttempts, MaxRetries, MaxAsked, AtOnce,      \* TranscriptDedupe
  TTL, Grace, LockAge, MaxRecordClock, MaxRecordOps,      \* ActiveRunRecords
  Id, BuiltIn, NeedsKey, Limit, MaxAsks, MaxMade, MaxConfigClock, Slot, HalfWritten,
                                                          \* OpenClawConfig
  Absent, Off

ASSUME NobodyIsNone == Nobody \notin Instance \cup Cleaner
ASSUME Disjoint == Instance \cap Cleaner = {}
ASSUME ScriptIsInOrder ==
  /\ Script \in Seq([id : Nat \ {0}, parent : Nat, kind : {"prompt", "mirror", "other"}])
  /\ \A i, j \in DOMAIN Script : i < j => Script[i].id < Script[j].id
ASSUME ConfigConstants ==
  /\ Limit \in Nat /\ MaxConfigClock \in Nat
  /\ \A x \in SUBSET Id, y \in Id \cup {Absent} :
       HalfWritten # x /\ HalfWritten # [providers |-> x, primary |-> y]

VARIABLES
  part,  \* which of the parts runs
  \* StoreLock
  agents, gate, lock, written, directory, wiped,
  \* TranscriptDedupe
  transcript, version, appended, request, timer, attempts, waiters, try, running, asked, late,
  \* ActiveRunRecords
  clock, record, recordLock, queue, ops, m, s, recorded, robbed,
  \* OpenClawConfig
  config, keys, cmd, asks, refused, meant, mixed, made, work, answered, cut

LockVars == <<agents, gate, lock, written, directory, wiped>>
DedupeVars ==
  <<transcript, version, appended, request, timer, attempts, waiters, try, running, asked,
    late>>
RecordsVars ==
  <<clock, record, recordLock, queue, ops, m, s, recorded, robbed>>
ConfigVars ==
  <<config, keys, cmd, asks, refused, meant, mixed, made, work, answered, cut>>

StoreOff == Init /\ env = CHOOSE e \in Environments : TRUE
LockOff ==
  /\ agents = Off /\ gate = Off /\ lock = Off /\ written = Off /\ directory = Off /\ wiped = Off
DedupeOff ==
  /\ transcript = Off /\ version = Off /\ appended = Off /\ request = Off /\ timer = Off
  /\ attempts = Off /\ waiters = Off /\ try = Off /\ running = Off /\ asked = Off
  /\ late = Off
RecordsOff ==
  /\ clock = Off /\ record = Off /\ recordLock = Off /\ queue = Off /\ ops = Off
  /\ m = Off /\ s = Off /\ recorded = Off /\ robbed = Off
ConfigOff ==
  /\ config = Off /\ keys = Off /\ cmd = Off /\ asks = Off /\ refused = Off
  /\ meant = Off /\ mixed = Off /\ made = Off /\ work = Off /\ answered = Off
  /\ cut = Off

Lock == INSTANCE StoreLock WITH pc <- agents
Dedupe == INSTANCE TranscriptDedupe WITH file <- transcript
Records == INSTANCE ActiveRunRecords WITH
  None <- Absent, MaxClock <- MaxRecordClock, MaxOps <- MaxRecordOps, file <- record,
  lock <- recordLock, kept <- recorded
Config == INSTANCE OpenClawConfig WITH
  None <- Absent, Torn <- HalfWritten, MaxOps <- MaxAsks, MaxClock <- MaxConfigClock, ops <- asks

PartsInit ==
  \/ part = "store" /\ Init
     /\ LockOff /\ DedupeOff /\ RecordsOff /\ ConfigOff
  \/ part = "lock" /\ Lock!Init
     /\ StoreOff /\ DedupeOff /\ RecordsOff /\ ConfigOff
  \/ part = "dedupe" /\ Dedupe!Init
     /\ StoreOff /\ LockOff /\ RecordsOff /\ ConfigOff
  \/ part = "records" /\ Records!Init
     /\ StoreOff /\ LockOff /\ DedupeOff /\ ConfigOff
  \/ part = "config" /\ Config!Init
     /\ StoreOff /\ LockOff /\ DedupeOff /\ RecordsOff

PartsNext ==
  \/ part = "store" /\ Next
     /\ UNCHANGED <<part, LockVars, DedupeVars, RecordsVars, ConfigVars>>
  \/ part = "lock" /\ Lock!Next
     /\ UNCHANGED <<part, vars, DedupeVars, RecordsVars, ConfigVars>>
  \/ part = "dedupe" /\ Dedupe!Next
     /\ UNCHANGED <<part, vars, LockVars, RecordsVars, ConfigVars>>
  \/ part = "records" /\ Records!Next
     /\ UNCHANGED <<part, vars, LockVars, DedupeVars, ConfigVars>>
  \/ part = "config" /\ Config!Next
     /\ UNCHANGED <<part, vars, LockVars, DedupeVars, RecordsVars>>

partsVars == <<part, vars, LockVars, DedupeVars, RecordsVars, ConfigVars>>

PartsSpec == PartsInit /\ [][PartsNext]_partsVars

-----------------------------------------------------------------------------
(* The properties of the parts, each of its own part (JournalIsKept and     *)
(* ImplementsQueue are those of OutboxStore).                               *)

\* Two stores never append to one journal, and clearing never removes it from under a store
\* at work, whoever dies between whichever two steps (reliable-relay-outbox-store.ts:186-231).
OneWriter == part = "lock" => Lock!OneWriter

\* Clearing the storage never removes the journal under a working store
\* (reliable-relay-outbox-store.ts:398-424).
NothingWipedInUse == part = "lock" => Lock!NothingWipedInUse

\* A request for deduplication is not forgotten before it has given up, and its attempts,
\* one beside the other if need be, take copies of its prompt out of the transcript and
\* nothing else that was there when they last looked (chat-send-dedupe-coordinator.ts,
\* transcript-dedupe.ts).
CheckedRowsStay == part = "dedupe" => Dedupe!NotForgotten /\ Dedupe!CheckedRowsStay

\* A run that is under way is on record for the next start, and one that has ended is not, as
\* long as no holder of the records' lock was stalled until another process took the lock from
\* it (openclaw-active-run-state.ts).
RunsStayRecorded == part = "records" => Records!RunsStayRecorded

\* openclaw.json, the keys and the backups are what the commands that were answered made of
\* them (provider-config.ts, backup-manager.ts).
ConfigIsKept == part = "config" => Config!ConfigIsKept
=============================================================================
