---------------------------- MODULE OutboxStore ----------------------------
(***************************************************************************)
(* FileReliableRelayOutboxStore                                            *)
(* (src/src/core/relay/reliable-relay-outbox-store.ts): the write-ahead    *)
(* log under the reliable outbox.                                          *)
(*                                                                         *)
(* The store is synchronous, so nothing interleaves with its operations    *)
(* but what can go wrong between two system calls: a call that fails, the  *)
(* death of the process (what was written stays), a power loss (what was   *)
(* not fsync'd may go, in part).  Each action is the code between two such *)
(* points.  A record is what encodeRecord writes on one line; the header   *)
(* line of a file is its existence; an entry is its key.  Names of files   *)
(* are taken to be durable when the call that changed them returns.        *)
(***************************************************************************)
EXTENDS Naturals, Sequences, FiniteSets, SequencesExt

CONSTANTS
  Key,         \* delivery keys
  None,        \* the key of a record without one
  MinRecords,  \* COMPACTION_MIN_BYTES, in records
  Headroom,    \* COMPACTION_HEADROOM_BYTES, in records
  Environments,  \* what may go wrong where the store runs: [calls, power], which calls may
               \* fail besides write, fsync, truncate and open -- "list" (readdir), "unlink"
               \* (rm of an abandoned generation), "sweep" (unlink of an inactive one) --
               \* and whether the machine may stop, not only the process
  MaxGeneration, MaxRecords, MaxFaults  \* bounds

ASSUME NoneIsNoKey == None \notin Key
ASSUME StoreConstants ==
  /\ MaxGeneration \in Nat /\ MaxFaults \in Nat
  /\ MinRecords \in Nat /\ Headroom \in Nat
  /\ Environments \subseteq [calls : SUBSET {"list", "unlink", "sweep"}, power : BOOLEAN]

Generation == 1..MaxGeneration

VARIABLES
  pc,          \* where the store is
  opening,     \* the constructor has not returned
  entries,     \* this.entries, in insertion order
  op,          \* the record being appended, or the one that made it fail
  generation,  \* this.generation, whose file this.journalFd writes
  committed,   \* this.journalBytes, in records
  failed,      \* this.failed
  next,        \* the generation activateNewGeneration is about
  files,       \* the directory and the files
  kept,        \* history: put has returned, remove has not been called since
  dropped,     \* history: remove has returned, put has not been called since
  found,       \* history: what opening the store would find now
  left,        \* history: what it may find if the machine stops now
  faults,      \* history: how often something went wrong
  env          \* what may go wrong

memory == <<opening, entries, generation, committed, failed>>
history == <<kept, dropped>>
vars == <<pc, memory, op, next, files, history, found, left, faults, env>>

Record(kind, k) == [kind |-> kind, key |-> k]
Checkpoint == Record("checkpoint", None)
Torn == Record("torn", None)  \* a fragment: the line has no end
NoOp == Record("none", None)

NoFile == [named |-> FALSE, log |-> <<>>, synced |-> 0]

---------------------------------------------------------------------------
(* parseGeneration                                                         *)

\* Where a key is in a queue that has it once.
Place(q, k) == CHOOSE i \in DOMAIN q : q[i] = k

Apply(q, r) ==
  IF r.kind = "put" THEN Append(q, r.key)
  ELSE IF r.kind = "remove" /\ r.key \in ToSet(q) THEN RemoveAt(q, Place(q, r.key))
  ELSE q

\* The lines up to the last newline.
Whole(log) == IF log # <<>> /\ Last(log) = Torn THEN Front(log) ELSE log

Unread == [good |-> TRUE, checkpointed |-> FALSE, queue |-> <<>>]

\* Reading one more line.  It goes bad on a fragment in the middle (which spoils
\* the line after it), a second checkpoint, a put of a key that is there, and a
\* remove before the checkpoint or of a key that is not there.
ReadLine(so, r) ==
  [good |-> /\ so.good /\ r # Torn
            /\ r = Checkpoint => ~so.checkpointed
            /\ r.kind = "put" => r.key \notin ToSet(so.queue)
            /\ r.kind = "remove" => so.checkpointed /\ r.key \in ToSet(so.queue),
   checkpointed |-> so.checkpointed \/ r = Checkpoint,
   queue |-> Apply(so.queue, r)]

Reading(log) ==
  LET read[i \in 0..Len(log)] == IF i = 0 THEN Unread ELSE ReadLine(read[i - 1], log[i])
  IN  read[Len(log)]

Parsed(log) == Reading(Whole(log))

\* parseGeneration does not throw.
Parses(log) == LET p == Parsed(log) IN p.good /\ p.checkpointed

Named(f) == {g \in Generation : f[g].named}
Candidates(f) == {g \in Named(f) : Parses(f[g].log)}

Highest(S) == CHOOSE g \in S : \A h \in S : h <= g

\* What opening the store finds in the files f.
Recovered(f) ==
  IF Candidates(f) = {} THEN <<>>
  ELSE Parsed(f[Highest(Candidates(f))].log).queue

\* What a new generation holds of the queue q.
Snapshot(q) == [i \in DOMAIN q |-> Record("put", q[i])] \o <<Checkpoint>>

---------------------------------------------------------------------------
(* What a power loss leaves                                                *)

\* What may be left of a log of which n records are durable.
Remains(log, n) ==
  {SubSeq(log, 1, i) : i \in n..Len(log)}
    \cup {SubSeq(log, 1, i) \o <<Torn>> : i \in n..(Len(log) - 1)}

Leaves(file) ==
  IF file.synced = Len(file.log) THEN {file}
  ELSE {[file EXCEPT !.log = log, !.synced = Len(log)] : log \in Remains(file.log, file.synced)}

AfterPowerLoss(f) ==
  {disk \in [Generation -> UNION {Leaves(f[g]) : g \in Generation}] :
     \A g \in Generation : disk[g] \in Leaves(f[g])}

\* What opening the store finds, and what it may find if the machine stops
\* before that.
Survivors(f) ==
  {Recovered(f)} \cup IF env.power THEN {Recovered(g) : g \in AfterPowerLoss(f)} ELSE {}

---------------------------------------------------------------------------
Init ==
  /\ pc = "closed" /\ opening = FALSE /\ entries = <<>> /\ op = NoOp
  /\ generation = 0 /\ committed = 0 /\ failed = FALSE /\ next = 0
  /\ files = [g \in Generation |-> NoFile]
  /\ kept = {} /\ dropped = {} /\ found = <<>> /\ left = {<<>>} /\ faults = 0
  /\ env \in Environments

Fault == faults < MaxFaults /\ faults' = faults + 1
NoFault == UNCHANGED faults

\* The store object is gone: close(), or a constructor that throws.
Closed ==
  /\ pc' = "closed" /\ opening' = FALSE /\ entries' = <<>> /\ op' = NoOp
  /\ generation' = 0 /\ committed' = 0 /\ failed' = FALSE /\ next' = 0

---------------------------------------------------------------------------
(* openNewestGeneration                                                    *)

\* A first generation is created, the directory being empty.
OpenEmpty ==
  /\ pc = "closed" /\ Named(files) = {}
  /\ pc' = "compacting" /\ opening' = TRUE
  /\ UNCHANGED <<entries, generation, committed, failed, op, next, files, history>>
  /\ NoFault

\* The highest generation that parses is loaded, after its torn tail, if any,
\* has been cut off.  Without one the constructor throws.
OpenNewest ==
  /\ pc = "closed" /\ Candidates(files) # {}
  /\ LET g == Highest(Candidates(files))
         l == Whole(files[g].log)
     IN /\ generation' = g /\ committed' = Len(l) /\ entries' = Reading(l).queue
        /\ files' = IF l = files[g].log THEN files
                    ELSE [files EXCEPT ![g].log = l, ![g].synced = Len(l)]
  /\ pc' = "sweeping" /\ opening' = TRUE
  /\ UNCHANGED <<failed, op, next, history>> /\ NoFault

---------------------------------------------------------------------------
(* put and remove: append                                                  *)

Usable == pc = "idle" /\ ~failed

\* What put and remove check before they write.
Allowed(r) ==
  \/ r.kind = "put" /\ r.key \notin ToSet(entries)
  \/ r.kind = "remove" /\ r.key \in ToSet(entries)

Requests == {Record(kind, k) : kind \in {"put", "remove"}, k \in Key}

Requested(r) ==
  /\ Usable /\ Allowed(r) /\ Len(files[generation].log) < MaxRecords
  /\ op' = r
  /\ kept' = IF r.kind = "remove" THEN kept \ {r.key} ELSE kept
  /\ dropped' = IF r.kind = "put" THEN dropped \ {r.key} ELSE dropped
  /\ UNCHANGED <<memory, next>>

Write(r) ==
  /\ Requested(r)
  /\ files' = [files EXCEPT ![generation].log = Append(@, r)]
  /\ pc' = "written" /\ NoFault

\* Nothing or a part of the record is written.
WriteFails(r) ==
  /\ Requested(r)
  /\ \/ files' = [files EXCEPT ![generation].log = Append(@, Torn)]
     \/ UNCHANGED files
  /\ pc' = "failing" /\ Fault

CompactionThreshold(q) ==
  IF MinRecords >= 2 * Len(q) + Headroom THEN MinRecords ELSE 2 * Len(q) + Headroom

\* Mutant of Commit: without the fsync.
CommitUnsynced ==
  /\ pc = "written"
  /\ UNCHANGED files
  /\ committed' = committed + 1
  /\ entries' = Apply(entries, op)
  /\ kept' = IF op.kind = "put" THEN kept \cup {op.key} ELSE kept
  /\ dropped' = IF op.kind = "remove" THEN dropped \cup {op.key} ELSE dropped
  /\ op' = NoOp /\ pc' = "idle"
  /\ UNCHANGED <<opening, generation, failed, next>> /\ NoFault

\* fsync; then memory follows, and compactIfNeeded looks at the result.
Commit ==
  /\ pc = "written"
  /\ files' = [files EXCEPT ![generation].synced = Len(files[generation].log)]
  /\ committed' = committed + 1
  /\ entries' = Apply(entries, op)
  /\ kept' = IF op.kind = "put" THEN kept \cup {op.key} ELSE kept
  /\ dropped' = IF op.kind = "remove" THEN dropped \cup {op.key} ELSE dropped
  /\ op' = NoOp
  /\ pc' = IF entries' # <<>> /\ committed' <= CompactionThreshold(entries')
           THEN "idle" ELSE "compacting"
  /\ UNCHANGED <<opening, generation, failed, next>> /\ NoFault

SyncFails ==
  /\ pc = "written" /\ pc' = "failing"
  /\ UNCHANGED <<memory, op, next, files, history>> /\ Fault

\* The file is cut back to what was committed, and put or remove throws.
RollBack ==
  /\ pc = "failing"
  /\ files' = [files EXCEPT ![generation].log = SubSeq(@, 1, committed),
                            ![generation].synced = committed]
  /\ op' = NoOp /\ pc' = "idle"
  /\ UNCHANGED <<memory, next, history>> /\ NoFault

\* Mutant of RollBackFails: the store goes on.
RollBackFailureIgnored ==
  /\ pc = "failing" /\ op' = NoOp /\ pc' = "idle"
  /\ UNCHANGED <<memory, next, files, history>> /\ Fault

\* ... or cannot be, for sure: the store refuses to work from now on.
RollBackFails ==
  /\ pc = "failing"
  /\ \/ UNCHANGED files
     \/ files' = [files EXCEPT ![generation].log = SubSeq(@, 1, committed)]
  /\ failed' = TRUE /\ pc' = "idle"
  /\ UNCHANGED <<opening, entries, generation, committed, op, next, history>> /\ Fault

---------------------------------------------------------------------------
(* compactIfNeeded and activateNewGeneration                               *)

\* A compaction that ends badly is reported and forgotten; a constructor that
\* does throws.
GiveUp ==
  IF opening THEN Closed
  ELSE /\ pc' = "idle" /\ next' = 0 /\ UNCHANGED <<memory, op>>

NextGeneration == Highest(Named(files) \cup {generation}) + 1

CreateGeneration ==
  /\ pc = "compacting" /\ NextGeneration \in Generation
  /\ next' = NextGeneration
  /\ files' = [files EXCEPT ![NextGeneration] = [NoFile EXCEPT !.named = TRUE]]
  /\ pc' = "filling"
  /\ UNCHANGED <<memory, op, history>> /\ NoFault

CreateGenerationFails ==
  /\ pc = "compacting" /\ GiveUp
  /\ UNCHANGED <<files, history>> /\ Fault

\* Bound: past the last generation nothing is compacted.
NoMoreGenerations ==
  /\ pc = "compacting" /\ NextGeneration \notin Generation /\ GiveUp
  /\ UNCHANGED <<files, history>> /\ NoFault

FillGeneration ==
  /\ pc = "filling"
  /\ files' = [files EXCEPT ![next].log = Snapshot(entries)]
  /\ pc' = "filled"
  /\ UNCHANGED <<memory, op, next, history>> /\ NoFault

\* Writing stops anywhere.  (A process that dies while it writes does so after
\* this action.)
FillGenerationFails ==
  /\ pc = "filling"
  /\ \E n \in 0..Len(entries), tail \in {<<>>, <<Torn>>} :
       files' = [files EXCEPT ![next].log = SubSeq(Snapshot(entries), 1, n) \o tail]
  /\ pc' = "abandoning"
  /\ UNCHANGED <<memory, op, next, history>> /\ Fault

\* fsync, and the new file becomes the journal.
SwitchGeneration ==
  /\ pc = "filled"
  /\ files' = [files EXCEPT ![next].synced = Len(files[next].log)]
  /\ generation' = next /\ committed' = Len(files[next].log)
  /\ pc' = "sweeping"
  /\ UNCHANGED <<opening, entries, failed, op, next, history>> /\ NoFault

SwitchGenerationFails ==
  /\ pc = "filled" /\ pc' = "abandoning"
  /\ UNCHANGED <<memory, op, next, files, history>> /\ Fault

\* The catch block removes the generation it was about.
Abandon ==
  /\ pc = "abandoning"
  /\ \/ files' = [files EXCEPT ![next].named = FALSE] /\ NoFault
     \/ "unlink" \in env.calls /\ UNCHANGED files /\ Fault
  /\ GiveUp
  /\ UNCHANGED history

---------------------------------------------------------------------------
(* removeInactiveGenerations                                               *)

Previous ==
  LET older == {g \in Named(files) : g < generation}
  IN  IF older = {} THEN {} ELSE {Highest(older)}

Inactive == Named(files) \ ({generation} \cup Previous)

\* All go but the active one and the one before it; an unlink that fails is
\* left for the next time.
Sweep ==
  /\ pc = "sweeping"
  /\ \E gone \in SUBSET Inactive :
       /\ files' = [g \in Generation |->
                     [files[g] EXCEPT !.named = @ /\ g \notin gone]]
       /\ IF gone = Inactive THEN NoFault ELSE "sweep" \in env.calls /\ Fault
  /\ pc' = "idle" /\ opening' = FALSE /\ next' = 0
  /\ UNCHANGED <<entries, generation, committed, failed, op, history>>

\* The directory cannot be listed.  Opening throws; activateNewGeneration goes
\* to its catch block.
SweepFails ==
  /\ pc = "sweeping" /\ "list" \in env.calls
  /\ IF next = 0 THEN GiveUp
     ELSE pc' = "abandoning" /\ UNCHANGED <<memory, op, next>>
  /\ UNCHANGED <<files, history>> /\ Fault

---------------------------------------------------------------------------
\* close(), or the death of the process: what was written stays.
Stop ==
  /\ pc # "closed"
  /\ Closed
  /\ UNCHANGED <<files, history>>
  /\ IF pc = "idle" THEN NoFault ELSE Fault

\* The machine stops.
LosePower ==
  /\ env.power /\ Closed
  /\ files' \in AfterPowerLoss(files)
  /\ UNCHANGED history /\ Fault

Step ==
  \/ OpenEmpty \/ OpenNewest
  \/ \E r \in Requests : Write(r) \/ WriteFails(r)
  \/ Commit \/ SyncFails \/ RollBack \/ RollBackFails
  \/ CreateGeneration \/ CreateGenerationFails \/ NoMoreGenerations
  \/ FillGeneration \/ FillGenerationFails
  \/ SwitchGeneration \/ SwitchGenerationFails \/ Abandon
  \/ Sweep \/ SweepFails
  \/ Stop \/ LosePower

Next ==
  /\ Step
  /\ found' = Recovered(files') /\ left' = Survivors(files') /\ UNCHANGED env

Spec == Init /\ [][Next]_vars

---------------------------------------------------------------------------
(* Properties                                                              *)

Positions == {"closed", "idle", "written", "failing", "compacting", "filling", "filled",
              "abandoning", "sweeping"}

Log == Seq(Requests \cup {Checkpoint, Torn})
File == [named : BOOLEAN, log : Log, synced : Nat]

\* The shapes of the state.
TypeOK ==
  /\ pc \in Positions /\ opening \in BOOLEAN /\ failed \in BOOLEAN
  /\ entries \in Seq(Key)
  /\ op \in Requests \cup {NoOp}
  /\ generation \in Generation \cup {0} /\ next \in Generation \cup {0}
  /\ committed \in Nat /\ faults \in 0..MaxFaults
  /\ files \in [Generation -> File]
  /\ kept \subseteq Key /\ dropped \subseteq Key
  /\ env \in Environments

\* A put that returned is found by every later start of the process, until its
\* key is removed: through torn and rolled back appends, compactions that fail
\* anywhere, crashes and power losses between any two system calls.
PutsSurvive == kept \subseteq ToSet(found)

\* A remove that returned is not undone by a later start: no message that Relay
\* acknowledged comes back from an older generation.
RemovesSurvive == dropped \cap ToSet(found) = {}

\* The next append starts where the last committed record ended, behind no
\* fragment, unless the store refuses appends.
AppendsAfterCommitted ==
  Usable => /\ Len(files[generation].log) = committed
            /\ Torn \notin ToSet(files[generation].log)

\* The directory can be listed, and an abandoned generation be removed.
Dependable == env.calls \subseteq {"sweep"}

\* The journal keeps what was put and what was removed through crashes and power losses, and
\* a store whose calls fail appends where its committed records end
\* (reliable-relay-outbox-store.ts:99-394).
JournalIsKept == (Dependable => PutsSurvive /\ RemovesSurvive) /\ AppendsAfterCommitted

\* A crash never leaves files that no start can open.
AlwaysOpenable == pc = "closed" /\ Named(files) # {} => Candidates(files) # {}

NoOwner == <<None>>  \* no queue of keys
Queue == INSTANCE DurableQueue WITH
  NoOwner <- NoOwner, NoOperation <- NoOp,
  stored <- found,
  firm <- left,
  known <- IF pc = "closed" \/ opening THEN NoOwner ELSE entries,
  pending <- op,
  broken <- failed

\* The journal implements the durable queue: its initial states and its steps are those of
\* DurableQueue, or stutter (reliable-relay-outbox-store.ts:99-394).
ImplementsQueue ==
  /\ Queue!QInit
  /\ [][Dependable => [Queue!QNext]_(Queue!qvars)]_vars
============================================================================
