---------------------------- MODULE OpenClawConfig ----------------------------
(***************************************************************************)
(* The mobile's commands on openclaw.json and auth-profiles.json           *)
(* (src/openclaw/config/provider-config.ts, handlers/provider-handlers.ts) *)
(* and on the backups of openclaw.json (backups/backup-manager.ts).        *)
(* Commands of the provider read a file, change what they read and write   *)
(* it, with awaits in between, and run beside each other; those of the     *)
(* backups are synchronous.  The process may die at any step.              *)
(***************************************************************************)
EXTENDS Integers, Sequences, FiniteSets

CONSTANTS Id,         \* providers
          BuiltIn,    \* those without an entry in openclaw.json
          NeedsKey,   \* those of which a key is validated
          Limit,      \* MAX_BACKUPS
          MaxOps, MaxMade, MaxClock,
          Slot,       \* commands that run at a time
          Torn,       \* a file that is open and not yet written
          None

VARIABLES
  config,    \* openclaw.json: [providers, primary], or Torn
  keys,      \* auth-profiles.json: the providers with a key, or Torn
  cmd,       \* the commands that run: [pc, op, id, key, seen]
  ops,       \* commands so far
  refused,   \* a key the provider takes was refused
  meant,     \* what the finished commands amount to: [config, keys]
  mixed,     \* commands overlapped, or one was cut short
  made,      \* the backups: [payload, meta, created, content, taken]
  work,      \* the step of a backup command: [pc, id]
  answered,  \* backups the mobile was told of and has not deleted
  cut        \* backups whose update was cut short

files == <<config, keys, cmd, ops, refused, meant, mixed>>
backups == <<made, work, answered, cut>>
vars == <<config, keys, cmd, ops, refused, meant, mixed, made, work, answered, cut>>

Empty == [providers |-> {}, primary |-> None]
Rest == [pc |-> "idle", op |-> None, id |-> None, key |-> None, seen |-> None]

Init ==
  /\ config = Empty /\ keys = {} /\ cmd = [s \in Slot |-> Rest] /\ ops = 0
  /\ refused = FALSE /\ meant = [config |-> Empty, keys |-> {}] /\ mixed = FALSE
  /\ made = <<>> /\ work = [pc |-> "idle", id |-> 0] /\ answered = {} /\ cut = {}

-----------------------------------------------------------------------------
\* validateApiKey: the package is an ES module, where require is not defined; what it throws
\* is caught and answered as a failure.
Valid(id, key) == id \notin NeedsKey \/ key = None

\* The key is one the provider takes.
ValidKey == "good"

Running(s) == cmd[s].pc # "idle"

\* handleProviderCommand: cmdAdd, cmdDelete, cmdSetDefault
Command(s, op, id, key) ==
  /\ ~Running(s) /\ ops < MaxOps /\ work.pc = "idle"
  /\ ops' = ops + 1
  /\ IF op = "add" /\ ~Valid(id, key)
     THEN /\ refused' = (refused \/ key = ValidKey)
          /\ UNCHANGED <<cmd, mixed>>
     ELSE /\ cmd' = [cmd EXCEPT ![s] =
               [pc |-> IF op = "default" \/ id \notin BuiltIn THEN "read"
                       ELSE IF op = "add" /\ key = None THEN "end" ELSE "readKeys",
                op |-> op, id |-> id, key |-> key, seen |-> None]]
          /\ mixed' = (mixed \/ \E t \in Slot : Running(t))
          /\ UNCHANGED refused
  /\ UNCHANGED <<config, keys, meant, made, work, answered, cut>>

\* readJson: what cannot be parsed is taken to be empty.
Json(file, empty) == IF file = Torn THEN empty ELSE file

\* addProvider, deleteProvider, setDefaultProvider (of what it reads last),
\* setDefaultModel: what becomes of openclaw.json
Changed(c, x) ==
  IF c.op = "default" THEN [x EXCEPT !.primary = c.id]
  ELSE IF c.id \in BuiltIn THEN x
  ELSE IF c.op = "add" THEN [x EXCEPT !.providers = @ \cup {c.id}]
  ELSE [x EXCEPT !.providers = @ \ {c.id}]

\* and of auth-profiles.json
ChangedKeys(c, x) ==
  IF c.op = "add" /\ c.key # None THEN x \cup {c.id}
  ELSE IF c.op = "delete" THEN x \ {c.id}
  ELSE x

\* addProvider: without a key auth-profiles.json is left alone
After(c) ==
  IF c.pc = "write" /\ (c.op = "delete" \/ (c.op = "add" /\ c.key # None)) THEN "readKeys" ELSE "end"

Read(s) ==
  /\ cmd[s].pc \in {"read", "readKeys"}
  /\ cmd' = [cmd EXCEPT ![s].pc = IF cmd[s].pc = "read" THEN "open" ELSE "openKeys",
                        ![s].seen = IF cmd[s].pc = "read" THEN Json(config, Empty) ELSE Json(keys, {})]
  /\ UNCHANGED <<config, keys, ops, refused, meant, mixed, made, work, answered, cut>>

\* writeJson: the file is opened, and empty, before it is written.  deleteProvider leaves
\* auth-profiles.json alone when there is no profile.
Open(s) ==
  /\ \/ /\ cmd[s].pc = "open"
        /\ config' = Torn /\ cmd' = [cmd EXCEPT ![s].pc = "write"]
        /\ UNCHANGED keys
     \/ /\ cmd[s].pc = "openKeys"
        /\ IF cmd[s].key = None /\ cmd[s].id \notin cmd[s].seen
           THEN cmd' = [cmd EXCEPT ![s].pc = "end"] /\ UNCHANGED keys
           ELSE keys' = Torn /\ cmd' = [cmd EXCEPT ![s].pc = "writeKeys"]
        /\ UNCHANGED config
  /\ UNCHANGED <<ops, refused, meant, mixed, made, work, answered, cut>>

\* What a write leaves: when another one wrote since the file was opened, its text may be
\* longer, and its end stays.
Written(file, new) == {new} \cup (IF file # Torn THEN {Torn} ELSE {})

Write(s) ==
  LET c == cmd[s]
  IN /\ \/ /\ c.pc = "write"
           /\ config' \in Written(config, Changed(c, c.seen))
           /\ UNCHANGED keys
        \/ /\ c.pc = "writeKeys"
           /\ keys' \in Written(keys, ChangedKeys(c, c.seen))
           /\ UNCHANGED config
     /\ cmd' = [cmd EXCEPT ![s].pc = After(c), ![s].seen = None]
     /\ UNCHANGED <<ops, refused, meant, mixed, made, work, answered, cut>>

\* The command is answered; the gateway is asked to restart, and nobody waits for it.
Answer(s) ==
  /\ cmd[s].pc = "end"
  /\ cmd' = [cmd EXCEPT ![s] = Rest]
  /\ meant' = [config |-> Changed(cmd[s], meant.config),
               keys |-> IF cmd[s].op = "delete" THEN meant.keys \ {cmd[s].id}
                        ELSE IF cmd[s].op = "add" /\ cmd[s].key # None
                          THEN meant.keys \cup {cmd[s].id} ELSE meant.keys]
  /\ UNCHANGED <<config, keys, ops, refused, mixed, made, work, answered, cut>>

-----------------------------------------------------------------------------
\* readStoredBackups: those with a description that parses and a file to give back
Listed(i) == made[i].meta = "whole" /\ made[i].payload \in {"part", "there"}
AllListed == {i \in DOMAIN made : Listed(i)}

Begin(pc, i) == work' = [pc |-> pc, id |-> i]
Idle == work.pc = "idle"

\* createBackup: the snapshot of openclaw.json, whatever it is at this moment; the clock
\* may have been set back.
Create ==
  /\ Idle /\ Len(made) < MaxMade /\ ops < MaxOps
  /\ ops' = ops + 1
  /\ \E now \in 1..MaxClock :
       made' = Append(made, [payload |-> "none", meta |-> "none", created |-> now,
                             content |-> config, taken |-> config])
  /\ Begin("payload", Len(made) + 1)
  /\ UNCHANGED <<config, keys, cmd, refused, meant, mixed, answered, cut>>

\* updateBackup, with another name for the file or not
Update(i) ==
  /\ Idle /\ i \in AllListed /\ ops < MaxOps
  /\ ops' = ops + 1
  /\ \/ Begin("hide", i) \/ Begin("describe", i)
  /\ UNCHANGED <<config, keys, cmd, refused, meant, mixed, made, answered, cut>>

\* What the steps of createBackup (writeFileSync, saveBackupMeta) and of updateBackup
\* (renamePayloadFile, saveBackupMeta) leave, and the step that follows
Steps ==
  [payload   |-> [payload |-> "part", meta |-> "none", next |-> "whole"],
   whole     |-> [payload |-> "there", meta |-> "torn", next |-> "described"],
   described |-> [payload |-> "there", meta |-> "whole", next |-> "limit"],
   hide      |-> [payload |-> "hidden", meta |-> "whole", next |-> "show"],
   show      |-> [payload |-> "there", meta |-> "whole", next |-> "describe"],
   describe  |-> [payload |-> "there", meta |-> "torn", next |-> "updated"],
   updated   |-> [payload |-> "there", meta |-> "whole", next |-> "idle"]]

Work ==
  /\ work.pc \in DOMAIN Steps
  /\ LET step == Steps[work.pc]
     IN /\ made' = [made EXCEPT ![work.id].payload = step.payload, ![work.id].meta = step.meta]
        /\ work' = [pc |-> step.next, id |-> IF step.next = "idle" THEN 0 ELSE work.id]
        /\ answered' = answered \cup (IF step.next = "idle" THEN {work.id} ELSE {})
  /\ UNCHANGED <<config, keys, cmd, ops, refused, meant, mixed, cut>>

\* Mutant of Kept: one backup less.
KeptFewer == IF Cardinality(AllListed) < Limit THEN Cardinality(AllListed) ELSE Limit - 1
\* how many enforceBackupLimit leaves
Kept == IF Cardinality(AllListed) < Limit THEN Cardinality(AllListed) ELSE Limit

\* enforceBackupLimit: the newest stay; what is not listed is never removed.  The mobile is
\* told of the new backup, or that it could not be kept.
Enforce ==
  /\ work.pc = "limit"
  /\ \E some \in SUBSET AllListed :
       /\ Cardinality(some) = Kept
       /\ \A i \in some, j \in AllListed \ some : made[i].created >= made[j].created
       /\ made' = [i \in DOMAIN made |->
                     IF i \in AllListed \ some THEN [made[i] EXCEPT !.payload = "none", !.meta = "none"]
                     ELSE made[i]]
       /\ answered' = answered \cup ({work.id} \cap some)
  /\ work' = [pc |-> "idle", id |-> 0]
  /\ UNCHANGED <<config, keys, cmd, ops, refused, meant, mixed, cut>>

\* deleteBackup
Delete(i) ==
  /\ Idle /\ i \in AllListed /\ ops < MaxOps
  /\ ops' = ops + 1
  /\ made' = [made EXCEPT ![i].payload = "none", ![i].meta = "none"]
  /\ answered' = answered \ {i}
  /\ UNCHANGED <<config, keys, cmd, refused, meant, mixed, work, cut>>

\* restoreBackup: over whatever a command has read or is about to write
Restore(i) ==
  /\ Idle /\ i \in AllListed /\ ops < MaxOps
  /\ ops' = ops + 1
  /\ config' = made[i].content
  /\ meant' = [meant EXCEPT !.config = Json(made[i].taken, Empty)]
  /\ mixed' = (mixed \/ made[i].taken = Torn \/ \E s \in Slot : Running(s))
  /\ UNCHANGED <<keys, cmd, refused, made, work, answered, cut>>

\* The process dies; the files stay as they are.
Die ==
  /\ ~Idle \/ \E s \in Slot : Running(s)
  /\ cmd' = [s \in Slot |-> Rest]
  /\ mixed' = (mixed \/ \E s \in Slot : Running(s))
  /\ work' = [pc |-> "idle", id |-> 0]
  /\ cut' = IF Idle THEN cut ELSE cut \cup {work.id}
  /\ UNCHANGED <<config, keys, ops, refused, meant, made, answered>>

Next ==
  \/ \E s \in Slot : \/ \E id \in Id :
                          \/ \E key \in {None, ValidKey} : Command(s, "add", id, key)
                          \/ Command(s, "delete", id, None)
                          \/ Command(s, "default", id, None)
                     \/ Read(s) \/ Open(s) \/ Write(s) \/ Answer(s)
  \/ Create \/ Work \/ Enforce \/ Die
  \/ \E i \in DOMAIN made : Update(i) \/ Delete(i) \/ Restore(i)

Spec == Init /\ [][Next]_vars

-----------------------------------------------------------------------------
\* The files say what the commands amount to, unless commands ran beside each other or one
\* was cut short: nobody's provider, key or default is lost to another's command.
FilesAsMeant ==
  ~mixed /\ (\A s \in Slot : ~Running(s)) => config = meant.config /\ keys = meant.keys

\* A backup the mobile was told of is there until it is deleted or as many newer ones were
\* made as are kept, wherever the process died, but in an update of it; and what is listed
\* gives back all of the file it was taken of.
BackupsSurvive ==
  /\ \A i \in answered \ cut :
       \/ Listed(i) \/ work.id = i
       \/ Cardinality({j \in DOMAIN made \ {i} : made[j].created >= made[i].created}) >= Limit
  /\ Idle => \A i \in AllListed : made[i].payload = "there"

\* The files and the backups of them keep what they were given.
ConfigIsKept == FilesAsMeant /\ BackupsSurvive

\* "only write to auth-profiles.json" (provider-registry.ts): the key of a provider is kept
\* there when the provider takes it.
ValidKeysAreTaken == ~refused
=============================================================================
