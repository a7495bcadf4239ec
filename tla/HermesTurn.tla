----------------------------- MODULE HermesTurn -----------------------------
(***************************************************************************)
(* One mobile chat turn in Hermes (src/hermes/runtime/                     *)
(* hermes-runtime-chat.ts): the turns of a session key wait in line        *)
(* (hermes-runtime-chat-queue.ts); a turn resumes the Hermes session its   *)
(* key is mapped to (hermes-session-store.ts), runs over the API server or *)
(* as a child process that writes its rows in state.db, and is ended by    *)
(* the child, by the rows it wrote, by a timeout or by an abort, after     *)
(* which the rows of the cancelled turn are rewound                        *)
(* (hermes-runtime-chat-output.ts, hermes-runtime-state-db.ts).            *)
(***************************************************************************)
EXTENDS Integers, Sequences, FiniteSets, FiniteSetsExt

CONSTANTS Key,          \* session keys
          Turns,        \* bound: how many turns each key takes and, at 0, how many
                        \* sessions are deleted; some [Key \cup {0} -> Nat]
          MaxSessions,  \* bound: Hermes sessions that come into being
          Named         \* sessions a command may name itself (hermesSessionId)

HermesSession == 1..MaxSessions
Turn == UNION {{k} \X (1..most[k]) : k \in Key, most \in Turns}

VARIABLES
  rows,      \* messages of state.db in id order: session, turn, kind, active or not
  made,      \* sessions made so far; 0 stands for none
  deleted,   \* sessions the user deleted
  forgetting, \* [key or 0, session] runHermesSessionDelete deleted and has yet to forget
  titled,    \* the session the API server made under the key's name, or 0
  alias,     \* sessions.json: the session of a key, or 0
  turn,      \* the turn each key is in
  child,     \* the Hermes process of a turn, or the API server at a turn that was left;
             \* either may still write
  outcome,   \* what the turn answered; "left": aborted at the API server
  torn       \* history: a session was deleted while the turn that made it ran

vars == <<rows, made, deleted, forgetting, titled, alias, turn, child, outcome, torn>>
sessions == <<made, deleted, forgetting, titled, torn>>
db == <<rows, sessions>>

\* n: turns taken; before: sessions listed before the run; head: last row before the
\* run, -1 when it could not be read; files: the turn may send files
Idle(n) == [n |-> n, pc |-> "idle", resume |-> 0, mapped |-> 0, before |-> {},
            head |-> -1, stop |-> FALSE, files |-> FALSE]

Init ==
  /\ rows = <<>> /\ made = 0 /\ deleted = {} /\ forgetting = {} /\ torn = FALSE
  /\ titled = [k \in Key |-> 0] /\ alias = [k \in Key |-> 0]
  /\ turn = [k \in Key |-> Idle(0)]
  /\ child = [t \in Turn |-> [s |-> 0, stage |-> "none"]]
  /\ outcome = [t \in Turn |-> "open"]

Now(k) == <<k, turn[k].n>>
Live == (1..made) \ deleted
Row(s, t, kind) == [s |-> s, by |-> t, kind |-> kind, on |-> TRUE]
RowsIn(s) == {i \in DOMAIN rows : rows[i].s = s /\ rows[i].on}
ActiveHead(s) == IF RowsIn(s) = {} THEN 0 ELSE Max(RowsIn(s))

\* forgetHermesSession: every key that stands for the session
Forgotten(k, s) == [j \in Key |-> IF j = k \/ alias[j] = s THEN 0 ELSE alias[j]]

Within(most) == (\A k \in Key : turn[k].n <= most[k]) /\ Cardinality(deleted) <= most[0]

\* the turn answers and the next one of its key may start
Settle(k, how) == /\ outcome' = [outcome EXCEPT ![Now(k)] = how]
                  /\ turn' = [turn EXCEPT ![k] = Idle(@.n)]

-----------------------------------------------------------------------------
\* The next command of a key: the session it names, or the one its key is mapped to.
\* File transfers go through the child process, on a session made first.
Take(k, named, files) ==
  /\ turn[k].pc = "idle"
  /\ \E most \in Turns : Within(most) /\ turn[k].n < most[k]
  /\ LET resume == IF named # 0 THEN named ELSE alias[k]
     IN turn' = [turn EXCEPT ![k] = [Idle(@.n + 1) EXCEPT !.files = files,
                   !.resume = resume, !.mapped = IF named # 0 THEN 0 ELSE resume,
                   !.pc = IF ~files THEN "api" ELSE IF resume = 0 THEN "ensure" ELSE "cli"]]
  /\ UNCHANGED <<db, alias, child, outcome>>

\* createHermesApiSession: the server makes a session of this name, or has one
Open(k, s) ==
  IF titled[k] \in Live
  THEN s = titled[k] /\ UNCHANGED <<made, titled>>
  ELSE s = made + 1 /\ s \in HermesSession /\ made' = s /\ titled' = [titled EXCEPT ![k] = s]

Ensure(k) ==
  /\ turn[k].pc = "ensure"
  /\ \/ \E s \in HermesSession : /\ Open(k, s)
                           /\ alias' = [alias EXCEPT ![k] = s]
                           /\ turn' = [turn EXCEPT ![k].resume = s, ![k].pc = "cli"]
     \/ turn' = [turn EXCEPT ![k].pc = "cli"] /\ UNCHANGED <<made, titled, alias>>
  /\ UNCHANGED <<rows, deleted, forgetting, torn, child, outcome>>

ApiDown(k) == /\ turn[k].pc = "api"
              /\ turn' = [turn EXCEPT ![k].pc = "cli"]
              /\ UNCHANGED <<db, alias, child, outcome>>

\* The API server takes the request.
ApiPrompt(k) ==
  /\ turn[k].pc = "api" /\ turn[k].resume \notin deleted
  /\ \E s \in HermesSession :
       /\ IF turn[k].resume # 0 THEN s = turn[k].resume /\ UNCHANGED <<made, titled>>
                                ELSE Open(k, s)
       /\ rows' = Append(rows, Row(s, Now(k), "prompt"))
       /\ turn' = [turn EXCEPT ![k].resume = s, ![k].pc = "stream"]
  /\ UNCHANGED <<deleted, forgetting, torn, alias, child, outcome>>

ApiAnswer(k) ==
  /\ turn[k].pc = "stream"
  /\ rows' = Append(rows, Row(turn[k].resume, Now(k), "answer"))
  /\ alias' = [alias EXCEPT ![k] = turn[k].resume]
  /\ Settle(k, "done")
  /\ UNCHANGED <<sessions, child>>

\* The request is aborted before the server took it.
ApiAborted(k) ==
  /\ turn[k].pc = "api" /\ turn[k].stop
  /\ Settle(k, "left")
  /\ UNCHANGED <<db, alias, child>>

\* The turn stops reading the stream, as it was aborted or as the stream failed.  The reader
\* is released and not cancelled, and the request can no longer be aborted: whether the
\* server hears of it is open, and the mapping is kept.
ApiLeft(k) ==
  /\ turn[k].pc = "stream"
  /\ child' = [child EXCEPT ![Now(k)] = [s |-> turn[k].resume, stage |-> "served"]]
  /\ Settle(k, IF turn[k].stop THEN "left" ELSE "failed")
  /\ UNCHANGED <<db, alias>>

\* The server finds the connection closed and undoes the turn it still served.
ServerUndoes(t) ==
  /\ child[t].stage = "served"
  /\ rows' = [i \in DOMAIN rows |-> [rows[i] EXCEPT !.on = @ /\ rows[i].by # t]]
  /\ child' = [child EXCEPT ![t].stage = "failed"]
  /\ UNCHANGED <<sessions, alias, turn, outcome>>

\* the mapped session is gone: once more, with a new one
ApiMissing(k) ==
  /\ turn[k].pc = "api" /\ turn[k].resume \in deleted
  /\ IF turn[k].mapped # 0
     THEN /\ alias' = Forgotten(k, turn[k].mapped)
          /\ turn' = [turn EXCEPT ![k].resume = 0] /\ UNCHANGED outcome
     ELSE Settle(k, "failed") /\ UNCHANGED alias
  /\ UNCHANGED <<db, child>>

-----------------------------------------------------------------------------
\* The child process: it writes its prompt and its answer, in its own time

Spawned(s) == [s |-> s, stage |-> "spawned"]

Cli(k) ==
  /\ turn[k].pc = "cli"
  /\ \E head \in {-1, IF turn[k].resume \in Live THEN ActiveHead(turn[k].resume) ELSE -1} :
       turn' = [turn EXCEPT ![k].pc = "run", ![k].before = Live, ![k].head = head]
  /\ child' = [child EXCEPT ![Now(k)] = Spawned(turn[k].resume)]
  /\ UNCHANGED <<db, alias, outcome>>

ChildPrompts(t) ==
  /\ child[t].stage = "spawned" /\ child[t].s \notin deleted
  /\ \E s \in HermesSession :
       /\ IF child[t].s # 0 THEN s = child[t].s /\ UNCHANGED made
                            ELSE s = made + 1 /\ made' = s
       /\ rows' = Append(rows, Row(s, t, "prompt"))
       /\ child' = [child EXCEPT ![t].s = s, ![t].stage = "prompted"]
  /\ UNCHANGED <<deleted, forgetting, torn, titled, alias, turn, outcome>>

ChildAnswers(t) ==
  /\ child[t].stage \in {"prompted", "served"}
  /\ rows' = Append(rows, Row(child[t].s, t, "answer"))
  /\ child' = [child EXCEPT ![t].stage = "answered"]
  /\ UNCHANGED <<sessions, alias, turn, outcome>>

ChildExits(t) ==
  /\ child[t].stage \in {"spawned", "prompted", "served", "answered"}
  /\ child' = [child EXCEPT ![t].stage =
       CASE @ = "answered" -> "ended" [] @ \in {"prompted", "served"} -> "failed"
         [] OTHER -> IF child[t].s \in deleted THEN "missing" ELSE "failed"]
  /\ UNCHANGED <<db, alias, turn, outcome>>

\* Mutant of Selected: any session that is new may be this turn's.
SelectedAmongNew(k) ==
  LET own == IF turn[k].resume # 0 THEN {turn[k].resume} \cap Live ELSE Live \ turn[k].before
  IN IF own # {} THEN Max(own) ELSE 0

\* selectHermesSessionForCompletedChat: the resumed session, or the only new one
Selected(k) ==
  LET own == IF turn[k].resume # 0 THEN {turn[k].resume} \cap Live ELSE Live \ turn[k].before
  IN IF \E s \in own : own = {s} THEN Max(own) ELSE 0

\* latestTerminalAssistantReplyFromHermesExport finds an answer
Replied(k) ==
  LET s == Selected(k)
      prompts == {i \in RowsIn(s) : rows[i].kind = "prompt"}
      mine == {i \in prompts : rows[i].by = Now(k)}
  IN /\ mine # {}
     /\ \E i \in RowsIn(s) : rows[i].kind = "answer" /\ i > Max(prompts)

\* the rows say that the turn is over while its process still runs
HistoryDone(k) ==
  /\ turn[k].pc = "run" /\ ~turn[k].stop /\ Replied(k)
  /\ turn' = [turn EXCEPT ![k].pc = "select"]
  /\ UNCHANGED <<db, alias, child, outcome>>

TimesOut(k) ==
  /\ turn[k].pc = "run"
  /\ IF child[Now(k)].stage = "answered"
     THEN turn' = [turn EXCEPT ![k].pc = "select"] /\ UNCHANGED outcome
     ELSE Settle(k, "failed")
  /\ UNCHANGED <<db, alias, child>>

Abort(k) ==
  /\ turn[k].pc \notin {"idle", "select", "recover"} /\ ~turn[k].stop
  /\ turn' = [turn EXCEPT ![k].stop = TRUE]
  /\ UNCHANGED <<db, alias, child, outcome>>

\* the close event of the process
Closed(k) ==
  LET stage == child[Now(k)].stage IN
  /\ turn[k].pc = "run"
  /\ \/ stage \in {"ended", "failed", "missing"} /\ turn[k].stop
        /\ turn' = [turn EXCEPT ![k].pc = "recover"] /\ UNCHANGED <<alias, child, outcome>>
     \/ stage = "ended" /\ ~turn[k].stop
        /\ turn' = [turn EXCEPT ![k].pc = "select"] /\ UNCHANGED <<alias, child, outcome>>
     \/ (stage = "failed" \/ (stage = "missing" /\ turn[k].mapped = 0)) /\ ~turn[k].stop
        /\ Settle(k, "failed") /\ UNCHANGED <<alias, child>>
     \/ stage = "missing" /\ turn[k].mapped # 0 /\ ~turn[k].stop
        /\ alias' = Forgotten(k, turn[k].mapped)
        /\ turn' = [turn EXCEPT ![k].resume = 0, ![k].head = -1]
        /\ child' = [child EXCEPT ![Now(k)] = Spawned(0)]
        /\ UNCHANGED outcome
  /\ UNCHANGED db

-----------------------------------------------------------------------------
Select(k) ==
  /\ turn[k].pc = "select"
  /\ alias' = IF Selected(k) = 0 THEN alias ELSE [alias EXCEPT ![k] = Selected(k)]
  /\ Settle(k, "done")
  /\ UNCHANGED <<db, child>>

\* rewind_after: the rows after the head, when the first of them is this turn's prompt
After(k) == {i \in RowsIn(turn[k].resume) : i > turn[k].head}
Rewindable(k) == /\ turn[k].head # -1 /\ turn[k].resume \in Live
                 /\ After(k) # {} => LET i == Min(After(k)) IN
                       rows[i].kind = "prompt" /\ rows[i].by = Now(k)

Recover(k) ==
  /\ turn[k].pc = "recover"
  /\ \/ /\ Rewindable(k)
        /\ rows' = [i \in DOMAIN rows |-> [rows[i] EXCEPT !.on = @ /\ i \notin After(k)]]
        /\ UNCHANGED alias
     \/ /\ alias' = IF turn[k].resume # 0 /\ turn[k].mapped = turn[k].resume
                    THEN Forgotten(k, turn[k].mapped) ELSE alias
        /\ UNCHANGED rows
  /\ Settle(k, "aborted")
  /\ UNCHANGED <<sessions, child>>

\* A turn that began without a session is in one it made.
MadeByTurn(s) ==
  \E k \in Key : turn[k].pc \in {"run", "select"} /\ turn[k].resume = 0 /\ child[Now(k)].s = s

\* runHermesSessionDelete: a session is deleted, also while a turn is in it, and forgotten
\* in a later step.  In Hermes itself it is deleted and that step never comes.
Delete(s) ==
  /\ s \in Live /\ deleted' = deleted \cup {s}
  /\ \E most \in Turns : Within(most) /\ Cardinality(deleted) < most[0]
  /\ \E k \in {0} \cup {j \in Key : alias[j] = s} : forgetting' = forgetting \cup {<<k, s>>}
  /\ torn' = (torn \/ MadeByTurn(s))
  /\ UNCHANGED <<rows, made, titled, alias, turn, child, outcome>>

Forget(k, s) ==
  /\ <<k, s>> \in forgetting /\ forgetting' = forgetting \ {<<k, s>>}
  /\ alias' = Forgotten(k, s)
  /\ UNCHANGED <<rows, made, deleted, titled, torn, turn, child, outcome>>

Next ==
  \/ \E k \in Key :
       \/ \E named \in (Named \cap Live) \cup {0}, files \in BOOLEAN : Take(k, named, files)
       \/ Ensure(k) \/ ApiDown(k) \/ ApiPrompt(k) \/ ApiAnswer(k) \/ ApiAborted(k)
       \/ ApiLeft(k)
       \/ ApiMissing(k) \/ Cli(k) \/ HistoryDone(k) \/ TimesOut(k) \/ Abort(k)
       \/ Closed(k) \/ Select(k) \/ Recover(k)
  \/ \E t \in Turn : ChildPrompts(t) \/ ChildAnswers(t) \/ ChildExits(t) \/ ServerUndoes(t)
  \/ \E s \in HermesSession : Delete(s) \/ \E k \in Key \cup {0} : Forget(k, s)

Spec == Init /\ [][Next]_vars

-----------------------------------------------------------------------------
\* What a turn answered stays in its session: an abort takes rows of the turn it cancels, and
\* of another turn only what its process still wrote after the prompt that is cancelled
\* (rewind_after, hermes-runtime-state-db.ts).
CompletedTurnsStay ==
  \A i \in DOMAIN rows : outcome[rows[i].by] = "done" /\ ~rows[i].on =>
    \E j \in 1..(i - 1) :
      /\ rows[j].s = rows[i].s /\ rows[j].kind = "prompt" /\ outcome[rows[j].by] = "aborted"
      /\ rows[j].by[1] = rows[i].by[1] /\ rows[j].by[2] > rows[i].by[2]

\* A key is never mapped to a session in which another key's turns are.
MappedToOwn ==
  \A k \in Key : alias[k] # 0 => \A i \in RowsIn(alias[k]) : rows[i].by[1] = k

\* A prompt cancelled in a Hermes process is not in the session that the next turn of its key
\* resumes.  The session of the API server is not counted: it is found again by its title.
\* A prompt left at the API server stays there unless the server undoes it.
CancelledPromptsGo ==
  \A k \in Key : alias[k] \notin {0, titled[k]} =>
    \A i \in RowsIn(alias[k]) : rows[i].kind = "prompt" => outcome[rows[i].by] # "aborted"

\* A turn keeps to its session and an abort to its turn, as long as no session is deleted
\* while the turn that made it runs: that turn may then take the only other new session, of
\* another key, for its own (selectHermesSessionForCompletedChat).
TurnsKeepApart == ~torn => CompletedTurnsStay /\ MappedToOwn /\ CancelledPromptsGo
=============================================================================
