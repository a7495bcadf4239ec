------------------------ MODULE OpenClawChatRunsProofs ------------------------
(***************************************************************************)
(* What the Gateway client holds back, which subscriptions the manager     *)
(* believes in and how many runs a key starts, for any number of commands, *)
(* keys, sessions, runs, lost connections and remembered identities        *)
(* (GatewayInv); then under which key and in which order the texts of the  *)
(* runs reach the phone (TextInv).                                         *)
(***************************************************************************)
EXTENDS OpenClawChatRuns, SequenceTheorems, WellFoundedInduction, TLAPS

Phases == {"new", "joined", "subscribing", "recording", "requested", "answered", "done", "failed"}

\* A command on its way to the Gateway, or that has been there.
Sends(c) == phase[c] \in {"subscribing", "recording", "requested", "answered"}
Owns(c) == Sends(c) \/ Started(c)

\* One command of a key is sent; the others wait for its verdict.
OneOwner ==
  /\ \A c \in Command : Started(c) => phase[c] \notin {"new", "joined"}
  /\ \A c, d \in Command : c # d /\ KeyOf[c] = KeyOf[d] /\ Owns(c) => ~Owns(d)
  /\ \A r, q \in Run : live[r] # None /\ live[q] # None /\ live[r].cmd = live[q].cmd => r = q

\* The subscriptions of a connection that is lost are forgotten at once.
Believed == subscribed \subseteq listening

GatewayInv ==
  /\ phase \in [Command -> Phases]
  /\ live \in [Run -> {None} \cup LiveRun]
  /\ NothingHeldBack
  /\ Believed
  /\ OneOwner

---------------------------------------------------------------------------
(* Lemmas                                                                  *)

\* Nobody is an owner who was none before.
LEMMA OwnersKept ==
  ASSUME OneOwner,
         \A r \in Run : live'[r] # None => live[r] # None /\ live'[r].cmd = live[r].cmd,
         \A c \in Command : Sends(c)' => Sends(c),
         \A c \in Command : phase[c] \notin {"new", "joined"} => phase'[c] \notin {"new", "joined"}
  PROVE  OneOwner'
<1>1. \A c \in Command : Started(c)' => Started(c)
  BY DEF Started
<1>2. \A c \in Command : Owns(c)' => Owns(c)
  BY <1>1 DEF Owns
<1>3. \A c \in Command : Started(c)' => phase'[c] \notin {"new", "joined"}
  BY <1>1 DEF OneOwner
<1>4. \A c, d \in Command : c # d /\ KeyOf[c] = KeyOf[d] /\ Owns(c)' => ~Owns(d)'
  BY <1>2 DEF OneOwner
<1>5. \A r, q \in Run : live'[r] # None /\ live'[q] # None /\ live'[r].cmd = live'[q].cmd => r = q
  BY DEF OneOwner
<1>6. QED
  BY <1>3, <1>4, <1>5 DEF OneOwner

\* The last request that is answered, refused or lost hands on what was held
\* back.
LEMMA Released ==
  ASSUME NEW st, NothingHeldBack, Release(st)
  PROVE  NothingHeldBack'
  BY DEF Release, NothingHeldBack, Hooks

\* A step that leaves the buffer, and no request behind it unanswered less.
LEMMA HeldKept ==
  ASSUME NothingHeldBack, buffer' = buffer,
         \A c \in Command : phase[c] \in {"requested", "answered"}
                              => phase'[c] \in {"requested", "answered"}
  PROVE  NothingHeldBack'
  BY DEF NothingHeldBack, Hooks

\* The steps of a command that is not yet sent.
LEMMA IssueKeeps ==
  ASSUME GatewayInv, NEW c \in Command, Issue(c)
  PROVE  GatewayInv'
<1>1. /\ phase[c] = "new" /\ phase \in [Command -> Phases]
      /\ phase' = [phase EXCEPT ![c] = IF Owner(c) THEN "joined" ELSE "subscribing"]
      /\ UNCHANGED <<wire, buffer, runs, ops, up, subscribed, listening, drops, live, published>>
  BY DEF Issue, GatewayInv, gateway
<1>2. /\ phase'[c] = IF Owner(c) THEN "joined" ELSE "subscribing"
      /\ \A d \in Command \ {c} : phase'[d] = phase[d]
      /\ phase' \in [Command -> Phases]
  BY <1>1 DEF Phases
<1>3. NothingHeldBack' /\ Believed'
  <2>1. \A d \in Command : phase[d] \in {"requested", "answered"}
                             => phase'[d] \in {"requested", "answered"}
    BY <1>1, <1>2
  <2>2. NothingHeldBack'
    BY <1>1, <2>1, HeldKept DEF GatewayInv
  <2>3. QED
    BY <1>1, <2>2 DEF GatewayInv, Believed
<1>4. OneOwner'
  <2>1. OneOwner
    BY DEF GatewayInv
  <2>2. ~Started(c)
    BY <1>1, <2>1 DEF OneOwner
  <2>3. /\ \A d \in Command : Started(d)' <=> Started(d)
        /\ \A d \in Command \ {c} : Sends(d)' <=> Sends(d)
    BY <1>1, <1>2 DEF Started, Sends
  <2>4. CASE Owner(c)
    <3>1. \A d \in Command : Sends(d)' => Sends(d)
      BY <1>2, <2>3, <2>4 DEF Sends
    <3>2. \A d \in Command : phase[d] \notin {"new", "joined"}
                               => phase'[d] \notin {"new", "joined"}
      BY <1>1, <1>2
    <3>3. QED
      BY <1>1, <2>1, <3>1, <3>2, OwnersKept
  <2>5. CASE ~Owner(c)
    <3>1. \A d \in Command \ {c} : KeyOf[d] = KeyOf[c] => ~Owns(d)
      <4>1. \A d \in Command \ {c} : KeyOf[d] = KeyOf[c] => phase[d] \in {"new", "joined"}
        BY <2>5 DEF Owner
      <4>2. QED
        BY <2>1, <4>1 DEF OneOwner, Owns, Sends
    <3>2. \A d \in Command \ {c} : Owns(d)' <=> Owns(d)
      BY <2>3 DEF Owns
    <3>3. \A d, e \in Command : d # e /\ KeyOf[d] = KeyOf[e] /\ Owns(d)' => ~Owns(e)'
      BY <2>1, <3>1, <3>2 DEF OneOwner
    <3>4. \A d \in Command : Started(d)' => phase'[d] \notin {"new", "joined"}
      BY <1>2, <2>1, <2>2, <2>3 DEF OneOwner
    <3>5. QED
      BY <1>1, <2>1, <3>3, <3>4 DEF OneOwner
  <2>6. QED
    BY <2>4, <2>5
<1>5. QED
  BY <1>1, <1>2, <1>3, <1>4 DEF GatewayInv

\* A command goes on to a phase in which it owns no more than before.
LEMMA PhaseKeeps ==
  ASSUME GatewayInv, NEW c \in Command, NEW p \in Phases, phase' = [phase EXCEPT ![c] = p],
         p \notin {"new", "joined"},
         p \in {"subscribing", "recording", "requested", "answered"} => Sends(c),
         live' = live, NothingHeldBack', Believed'
  PROVE  GatewayInv'
<1>1. /\ phase'[c] = p /\ \A d \in Command \ {c} : phase'[d] = phase[d]
      /\ phase' \in [Command -> Phases]
  BY DEF GatewayInv
<1>2. \A d \in Command : Sends(d)' => Sends(d)
  BY <1>1 DEF Sends
<1>3. \A d \in Command : phase[d] \notin {"new", "joined"} => phase'[d] \notin {"new", "joined"}
  BY <1>1
<1>4. OneOwner'
  BY <1>2, <1>3, OwnersKept DEF GatewayInv
<1>5. QED
  BY <1>1, <1>4 DEF GatewayInv

\* What the phase of one command does to the buffer when it is left alone.
LEMMA PhaseHolds ==
  ASSUME GatewayInv, NEW c \in Command, NEW p, phase' = [phase EXCEPT ![c] = p],
         phase[c] \in {"requested", "answered"} => p \in {"requested", "answered"},
         buffer' = buffer
  PROVE  NothingHeldBack'
<1>1. \A d \in Command : phase[d] \in {"requested", "answered"}
                           => phase'[d] \in {"requested", "answered"}
  BY DEF GatewayInv
<1>2. QED
  BY <1>1, HeldKept DEF GatewayInv

\* A step that leaves the phases of the commands alone.
LEMMA SamePhasesKeep ==
  ASSUME GatewayInv, UNCHANGED <<phase, live>>, NothingHeldBack', Believed'
  PROVE  GatewayInv'
<1>1. /\ \A d \in Command : Sends(d)' => Sends(d)
      /\ \A d \in Command : phase[d] \notin {"new", "joined"} => phase'[d] \notin {"new", "joined"}
  BY DEF Sends
<1>2. OneOwner'
  BY <1>1, OwnersKept DEF GatewayInv
<1>3. QED
  BY <1>2 DEF GatewayInv

\* The Gateway's own steps leave the client's state alone.
LEMMA GatewayKeeps ==
  ASSUME GatewayInv, UNCHANGED <<phase, buffer, subscribed, listening>>, OneOwner',
         live' \in [Run -> {None} \cup LiveRun]
  PROVE  GatewayInv'
<1>1. NothingHeldBack' /\ Believed'
  BY HeldKept DEF GatewayInv, Believed
<1>2. QED
  BY <1>1 DEF GatewayInv

---------------------------------------------------------------------------
(* The actions                                                             *)

LEMMA JoinKeeps ==
  ASSUME GatewayInv, NEW c \in Command, Join(c)
  PROVE  GatewayInv'
<1>1. PICK d \in Command \ {c} : /\ phase[d] \in {"done", "failed"}
                                 /\ phase' = [phase EXCEPT ![c] = phase[d]]
  BY DEF Join
<1>2. /\ phase[c] = "joined" /\ phase[d] \in Phases
      /\ UNCHANGED <<wire, buffer, runs, ops, up, subscribed, listening, drops, live, published>>
  BY DEF Join, gateway, GatewayInv
<1>3. NothingHeldBack' /\ Believed'
  BY <1>1, <1>2, PhaseHolds DEF GatewayInv, Believed
<1>4. QED
  BY <1>1, <1>2, <1>3, PhaseKeeps

LEMMA SubscribeKeeps ==
  ASSUME GatewayInv, NEW c \in Command, Subscribe(c)
  PROVE  GatewayInv'
<1>1. /\ phase[c] = "subscribing" /\ phase' = [phase EXCEPT ![c] = "recording"]
      /\ subscribed' = subscribed \cup {SessionOf[c]}
      /\ listening' = IF SessionOf[c] \in subscribed THEN listening
                      ELSE listening \cup {SessionOf[c]}
      /\ UNCHANGED <<buffer, live>>
  BY DEF Subscribe
<1>2. NothingHeldBack'
  BY <1>1, PhaseHolds
<1>3. Believed'
  BY <1>1 DEF GatewayInv, Believed
<1>4. Sends(c) /\ "recording" \in Phases
  BY <1>1 DEF Sends, Phases
<1>5. QED
  BY <1>1, <1>2, <1>3, <1>4, PhaseKeeps

LEMMA FailsKeeps ==
  ASSUME GatewayInv, NEW c \in Command, Fails(c)
  PROVE  GatewayInv'
<1>1. /\ phase[c] \in {"subscribing", "recording"} /\ phase' = [phase EXCEPT ![c] = "failed"]
      /\ UNCHANGED <<buffer, subscribed, listening, live>>
  BY DEF Fails, gateway
<1>2. NothingHeldBack' /\ Believed' /\ "failed" \in Phases
  BY <1>1, PhaseHolds DEF GatewayInv, Believed, Phases
<1>3. QED
  BY <1>1, <1>2, PhaseKeeps

LEMMA RequestKeeps ==
  ASSUME GatewayInv, NEW c \in Command, Request(c)
  PROVE  GatewayInv'
<1>1. /\ phase[c] = "recording" /\ phase' = [phase EXCEPT ![c] = "requested"]
      /\ UNCHANGED <<buffer, subscribed, listening, live>>
  BY DEF Request, gateway
<1>2. NothingHeldBack' /\ Believed' /\ "requested" \in Phases /\ Sends(c)
  BY <1>1, PhaseHolds DEF GatewayInv, Believed, Phases, Sends
<1>3. QED
  BY <1>1, <1>2, PhaseKeeps

\* The run of a command that has just been accepted.
Begun(c, r) ==
  [cmd |-> c, sent |-> 0, over |-> FALSE, answered |-> FALSE,
   former |-> IF live[r] = None THEN {} ELSE live[r].former \cup {live[r].cmd},
   mixed |-> live[r] # None /\ (live[r].mixed \/ UnderWay(r))]

LEMMA BegunIsRun ==
  ASSUME live \in [Run -> {None} \cup LiveRun], NEW c \in Command, NEW r \in Run
  PROVE  /\ Begun(c, r) \in LiveRun /\ Begun(c, r).cmd = c
         /\ live[r] = None => Begun(c, r).former = {}
         /\ live[r] # None => Begun(c, r).former = live[r].former \cup {live[r].cmd}
         /\ Begun(c, r).mixed <=> live[r] # None /\ (live[r].mixed \/ UnderWay(r))
<1>1. PICK b \in BOOLEAN : b = (live[r] # None /\ (live[r].mixed \/ UnderWay(r)))
  BY Zenon
<1>2. PICK s \in SUBSET Command :
        s = IF live[r] = None THEN {} ELSE live[r].former \cup {live[r].cmd}
  BY DEF LiveRun
<1>3. Begun(c, r) = [cmd |-> c, sent |-> 0, over |-> FALSE, answered |-> FALSE, former |-> s,
                     mixed |-> b]
  BY <1>1, <1>2, Zenon DEF Begun
<1>4. /\ Begun(c, r) \in LiveRun /\ Begun(c, r).cmd = c
      /\ Begun(c, r).former = s /\ Begun(c, r).mixed = b
  BY <1>3 DEF LiveRun
<1>5. QED
  BY <1>1, <1>2, <1>4

\* The Gateway starts one run for a request, also under an id it gave before.
LEMMA AcceptKeeps ==
  ASSUME GatewayInv, NEW c \in Command, Accept(c)
  PROVE  GatewayInv'
<1>1. phase[c] = "requested" /\ ~Started(c)
      /\ UNCHANGED <<phase, buffer, subscribed, listening>>
  BY DEF Accept, gateway
<1>2. PICK r \in Run : live' = [live EXCEPT ![r] = Begun(c, r)]
  BY DEF Accept, Begun
<1>3. /\ live' \in [Run -> {None} \cup LiveRun]
      /\ live'[r].cmd = c
      /\ \A q \in Run \ {r} : live'[q] = live[q]
  <2>1. live \in [Run -> {None} \cup LiveRun]
    BY DEF GatewayInv
  <2>2. Begun(c, r) \in LiveRun /\ Begun(c, r).cmd = c
    BY <2>1, BegunIsRun
  <2>3. QED
    BY <1>2, <2>1, <2>2
<1>4. OneOwner /\ Owns(c)
  BY <1>1 DEF GatewayInv, Owns, Sends
<1>5. \A d \in Command \ {c} : Started(d)' => Started(d)
  BY <1>3 DEF Started
<1>6. \A d \in Command : Owns(d)' => Owns(d)
  BY <1>1, <1>4, <1>5 DEF Owns, Sends
<1>7. \A d \in Command : Started(d)' => phase'[d] \notin {"new", "joined"}
  BY <1>1, <1>4, <1>5 DEF OneOwner
<1>8. \A d, e \in Command : d # e /\ KeyOf[d] = KeyOf[e] /\ Owns(d)' => ~Owns(e)'
  BY <1>4, <1>6 DEF OneOwner
<1>9. \A p, q \in Run : live'[p] # None /\ live'[q] # None /\ live'[p].cmd = live'[q].cmd => p = q
  <2>1. \A q \in Run \ {r} : live'[q] # None => live'[q].cmd # c
    BY <1>1, <1>3 DEF Started
  <2>2. \A p, q \in Run \ {r} : live'[p] # None /\ live'[q] # None /\ live'[p].cmd = live'[q].cmd
                                  => p = q
    BY <1>3, <1>4 DEF OneOwner
  <2>3. QED
    BY <1>3, <2>1, <2>2
<1>10. OneOwner'
  BY <1>7, <1>8, <1>9 DEF OneOwner
<1>11. QED
  BY <1>1, <1>3, <1>10, GatewayKeeps

\* A run that goes on stays the run of its command.
LEMMA LiveKeeps ==
  ASSUME GatewayInv, UNCHANGED <<phase, buffer, subscribed, listening>>,
         NEW r \in Run, live[r] # None, NEW x, live' = [live EXCEPT ![r] = x],
         x \in LiveRun,
         x.cmd = live[r].cmd
  PROVE  GatewayInv'
<1>1. /\ live' \in [Run -> {None} \cup LiveRun]
      /\ live'[r] = x /\ \A q \in Run \ {r} : live'[q] = live[q]
  BY DEF GatewayInv
<1>2. \A q \in Run : live'[q] # None => live[q] # None /\ live'[q].cmd = live[q].cmd
  BY <1>1
<1>3. /\ \A d \in Command : Sends(d)' => Sends(d)
      /\ \A d \in Command : phase[d] \notin {"new", "joined"} => phase'[d] \notin {"new", "joined"}
  BY DEF Sends
<1>4. OneOwner'
  BY <1>2, <1>3, OwnersKept DEF GatewayInv
<1>5. QED
  BY <1>1, <1>4, GatewayKeeps

LEMMA RespondKeeps ==
  ASSUME GatewayInv, NEW r \in Run, Respond(r)
  PROVE  GatewayInv'
<1>1. PICK x : x = [live[r] EXCEPT !.answered = TRUE]
  OBVIOUS
<1>2. live[r] # None /\ live' = [live EXCEPT ![r] = x]
      /\ UNCHANGED <<phase, buffer, subscribed, listening>>
  BY <1>1 DEF Respond, gateway
<1>3. live[r] \in LiveRun
  BY <1>2 DEF GatewayInv
<1>4. x \in LiveRun
      /\ x.cmd = live[r].cmd
  BY <1>1, <1>3 DEF LiveRun
<1>5. QED
  BY <1>2, <1>4, LiveKeeps

LEMMA EmitKeeps ==
  ASSUME GatewayInv, NEW r \in Run, NEW what, Emit(r, what)
  PROVE  GatewayInv'
<1>1. PICK x : x = [live[r] EXCEPT !.sent = IF what = "delta" THEN @ + 1 ELSE @,
                                   !.over = @ \/ what # "delta"]
  OBVIOUS
<1>2. live[r] # None
      /\ UNCHANGED <<phase, buffer, subscribed, listening>>
  BY DEF Emit, gateway
<1>3. live[r] \in LiveRun
  BY <1>2 DEF GatewayInv
<1>4. live' = [live EXCEPT ![r] = x]
  BY <1>1 DEF Emit, GatewayInv
<1>5. x \in LiveRun
      /\ x.cmd = live[r].cmd
  <2>1. PICK b \in BOOLEAN : b = (live[r].over \/ what # "delta")
    BY Zenon
  <2>2. PICK n \in Nat : n = IF what = "delta" THEN live[r].sent + 1 ELSE live[r].sent
    BY <1>3 DEF LiveRun
  <2>3. x = [live[r] EXCEPT !.sent = n, !.over = b]
    BY <1>1, <2>1, <2>2, Zenon
  <2>4. QED
    BY <1>3, <2>3 DEF LiveRun
<1>6. QED
  BY <1>2, <1>4, <1>5, LiveKeeps

LEMMA AbortKeeps ==
  ASSUME GatewayInv, NEW k \in Key, Abort(k)
  PROVE  GatewayInv'
<1>1. PICK r : r = runs.providers[k]
  OBVIOUS
<1>2. PICK x : x = [live[r] EXCEPT !.over = TRUE]
  OBVIOUS
<1>3. /\ live[r] # None /\ live' = [live EXCEPT ![r] = x]
      /\ UNCHANGED <<phase, buffer, subscribed, listening>>
  BY <1>1, <1>2 DEF Abort, gateway
<1>4. CASE r \in Run
  <2>1. live[r] \in LiveRun
    BY <1>3, <1>4 DEF GatewayInv
  <2>2. x \in LiveRun
        /\ x.cmd = live[r].cmd
    BY <1>2, <2>1 DEF LiveRun
  <2>3. QED
    BY <1>3, <1>4, <2>2, LiveKeeps
<1>5. CASE r \notin Run
  <2>1. live' = live
    BY <1>3, <1>5 DEF GatewayInv
  <2>2. NothingHeldBack' /\ Believed'
    BY <1>3, HeldKept DEF GatewayInv, Believed
  <2>3. QED
    BY <1>3, <2>1, <2>2, SamePhasesKeep
<1>6. QED
  BY <1>4, <1>5

\* The client reads an answer; events wait for its continuation.
LEMMA ReadResponseKeeps ==
  ASSUME GatewayInv, ReadResponse
  PROVE  GatewayInv'
<1>1. /\ phase' = [phase EXCEPT ![Head(wire).cmd] = IF @ = "requested" THEN "answered" ELSE @]
      /\ UNCHANGED <<buffer, subscribed, listening, live>>
  BY DEF ReadResponse, gateway
<1>2. /\ phase' \in [Command -> Phases]
      /\ \A d \in Command : phase'[d] = phase[d]
                            \/ (phase[d] = "requested" /\ phase'[d] = "answered")
  BY <1>1 DEF GatewayInv, Phases
<1>3. /\ \A d \in Command : Sends(d)' => Sends(d)
      /\ \A d \in Command : phase[d] \notin {"new", "joined"} => phase'[d] \notin {"new", "joined"}
      /\ \A d \in Command : phase[d] \in {"requested", "answered"}
                              => phase'[d] \in {"requested", "answered"}
  BY <1>2 DEF Sends
<1>4. NothingHeldBack' /\ OneOwner' /\ Believed'
  BY <1>1, <1>3, HeldKept, OwnersKept DEF GatewayInv, Believed
<1>5. QED
  BY <1>1, <1>2, <1>4 DEF GatewayInv

LEMMA ReadEventKeeps ==
  ASSUME GatewayInv, ReadEvent
  PROVE  GatewayInv'
<1>1. UNCHANGED <<phase, live, subscribed, listening>>
  BY DEF ReadEvent, gateway
<1>2. buffer' = buffer \/ Hooks(phase) # {}
  BY DEF ReadEvent
<1>3. NothingHeldBack'
  BY <1>1, <1>2 DEF GatewayInv, NothingHeldBack
<1>4. Believed'
  BY <1>1 DEF GatewayInv, Believed
<1>5. QED
  BY <1>1, <1>3, <1>4, SamePhasesKeep

LEMMA SettleKeeps ==
  ASSUME GatewayInv, NEW c \in Command, Settle(c)
  PROVE  GatewayInv'
<1>1. /\ phase' = [phase EXCEPT ![c] = "done"] /\ UNCHANGED <<subscribed, listening, live>>
      /\ "done" \in Phases
  BY DEF Settle, gateway, Phases
<1>2. PICK st : Release(st)
  BY DEF Settle
<1>3. NothingHeldBack' /\ Believed'
  BY <1>1, <1>2, Released DEF GatewayInv, Believed
<1>4. QED
  BY <1>1, <1>3, PhaseKeeps

LEMMA RequestFailsKeeps ==
  ASSUME GatewayInv, NEW c \in Command, RequestFails(c)
  PROVE  GatewayInv'
<1>1. /\ phase' = [phase EXCEPT ![c] = "failed"] /\ UNCHANGED <<subscribed, listening, live>>
      /\ "failed" \in Phases /\ Release(runs)
  BY DEF RequestFails, gateway, Phases
<1>2. NothingHeldBack' /\ Believed'
  BY <1>1, Released DEF GatewayInv, Believed
<1>3. QED
  BY <1>1, <1>2, PhaseKeeps

\* A connection is lost: requests fail and subscriptions are forgotten.
LEMMA DropKeeps ==
  ASSUME GatewayInv, Drop, subscribed' = {}, live' = live, NothingHeldBack'
  PROVE  GatewayInv'
<1>1. phase' = [c \in Command |-> IF phase[c] = "requested" THEN "failed" ELSE phase[c]]
  BY DEF Drop
<1>2. /\ phase' \in [Command -> Phases]
      /\ \A d \in Command : Sends(d)' => Sends(d)
      /\ \A d \in Command : phase[d] \notin {"new", "joined"} => phase'[d] \notin {"new", "joined"}
  BY <1>1 DEF GatewayInv, Sends, Phases
<1>3. OneOwner'
  BY <1>2, OwnersKept DEF GatewayInv
<1>4. QED
  BY <1>2, <1>3 DEF GatewayInv, Believed

LEMMA StepKeeps ==
  ASSUME GatewayInv, Next
  PROVE  GatewayInv'
<1>1. CASE GatewayDrops
  BY <1>1, Released, DropKeeps DEF GatewayDrops, GatewayInv
<1>2. CASE RelayCloses
  <2>1. NothingHeldBack'
    BY <1>2 DEF RelayCloses, NothingHeldBack
  <2>2. QED
    BY <1>2, <2>1, DropKeeps DEF RelayCloses
<1>3. ASSUME NEW k \in Key \cup Run, Send(k) PROVE GatewayInv'
  <2>1. UNCHANGED <<phase, live, buffer, subscribed, listening>>
    BY <1>3 DEF Send, gateway
  <2>2. NothingHeldBack' /\ Believed'
    BY <2>1, HeldKept DEF GatewayInv, Believed
  <2>3. QED
    BY <2>1, <2>2, SamePhasesKeep
<1>4. CASE GatewayConnects
  <2>1. UNCHANGED <<phase, live, buffer, subscribed, listening>>
    BY <1>4 DEF GatewayConnects
  <2>2. NothingHeldBack' /\ Believed'
    BY <2>1, HeldKept DEF GatewayInv, Believed
  <2>3. QED
    BY <2>1, <2>2, SamePhasesKeep
<1>5. ASSUME NEW s \in Session, Refresh(s) PROVE GatewayInv'
  <2>1. /\ UNCHANGED <<phase, live, buffer>>
        /\ subscribed' = subscribed \cup {s} /\ listening' = listening \cup {s}
    BY <1>5 DEF Refresh
  <2>2. NothingHeldBack' /\ Believed'
    BY <2>1, HeldKept DEF GatewayInv, Believed
  <2>3. QED
    BY <2>1, <2>2, SamePhasesKeep
<1>6. QED
  BY <1>1, <1>2, <1>3, <1>4, <1>5, IssueKeeps, JoinKeeps, SubscribeKeeps, FailsKeeps,
     RequestKeeps, AcceptKeeps, SettleKeeps, RequestFailsKeeps, RespondKeeps, EmitKeeps,
     ReadResponseKeeps, ReadEventKeeps, AbortKeeps DEF Next

---------------------------------------------------------------------------
(* The theorems                                                            *)

LEMMA InvStarts == Init => GatewayInv
  BY DEF Init, GatewayInv, Phases, NothingHeldBack, Believed, OneOwner, Owns, Sends, Started

\* The client's buffer, the manager's subscriptions and the owners of the keys
\* hold together.
THEOREM GatewayInvariance == Spec => []GatewayInv
<1>1. GatewayInv /\ UNCHANGED vars => GatewayInv'
  <2> SUFFICES ASSUME GatewayInv, UNCHANGED vars PROVE GatewayInv'
    OBVIOUS
  <2>1. UNCHANGED <<phase, live, buffer, subscribed, listening>>
    BY DEF vars, gateway
  <2>2. NothingHeldBack' /\ Believed'
    BY <2>1, HeldKept DEF GatewayInv, Believed
  <2>3. QED
    BY <2>1, <2>2, SamePhasesKeep
<1>2. GatewayInv /\ [Next]_vars => GatewayInv'
  BY <1>1, StepKeeps
<1>3. QED
  BY <1>2, InvStarts, PTL DEF Spec

\* No event is held back behind a request that nobody will answer any more
\* (gateway-client.ts: the finally of request).
THEOREM NothingStaysBehind == Spec => []NothingHeldBack
<1>1. GatewayInv => NothingHeldBack
  BY DEF GatewayInv
<1>2. QED
  BY <1>1, GatewayInvariance, PTL

\* The manager believes in no subscription that the Gateway has forgotten
\* (relay-manager.ts: subscribedSessionMessageKeys).
THEOREM SubscriptionsAreBacked == Spec => []SubscriptionsHold
<1>1. GatewayInv => SubscriptionsHold
  BY DEF GatewayInv, Believed, SubscriptionsHold
<1>2. QED
  BY <1>1, GatewayInvariance, PTL

\* A key starts at most one run at the Gateway, however often and over however
\* many connections its command is sent (the guard's execute()).
THEOREM KeysStartOneRun == Spec => []OneRunPerKey
<1>1. GatewayInv => OneRunPerKey
  <2> SUFFICES ASSUME GatewayInv, NEW r \in Run, NEW q \in Run, live[r] # None, live[q] # None,
                      KeyOf[live[r].cmd] = KeyOf[live[q].cmd]
      PROVE  r = q
    BY DEF OneRunPerKey
  <2>1. live[r].cmd \in Command /\ live[q].cmd \in Command
    BY DEF GatewayInv, LiveRun
  <2>2. Owns(live[r].cmd) /\ Owns(live[q].cmd)
    BY <2>1 DEF Owns, Started
  <2>3. live[r].cmd = live[q].cmd
    BY <2>1, <2>2 DEF GatewayInv, OneOwner
  <2>4. QED
    BY <2>3 DEF GatewayInv, OneOwner
<1>2. QED
  BY <1>1, GatewayInvariance, PTL

---------------------------------------------------------------------------
(* Keys and texts: PhoneInv.  It is stated of the registry st, the queue q, *)
(* what was published p, the phases f and the Gateway's runs l, so that it  *)
(* can be followed through the events handled in one step.                 *)

What == Terminal \cup {"delta"}
Identity == [run : Run, key : Key \cup Run, terminal : BOOLEAN, text : Nat]
Context == [run : Run, key : Key \cup Run]
Op == [key : Key \cup Run, run : Run, cmd : Command, what : What, text : Nat]
Registry ==
  [ids : Seq(Identity), providers : [Key \cup Run -> Run \cup {None}],
   contexts : Seq(Context), out : SUBSET Run]
Queue == [Key \cup Run -> Seq(Op)]

OneEach(s) == \A i, j \in DOMAIN s : s[i].run = s[j].run => i = j
Entries(s) == {s[i] : i \in DOMAIN s}
Seen(st, r) == Knows(st.ids, r) \/ r \in st.out

\* The commands whose runs had or have the id r.
Bearers(l, r) == l[r].former \cup {l[r].cmd}

\* The keys under which the registry may have the run r: that of its command, and until the
\* answer to it is here those of the runs that had the id before.
Good(st, f, l, k, r) ==
  /\ l[r] # None
  /\ \/ l[r].mixed \/ k = KeyOf[l[r].cmd] \/ (k = r /\ r \in st.out)
     \/ f[l[r].cmd] # "done" /\ k \in {r} \cup {KeyOf[d] : d \in l[r].former}

\* An end in the registry is that of the run, or of a former one until the answer is here.
Ended(f, l, r) == l[r].mixed \/ f[l[r].cmd] # "done" \/ l[r].over

RegistryInv(st, f, l) ==
  /\ st \in Registry /\ OneEach(st.ids)
  /\ \A x \in Entries(st.ids) : /\ Good(st, f, l, x.key, x.run)
                                /\ x.terminal => Ended(f, l, x.run)
  /\ \A x \in Entries(st.contexts) : Good(st, f, l, x.key, x.run) /\ Seen(st, x.run)
  /\ \A r \in st.out : l[r] # None

\* A run is registered when its request is answered.  A command has one run.
RunsInv(st, f, l) ==
  /\ \A r \in Run : l[r] # None =>
       /\ f[l[r].cmd] \in {"requested", "answered", "done", "failed"}
       /\ f[l[r].cmd] = "done" => Seen(st, r)
       /\ \A d \in l[r].former : d \in Command /\ f[d] \in {"done", "failed"}
  /\ \A r, q \in Run : l[r] # None /\ l[q] # None /\ Bearers(l, r) \cap Bearers(l, q) # {} => r = q

\* The key under which the phone may see what is said of a run.
Shown(st, f, l, o) ==
  \/ l[o.run].mixed \/ o.key = KeyOf[o.cmd]
  \/ o.key = o.run /\ (f[o.cmd] = "failed" \/ o.run \in st.out)
  \/ f[o.cmd] = "failed" /\ o.key \in {KeyOf[d] : d \in l[o.run].former}

\* A run that has not ended has said its text and nothing else.
Told(st, o) ==
  /\ Seen(st, o.run)
  /\ \A x \in Entries(st.ids) :
       x.run = o.run /\ ~x.terminal /\ o.run \notin st.out => o.what = "delta" /\ o.text <= x.text

\* What is said of the run that has the id, when nothing of a former one can mix with it.
Apart(l, o) == o.cmd = l[o.run].cmd /\ ~l[o.run].mixed

OpInv(st, f, l, o) ==
  /\ l[o.run] # None /\ o.cmd \in Bearers(l, o.run) /\ f[o.cmd] \in {"done", "failed"}
  /\ Shown(st, f, l, o)
  /\ Apart(l, o) => Told(st, o)

\* The text q follows p.
Grows(st, l, p, q) ==
  p.run = q.run /\ p.cmd = q.cmd /\ ~l[p.run].mixed /\ p.run \notin st.out /\ q.what = "delta"
    => p.what = "delta" /\ p.text < q.text

QueueInv(st, f, l, q, p) ==
  /\ q \in Queue
  /\ \A k \in Key \cup Run : \A i \in DOMAIN q[k] :
       /\ q[k][i].key = k /\ OpInv(st, f, l, q[k][i])
       /\ l[q[k][i].run].mixed \/ Apart(l, q[k][i])
       /\ \A j \in DOMAIN q[k] : i < j => Grows(st, l, q[k][i], q[k][j])
       /\ \A c \in Command : \A j \in DOMAIN p[c] :
            p[c][j].key = k => Grows(st, l, p[c][j], q[k][i])

PublishedInv(st, f, l, p) ==
  /\ p \in [Command -> Seq(Op)]
  /\ \A c \in Command : \A i \in DOMAIN p[c] :
       /\ p[c][i].cmd = c /\ OpInv(st, f, l, p[c][i])
       /\ \A j \in DOMAIN p[c] :
            i < j /\ p[c][i].key = p[c][j].key => Grows(st, l, p[c][i], p[c][j])

PhoneInv(s, f, l, p) ==
  /\ RegistryInv(s.st, f, l) /\ RunsInv(s.st, f, l)
  /\ QueueInv(s.st, f, l, s.ops, p) /\ PublishedInv(s.st, f, l, p)

\* A frame is about a run that has been started, the one that has the id unless they mix.
FrameOk(l, e) ==
  /\ e.run \in Run /\ l[e.run] # None /\ e.cmd \in Bearers(l, e.run)
  /\ \/ l[e.run].mixed
     \/ e.cmd = l[e.run].cmd /\ (e.what \in Terminal => l[e.run].over)
Frame == [what : What \cup {"response"}, run : Run, cmd : Command]
FramesInv ==
  /\ wire \in Seq(Frame) /\ buffer \in Seq(Frame)
  /\ \A i \in DOMAIN wire : FrameOk(live, wire[i])
  /\ \A i \in DOMAIN buffer : FrameOk(live, buffer[i]) /\ buffer[i].what \in What
  /\ \A c \in Command : phase[c] = "answered" => Started(c)

TextInv ==
  /\ PhoneInv([st |-> runs, ops |-> ops], phase, live, published)
  /\ FramesInv

---------------------------------------------------------------------------
(* Sequences of identities: what Put, Without and Tail leave in them.      *)

\* A run that is known has a place, and one only.
LEMMA AtPlace ==
  ASSUME NEW s, NEW r, Knows(s, r)
  PROVE  At(s, r) \in DOMAIN s /\ s[At(s, r)].run = r /\ Find(s, r) = s[At(s, r)]
  BY DEF Knows, At, Find

LEMMA KnownIsEntry ==
  ASSUME NEW s, NEW r
  PROVE  /\ Knows(s, r) <=> \E x \in Entries(s) : x.run = r
         /\ Knows(s, r) => Find(s, r) \in Entries(s) /\ Find(s, r).run = r
         /\ OneEach(s) => \A x \in Entries(s) : x.run = r => x = Find(s, r)
<1>1. Knows(s, r) <=> \E x \in Entries(s) : x.run = r
  BY DEF Knows, Entries
<1>2. Knows(s, r) => Find(s, r) \in Entries(s) /\ Find(s, r).run = r
  BY AtPlace DEF Entries
<1>3. ASSUME OneEach(s), NEW x \in Entries(s), x.run = r
      PROVE  x = Find(s, r)
  <2>1. PICK i \in DOMAIN s : x = s[i]
    BY DEF Entries
  <2>2. Knows(s, r)
    BY <1>3, <2>1 DEF Knows
  <2>3. i = At(s, r)
    BY <1>3, <2>1, <2>2, AtPlace DEF OneEach
  <2>4. QED
    BY <2>1, <2>2, <2>3, AtPlace
<1>4. QED
  BY <1>1, <1>2, <1>3

\* Taking a run out leaves what is about others.
LEMMA WithoutLeaves ==
  ASSUME NEW S, NEW s \in Seq(S), NEW r
  PROVE  /\ Without(s, r) \in Seq(S)
         /\ Entries(Without(s, r)) \subseteq Entries(s)
         /\ OneEach(s) =>
              /\ OneEach(Without(s, r))
              /\ Entries(Without(s, r)) = {x \in Entries(s) : x.run # r}
<1> DEFINE w == Without(s, r)
           N == Len(s)
           p == At(s, r)
           f(i) == IF i < p THEN i ELSE i + 1
<1>1. CASE ~Knows(s, r)
  <2>1. w = s
    BY <1>1 DEF Without
  <2>2. Entries(s) = {x \in Entries(s) : x.run # r}
    BY <1>1, KnownIsEntry
  <2>3. QED
    BY <2>1, <2>2
<1>2. CASE Knows(s, r)
  <2>1. N \in Nat /\ DOMAIN s = 1..N /\ p \in 1..N /\ s[p].run = r
    BY <1>2, AtPlace
  <2>2. w = [i \in 1..(N - 1) |-> s[f(i)]]
    BY <1>2 DEF Without
  <2> HIDE DEF N, p, w
  <2>3. \A i \in 1..(N - 1) : f(i) \in 1..N /\ f(i) # p
    BY <2>1
  <2>4. N - 1 \in Nat /\ \A i \in 1..N : s[i] \in S
    BY <2>1 DEF N
  <2>5. w \in Seq(S) /\ DOMAIN w = 1..(N - 1)
    <3>1. \A i \in 1..(N - 1) : s[f(i)] \in S
      BY <2>3, <2>4
    <3>2. w \in [1..(N - 1) -> S]
      BY <2>2, <3>1
    <3>3. QED
      BY <3>2, <2>4, SeqDef
  <2>6. \A i \in 1..(N - 1) : w[i] = s[f(i)] /\ f(i) \in DOMAIN s
    BY <2>1, <2>2, <2>3
  <2>7. Entries(w) \subseteq Entries(s)
    BY <2>5, <2>6 DEF Entries
  <2>8. ASSUME OneEach(s)
        PROVE  OneEach(w) /\ Entries(w) = {x \in Entries(s) : x.run # r}
    <3>1. \A i \in 1..(N - 1) : s[f(i)].run # r
      BY <2>1, <2>3, <2>8 DEF OneEach
    <3>2. \A x \in Entries(w) : x.run # r
      BY <2>5, <2>6, <3>1 DEF Entries
    <3>3. OneEach(w)
      <4> SUFFICES ASSUME NEW i \in 1..(N - 1), NEW j \in 1..(N - 1), w[i].run = w[j].run
                   PROVE  i = j
        BY <2>5 DEF OneEach
      <4>1. f(i) = f(j)
        BY <2>6, <2>8 DEF OneEach
      <4>2. i \in Nat /\ j \in Nat /\ p \in Nat
        BY <2>1
      <4>3. QED
        BY <4>1, <4>2
    <3>4. ASSUME NEW j \in DOMAIN s, s[j].run # r
          PROVE  \E i \in DOMAIN w : w[i] = s[j]
      <4>1. j \in 1..N /\ j # p
        BY <2>1, <3>4
      <4>2. CASE j < p
        <5>1. j \in 1..(N - 1) /\ f(j) = j
          BY <2>1, <4>1, <4>2
        <5>2. QED
          BY <5>1, <2>5, <2>6
      <4>3. CASE ~(j < p)
        <5>1. j - 1 \in 1..(N - 1) /\ f(j - 1) = j
          BY <2>1, <4>1, <4>3
        <5>2. QED
          BY <5>1, <2>5, <2>6
      <4>4. QED
        BY <4>2, <4>3
    <3>5. \A x \in Entries(s) : x.run # r => x \in Entries(w)
      BY <3>4 DEF Entries
    <3>6. QED
      BY <2>7, <3>2, <3>3, <3>5
  <2>9. QED
    BY <2>5, <2>7, <2>8 DEF w
<1>3. QED
  BY <1>1, <1>2

\* What is added comes last.
LEMMA AppendLeaves ==
  ASSUME NEW S, NEW s \in Seq(S), NEW x \in S
  PROVE  LET u == Append(s, x) IN
         /\ u \in Seq(S) /\ Len(u) \in Nat \ {0} /\ u[Len(u)] = x
         /\ Entries(u) = Entries(s) \cup {x}
         /\ OneEach(s) /\ (\A y \in Entries(s) : y.run # x.run) => OneEach(u)
<1> DEFINE u == Append(s, x)
           N == Len(s)
<1>1. /\ u \in Seq(S) /\ N \in Nat /\ DOMAIN s = 1..N /\ DOMAIN u = 1..(N + 1)
      /\ Len(u) = N + 1 /\ u[N + 1] = x
      /\ \A i \in 1..N : u[i] = s[i]
  OBVIOUS
<1> HIDE DEF u, N
<1>2. \A i \in 1..(N + 1) : i \in 1..N \/ i = N + 1
  BY <1>1
<1>3. N + 1 \in 1..(N + 1) /\ \A i \in 1..N : i \in 1..(N + 1)
  BY <1>1
<1>4. Entries(u) = Entries(s) \cup {x}
  BY <1>1, <1>2, <1>3 DEF Entries
<1>5. ASSUME OneEach(s), \A y \in Entries(s) : y.run # x.run
      PROVE  OneEach(u)
  <2>1. \A i \in 1..N : u[i].run # x.run
    BY <1>1, <1>5 DEF Entries
  <2>2. \A i, j \in 1..N : u[i].run = u[j].run => i = j
    BY <1>1, <1>5 DEF OneEach
  <2>3. QED
    BY <2>1, <2>2, <1>1, <1>2 DEF OneEach
<1>6. QED
  BY <1>1, <1>4, <1>5 DEF u

\* What is put comes last, and replaces what was there of its run.
LEMMA PutLeaves ==
  ASSUME NEW S, NEW s \in Seq(S), OneEach(s), NEW x \in S
  PROVE  /\ Put(s, x) \in Seq(S) /\ OneEach(Put(s, x))
         /\ Entries(Put(s, x)) = {y \in Entries(s) : y.run # x.run} \cup {x}
<1> DEFINE w == Without(s, x.run)
<1>1. w \in Seq(S) /\ OneEach(w) /\ Entries(w) = {y \in Entries(s) : y.run # x.run}
  BY WithoutLeaves
<1>2. Put(s, x) = Append(w, x)
  BY DEF Put
<1> HIDE DEF w
<1>3. QED
  BY <1>1, <1>2, AppendLeaves

\* What is left when the one used longest ago is pushed out.
LEMMA TailLeaves ==
  ASSUME NEW S, NEW s \in Seq(S), Len(s) > 1
  PROVE  /\ Tail(s) \in Seq(S) /\ Head(s) \in S /\ Head(s) \in Entries(s)
         /\ Entries(s) = Entries(Tail(s)) \cup {Head(s)}
         /\ OneEach(s) => OneEach(Tail(s)) /\ \A x \in Entries(Tail(s)) : x.run # Head(s).run
<1> DEFINE t == Tail(s)
           N == Len(s)
<1>1. /\ t \in Seq(S) /\ N \in Nat /\ N > 1 /\ DOMAIN s = 1..N /\ DOMAIN t = 1..(N - 1)
      /\ \A i \in 1..(N - 1) : t[i] = s[i + 1]
      /\ Head(s) = s[1] /\ s[1] \in S
  OBVIOUS
<1> HIDE DEF t, N
<1>2. 1 \in 1..N /\ \A i \in 1..(N - 1) : i + 1 \in 1..N /\ i + 1 # 1
  BY <1>1
<1>3. \A j \in 1..N : j = 1 \/ \E i \in 1..(N - 1) : t[i] = s[j]
  <2> SUFFICES ASSUME NEW j \in 1..N, j # 1
               PROVE  \E i \in 1..(N - 1) : t[i] = s[j]
    OBVIOUS
  <2> DEFINE i == j - 1
  <2>1. i \in 1..(N - 1) /\ i + 1 = j
    BY <1>1
  <2> HIDE DEF i
  <2>2. t[i] = s[j]
    BY <1>1, <2>1
  <2>3. QED
    BY <2>1, <2>2
<1>4. Entries(s) = Entries(t) \cup {s[1]}
  <2>1. \A x \in Entries(s) : x \in Entries(t) \cup {s[1]}
    <3> SUFFICES ASSUME NEW x \in Entries(s), x # s[1]
                 PROVE  x \in Entries(t)
      OBVIOUS
    <3>1. PICK j \in DOMAIN s : x = s[j]
      BY DEF Entries
    <3>2. PICK i \in DOMAIN t : t[i] = s[j]
      BY <1>1, <1>3, <3>1
    <3>3. QED
      BY <3>1, <3>2 DEF Entries
  <2>2. \A x \in Entries(t) : x \in Entries(s)
    <3> SUFFICES ASSUME NEW x \in Entries(t)
                 PROVE  x \in Entries(s)
      OBVIOUS
    <3>1. PICK i \in DOMAIN t : x = t[i]
      BY DEF Entries
    <3>2. i \in 1..(N - 1)
      BY <1>1, <3>1
    <3>3. i + 1 \in DOMAIN s /\ t[i] = s[i + 1]
      BY <1>1, <1>2, <3>2
    <3>4. QED
      BY <3>1, <3>3 DEF Entries
  <2>3. s[1] \in Entries(s)
    BY <1>1, <1>2 DEF Entries
  <2>4. QED
    BY <2>1, <2>2, <2>3
<1>5. ASSUME OneEach(s)
      PROVE  OneEach(t) /\ \A x \in Entries(t) : x.run # s[1].run
  <2>1. ASSUME NEW i \in 1..(N - 1), NEW j \in 1..(N - 1), t[i].run = t[j].run
        PROVE  i = j
    <3>1. s[i + 1].run = s[j + 1].run /\ i + 1 \in DOMAIN s /\ j + 1 \in DOMAIN s
      BY <1>1, <1>2, <2>1
    <3>2. i + 1 = j + 1
      BY <1>5, <3>1 DEF OneEach
    <3>3. QED
      BY <3>2, <1>1
  <2>2. \A i \in 1..(N - 1) : s[i + 1].run # s[1].run
    BY <1>1, <1>2, <1>5 DEF OneEach
  <2>3. \A i \in 1..(N - 1) : t[i].run # s[1].run
    BY <1>1, <2>2
  <2>4. QED
    BY <1>1, <2>1, <2>3 DEF OneEach, Entries
<1>6. Head(s) \in Entries(s)
  BY <1>1, <1>2 DEF Entries
<1>7. QED
  BY <1>1, <1>4, <1>5, <1>6 DEF t
---------------------------------------------------------------------------
(* What the registry's operations do to its invariant.                     *)

\* A change of the registry that keeps what was said of runs true: no run is
\* forgotten, and one that goes on is further than it was.  A run of X begins anew.
Advances(X, st, n) ==
  /\ st.out \subseteq n.out
  /\ \A r \in Run : Seen(st, r) => Seen(n, r)
  /\ \A x \in Entries(n.ids) :
       ~x.terminal /\ x.run \notin n.out /\ x.run \notin X /\ Seen(st, x.run) =>
       \E y \in Entries(st.ids) : y.run = x.run /\ ~y.terminal /\ y.text <= x.text

\* A key stays good.
LEMMA GoodStays ==
  ASSUME NEW st, NEW n, NEW f, NEW l, NEW k, NEW r, Good(st, f, l, k, r), st.out \subseteq n.out
  PROVE  Good(n, f, l, k, r)
  BY DEF Good

\* The registry of a state, field by field.
LEMMA RegistryTyped ==
  ASSUME NEW st, NEW f, NEW l, RegistryInv(st, f, l)
  PROVE  /\ st.ids \in Seq(Identity) /\ OneEach(st.ids)
         /\ st.providers \in [Key \cup Run -> Run \cup {None}]
         /\ st.contexts \in Seq(Context) /\ st.out \in SUBSET Run
         /\ Entries(st.ids) \subseteq Identity /\ Entries(st.contexts) \subseteq Context
<1>1. /\ st.ids \in Seq(Identity) /\ OneEach(st.ids)
      /\ st.providers \in [Key \cup Run -> Run \cup {None}]
      /\ st.contexts \in Seq(Context) /\ st.out \in SUBSET Run
  BY DEF RegistryInv, Registry
<1>2. Entries(st.ids) \subseteq Identity /\ Entries(st.contexts) \subseteq Context
  BY <1>1 DEF Entries
<1>3. QED
  BY <1>1, <1>2

\* The text or the end of a run is written down, if the registry knows it.
LEMMA UpdateLeaves ==
  ASSUME NEW st, NEW f, NEW l, RegistryInv(st, f, l), NEW r \in Run, NEW x,
         Knows(st.ids, r) => x \in Identity /\ x.run = r /\ x.key = Find(st.ids, r).key,
         Knows(st.ids, r) /\ x.terminal => Ended(f, l, r)
  PROVE  LET n == Update(st, r, x) IN
         /\ RegistryInv(n, f, l) /\ n.out = st.out /\ n.contexts = st.contexts
         /\ \A q \in Run : Seen(n, q) <=> Seen(st, q)
         /\ Knows(st.ids, r) =>
              Entries(n.ids) = {y \in Entries(st.ids) : y.run # r} \cup {x}
         /\ ~Knows(st.ids, r) => n = st
<1> DEFINE n == Update(st, r, x)
<1>1. CASE ~Knows(st.ids, r)
  <2>1. n = st
    BY <1>1 DEF Update, RegistryInv, Registry
  <2>2. QED
    BY <1>1, <2>1
<1>2. CASE Knows(st.ids, r)
  <2> DEFINE u == Put(st.ids, x)
  <2>1. n = [st EXCEPT !.ids = u]
    BY <1>2 DEF Update
  <2>2. x \in Identity /\ x.run = r /\ x.key = Find(st.ids, r).key
    BY <1>2
  <2>3. /\ u \in Seq(Identity) /\ OneEach(u)
        /\ Entries(u) = {y \in Entries(st.ids) : y.run # r} \cup {x}
    <3>1. st.ids \in Seq(Identity) /\ OneEach(st.ids)
      BY RegistryTyped
    <3>2. /\ u \in Seq(Identity) /\ OneEach(u)
          /\ Entries(u) = {y \in Entries(st.ids) : y.run # x.run} \cup {x}
      BY <2>2, <3>1, PutLeaves
    <3>3. QED
      BY <2>2, <3>2
  <2> HIDE DEF u, n
  <2>4. /\ n \in Registry /\ n.ids = u /\ n.out = st.out /\ n.contexts = st.contexts
    BY <2>1, <2>3 DEF RegistryInv, Registry
  <2>5. Find(st.ids, r) \in Entries(st.ids) /\ Find(st.ids, r).run = r
    BY <1>2, KnownIsEntry
  <2>6. \A q \in Run : Knows(n.ids, q) <=> Knows(st.ids, q)
    BY <2>2, <2>3, <2>4, <2>5, KnownIsEntry
  <2>7. \A q \in Run : Seen(n, q) <=> Seen(st, q)
    BY <2>4, <2>6 DEF Seen
  <2>8. \A y \in Entries(st.ids) : Good(st, f, l, y.key, y.run)
    BY DEF RegistryInv
  <2>9. Good(st, f, l, x.key, x.run)
    BY <2>2, <2>5, <2>8
  <2>10. \A y \in Entries(n.ids) : /\ Good(n, f, l, y.key, y.run)
                                   /\ y.terminal => Ended(f, l, y.run)
    <3>1. \A y \in Entries(n.ids) : Good(n, f, l, y.key, y.run)
      BY <2>3, <2>4, <2>8, <2>9, GoodStays
    <3>2. \A y \in Entries(st.ids) : y.terminal => Ended(f, l, y.run)
      BY DEF RegistryInv
    <3>3. x.terminal => Ended(f, l, x.run)
      BY <1>2, <2>2
    <3>4. QED
      BY <2>3, <2>4, <3>1, <3>2, <3>3
  <2>11. \A y \in Entries(n.contexts) : Good(n, f, l, y.key, y.run) /\ Seen(n, y.run)
    <3>1. \A y \in Entries(n.contexts) : y.run \in Run
      BY <2>4, RegistryTyped DEF Context
    <3>2. \A y \in Entries(n.contexts) : Good(st, f, l, y.key, y.run) /\ Seen(st, y.run)
      BY <2>4 DEF RegistryInv
    <3>3. QED
      BY <2>4, <2>7, <3>1, <3>2, GoodStays
  <2>12. RegistryInv(n, f, l)
    BY <2>3, <2>4, <2>10, <2>11 DEF RegistryInv
  <2>13. QED
    BY <1>2, <2>3, <2>4, <2>7, <2>12 DEF n
<1>3. QED
  BY <1>1, <1>2

\* A run is registered, perhaps anew; the bound may push another out.
LEMMA RegisterLeaves ==
  ASSUME NEW X, NEW st, NEW f, NEW l, RegistryInv(st, f, l), NEW r \in Run,
         NEW k \in Key \cup Run, Knows(st.ids, r) => r \in X, Good(st, f, l, k, r)
  PROVE  LET n == Register(st, r, k) IN
         /\ RegistryInv(n, f, l) /\ Advances(X, st, n) /\ n.contexts = st.contexts
         /\ Seen(n, r) /\ \A q \in Run : Seen(n, q) => Seen(st, q) \/ q = r
         /\ \A y \in Entries(n.ids) : y.run = r => y.key = k /\ ~y.terminal
<1> DEFINE n == Register(st, r, k)
           x == [run |-> r, key |-> k, terminal |-> FALSE, text |-> 0]
           u == Put(st.ids, x)
           known == IF Knows(st.ids, r) THEN RemoveMapping(st.providers, Find(st.ids, r))
                    ELSE st.providers
           pr == [known EXCEPT ![k] = r]
<1>0. /\ st.ids \in Seq(Identity) /\ OneEach(st.ids)
      /\ st.providers \in [Key \cup Run -> Run \cup {None}]
      /\ st.contexts \in Seq(Context) /\ st.out \in SUBSET Run
      /\ Entries(st.ids) \subseteq Identity /\ Entries(st.contexts) \subseteq Context
  BY RegistryTyped
<1>1. x \in Identity /\ x.run = r /\ x.key = k /\ ~x.terminal
  BY DEF Identity
<1>2. /\ u \in Seq(Identity) /\ OneEach(u) /\ Len(u) \in Nat
      /\ Entries(u) = {y \in Entries(st.ids) : y.run # r} \cup {x}
  <2> HIDE DEF x
  <2>1. /\ u \in Seq(Identity) /\ OneEach(u)
        /\ Entries(u) = {y \in Entries(st.ids) : y.run # x.run} \cup {x}
    <3>1. st.ids \in Seq(Identity) /\ OneEach(st.ids) /\ x \in Identity
      BY <1>0, <1>1
    <3>2. QED
      BY <3>1, PutLeaves
  <2>2. Len(u) \in Nat
    BY <2>1
  <2>3. QED
    BY <1>1, <2>1, <2>2
<1>3. ~Knows(st.ids, r) => \A y \in Entries(st.ids) : y.run # r
  BY KnownIsEntry
<1>4. \A y : y \in Entries(u) <=> (y \in Entries(st.ids) /\ y.run # r) \/ y = x
  BY <1>2
<1>5. pr \in [Key \cup Run -> Run \cup {None}]
  <2>1. known \in [Key \cup Run -> Run \cup {None}]
    BY <1>0 DEF RemoveMapping
  <2> HIDE DEF known
  <2>2. QED
    BY <2>1
<1>6. n = IF Len(u) > MaxIdentities
          THEN [st EXCEPT !.ids = Tail(u), !.out = @ \cup {Head(u).run},
                          !.providers = RemoveMapping(pr, Head(u))]
          ELSE [st EXCEPT !.ids = u, !.providers = pr]
  BY DEF Register
<1> HIDE DEF known
<1>7. st \in Registry /\ \A q \in st.out : l[q] # None
  BY DEF RegistryInv
<1>8. \A y \in Entries(st.ids) : /\ Good(st, f, l, y.key, y.run)
                                 /\ y.terminal => Ended(f, l, y.run)
  BY DEF RegistryInv
<1>9. \A y \in Entries(st.contexts) : Good(st, f, l, y.key, y.run) /\ Seen(st, y.run)
  BY DEF RegistryInv
<1> DEFINE o == IF Len(u) > MaxIdentities THEN {Head(u).run} ELSE {}
<1> HIDE DEF x, pr
<1>10. /\ n \in Registry /\ n.out = st.out \cup o /\ n.contexts = st.contexts
       /\ OneEach(n.ids) /\ Entries(n.ids) \subseteq Entries(u)
       /\ \A q \in o : l[q] # None /\ (Knows(st.ids, q) \/ q = r)
       /\ \A y \in Entries(u) : y \in Entries(n.ids) \/ y.run \in o
  <2>1. CASE ~(Len(u) > MaxIdentities)
    <3>1. n = [st EXCEPT !.ids = u, !.providers = pr] /\ o = {}
      BY <1>6, <2>1
    <3> HIDE DEF n, u, o
    <3>2. n \in Registry /\ n.ids = u /\ n.out = st.out /\ n.contexts = st.contexts
      BY <1>2, <1>5, <1>7, <3>1 DEF Registry
    <3>3. QED
      BY <1>2, <3>1, <3>2
  <2>2. CASE Len(u) > MaxIdentities
    <3> DEFINE h == Head(u)
               t == Tail(u)
    <3>0. o = {h.run}
      BY <2>2
    <3>1. n = [st EXCEPT !.ids = t, !.out = @ \cup {h.run}, !.providers = RemoveMapping(pr, h)]
      BY <1>6, <2>2
    <3> HIDE DEF n, u, o
    <3>2. Len(u) > 1
      BY <1>2, <2>2, SomeIdentities
    <3>3. /\ t \in Seq(Identity) /\ h \in Identity /\ h \in Entries(u)
          /\ Entries(u) = Entries(t) \cup {h} /\ OneEach(t)
      BY <1>2, <3>2, TailLeaves
    <3> HIDE DEF h, t
    <3>4. h.run \in Run
      BY <3>3 DEF Identity
    <3>5. RemoveMapping(pr, h) \in [Key \cup Run -> Run \cup {None}]
      BY <1>5 DEF RemoveMapping
    <3>6. n \in Registry /\ n.ids = t /\ n.out = st.out \cup {h.run} /\ n.contexts = st.contexts
      BY <1>7, <3>1, <3>3, <3>4, <3>5 DEF Registry
    <3>7. l[h.run] # None
      BY <1>1, <1>4, <1>8, <3>3 DEF Good
    <3>8. Knows(st.ids, h.run) \/ h.run = r
      BY <1>1, <1>4, <3>3, KnownIsEntry
    <3>9. QED
      BY <3>0, <3>3, <3>6, <3>7, <3>8
  <2>3. QED
    BY <2>1, <2>2
<1> HIDE DEF n, u, o
<1>11. \A q \in Run : Seen(st, q) \/ q = r => Seen(n, q)
  BY <1>1, <1>4, <1>10, KnownIsEntry DEF Seen
<1>12. \A q \in Run : Seen(n, q) => Seen(st, q) \/ q = r
  BY <1>1, <1>4, <1>10, KnownIsEntry DEF Seen
<1>13. \A y \in Entries(u) : Good(st, f, l, y.key, y.run)
  BY <1>1, <1>4, <1>8
<1>14. \A y \in Entries(n.ids) : /\ Good(n, f, l, y.key, y.run)
                                 /\ y.terminal => Ended(f, l, y.run)
  <2>1. \A y \in Entries(n.ids) : Good(n, f, l, y.key, y.run)
    BY <1>10, <1>13, GoodStays
  <2>2. \A y \in Entries(n.ids) : y.terminal => Ended(f, l, y.run)
    BY <1>1, <1>4, <1>8, <1>10
  <2>3. QED
    BY <2>1, <2>2
<1>15. \A y \in Entries(n.contexts) : y.run \in Run
  BY <1>0, <1>10 DEF Context
<1>16. \A y \in Entries(n.contexts) : Good(n, f, l, y.key, y.run) /\ Seen(n, y.run)
  BY <1>9, <1>10, <1>11, <1>15, GoodStays
<1>17. \A q \in n.out : l[q] # None
  BY <1>7, <1>10
<1>18. RegistryInv(n, f, l)
  BY <1>10, <1>14, <1>16, <1>17 DEF RegistryInv
<1>19. \A y \in Entries(n.ids) :
         ~y.terminal /\ y.run \notin n.out /\ y.run \notin X /\ Seen(st, y.run) =>
           \E z \in Entries(st.ids) : z.run = y.run /\ ~z.terminal /\ z.text <= y.text
  <2> SUFFICES ASSUME NEW y \in Entries(n.ids), ~y.terminal, y.run \notin n.out,
                      y.run \notin X, Seen(st, y.run)
               PROVE  \E z \in Entries(st.ids) : z.run = y.run /\ ~z.terminal /\ z.text <= y.text
    OBVIOUS
  <2>1. y \in Entries(st.ids) \/ y = x
    BY <1>4, <1>10
  <2>2. y # x
    BY <1>1, <1>10 DEF Seen
  <2>3. y.text \in Nat
    BY <1>0, <2>1, <2>2 DEF Identity
  <2>4. QED
    BY <2>1, <2>2, <2>3
<1>20. Advances(X, st, n)
  BY <1>10, <1>11, <1>19 DEF Advances
<1>21. \A y \in Entries(n.ids) : y.run = r => y.key = k /\ ~y.terminal
  BY <1>1, <1>4, <1>10
<1>22. QED
  BY <1>10, <1>11, <1>12, <1>18, <1>20, <1>21 DEF n

\* The connection's contexts change.
LEMMA ContextsLeave ==
  ASSUME NEW st, NEW f, NEW l, RegistryInv(st, f, l), NEW c \in Seq(Context),
         \A x \in Entries(c) :
           x \in Entries(st.contexts) \/ (Good(st, f, l, x.key, x.run) /\ Seen(st, x.run))
  PROVE  LET n == [st EXCEPT !.contexts = c] IN
         /\ RegistryInv(n, f, l) /\ n.ids = st.ids /\ n.out = st.out
<1> DEFINE n == [st EXCEPT !.contexts = c]
<1>1. n \in Registry /\ n.ids = st.ids /\ n.out = st.out /\ n.contexts = c
  BY DEF RegistryInv, Registry
<1> HIDE DEF n
<1>2. \A x \in Entries(c) : Good(st, f, l, x.key, x.run) /\ Seen(st, x.run)
  BY DEF RegistryInv
<1>3. \A x \in Entries(c) : Good(n, f, l, x.key, x.run)
  BY <1>1, <1>2, GoodStays
<1>4. \A x \in Entries(c) : Seen(n, x.run)
  BY <1>1, <1>2 DEF Seen
<1>5. /\ OneEach(st.ids) /\ \A r \in st.out : l[r] # None
      /\ \A x \in Entries(st.ids) : /\ Good(st, f, l, x.key, x.run)
                                    /\ x.terminal => Ended(f, l, x.run)
  BY DEF RegistryInv
<1>6. \A x \in Entries(n.ids) : /\ Good(n, f, l, x.key, x.run)
                                /\ x.terminal => Ended(f, l, x.run)
  <2>1. \A x \in Entries(st.ids) : Good(n, f, l, x.key, x.run)
    BY <1>1, <1>5, GoodStays
  <2>2. QED
    BY <1>1, <1>5, <2>1
<1>7. RegistryInv(n, f, l)
  BY <1>1, <1>3, <1>4, <1>5, <1>6 DEF RegistryInv
<1>8. QED
  BY <1>1, <1>7 DEF n

LEMMA SetContextLeaves ==
  ASSUME NEW st, NEW f, NEW l, RegistryInv(st, f, l), NEW r \in Run, NEW k \in Key \cup Run,
         Good(st, f, l, k, r), Seen(st, r)
  PROVE  LET n == SetContext(st, r, k) IN
         /\ RegistryInv(n, f, l) /\ n.ids = st.ids /\ n.out = st.out
         /\ \A x \in Entries(n.contexts) : x.run = r => x.key = k
<1> DEFINE c == [run |-> r, key |-> k]
           d == st.contexts
           e == IF Knows(d, r) THEN [i \in DOMAIN d |-> IF d[i].run = r THEN c ELSE d[i]]
                ELSE Append(d, c)
           t == IF Len(e) > MaxIdentities THEN Tail(e) ELSE e
<1>1. SetContext(st, r, k) = [st EXCEPT !.contexts = t]
  BY DEF SetContext
<1>2. c \in Context /\ c.run = r /\ c.key = k
  BY DEF Context
<1>3. d \in Seq(Context)
  BY RegistryTyped
<1> HIDE DEF c, d
<1>4. /\ e \in Seq(Context) /\ Entries(e) \subseteq Entries(d) \cup {c}
      /\ \A x \in Entries(e) : x.run = r => x = c
  <2>1. CASE Knows(d, r)
    <3>1. e = [i \in DOMAIN d |-> IF d[i].run = r THEN c ELSE d[i]]
      BY <2>1
    <3> HIDE DEF e
    <3>2. e \in Seq(Context)
      BY <1>2, <1>3, <3>1
    <3>3. /\ Entries(e) \subseteq Entries(d) \cup {c}
          /\ \A x \in Entries(e) : x.run = r => x = c
      BY <3>1 DEF Entries
    <3>4. QED
      BY <3>2, <3>3
  <2>2. CASE ~Knows(d, r)
    <3>1. e = Append(d, c)
      BY <2>2
    <3> HIDE DEF e
    <3>2. e \in Seq(Context) /\ Entries(e) = Entries(d) \cup {c}
      BY <1>2, <1>3, <3>1, AppendLeaves
    <3>3. \A x \in Entries(d) : x.run # r
      BY <2>2, KnownIsEntry
    <3>4. QED
      BY <3>2, <3>3
  <2>3. QED
    BY <2>1, <2>2
<1> HIDE DEF e
<1>5. /\ t \in Seq(Context) /\ Entries(t) \subseteq Entries(d) \cup {c}
      /\ \A x \in Entries(t) : x.run = r => x = c
  <2>1. CASE Len(e) > MaxIdentities
    <3>1. Len(e) > 1 /\ t = Tail(e)
      BY <1>4, <2>1, SomeIdentities
    <3>2. QED
      BY <1>4, <3>1, TailLeaves
  <2>2. CASE ~(Len(e) > MaxIdentities)
    BY <1>4, <2>2
  <2>3. QED
    BY <2>1, <2>2
<1> HIDE DEF t
<1>6. \A x \in Entries(t) :
        x \in Entries(st.contexts) \/ (Good(st, f, l, x.key, x.run) /\ Seen(st, x.run))
  BY <1>2, <1>5 DEF d
<1> DEFINE n == SetContext(st, r, k)
<1>7. RegistryInv(n, f, l) /\ n.ids = st.ids /\ n.out = st.out
  BY <1>1, <1>5, <1>6, ContextsLeave
<1>8. n.contexts = t
  BY <1>1 DEF RegistryInv, Registry
<1> HIDE DEF n
<1>9. \A x \in Entries(n.contexts) : x.run = r => x.key = k
  BY <1>2, <1>5, <1>8
<1>10. QED
  BY <1>7, <1>9 DEF n

\* A run the registry has seen is shown under a good key.
LEMMA KeyForIsGood ==
  ASSUME NEW st, NEW f, NEW l, RegistryInv(st, f, l), NEW r \in Run, Seen(st, r)
  PROVE  KeyFor(st, r) \in Key \cup Run /\ Good(st, f, l, KeyFor(st, r), r)
<1>1. /\ \A x \in Entries(st.ids) : Good(st, f, l, x.key, x.run) /\ x \in Identity
      /\ \A x \in Entries(st.contexts) : Good(st, f, l, x.key, x.run) /\ x \in Context
      /\ \A q \in st.out : l[q] # None
  BY RegistryTyped DEF RegistryInv
<1>2. CASE Knows(st.contexts, r)
  <2>1. KeyFor(st, r) = Find(st.contexts, r).key
    BY <1>2 DEF KeyFor
  <2>2. Find(st.contexts, r) \in Entries(st.contexts) /\ Find(st.contexts, r).run = r
    BY <1>2, KnownIsEntry
  <2>3. QED
    BY <1>1, <2>1, <2>2 DEF Context
<1>3. CASE ~Knows(st.contexts, r) /\ Knows(st.ids, r)
  <2>1. KeyFor(st, r) = Find(st.ids, r).key
    BY <1>3 DEF KeyFor
  <2>2. Find(st.ids, r) \in Entries(st.ids) /\ Find(st.ids, r).run = r
    BY <1>3, KnownIsEntry
  <2>3. QED
    BY <1>1, <2>1, <2>2 DEF Identity
<1>4. CASE ~Knows(st.contexts, r) /\ ~Knows(st.ids, r)
  <2>1. KeyFor(st, r) = r /\ r \in st.out
    BY <1>4 DEF KeyFor, Seen
  <2>2. QED
    BY <1>1, <2>1 DEF Good
<1>5. QED
  BY <1>2, <1>3, <1>4

LEMMA ContextIsSeen ==
  ASSUME NEW st, NEW f, NEW l, RegistryInv(st, f, l), NEW r, HasContext(st, r)
  PROVE  Seen(st, r)
<1>1. CASE Knows(st.ids, r)
  BY <1>1 DEF Seen
<1>2. CASE Knows(st.contexts, r)
  <2>1. Find(st.contexts, r) \in Entries(st.contexts) /\ Find(st.contexts, r).run = r
    BY <1>2, KnownIsEntry
  <2>2. QED
    BY <2>1 DEF RegistryInv
<1>3. QED
  BY <1>1, <1>2 DEF HasContext

\* A run that is said to have ended, or to have said more, has not said less.
LEMMA UpdateAdvances ==
  ASSUME NEW X, NEW st, NEW f, NEW l, RegistryInv(st, f, l), NEW r \in Run, NEW x,
         Knows(st.ids, r) => x \in Identity /\ x.run = r /\ x.key = Find(st.ids, r).key,
         Knows(st.ids, r) /\ x.terminal => Ended(f, l, r),
         Knows(st.ids, r) /\ ~x.terminal /\ r \notin st.out /\ r \notin X =>
           ~Find(st.ids, r).terminal /\ Find(st.ids, r).text <= x.text
  PROVE  Advances(X, st, Update(st, r, x))
<1> DEFINE n == Update(st, r, x)
<1>1. /\ n.out = st.out /\ \A q \in Run : Seen(n, q) <=> Seen(st, q)
      /\ Knows(st.ids, r) => Entries(n.ids) = {y \in Entries(st.ids) : y.run # r} \cup {x}
      /\ ~Knows(st.ids, r) => n = st
  BY UpdateLeaves
<1> HIDE DEF n
<1>2. \A y \in Entries(st.ids) : y.text \in Nat /\ y.text <= y.text
  BY RegistryTyped DEF Identity
<1>3. \A y \in Entries(n.ids) :
        ~y.terminal /\ y.run \notin n.out /\ y.run \notin X /\ Seen(st, y.run) =>
          \E z \in Entries(st.ids) : z.run = y.run /\ ~z.terminal /\ z.text <= y.text
  <2>1. CASE Knows(st.ids, r)
    BY <1>1, <1>2, <2>1, KnownIsEntry
  <2>2. CASE ~Knows(st.ids, r)
    BY <1>1, <1>2, <2>2
  <2>3. QED
    BY <2>1, <2>2
<1>4. QED
  BY <1>1, <1>3 DEF Advances, n

LEMMA AdvancesIsReflexive ==
  ASSUME NEW X, NEW st, NEW n, Entries(n.ids) \subseteq Identity, n.ids = st.ids,
         n.out = st.out
  PROVE  Advances(X, st, n)
<1>1. \A y \in Entries(st.ids) : y.text \in Nat /\ y.text <= y.text
  BY DEF Identity
<1>2. QED
  BY <1>1 DEF Advances, Seen

LEMMA AdvancesOnFields ==
  ASSUME NEW X, NEW st, NEW a, NEW n, Advances(X, st, a), n.ids = a.ids, n.out = a.out
  PROVE  Advances(X, st, n)
  BY DEF Advances, Seen

\* What is known of a run stays known.
LEMMA RunsCarry ==
  ASSUME NEW X, NEW st, NEW n, NEW f, NEW l, RunsInv(st, f, l), Advances(X, st, n)
  PROVE  RunsInv(n, f, l)
  BY DEF RunsInv, Advances

\* A look at a run makes it the one used last.
LEMMA TouchLeaves ==
  ASSUME NEW st, NEW f, NEW l, RegistryInv(st, f, l), RunsInv(st, f, l), NEW r \in Run
  PROVE  LET n == [st EXCEPT !.ids = Touch(@, r)] IN
         /\ RegistryInv(n, f, l) /\ RunsInv(n, f, l) /\ Advances({}, st, n)
         /\ \A q \in Run : Seen(n, q) <=> Seen(st, q)
<1> DEFINE x == Find(st.ids, r)
           n == [st EXCEPT !.ids = Touch(@, r)]
<1>1. n = Update(st, r, x)
  BY DEF Update, Touch, RegistryInv, Registry
<1>2. Knows(st.ids, r) => x \in Entries(st.ids) /\ x \in Identity /\ x.run = r
  BY RegistryTyped, KnownIsEntry
<1>3. Knows(st.ids, r) => x.text \in Nat /\ x.text <= x.text
  BY <1>2 DEF Identity
<1>4. Knows(st.ids, r) => x \in Identity /\ x.run = r /\ x.key = Find(st.ids, r).key
  BY <1>2
<1>5. Knows(st.ids, r) => /\ ~x.terminal => ~Find(st.ids, r).terminal
                          /\ Find(st.ids, r).text <= x.text
  BY <1>3
<1>6. Knows(st.ids, r) /\ x.terminal => Ended(f, l, r)
  BY <1>2 DEF RegistryInv
<1> HIDE DEF x, n
<1>7. RegistryInv(n, f, l) /\ \A q \in Run : Seen(n, q) <=> Seen(st, q)
  BY <1>1, <1>4, <1>6, UpdateLeaves
<1>8. Advances({}, st, n)
  BY <1>1, <1>4, <1>5, <1>6, UpdateAdvances
<1>9. RunsInv(n, f, l)
  BY <1>8, RunsCarry
<1>10. QED
  BY <1>7, <1>8, <1>9 DEF n

\* A chat event that may be handled: no answer is due.
EventOk(f, l, e) ==
  FrameOk(l, e) /\ e.what \in What /\ e.cmd \in Command /\ Hooks(f) = {}

\* A run whose event may be handled, and what was said of it by then.
LEMMA EventRun ==
  ASSUME NEW st, NEW f, NEW l \in [Run -> {None} \cup LiveRun], RunsInv(st, f, l), NEW e,
         EventOk(f, l, e)
  PROVE  /\ e.run \in Run /\ l[e.run] # None /\ f[l[e.run].cmd] \in {"done", "failed"}
         /\ e.cmd \in Bearers(l, e.run) /\ f[e.cmd] \in {"done", "failed"}
         /\ l[e.run].mixed \/ e.cmd = l[e.run].cmd
<1>1. /\ e.run \in Run /\ l[e.run] # None /\ e.cmd \in Bearers(l, e.run)
      /\ l[e.run].mixed \/ e.cmd = l[e.run].cmd
  BY DEF EventOk, FrameOk
<1>2. l[e.run].cmd \in Command
  BY <1>1 DEF LiveRun
<1>3. f[l[e.run].cmd] \notin {"requested", "answered"}
  BY <1>2 DEF EventOk, Hooks
<1>4. f[l[e.run].cmd] \in {"done", "failed"}
  BY <1>1, <1>3 DEF RunsInv
<1>5. f[e.cmd] \in {"done", "failed"}
  BY <1>1, <1>4 DEF RunsInv, Bearers
<1>6. QED
  BY <1>1, <1>4, <1>5

\* What the phone is told of an event under a good key.
LEMMA GoodIsShown ==
  ASSUME NEW st, NEW f, NEW l \in [Run -> {None} \cup LiveRun], RunsInv(st, f, l), NEW e,
         EventOk(f, l, e), NEW o, o.run = e.run, o.cmd = e.cmd, Good(st, f, l, o.key, e.run)
  PROVE  Shown(st, f, l, o) /\ (l[o.run].mixed \/ Apart(l, o))
<1>1. /\ l[e.run].mixed \/ e.cmd = l[e.run].cmd
      /\ f[l[e.run].cmd] \in {"done", "failed"}
  BY EventRun
<1>2. CASE l[e.run].mixed
  BY <1>2 DEF Shown
<1>3. CASE ~l[e.run].mixed
  BY <1>1, <1>3 DEF Good, Shown, Apart
<1>4. QED
  BY <1>2, <1>3

LEMMA EnsureLeaves ==
  ASSUME NEW st, NEW f, NEW l \in [Run -> {None} \cup LiveRun], RegistryInv(st, f, l),
         RunsInv(st, f, l), NEW e, EventOk(f, l, e)
  PROVE  LET n == EnsureContext(st, e) IN
         /\ RegistryInv(n, f, l) /\ RunsInv(n, f, l) /\ Advances({}, st, n)
         /\ e.what \notin {"end", "fail"} => Seen(n, e.run)
<1> DEFINE r == e.run
           n == EnsureContext(st, e)
<1>1. r \in Run /\ l[r] # None /\ f[l[r].cmd] \in {"done", "failed"}
  BY EventRun
<1>2. Entries(st.ids) \subseteq Identity
  BY RegistryTyped
<1>3. CASE Knows(st.contexts, r)
  <2>1. n = st
    BY <1>3 DEF EnsureContext
  <2>2. Seen(st, r)
    BY <1>3, ContextIsSeen DEF HasContext
  <2>3. Advances({}, st, st)
    BY <1>2, AdvancesIsReflexive
  <2>4. QED
    BY <2>1, <2>2, <2>3
<1>4. CASE ~Knows(st.contexts, r) /\ Knows(st.ids, r)
  <2>1. n = [st EXCEPT !.ids = Touch(@, r)]
    BY <1>4 DEF EnsureContext
  <2>2. /\ RegistryInv(n, f, l) /\ RunsInv(n, f, l) /\ Advances({}, st, n)
        /\ \A q \in Run : Seen(n, q) <=> Seen(st, q)
    BY <1>1, <2>1, TouchLeaves
  <2>3. Seen(n, r)
    BY <1>1, <1>4, <2>2 DEF Seen
  <2>4. QED
    BY <2>2, <2>3
<1>5. CASE ~Knows(st.contexts, r) /\ ~Knows(st.ids, r) /\ e.what \in {"end", "fail"}
  <2>1. n = st
    BY <1>5 DEF EnsureContext
  <2>2. Advances({}, st, st)
    BY <1>2, AdvancesIsReflexive
  <2>3. QED
    BY <1>5, <2>1, <2>2
<1>6. CASE ~Knows(st.contexts, r) /\ ~Knows(st.ids, r) /\ e.what \notin {"end", "fail"}
  <2> DEFINE a == Register(st, r, r)
  <2>1. n = SetContext(a, r, r)
    BY <1>6 DEF EnsureContext
  <2>2. Good(st, f, l, r, r)
    <3>1. f[l[r].cmd] = "failed" \/ r \in st.out
      BY <1>1, <1>6 DEF RunsInv, Seen
    <3>2. QED
      BY <1>1, <3>1 DEF Good
  <2>3. r \in Key \cup Run
    BY <1>1
  <2>4. RegistryInv(a, f, l) /\ Advances({}, st, a) /\ Seen(a, r)
    <3>1. Knows(st.ids, r) => r \in {}
      BY <1>6
    <3>2. RegistryInv(st, f, l) /\ r \in Run
      BY <1>1
    <3> HIDE DEF r
    <3>3. QED
      BY <2>2, <2>3, <3>1, <3>2, RegisterLeaves
  <2> HIDE DEF a, n, r
  <2>5. Good(a, f, l, r, r)
    BY <2>2, <2>4, GoodStays DEF Advances
  <2>6. RegistryInv(n, f, l) /\ n.ids = a.ids /\ n.out = a.out
    BY <1>1, <2>1, <2>3, <2>4, <2>5, SetContextLeaves
  <2>7. Advances({}, st, n)
    BY <2>4, <2>6, AdvancesOnFields
  <2>8. RunsInv(n, f, l)
    BY <2>7, RunsCarry
  <2>9. Seen(n, r)
    BY <2>4, <2>6 DEF Seen
  <2>10. QED
    BY <2>6, <2>7, <2>8, <2>9 DEF n, r
<1>7. QED
  BY <1>3, <1>4, <1>5, <1>6

---------------------------------------------------------------------------
(* What waits and what was published, as the registry goes on.             *)

\* Nothing of a run that begins anew is said of the run that has its id now.
LEMMA OpCarries ==
  ASSUME NEW X, NEW st, NEW n, NEW f, NEW l, Entries(st.ids) \subseteq Identity,
         Entries(n.ids) \subseteq Identity, Advances(X, st, n), NEW o \in Op,
         OpInv(st, f, l, o), o.run \in X => ~Apart(l, o)
  PROVE  OpInv(n, f, l, o)
<1>1. o.run \in Run /\ o.text \in Nat /\ st.out \subseteq n.out
  BY DEF Op, Advances
<1>2. Shown(n, f, l, o)
  BY <1>1 DEF OpInv, Shown
<1>3. ASSUME Apart(l, o)
      PROVE  Told(n, o)
  <2>1. Told(st, o) /\ o.run \notin X
    BY <1>3 DEF OpInv
  <2>2. Seen(n, o.run)
    BY <1>1, <2>1 DEF Told, Advances
  <2>3. ASSUME NEW x \in Entries(n.ids), x.run = o.run, ~x.terminal, o.run \notin n.out
        PROVE  o.what = "delta" /\ o.text <= x.text
    <3>1. Seen(st, x.run) /\ x.run \notin n.out /\ o.run \notin st.out
      BY <1>1, <2>1, <2>3 DEF Told
    <3>2. PICK y \in Entries(st.ids) : y.run = x.run /\ ~y.terminal /\ y.text <= x.text
      BY <2>1, <2>3, <3>1 DEF Advances
    <3>3. o.what = "delta" /\ o.text <= y.text
      BY <2>1, <2>3, <3>1, <3>2 DEF Told
    <3>4. y.text \in Nat /\ x.text \in Nat
      BY <2>3, <3>2 DEF Identity
    <3>5. QED
      BY <1>1, <3>2, <3>3, <3>4
  <2>4. QED
    BY <2>2, <2>3 DEF Told
<1>4. QED
  BY <1>2, <1>3 DEF OpInv

LEMMA GrowsCarries ==
  ASSUME NEW st, NEW n, NEW l, st.out \subseteq n.out, NEW p, NEW q, Grows(st, l, p, q)
  PROVE  Grows(n, l, p, q)
  BY DEF Grows

LEMMA QueueCarries ==
  ASSUME NEW X, NEW st, NEW n, NEW f, NEW l, Entries(st.ids) \subseteq Identity,
         Entries(n.ids) \subseteq Identity, Advances(X, st, n), NEW q, NEW p,
         QueueInv(st, f, l, q, p),
         \A k \in Key \cup Run : \A i \in DOMAIN q[k] : q[k][i].run \in X => ~Apart(l, q[k][i])
  PROVE  QueueInv(n, f, l, q, p)
<1>1. q \in Queue /\ st.out \subseteq n.out
  BY DEF QueueInv, Advances
<1>2. ASSUME NEW k \in Key \cup Run, NEW i \in DOMAIN q[k]
      PROVE  /\ q[k][i].key = k /\ OpInv(n, f, l, q[k][i])
             /\ l[q[k][i].run].mixed \/ Apart(l, q[k][i])
             /\ \A j \in DOMAIN q[k] : i < j => Grows(n, l, q[k][i], q[k][j])
             /\ \A c \in Command : \A j \in DOMAIN p[c] :
                  p[c][j].key = k => Grows(n, l, p[c][j], q[k][i])
  <2>1. q[k] \in Seq(Op)
    BY <1>1 DEF Queue
  <2>2. q[k][i] \in Op
    BY <1>2, <2>1
  <2>3. /\ q[k][i].key = k /\ OpInv(st, f, l, q[k][i])
        /\ l[q[k][i].run].mixed \/ Apart(l, q[k][i])
    BY <1>2 DEF QueueInv
  <2>4. OpInv(n, f, l, q[k][i])
    BY <2>2, <2>3, OpCarries
  <2>5. \A j \in DOMAIN q[k] : i < j => Grows(n, l, q[k][i], q[k][j])
    BY <1>1, <1>2, GrowsCarries DEF QueueInv
  <2>6. \A c \in Command : \A j \in DOMAIN p[c] :
          p[c][j].key = k => Grows(n, l, p[c][j], q[k][i])
    BY <1>1, <1>2, GrowsCarries DEF QueueInv
  <2>7. QED
    BY <2>3, <2>4, <2>5, <2>6
<1>3. QED
  BY <1>1, <1>2 DEF QueueInv

LEMMA PublishedCarries ==
  ASSUME NEW X, NEW st, NEW n, NEW f, NEW l, Entries(st.ids) \subseteq Identity,
         Entries(n.ids) \subseteq Identity, Advances(X, st, n), NEW p,
         PublishedInv(st, f, l, p),
         \A c \in Command : \A i \in DOMAIN p[c] : p[c][i].run \in X => ~Apart(l, p[c][i])
  PROVE  PublishedInv(n, f, l, p)
<1>1. p \in [Command -> Seq(Op)] /\ st.out \subseteq n.out
  BY DEF PublishedInv, Advances
<1>2. ASSUME NEW c \in Command, NEW i \in DOMAIN p[c]
      PROVE  /\ p[c][i].cmd = c /\ OpInv(n, f, l, p[c][i])
             /\ \A j \in DOMAIN p[c] :
                  i < j /\ p[c][i].key = p[c][j].key => Grows(n, l, p[c][i], p[c][j])
  <2>1. p[c] \in Seq(Op)
    BY <1>1
  <2>2. p[c][i] \in Op
    BY <1>2, <2>1
  <2>3. p[c][i].cmd = c /\ OpInv(st, f, l, p[c][i])
    BY <1>2 DEF PublishedInv
  <2>4. OpInv(n, f, l, p[c][i])
    BY <2>2, <2>3, OpCarries
  <2>5. \A j \in DOMAIN p[c] :
          i < j /\ p[c][i].key = p[c][j].key => Grows(n, l, p[c][i], p[c][j])
    BY <1>1, <1>2, GrowsCarries DEF PublishedInv
  <2>6. QED
    BY <2>3, <2>4, <2>5
<1>3. QED
  BY <1>1, <1>2 DEF PublishedInv

LEMMA PhoneCarries ==
  ASSUME NEW s, NEW n, NEW f, NEW l, NEW p, PhoneInv(s, f, l, p),
         RegistryInv(n, f, l), RunsInv(n, f, l), Advances({}, s.st, n)
  PROVE  PhoneInv([st |-> n, ops |-> s.ops], f, l, p)
<1>1. Entries(s.st.ids) \subseteq Identity /\ Entries(n.ids) \subseteq Identity
  BY RegistryTyped DEF PhoneInv
<1>2. QueueInv(n, f, l, s.ops, p)
  BY <1>1, QueueCarries DEF PhoneInv
<1>3. PublishedInv(n, f, l, p)
  BY <1>1, PublishedCarries DEF PhoneInv
<1>4. QED
  BY <1>2, <1>3 DEF PhoneInv

---------------------------------------------------------------------------
(* Handling an event keeps PhoneInv.                                       *)

\* An operation is queued last under its key.
LEMMA QueuedKeeps ==
  ASSUME NEW st, NEW f, NEW l, NEW q, NEW p, QueueInv(st, f, l, q, p), NEW k \in Key \cup Run,
         NEW o \in Op, o.key = k, OpInv(st, f, l, o), l[o.run].mixed \/ Apart(l, o),
         \A i \in DOMAIN q[k] : Grows(st, l, q[k][i], o),
         \A c \in Command : \A j \in DOMAIN p[c] : Grows(st, l, p[c][j], o)
  PROVE  QueueInv(st, f, l, [q EXCEPT ![k] = Append(@, o)], p)
<1> DEFINE u == [q EXCEPT ![k] = Append(@, o)]
           N == Len(q[k])
<1>1. q \in Queue /\ q[k] \in Seq(Op)
  BY DEF QueueInv, Queue
<1>2. u \in Queue
  BY <1>1 DEF Queue
<1>3. /\ N \in Nat /\ DOMAIN q[k] = 1..N /\ DOMAIN u[k] = 1..(N + 1) /\ u[k][N + 1] = o
      /\ \A i \in 1..N : u[k][i] = q[k][i]
  BY <1>1 DEF Queue
<1>4. \A h \in Key \cup Run : h # k => u[h] = q[h]
  BY <1>1 DEF Queue
<1> HIDE DEF u, N
<1>5. \A i \in 1..(N + 1) : i \in 1..N \/ i = N + 1
  BY <1>3
<1>6. ASSUME NEW h \in Key \cup Run, NEW i \in DOMAIN u[h]
      PROVE  /\ u[h][i].key = h /\ OpInv(st, f, l, u[h][i])
             /\ l[u[h][i].run].mixed \/ Apart(l, u[h][i])
             /\ \A j \in DOMAIN u[h] : i < j => Grows(st, l, u[h][i], u[h][j])
             /\ \A c \in Command : \A j \in DOMAIN p[c] :
                  p[c][j].key = h => Grows(st, l, p[c][j], u[h][i])
  <2>1. CASE h # k
    BY <1>4, <1>6, <2>1 DEF QueueInv
  <2>2. CASE h = k /\ i \in 1..N
    <3>1. i \in DOMAIN q[k] /\ u[h][i] = q[k][i]
      BY <1>3, <2>2
    <3>2. /\ u[h][i].key = h /\ OpInv(st, f, l, u[h][i])
          /\ l[u[h][i].run].mixed \/ Apart(l, u[h][i])
          /\ \A c \in Command : \A j \in DOMAIN p[c] :
               p[c][j].key = h => Grows(st, l, p[c][j], u[h][i])
      BY <2>2, <3>1 DEF QueueInv
    <3>3. \A j \in DOMAIN q[k] : i < j => Grows(st, l, q[k][i], q[k][j])
      BY <3>1 DEF QueueInv
    <3>4. \A j \in DOMAIN u[h] : i < j => Grows(st, l, u[h][i], u[h][j])
      <4> SUFFICES ASSUME NEW j \in DOMAIN u[k], i < j
                   PROVE  Grows(st, l, q[k][i], u[k][j])
        BY <2>2, <3>1
      <4>1. CASE j \in 1..N
        BY <1>3, <3>3, <4>1
      <4>2. CASE j = N + 1
        BY <1>3, <3>1, <4>2
      <4>3. QED
        BY <1>3, <1>5, <4>1, <4>2
    <3>5. QED
      BY <3>2, <3>4
  <2>3. CASE h = k /\ i = N + 1
    <3>1. u[h][i] = o
      BY <1>3, <2>3
    <3>2. \A j \in DOMAIN u[h] : ~(i < j)
      BY <1>3, <2>3
    <3>3. QED
      BY <2>3, <3>1, <3>2
  <2>4. QED
    BY <1>3, <1>5, <1>6, <2>1, <2>2, <2>3
<1>7. QED
  BY <1>2, <1>6 DEF QueueInv, u

LEMMA TextIsNat ==
  ASSUME NEW st, NEW f, NEW l, RegistryInv(st, f, l), NEW r
  PROVE  TextOf(st, r) \in Nat
<1>1. CASE Knows(st.ids, r)
  BY <1>1, RegistryTyped, KnownIsEntry DEF TextOf, Identity
<1>2. CASE ~Knows(st.ids, r)
  BY <1>2 DEF TextOf
<1>3. QED
  BY <1>1, <1>2

\* A run that goes on says more than it has said.
LEMMA MoreText ==
  ASSUME NEW st, NEW f, NEW l, RegistryInv(st, f, l), NEW r \in Run, ~IsTerminal(st, r),
         NEW z \in Op, OpInv(st, f, l, z), NEW o \in Op, o.run = r,
         l[r].mixed \/ o.cmd = l[r].cmd, o.text = TextOf(st, r) + 1
  PROVE  Grows(st, l, z, o)
<1> SUFFICES ASSUME z.run = r, z.cmd = o.cmd, ~l[r].mixed, r \notin st.out
             PROVE  z.what = "delta" /\ z.text < o.text
  BY DEF Grows
<1>0. Told(st, z)
  BY DEF OpInv, Apart
<1>1. Knows(st.ids, r)
  BY <1>0 DEF Told, Seen
<1> DEFINE x == Find(st.ids, r)
<1>2. x \in Entries(st.ids) /\ x.run = r
  BY <1>1, KnownIsEntry
<1>3. ~x.terminal /\ TextOf(st, r) = x.text
  BY <1>1 DEF IsTerminal, TextOf
<1>4. x.text \in Nat
  BY <1>3, TextIsNat
<1> HIDE DEF x
<1>5. z.what = "delta" /\ z.text <= x.text
  BY <1>0, <1>2, <1>3 DEF Told
<1>6. z.text \in Nat
  BY DEF Op
<1>7. QED
  BY <1>3, <1>4, <1>5, <1>6

LEMMA HandleDeltaKeeps ==
  ASSUME NEW s, NEW f, NEW l \in [Run -> {None} \cup LiveRun], NEW p, PhoneInv(s, f, l, p),
         NEW e, EventOk(f, l, e), e.what = "delta",
         NEW k \in Key \cup Run, Good(s.st, f, l, k, e.run), Seen(s.st, e.run)
  PROVE  PhoneInv(HandleDelta(s, e, k), f, l, p)
<1> DEFINE r == e.run
           st == s.st
           t == TextOf(st, r) + 1
           x == [Find(st.ids, r) EXCEPT !.text = t]
           n == Update(st, r, x)
<1>1. /\ r \in Run /\ RegistryInv(st, f, l) /\ RunsInv(st, f, l)
      /\ l[r].mixed \/ e.cmd = l[r].cmd
  BY EventRun DEF PhoneInv
<1>2. TextOf(st, r) \in Nat /\ t \in Nat
  BY <1>1, TextIsNat
<1>3. SetText(st, r, t) = n
  BY DEF SetText
<1>4. CASE IsTerminal(st, r)
  <2> DEFINE m == [st EXCEPT !.ids = Touch(@, r)]
  <2>1. RegistryInv(m, f, l) /\ RunsInv(m, f, l) /\ Advances({}, st, m)
    BY <1>1, TouchLeaves
  <2>2. HandleDelta(s, e, k) = [s EXCEPT !.st = m]
    BY <1>4 DEF HandleDelta
  <2> HIDE DEF m, st
  <2>3. PhoneInv([st |-> m, ops |-> s.ops], f, l, p)
    BY <2>1, PhoneCarries DEF st
  <2>4. QED
    BY <2>2, <2>3 DEF PhoneInv
<1>5. ASSUME ~IsTerminal(st, r)
      PROVE  PhoneInv(HandleDelta(s, e, k), f, l, p)
  <2>1. ASSUME Knows(st.ids, r)
        PROVE  /\ x \in Identity /\ x.run = r /\ x.key = Find(st.ids, r).key
               /\ ~Find(st.ids, r).terminal /\ Find(st.ids, r).text <= x.text /\ x.text = t
               /\ ~x.terminal
    <3> DEFINE y == Find(st.ids, r)
    <3>1. y \in Identity /\ y.run = r
      BY <1>1, <2>1, KnownIsEntry, RegistryTyped
    <3>2. y.text = TextOf(st, r) /\ ~y.terminal
      BY <1>5, <2>1 DEF TextOf, IsTerminal
    <3>3. x = [y EXCEPT !.text = t]
      OBVIOUS
    <3> HIDE DEF y, x, t
    <3>4. x \in Identity /\ x.run = r /\ x.key = y.key /\ x.text = t /\ x.terminal = y.terminal
      BY <1>2, <3>1, <3>3 DEF Identity
    <3>5. y.text <= t
      BY <1>2, <3>2 DEF t
    <3>6. QED
      BY <3>2, <3>4, <3>5 DEF y
  <2> HIDE DEF x, t, r, st
  <2>2. /\ RegistryInv(n, f, l) /\ n.out = st.out
        /\ \A q \in Run : Seen(n, q) <=> Seen(st, q)
        /\ Knows(st.ids, r) => Entries(n.ids) = {y \in Entries(st.ids) : y.run # r} \cup {x}
        /\ ~Knows(st.ids, r) => n = st
    <3>1. Knows(st.ids, r) => /\ x \in Identity /\ x.run = r /\ x.key = Find(st.ids, r).key
                              /\ ~x.terminal
      BY <2>1
    <3>2. Knows(st.ids, r) /\ x.terminal => Ended(f, l, r)
      BY <3>1
    <3>3. Knows(st.ids, r) => x \in Identity /\ x.run = r /\ x.key = Find(st.ids, r).key
      BY <3>1
    <3>4. QED
      BY <1>1, <3>2, <3>3, UpdateLeaves
  <2>3. Advances({}, st, n)
    BY <1>1, <2>1, UpdateAdvances
  <2> HIDE DEF n
  <2>4. RunsInv(n, f, l)
    BY <1>1, <2>3, RunsCarry
  <2>5. PhoneInv([st |-> n, ops |-> s.ops], f, l, p)
    BY <2>2, <2>3, <2>4, PhoneCarries DEF st
  <2>6. CASE Closing(s.ops, k)
    <3>1. HandleDelta(s, e, k) = [st |-> n, ops |-> s.ops]
      BY <1>3, <1>5, <2>6 DEF HandleDelta, t, st, r
    <3>2. QED
      BY <2>5, <3>1
  <2>7. CASE ~Closing(s.ops, k)
    <3> DEFINE u == Queued(s.ops, k, e, t)
    <3>1. HandleDelta(s, e, k) = [st |-> n, ops |-> u]
      BY <1>3, <1>5, <2>7 DEF HandleDelta, t, st, r
    <3> DEFINE o == [key |-> k, run |-> e.run, cmd |-> e.cmd, what |-> e.what, text |-> t]
    <3>2. /\ o \in Op /\ u = [s.ops EXCEPT ![k] = Append(@, o)]
          /\ o.key = k /\ o.run = r /\ o.cmd = e.cmd /\ o.what = "delta" /\ o.text = t
      <4>1. u = [s.ops EXCEPT ![k] = Append(@, o)]
        BY DEF Queued
      <4>2. e.run \in Run /\ e.cmd \in Command /\ e.what \in What
        BY DEF EventOk, FrameOk
      <4>3. o \in Op
        BY <1>2, <4>2 DEF Op
      <4>4. QED
        BY <4>1, <4>3 DEF r
    <3> HIDE DEF o
    <3>3. QueueInv(st, f, l, s.ops, p) /\ PublishedInv(st, f, l, p)
      BY DEF PhoneInv, st
    <3>4. QueueInv(n, f, l, s.ops, p) /\ PublishedInv(n, f, l, p)
      BY <2>5 DEF PhoneInv
    <3>5. ASSUME NEW i \in DOMAIN s.ops[k]
          PROVE  Grows(n, l, s.ops[k][i], o)
      <4>1. s.ops[k][i] \in Op /\ OpInv(st, f, l, s.ops[k][i])
        BY <3>3, <3>5 DEF QueueInv, Queue
      <4>2. Grows(st, l, s.ops[k][i], o)
        BY <1>1, <1>5, <3>2, <4>1, MoreText DEF t
      <4>3. QED
        BY <2>2, <4>2, GrowsCarries
    <3>6. ASSUME NEW c \in Command, NEW j \in DOMAIN p[c]
          PROVE  Grows(n, l, p[c][j], o)
      <4>1. p[c][j] \in Op /\ OpInv(st, f, l, p[c][j])
        BY <3>3, <3>6 DEF PublishedInv
      <4>2. Grows(st, l, p[c][j], o)
        BY <1>1, <1>5, <3>2, <4>1, MoreText DEF t
      <4>3. QED
        BY <2>2, <4>2, GrowsCarries
    <3>7. OpInv(n, f, l, o) /\ (l[o.run].mixed \/ Apart(l, o))
      <4>1. Good(n, f, l, o.key, e.run) /\ o.run = e.run
        BY <2>2, <3>2, GoodStays DEF r, st
      <4>2. Shown(n, f, l, o) /\ (l[o.run].mixed \/ Apart(l, o))
        BY <2>4, <3>2, <4>1, GoodIsShown
      <4>3. /\ l[o.run] # None /\ o.cmd \in Bearers(l, o.run) /\ f[o.cmd] \in {"done", "failed"}
        BY <2>4, <3>2, <4>1, EventRun
      <4>4. Seen(n, o.run)
        BY <1>1, <2>2, <3>2 DEF r, st
      <4>5. ASSUME NEW y \in Entries(n.ids), y.run = o.run, o.run \notin n.out
            PROVE  o.what = "delta" /\ o.text <= y.text
        <5>1. Knows(st.ids, r)
          BY <2>2, <3>2, <4>5 DEF Seen, r, st
        <5>2. y = x
          BY <2>2, <3>2, <4>5, <5>1
        <5>3. y.text = t
          BY <2>1, <5>1, <5>2
        <5>4. QED
          BY <1>2, <3>2, <5>3
      <4>6. Told(n, o)
        BY <4>4, <4>5 DEF Told
      <4>7. QED
        BY <4>2, <4>3, <4>6 DEF OpInv
    <3> HIDE DEF u
    <3>8. QueueInv(n, f, l, u, p)
      BY <3>2, <3>4, <3>5, <3>6, <3>7, QueuedKeeps
    <3>9. QED
      BY <2>2, <2>4, <3>1, <3>4, <3>8 DEF PhoneInv
  <2>8. QED
    BY <2>6, <2>7
<1>6. QED
  BY <1>4, <1>5
\* The end of a run: of a run that is known, what comes after it is no text.
LEMMA EndGrows ==
  ASSUME NEW st, NEW l, NEW z, NEW o, o.what # "delta"
  PROVE  Grows(st, l, z, o)
  BY DEF Grows

LEMMA HandleTerminalKeeps ==
  ASSUME NEW s, NEW f, NEW l \in [Run -> {None} \cup LiveRun], NEW p, PhoneInv(s, f, l, p),
         NEW e, EventOk(f, l, e), e.what # "delta",
         NEW k \in Key \cup Run,
         Seen(s.st, e.run) => Good(s.st, f, l, k, e.run)
  PROVE  PhoneInv(HandleTerminal(s, e, k), f, l, p)
<1> DEFINE r == e.run
           st == s.st
           x == [Find(st.ids, r) EXCEPT !.terminal = TRUE]
           n == Update(st, r, x)
           n2 == IF e.what \in {"end", "error", "fail"}
                 THEN [n EXCEPT !.contexts = Without(@, e.run)] ELSE n
           t == TextOf(st, r)
           o == [key |-> k, run |-> e.run, cmd |-> e.cmd, what |-> e.what, text |-> t]
<1>1. r \in Run /\ RegistryInv(st, f, l) /\ RunsInv(st, f, l) /\ Ended(f, l, r)
  BY DEF PhoneInv, EventOk, FrameOk, What, Ended
<1>2. t \in Nat
  BY <1>1, TextIsNat
<1>3. HandleTerminal(s, e, k) =
        IF HasContext(st, r) THEN [st |-> n2, ops |-> [s.ops EXCEPT ![k] = Append(@, o)]]
        ELSE [st |-> n, ops |-> s.ops]
  BY DEF HandleTerminal, MarkTerminal, Queued
<1>4. Knows(st.ids, r) => x \in Identity /\ x.run = r /\ x.key = Find(st.ids, r).key /\ x.terminal
  <2> SUFFICES ASSUME Knows(st.ids, r)
               PROVE  x \in Identity /\ x.run = r /\ x.key = Find(st.ids, r).key /\ x.terminal
    OBVIOUS
  <2> DEFINE y == Find(st.ids, r)
  <2>1. y \in Identity /\ y.run = r
    BY <1>1, KnownIsEntry, RegistryTyped
  <2>2. x = [y EXCEPT !.terminal = TRUE]
    OBVIOUS
  <2> HIDE DEF y, x
  <2>3. x \in Identity /\ x.run = r /\ x.key = y.key /\ x.terminal
    BY <2>1, <2>2 DEF Identity
  <2>4. QED
    BY <2>3 DEF y
<1>5. o \in Op /\ o.key = k /\ o.run = r /\ o.cmd = e.cmd /\ o.what # "delta"
  <2>1. e.run \in Run /\ e.cmd \in Command /\ e.what \in What
    BY DEF EventOk, FrameOk
  <2>2. o \in Op
    BY <1>2, <2>1 DEF Op
  <2>3. QED
    BY <2>1, <2>2
<1> HIDE DEF x, o, t, r, st
<1>6. /\ RegistryInv(n, f, l) /\ n.out = st.out /\ n.contexts = st.contexts
      /\ \A q \in Run : Seen(n, q) <=> Seen(st, q)
      /\ Knows(st.ids, r) => Entries(n.ids) = {y \in Entries(st.ids) : y.run # r} \cup {x}
      /\ ~Knows(st.ids, r) => n = st
  BY <1>1, <1>4, UpdateLeaves
<1>7. Advances({}, st, n)
  BY <1>1, <1>4, UpdateAdvances
<1> HIDE DEF n
<1>8. RunsInv(n, f, l)
  BY <1>1, <1>7, RunsCarry
<1>9. PhoneInv([st |-> n, ops |-> s.ops], f, l, p)
  BY <1>6, <1>7, <1>8, PhoneCarries DEF st
<1>10. CASE ~HasContext(st, r)
  BY <1>3, <1>9, <1>10
<1>11. CASE HasContext(st, r)
  <2>1. RegistryInv(n2, f, l) /\ n2.ids = n.ids /\ n2.out = n.out
    <3>1. CASE e.what \in {"end", "error", "fail"}
      <4> DEFINE c == Without(n.contexts, r)
      <4>1. n2 = [n EXCEPT !.contexts = c]
        BY <3>1 DEF r
      <4>2. n.contexts \in Seq(Context)
        BY <1>6, RegistryTyped
      <4>3. c \in Seq(Context) /\ Entries(c) \subseteq Entries(n.contexts)
        BY <4>2, WithoutLeaves
      <4> HIDE DEF c
      <4>4. QED
        BY <1>6, <4>1, <4>3, ContextsLeave
    <3>2. CASE e.what \notin {"end", "error", "fail"}
      BY <1>6, <3>2
    <3>3. QED
      BY <3>1, <3>2
  <2> HIDE DEF n2
  <2>2. Advances({}, st, n2)
    BY <1>7, <2>1, AdvancesOnFields
  <2>3. \A q \in Run : Seen(n2, q) <=> Seen(st, q)
    BY <1>6, <2>1 DEF Seen
  <2>4. RunsInv(n2, f, l)
    BY <1>1, <2>2, RunsCarry
  <2>5. PhoneInv([st |-> n2, ops |-> s.ops], f, l, p)
    BY <2>1, <2>2, <2>4, PhoneCarries DEF st
  <2>6. QueueInv(n2, f, l, s.ops, p) /\ PublishedInv(n2, f, l, p)
    BY <2>5 DEF PhoneInv
  <2>7. Seen(st, r)
    BY <1>1, <1>11, ContextIsSeen
  <2>8. OpInv(n2, f, l, o) /\ (l[o.run].mixed \/ Apart(l, o))
    <3>1. Good(n2, f, l, o.key, e.run) /\ o.run = e.run
      BY <1>5, <1>6, <2>1, <2>7, GoodStays DEF r, st
    <3>2. Shown(n2, f, l, o) /\ (l[o.run].mixed \/ Apart(l, o))
      BY <1>5, <2>4, <3>1, GoodIsShown
    <3>3. l[o.run] # None /\ o.cmd \in Bearers(l, o.run) /\ f[o.cmd] \in {"done", "failed"}
      BY <1>5, <2>4, <3>1, EventRun
    <3>4. Seen(n2, o.run)
      BY <1>1, <1>5, <2>3, <2>7
    <3>5. ASSUME NEW y \in Entries(n2.ids), y.run = o.run, ~y.terminal, o.run \notin n2.out
          PROVE  FALSE
      <4>1. Knows(st.ids, r)
        BY <1>5, <1>6, <2>1, <2>7, <3>5 DEF Seen
      <4>2. y = x
        BY <1>5, <1>6, <2>1, <3>5, <4>1
      <4>3. QED
        BY <1>4, <3>5, <4>1, <4>2
    <3>6. Told(n2, o)
      BY <3>4, <3>5 DEF Told
    <3>7. QED
      BY <3>2, <3>3, <3>6 DEF OpInv
  <2>9. QueueInv(n2, f, l, [s.ops EXCEPT ![k] = Append(@, o)], p)
    <3>1. \A i \in DOMAIN s.ops[k] : Grows(n2, l, s.ops[k][i], o)
      BY <1>5, EndGrows
    <3>2. \A c \in Command : \A j \in DOMAIN p[c] : Grows(n2, l, p[c][j], o)
      BY <1>5, EndGrows
    <3>3. QED
      BY <1>5, <2>6, <2>8, <3>1, <3>2, QueuedKeeps
  <2>10. QED
    BY <1>3, <1>11, <2>1, <2>4, <2>6, <2>9 DEF PhoneInv
<1>12. QED
  BY <1>10, <1>11

LEMMA HandleKeeps ==
  ASSUME NEW s, NEW f, NEW l \in [Run -> {None} \cup LiveRun], NEW p, PhoneInv(s, f, l, p),
         NEW e, EventOk(f, l, e)
  PROVE  PhoneInv(Handle(s, e), f, l, p)
<1> DEFINE n == EnsureContext(s.st, e)
           now == [st |-> n, ops |-> s.ops]
           k == KeyFor(n, e.run)
<1>1. Handle(s, e) = IF e.what = "delta" THEN HandleDelta(now, e, k) ELSE HandleTerminal(now, e, k)
  BY DEF Handle
<1>2. RegistryInv(s.st, f, l) /\ RunsInv(s.st, f, l) /\ e.run \in Run
  BY DEF PhoneInv, EventOk, FrameOk
<1>3. /\ RegistryInv(n, f, l) /\ RunsInv(n, f, l) /\ Advances({}, s.st, n)
      /\ e.what \notin {"end", "fail"} => Seen(n, e.run)
  BY <1>2, EnsureLeaves
<1> HIDE DEF n
<1>4. PhoneInv(now, f, l, p)
  BY <1>3, PhoneCarries
<1>5. Seen(n, e.run) => Good(n, f, l, k, e.run)
  BY <1>2, <1>3, KeyForIsGood
<1>6. k \in Key \cup Run
  <2>1. CASE Seen(n, e.run)
    BY <1>2, <1>3, <2>1, KeyForIsGood
  <2>2. CASE ~Seen(n, e.run)
    <3>1. ~HasContext(n, e.run)
      BY <1>3, <2>2, ContextIsSeen
    <3>2. k = e.run
      BY <3>1 DEF KeyFor, HasContext
    <3>3. QED
      BY <1>2, <3>2
  <2>3. QED
    BY <2>1, <2>2
<1> HIDE DEF k
<1>7. now.st = n
  OBVIOUS
<1> HIDE DEF now
<1>8. CASE e.what = "delta"
  BY <1>1, <1>3, <1>4, <1>5, <1>6, <1>7, <1>8, HandleDeltaKeeps
<1>9. CASE e.what # "delta"
  BY <1>1, <1>4, <1>5, <1>6, <1>7, <1>9, HandleTerminalKeeps
<1>10. QED
  BY <1>8, <1>9
---------------------------------------------------------------------------
(* Induction along a sequence, in the form the provers can use: of a set of *)
(* natural numbers.                                                        *)

Below == {p \in Nat \X Nat : p[1] < p[2]}

\* There is no infinite descent in the natural numbers.
LEMMA BelowIsWellFounded == IsWellFoundedOn(Below, Nat)
<1>1. IsWellFoundedOn(OpToRel(<, Nat), Nat)
  BY NatLessThanWellFounded
<1>2. Below \subseteq OpToRel(<, Nat)
  BY DEF Below, OpToRel
<1>3. QED
  BY <1>1, <1>2, IsWellFoundedOnSubrelation

\* A set of natural numbers has a least one.
LEMMA LeastNumber ==
  ASSUME NEW T \in SUBSET Nat, T # {}
  PROVE  \E n \in T : \A m \in T : n <= m
<1>1. PICK n \in T : \A m \in T : <<m, n>> \notin Below
  BY BelowIsWellFounded, WFMin, Zenon
<1>2. ASSUME NEW m \in T
      PROVE  n <= m
  <2>1. m \in Nat /\ n \in Nat
    OBVIOUS
  <2>2. ~(m < n)
    BY <1>1, <2>1 DEF Below
  <2>3. QED
    BY <2>1, <2>2
<1>3. QED
  BY <1>2

\* Induction over the natural numbers, for a set.
LEMMA SetInduction ==
  ASSUME NEW S, 0 \in S, \A n \in Nat : n \in S => n + 1 \in S
  PROVE  Nat \subseteq S
<1>1. SUFFICES ASSUME Nat \ S # {}
               PROVE  FALSE
  OBVIOUS
<1>2. PICK n \in Nat \ S : \A m \in Nat \ S : n <= m
  BY <1>1, LeastNumber
<1>3. n - 1 \in S /\ n - 1 \in Nat
  BY <1>2
<1>4. QED
  BY <1>2, <1>3


\* p holds what is left after each of the first n events.
Chain(p, n, s, events) ==
  p[0] = s /\ \A i \in 1..n : p[i] = Handle(p[i - 1], events[i])

LEMMA ChainsExist ==
  ASSUME NEW s, NEW events, NEW N \in Nat
  PROVE  \E p : Chain(p, N, s, events)
<1> DEFINE S == {n \in Nat : \E p : Chain(p, n, s, events)}
<1>1. 0 \in S
  <2>1. Chain([i \in 0..0 |-> s], 0, s, events)
    BY DEF Chain
  <2>2. QED
    BY <2>1
<1>2. ASSUME NEW n \in Nat, n \in S
      PROVE  n + 1 \in S
  <2>1. PICK p : Chain(p, n, s, events)
    BY <1>2
  <2> DEFINE b == Handle(p[n], events[n + 1])
             q == [i \in 0..(n + 1) |-> IF i <= n THEN p[i] ELSE b]
  <2> HIDE DEF b
  <2>2. \A i \in 1..(n + 1) : q[i] = Handle(q[i - 1], events[i])
    <3> SUFFICES ASSUME NEW i \in 1..(n + 1)
                 PROVE  q[i] = Handle(q[i - 1], events[i])
      OBVIOUS
    <3>1. CASE i = n + 1
      <4>1. q[i] = b /\ q[i - 1] = p[n]
        BY <3>1
      <4>2. QED
        BY <4>1, <3>1 DEF b
    <3>2. CASE i # n + 1
      <4>1. i \in 1..n /\ q[i] = p[i] /\ q[i - 1] = p[i - 1]
        BY <3>2
      <4>2. QED
        BY <4>1, <2>1 DEF Chain
    <3>3. QED
      BY <3>1, <3>2
  <2>3. q[0] = s
    BY <2>1 DEF Chain
  <2>4. Chain(q, n + 1, s, events)
    BY <2>2, <2>3 DEF Chain
  <2>5. QED
    BY <2>4
<1>3. N \in S
  <2> HIDE DEF S
  <2>1. QED
    BY <1>1, <1>2, SetInduction
<1>4. QED
  BY <1>3

\* Handling events one after the other keeps PhoneInv.
LEMMA HandleEachKeeps ==
  ASSUME NEW s, NEW f, NEW l \in [Run -> {None} \cup LiveRun], NEW p, PhoneInv(s, f, l, p),
         NEW E, NEW events \in Seq(E),
         \A i \in DOMAIN events : EventOk(f, l, events[i])
  PROVE  PhoneInv(HandleEach(s, events), f, l, p)
<1> DEFINE N == Len(events)
           Step(g) == [i \in 0..N |-> IF i = 0 THEN s ELSE Handle(g[i - 1], events[i])]
           after == CHOOSE g : g = Step(g)
<1>1. N \in Nat /\ DOMAIN events = 1..N
  OBVIOUS
<1>2. HandleEach(s, events) = after[N]
  BY DEF HandleEach
<1>3. after = Step(after)
  <2>1. PICK q : Chain(q, N, s, events)
    BY <1>1, ChainsExist
  <2> DEFINE g == [i \in 0..N |-> q[i]]
  <2>2. \A i \in 0..N : g[i] = IF i = 0 THEN s ELSE Handle(g[i - 1], events[i])
    <3> SUFFICES ASSUME NEW i \in 0..N
                 PROVE  g[i] = IF i = 0 THEN s ELSE Handle(g[i - 1], events[i])
      OBVIOUS
    <3>1. CASE i = 0
      BY <2>1, <3>1 DEF Chain
    <3>2. CASE i # 0
      <4>1. i \in 1..N /\ i - 1 \in 0..N
        BY <1>1, <3>2
      <4>2. q[i] = Handle(q[i - 1], events[i])
        BY <2>1, <4>1 DEF Chain
      <4>3. g[i] = q[i] /\ g[i - 1] = q[i - 1]
        BY <4>1
      <4>4. QED
        BY <3>2, <4>2, <4>3
    <3>3. QED
      BY <3>1, <3>2
  <2>3. g = Step(g)
    BY <2>2
  <2>4. QED
    BY <2>3
<1> HIDE DEF after, N
<1>4. after[0] = s /\ \A i \in 1..N : after[i] = Handle(after[i - 1], events[i])
  BY <1>1, <1>3
<1> DEFINE S == {n \in Nat : n <= N => PhoneInv(after[n], f, l, p)}
<1>5. 0 \in S
  BY <1>4
<1>6. ASSUME NEW n \in Nat, n \in S
      PROVE  n + 1 \in S
  <2> SUFFICES ASSUME n + 1 <= N
               PROVE  PhoneInv(after[n + 1], f, l, p)
    OBVIOUS
  <2>1. PhoneInv(after[n], f, l, p) /\ n + 1 \in 1..N /\ (n + 1) - 1 = n
    BY <1>1, <1>6
  <2>2. EventOk(f, l, events[n + 1])
    BY <1>1, <2>1
  <2>3. after[n + 1] = Handle(after[n], events[n + 1])
    BY <1>4, <2>1
  <2>4. QED
    BY <2>1, <2>2, <2>3, HandleKeeps
<1>7. N \in S
  <2> HIDE DEF S
  <2>1. QED
    BY <1>1, <1>5, <1>6, SetInduction
<1>8. QED
  BY <1>1, <1>2, <1>7

\* p holds what is kept of each of the first n operations of a queue.
Keeping(p, n, q) ==
  p[0] = <<>> /\ \A i \in 1..n : p[i] = IF q[i].what = "delta" THEN p[i - 1] ELSE Append(p[i - 1], q[i])

LEMMA KeepingExists ==
  ASSUME NEW q, NEW N \in Nat
  PROVE  \E p : Keeping(p, N, q)
<1> DEFINE S == {n \in Nat : \E p : Keeping(p, n, q)}
<1>1. 0 \in S
  <2>1. Keeping([i \in 0..0 |-> <<>>], 0, q)
    BY DEF Keeping
  <2>2. QED
    BY <2>1
<1>2. ASSUME NEW n \in Nat, n \in S
      PROVE  n + 1 \in S
  <2>1. PICK p : Keeping(p, n, q)
    BY <1>2
  <2> DEFINE b == IF q[n + 1].what = "delta" THEN p[n] ELSE Append(p[n], q[n + 1])
             u == [i \in 0..(n + 1) |-> IF i <= n THEN p[i] ELSE b]
  <2> HIDE DEF b
  <2>2. \A i \in 1..(n + 1) : u[i] = IF q[i].what = "delta" THEN u[i - 1] ELSE Append(u[i - 1], q[i])
    <3> SUFFICES ASSUME NEW i \in 1..(n + 1)
                 PROVE  u[i] = IF q[i].what = "delta" THEN u[i - 1] ELSE Append(u[i - 1], q[i])
      OBVIOUS
    <3>1. CASE i = n + 1
      <4>1. u[i] = b /\ u[i - 1] = p[n]
        BY <3>1
      <4>2. QED
        BY <4>1, <3>1 DEF b
    <3>2. CASE i # n + 1
      <4>1. i \in 1..n /\ u[i] = p[i] /\ u[i - 1] = p[i - 1]
        BY <3>2
      <4>2. QED
        BY <4>1, <2>1 DEF Keeping
    <3>3. QED
      BY <3>1, <3>2
  <2>3. u[0] = <<>>
    BY <2>1 DEF Keeping
  <2>4. Keeping(u, n + 1, q)
    BY <2>2, <2>3 DEF Keeping
  <2>5. QED
    BY <2>4
<1>3. N \in S
  <2> HIDE DEF S
  <2>1. QED
    BY <1>1, <1>2, SetInduction
<1>4. QED
  BY <1>3

\* What is left of a queue is no text.
LEMMA WithoutTextsLeaves ==
  ASSUME NEW q \in Seq(Op)
  PROVE  /\ WithoutTexts(q) \in Seq(Op)
         /\ Entries(WithoutTexts(q)) \subseteq {x \in Entries(q) : x.what # "delta"}
<1> DEFINE N == Len(q)
           Step(g) == [i \in 0..N |-> IF i = 0 THEN <<>>
                                      ELSE IF q[i].what = "delta" THEN g[i - 1] ELSE Append(g[i - 1], q[i])]
           kept == CHOOSE g : g = Step(g)
           NoText(w) == w \in Seq(Op) /\ Entries(w) \subseteq {x \in Entries(q) : x.what # "delta"}
<1>1. N \in Nat /\ DOMAIN q = 1..N /\ \A i \in 1..N : q[i] \in Op /\ q[i] \in Entries(q)
  BY DEF Entries
<1>2. WithoutTexts(q) = kept[N]
  BY DEF WithoutTexts
<1>3. kept = Step(kept)
  <2>1. PICK p : Keeping(p, N, q)
    BY <1>1, KeepingExists
  <2> DEFINE g == [i \in 0..N |-> p[i]]
  <2>2. \A i \in 0..N : g[i] = IF i = 0 THEN <<>>
                               ELSE IF q[i].what = "delta" THEN g[i - 1] ELSE Append(g[i - 1], q[i])
    <3> SUFFICES ASSUME NEW i \in 0..N
                 PROVE  g[i] = IF i = 0 THEN <<>>
                               ELSE IF q[i].what = "delta" THEN g[i - 1] ELSE Append(g[i - 1], q[i])
      OBVIOUS
    <3>1. CASE i = 0
      BY <2>1, <3>1 DEF Keeping
    <3>2. CASE i # 0
      <4>1. i \in 1..N /\ i - 1 \in 0..N
        BY <1>1, <3>2
      <4>2. p[i] = IF q[i].what = "delta" THEN p[i - 1] ELSE Append(p[i - 1], q[i])
        BY <2>1, <4>1 DEF Keeping
      <4>3. g[i] = p[i] /\ g[i - 1] = p[i - 1]
        BY <4>1
      <4>4. QED
        BY <3>2, <4>2, <4>3
    <3>3. QED
      BY <3>1, <3>2
  <2>3. g = Step(g)
    BY <2>2
  <2>4. QED
    BY <2>3
<1> HIDE DEF kept, N
<1>4. /\ kept[0] = <<>>
      /\ \A i \in 1..N : kept[i] = IF q[i].what = "delta" THEN kept[i - 1] ELSE Append(kept[i - 1], q[i])
  <2>1. \A i \in 0..N : kept[i] = IF i = 0 THEN <<>>
                                  ELSE IF q[i].what = "delta" THEN kept[i - 1] ELSE Append(kept[i - 1], q[i])
    BY <1>3, Zenon
  <2>2. 0 \in 0..N /\ \A i \in 1..N : i \in 0..N /\ i # 0
    BY <1>1
  <2>3. kept[0] = <<>>
    BY <2>1, <2>2
  <2>4. ASSUME NEW i \in 1..N
        PROVE  kept[i] = IF q[i].what = "delta" THEN kept[i - 1] ELSE Append(kept[i - 1], q[i])
    <3>1. i \in 0..N /\ i # 0
      BY <2>2
    <3>2. QED
      BY <2>1, <3>1, Zenon
  <2>5. QED
    BY <2>3, <2>4
<1> DEFINE S == {n \in Nat : n <= N => NoText(kept[n])}
<1>5. 0 \in S
  <2>1. <<>> \in Seq(Op) /\ Entries(<<>>) = {}
    BY DEF Entries
  <2>2. QED
    BY <1>4, <2>1
<1>6. ASSUME NEW n \in Nat, n \in S
      PROVE  n + 1 \in S
  <2> SUFFICES ASSUME n + 1 <= N
               PROVE  NoText(kept[n + 1])
    OBVIOUS
  <2>1. NoText(kept[n]) /\ n + 1 \in 1..N /\ (n + 1) - 1 = n
    BY <1>1, <1>6
  <2> DEFINE x == q[n + 1]
  <2>2. x \in Op /\ x \in Entries(q)
    BY <1>1, <2>1
  <2>3. kept[n + 1] = IF x.what = "delta" THEN kept[n] ELSE Append(kept[n], x)
    BY <1>4, <2>1
  <2> HIDE DEF x
  <2>4. CASE x.what = "delta"
    BY <2>1, <2>3, <2>4
  <2>5. CASE x.what # "delta"
    <3>1. kept[n + 1] \in Seq(Op) /\ Entries(kept[n + 1]) = Entries(kept[n]) \cup {x}
      BY <2>1, <2>2, <2>3, <2>5, AppendLeaves
    <3>2. QED
      BY <2>1, <2>2, <2>5, <3>1
  <2>6. QED
    BY <2>4, <2>5
<1>7. N \in S
  <2> HIDE DEF S
  <2>1. QED
    BY <1>1, <1>5, <1>6, SetInduction
<1>8. QED
  BY <1>1, <1>2, <1>7
---------------------------------------------------------------------------
(* The world around goes on: runs start, commands fail.                    *)

\* A run that goes on, and an id that is given again.
Same(l, l2, r) ==
  /\ l2[r] # None /\ l2[r].cmd = l[r].cmd /\ l2[r].former = l[r].former
  /\ l2[r].mixed <=> l[r].mixed
  /\ l[r].over => l2[r].over
Renewed(f2, l, l2, r) ==
  /\ l2[r] # None /\ l2[r].former = Bearers(l, r)
  /\ l[r].mixed => l2[r].mixed
  /\ f2[l2[r].cmd] = "requested" /\ l2[r].cmd \notin Bearers(l, r)

\* f2 and l2 are later than f and l.
Later(f, l, f2, l2) ==
  /\ \A c \in Command : f[c] \in {"done", "failed"} => f2[c] = f[c]
  /\ \A r \in Run : l[r] # None => Same(l, l2, r) \/ Renewed(f2, l, l2, r)

\* No command gets its answer.
Unanswered(f, l, f2) ==
  \A r \in Run : l[r] # None /\ f[l[r].cmd] # "done" => f2[l[r].cmd] # "done"

LEMMA GoodLater ==
  ASSUME NEW st, NEW f, NEW l, NEW f2, NEW l2, Later(f, l, f2, l2), Unanswered(f, l, f2),
         NEW k, NEW r \in Run, Good(st, f, l, k, r)
  PROVE  Good(st, f2, l2, k, r)
<1>1. l[r] # None
  BY DEF Good
<1>2. CASE Same(l, l2, r)
  BY <1>1, <1>2 DEF Same, Good, Unanswered
<1>3. CASE Renewed(f2, l, l2, r)
  BY <1>1, <1>3 DEF Renewed, Good, Bearers
<1>4. QED
  BY <1>1, <1>2, <1>3 DEF Later

LEMMA EndedLater ==
  ASSUME NEW f, NEW l, NEW f2, NEW l2, Later(f, l, f2, l2), Unanswered(f, l, f2),
         NEW r \in Run, l[r] # None, Ended(f, l, r)
  PROVE  Ended(f2, l2, r)
<1>1. CASE Same(l, l2, r)
  BY <1>1 DEF Same, Ended, Unanswered
<1>2. CASE Renewed(f2, l, l2, r)
  BY <1>2 DEF Renewed, Ended
<1>3. QED
  BY <1>1, <1>2 DEF Later

LEMMA RegistryLater ==
  ASSUME NEW st, NEW f, NEW l, NEW f2, NEW l2, Later(f, l, f2, l2), Unanswered(f, l, f2),
         RegistryInv(st, f, l)
  PROVE  RegistryInv(st, f2, l2)
<1>1. \A x \in Entries(st.ids) : /\ x.run \in Run /\ Good(st, f, l, x.key, x.run)
                                 /\ l[x.run] # None
                                 /\ x.terminal => Ended(f, l, x.run)
  <2>1. \A x \in Entries(st.ids) : x.run \in Run
    BY RegistryTyped DEF Identity
  <2>2. QED
    BY <2>1 DEF RegistryInv, Good
<1>2. \A x \in Entries(st.contexts) : x.run \in Run /\ Good(st, f, l, x.key, x.run)
  <2>1. \A x \in Entries(st.contexts) : x.run \in Run
    BY RegistryTyped DEF Context
  <2>2. QED
    BY <2>1 DEF RegistryInv
<1>3. \A x \in Entries(st.ids) : Good(st, f2, l2, x.key, x.run)
  BY <1>1, GoodLater
<1>4. \A x \in Entries(st.ids) : x.terminal => Ended(f2, l2, x.run)
  BY <1>1, EndedLater
<1>5. \A x \in Entries(st.contexts) : Good(st, f2, l2, x.key, x.run)
  BY <1>2, GoodLater
<1>6. \A r \in st.out : l2[r] # None
  <2>1. \A r \in st.out : r \in Run /\ l[r] # None
    BY RegistryTyped DEF RegistryInv
  <2>2. \A r \in Run : l[r] # None => l2[r] # None
    BY DEF Later, Same, Renewed
  <2>3. QED
    BY <2>1, <2>2
<1>7. st \in Registry /\ OneEach(st.ids) /\ \A x \in Entries(st.contexts) : Seen(st, x.run)
  BY DEF RegistryInv
<1>8. QED
  BY <1>3, <1>4, <1>5, <1>6, <1>7 DEF RegistryInv

\* What was said of the runs that had an id is not said of the one that has it now.
LEMMA OpLater ==
  ASSUME NEW st, NEW f, NEW l \in [Run -> {None} \cup LiveRun], NEW f2, NEW l2,
         Later(f, l, f2, l2), NEW o \in Op, OpInv(st, f, l, o)
  PROVE  OpInv(st, f2, l2, o)
<1>1. /\ o.run \in Run /\ o.cmd \in Command /\ l[o.run] # None /\ o.cmd \in Bearers(l, o.run)
      /\ f[o.cmd] \in {"done", "failed"} /\ f2[o.cmd] = f[o.cmd]
  BY DEF Op, OpInv, Later
<1>2. CASE Same(l, l2, o.run)
  <2>1. o.cmd \in Bearers(l2, o.run)
    BY <1>1, <1>2 DEF Same, Bearers
  <2>2. Shown(st, f2, l2, o)
    BY <1>1, <1>2 DEF Same, OpInv, Shown
  <2>3. Apart(l2, o) => Told(st, o)
    BY <1>2 DEF Same, OpInv, Apart
  <2>4. QED
    BY <1>1, <1>2, <2>1, <2>2, <2>3 DEF OpInv, Same
<1>3. CASE Renewed(f2, l, l2, o.run)
  <2>1. o.cmd \in Bearers(l2, o.run)
    BY <1>1, <1>3 DEF Renewed, Bearers
  <2>2. Shown(st, f2, l2, o)
    BY <1>1, <1>3 DEF Renewed, OpInv, Shown, Bearers
  <2>3. ~Apart(l2, o)
    BY <1>1, <1>3 DEF Renewed, Apart
  <2>4. QED
    BY <1>1, <1>3, <2>1, <2>2, <2>3 DEF OpInv, Renewed
<1>4. QED
  BY <1>1, <1>2, <1>3 DEF Later

LEMMA GrowsLater ==
  ASSUME NEW st, NEW f, NEW l, NEW f2, NEW l2, Later(f, l, f2, l2), NEW p, p.run \in Run,
         l[p.run] # None, NEW q, Grows(st, l, p, q)
  PROVE  Grows(st, l2, p, q)
<1>1. l[p.run].mixed => l2[p.run].mixed
  BY DEF Later, Same, Renewed
<1>2. QED
  BY <1>1 DEF Grows

\* Nothing waits of an id that is given again, or it is known to mix.
LEMMA QueueLater ==
  ASSUME NEW st, NEW f, NEW l \in [Run -> {None} \cup LiveRun], NEW f2, NEW l2,
         Later(f, l, f2, l2), NEW q, NEW p, QueueInv(st, f, l, q, p), PublishedInv(st, f, l, p),
         \A k \in Key \cup Run : \A i \in DOMAIN q[k] :
           Same(l, l2, q[k][i].run) \/ l2[q[k][i].run].mixed
  PROVE  QueueInv(st, f2, l2, q, p)
<1>1. q \in Queue
  BY DEF QueueInv
<1>2. ASSUME NEW k \in Key \cup Run, NEW i \in DOMAIN q[k]
      PROVE  /\ OpInv(st, f2, l2, q[k][i]) /\ q[k][i].key = k
             /\ l2[q[k][i].run].mixed \/ Apart(l2, q[k][i])
             /\ \A j \in DOMAIN q[k] : i < j => Grows(st, l2, q[k][i], q[k][j])
             /\ \A c \in Command : \A j \in DOMAIN p[c] :
                  p[c][j].key = k => Grows(st, l2, p[c][j], q[k][i])
  <2> DEFINE o == q[k][i]
  <2>1. /\ o \in Op /\ OpInv(st, f, l, o) /\ o.key = k
        /\ l[o.run].mixed \/ Apart(l, o)
    BY <1>1, <1>2 DEF QueueInv, Queue
  <2>2. o.run \in Run /\ l[o.run] # None
    BY <2>1 DEF Op, OpInv
  <2>3. Same(l, l2, o.run) \/ l2[o.run].mixed
    BY <1>2
  <2>4. \A j \in DOMAIN q[k] : i < j => Grows(st, l, o, q[k][j])
    BY <1>2 DEF QueueInv
  <2>5. \A c \in Command : \A j \in DOMAIN p[c] : p[c][j].key = k => Grows(st, l, p[c][j], o)
    BY <1>2 DEF QueueInv
  <2> HIDE DEF o
  <2>6. OpInv(st, f2, l2, o)
    BY <2>1, OpLater
  <2>7. l2[o.run].mixed \/ Apart(l2, o)
    BY <2>1, <2>3 DEF Same, Apart
  <2>8. \A j \in DOMAIN q[k] : i < j => Grows(st, l2, o, q[k][j])
    BY <2>2, <2>4, GrowsLater
  <2>9. ASSUME NEW c \in Command, NEW j \in DOMAIN p[c], p[c][j].key = k
        PROVE  Grows(st, l2, p[c][j], o)
    <3>1. p[c][j] \in Op /\ OpInv(st, f, l, p[c][j])
      BY <2>9 DEF PublishedInv
    <3>2. p[c][j].run \in Run /\ l[p[c][j].run] # None
      BY <3>1 DEF Op, OpInv
    <3>3. QED
      BY <2>5, <2>9, <3>2, GrowsLater
  <2>10. QED
    BY <2>1, <2>6, <2>7, <2>8, <2>9 DEF o
<1>3. QED
  BY <1>1, <1>2 DEF QueueInv

LEMMA PublishedLater ==
  ASSUME NEW st, NEW f, NEW l \in [Run -> {None} \cup LiveRun], NEW f2, NEW l2,
         Later(f, l, f2, l2), NEW p, PublishedInv(st, f, l, p)
  PROVE  PublishedInv(st, f2, l2, p)
<1>1. p \in [Command -> Seq(Op)]
  BY DEF PublishedInv
<1>2. ASSUME NEW c \in Command, NEW i \in DOMAIN p[c]
      PROVE  /\ p[c][i].cmd = c /\ OpInv(st, f2, l2, p[c][i])
             /\ \A j \in DOMAIN p[c] :
                  i < j /\ p[c][i].key = p[c][j].key => Grows(st, l2, p[c][i], p[c][j])
  <2>1. p[c][i] \in Op /\ OpInv(st, f, l, p[c][i]) /\ p[c][i].cmd = c
    BY <1>1, <1>2 DEF PublishedInv
  <2>2. p[c][i].run \in Run /\ l[p[c][i].run] # None
    BY <2>1 DEF Op, OpInv
  <2>3. \A j \in DOMAIN p[c] :
          i < j /\ p[c][i].key = p[c][j].key => Grows(st, l, p[c][i], p[c][j])
    BY <1>2 DEF PublishedInv
  <2>4. QED
    BY <2>1, <2>2, <2>3, OpLater, GrowsLater
<1>3. QED
  BY <1>1, <1>2 DEF PublishedInv

LEMMA PhoneLater ==
  ASSUME NEW s, NEW f, NEW l \in [Run -> {None} \cup LiveRun], NEW f2, NEW l2, NEW p,
         Later(f, l, f2, l2), Unanswered(f, l, f2), PhoneInv(s, f, l, p), RunsInv(s.st, f2, l2),
         \A k \in Key \cup Run : \A i \in DOMAIN s.ops[k] :
           Same(l, l2, s.ops[k][i].run) \/ l2[s.ops[k][i].run].mixed
  PROVE  PhoneInv(s, f2, l2, p)
  BY RegistryLater, QueueLater, PublishedLater DEF PhoneInv

\* The same when no id is given again.
LEMMA PhoneGoesOn ==
  ASSUME NEW s, NEW f, NEW l \in [Run -> {None} \cup LiveRun], NEW f2, NEW l2, NEW p,
         Later(f, l, f2, l2), Unanswered(f, l, f2), PhoneInv(s, f, l, p), RunsInv(s.st, f2, l2),
         \A r \in Run : l[r] # None => Same(l, l2, r)
  PROVE  PhoneInv(s, f2, l2, p)
<1>1. ASSUME NEW k \in Key \cup Run, NEW i \in DOMAIN s.ops[k]
      PROVE  Same(l, l2, s.ops[k][i].run)
  <2>1. s.ops[k][i] \in Op /\ OpInv(s.st, f, l, s.ops[k][i])
    BY <1>1 DEF PhoneInv, QueueInv, Queue
  <2>2. QED
    BY <2>1 DEF Op, OpInv
<1>2. QED
  BY <1>1, PhoneLater

\* Phases change, the runs go on.
LEMMA RunsStaySame ==
  ASSUME NEW f, NEW l, NEW f2,
         \A c \in Command : f[c] \in {"done", "failed"} => f2[c] = f[c]
  PROVE  Later(f, l, f2, l) /\ \A r \in Run : l[r] # None => Same(l, l, r)
  BY DEF Later, Same

\* The texts that wait are forgotten.
LEMMA ForgottenKeeps ==
  ASSUME NEW st, NEW f, NEW l, NEW q, NEW p, QueueInv(st, f, l, q, p)
  PROVE  QueueInv(st, f, l, TextsForgotten(q), p)
<1> DEFINE u == TextsForgotten(q)
<1>1. \A k \in Key \cup Run : q[k] \in Seq(Op) /\ u[k] = WithoutTexts(q[k])
  BY DEF QueueInv, Queue, TextsForgotten
<1>2. \A k \in Key \cup Run :
        u[k] \in Seq(Op) /\ Entries(u[k]) \subseteq {x \in Entries(q[k]) : x.what # "delta"}
  BY <1>1, WithoutTextsLeaves
<1>3. u \in Queue
  BY <1>2 DEF Queue, TextsForgotten
<1> HIDE DEF u
<1>4. ASSUME NEW k \in Key \cup Run, NEW i \in DOMAIN u[k]
      PROVE  /\ u[k][i].key = k /\ OpInv(st, f, l, u[k][i])
             /\ l[u[k][i].run].mixed \/ Apart(l, u[k][i])
             /\ \A j \in DOMAIN u[k] : Grows(st, l, u[k][i], u[k][j])
             /\ \A c \in Command : \A j \in DOMAIN p[c] : Grows(st, l, p[c][j], u[k][i])
  <2>1. \A j \in DOMAIN u[k] : u[k][j] \in Entries(q[k]) /\ u[k][j].what # "delta"
    BY <1>2 DEF Entries
  <2>2. PICK m \in DOMAIN q[k] : u[k][i] = q[k][m]
    BY <1>4, <2>1 DEF Entries
  <2>3. /\ u[k][i].key = k /\ OpInv(st, f, l, u[k][i])
        /\ l[u[k][i].run].mixed \/ Apart(l, u[k][i])
    BY <2>2 DEF QueueInv
  <2>4. \A j \in DOMAIN u[k] : Grows(st, l, u[k][i], u[k][j])
    BY <2>1, EndGrows
  <2>5. \A c \in Command : \A j \in DOMAIN p[c] : Grows(st, l, p[c][j], u[k][i])
    BY <1>4, <2>1, EndGrows
  <2>6. QED
    BY <2>3, <2>4, <2>5
<1>5. QED
  BY <1>3, <1>4 DEF QueueInv, u

---------------------------------------------------------------------------
(* The steps.                                                              *)

\* What is held back, or read, when no answer is due, may be handled.
LEMMA EventsAreOk ==
  ASSUME NEW f, NEW l \in [Run -> {None} \cup LiveRun], Hooks(f) = {},
         NEW e \in Frame, FrameOk(l, e), e.what \in What
  PROVE  EventOk(f, l, e)
<1>1. e.cmd \in Command
  BY DEF Frame
<1>2. QED
  BY <1>1 DEF EventOk

Now == [st |-> runs, ops |-> ops]
LEMMA ReleaseKeeps ==
  ASSUME NEW st, live' \in [Run -> {None} \cup LiveRun], live' = live, published' = published,
         FramesInv, PhoneInv([st |-> st, ops |-> ops], phase', live', published'), Release(st)
  PROVE  /\ PhoneInv(Now', phase', live', published')
         /\ buffer' \in Seq(Frame)
         /\ \A i \in DOMAIN buffer' : FrameOk(live', buffer'[i]) /\ buffer'[i].what \in What
<1> DEFINE s == [st |-> st, ops |-> ops]
<1>1. ASSUME NEW events, HandleAll(st, events)
      PROVE  Now' = [st |-> HandleEach(s, events).st, ops |-> HandleEach(s, events).ops]
  BY <1>1 DEF HandleAll, Now
<1>2. ASSUME NEW events, PhoneInv(HandleEach(s, events), phase', live', published'), HandleAll(st, events)
      PROVE  PhoneInv(Now', phase', live', published')
  BY <1>1, <1>2 DEF PhoneInv
<1>3. CASE Hooks(phase') = {}
  <2>1. HandleAll(st, buffer) /\ buffer' = <<>>
    BY <1>3 DEF Release
  <2>2. buffer \in Seq(Frame) /\ \A i \in DOMAIN buffer : FrameOk(live', buffer[i]) /\ buffer[i].what \in What
    BY DEF FramesInv
  <2>3. \A i \in DOMAIN buffer : EventOk(phase', live', buffer[i])
    BY <1>3, <2>2, EventsAreOk
  <2> HIDE DEF s
  <2>4. PhoneInv(HandleEach(s, buffer), phase', live', published')
    BY <2>2, <2>3, HandleEachKeeps DEF s
  <2>5. QED
    BY <1>2, <2>1, <2>4 DEF s
<1>4. CASE Hooks(phase') # {}
  <2>1. HandleAll(st, <<>>) /\ buffer' = buffer
    BY <1>4 DEF Release
  <2>2. PhoneInv(HandleEach(s, <<>>), phase', live', published')
    <3>1. <<>> \in Seq(Frame) /\ \A i \in DOMAIN <<>> : EventOk(phase', live', <<>>[i])
      OBVIOUS
    <3> HIDE DEF s
    <3>2. QED
      BY <3>1, HandleEachKeeps DEF s
  <2>3. QED
    BY <1>2, <2>1, <2>2 DEF FramesInv
<1>5. QED
  BY <1>3, <1>4

\* Steps that change phases of commands whose run has not started.
LEMMA PhaseStep ==
  ASSUME GatewayInv, TextInv, NEW c \in Command, NEW v, phase' = [phase EXCEPT ![c] = v],
         phase[c] \in {"new", "joined", "subscribing", "recording"}, v # "answered",
         UNCHANGED <<wire, buffer, runs, ops, live, published>>
  PROVE  TextInv'
<1>1. phase \in [Command -> Phases] /\ live \in [Run -> {None} \cup LiveRun]
  BY DEF GatewayInv, LiveRun
<1>2. RunsInv(runs, phase, live) /\ PhoneInv(Now, phase, live, published)
  BY DEF TextInv, PhoneInv, Now
<1>3. \A r \in Run : live[r] # None => live[r].cmd \in Command /\ live[r].cmd # c
  BY <1>1, <1>2 DEF RunsInv, LiveRun
<1>4. /\ \A r \in Run : live[r] # None => phase'[live[r].cmd] = phase[live[r].cmd]
      /\ \A d \in Command : phase[d] \in {"done", "failed"} => phase'[d] = phase[d]
  BY <1>1, <1>3
<1>5. /\ Later(phase, live, phase', live) /\ Unanswered(phase, live, phase')
      /\ \A r \in Run : live[r] # None => Same(live, live, r)
  BY <1>4, RunsStaySame DEF Unanswered
<1>6. RunsInv(runs, phase', live)
  BY <1>2, <1>4 DEF RunsInv
<1>7. PhoneInv(Now, phase', live, published)
  BY <1>1, <1>2, <1>5, <1>6, PhoneGoesOn DEF Now
<1>8. FramesInv'
  <2>1. \A d \in Command : phase'[d] = "answered" => phase[d] = "answered"
    BY <1>1
  <2>2. QED
    BY <2>1 DEF TextInv, FramesInv, Started
<1>9. QED
  BY <1>7, <1>8 DEF TextInv, Now

\* A frame that is right stays so.
LEMMA FrameLater ==
  ASSUME NEW l, NEW l2, NEW e, FrameOk(l, e), Same(l, l2, e.run)
  PROVE  FrameOk(l2, e)
  BY DEF FrameOk, Same, Bearers

\* A frame is sent last.
LEMMA FrameSent ==
  ASSUME NEW l2, wire \in Seq(Frame), \A i \in DOMAIN wire : FrameOk(l2, wire[i]),
         NEW e \in Frame, FrameOk(l2, e), wire' = Append(wire, e) \/ wire' = wire
  PROVE  wire' \in Seq(Frame) /\ \A i \in DOMAIN wire' : FrameOk(l2, wire'[i])
<1>1. CASE wire' = Append(wire, e)
  <2>1. wire' \in Seq(Frame) /\ Entries(wire') = Entries(wire) \cup {e}
    BY <1>1, AppendLeaves
  <2>2. \A x \in Entries(wire') : FrameOk(l2, x)
    BY <2>1 DEF Entries
  <2>3. QED
    BY <2>1, <2>2 DEF Entries
<1>2. CASE wire' = wire
  BY <1>2
<1>3. QED
  BY <1>1, <1>2

\* Steps of the Gateway's runs.
LEMMA LiveStep ==
  ASSUME GatewayInv, TextInv, NEW r \in Run, NEW w \in LiveRun, live' = [live EXCEPT ![r] = w],
         w.cmd = live[r].cmd, w.former = live[r].former, w.mixed <=> live[r].mixed,
         live[r].over => w.over, live[r] # None, NEW e \in Frame, FrameOk(live', e),
         wire' = Append(wire, e) \/ wire' = wire,
         UNCHANGED <<phase, buffer, runs, ops, published>>
  PROVE  TextInv'
<1>1. phase \in [Command -> Phases] /\ live \in [Run -> {None} \cup LiveRun]
  BY DEF GatewayInv
<1>2. RunsInv(runs, phase, live) /\ PhoneInv(Now, phase, live, published) /\ FramesInv
  BY DEF TextInv, PhoneInv, Now
<1>3. w # None /\ live'[r] = w /\ \A q \in Run : q # r => live'[q] = live[q]
  BY <1>1, NoneIsNothing
<1>4. \A q \in Run : /\ live'[q] # None => live[q] # None
                     /\ live[q] # None => Same(live, live', q)
  BY <1>3 DEF Same
<1>5. Later(phase, live, phase', live') /\ Unanswered(phase, live, phase')
  BY <1>4 DEF Later, Unanswered
<1>6. RunsInv(runs, phase', live')
  BY <1>2, <1>4 DEF RunsInv, Same, Bearers
<1>7. PhoneInv(Now, phase', live', published)
  BY <1>1, <1>2, <1>4, <1>5, <1>6, PhoneGoesOn DEF Now
<1>8. /\ \A i \in DOMAIN wire : FrameOk(live', wire[i])
      /\ \A i \in DOMAIN buffer : FrameOk(live', buffer[i]) /\ buffer[i].what \in What
  <2>1. ASSUME NEW x, FrameOk(live, x)
        PROVE  FrameOk(live', x)
    <3>1. x.run \in Run /\ live[x.run] # None
      BY <2>1 DEF FrameOk
    <3>2. Same(live, live', x.run)
      BY <1>4, <3>1
    <3>3. QED
      BY <2>1, <3>2, FrameLater
  <2>2. QED
    BY <1>2, <2>1 DEF FramesInv
<1>9. wire' \in Seq(Frame) /\ \A i \in DOMAIN wire' : FrameOk(live', wire'[i])
  BY <1>2, <1>8, FrameSent DEF FramesInv
<1>10. \A d \in Command : Started(d) => Started(d)'
  BY <1>4 DEF Started, Same
<1>11. FramesInv'
  BY <1>2, <1>8, <1>9, <1>10 DEF FramesInv
<1>12. QED
  BY <1>7, <1>11 DEF TextInv, Now

\* An id is given, perhaps again: nothing of a former run with that id is under
\* way, or they mix.
LEMMA AcceptStep ==
  ASSUME GatewayInv, TextInv, NEW c \in Command, Accept(c)
  PROVE  TextInv'
<1>1. phase \in [Command -> Phases] /\ live \in [Run -> {None} \cup LiveRun]
  BY DEF GatewayInv
<1>2. /\ RunsInv(runs, phase, live) /\ PhoneInv(Now, phase, live, published)
      /\ FramesInv /\ ops \in Queue
  BY DEF TextInv, PhoneInv, Now, QueueInv
<1>3. PICK r \in Run :
        /\ live[r] # None => live[r].over /\ phase[live[r].cmd] \in {"done", "failed"}
        /\ live' = [live EXCEPT ![r] = Begun(c, r)]
  BY DEF Accept, Begun
<1> DEFINE w == Begun(c, r)
<1>4. /\ w \in LiveRun /\ w.cmd = c /\ w # None
      /\ live[r] = None => w.former = {}
      /\ live[r] # None => w.former = Bearers(live, r)
      /\ w.mixed <=> live[r] # None /\ (live[r].mixed \/ UnderWay(r))
  BY <1>1, BegunIsRun, NoneIsNothing DEF Bearers
<1> HIDE DEF w
<1>5. live'[r] = w /\ \A q \in Run : q # r => live'[q] = live[q]
  BY <1>1, <1>3 DEF w
<1>6. /\ phase' = phase /\ phase[c] = "requested" /\ ~Started(c)
      /\ UNCHANGED <<wire, buffer, runs, ops, published>>
  BY DEF Accept
<1>7. \A q \in Run : live[q] # None => c \notin Bearers(live, q)
  BY <1>2, <1>6 DEF RunsInv, Bearers, Started
<1>8. \A q \in Run : live[q] # None /\ q # r => Same(live, live', q)
  BY <1>5 DEF Same
<1>9. live[r] # None => Renewed(phase', live, live', r)
  BY <1>3, <1>4, <1>5, <1>6, <1>7 DEF Renewed
<1>10. Later(phase, live, phase', live') /\ Unanswered(phase, live, phase')
  BY <1>6, <1>8, <1>9 DEF Later, Unanswered
<1>11. RunsInv(runs, phase', live')
  <2>1. \A q \in Run : live'[q] # None => live[q] # None \/ q = r
    BY <1>5
  <2>2. /\ \A d \in w.former : d \in Command /\ phase[d] \in {"done", "failed"}
        /\ Bearers(live', r) = w.former \cup {c}
    <3>1. live[r] # None => live[r].cmd \in Command
      BY <1>1 DEF LiveRun
    <3>2. QED
      BY <1>2, <1>3, <1>4, <1>5, <3>1 DEF RunsInv, Bearers
  <2>3. \A q \in Run : q # r /\ live[q] # None =>
          /\ Bearers(live', q) = Bearers(live, q)
          /\ Bearers(live', q) \cap Bearers(live', r) = {}
    <3>1. \A q \in Run : q # r => Bearers(live', q) = Bearers(live, q)
      BY <1>5 DEF Bearers
    <3>2. \A q \in Run : q # r /\ live[q] # None => Bearers(live, q) \cap w.former = {}
      BY <1>2, <1>4 DEF RunsInv
    <3>3. QED
      BY <1>7, <2>2, <3>1, <3>2
  <2>4. ASSUME NEW q \in Run, live'[q] # None
        PROVE  /\ phase'[live'[q].cmd] \in {"requested", "answered", "done", "failed"}
               /\ phase'[live'[q].cmd] = "done" => Seen(runs, q)
               /\ \A d \in live'[q].former : d \in Command /\ phase'[d] \in {"done", "failed"}
    <3>1. CASE q = r
      BY <1>4, <1>5, <1>6, <2>2, <3>1
    <3>2. CASE q # r
      BY <1>2, <1>5, <1>6, <2>4, <3>2 DEF RunsInv
    <3>3. QED
      BY <3>1, <3>2
  <2>5. ASSUME NEW q \in Run, NEW z \in Run, live'[q] # None, live'[z] # None,
               Bearers(live', q) \cap Bearers(live', z) # {}
        PROVE  q = z
    <3>1. CASE q # r /\ z # r
      BY <1>2, <2>1, <2>3, <2>5, <3>1 DEF RunsInv
    <3>2. CASE q = r \/ z = r
      BY <2>1, <2>3, <2>5, <3>2
    <3>3. QED
      BY <3>1, <3>2
  <2>6. QED
    BY <2>4, <2>5 DEF RunsInv
<1>12. ASSUME NEW k \in Key \cup Run, NEW i \in DOMAIN ops[k]
       PROVE  Same(live, live', ops[k][i].run) \/ live'[ops[k][i].run].mixed
  <2>1. ops[k][i] \in Op /\ OpInv(runs, phase, live, ops[k][i])
    BY <1>2, <1>12 DEF PhoneInv, Now, QueueInv, Queue
  <2>2. ops[k][i].run \in Run /\ live[ops[k][i].run] # None
    BY <2>1 DEF Op, OpInv
  <2>3. CASE ops[k][i].run # r
    BY <1>8, <2>2, <2>3
  <2>4. CASE ops[k][i].run = r
    BY <1>4, <1>5, <1>12, <2>2, <2>4 DEF UnderWay
  <2>5. QED
    BY <2>3, <2>4
<1>13. PhoneInv(Now, phase', live', published)
  BY <1>1, <1>2, <1>10, <1>11, <1>12, PhoneLater DEF Now
<1>14. FramesInv'
  <2>1. ASSUME NEW x, FrameOk(live, x), x.run = r => UnderWay(r)
        PROVE  FrameOk(live', x)
    <3>1. CASE x.run # r
      BY <1>8, <2>1, <3>1, FrameLater DEF FrameOk
    <3>2. CASE x.run = r
      BY <1>4, <1>5, <2>1, <3>2 DEF FrameOk, Bearers
    <3>3. QED
      BY <3>1, <3>2
  <2>2. /\ \A i \in DOMAIN wire : FrameOk(live', wire[i])
        /\ \A i \in DOMAIN buffer : FrameOk(live', buffer[i])
    BY <1>2, <2>1 DEF FramesInv, UnderWay
  <2>3. \A d \in Command : phase[d] = "answered" /\ Started(d) => Started(d)'
    BY <1>3, <1>5 DEF Started
  <2>4. QED
    BY <1>2, <1>6, <2>2, <2>3 DEF FramesInv
<1>15. QED
  BY <1>6, <1>13, <1>14 DEF TextInv, Now

LEMMA RespondStep ==
  ASSUME GatewayInv, TextInv, NEW r \in Run, Respond(r)
  PROVE  TextInv'
<1>1. live \in [Run -> {None} \cup LiveRun]
  BY DEF GatewayInv
<1> DEFINE w == [live[r] EXCEPT !.answered = TRUE]
           e == [what |-> "response", run |-> r, cmd |-> live[r].cmd]
<1>2. live[r] # None /\ live[r] \in LiveRun /\ live' = [live EXCEPT ![r] = w]
  BY <1>1 DEF Respond
<1>3. /\ w \in LiveRun /\ w.cmd = live[r].cmd /\ w.former = live[r].former
      /\ w.mixed = live[r].mixed /\ w.over = live[r].over
  BY <1>2 DEF LiveRun
<1>4. e \in Frame /\ e.run = r /\ e.cmd = live[r].cmd /\ e.what = "response"
  BY <1>2 DEF Frame, LiveRun
<1>5. wire' = Append(wire, e) /\ UNCHANGED <<phase, buffer, runs, ops, published>>
  BY DEF Respond
<1> HIDE DEF w, e
<1>6. live'[r] = w /\ w # None
  BY <1>1, <1>2, <1>3, NoneIsNothing
<1>7. FrameOk(live', e)
  BY <1>3, <1>4, <1>6 DEF FrameOk, Bearers, Terminal
<1>8. QED
  BY <1>2, <1>3, <1>4, <1>5, <1>7, LiveStep

LEMMA EmitStep ==
  ASSUME GatewayInv, TextInv, NEW r \in Run, NEW what \in Terminal \cup {"delta"}, Emit(r, what)
  PROVE  TextInv'
<1>1. live \in [Run -> {None} \cup LiveRun]
  BY DEF GatewayInv
<1> DEFINE w == [live[r] EXCEPT !.sent = IF what = "delta" THEN @ + 1 ELSE @,
                                !.over = @ \/ what # "delta"]
           e == [what |-> what, run |-> r, cmd |-> live[r].cmd]
<1>2. live[r] # None /\ live[r] \in LiveRun /\ live' = [live EXCEPT ![r] = w]
  BY <1>1 DEF Emit
<1>3. /\ w \in LiveRun /\ w.cmd = live[r].cmd /\ w.former = live[r].former
      /\ w.mixed = live[r].mixed /\ w.over = (live[r].over \/ what # "delta")
  <2> DEFINE x == live[r]
             a == IF what = "delta" THEN x.sent + 1 ELSE x.sent
             b == x.over \/ what # "delta"
  <2>1. w = [[x EXCEPT !.sent = a] EXCEPT !.over = b]
    BY <1>2 DEF LiveRun
  <2>2. a \in Nat /\ b \in BOOLEAN /\ x \in LiveRun
    BY <1>2 DEF LiveRun
  <2> HIDE DEF a, b, x, w
  <2>3. /\ w \in LiveRun /\ w.cmd = x.cmd /\ w.former = x.former
        /\ w.mixed = x.mixed /\ w.over = b
    BY <2>1, <2>2 DEF LiveRun
  <2>4. QED
    BY <2>3 DEF x, b
<1>4. e \in Frame /\ e.run = r /\ e.cmd = live[r].cmd /\ e.what = what
  BY <1>2 DEF Frame, LiveRun, What
<1>5. /\ wire' = Append(wire, e) \/ wire' = wire
      /\ UNCHANGED <<phase, buffer, runs, ops, published>>
  BY DEF Emit
<1> HIDE DEF w, e
<1>6. live'[r] = w /\ w # None
  BY <1>1, <1>2, <1>3, NoneIsNothing
<1>7. what \in Terminal => w.over
  BY <1>3 DEF Terminal
<1>8. FrameOk(live', e)
  BY <1>3, <1>4, <1>6, <1>7 DEF FrameOk, Bearers
<1>9. QED
  BY <1>2, <1>3, <1>4, <1>5, <1>8, LiveStep

LEMMA AbortStep ==
  ASSUME GatewayInv, TextInv, NEW k \in Key, Abort(k)
  PROVE  TextInv'
<1> DEFINE r == runs.providers[k]
           w == [live[r] EXCEPT !.over = TRUE]
           e == [what |-> "error", run |-> r, cmd |-> live[r].cmd]
<1>1. live \in [Run -> {None} \cup LiveRun] /\ r \in Run \cup {None}
  BY RegistryTyped DEF GatewayInv, TextInv, PhoneInv
<1>2. r \in Run /\ live[r] # None /\ live[r] \in LiveRun /\ live' = [live EXCEPT ![r] = w]
  BY <1>1 DEF Abort
<1>3. /\ wire' = Append(wire, e) \/ wire' = wire
      /\ UNCHANGED <<phase, buffer, runs, ops, published>>
  BY DEF Abort
<1>4. /\ w \in LiveRun /\ w.cmd = live[r].cmd /\ w.former = live[r].former
      /\ w.mixed = live[r].mixed /\ w.over
  BY <1>2 DEF LiveRun
<1>5. e \in Frame /\ e.run = r /\ e.cmd = live[r].cmd
  BY <1>2 DEF Frame, LiveRun, What, Terminal
<1> HIDE DEF w, e, r
<1>6. live'[r] = w /\ w # None
  BY <1>1, <1>2, <1>4, NoneIsNothing
<1>7. FrameOk(live', e)
  BY <1>2, <1>4, <1>5, <1>6 DEF FrameOk, Bearers
<1>8. QED
  BY <1>2, <1>3, <1>4, <1>5, <1>7, LiveStep

\* The frame read is about a run; the others stay.
LEMMA FrameRead ==
  ASSUME FramesInv, wire # <<>>, wire' = Tail(wire)
  PROVE  /\ Head(wire) \in Frame /\ FrameOk(live, Head(wire))
         /\ wire' \in Seq(Frame) /\ \A i \in DOMAIN wire' : FrameOk(live, wire'[i])
<1>1. wire \in Seq(Frame) /\ \A i \in DOMAIN wire : FrameOk(live, wire[i])
  BY DEF FramesInv
<1>2. Head(wire) \in Frame /\ 1 \in DOMAIN wire /\ Head(wire) = wire[1]
  BY <1>1
<1>3. wire' \in Seq(Frame) /\ \A i \in DOMAIN wire' : i + 1 \in DOMAIN wire /\ wire'[i] = wire[i + 1]
  BY <1>1
<1>4. QED
  BY <1>1, <1>2, <1>3

LEMMA ReadResponseStep ==
  ASSUME GatewayInv, TextInv, ReadResponse
  PROVE  TextInv'
<1> DEFINE e == Head(wire)
<1>1. phase \in [Command -> Phases] /\ live \in [Run -> {None} \cup LiveRun]
  BY DEF GatewayInv, LiveRun
<1>2. RunsInv(runs, phase, live) /\ PhoneInv(Now, phase, live, published) /\ FramesInv
  BY DEF TextInv, PhoneInv, Now
<1>3. wire # <<>> /\ wire' = Tail(wire)
      /\ phase' = [phase EXCEPT ![e.cmd] = IF @ = "requested" THEN "answered" ELSE @]
      /\ UNCHANGED <<buffer, runs, ops, live, published>>
  BY DEF ReadResponse
<1>4. /\ e \in Frame /\ FrameOk(live, e)
      /\ wire' \in Seq(Frame) /\ \A i \in DOMAIN wire' : FrameOk(live, wire'[i])
  BY <1>2, <1>3, FrameRead
<1> HIDE DEF e
<1>5. e.cmd \in Command /\ (phase[e.cmd] \in {"done", "failed"} \/ Started(e.cmd))
  BY <1>2, <1>4 DEF Frame, FrameOk, Bearers, RunsInv, Started
<1>6. \A c \in Command : \/ phase'[c] = phase[c]
                         \/ c = e.cmd /\ phase[c] = "requested" /\ phase'[c] = "answered"
  BY <1>1, <1>3, <1>5
<1>7. \A r \in Run : live[r] # None => live[r].cmd \in Command
  BY <1>1 DEF LiveRun
<1>8. /\ Later(phase, live, phase', live) /\ Unanswered(phase, live, phase')
      /\ \A r \in Run : live[r] # None => Same(live, live, r)
  <2>1. \A c \in Command : phase[c] \in {"done", "failed"} => phase'[c] = phase[c]
    BY <1>6
  <2>2. Unanswered(phase, live, phase')
    BY <1>6, <1>7 DEF Unanswered
  <2>3. QED
    BY <2>1, <2>2, RunsStaySame
<1>9. RunsInv(runs, phase', live)
  BY <1>2, <1>6, <1>7 DEF RunsInv
<1>10. PhoneInv(Now, phase', live, published)
  BY <1>1, <1>2, <1>8, <1>9, PhoneGoesOn DEF Now
<1>11. FramesInv'
  BY <1>2, <1>3, <1>4, <1>5, <1>6 DEF FramesInv, Started
<1>12. QED
  BY <1>3, <1>10, <1>11 DEF TextInv, Now

LEMMA ReadEventStep ==
  ASSUME GatewayInv, TextInv, ReadEvent
  PROVE  TextInv'
<1> DEFINE e == Head(wire)
<1>1. live \in [Run -> {None} \cup LiveRun]
  BY DEF GatewayInv, LiveRun
<1>2. PhoneInv(Now, phase, live, published) /\ FramesInv
  BY DEF TextInv, PhoneInv, Now
<1>3. wire # <<>> /\ wire' = Tail(wire) /\ e.what # "response" /\ UNCHANGED <<phase, live, published>>
  BY DEF ReadEvent
<1>4. /\ e \in Frame /\ FrameOk(live, e)
      /\ wire' \in Seq(Frame) /\ \A i \in DOMAIN wire' : FrameOk(live, wire'[i])
  BY <1>2, <1>3, FrameRead
<1>5. e.what \in What
  BY <1>3, <1>4 DEF Frame
<1>6. CASE Hooks(phase) # {}
  <2>1. buffer' = Append(buffer, e) /\ UNCHANGED <<runs, ops>>
    BY <1>6 DEF ReadEvent
  <2> HIDE DEF e
  <2>2. buffer \in Seq(Frame) /\ \A x \in Entries(buffer) : FrameOk(live, x) /\ x.what \in What
    BY <1>2 DEF FramesInv, Entries
  <2>3. buffer' \in Seq(Frame) /\ Entries(buffer') = Entries(buffer) \cup {e}
    BY <1>4, <2>1, <2>2, AppendLeaves
  <2>4. \A x \in Entries(buffer') : FrameOk(live, x) /\ x.what \in What
    BY <1>4, <1>5, <2>2, <2>3
  <2>5. FramesInv'
    BY <1>2, <1>3, <1>4, <2>3, <2>4 DEF FramesInv, Entries, Started
  <2>6. QED
    BY <1>2, <1>3, <2>1, <2>5 DEF TextInv, Now
<1>7. CASE Hooks(phase) = {}
  <2> DEFINE s == HandleEach(Now, <<e>>)
  <2>1. HandleAll(runs, <<e>>) /\ buffer' = buffer
    BY <1>7 DEF ReadEvent
  <2>2. runs' = s.st /\ ops' = s.ops
    BY <2>1 DEF HandleAll, Now
  <2> HIDE DEF e
  <2>3. EventOk(phase, live, e)
    BY <1>1, <1>4, <1>5, <1>7, EventsAreOk
  <2>4. <<e>> \in Seq(Frame) /\ \A i \in DOMAIN <<e>> : <<e>>[i] = e
    BY <1>4
  <2>5. PhoneInv(s, phase, live, published)
    BY <1>1, <1>2, <2>3, <2>4, HandleEachKeeps
  <2> HIDE DEF s
  <2>6. FramesInv'
    BY <1>2, <1>3, <1>4, <2>1 DEF FramesInv, Started
  <2>7. QED
    BY <1>3, <2>2, <2>5, <2>6 DEF TextInv, PhoneInv
<1>8. QED
  BY <1>6, <1>7

\* The end of a step that releases what was held back.
LEMMA ReleaseStep ==
  ASSUME NEW st, GatewayInv, TextInv, Release(st), UNCHANGED <<live, published>>,
         PhoneInv([st |-> st, ops |-> ops], phase', live, published),
         wire' = wire \/ wire' = <<>>,
         \A c \in Command : phase'[c] = "answered" => phase[c] = "answered"
  PROVE  TextInv'
<1>1. live' \in [Run -> {None} \cup LiveRun]
  BY DEF GatewayInv, LiveRun
<1>2. FramesInv /\ PhoneInv([st |-> st, ops |-> ops], phase', live', published')
  BY DEF TextInv
<1>3. /\ PhoneInv(Now', phase', live', published')
      /\ buffer' \in Seq(Frame)
      /\ \A i \in DOMAIN buffer' : FrameOk(live', buffer'[i]) /\ buffer'[i].what \in What
  BY <1>1, <1>2, ReleaseKeeps
<1>4. wire' \in Seq(Frame) /\ \A i \in DOMAIN wire' : FrameOk(live', wire'[i])
  <2>1. wire \in Seq(Frame) /\ \A i \in DOMAIN wire : FrameOk(live, wire[i])
    BY <1>2 DEF FramesInv
  <2>2. <<>> \in Seq(Frame) /\ DOMAIN <<>> = {}
    OBVIOUS
  <2>3. CASE wire' = wire
    BY <2>1, <2>3
  <2>4. CASE wire' = <<>>
    BY <2>2, <2>4
  <2>5. QED
    BY <2>3, <2>4
<1>5. FramesInv'
  BY <1>2, <1>3, <1>4 DEF FramesInv, Started
<1>6. QED
  BY <1>3, <1>5 DEF TextInv, Now

LEMMA SettleStep ==
  ASSUME GatewayInv, TextInv, NEW c \in Command, Settle(c)
  PROVE  TextInv'
<1> DEFINE r == CHOOSE r \in Run : live[r] # None /\ live[r].cmd = c
           k == KeyOf[c]
           a == Register(runs, r, k)
           n == SetContext(a, r, k)
<1>1. phase \in [Command -> Phases] /\ live \in [Run -> {None} \cup LiveRun]
  BY DEF GatewayInv, LiveRun
<1>2. /\ RegistryInv(runs, phase, live) /\ RunsInv(runs, phase, live) /\ FramesInv
      /\ QueueInv(runs, phase, live, ops, published) /\ PublishedInv(runs, phase, live, published)
  BY DEF TextInv, PhoneInv
<1>3. phase[c] = "answered" /\ phase' = [phase EXCEPT ![c] = "done"] /\ Release(n)
      /\ UNCHANGED <<wire, live, published>>
  BY DEF Settle
<1>4. r \in Run /\ live[r] # None /\ live[r].cmd = c
  BY <1>2, <1>3 DEF FramesInv, Started
<1> HIDE DEF r
<1>5. \A q \in Run : live[q] # None /\ live[q].cmd = c => q = r
  BY <1>4 DEF GatewayInv, OneOwner
<1>6. \A q \in Run : live[q] # None => live[q].cmd \in Command
  BY <1>1 DEF LiveRun
<1>7. phase'[c] = "done" /\ \A d \in Command : d # c => phase'[d] = phase[d]
  BY <1>1, <1>3
<1>8. k \in Key \cup Run /\ Good(runs, phase, live, k, r)
  BY <1>4 DEF Good, Key
<1>9. /\ RegistryInv(a, phase, live) /\ Advances({r}, runs, a) /\ Seen(a, r)
      /\ \A y \in Entries(a.ids) : y.run = r => y.key = k /\ ~y.terminal
  <2>1. Knows(runs.ids, r) => r \in {r}
    OBVIOUS
  <2>2. RegistryInv(runs, phase, live) /\ Good(runs, phase, live, k, r) /\ k \in Key \cup Run
    BY <1>2, <1>8
  <2> HIDE DEF k
  <2> DEFINE X == {r}
  <2>3. Knows(runs.ids, r) => r \in X
    BY <2>1
  <2> HIDE DEF X
  <2>4. RegistryInv(a, phase, live) /\ Advances(X, runs, a) /\ Seen(a, r)
    BY <1>4, <2>2, <2>3, RegisterLeaves
  <2>5. \A y \in Entries(a.ids) : y.run = r => y.key = k /\ ~y.terminal
    BY <1>4, <2>2, <2>3, RegisterLeaves
  <2>6. QED
    BY <2>4, <2>5 DEF X
<1>10. Good(a, phase, live, k, r)
  BY <1>4 DEF Good
<1> HIDE DEF a
<1>11. /\ RegistryInv(n, phase, live) /\ n.ids = a.ids /\ n.out = a.out
       /\ \A y \in Entries(n.contexts) : y.run = r => y.key = k
  BY <1>4, <1>8, <1>9, <1>10, SetContextLeaves
<1> HIDE DEF n
<1>12. /\ Entries(n.ids) \subseteq Identity /\ Entries(n.contexts) \subseteq Context
       /\ Entries(runs.ids) \subseteq Identity
  BY <1>2, <1>11, RegistryTyped
<1>13. RegistryInv(n, phase', live)
  <2>1. ASSUME NEW z, NEW q \in Run, Good(n, phase, live, z, q), q = r => z = k
        PROVE  Good(n, phase', live, z, q)
    <3>1. CASE q = r
      BY <1>4, <2>1, <3>1 DEF Good
    <3>2. CASE q # r
      <4>1. phase'[live[q].cmd] = phase[live[q].cmd]
        BY <1>5, <1>6, <1>7, <2>1, <3>2 DEF Good
      <4>2. QED
        BY <2>1, <4>1 DEF Good
    <3>3. QED
      BY <3>1, <3>2
  <2>2. \A y \in Entries(n.ids) : Good(n, phase', live, y.key, y.run)
    <3>1. \A y \in Entries(n.ids) : y.run \in Run
      BY <1>12 DEF Identity
    <3>2. QED
      BY <1>9, <1>11, <2>1, <3>1 DEF RegistryInv
  <2>3. \A y \in Entries(n.contexts) : Good(n, phase', live, y.key, y.run)
    <3>1. \A y \in Entries(n.contexts) : y.run \in Run
      BY <1>12 DEF Context
    <3>2. QED
      BY <1>11, <2>1, <3>1 DEF RegistryInv
  <2>4. ASSUME NEW y \in Entries(n.ids), y.terminal
        PROVE  Ended(phase', live, y.run)
    <3>1. y.run \in Run /\ y.run # r /\ live[y.run] # None /\ Ended(phase, live, y.run)
      BY <1>9, <1>11, <1>12, <2>4 DEF RegistryInv, Identity, Good
    <3>2. phase'[live[y.run].cmd] = phase[live[y.run].cmd]
      BY <1>5, <1>6, <1>7, <3>1
    <3>3. QED
      BY <3>1, <3>2 DEF Ended
  <2>5. /\ n \in Registry /\ OneEach(n.ids) /\ \A q \in n.out : live[q] # None
        /\ \A y \in Entries(n.contexts) : Seen(n, y.run)
    BY <1>11 DEF RegistryInv
  <2>6. QED
    BY <2>2, <2>3, <2>4, <2>5 DEF RegistryInv
<1>14. Advances({r}, runs, n)
  BY <1>9, <1>11, AdvancesOnFields
<1>15. Seen(n, r)
  BY <1>9, <1>11 DEF Seen
<1>16. RunsInv(n, phase', live)
  <2>1. ASSUME NEW q \in Run, live[q] # None
        PROVE  /\ phase'[live[q].cmd] \in {"requested", "answered", "done", "failed"}
               /\ phase'[live[q].cmd] = "done" => Seen(n, q)
    <3>1. CASE q = r
      BY <1>4, <1>7, <1>15, <3>1
    <3>2. CASE q # r
      <4>1. phase'[live[q].cmd] = phase[live[q].cmd]
        BY <1>5, <1>6, <1>7, <2>1, <3>2
      <4>2. QED
        BY <1>2, <1>14, <2>1, <4>1 DEF RunsInv, Advances
    <3>3. QED
      BY <3>1, <3>2
  <2>2. \A q \in Run : live[q] # None =>
          \A d \in live[q].former : d \in Command /\ phase'[d] \in {"done", "failed"}
    BY <1>2, <1>7 DEF RunsInv
  <2>3. QED
    BY <1>2, <2>1, <2>2 DEF RunsInv
<1>17. \A o \in Op : OpInv(runs, phase, live, o) => (o.run \in {r} => ~Apart(live, o))
  BY <1>3, <1>4 DEF OpInv, Apart
<1>18. /\ Later(phase, live, phase', live)
       /\ \A q \in Run : live[q] # None => Same(live, live, q)
  <2>1. \A d \in Command : phase[d] \in {"done", "failed"} => phase'[d] = phase[d]
    BY <1>3, <1>7
  <2>2. QED
    BY <2>1, RunsStaySame
<1>19. QueueInv(n, phase', live, ops, published)
  <2>1. ASSUME NEW h \in Key \cup Run, NEW i \in DOMAIN ops[h]
        PROVE  /\ Same(live, live, ops[h][i].run)
               /\ ops[h][i].run \in {r} => ~Apart(live, ops[h][i])
    <3>1. ops[h][i] \in Op /\ OpInv(runs, phase, live, ops[h][i])
      BY <1>2, <2>1 DEF QueueInv, Queue
    <3>2. ops[h][i].run \in Run /\ live[ops[h][i].run] # None
      BY <3>1 DEF Op, OpInv
    <3>3. QED
      BY <1>17, <1>18, <3>1, <3>2
  <2>2. QueueInv(runs, phase', live, ops, published)
    BY <1>1, <1>2, <1>18, <2>1, QueueLater
  <2>3. QED
    BY <1>12, <1>14, <2>1, <2>2, QueueCarries
<1>20. PublishedInv(n, phase', live, published)
  <2>1. ASSUME NEW d \in Command, NEW i \in DOMAIN published[d]
        PROVE  published[d][i].run \in {r} => ~Apart(live, published[d][i])
    <3>1. published[d][i] \in Op /\ OpInv(runs, phase, live, published[d][i])
      BY <1>2, <2>1 DEF PublishedInv
    <3>2. QED
      BY <1>17, <3>1
  <2>2. PublishedInv(runs, phase', live, published)
    BY <1>1, <1>2, <1>18, PublishedLater
  <2>3. QED
    BY <1>12, <1>14, <2>1, <2>2, PublishedCarries
<1>21. PhoneInv([st |-> n, ops |-> ops], phase', live, published)
  BY <1>13, <1>16, <1>19, <1>20 DEF PhoneInv
<1>22. \A d \in Command : phase'[d] = "answered" => phase[d] = "answered"
  BY <1>7
<1>23. QED
  BY <1>3, <1>21, <1>22, ReleaseStep

\* Requests fail, one or all.
LEMMA FailureStep ==
  ASSUME GatewayInv, TextInv, phase' \in [Command -> Phases], UNCHANGED <<live, published>>,
         \A c \in Command : phase'[c] = phase[c] \/ (phase[c] = "requested" /\ phase'[c] = "failed")
  PROVE  PhoneInv(Now, phase', live, published)
<1>1. phase \in [Command -> Phases] /\ live \in [Run -> {None} \cup LiveRun]
  BY DEF GatewayInv, LiveRun
<1>2. RunsInv(runs, phase, live) /\ PhoneInv(Now, phase, live, published)
  BY DEF TextInv, PhoneInv, Now
<1>3. \A r \in Run : live[r] # None => live[r].cmd \in Command
  BY <1>1 DEF LiveRun
<1>4. /\ Later(phase, live, phase', live) /\ Unanswered(phase, live, phase')
      /\ \A r \in Run : live[r] # None => Same(live, live, r)
  <2>1. Unanswered(phase, live, phase')
    BY <1>3 DEF Unanswered
  <2>2. QED
    BY <2>1, RunsStaySame
<1>5. RunsInv(runs, phase', live)
  BY <1>2, <1>3 DEF RunsInv
<1>6. QED
  BY <1>1, <1>2, <1>4, <1>5, PhoneGoesOn DEF Now

LEMMA RequestFailsStep ==
  ASSUME GatewayInv, TextInv, NEW c \in Command, RequestFails(c)
  PROVE  TextInv'
<1>1. phase \in [Command -> Phases]
  BY DEF GatewayInv
<1>2. phase[c] = "requested" /\ phase' = [phase EXCEPT ![c] = "failed"] /\ Release(runs)
      /\ UNCHANGED <<wire, live, published>>
  BY DEF RequestFails
<1>3. /\ phase' \in [Command -> Phases]
      /\ \A d \in Command : phase'[d] = phase[d] \/ (phase[d] = "requested" /\ phase'[d] = "failed")
  BY <1>1, <1>2 DEF Phases
<1>4. PhoneInv(Now, phase', live, published)
  BY <1>2, <1>3, FailureStep
<1>5. \A d \in Command : phase'[d] = "answered" => phase[d] = "answered"
  BY <1>3
<1>6. QED
  BY <1>2, <1>4, <1>5, ReleaseStep DEF Now

LEMMA DropFails ==
  ASSUME GatewayInv, TextInv, Drop, UNCHANGED <<live, published>>
  PROVE  /\ PhoneInv(Now, phase', live, published) /\ wire' = <<>> /\ Hooks(phase') = {}
         /\ \A c \in Command : phase'[c] = "answered" => phase[c] = "answered"
<1>1. phase \in [Command -> Phases]
  BY DEF GatewayInv
<1>2. phase' = [c \in Command |-> IF phase[c] = "requested" THEN "failed" ELSE phase[c]] /\ wire' = <<>> /\ Quiet
  BY DEF Drop
<1>3. /\ phase' \in [Command -> Phases]
      /\ \A d \in Command : phase'[d] = phase[d] \/ (phase[d] = "requested" /\ phase'[d] = "failed")
      /\ \A d \in Command : phase'[d] \notin {"requested", "answered"}
  BY <1>1, <1>2 DEF Phases, Quiet
<1>4. PhoneInv(Now, phase', live, published)
  BY <1>3, FailureStep
<1>5. QED
  BY <1>2, <1>3, <1>4 DEF Hooks

LEMMA GatewayDropsStep ==
  ASSUME GatewayInv, TextInv, GatewayDrops
  PROVE  TextInv'
<1>1. Drop /\ Release(runs) /\ UNCHANGED <<live, published>>
  BY DEF GatewayDrops
<1>2. /\ PhoneInv(Now, phase', live, published) /\ wire' = <<>>
      /\ \A c \in Command : phase'[c] = "answered" => phase[c] = "answered"
  BY <1>1, DropFails
<1>3. QED
  BY <1>1, <1>2, ReleaseStep DEF Now

LEMMA RelayClosesStep ==
  ASSUME GatewayInv, TextInv, RelayCloses
  PROVE  TextInv'
<1> DEFINE z == [st |-> runs, ops |-> TextsForgotten(ops)]
           s == HandleEach(z, buffer)
           n == [s.st EXCEPT !.contexts = <<>>]
<1>1. Drop /\ UNCHANGED <<live, published>> /\ runs' = n /\ ops' = TextsForgotten(s.ops) /\ buffer' = <<>>
  BY DEF RelayCloses
<1>2. PhoneInv(Now, phase', live, published) /\ wire' = <<>> /\ Hooks(phase') = {}
      /\ \A c \in Command : phase'[c] = "answered" => phase[c] = "answered"
  BY <1>1, DropFails
<1>3. PhoneInv(z, phase', live, published)
  BY <1>2, ForgottenKeeps DEF PhoneInv, Now
<1>4. buffer \in Seq(Frame) /\ \A i \in DOMAIN buffer : FrameOk(live, buffer[i]) /\ buffer[i].what \in What
  BY DEF TextInv, FramesInv
<1>5. \A i \in DOMAIN buffer : EventOk(phase', live, buffer[i])
  <2>1. live \in [Run -> {None} \cup LiveRun]
    BY DEF GatewayInv, LiveRun
  <2>2. \A i \in DOMAIN buffer : buffer[i] \in Frame
    BY <1>4
  <2>3. QED
    BY <1>2, <1>4, <2>1, <2>2, EventsAreOk
<1> HIDE DEF z
<1>6. PhoneInv(s, phase', live, published)
  BY <1>3, <1>4, <1>5, HandleEachKeeps DEF GatewayInv
<1> HIDE DEF s
<1>7. RegistryInv(s.st, phase', live) /\ RunsInv(s.st, phase', live)
  BY <1>6 DEF PhoneInv
<1>8. <<>> \in Seq(Context) /\ Entries(<<>>) = {}
  BY DEF Entries
<1>9. RegistryInv(n, phase', live) /\ n.ids = s.st.ids /\ n.out = s.st.out
  BY <1>7, <1>8, ContextsLeave
<1> HIDE DEF n
<1>10. Advances({}, s.st, n)
  BY <1>9, RegistryTyped, AdvancesIsReflexive
<1>11. RunsInv(n, phase', live)
  BY <1>7, <1>10, RunsCarry
<1>12. PhoneInv([st |-> n, ops |-> s.ops], phase', live, published)
  BY <1>6, <1>9, <1>10, <1>11, PhoneCarries
<1>13. PhoneInv(Now', phase', live', published')
  BY <1>1, <1>12, ForgottenKeeps DEF PhoneInv, Now
<1>14. FramesInv'
  <2>1. <<>> \in Seq(Frame) /\ DOMAIN <<>> = {}
    OBVIOUS
  <2>2. QED
    BY <1>1, <1>2, <2>1 DEF FramesInv, TextInv, Started
<1>15. QED
  BY <1>13, <1>14 DEF TextInv, Now

\* What waits first is published, or found to have no text; what was said of
\* the run is forgotten if it has ended.
LEMMA SendStep ==
  ASSUME GatewayInv, TextInv, NEW k \in Key \cup Run, Send(k)
  PROVE  TextInv'
<1> DEFINE o == Head(ops[k])
           x == [Find(runs.ids, o.run) EXCEPT !.text = 0]
           n == IF o.what = "delta" THEN runs ELSE Update(runs, o.run, x)
           u == [ops EXCEPT ![k] = Tail(@)]
           w == [published EXCEPT ![o.cmd] = Append(@, o)]
           X == {z \in Run : live[z].mixed}
<1>1. /\ RegistryInv(runs, phase, live) /\ RunsInv(runs, phase, live) /\ FramesInv
      /\ QueueInv(runs, phase, live, ops, published) /\ PublishedInv(runs, phase, live, published)
  BY DEF TextInv, PhoneInv
<1>2. /\ ops[k] # <<>> /\ ops' = u /\ runs' = n
      /\ published' = w \/ published' = published
      /\ UNCHANGED <<phase, wire, buffer, live>>
  BY DEF Send, SetText
<1>3. ops \in Queue /\ ops[k] \in Seq(Op)
  BY <1>1 DEF QueueInv, Queue
<1>4. o \in Op /\ o = ops[k][1] /\ 1 \in DOMAIN ops[k]
  BY <1>2, <1>3
<1>5. o.key = k /\ OpInv(runs, phase, live, o) /\ (live[o.run].mixed \/ Apart(live, o))
  BY <1>1, <1>4 DEF QueueInv
<1>6. /\ u \in Queue /\ \A h \in Key \cup Run : h # k => u[h] = ops[h]
      /\ \A i \in DOMAIN u[k] : i \in Nat /\ i + 1 \in DOMAIN ops[k] /\ 1 < i + 1 /\ u[k][i] = ops[k][i + 1]
  <2>1. Tail(ops[k]) \in Seq(Op)
    BY <1>2, <1>3
  <2>2. \A i \in DOMAIN Tail(ops[k]) :
          i \in Nat /\ i + 1 \in DOMAIN ops[k] /\ 1 < i + 1 /\ Tail(ops[k])[i] = ops[k][i + 1]
    BY <1>2, <1>3
  <2>3. u[k] = Tail(ops[k]) /\ \A h \in Key \cup Run : h # k => u[h] = ops[h]
    BY <1>3 DEF Queue
  <2>4. u \in Queue
    BY <1>3, <2>1 DEF Queue
  <2>5. QED
    BY <2>2, <2>3, <2>4
<1>7. o.run \in Run /\ o.cmd \in Command /\ o.text \in Nat
  BY <1>4 DEF Op
<1> HIDE DEF o, u
<1>8. RegistryInv(n, phase, live) /\ RunsInv(n, phase, live) /\ Advances(X, runs, n)
  <2>1. CASE o.what = "delta"
    BY <1>1, <2>1, RegistryTyped, AdvancesIsReflexive
  <2>2. CASE o.what # "delta"
    <3>1. n = Update(runs, o.run, x)
      BY <2>2
    <3>2. Knows(runs.ids, o.run) =>
            /\ x \in Identity /\ x.run = o.run /\ x.key = Find(runs.ids, o.run).key
            /\ x.terminal => Ended(phase, live, o.run)
            /\ x.terminal \/ o.run \in runs.out \/ o.run \in X
      <4> SUFFICES ASSUME Knows(runs.ids, o.run)
                   PROVE  /\ x \in Identity /\ x.run = o.run /\ x.key = Find(runs.ids, o.run).key
                          /\ x.terminal => Ended(phase, live, o.run)
                          /\ x.terminal \/ o.run \in runs.out \/ o.run \in X
        OBVIOUS
      <4> DEFINE y == Find(runs.ids, o.run)
      <4>1. y \in Identity /\ y \in Entries(runs.ids) /\ y.run = o.run
        BY <1>1, KnownIsEntry, RegistryTyped
      <4>2. x = [y EXCEPT !.text = 0]
        OBVIOUS
      <4> HIDE DEF x, y
      <4>3. x \in Identity /\ x.run = o.run /\ x.key = y.key /\ x.terminal = y.terminal
        BY <4>1, <4>2 DEF Identity
      <4>4. y.terminal \/ o.run \in runs.out \/ o.run \in X
        BY <1>5, <1>7, <2>2, <4>1 DEF OpInv, Told
      <4>5. y.terminal => Ended(phase, live, o.run)
        BY <1>1, <4>1 DEF RegistryInv
      <4>6. QED
        BY <4>3, <4>4, <4>5 DEF y
    <3> HIDE DEF x, n
    <3>3. RegistryInv(n, phase, live) /\ \A q \in Run : Seen(n, q) <=> Seen(runs, q)
      BY <1>1, <1>7, <3>1, <3>2, UpdateLeaves
    <3>4. Advances(X, runs, n)
      BY <1>1, <1>7, <3>1, <3>2, UpdateAdvances
    <3>5. RunsInv(n, phase, live)
      BY <1>1, <3>4, RunsCarry
    <3>6. QED
      BY <3>3, <3>4, <3>5
  <2>3. QED
    BY <2>1, <2>2
<1> HIDE DEF n, x
<1>9. Entries(runs.ids) \subseteq Identity /\ Entries(n.ids) \subseteq Identity
  BY <1>1, <1>8, RegistryTyped
<1>10. \A h \in Key \cup Run : \A i \in DOMAIN u[h] :
         /\ u[h][i].key = h /\ OpInv(runs, phase, live, u[h][i])
         /\ live[u[h][i].run].mixed \/ Apart(live, u[h][i])
         /\ \A j \in DOMAIN u[h] : i < j => Grows(runs, live, u[h][i], u[h][j])
         /\ \A c \in Command : \A j \in DOMAIN published[c] :
              published[c][j].key = h => Grows(runs, live, published[c][j], u[h][i])
         /\ o.key = h => Grows(runs, live, o, u[h][i])
  <2> SUFFICES ASSUME NEW h \in Key \cup Run, NEW i \in DOMAIN u[h]
               PROVE  /\ u[h][i].key = h /\ OpInv(runs, phase, live, u[h][i])
                      /\ live[u[h][i].run].mixed \/ Apart(live, u[h][i])
                      /\ \A j \in DOMAIN u[h] : i < j => Grows(runs, live, u[h][i], u[h][j])
                      /\ \A c \in Command : \A j \in DOMAIN published[c] :
                           published[c][j].key = h => Grows(runs, live, published[c][j], u[h][i])
                      /\ o.key = h => Grows(runs, live, o, u[h][i])
    OBVIOUS
  <2>1. CASE h # k
    BY <1>1, <1>5, <1>6, <2>1 DEF QueueInv
  <2>2. CASE h = k
    <3> DEFINE m == i + 1
    <3>1. m \in DOMAIN ops[k] /\ 1 < m /\ u[h][i] = ops[k][m] /\ i \in Nat
      BY <1>6, <2>2
    <3>2. /\ ops[k][m].key = k /\ OpInv(runs, phase, live, ops[k][m])
          /\ live[ops[k][m].run].mixed \/ Apart(live, ops[k][m])
          /\ \A c \in Command : \A j \in DOMAIN published[c] :
               published[c][j].key = k => Grows(runs, live, published[c][j], ops[k][m])
      BY <1>1, <3>1 DEF QueueInv
    <3>3. Grows(runs, live, o, ops[k][m])
      BY <1>1, <1>4, <3>1 DEF QueueInv
    <3>4. ASSUME NEW j \in DOMAIN u[h], i < j
          PROVE  Grows(runs, live, u[h][i], u[h][j])
      <4>1. j \in Nat /\ j + 1 \in DOMAIN ops[k] /\ u[h][j] = ops[k][j + 1]
        BY <1>6, <2>2
      <4>2. m < j + 1
        BY <3>1, <3>4, <4>1
      <4> HIDE DEF m
      <4>3. Grows(runs, live, ops[k][m], ops[k][j + 1])
        BY <1>1, <3>1, <4>1, <4>2 DEF QueueInv
      <4>4. QED
        BY <3>1, <4>1, <4>3
    <3> HIDE DEF m
    <3>5. QED
      BY <2>2, <3>1, <3>2, <3>3, <3>4
  <2>3. QED
    BY <2>1, <2>2
<1>11. QueueInv(runs, phase, live, u, published) /\ PublishedInv(runs, phase, live, published)
  BY <1>1, <1>6, <1>10 DEF QueueInv
<1>12. QueueInv(runs, phase, live, u, w) /\ PublishedInv(runs, phase, live, w)
  <2> DEFINE c == o.cmd
             N == Len(published[c])
  <2>1. published \in [Command -> Seq(Op)] /\ published[c] \in Seq(Op)
    BY <1>1, <1>7 DEF PublishedInv
  <2>2. /\ w \in [Command -> Seq(Op)] /\ \A d \in Command : d # c => w[d] = published[d]
        /\ N \in Nat /\ DOMAIN published[c] = 1..N /\ DOMAIN w[c] = 1..(N + 1) /\ w[c][N + 1] = o
        /\ \A i \in 1..N : w[c][i] = published[c][i]
    BY <1>4, <1>7, <2>1
  <2> HIDE DEF w, N
  <2>3. \A i \in 1..(N + 1) : i \in 1..N \/ i = N + 1
    BY <2>2
  <2>4. ASSUME NEW d \in Command, NEW j \in DOMAIN w[d]
        PROVE  (j \in DOMAIN published[d] /\ w[d][j] = published[d][j]) \/ (d = c /\ j = N + 1 /\ w[d][j] = o)
    <3>1. CASE d # c
      BY <2>2, <2>4, <3>1
    <3>2. CASE d = c
      BY <2>2, <2>3, <2>4, <3>2
    <3>3. QED
      BY <3>1, <3>2
  <2>5. QueueInv(runs, phase, live, u, w)
    <3>1. ASSUME NEW h \in Key \cup Run, NEW i \in DOMAIN u[h], NEW d \in Command, NEW j \in DOMAIN w[d],
                 w[d][j].key = h
          PROVE  Grows(runs, live, w[d][j], u[h][i])
      BY <1>10, <2>4, <3>1
    <3>2. QED
      BY <1>6, <1>10, <3>1 DEF QueueInv
  <2>6. PublishedInv(runs, phase, live, w)
    <3>1. ASSUME NEW d \in Command, NEW i \in DOMAIN w[d]
          PROVE  w[d][i].cmd = d /\ OpInv(runs, phase, live, w[d][i])
      BY <1>1, <1>5, <2>4, <3>1 DEF PublishedInv
    <3>2. ASSUME NEW d \in Command, NEW i \in DOMAIN w[d], NEW j \in DOMAIN w[d], i < j,
                 w[d][i].key = w[d][j].key
          PROVE  Grows(runs, live, w[d][i], w[d][j])
      <4>1. CASE j \in DOMAIN published[d] /\ w[d][j] = published[d][j]
        <5>1. i \in DOMAIN published[d] /\ w[d][i] = published[d][i]
          <6>1. CASE d # c
            BY <2>2, <3>2, <6>1
          <6>2. CASE d = c
            <7>1. j \in 1..N
              BY <2>2, <4>1, <6>2
            <7>2. i \in 1..(N + 1) /\ i # N + 1
              BY <2>2, <3>2, <6>2, <7>1
            <7>3. QED
              BY <2>2, <2>3, <6>2, <7>2
          <6>3. QED
            BY <6>1, <6>2
        <5>2. QED
          BY <1>1, <3>2, <4>1, <5>1 DEF PublishedInv
      <4>2. CASE d = c /\ j = N + 1 /\ w[d][j] = o
        <5>1. i \in DOMAIN published[d] /\ w[d][i] = published[d][i]
          <6>1. i # N + 1
            BY <2>2, <3>2, <4>2
          <6>2. QED
            BY <2>4, <3>2, <6>1
        <5>2. published[d][i].key = k
          BY <1>5, <3>2, <4>2, <5>1
        <5>3. Grows(runs, live, published[d][i], ops[k][1])
          BY <1>1, <1>4, <5>1, <5>2 DEF QueueInv
        <5>4. QED
          BY <1>4, <4>2, <5>1, <5>3
      <4>3. QED
        BY <2>4, <4>1, <4>2
    <3>3. QED
      BY <2>2, <3>1, <3>2 DEF PublishedInv
  <2>7. QED
    BY <2>5, <2>6
<1> HIDE DEF w
<1>13. QueueInv(runs, phase, live, ops', published') /\ PublishedInv(runs, phase, live, published')
  BY <1>2, <1>11, <1>12
<1>14. QueueInv(n, phase, live, ops', published') /\ PublishedInv(n, phase, live, published')
  <2>1. \A z : z.run \in X => ~Apart(live, z)
    BY DEF Apart
  <2> HIDE DEF X
  <2>2. QueueInv(n, phase, live, ops', published')
    BY <1>8, <1>9, <1>13, <2>1, QueueCarries
  <2>3. PublishedInv(n, phase, live, published')
    BY <1>8, <1>9, <1>13, <2>1, PublishedCarries
  <2>4. QED
    BY <2>2, <2>3
<1>15. FramesInv'
  BY <1>1, <1>2 DEF FramesInv, Started
<1>16. QED
  BY <1>2, <1>8, <1>14, <1>15 DEF TextInv, PhoneInv

\* Steps that leave all this alone.
LEMMA StutterStep ==
  ASSUME TextInv, UNCHANGED <<phase, wire, buffer, runs, ops, live, published>>
  PROVE  TextInv'
<1>1. PhoneInv([st |-> runs, ops |-> ops], phase, live, published)' /\ FramesInv'
  BY DEF TextInv, FramesInv, Started
<1>2. QED
  BY <1>1 DEF TextInv

LEMMA CommandSteps ==
  ASSUME GatewayInv, TextInv, NEW c \in Command,
         Issue(c) \/ Join(c) \/ Subscribe(c) \/ Fails(c) \/ Request(c)
  PROVE  TextInv'
<1>1. CASE Issue(c)
  BY <1>1, PhaseStep DEF Issue
<1>2. CASE Join(c)
  <2>1. PICK d \in Command : phase[d] \in {"done", "failed"} /\ phase' = [phase EXCEPT ![c] = phase[d]]
    BY <1>2 DEF Join
  <2>2. phase[d] # "answered" /\ phase[c] = "joined" /\ UNCHANGED <<wire, buffer, runs, ops, live, published>>
    BY <1>2, <2>1 DEF Join
  <2>3. QED
    BY <2>1, <2>2, PhaseStep
<1>3. CASE Subscribe(c)
  BY <1>3, PhaseStep DEF Subscribe
<1>4. CASE Fails(c)
  BY <1>4, PhaseStep DEF Fails
<1>5. CASE Request(c)
  BY <1>5, PhaseStep DEF Request
<1>6. QED
  BY <1>1, <1>2, <1>3, <1>4, <1>5

LEMMA TextStep ==
  ASSUME GatewayInv, TextInv, [Next]_vars
  PROVE  TextInv'
<1>1. CASE UNCHANGED vars
  BY <1>1, StutterStep DEF vars
<1>2. CASE GatewayConnects
  BY <1>2, StutterStep DEF GatewayConnects
<1>3. ASSUME NEW s \in Session, Refresh(s)
      PROVE  TextInv'
  BY <1>3, StutterStep DEF Refresh
<1>4. QED
  BY <1>1, <1>2, <1>3, CommandSteps, AcceptStep, SettleStep, RequestFailsStep, RespondStep, EmitStep,
     ReadResponseStep, ReadEventStep, SendStep, AbortStep, GatewayDropsStep, RelayClosesStep DEF Next

LEMMA TextStarts == Init => TextInv
<1> SUFFICES ASSUME Init
             PROVE  TextInv
  OBVIOUS
<1>1. /\ wire = <<>> /\ buffer = <<>> /\ ops = [k \in Key \cup Run |-> <<>>]
      /\ published = [c \in Command |-> <<>>] /\ live = [r \in Run |-> None]
      /\ runs = [ids |-> <<>>, providers |-> [k \in Key \cup Run |-> None], contexts |-> <<>>, out |-> {}]
      /\ phase = [c \in Command |-> "new"]
  BY DEF Init
<1>2. <<>> \in Seq(Identity) /\ <<>> \in Seq(Context) /\ <<>> \in Seq(Op) /\ <<>> \in Seq(Frame)
      /\ DOMAIN <<>> = {} /\ Entries(<<>>) = {} /\ OneEach(<<>>)
  BY DEF Entries, OneEach
<1>3. RegistryInv(runs, phase, live)
  <2>1. runs \in Registry
    BY <1>1, <1>2 DEF Registry
  <2>2. runs.ids = <<>> /\ runs.contexts = <<>> /\ runs.out = {}
    BY <1>1
  <2>3. QED
    BY <1>2, <2>1, <2>2 DEF RegistryInv
<1>4. RunsInv(runs, phase, live)
  BY <1>1 DEF RunsInv
<1>5. QueueInv(runs, phase, live, ops, published)
  <2>1. ops \in Queue /\ \A k \in Key \cup Run : ops[k] = <<>>
    BY <1>1, <1>2 DEF Queue
  <2>2. QED
    BY <1>2, <2>1 DEF QueueInv
<1>6. PublishedInv(runs, phase, live, published)
  <2>1. published \in [Command -> Seq(Op)] /\ \A c \in Command : published[c] = <<>>
    BY <1>1, <1>2
  <2>2. QED
    BY <1>2, <2>1 DEF PublishedInv
<1>7. FramesInv
  BY <1>1, <1>2 DEF FramesInv
<1>8. QED
  BY <1>3, <1>4, <1>5, <1>6, <1>7 DEF TextInv, PhoneInv

LEMMA TextInvariance == Spec => [](GatewayInv /\ TextInv)
<1>1. Init => TextInv
  BY TextStarts
<1>2. GatewayInv /\ TextInv /\ [Next]_vars => TextInv'
  BY TextStep
<1>3. Spec => []GatewayInv
  BY GatewayInvariance
<1>4. QED
  BY <1>1, <1>2, <1>3, PTL DEF Spec

\* The key of what the phone gets of a run is that of the command that started
\* it, also when the Gateway gives the id of a run again, and no run is taken
\* for over because a former one of its id is; what is said otherwise is named
\* in RightKey (chat-run-identity.ts, relay-manager.ts).
THEOREM RunsAreApart == Spec => []RunsStayApart
<1>1. ASSUME TextInv
      PROVE  RightKey
  <2> SUFFICES ASSUME NEW c \in Command, NEW i \in DOMAIN published[c]
               PROVE  LET p == published[c][i] IN
                        \/ p.key = KeyOf[c]
                        \/ p.key = p.run /\ (phase[c] = "failed" \/ p.run \in runs.out)
                        \/ phase[c] = "failed" /\ p.key \in {KeyOf[d] : d \in live[p.run].former}
                        \/ live[p.run].mixed
    BY DEF RightKey
  <2>1. published[c][i].cmd = c /\ OpInv(runs, phase, live, published[c][i])
    BY <1>1 DEF TextInv, PhoneInv, PublishedInv
  <2>2. QED
    BY <2>1 DEF OpInv, Shown
<1>2. ASSUME TextInv
      PROVE  EndsAreOwn
  <2> SUFFICES ASSUME NEW r \in Run, live[r] # None, phase[live[r].cmd] = "done", ~live[r].over,
                      ~live[r].mixed, IsTerminal(runs, r)
               PROVE  FALSE
    BY DEF EndsAreOwn
  <2>1. RegistryInv(runs, phase, live)
    BY <1>2 DEF TextInv, PhoneInv
  <2>2. /\ Find(runs.ids, r) \in Entries(runs.ids) /\ Find(runs.ids, r).run = r
        /\ Find(runs.ids, r).terminal
    BY KnownIsEntry DEF IsTerminal
  <2>3. Ended(phase, live, r)
    BY <2>1, <2>2 DEF RegistryInv
  <2>4. QED
    BY <2>3 DEF Ended
<1>3. QED
  BY <1>1, <1>2, TextInvariance, PTL DEF RunsStayApart

\* The text of a run grows from one publication to the next and none follows
\* the end of the run, whatever was lost, held back or pushed out between, as
\* long as the run itself stays in the registry and nothing of a former run of
\* its id mixes with it.
THEOREM TextsGrow == Spec => []TextOnlyGrows
<1>1. ASSUME TextInv
      PROVE  TextOnlyGrows
  <2> SUFFICES ASSUME NEW c \in Command, NEW i \in DOMAIN published[c],
                      NEW j \in DOMAIN published[c],
                      i < j, published[c][i].key = published[c][j].key,
                      published[c][j].what = "delta", published[c][i].run \notin runs.out,
                      ~live[published[c][i].run].mixed
               PROVE  published[c][i].what = "delta" /\ published[c][i].text < published[c][j].text
    BY DEF TextOnlyGrows
  <2> DEFINE p == published[c][i]
             q == published[c][j]
  <2>1. /\ p.cmd = c /\ OpInv(runs, phase, live, p) /\ q.cmd = c /\ OpInv(runs, phase, live, q)
        /\ Grows(runs, live, p, q) /\ p \in Op /\ q \in Op
    BY <1>1 DEF TextInv, PhoneInv, PublishedInv
  <2>2. p.run \in Run /\ q.run \in Run
    BY <2>1 DEF Op
  <2>3. /\ live[p.run] # None /\ live[q.run] # None
        /\ c \in Bearers(live, p.run) /\ c \in Bearers(live, q.run)
    BY <2>1 DEF OpInv
  <2>4. p.run = q.run
    BY <1>1, <2>2, <2>3 DEF TextInv, PhoneInv, RunsInv
  <2>5. QED
    BY <2>1, <2>4 DEF Grows
<1>2. QED
  BY <1>1, TextInvariance, PTL
=============================================================================
