-------------------- MODULE LatestSnapshotCoalescerProofs --------------------
(***************************************************************************)
(* The order of the text and the operations of one key, for any number of  *)
(* snapshots, operations, retries and states, with clear and dispose       *)
(* anywhere.                                                               *)
(***************************************************************************)
EXTENDS LatestSnapshotCoalescer, SequenceTheorems, TLAPS

Jobs == Operation \cup {Drain}
Snapshots == [value : Nat, failures : 0..MaxRetries]
StateRecord ==
  [pending : Snapshots, timer : {"none", "coalesce", "compensation"}, draining : BOOLEAN,
   flushing : BOOLEAN, immediate : BOOLEAN, sending : Snapshots, line : Seq(Jobs)]

Shaped ==
  /\ states \in [State -> StateRecord] /\ current \in State \cup {NoState}
  /\ closed \in BOOLEAN /\ disposed \in BOOLEAN
  /\ latest \in Nat /\ progress \in [Operation -> {"new", "waiting", "running", "done"}]
  /\ mark \in [Operation -> Nat] /\ settled \in Nat /\ discarded \in Nat /\ emitted \in Nat
  /\ order \in Seq(Operation)

\* The line of a state has one drain where the code thinks it has one, and none
\* where it does not; only the drain at its head sends.
LineOK(t) ==
  /\ t.draining <=> \E p \in 1..Len(t.line) : t.line[p] = Drain
  /\ \A p, q \in 1..Len(t.line) : t.line[p] = Drain /\ t.line[q] = Drain => p = q
  /\ t.sending # NoSnapshot => t.line # <<>> /\ t.line[1] = Drain

\* The text a state holds, as the numbers of its snapshots.
Texts(t) == {x.value : x \in {t.pending, t.sending} \ {NoSnapshot}}

\* One state has all the text; it is the one in the map.
OneCarrier ==
  /\ \A r, s \in State : ~Quiet(states[r]) /\ ~Quiet(states[s]) => r = s
  /\ \A s \in State : ~Quiet(states[s]) /\ ~disposed => s = current

\* What has been emitted is not newer than what is left, and nothing is newer
\* than the latest.
Numbers ==
  /\ \A s \in State : \A v \in Texts(states[s]) : emitted <= v /\ v <= latest
  /\ emitted <= latest /\ discarded <= latest + 1
  /\ \A i \in Operation : mark[i] <= latest
  /\ disposed => discarded > latest

LastText(t) == IF HasPending(t) THEN t.pending.value ELSE t.sending.value

\* The latest text is settled, was dropped, or is what a state will send last.
LatestIsKnown ==
  settled >= latest \/ discarded > latest \/ \E s \in State : LastText(states[s]) = latest

\* The text that was there when an operation was requested is past.
Past(i) ==
  /\ settled >= mark[i] \/ discarded > mark[i]
  /\ ~disposed => \A s \in State : \A v \in Texts(states[s]) : v > mark[i]

DrainAhead(t, p) == \E q \in 1..(p - 1) : t.line[q] = Drain

\* An operation in line comes after that text, or behind a drain that does not
\* leave before it has been settled.
InItsPlace(t) ==
  \A p \in 1..Len(t.line), i \in Operation :
    t.line[p] = i =>
      progress[i] # "new" /\ (Past(i) \/ (DrainAhead(t, p) /\ Hurries(t)))

Barriers ==
  /\ \A s \in State : InItsPlace(states[s])
  /\ \A i \in Operation : Begun(i) => Past(i)

\* Everyone who was requested before the operation at a place of a line has
\* run or is before it in that line.
Behind(t) ==
  \A k \in 1..Len(order), q \in 1..Len(t.line) :
    t.line[q] = order[k] =>
      \A j \in 1..(k - 1) :
        progress[order[j]] = "done" \/ \E p \in 1..(q - 1) : t.line[p] = order[j]

InLine(i, t) == \E p \in 1..Len(t.line) : t.line[p] = i

Orders ==
  /\ \A k \in 1..Len(order) : progress[order[k]] # "new"
  /\ discarded = 0 =>
       /\ \A s \in State : s # current => states[s].line = <<>>
       /\ \A i \in Operation : progress[i] \in {"waiting", "running"} =>
            current # NoState /\ InLine(i, states[current])
       /\ \A s \in State : Behind(states[s])
       /\ OperationsInOrder

CoalescerInv ==
  /\ Shaped
  /\ \A s \in State : LineOK(states[s])
  /\ OneCarrier
  /\ Numbers
  /\ LatestIsKnown
  /\ Barriers
  /\ Orders

---------------------------------------------------------------------------
(* What the helpers do to a state                                          *)

LEMMA SnapshotValues ==
  /\ NoSnapshot \in Snapshots
  /\ \A n \in Nat : [value |-> n, failures |-> 0] \in Snapshots
  /\ \A n, f : [value |-> n, failures |-> f].value = n
  BY BoundsAreNatural DEF Snapshots, NoSnapshot

LEMMA FreshIsQuiet ==
  Fresh \in StateRecord /\ LineOK(Fresh) /\ Quiet(Fresh) /\ Fresh.line = <<>>
<1>1. <<>> \in Seq(Jobs)
  OBVIOUS
<1>2. Fresh \in StateRecord /\ Fresh.line = <<>> /\ ~Fresh.draining /\ Quiet(Fresh)
      /\ Fresh.sending = NoSnapshot
  BY <1>1, SnapshotValues DEF Fresh, StateRecord, Quiet, HasPending
<1>3. QED
  BY <1>2 DEF LineOK

\* A quiet state holds no text.
LEMMA QuietHoldsNothing ==
  ASSUME NEW t \in StateRecord, LineOK(t), Quiet(t)
  PROVE  /\ t.pending = NoSnapshot /\ t.sending = NoSnapshot /\ ~t.draining
         /\ Texts(t) = {} /\ LastText(t) = 0
<1>1. t.pending = NoSnapshot /\ ~t.draining
  BY DEF Quiet, HasPending
<1>2. t.sending = NoSnapshot
  <2>1. t.line # <<>> => Len(t.line) \in Nat /\ Len(t.line) > 0
    BY EmptySeq, LenProperties DEF StateRecord
  <2>2. QED
    BY <1>1, <2>1 DEF LineOK
<1>3. QED
  BY <1>1, <1>2 DEF Texts, LastText, HasPending, NoSnapshot

\* The texts of a state, and the last of them.
LEMMA TextsOf ==
  ASSUME NEW t \in StateRecord
  PROVE  /\ \A v \in Texts(t) : v \in Nat
         /\ HasPending(t) => t.pending.value \in Texts(t)
         /\ t.sending # NoSnapshot => t.sending.value \in Texts(t)
         /\ LastText(t) \in Nat
         /\ LastText(t) # 0 => HasPending(t) \/ t.sending # NoSnapshot
  BY DEF Texts, LastText, HasPending, StateRecord, Snapshots, NoSnapshot

\* A job joins the end of a line.
LEMMA Joins ==
  ASSUME NEW l \in Seq(Jobs), NEW j \in Jobs
  PROVE  /\ Append(l, j) \in Seq(Jobs)
         /\ Len(Append(l, j)) = Len(l) + 1 /\ Append(l, j)[Len(l) + 1] = j
         /\ \A p \in 1..Len(l) : Append(l, j)[p] = l[p]
         /\ Append(l, j) # <<>> /\ Len(l) \in Nat
  BY AppendProperties, LenProperties

\* The job at the head leaves its line.
LEMMA HeadLeaves ==
  ASSUME NEW l \in Seq(Jobs), l # <<>>
  PROVE  /\ Tail(l) \in Seq(Jobs) /\ Len(l) \in Nat /\ Len(l) > 0
         /\ Head(l) = l[1] /\ Len(Tail(l)) = Len(l) - 1
         /\ \A p \in 1..(Len(l) - 1) : Tail(l)[p] = l[p + 1]
  BY HeadTailProperties, EmptySeq, LenProperties

\* Cancelling a timer touches nothing else.
LEMMA CancelledEffect ==
  ASSUME NEW t \in StateRecord
  PROVE  /\ Cancelled(t) \in StateRecord /\ Cancelled(t).timer = "none"
         /\ Cancelled(t).pending = t.pending /\ Cancelled(t).sending = t.sending
         /\ Cancelled(t).line = t.line /\ Cancelled(t).draining = t.draining
         /\ Cancelled(t).flushing = t.flushing /\ Cancelled(t).immediate = t.immediate
  BY DEF Cancelled, StateRecord

\* A drain gets in line, if none is there.
LEMMA DrainedEffect ==
  ASSUME NEW t \in StateRecord, LineOK(t), NEW now \in BOOLEAN
  PROVE  /\ Drained(t, now) \in StateRecord /\ LineOK(Drained(t, now))
         /\ Drained(t, now).draining
         /\ Drained(t, now).pending = t.pending /\ Drained(t, now).sending = t.sending
         /\ Drained(t, now).timer = t.timer /\ Drained(t, now).flushing = t.flushing
         /\ t.draining => Drained(t, now) = t
         /\ ~t.draining => Drained(t, now).line = Append(t.line, Drain)
<1>1. CASE t.draining
  BY <1>1 DEF Drained
<1>2. CASE ~t.draining
  <2> DEFINE u == Drained(t, now)
  <2>1. t.line \in Seq(Jobs) /\ Drain \in Jobs
    BY DEF StateRecord, Jobs
  <2>2. /\ u \in StateRecord /\ u.draining /\ u.pending = t.pending /\ u.sending = t.sending
        /\ u.timer = t.timer /\ u.flushing = t.flushing /\ u.line = Append(t.line, Drain)
    BY <1>2, <2>1, Joins DEF Drained, StateRecord
  <2>3. t.sending = NoSnapshot /\ \A p \in 1..Len(t.line) : t.line[p] # Drain
    <3>1. \A p \in 1..Len(t.line) : t.line[p] # Drain
      BY <1>2 DEF LineOK
    <3>2. t.line # <<>> => Len(t.line) \in Nat /\ Len(t.line) > 0
      BY <2>1, HeadLeaves
    <3>3. QED
      BY <3>1, <3>2 DEF LineOK
  <2> HIDE DEF u
  <2>4. \A p \in 1..Len(u.line) : u.line[p] = Drain <=> p = Len(t.line) + 1
    BY <2>1, <2>2, <2>3, Joins
  <2>5. Len(t.line) + 1 \in 1..Len(u.line)
    BY <2>1, <2>2, Joins
  <2>6. LineOK(u)
    BY <2>2, <2>3, <2>4, <2>5 DEF LineOK
  <2>7. QED
    BY <1>2, <2>2, <2>6 DEF u
<1>3. QED
  BY <1>1, <1>2

\* A flush makes the drain that is there hurry, or gets one in line.
LEMMA FlushedEffect ==
  ASSUME NEW t \in StateRecord, LineOK(t)
  PROVE  /\ Flushed(t) \in StateRecord /\ LineOK(Flushed(t))
         /\ Flushed(t).pending = t.pending /\ Flushed(t).sending = t.sending
         /\ Flushed(t).timer = t.timer
         /\ Flushed(t).draining <=> t.draining \/ HasPending(t)
         /\ Flushed(t).draining => Hurries(Flushed(t))
         /\ t.draining \/ ~HasPending(t) => Flushed(t).line = t.line
         /\ ~t.draining /\ HasPending(t) => Flushed(t).line = Append(t.line, Drain)
<1>1. CASE t.draining
  <2>1. Flushed(t) = [t EXCEPT !.flushing = TRUE]
    BY <1>1 DEF Flushed
  <2>2. /\ Flushed(t) \in StateRecord /\ Flushed(t).flushing
        /\ Flushed(t).pending = t.pending /\ Flushed(t).sending = t.sending
        /\ Flushed(t).timer = t.timer /\ Flushed(t).draining = t.draining
        /\ Flushed(t).line = t.line
    BY <2>1 DEF StateRecord
  <2>3. LineOK(Flushed(t))
    BY <2>2 DEF LineOK
  <2>4. QED
    BY <1>1, <2>2, <2>3 DEF Hurries
<1>2. CASE ~t.draining /\ HasPending(t)
  <2> DEFINE u == [t EXCEPT !.flushing = TRUE]
  <2>1. /\ u \in StateRecord /\ u.flushing /\ u.pending = t.pending /\ u.sending = t.sending
        /\ u.timer = t.timer /\ u.draining = t.draining /\ u.line = t.line
    BY DEF StateRecord
  <2>2. Flushed(t) = Drained(u, TRUE)
    BY <1>2 DEF Flushed
  <2> HIDE DEF u
  <2>3. LineOK(u) /\ ~u.draining
    <3>1. ~u.draining
      BY <1>2, <2>1, Zenon
    <3>2. QED
      BY <2>1, <3>1 DEF LineOK
  <2> DEFINE w == Drained(u, TRUE)
  <2>4. /\ w \in StateRecord /\ LineOK(w) /\ w.draining
        /\ w.pending = u.pending /\ w.sending = u.sending /\ w.timer = u.timer
        /\ w.flushing = u.flushing /\ w.line = Append(u.line, Drain)
    BY <2>1, <2>3, DrainedEffect
  <2> HIDE DEF w
  <2>5. w.flushing
    BY <2>1, <2>4, Zenon
  <2>6. Flushed(t) = w
    BY <2>2 DEF w
  <2>7. /\ Flushed(t) \in StateRecord /\ LineOK(Flushed(t)) /\ Flushed(t).draining
        /\ Flushed(t).pending = t.pending /\ Flushed(t).sending = t.sending
        /\ Flushed(t).timer = t.timer /\ Flushed(t).flushing
        /\ Flushed(t).line = Append(t.line, Drain)
    BY <2>1, <2>4, <2>5, <2>6, Zenon
  <2>8. Hurries(Flushed(t))
    BY <2>7 DEF Hurries
  <2>9. QED
    BY <1>2, <2>7, <2>8
<1>3. CASE ~t.draining /\ ~HasPending(t)
  BY <1>3 DEF Flushed
<1>4. QED
  BY <1>1, <1>2, <1>3

\* What is left when the job at the head is over: after a drain there is none.
LEMMA LeavingEffect ==
  ASSUME NEW t \in StateRecord, t.line # <<>>, NEW d \in BOOLEAN, NEW u,
         u = [t EXCEPT !.line = Tail(@)], t.draining = d,
         \A p, q \in 1..Len(t.line) : t.line[p] = Drain /\ t.line[q] = Drain => p = q,
         d <=> \E p \in 2..Len(t.line) : t.line[p] = Drain,
         t.sending = NoSnapshot
  PROVE  /\ u \in StateRecord /\ LineOK(u)
         /\ u.pending = t.pending /\ u.sending = t.sending /\ u.timer = t.timer
         /\ u.draining = t.draining /\ u.flushing = t.flushing /\ u.immediate = t.immediate
         /\ u.line = Tail(t.line)
<1>1. t.line \in Seq(Jobs)
  BY DEF StateRecord
<1>2. /\ u \in StateRecord /\ u.pending = t.pending /\ u.sending = t.sending
      /\ u.timer = t.timer /\ u.draining = t.draining /\ u.flushing = t.flushing
      /\ u.immediate = t.immediate /\ u.line = Tail(t.line)
  BY <1>1, HeadLeaves DEF StateRecord
<1>3. /\ Len(t.line) \in Nat /\ Len(u.line) = Len(t.line) - 1
      /\ \A p \in 1..Len(u.line) : u.line[p] = t.line[p + 1]
  BY <1>1, <1>2, HeadLeaves
<1>4. u.draining <=> \E p \in 1..Len(u.line) : u.line[p] = Drain
  <2>1. ASSUME NEW p \in 2..Len(t.line), t.line[p] = Drain
        PROVE  \E q \in 1..Len(u.line) : u.line[q] = Drain
    <3>1. p - 1 \in 1..Len(u.line) /\ u.line[p - 1] = t.line[p]
      BY <1>3, <2>1
    <3>2. QED
      BY <2>1, <3>1
  <2>2. ASSUME NEW p \in 1..Len(u.line), u.line[p] = Drain
        PROVE  \E q \in 2..Len(t.line) : t.line[q] = Drain
    <3>1. p + 1 \in 2..Len(t.line) /\ t.line[p + 1] = Drain
      BY <1>3, <2>2
    <3>2. QED
      BY <3>1
  <2>3. QED
    BY <1>2, <2>1, <2>2
<1>5. ASSUME NEW p \in 1..Len(u.line), NEW q \in 1..Len(u.line),
             u.line[p] = Drain, u.line[q] = Drain
      PROVE  p = q
  <2>1. /\ p + 1 \in 1..Len(t.line) /\ q + 1 \in 1..Len(t.line)
        /\ t.line[p + 1] = Drain /\ t.line[q + 1] = Drain
    BY <1>3, <1>5
  <2>2. p + 1 = q + 1
    BY <2>1
  <2>3. QED
    BY <1>3, <2>2
<1>6. QED
  BY <1>2, <1>4, <1>5 DEF LineOK

---------------------------------------------------------------------------
(* What is kept when one state changes                                     *)

LEMMA CarrierKept ==
  ASSUME Shaped, OneCarrier, NEW s \in State, NEW t, states' = [states EXCEPT ![s] = t],
         disposed' = disposed,
         ~Quiet(t) => \A r \in State \ {s} : Quiet(states[r]),
         ~disposed /\ ~Quiet(t) => current' = s,
         \A r \in State \ {s} : ~disposed /\ ~Quiet(states[r]) => current' = r
  PROVE  OneCarrier'
<1>1. states'[s] = t /\ \A r \in State \ {s} : states'[r] = states[r]
  BY DEF Shaped
<1>2. QED
  BY <1>1 DEF OneCarrier

\* Where the change is no new text, or of the state in the map.
LEMMA OthersAreQuiet ==
  ASSUME Shaped, OneCarrier, NEW s \in State,
         ~Quiet(states[s]) \/ (~disposed /\ StateFor(s))
  PROVE  \A r \in State \ {s} : Quiet(states[r])
  BY DEF OneCarrier, StateFor, State, NoState

LEMMA PastKept ==
  ASSUME Shaped, Numbers, NEW s \in State, NEW t, states' = [states EXCEPT ![s] = t],
         NEW i \in Operation, mark'[i] = mark[i], settled' \in Nat, settled' >= settled,
         discarded' \in Nat, discarded' >= discarded, disposed' = disposed,
         \A v \in Texts(t) : v \in Texts(states[s]) \/ (v \in Nat /\ v > latest), Past(i)
  PROVE  Past(i)'
<1>1. states'[s] = t /\ \A r \in State \ {s} : states'[r] = states[r]
  BY DEF Shaped
<1>2. mark[i] \in Nat /\ latest \in Nat /\ mark[i] <= latest /\ settled \in Nat /\ discarded \in Nat
  BY DEF Shaped, Numbers
<1>3. settled' >= mark'[i] \/ discarded' > mark'[i]
  BY <1>2 DEF Past
<1>4. ASSUME ~disposed', NEW r \in State, NEW v \in Texts(states'[r])
      PROVE  v > mark'[i]
  <2>1. CASE r = s
    BY <1>1, <1>2, <1>4, <2>1 DEF Past
  <2>2. CASE r # s
    BY <1>1, <1>4, <2>2 DEF Past
  <2>3. QED
    BY <2>1, <2>2
<1>5. QED
  BY <1>3, <1>4 DEF Past

LEMMA BarriersKept ==
  ASSUME Shaped, Barriers, NEW s \in State, NEW t, states' = [states EXCEPT ![s] = t],
         \A i \in Operation : progress[i] # "new" /\ Past(i) => Past(i)',
         \A i \in Operation : progress[i] # "new" => progress'[i] # "new",
         \A i \in Operation : Begun(i)' => Begun(i) \/ Past(i)',
         \A p \in 1..Len(t.line), i \in Operation :
           t.line[p] = i =>
             progress'[i] # "new" /\ (Past(i)' \/ (DrainAhead(t, p) /\ Hurries(t)))
  PROVE  Barriers'
<1>1. states'[s] = t /\ \A r \in State \ {s} : states'[r] = states[r]
  BY DEF Shaped
<1>2. ASSUME NEW r \in State, NEW p \in 1..Len(states'[r].line), NEW i \in Operation,
             states'[r].line[p] = i
      PROVE  progress'[i] # "new"
             /\ (Past(i)' \/ (DrainAhead(states'[r], p) /\ Hurries(states'[r])))
  <2>1. CASE r = s
    BY <1>1, <1>2, <2>1
  <2>2. CASE r # s
    <3>1. states'[r] = states[r]
      BY <1>1, <2>2
    <3>2. progress[i] # "new" /\ (Past(i) \/ (DrainAhead(states[r], p) /\ Hurries(states[r])))
      BY <1>2, <3>1 DEF Barriers, InItsPlace
    <3>3. QED
      BY <3>1, <3>2
  <2>3. QED
    BY <2>1, <2>2
<1>3. \A i \in Operation : Begun(i)' => Past(i)'
  BY DEF Barriers, Begun
<1>4. QED
  BY <1>2, <1>3 DEF Barriers, InItsPlace, DrainAhead, Hurries

LEMMA NumbersKept ==
  ASSUME Shaped, Numbers, NEW s \in State, NEW t, states' = [states EXCEPT ![s] = t],
         disposed' = disposed, emitted' \in Nat, latest' \in Nat, discarded' \in Nat,
         latest' >= latest, emitted' <= latest', discarded <= discarded', discarded' <= latest' + 1,
         disposed => latest' = latest,
         \A v \in Texts(t) : emitted' <= v /\ v <= latest',
         emitted' = emitted \/ \A r \in State \ {s} : Texts(states[r]) = {},
         \A i \in Operation : mark'[i] = mark[i] \/ mark'[i] = latest
  PROVE  Numbers'
<1>1. states'[s] = t /\ \A r \in State \ {s} : states'[r] = states[r]
  BY DEF Shaped
<1>2. states \in [State -> StateRecord] /\ latest \in Nat /\ discarded \in Nat
  BY DEF Shaped
<1>3. ASSUME NEW r \in State, NEW v \in Texts(states'[r])
      PROVE  emitted' <= v /\ v <= latest'
  <2>1. CASE r = s
    BY <1>1, <1>3, <2>1
  <2>2. CASE r # s
    <3>1. v \in Texts(states[r]) /\ emitted' = emitted /\ v \in Nat
      BY <1>1, <1>2, <1>3, <2>2, TextsOf
    <3>2. QED
      BY <1>2, <3>1 DEF Numbers
  <2>3. QED
    BY <2>1, <2>2
<1>4. \A i \in Operation : mark[i] \in Nat /\ mark[i] <= latest
  BY DEF Shaped, Numbers
<1>5. \A i \in Operation : mark'[i] <= latest'
  BY <1>2, <1>4
<1>6. disposed' => discarded' > latest'
  <2>1. disposed => discarded > latest
    BY DEF Numbers
  <2>2. QED
    BY <1>2, <2>1
<1>7. QED
  BY <1>3, <1>5, <1>6 DEF Numbers

\* The latest text is where it was, unless there is a later one.
LEMMA LatestKept ==
  ASSUME Shaped, LatestIsKnown, NEW s \in State, NEW t, states' = [states EXCEPT ![s] = t],
         settled' \in Nat, discarded' \in Nat, settled' >= settled, discarded' >= discarded,
         \/ latest' = latest
            /\ (LastText(states[s]) = latest =>
                  LastText(t) = latest \/ settled' >= latest \/ discarded' > latest)
         \/ LastText(t) = latest'
  PROVE  LatestIsKnown'
<1>1. states'[s] = t /\ \A r \in State \ {s} : states'[r] = states[r]
  BY DEF Shaped
<1>2. latest \in Nat /\ settled \in Nat /\ discarded \in Nat
  BY DEF Shaped
<1>3. CASE LastText(t) = latest'
  BY <1>1, <1>3 DEF LatestIsKnown
<1>4. CASE /\ latest' = latest
           /\ (LastText(states[s]) = latest =>
                 LastText(t) = latest \/ settled' >= latest \/ discarded' > latest)
  <2>1. CASE settled >= latest \/ discarded > latest
    BY <1>2, <1>4, <2>1 DEF LatestIsKnown
  <2>2. ASSUME NEW r \in State, LastText(states[r]) = latest PROVE LatestIsKnown'
    BY <1>1, <1>4, <2>2 DEF LatestIsKnown
  <2>3. QED
    BY <2>1, <2>2 DEF LatestIsKnown
<1>5. QED
  BY <1>3, <1>4

\* If no state has anything to send, the latest text is settled or was dropped.
LEMMA NothingLeft ==
  ASSUME Shaped, \A r \in State : LineOK(states[r]), LatestIsKnown, Numbers,
         \A r \in State : ~disposed => Quiet(states[r]) \/ LastText(states[r]) = 0
  PROVE  settled >= latest \/ discarded > latest
<1>1. CASE disposed
  BY <1>1 DEF Numbers
<1>2. CASE ~disposed
  <2>1. \A r \in State : LastText(states[r]) = 0
    BY <1>2, QuietHoldsNothing DEF Shaped
  <2>2. latest \in Nat /\ settled \in Nat
    BY DEF Shaped
  <2>3. QED
    BY <2>1, <2>2 DEF LatestIsKnown
<1>3. QED
  BY <1>1, <1>2

---------------------------------------------------------------------------
(* The order of the operations                                             *)

\* After a clear nothing is promised of the order.
LEMMA OrdersDropped ==
  ASSUME Orders, discarded' \in Nat, discarded' > 0, UNCHANGED <<order, progress>>
  PROVE  Orders'
  BY DEF Orders

\* A state whose line stays, or gets a drain at its end.
LEMMA OrdersKept ==
  ASSUME Shaped, Orders, NEW s \in State, NEW t, states' = [states EXCEPT ![s] = t],
         t.line = states[s].line \/ t.line = Append(states[s].line, Drain),
         s = current' \/ t.line = states[s].line,
         \/ current' = current
         \/ current = NoState
         \/ current' = NoState /\ states[current].line = <<>>,
         UNCHANGED <<order, progress, discarded>>
  PROVE  Orders'
<1>1. states'[s] = t /\ \A r \in State \ {s} : states'[r] = states[r]
  BY DEF Shaped
<1>2. /\ order \in Seq(Operation) /\ states[s].line \in Seq(Jobs) /\ Drain \notin Operation
      /\ Len(order) \in Nat
      /\ \A k \in 1..Len(order) : order[k] \in Operation
  BY ClosingOperations, LenProperties, ElementOfSeq DEF Shaped, StateRecord
<1>3. /\ Len(states[s].line) \in Nat /\ Len(states[s].line) <= Len(t.line)
      /\ \A p \in 1..Len(states[s].line) : t.line[p] = states[s].line[p]
      /\ \A p \in 1..Len(t.line) : t.line[p] \in Operation => p \in 1..Len(states[s].line)
  <2>1. CASE t.line = states[s].line
    BY <1>2, <2>1, LenProperties
  <2>2. CASE t.line = Append(states[s].line, Drain)
    BY <1>2, <2>2, Joins DEF Jobs
  <2>3. QED
    BY <1>1, <2>1, <2>2
<1>4. SUFFICES ASSUME discarded = 0
      PROVE  /\ \A r \in State : r # current' => states'[r].line = <<>>
             /\ \A i \in Operation : progress[i] \in {"waiting", "running"} =>
                  current' # NoState /\ InLine(i, states'[current'])
             /\ \A r \in State : Behind(states[r])'
             /\ OperationsInOrder'
  BY DEF Orders, Behind
<1>5. ASSUME NEW r \in State, r # current' PROVE states'[r].line = <<>>
  <2>1. r # current => states[r].line = <<>>
    BY <1>4 DEF Orders
  <2>2. states'[r].line = states[r].line
    BY <1>1, <1>5
  <2>3. r = current => states[r].line = <<>>
    BY <1>5 DEF State, NoState
  <2>4. QED
    BY <2>1, <2>2, <2>3
<1>6. ASSUME NEW i \in Operation, progress[i] \in {"waiting", "running"}
      PROVE  current' # NoState /\ InLine(i, states'[current'])
  <2>1. current # NoState /\ InLine(i, states[current])
    BY <1>4, <1>6 DEF Orders
  <2>2. states[current].line # <<>>
    BY <2>1, EmptySeq DEF InLine
  <2>3. current' = current /\ current \in State
    BY <2>1, <2>2 DEF Shaped
  <2>4. PICK p \in 1..Len(states[current].line) : states[current].line[p] = i
    BY <2>1 DEF InLine
  <2>5. p \in 1..Len(states'[current].line) /\ states'[current].line[p] = i
    BY <1>1, <1>3, <2>3, <2>4
  <2>6. QED
    BY <2>1, <2>3, <2>5 DEF InLine
<1>7. ASSUME NEW r \in State PROVE Behind(states[r])'
  <2>1. Behind(states[r])
    BY <1>4 DEF Orders
  <2>2. CASE r # s
    BY <1>1, <2>1, <2>2 DEF Behind
  <2>3. CASE r = s
    <3>1. ASSUME NEW k \in 1..Len(order), NEW q \in 1..Len(t.line), t.line[q] = order[k],
                 NEW j \in 1..(k - 1), progress[order[j]] # "done"
          PROVE  \E p \in 1..(q - 1) : t.line[p] = order[j]
      <4>1. q \in 1..Len(states[s].line) /\ states[s].line[q] = order[k]
        BY <1>2, <1>3, <3>1
      <4>2. PICK p \in 1..(q - 1) : states[s].line[p] = order[j]
        BY <2>1, <2>3, <3>1, <4>1 DEF Behind
      <4>3. p \in 1..Len(states[s].line)
        BY <1>3, <4>1
      <4>4. QED
        BY <1>3, <4>2, <4>3
    <3>2. QED
      BY <1>1, <2>3, <3>1 DEF Behind
  <2>4. QED
    BY <2>2, <2>3
<1>8. OperationsInOrder'
  BY <1>4 DEF Orders, OperationsInOrder, Begun
<1>9. QED
  BY <1>5, <1>6, <1>7, <1>8

LEMMA LongIsNotEmpty == \A l \in Seq(Jobs) : Len(l) > 0 => l # <<>>
  OBVIOUS

\* The job at the head of a line is over.
LEMMA OrdersLeft ==
  ASSUME Shaped, Orders, NEW s \in State, NEW t, states' = [states EXCEPT ![s] = t],
         t.line \in Seq(Jobs), Len(states[s].line) > 0,
         Len(t.line) = Len(states[s].line) - 1,
         \A p \in 1..Len(t.line) : t.line[p] = states[s].line[p + 1],
         \/ states[s].line[1] = Drain /\ progress' = progress
         \/ states[s].line[1] \in Operation
            /\ progress[states[s].line[1]] = "running"
            /\ progress' = [progress EXCEPT ![states[s].line[1]] = "done"],
         current' = current \/ (s = current /\ current' = NoState /\ t.line = <<>>),
         UNCHANGED <<order, discarded>>
  PROVE  Orders'
<1> DEFINE l == states[s].line
<1>1. states'[s] = t /\ \A r \in State \ {s} : states'[r] = states[r]
  BY DEF Shaped
<1>2. /\ order \in Seq(Operation) /\ l \in Seq(Jobs) /\ Drain \notin Operation
      /\ Len(order) \in Nat
      /\ \A k \in 1..Len(order) : order[k] \in Operation
  BY ClosingOperations, LenProperties, ElementOfSeq DEF Shaped, StateRecord
<1>3. /\ Len(l) \in Nat /\ Len(l) > 0 /\ Len(t.line) = Len(l) - 1
      /\ \A p \in 1..(Len(l) - 1) : t.line[p] = l[p + 1]
  BY <1>2, LenProperties
<1>4. /\ \A i \in Operation : progress'[i] # "new" <=> progress[i] # "new"
      /\ \A i \in Operation : progress[i] = "done" => progress'[i] = "done"
      /\ \A i \in Operation : l[1] = i => progress'[i] = "done"
      /\ \A i \in Operation : l[1] # i => progress'[i] = progress[i]
      /\ \A i \in Operation : Begun(i)' => Begun(i)
  BY <1>2 DEF Shaped, Begun
<1> HIDE DEF l
<1>5. SUFFICES ASSUME discarded = 0
      PROVE  /\ \A r \in State : r # current' => states'[r].line = <<>>
             /\ \A i \in Operation : progress'[i] \in {"waiting", "running"} =>
                  current' # NoState /\ InLine(i, states'[current'])
             /\ \A r \in State : Behind(states[r])'
             /\ OperationsInOrder'
  BY <1>2, <1>4 DEF Orders, Behind
<1>6. s = current
  BY <1>5 DEF Orders
<1>7. ASSUME NEW r \in State, r # current' PROVE states'[r].line = <<>>
  <2>1. CASE r = s
    BY <1>1, <1>6, <1>7, <2>1
  <2>2. CASE r # s
    <3>1. states'[r] = states[r] /\ states[r].line = <<>>
      BY <1>1, <1>5, <1>6, <2>2 DEF Orders
    <3>2. QED
      BY <3>1
  <2>3. QED
    BY <2>1, <2>2
<1>8. ASSUME NEW i \in Operation, progress'[i] \in {"waiting", "running"}
      PROVE  current' # NoState /\ InLine(i, states'[current'])
  <2>1. l[1] # i /\ progress[i] \in {"waiting", "running"}
    BY <1>4, <1>8
  <2>2. PICK p \in 1..Len(l) : l[p] = i
    BY <1>5, <1>6, <2>1 DEF Orders, InLine, l
  <2>3. p - 1 \in 1..Len(t.line) /\ t.line[p - 1] = i
    BY <1>3, <2>1, <2>2
  <2>4. t.line # <<>>
    <3>1. Len(t.line) > 0
      BY <1>3, <2>2, <2>3
    <3>2. QED
      BY <3>1, LongIsNotEmpty
  <2>5. current' = s /\ s # NoState
    BY <1>6, <2>4 DEF State, NoState
  <2>6. QED
    BY <1>1, <2>3, <2>5 DEF InLine
<1>9. ASSUME NEW r \in State PROVE Behind(states[r])'
  <2>1. Behind(states[r])
    BY <1>5 DEF Orders
  <2>2. CASE r # s
    <3>1. states'[r] = states[r] /\ order' = order
      BY <1>1, <2>2
    <3>2. \A k \in 1..Len(order), j \in 1..Len(order) :
            progress[order[j]] = "done" => progress'[order[j]] = "done"
      BY <1>2, <1>4
    <3>3. ASSUME NEW k \in 1..Len(order), NEW q \in 1..Len(states[r].line),
                 states[r].line[q] = order[k], NEW j \in 1..(k - 1)
          PROVE  progress'[order[j]] = "done"
                 \/ \E p \in 1..(q - 1) : states[r].line[p] = order[j]
      <4>1. j \in 1..Len(order)
        BY <1>2
      <4>2. QED
        BY <2>1, <3>2, <3>3, <4>1 DEF Behind
    <3>4. QED
      BY <3>1, <3>3 DEF Behind
  <2>3. CASE r = s
    <3>1. ASSUME NEW k \in 1..Len(order), NEW q \in 1..Len(t.line), t.line[q] = order[k],
                 NEW j \in 1..(k - 1), progress'[order[j]] # "done"
          PROVE  \E p \in 1..(q - 1) : t.line[p] = order[j]
      <4>1. j \in 1..Len(order) /\ order[j] \in Operation
        BY <1>2, <3>1
      <4>2. l[1] # order[j] /\ progress[order[j]] # "done"
        BY <1>4, <3>1, <4>1
      <4>3. q + 1 \in 1..Len(l) /\ l[q + 1] = order[k]
        BY <1>3, <3>1
      <4>4. PICK p \in 1..((q + 1) - 1) : l[p] = order[j]
        BY <2>1, <2>3, <3>1, <4>2, <4>3 DEF Behind, l
      <4>5. p # 1 /\ q \in Nat /\ q <= Len(l) - 1
        BY <1>3, <4>2, <4>4
      <4>6. p - 1 \in 1..(q - 1) /\ p - 1 \in 1..(Len(l) - 1)
        BY <1>3, <4>4, <4>5
      <4>7. t.line[p - 1] = order[j]
        BY <1>3, <4>4, <4>5, <4>6
      <4>8. QED
        BY <4>6, <4>7
    <3>2. states'[r] = t /\ order' = order
      BY <1>1, <2>3
    <3>3. ASSUME NEW k \in 1..Len(order'), NEW q \in 1..Len(states'[r].line),
                 states'[r].line[q] = order'[k], NEW j \in 1..(k - 1)
          PROVE  progress'[order'[j]] = "done"
                 \/ \E p \in 1..(q - 1) : states'[r].line[p] = order'[j]
      <4>1. /\ k \in 1..Len(order) /\ q \in 1..Len(t.line) /\ t.line[q] = order[k]
            /\ order'[j] = order[j]
        BY <3>2, <3>3
      <4>2. progress'[order[j]] = "done" \/ \E p \in 1..(q - 1) : t.line[p] = order[j]
        BY <3>1, <4>1
      <4>3. QED
        BY <3>2, <4>1, <4>2
    <3>4. QED
      BY <3>3 DEF Behind
  <2>4. QED
    BY <2>2, <2>3
<1>10. OperationsInOrder'
  <2>1. ASSUME NEW j \in 1..Len(order), Begun(order[j])', NEW k \in 1..(j - 1)
        PROVE  progress'[order[k]] = "done"
    <3>1. order[j] \in Operation /\ order[k] \in Operation
      BY <1>2, <2>1
    <3>2. Begun(order[j])
      <4>1. \A i \in Operation : Begun(i)' => Begun(i)
        BY <1>4
      <4>2. QED
        BY <2>1, <3>1, <4>1 DEF Begun
    <3>3. progress[order[k]] = "done"
      BY <1>2, <1>5, <2>1, <3>2 DEF Orders, OperationsInOrder
    <3>4. QED
      BY <1>4, <3>1, <3>3
  <2>2. DOMAIN order = 1..Len(order)
    BY <1>2, LenProperties
  <2>3. QED
    BY <2>1, <2>2 DEF OperationsInOrder, Begun
<1>11. QED
  BY <1>7, <1>8, <1>9, <1>10

\* An operation is requested: everyone before it has run or is in the line it
\* joins.
LEMMA OrdersRequested ==
  ASSUME Shaped, Orders, NEW s \in State, NEW t, states' = [states EXCEPT ![s] = t],
         NEW i \in Operation, progress[i] = "new",
         t.line \in Seq(Jobs), Len(states[s].line) < Len(t.line), t.line[Len(t.line)] = i,
         \A p \in 1..Len(states[s].line) : states[s].line[p] # i,
         \A p \in 1..Len(states[s].line) : t.line[p] = states[s].line[p],
         \A p \in (Len(states[s].line) + 1)..(Len(t.line) - 1) : t.line[p] = Drain,
         current = s \/ (current = NoState /\ current' = s), current' = s,
         progress' = [progress EXCEPT ![i] = "waiting"], order' = Append(order, i),
         UNCHANGED discarded
  PROVE  Orders'
<1> DEFINE l == states[s].line
           m == Len(order)
<1>1. states'[s] = t /\ \A r \in State \ {s} : states'[r] = states[r]
  BY DEF Shaped
<1>2. /\ l \in Seq(Jobs) /\ Drain \notin Operation /\ m \in Nat
      /\ Len(l) \in Nat /\ Len(t.line) \in Nat
      /\ \A k \in 1..m : order[k] \in Operation
  BY ClosingOperations, LenProperties, ElementOfSeq DEF Shaped, StateRecord
<1>3. /\ Len(order') = m + 1 /\ order'[m + 1] = i
      /\ \A k \in 1..m : order'[k] = order[k]
  BY AppendProperties DEF Shaped
<1>4. \A k \in 1..m : progress[order[k]] # "new" /\ order[k] # i
  BY DEF Orders
<1>5. /\ progress'[i] = "waiting"
      /\ \A j \in Operation : j # i => progress'[j] = progress[j]
  BY DEF Shaped
<1>6. \A k \in 1..Len(order') : progress'[order'[k]] # "new"
  <2>1. ASSUME NEW k \in 1..Len(order') PROVE progress'[order'[k]] # "new"
    <3>1. CASE k = m + 1
      BY <1>3, <1>5, <3>1
    <3>2. CASE k # m + 1
      <4>1. k \in 1..m
        BY <1>2, <1>3, <2>1, <3>2
      <4>2. order'[k] = order[k] /\ order[k] \in Operation /\ order[k] # i
            /\ progress[order[k]] # "new"
        BY <1>2, <1>3, <1>4, <4>1
      <4>3. QED
        BY <1>5, <4>2
    <3>3. QED
      BY <3>1, <3>2
  <2>2. QED
    BY <2>1
<1> HIDE DEF l, m
<1>7. SUFFICES ASSUME discarded = 0
      PROVE  /\ \A r \in State : r # current' => states'[r].line = <<>>
             /\ \A j \in Operation : progress'[j] \in {"waiting", "running"} =>
                  current' # NoState /\ InLine(j, states'[current'])
             /\ \A r \in State : Behind(states[r])'
             /\ OperationsInOrder'
  BY <1>6 DEF Orders
<1>8. s # NoState /\ states'[current'] = t /\ current' = s
  BY <1>1 DEF State, NoState
<1>9. ASSUME NEW r \in State, r # s PROVE states'[r].line = <<>>
  <2>1. states'[r] = states[r] /\ r # current
    BY <1>1, <1>9 DEF State, NoState
  <2>2. states[r].line = <<>>
    BY <1>7, <2>1 DEF Orders
  <2>3. QED
    BY <2>1, <2>2
<1>10. ASSUME NEW j \in Operation, progress[j] \in {"waiting", "running"}
       PROVE  \E p \in 1..Len(l) : l[p] = j
  <2>1. current # NoState /\ InLine(j, states[current])
    BY <1>7, <1>10 DEF Orders
  <2>2. current = s
    BY <2>1
  <2>3. QED
    BY <2>1, <2>2 DEF InLine, l
<1>11. ASSUME NEW j \in Operation, progress'[j] \in {"waiting", "running"}
       PROVE  InLine(j, states'[current'])
  <2>1. CASE j = i
    <3>1. Len(t.line) \in 1..Len(t.line) /\ t.line[Len(t.line)] = j
      BY <1>2, <2>1 DEF l
    <3>2. QED
      BY <1>8, <3>1 DEF InLine
  <2>2. CASE j # i
    <3>1. PICK p \in 1..Len(l) : l[p] = j
      BY <1>5, <1>10, <1>11, <2>2
    <3>2. p \in 1..Len(t.line) /\ t.line[p] = j
      BY <1>2, <3>1 DEF l
    <3>3. QED
      BY <1>8, <3>2 DEF InLine
  <2>3. QED
    BY <2>1, <2>2
<1>12. ASSUME NEW k \in 1..Len(order'), NEW q \in 1..Len(t.line), t.line[q] = order'[k],
              NEW j \in 1..(k - 1), progress'[order'[j]] # "done"
       PROVE  \E p \in 1..(q - 1) : t.line[p] = order'[j]
  <2>1. j \in 1..m /\ order'[j] = order[j] /\ order[j] \in Operation /\ order[j] # i
    BY <1>2, <1>3, <1>4
  <2>2. progress[order[j]] \in {"waiting", "running"}
    BY <1>4, <1>5, <1>12, <2>1 DEF Shaped
  <2>3. CASE k = m + 1
    <3>1. PICK p \in 1..Len(l) : l[p] = order[j]
      BY <1>10, <2>1, <2>2
    <3>2. q > Len(l)
      <4>1. CASE q \in 1..Len(l)
        <5>1. l[q] = i
          BY <1>3, <1>12, <2>3, <4>1 DEF l
        <5>2. QED
          BY <4>1, <5>1 DEF l
      <4>2. QED
        BY <1>2, <4>1
    <3>3. QED
      BY <1>2, <2>1, <3>1, <3>2 DEF l
  <2>4. CASE k # m + 1
    <3>1. k \in 1..m /\ order'[k] = order[k] /\ order[k] \in Operation /\ order[k] # i
      BY <1>2, <1>3, <1>4, <2>4
    <3>2. q \in 1..Len(l)
      <4>1. t.line[q] = order[k]
        BY <1>12, <3>1
      <4>2. q # Len(t.line)
        BY <3>1, <4>1
      <4>3. q \notin (Len(l) + 1)..(Len(t.line) - 1)
        BY <1>2, <3>1, <4>1 DEF l
      <4>4. QED
        BY <1>2, <4>2, <4>3
    <3>3. l[q] = order[k] /\ Behind(states[s])
      BY <1>7, <1>12, <3>1, <3>2 DEF Orders, l
    <3>4. \E p \in 1..(q - 1) : l[p] = order[j]
      BY <2>1, <2>2, <3>1, <3>2, <3>3 DEF Behind, l, m
    <3>5. PICK p \in 1..(q - 1) : l[p] = order[j]
      BY <3>4
    <3>6. p \in 1..Len(l)
      BY <1>2, <3>2
    <3>7. t.line[p] = l[p]
      BY <3>6 DEF l
    <3>8. QED
      BY <2>1, <3>5, <3>7
  <2>5. QED
    BY <2>3, <2>4
<1>13. ASSUME NEW r \in State PROVE Behind(states[r])'
  <2>1. CASE r = s
    <3>1. states'[r] = t
      BY <1>1, <2>1
    <3>2. ASSUME NEW k \in 1..Len(order'), NEW q \in 1..Len(states'[r].line),
                 states'[r].line[q] = order'[k], NEW j \in 1..(k - 1)
          PROVE  progress'[order'[j]] = "done"
                 \/ \E p \in 1..(q - 1) : states'[r].line[p] = order'[j]
      <4>1. q \in 1..Len(t.line) /\ t.line[q] = order'[k]
        BY <3>1, <3>2
      <4>2. progress'[order'[j]] = "done" \/ \E p \in 1..(q - 1) : t.line[p] = order'[j]
        BY <1>12, <3>2, <4>1
      <4>3. QED
        BY <3>1, <4>2
    <3>3. QED
      BY <3>2 DEF Behind
  <2>2. CASE r # s
    <3>1. 1..Len(states'[r].line) = {}
      BY <1>9, <2>2, EmptySeq
    <3>2. QED
      BY <3>1 DEF Behind
  <2>3. QED
    BY <2>1, <2>2
<1>14. OperationsInOrder'
  <2>1. ASSUME NEW j \in 1..Len(order'), progress'[order'[j]] \in {"running", "done"},
               NEW k \in 1..(j - 1)
        PROVE  progress'[order'[k]] = "done"
    <3>1. j # m + 1
      BY <1>3, <1>5, <2>1
    <3>2. /\ j \in 1..m /\ k \in 1..m /\ order'[j] = order[j] /\ order'[k] = order[k]
          /\ order[j] \in Operation /\ order[k] \in Operation /\ order[j] # i /\ order[k] # i
      BY <1>2, <1>3, <1>4, <2>1, <3>1
    <3>3. Begun(order[j])
      BY <1>5, <2>1, <3>2 DEF Begun
    <3>4. progress[order[k]] = "done"
      <4>1. DOMAIN order = 1..m
        BY LenProperties DEF Shaped, m
      <4>2. QED
        BY <1>7, <2>1, <3>2, <3>3, <4>1 DEF Orders, OperationsInOrder
    <3>5. QED
      BY <1>5, <3>2, <3>4
  <2>2. DOMAIN order' = 1..Len(order')
    BY AppendProperties, LenProperties DEF Shaped
  <2>3. QED
    BY <2>1, <2>2 DEF OperationsInOrder, Begun
<1>15. QED
  BY <1>8, <1>9, <1>11, <1>13, <1>14

\* The operation at the head of its line begins.
LEMMA OrdersBegun ==
  ASSUME Shaped, Orders, NEW s \in State, NEW i \in Operation,
         Len(states[s].line) > 0, states[s].line[1] = i, progress[i] = "waiting",
         progress' = [progress EXCEPT ![i] = "running"],
         UNCHANGED <<states, current, order, discarded>>
  PROVE  Orders'
<1>1. /\ progress'[i] = "running"
      /\ \A j \in Operation : j # i => progress'[j] = progress[j]
      /\ \A j \in Operation : progress'[j] = "done" <=> progress[j] = "done"
      /\ \A j \in Operation : progress'[j] # "new" <=> progress[j] # "new"
  BY DEF Shaped
<1>2. /\ Len(order) \in Nat /\ DOMAIN order = 1..Len(order)
      /\ \A k \in 1..Len(order) : order[k] \in Operation
      /\ Len(states[s].line) \in Nat
  BY LenProperties, ElementOfSeq DEF Shaped, StateRecord
<1>3. SUFFICES ASSUME discarded = 0
      PROVE  /\ \A r \in State : r # current => states[r].line = <<>>
             /\ \A j \in Operation : progress'[j] \in {"waiting", "running"} =>
                  current # NoState /\ InLine(j, states[current])
             /\ \A r \in State : Behind(states[r])'
             /\ OperationsInOrder'
  BY <1>1, <1>2 DEF Orders, InLine
<1>4. \A j \in Operation : progress'[j] \in {"waiting", "running"} =>
        progress[j] \in {"waiting", "running"}
  BY <1>1
<1>5. ASSUME NEW r \in State PROVE Behind(states[r])'
  <2>1. Behind(states[r])
    BY <1>3 DEF Orders
  <2>2. \A j \in 1..Len(order) : progress[order[j]] = "done" => progress'[order[j]] = "done"
    BY <1>1, <1>2
  <2>3. ASSUME NEW k \in 1..Len(order), NEW q \in 1..Len(states[r].line),
               states[r].line[q] = order[k], NEW j \in 1..(k - 1)
        PROVE  progress'[order[j]] = "done" \/ \E p \in 1..(q - 1) : states[r].line[p] = order[j]
    <3>1. j \in 1..Len(order)
      BY <1>2
    <3>2. QED
      BY <2>1, <2>2, <2>3, <3>1 DEF Behind
  <2>4. ASSUME NEW k \in 1..Len(order'), NEW q \in 1..Len(states'[r].line),
               states'[r].line[q] = order'[k], NEW j \in 1..(k - 1)
        PROVE  progress'[order'[j]] = "done"
               \/ \E p \in 1..(q - 1) : states'[r].line[p] = order'[j]
    BY <2>3, <2>4
  <2>5. QED
    BY <2>4 DEF Behind
<1>6. OperationsInOrder'
  <2>1. ASSUME NEW j \in 1..Len(order), Begun(order[j])', NEW k \in 1..(j - 1)
        PROVE  progress'[order[k]] = "done"
    <3>1. order[j] \in Operation /\ order[k] \in Operation /\ k \in 1..Len(order)
      BY <1>2, <2>1
    <3>2. CASE order[j] = i
      <4>1. Behind(states[s]) /\ 1 \in 1..Len(states[s].line)
        BY <1>2, <1>3 DEF Orders
      <4>2. progress[order[k]] = "done" \/ \E p \in 1..(1 - 1) : states[s].line[p] = order[k]
        BY <2>1, <3>2, <4>1 DEF Behind
      <4>3. QED
        BY <1>1, <3>1, <4>2
    <3>3. CASE order[j] # i
      <4>1. Begun(order[j])
        BY <1>1, <2>1, <3>1, <3>3 DEF Begun
      <4>2. progress[order[k]] = "done"
        BY <1>2, <1>3, <2>1, <4>1 DEF Orders, OperationsInOrder
      <4>3. QED
        BY <1>1, <3>1, <4>2
    <3>4. QED
      BY <3>2, <3>3
  <2>2. QED
    BY <1>2, <2>1 DEF OperationsInOrder, Begun
<1>7. QED
  BY <1>3, <1>4, <1>5, <1>6 DEF Orders

---------------------------------------------------------------------------
(* The actions                                                             *)

\* A state whose line stays, or gets a drain at its end: operations that were
\* behind a drain in a hurry still are.
LEMMA PlaceKept ==
  ASSUME Shaped, Barriers, NEW s \in State, LineOK(states[s]), NEW t \in StateRecord,
         states' = [states EXCEPT ![s] = t], progress' = progress,
         \A i \in Operation : Past(i) => Past(i)',
         t.line = states[s].line \/ t.line = Append(states[s].line, Drain),
         states[s].draining /\ Hurries(states[s]) => Hurries(t)
  PROVE  Barriers'
<1>1. states[s].line \in Seq(Jobs) /\ Len(states[s].line) \in Nat /\ Drain \notin Operation
  BY ClosingOperations, LenProperties DEF Shaped, StateRecord
<1>2. /\ \A p \in 1..Len(states[s].line) : t.line[p] = states[s].line[p]
      /\ \A p \in 1..Len(t.line) : t.line[p] \in Operation => p \in 1..Len(states[s].line)
  <2>1. CASE t.line = Append(states[s].line, Drain)
    BY <1>1, <2>1, Joins DEF Jobs
  <2>2. QED
    BY <2>1
<1>3. \A i \in Operation : Begun(i)' => Begun(i)
  BY DEF Begun
<1>4. ASSUME NEW p \in 1..Len(t.line), NEW i \in Operation, t.line[p] = i
      PROVE  progress'[i] # "new" /\ (Past(i)' \/ (DrainAhead(t, p) /\ Hurries(t)))
  <2>1. p \in 1..Len(states[s].line) /\ states[s].line[p] = i
    BY <1>2, <1>4
  <2>2. /\ progress[i] # "new"
        /\ Past(i) \/ (DrainAhead(states[s], p) /\ Hurries(states[s]))
    BY <2>1 DEF Barriers, InItsPlace
  <2>3. CASE Past(i)
    BY <2>2, <2>3
  <2>4. CASE DrainAhead(states[s], p) /\ Hurries(states[s])
    <3>1. PICK q \in 1..(p - 1) : states[s].line[q] = Drain
      BY <2>4 DEF DrainAhead
    <3>2. q \in 1..Len(states[s].line)
      BY <1>1, <2>1
    <3>3. states[s].draining
      BY <3>1, <3>2 DEF LineOK
    <3>4. t.line[q] = Drain
      BY <1>2, <3>1, <3>2
    <3>5. DrainAhead(t, p)
      BY <3>4 DEF DrainAhead
    <3>6. Hurries(t)
      BY <2>4, <3>3
    <3>7. QED
      BY <2>2, <3>5, <3>6
  <2>5. QED
    BY <2>2, <2>3, <2>4
<1>5. QED
  BY <1>3, <1>4, BarriersKept

\* Steps of one state after which its line is the same, or has a drain more.
LEMMA StayKeeps ==
  ASSUME CoalescerInv, NEW s \in State, NEW t \in StateRecord, LineOK(t),
         states' = [states EXCEPT ![s] = t],
         UNCHANGED <<progress, mark, order, disposed>>, closed' \in BOOLEAN,
         current' \in State \cup {NoState},
         latest' \in Nat, latest' >= latest, disposed => latest' = latest,
         settled' \in Nat, settled' >= settled,
         discarded' = discarded \/ discarded' = latest' + 1,
         emitted' \in Nat, emitted' <= latest',
         emitted' = emitted \/ \A r \in State \ {s} : Texts(states[r]) = {},
         t.line = states[s].line \/ t.line = Append(states[s].line, Drain),
         states[s].draining /\ Hurries(states[s]) => Hurries(t),
         ~Quiet(t) => \A r \in State \ {s} : Quiet(states[r]),
         ~disposed /\ ~Quiet(t) => current' = s,
         \A r \in State \ {s} : ~disposed /\ ~Quiet(states[r]) => current' = r,
         \A v \in Texts(t) :
           emitted' <= v /\ v <= latest' /\ (v \in Texts(states[s]) \/ v > latest),
         \/ latest' = latest
            /\ (LastText(states[s]) = latest =>
                  LastText(t) = latest \/ settled' >= latest \/ discarded' > latest)
         \/ LastText(t) = latest',
         \/ discarded' > 0
         \/ /\ s = current' \/ t.line = states[s].line
            /\ \/ current' = current
               \/ current = NoState
               \/ current' = NoState /\ states[current].line = <<>>
  PROVE  CoalescerInv'
<1>1. /\ Shaped /\ OneCarrier /\ Numbers /\ LatestIsKnown /\ Barriers /\ Orders
      /\ \A r \in State : LineOK(states[r])
  BY DEF CoalescerInv
<1>2. /\ discarded' \in Nat /\ discarded' >= discarded /\ discarded' <= latest' + 1
      /\ latest \in Nat /\ discarded \in Nat
  BY <1>1 DEF Shaped, Numbers
<1>3. Shaped'
  BY <1>1, <1>2 DEF Shaped
<1>4. \A r \in State : LineOK(states'[r])
  BY <1>1 DEF Shaped
<1>5. OneCarrier'
  BY <1>1, CarrierKept
<1>6. \A v \in Texts(t) : v \in Nat
  BY TextsOf
<1>7. \A i \in Operation : mark'[i] = mark[i]
  OBVIOUS
<1>8. \A i \in Operation : Past(i) => Past(i)'
  BY <1>1, <1>2, <1>6, <1>7, PastKept
<1>9. Barriers'
  BY <1>1, <1>8, PlaceKept
<1>10. Numbers'
  BY <1>1, <1>2, <1>7, NumbersKept
<1>11. LatestIsKnown'
  BY <1>1, <1>2, LatestKept
<1>12. Orders'
  <2>1. CASE discarded' > 0
    BY <1>1, <1>2, <2>1, OrdersDropped
  <2>2. CASE discarded' = 0
    <3>1. discarded' = discarded
      BY <1>2, <2>2
    <3>2. /\ s = current' \/ t.line = states[s].line
          /\ current' = current \/ current = NoState
             \/ (current' = NoState /\ states[current].line = <<>>)
      BY <2>2
    <3>3. QED
      BY <1>1, <3>1, <3>2, OrdersKept
  <2>3. QED
    BY <1>2, <2>1, <2>2
<1>13. QED
  BY <1>3, <1>4, <1>5, <1>9, <1>10, <1>11, <1>12 DEF CoalescerInv

LEMMA ScheduleKeeps ==
  ASSUME CoalescerInv, NEW s \in State, Schedule(s)
  PROVE  CoalescerInv' /\ emitted' = emitted
<1> DEFINE t == [states[s] EXCEPT
                   !.pending = [value |-> latest', failures |-> 0],
                   !.timer = IF @ = "coalesce" \/ ~states[s].draining THEN "coalesce" ELSE "none"]
<1>1. /\ Shaped /\ OneCarrier /\ Numbers
      /\ \A r \in State : LineOK(states[r])
      /\ states[s] \in StateRecord /\ latest \in Nat /\ emitted \in Nat /\ emitted <= latest
  BY DEF CoalescerInv, Shaped, Numbers
<1>2. /\ ~disposed /\ StateFor(s) /\ current' = s /\ latest' = latest + 1
      /\ states' = [states EXCEPT ![s] = t]
      /\ UNCHANGED <<closed, disposed, progress, mark, settled, discarded, emitted, order>>
  BY DEF Schedule, Becomes, ghosts
<1>3. /\ t \in StateRecord /\ t.pending = [value |-> latest + 1, failures |-> 0]
      /\ t.sending = states[s].sending /\ t.line = states[s].line
      /\ t.draining = states[s].draining /\ t.flushing = states[s].flushing
      /\ t.immediate = states[s].immediate
  <2>1. [value |-> latest + 1, failures |-> 0] \in Snapshots
    BY <1>1, SnapshotValues
  <2>2. QED
    BY <1>1, <1>2, <2>1 DEF StateRecord
<1> HIDE DEF t
<1>4. LineOK(t)
  BY <1>1, <1>3 DEF LineOK
<1>5. LastText(t) = latest + 1
  BY <1>1, <1>3 DEF LastText, HasPending, NoSnapshot
<1>6. \A v \in Texts(t) : v = latest + 1 \/ v \in Texts(states[s])
  BY <1>3 DEF Texts
<1>7. \A v \in Texts(states[s]) : v \in Nat /\ emitted <= v /\ v <= latest
  BY <1>1, TextsOf DEF Numbers
<1>8. \A v \in Texts(t) : emitted' <= v /\ v <= latest' /\ (v \in Texts(states[s]) \/ v > latest)
  BY <1>1, <1>2, <1>6, <1>7
<1>9. \A r \in State \ {s} : Quiet(states[r])
  BY <1>1, <1>2, OthersAreQuiet
<1>10. Hurries(states[s]) => Hurries(t)
  BY <1>3 DEF Hurries
<1>11. current = s \/ current = NoState
  BY <1>2 DEF StateFor
<1>12. /\ latest' \in Nat /\ latest' >= latest /\ closed' \in BOOLEAN
       /\ settled' \in Nat /\ settled' >= settled /\ emitted' \in Nat /\ emitted' <= latest'
       /\ current' \in State \cup {NoState} /\ current' = s
  BY <1>1, <1>2 DEF Shaped
<1>13. current' = current \/ current = NoState
  BY <1>2, <1>11
<1>14. CoalescerInv'
  BY <1>2, <1>3, <1>4, <1>5, <1>8, <1>9, <1>10, <1>12, <1>13, StayKeeps
<1>15. QED
  BY <1>2, <1>14

\* A flush holds the timer, and gets a drain that hurries if there is text.
LEMMA CancelledFlushed ==
  ASSUME NEW t \in StateRecord, LineOK(t), NEW u, u = Flushed(Cancelled(t))
  PROVE  /\ u \in StateRecord /\ LineOK(u)
         /\ u.pending = t.pending /\ u.sending = t.sending
         /\ Texts(u) = Texts(t) /\ LastText(u) = LastText(t)
         /\ u.draining => Hurries(u)
         /\ t.draining => u.draining
         /\ Quiet(t) => Quiet(u)
         /\ ~u.draining => Quiet(u)
         /\ u.line = t.line \/ u.line = Append(t.line, Drain)
<1> DEFINE c == Cancelled(t)
<1>1. /\ c \in StateRecord /\ c.timer = "none" /\ c.pending = t.pending
      /\ c.sending = t.sending /\ c.line = t.line /\ c.draining = t.draining
  BY CancelledEffect
<1> HIDE DEF c
<1>2. LineOK(c)
  BY <1>1 DEF LineOK
<1>3. u = Flushed(c)
  BY DEF c
<1>4. /\ u \in StateRecord /\ LineOK(u)
      /\ u.pending = c.pending /\ u.sending = c.sending /\ u.timer = c.timer
      /\ u.draining <=> c.draining \/ HasPending(c)
      /\ u.draining => Hurries(u)
      /\ c.draining \/ ~HasPending(c) => u.line = c.line
      /\ ~c.draining /\ HasPending(c) => u.line = Append(c.line, Drain)
  BY <1>1, <1>2, <1>3, FlushedEffect
<1>5. /\ HasPending(c) <=> HasPending(t)
      /\ HasPending(u) <=> HasPending(t)
  BY <1>1, <1>4 DEF HasPending
<1>6. u.draining <=> t.draining \/ HasPending(t)
  BY <1>1, <1>4, <1>5, Zenon
<1>7. Texts(u) = Texts(t) /\ LastText(u) = LastText(t)
  BY <1>1, <1>4 DEF Texts, LastText, HasPending
<1>8. /\ Quiet(t) => Quiet(u)
      /\ ~u.draining => Quiet(u)
  BY <1>1, <1>4, <1>5, <1>6 DEF Quiet
<1>9. u.line = t.line \/ u.line = Append(t.line, Drain)
  BY <1>1, <1>4, Zenon
<1>10. QED
  BY <1>1, <1>4, <1>6, <1>7, <1>8, <1>9

\* What the invariant says of one state.
LEMMA OfOneState ==
  ASSUME CoalescerInv, NEW s \in State
  PROVE  /\ Shaped /\ OneCarrier /\ Numbers /\ LatestIsKnown /\ Barriers /\ Orders
         /\ states[s] \in StateRecord /\ LineOK(states[s])
         /\ \A v \in Texts(states[s]) : v \in Nat /\ emitted <= v /\ v <= latest
         /\ \A r \in State : LineOK(states[r])
         /\ \A r \in State : ~disposed /\ ~Quiet(states[r]) => current = r
         /\ latest \in Nat /\ settled \in Nat /\ discarded \in Nat /\ emitted \in Nat
         /\ emitted <= latest /\ closed \in BOOLEAN /\ current \in State \cup {NoState}
         /\ disposed => discarded > latest
  BY TextsOf DEF CoalescerInv, Shaped, Numbers, OneCarrier

LEMMA FlushKeeps ==
  ASSUME CoalescerInv, Flush
  PROVE  CoalescerInv' /\ emitted' = emitted
<1> DEFINE s == current
<1>1. s \in State
  BY DEF Flush, CoalescerInv, Shaped
<1>2. PICK t : t = Flushed(Cancelled(states[s]))
  OBVIOUS
<1>3. /\ states' = [states EXCEPT ![s] = t]
      /\ UNCHANGED <<current, closed, disposed, latest, progress, mark, settled, discarded,
                     emitted, order>>
  BY <1>2 DEF Flush, Becomes, ghosts
<1>4. /\ t \in StateRecord /\ LineOK(t)
      /\ Texts(t) = Texts(states[s]) /\ LastText(t) = LastText(states[s])
      /\ t.draining => Hurries(t)
      /\ states[s].draining => t.draining
      /\ Quiet(states[s]) => Quiet(t)
      /\ t.line = states[s].line \/ t.line = Append(states[s].line, Drain)
  BY <1>1, <1>2, OfOneState, CancelledFlushed
<1>5. ~Quiet(t) => \A r \in State \ {s} : Quiet(states[r])
  BY <1>1, <1>4, OfOneState, OthersAreQuiet
<1> HIDE DEF s
<1>6. s = current
  BY DEF s
<1>7. \A v \in Texts(t) : emitted' <= v /\ v <= latest' /\ v \in Texts(states[s])
  BY <1>1, <1>3, <1>4, OfOneState
<1>8. /\ latest' \in Nat /\ latest' >= latest /\ closed' \in BOOLEAN
      /\ settled' \in Nat /\ settled' >= settled /\ emitted' \in Nat /\ emitted' <= latest'
      /\ current' \in State \cup {NoState} /\ current' = s
      /\ \A r \in State : ~disposed /\ ~Quiet(states[r]) => current' = r
  BY <1>1, <1>3, <1>6, OfOneState
<1>9. CoalescerInv'
  BY <1>1, <1>3, <1>4, <1>5, <1>7, <1>8, StayKeeps
<1>10. QED
  BY <1>3, <1>9

LEMMA FireTimerKeeps ==
  ASSUME CoalescerInv, NEW s \in State, FireTimer(s)
  PROVE  CoalescerInv' /\ emitted' = emitted
<1> DEFINE c == Cancelled(states[s])
<1>1. PICK t : t = Drained(c, FALSE)
  OBVIOUS
<1>2. /\ states' = [states EXCEPT ![s] = t] /\ states[s].timer # "none"
      /\ UNCHANGED <<current, closed, disposed, latest, progress, mark, settled, discarded,
                     emitted, order>>
  BY <1>1 DEF FireTimer, Becomes, ghosts
<1>3. /\ c \in StateRecord /\ c.timer = "none" /\ c.pending = states[s].pending
      /\ c.sending = states[s].sending /\ c.line = states[s].line
      /\ c.draining = states[s].draining /\ c.flushing = states[s].flushing
      /\ c.immediate = states[s].immediate
  BY OfOneState, CancelledEffect
<1> HIDE DEF c
<1>4. LineOK(c)
  <2>1. LineOK(states[s])
    BY OfOneState
  <2>2. QED
    BY <1>3, <2>1 DEF LineOK
<1>5. /\ t \in StateRecord /\ LineOK(t)
      /\ t.pending = c.pending /\ t.sending = c.sending
      /\ c.draining => t = c
      /\ ~c.draining => t.line = Append(c.line, Drain)
  BY <1>1, <1>3, <1>4, DrainedEffect
<1>6. /\ Texts(t) = Texts(states[s]) /\ LastText(t) = LastText(states[s])
  BY <1>3, <1>5 DEF Texts, LastText, HasPending
<1>7. t.line = states[s].line \/ t.line = Append(states[s].line, Drain)
  BY <1>3, <1>5, Zenon
<1>8. states[s].draining /\ Hurries(states[s]) => Hurries(t)
  <2>1. ASSUME states[s].draining PROVE t = c
    BY <1>3, <1>5, <2>1, Zenon
  <2>2. QED
    BY <1>3, <2>1 DEF Hurries
<1>9. ~Quiet(states[s])
  BY <1>2 DEF Quiet
<1>10. \A r \in State \ {s} : Quiet(states[r])
  BY <1>9, OfOneState, OthersAreQuiet
<1>11. \A v \in Texts(t) : emitted' <= v /\ v <= latest' /\ v \in Texts(states[s])
  BY <1>2, <1>6, OfOneState
<1>12. /\ latest' \in Nat /\ latest' >= latest /\ closed' \in BOOLEAN
       /\ settled' \in Nat /\ settled' >= settled /\ emitted' \in Nat /\ emitted' <= latest'
       /\ current' \in State \cup {NoState}
       /\ ~disposed => current' = s
       /\ disposed => discarded' > 0
  BY <1>2, <1>9, OfOneState
<1>13. CoalescerInv'
  BY <1>2, <1>5, <1>6, <1>7, <1>8, <1>10, <1>11, <1>12, StayKeeps
<1>14. QED
  BY <1>2, <1>13

LEMMA ClearKeeps ==
  ASSUME CoalescerInv, Clear
  PROVE  CoalescerInv' /\ emitted' = emitted
<1> DEFINE s == current
           c == Cancelled(states[s])
<1>1. s \in State
  BY DEF Clear, CoalescerInv, Shaped
<1>2. PICK t : t = [c EXCEPT !.pending = NoSnapshot]
  OBVIOUS
<1>3. /\ states' = [states EXCEPT ![s] = t]
      /\ current' = IF Quiet(t) THEN NoState ELSE current
      /\ discarded' = latest + 1
      /\ UNCHANGED <<closed, disposed, latest, progress, mark, settled, emitted, order>>
  BY <1>2 DEF Clear, Becomes
<1>4. /\ c \in StateRecord /\ c.timer = "none"
      /\ c.sending = states[s].sending /\ c.line = states[s].line
      /\ c.draining = states[s].draining /\ c.flushing = states[s].flushing
      /\ c.immediate = states[s].immediate
  BY <1>1, OfOneState, CancelledEffect
<1> HIDE DEF c
<1>5. /\ t \in StateRecord /\ t.timer = "none" /\ t.pending = NoSnapshot
      /\ t.sending = states[s].sending /\ t.line = states[s].line
      /\ t.draining = states[s].draining /\ t.flushing = states[s].flushing
      /\ t.immediate = states[s].immediate
  BY <1>2, <1>4, SnapshotValues DEF StateRecord
<1>6. LineOK(states[s]) /\ LineOK(t)
  <2>1. LineOK(states[s])
    BY <1>1, OfOneState
  <2>2. QED
    BY <1>5, <2>1 DEF LineOK
<1>7. \A v \in Texts(t) : v \in Texts(states[s])
  BY <1>5 DEF Texts
<1>8. Hurries(states[s]) => Hurries(t)
  BY <1>5 DEF Hurries
<1>9. ~Quiet(t) => ~Quiet(states[s])
  BY <1>5 DEF Quiet, HasPending
<1>10. ~Quiet(t) => \A r \in State \ {s} : Quiet(states[r])
  BY <1>1, <1>9, OfOneState, OthersAreQuiet
<1> HIDE DEF s
<1>11. s = current
  BY DEF s
<1>12. \A v \in Texts(t) : emitted' <= v /\ v <= latest' /\ v \in Texts(states[s])
  BY <1>1, <1>3, <1>7, OfOneState
<1>13. /\ latest' \in Nat /\ latest' >= latest /\ closed' \in BOOLEAN
       /\ settled' \in Nat /\ settled' >= settled /\ emitted' \in Nat /\ emitted' <= latest'
       /\ current' \in State \cup {NoState} /\ discarded' = latest' + 1
       /\ discarded' > latest /\ discarded' > 0
       /\ \A r \in State \ {s} : ~disposed => Quiet(states[r])
  BY <1>1, <1>3, <1>11, OfOneState
<1>14. ~disposed /\ ~Quiet(t) => current' = s
  BY <1>3, <1>11
<1>15. CoalescerInv'
  BY <1>1, <1>3, <1>5, <1>6, <1>8, <1>10, <1>12, <1>13, <1>14, StayKeeps
<1>16. QED
  BY <1>3, <1>15

LEMMA ForgetKeeps ==
  ASSUME CoalescerInv, Forget
  PROVE  CoalescerInv' /\ emitted' = emitted
<1>1. /\ closed' \in BOOLEAN
      /\ UNCHANGED <<states, current, disposed, latest, progress, mark, settled, discarded,
                     emitted, order>>
  BY DEF Forget, ghosts
<1>2. Shaped'
  BY <1>1 DEF CoalescerInv, Shaped
<1>3. \A i \in Operation : Past(i) => Past(i)'
  BY <1>1 DEF Past
<1>4. Barriers'
  BY <1>1, <1>3 DEF CoalescerInv, Barriers, InItsPlace, Begun
<1>5. Orders'
  <2>1. 1 \in State
    BY BoundsAreNatural DEF State
  <2>2. states' = [states EXCEPT ![1] = states[1]]
    BY <1>1, <2>1 DEF CoalescerInv, Shaped
  <2>3. Shaped /\ Orders
    BY DEF CoalescerInv
  <2>4. QED
    BY <1>1, <2>1, <2>2, <2>3, OrdersKept
<1>6. (\A s \in State : LineOK(states[s]))' /\ OneCarrier' /\ Numbers' /\ LatestIsKnown'
  BY <1>1 DEF CoalescerInv, OneCarrier, Numbers, LatestIsKnown
<1>7. QED
  BY <1>1, <1>2, <1>4, <1>5, <1>6 DEF CoalescerInv

LEMMA DisposeKeeps ==
  ASSUME CoalescerInv, Dispose
  PROVE  CoalescerInv' /\ emitted' = emitted
<1>1. /\ disposed' = TRUE /\ current' = NoState /\ closed' = FALSE /\ discarded' = latest + 1
      /\ UNCHANGED <<latest, progress, mark, settled, emitted, order>>
      /\ states \in [State -> StateRecord]
  BY DEF Dispose, CoalescerInv, Shaped
<1>2. \E s \in State, t \in StateRecord :
        /\ states' = [states EXCEPT ![s] = t]
        /\ t.line = states[s].line /\ t.sending = states[s].sending
        /\ t.draining = states[s].draining
        /\ Hurries(states[s]) => Hurries(t)
        /\ ~Quiet(t) => ~Quiet(states[s])
        /\ Texts(t) \subseteq Texts(states[s])
  <2>1. CASE current = NoState
    <3>1. 1 \in State
      BY BoundsAreNatural DEF State
    <3>2. states' = [states EXCEPT ![1] = states[1]]
      <4>1. \A r \in State : r # current
        BY <2>1 DEF State, NoState
      <4>2. states' = [r \in State |-> states[r]]
        BY <4>1 DEF Dispose
      <4>3. QED
        BY <1>1, <3>1, <4>2
    <3>3. QED
      BY <1>1, <3>1, <3>2
  <2>2. CASE current # NoState
    <3> DEFINE s == current
               c == Cancelled(states[s])
               t == [c EXCEPT !.pending = NoSnapshot]
    <3>1. s \in State
      BY <2>2 DEF CoalescerInv, Shaped
    <3>2. states' = [states EXCEPT ![s] = t]
      BY <1>1, <3>1 DEF Dispose
    <3>3. /\ c \in StateRecord /\ c.timer = "none"
          /\ c.sending = states[s].sending /\ c.line = states[s].line
          /\ c.draining = states[s].draining /\ c.flushing = states[s].flushing
          /\ c.immediate = states[s].immediate
      BY <1>1, <3>1, CancelledEffect
    <3> HIDE DEF c, s
    <3>4. /\ t \in StateRecord /\ t.timer = "none" /\ t.pending = NoSnapshot
          /\ t.sending = states[s].sending /\ t.line = states[s].line
          /\ t.draining = states[s].draining /\ t.flushing = states[s].flushing
          /\ t.immediate = states[s].immediate
      BY <3>3, SnapshotValues DEF StateRecord
    <3> HIDE DEF t
    <3>5. /\ Hurries(states[s]) => Hurries(t)
          /\ ~Quiet(t) => ~Quiet(states[s])
          /\ Texts(t) \subseteq Texts(states[s])
      BY <3>4 DEF Hurries, Quiet, HasPending, Texts
    <3>6. QED
      BY <3>1, <3>2, <3>4, <3>5
  <2>3. QED
    BY <2>1, <2>2
<1>3. PICK s \in State, t \in StateRecord :
        /\ states' = [states EXCEPT ![s] = t]
        /\ t.line = states[s].line /\ t.sending = states[s].sending
        /\ t.draining = states[s].draining
        /\ Hurries(states[s]) => Hurries(t)
        /\ ~Quiet(t) => ~Quiet(states[s])
        /\ Texts(t) \subseteq Texts(states[s])
  BY <1>2
<1>4. states'[s] = t /\ \A r \in State \ {s} : states'[r] = states[r]
  BY <1>1, <1>3
<1>5. /\ Shaped /\ Numbers /\ Barriers /\ Orders /\ OneCarrier
      /\ latest \in Nat /\ \A r \in State : LineOK(states[r])
  BY OfOneState, <1>3
<1>6. Shaped'
  <2>1. states' \in [State -> StateRecord] /\ discarded' \in Nat
    BY <1>1, <1>3, <1>5
  <2>2. QED
    BY <1>1, <1>5, <2>1 DEF Shaped
<1>7. \A r \in State : LineOK(states'[r])
  <2>1. LineOK(t)
    BY <1>3, <1>5 DEF LineOK
  <2>2. QED
    BY <1>4, <1>5, <2>1
<1>8. OneCarrier'
  BY <1>1, <1>3, <1>4, <1>5 DEF OneCarrier
<1>9. Numbers'
  <2>1. ASSUME NEW r \in State, NEW v \in Texts(states'[r]) PROVE emitted <= v /\ v <= latest
    BY <1>3, <1>4, <1>5, <2>1 DEF Numbers
  <2>2. \A i \in Operation : mark[i] <= latest
    BY <1>5 DEF Numbers
  <2>3. emitted <= latest
    BY <1>5 DEF Numbers
  <2>4. QED
    BY <1>1, <1>5, <2>1, <2>2, <2>3 DEF Numbers
<1>10. LatestIsKnown'
  BY <1>1, <1>5 DEF LatestIsKnown
<1>11. Barriers'
  <2>1. \A i \in Operation : Past(i)'
    <3>1. ASSUME NEW i \in Operation PROVE discarded' > mark'[i]
      BY <1>1, <1>5 DEF Shaped, Numbers
    <3>2. QED
      BY <1>1, <3>1 DEF Past
  <2>2. t.line = states[s].line
    BY <1>3
  <2>3. QED
    BY <1>1, <1>3, <1>5, <2>1, <2>2, PlaceKept
<1>12. Orders'
  BY <1>1, <1>5, OrdersDropped
<1>13. QED
  BY <1>1, <1>6, <1>7, <1>8, <1>9, <1>10, <1>11, <1>12 DEF CoalescerInv

\* An operation at the end of a flushed line.
LEMMA OperationJoins ==
  ASSUME NEW u \in StateRecord, LineOK(u), NEW i \in Operation, NEW t,
         t = [u EXCEPT !.line = Append(u.line, i)]
  PROVE  /\ t \in StateRecord /\ LineOK(t) /\ t.line = Append(u.line, i)
         /\ t.pending = u.pending /\ t.sending = u.sending
         /\ Texts(t) = Texts(u) /\ LastText(t) = LastText(u)
         /\ Quiet(t) <=> Quiet(u)
         /\ Hurries(t) <=> Hurries(u)
         /\ u.draining => DrainAhead(t, Len(u.line) + 1)
<1>1. u.line \in Seq(Jobs) /\ i \in Jobs /\ i # Drain
  BY ClosingOperations DEF StateRecord, Jobs
<1>2. /\ t \in StateRecord /\ t.pending = u.pending /\ t.timer = u.timer
      /\ t.draining = u.draining /\ t.flushing = u.flushing /\ t.immediate = u.immediate
      /\ t.sending = u.sending /\ t.line = Append(u.line, i)
  BY <1>1, Joins DEF StateRecord
<1>3. /\ Len(u.line) \in Nat /\ Len(t.line) = Len(u.line) + 1 /\ t.line[Len(u.line) + 1] = i
      /\ \A p \in 1..Len(u.line) : t.line[p] = u.line[p]
      /\ t.line # <<>>
  BY <1>1, <1>2, Joins
<1>4. \A p \in 1..Len(t.line) : t.line[p] = Drain <=> p \in 1..Len(u.line) /\ u.line[p] = Drain
  BY <1>1, <1>3
<1>5. t.draining <=> \E p \in 1..Len(t.line) : t.line[p] = Drain
  <2>1. u.draining <=> \E p \in 1..Len(u.line) : u.line[p] = Drain
    BY DEF LineOK
  <2>2. \A p \in 1..Len(u.line) : p \in 1..Len(t.line)
    BY <1>3
  <2>3. QED
    BY <1>2, <1>4, <2>1, <2>2
<1>6. t.sending # NoSnapshot => t.line # <<>> /\ t.line[1] = Drain
  <2>1. u.line # <<>> => 1 \in 1..Len(u.line)
    BY <1>1, HeadLeaves
  <2>2. QED
    BY <1>2, <1>3, <2>1 DEF LineOK
<1>7. \A p, q \in 1..Len(t.line) : t.line[p] = Drain /\ t.line[q] = Drain => p = q
  BY <1>4 DEF LineOK
<1>8. LineOK(t)
  BY <1>5, <1>6, <1>7 DEF LineOK
<1>9. u.draining => DrainAhead(t, Len(u.line) + 1)
  <2>1. ASSUME u.draining PROVE \E q \in 1..Len(u.line) : u.line[q] = Drain
    BY <2>1 DEF LineOK
  <2>2. ASSUME u.draining PROVE \E q \in 1..((Len(u.line) + 1) - 1) : t.line[q] = Drain
    BY <1>3, <2>1, <2>2
  <2>3. QED
    BY <2>2 DEF DrainAhead
<1>10. /\ Texts(t) = Texts(u) /\ LastText(t) = LastText(u)
       /\ Quiet(t) <=> Quiet(u)
       /\ Hurries(t) <=> Hurries(u)
  BY <1>2 DEF Texts, LastText, HasPending, Quiet, Hurries
<1>11. QED
  BY <1>2, <1>8, <1>9, <1>10

LEMMA FlushThenKeeps ==
  ASSUME CoalescerInv, NEW i \in Operation, NEW s \in State, FlushThen(i, s)
  PROVE  CoalescerInv' /\ emitted' = emitted
<1>1. PICK u : u = Flushed(Cancelled(states[s]))
  OBVIOUS
<1>2. PICK t : t = [u EXCEPT !.line = Append(u.line, i)]
  OBVIOUS
<1>3. /\ progress[i] = "new" /\ StateFor(s) /\ current' = s
      /\ states' = [states EXCEPT ![s] = t]
      /\ progress' = [progress EXCEPT ![i] = "waiting"]
      /\ closed' = (closed \/ i \in Closing)
      /\ mark' = [mark EXCEPT ![i] = latest] /\ order' = Append(order, i)
      /\ UNCHANGED <<disposed, latest, settled, discarded, emitted>>
  BY <1>1, <1>2 DEF FlushThen, Becomes, Queued
<1>4. /\ Shaped /\ OneCarrier /\ Numbers /\ LatestIsKnown /\ Barriers /\ Orders
      /\ states[s] \in StateRecord /\ LineOK(states[s])
      /\ \A v \in Texts(states[s]) : v \in Nat /\ emitted <= v /\ v <= latest
      /\ \A r \in State : LineOK(states[r])
      /\ latest \in Nat /\ settled \in Nat /\ discarded \in Nat /\ emitted \in Nat
      /\ emitted <= latest /\ current \in State \cup {NoState}
  BY OfOneState
<1>5. /\ u \in StateRecord /\ LineOK(u)
      /\ Texts(u) = Texts(states[s]) /\ LastText(u) = LastText(states[s])
      /\ u.draining => Hurries(u)
      /\ states[s].draining => u.draining
      /\ Quiet(states[s]) => Quiet(u)
      /\ ~u.draining => Quiet(u)
      /\ u.line = states[s].line \/ u.line = Append(states[s].line, Drain)
  BY <1>1, <1>4, CancelledFlushed
<1>6. /\ t \in StateRecord /\ LineOK(t) /\ t.line = Append(u.line, i)
      /\ Texts(t) = Texts(u) /\ LastText(t) = LastText(u)
      /\ Quiet(t) <=> Quiet(u)
      /\ Hurries(t) <=> Hurries(u)
      /\ u.draining => DrainAhead(t, Len(u.line) + 1)
  BY <1>2, <1>5, OperationJoins
<1>7. states'[s] = t /\ \A r \in State \ {s} : states'[r] = states[r]
  BY <1>3, <1>4 DEF Shaped
<1>8. /\ progress'[i] = "waiting" /\ mark'[i] = latest
      /\ \A j \in Operation \ {i} : progress'[j] = progress[j] /\ mark'[j] = mark[j]
  BY <1>3, <1>4 DEF Shaped
<1>9. /\ states[s].line \in Seq(Jobs) /\ u.line \in Seq(Jobs) /\ Drain \notin Operation
      /\ Drain \in Jobs /\ i \in Jobs
  BY <1>4, <1>5, ClosingOperations DEF StateRecord, Jobs
<1>10. /\ Len(states[s].line) \in Nat /\ Len(u.line) \in Nat /\ Len(t.line) = Len(u.line) + 1
       /\ Len(states[s].line) <= Len(u.line)
       /\ t.line[Len(t.line)] = i
       /\ \A p \in 1..Len(states[s].line) : t.line[p] = states[s].line[p]
       /\ \A p \in (Len(states[s].line) + 1)..(Len(t.line) - 1) : t.line[p] = Drain
  <2>1. /\ Len(u.line) \in Nat /\ Len(t.line) = Len(u.line) + 1 /\ t.line[Len(u.line) + 1] = i
        /\ \A p \in 1..Len(u.line) : t.line[p] = u.line[p]
        /\ Len(states[s].line) \in Nat
    BY <1>6, <1>9, Joins
  <2>2. /\ Len(states[s].line) <= Len(u.line)
        /\ \A p \in 1..Len(states[s].line) : u.line[p] = states[s].line[p]
        /\ \A p \in (Len(states[s].line) + 1)..Len(u.line) : u.line[p] = Drain
    <3>1. CASE u.line = states[s].line
      BY <2>1, <3>1
    <3>2. CASE u.line = Append(states[s].line, Drain)
      BY <1>9, <2>1, <3>2, Joins
    <3>3. QED
      BY <1>5, <3>1, <3>2
  <2>3. QED
    BY <2>1, <2>2
<1>11. ~Quiet(t) => \A r \in State \ {s} : Quiet(states[r])
  <2>1. ASSUME ~Quiet(t) PROVE ~Quiet(states[s])
    BY <1>5, <1>6, <2>1
  <2>2. QED
    BY <1>4, <2>1, OthersAreQuiet
<1>12. ~disposed => \A r \in State \ {s} : Quiet(states[r])
  BY <1>3, <1>4, OthersAreQuiet
<1>13. \A p \in 1..Len(states[s].line) : states[s].line[p] # i
  BY <1>3, <1>4 DEF Barriers, InItsPlace
<1>14. Shaped'
  <2>1. order' \in Seq(Operation)
    BY <1>3, <1>4, AppendProperties DEF Shaped
  <2>2. /\ progress' \in [Operation -> {"new", "waiting", "running", "done"}]
        /\ mark' \in [Operation -> Nat]
    BY <1>3, <1>4 DEF Shaped
  <2>3. states' \in [State -> StateRecord] /\ current' \in State \cup {NoState}
    BY <1>3, <1>4, <1>6 DEF Shaped
  <2>4. closed' \in BOOLEAN
    BY <1>3
  <2>5. QED
    BY <1>3, <1>4, <2>1, <2>2, <2>3, <2>4 DEF Shaped
<1>15. \A r \in State : LineOK(states'[r])
  BY <1>4, <1>6, <1>7
<1>16. OneCarrier'
  BY <1>3, <1>4, <1>11, <1>12, CarrierKept
<1>17. Numbers'
  <2>1. \A v \in Texts(t) : emitted' <= v /\ v <= latest'
    BY <1>3, <1>4, <1>5, <1>6
  <2>2. \A j \in Operation : mark'[j] = mark[j] \/ mark'[j] = latest
    BY <1>8
  <2>3. /\ latest' \in Nat /\ emitted' \in Nat /\ discarded' \in Nat /\ latest' >= latest
        /\ emitted' <= latest' /\ discarded <= discarded' /\ discarded' <= latest' + 1
    BY <1>3, <1>4 DEF Numbers
  <2>4. QED
    BY <1>3, <1>4, <2>1, <2>2, <2>3, NumbersKept
<1>18. LatestIsKnown'
  <2>1. latest' = latest /\ LastText(t) = LastText(states[s])
    BY <1>3, <1>5, <1>6
  <2>2. settled' \in Nat /\ discarded' \in Nat /\ settled' >= settled /\ discarded' >= discarded
    BY <1>3, <1>4
  <2>3. QED
    BY <1>3, <1>4, <2>1, <2>2, LatestKept
<1>19. \A j \in Operation \ {i} : Past(j) => Past(j)'
  <2>1. ASSUME NEW j \in Operation, j # i, Past(j) PROVE Past(j)'
    <3>1. /\ mark'[j] = mark[j] /\ settled' \in Nat /\ settled' >= settled
          /\ discarded' \in Nat /\ discarded' >= discarded
          /\ \A v \in Texts(t) : v \in Texts(states[s])
      BY <1>3, <1>4, <1>5, <1>6, <1>8, <2>1
    <3>2. QED
      BY <1>3, <1>4, <2>1, <3>1, PastKept
  <2>2. QED
    BY <2>1
<1>20. Past(i)' \/ (DrainAhead(t, Len(t.line)) /\ Hurries(t))
  <2>1. CASE u.draining
    BY <1>5, <1>6, <1>10, <2>1
  <2>2. CASE ~u.draining
    <3>1. Quiet(u)
      BY <1>5, <2>2
    <3>2. Texts(u) = {} /\ LastText(u) = 0
      BY <1>5, <3>1, QuietHoldsNothing
    <3>3. \A r \in State : ~disposed => Quiet(states[r]) \/ LastText(states[r]) = 0
      BY <1>5, <1>12, <3>2
    <3>4. settled' >= mark'[i] \/ discarded' > mark'[i]
      <4>1. settled >= latest \/ discarded > latest
        BY <1>4, <3>3, NothingLeft
      <4>2. QED
        BY <1>3, <1>8, <4>1
    <3>5. ASSUME ~disposed, NEW r \in State PROVE Texts(states'[r]) = {}
      <4>1. CASE r = s
        BY <1>6, <1>7, <3>2, <4>1
      <4>2. CASE r # s
        <5>1. states[r] \in StateRecord /\ LineOK(states[r]) /\ Quiet(states[r])
          BY <1>4, <1>12, <3>5, <4>2 DEF Shaped
        <5>2. Texts(states[r]) = {}
          BY <5>1, QuietHoldsNothing
        <5>3. QED
          BY <1>7, <4>2, <5>2
      <4>3. QED
        BY <4>1, <4>2
    <3>6. QED
      BY <1>3, <3>4, <3>5 DEF Past
  <2>3. QED
    BY <2>1, <2>2
<1>21. ASSUME NEW p \in 1..Len(t.line), NEW j \in Operation, t.line[p] = j
       PROVE  progress'[j] # "new" /\ (Past(j)' \/ (DrainAhead(t, p) /\ Hurries(t)))
  <2>1. CASE p \in 1..Len(states[s].line)
    <3>1. states[s].line[p] = j /\ j # i
      BY <1>10, <1>13, <1>21, <2>1
    <3>2. /\ progress[j] # "new"
          /\ Past(j) \/ (DrainAhead(states[s], p) /\ Hurries(states[s]))
      BY <1>4, <2>1, <3>1 DEF Barriers, InItsPlace
    <3>3. progress'[j] # "new"
      BY <1>8, <3>1, <3>2
    <3>4. CASE Past(j)
      BY <1>19, <3>1, <3>3, <3>4
    <3>5. CASE DrainAhead(states[s], p)
      <4>1. PICK q \in 1..(p - 1) : states[s].line[q] = Drain
        BY <3>5 DEF DrainAhead
      <4>2. q \in 1..Len(states[s].line)
        BY <1>10, <2>1
      <4>3. states[s].draining
        BY <1>4, <4>1, <4>2 DEF LineOK
      <4>4. Hurries(t)
        BY <1>5, <1>6, <4>3
      <4>5. t.line[q] = Drain
        BY <1>10, <4>1, <4>2
      <4>6. QED
        BY <3>3, <4>1, <4>4, <4>5 DEF DrainAhead
    <3>6. QED
      BY <3>2, <3>4, <3>5
  <2>2. CASE p = Len(t.line)
    <3>1. j = i
      BY <1>10, <1>21, <2>2
    <3>2. QED
      BY <1>8, <1>20, <2>2, <3>1
  <2>3. CASE p \in (Len(states[s].line) + 1)..(Len(t.line) - 1)
    BY <1>9, <1>10, <1>21, <2>3
  <2>4. QED
    BY <1>10, <2>1, <2>2, <2>3
<1>22. Barriers'
  <2>1. \A j \in Operation : progress[j] # "new" /\ Past(j) => Past(j)'
    BY <1>3, <1>19
  <2>2. \A j \in Operation : progress[j] # "new" => progress'[j] # "new"
    BY <1>3, <1>8
  <2>3. \A j \in Operation : Begun(j)' => Begun(j) \/ Past(j)'
    BY <1>8 DEF Begun
  <2>4. QED
    BY <1>3, <1>4, <1>21, <2>1, <2>2, <2>3, BarriersKept
<1>23. Orders'
  <2>1. t.line \in Seq(Jobs)
    BY <1>6 DEF StateRecord
  <2>2. current = s \/ current = NoState
    BY <1>3 DEF StateFor
  <2>3. Len(states[s].line) < Len(t.line)
    BY <1>10
  <2>4. discarded' = discarded /\ current' = s
    BY <1>3
  <2>5. QED
    BY <1>3, <1>4, <1>10, <1>13, <2>1, <2>2, <2>3, <2>4, OrdersRequested
<1>24. QED
  BY <1>3, <1>14, <1>15, <1>16, <1>17, <1>18, <1>22, <1>23 DEF CoalescerInv

LEMMA BeginOperationKeeps ==
  ASSUME CoalescerInv, NEW i \in Operation, NEW s \in State, BeginOperation(i, s)
  PROVE  CoalescerInv' /\ emitted' = emitted
<1>1. /\ states[s].line # <<>> /\ Head(states[s].line) = i /\ progress[i] = "waiting"
      /\ progress' = [progress EXCEPT ![i] = "running"]
      /\ UNCHANGED <<states, current, closed, disposed, latest, mark, settled, discarded,
                     emitted, order>>
  BY DEF BeginOperation, Runs, ghosts
<1>2. /\ Shaped /\ OneCarrier /\ Numbers /\ LatestIsKnown /\ Barriers /\ Orders
      /\ states[s] \in StateRecord
      /\ \A r \in State : LineOK(states[r])
  BY OfOneState
<1>3. states[s].line \in Seq(Jobs)
  BY <1>2 DEF StateRecord
<1>4. Len(states[s].line) \in Nat /\ Len(states[s].line) > 0 /\ states[s].line[1] = i
  BY <1>1, <1>3, HeadLeaves
<1>5. /\ progress' \in [Operation -> {"new", "waiting", "running", "done"}]
      /\ progress'[i] = "running"
      /\ \A j \in Operation \ {i} : progress'[j] = progress[j]
  BY <1>1, <1>2 DEF Shaped
<1>6. Shaped'
  BY <1>1, <1>2, <1>5 DEF Shaped
<1>7. (\A r \in State : LineOK(states[r]))' /\ OneCarrier' /\ Numbers' /\ LatestIsKnown'
  BY <1>1, <1>2 DEF OneCarrier, Numbers, LatestIsKnown
<1>8. \A j \in Operation : Past(j) => Past(j)'
  BY <1>1 DEF Past
<1>9. Past(i)
  <2>1. Past(i) \/ DrainAhead(states[s], 1)
    BY <1>2, <1>4 DEF Barriers, InItsPlace
  <2>2. ~DrainAhead(states[s], 1)
    BY DEF DrainAhead
  <2>3. QED
    BY <2>1, <2>2
<1>10. Barriers'
  <2>1. \A r \in State : InItsPlace(states[r])'
    <3>1. ASSUME NEW r \in State, NEW p \in 1..Len(states[r].line), NEW j \in Operation,
                 states[r].line[p] = j
          PROVE  progress'[j] # "new"
                 /\ (Past(j)' \/ (DrainAhead(states[r], p) /\ Hurries(states[r])))
      BY <1>2, <1>5, <1>8, <3>1 DEF Barriers, InItsPlace
    <3>2. QED
      BY <1>1, <3>1 DEF InItsPlace, DrainAhead, Hurries
  <2>2. \A j \in Operation : Begun(j)' => Begun(j) \/ j = i
    BY <1>5 DEF Begun
  <2>3. \A j \in Operation : Begun(j)' => Past(j)'
    BY <1>2, <1>8, <1>9, <2>2 DEF Barriers
  <2>4. QED
    BY <2>1, <2>3 DEF Barriers
<1>11. Orders'
  BY <1>1, <1>2, <1>4, OrdersBegun
<1>12. QED
  BY <1>1, <1>6, <1>7, <1>10, <1>11 DEF CoalescerInv

\* The job at the head of a line is over: an operation, or a drain after which
\* nothing is left that an operation waits for.
LEMMA LeaveKeeps ==
  ASSUME CoalescerInv, NEW s \in State, NEW t \in StateRecord, LineOK(t),
         states' = [states EXCEPT ![s] = t],
         Len(states[s].line) > 0, Len(t.line) = Len(states[s].line) - 1,
         \A p \in 1..Len(t.line) : t.line[p] = states[s].line[p + 1],
         \/ states[s].line[1] = Drain /\ progress' = progress
         \/ states[s].line[1] \in Operation
            /\ progress[states[s].line[1]] = "running"
            /\ progress' = [progress EXCEPT ![states[s].line[1]] = "done"],
         current' = IF s = current /\ Quiet(t) /\ t.line = <<>> THEN NoState ELSE current,
         UNCHANGED <<closed, disposed, latest, mark, discarded, emitted, order>>,
         settled' \in Nat, settled' >= settled,
         Texts(t) \subseteq Texts(states[s]),
         LastText(states[s]) = latest => LastText(t) = latest \/ settled' >= latest,
         ~Quiet(t) => ~Quiet(states[s]),
         \A p \in 1..Len(t.line), j \in Operation :
           t.line[p] = j => Past(j) \/ Past(j)' \/ (DrainAhead(t, p) /\ Hurries(t))
  PROVE  CoalescerInv'
<1>1. /\ Shaped /\ OneCarrier /\ Numbers /\ LatestIsKnown /\ Barriers /\ Orders
      /\ states[s] \in StateRecord
      /\ \A v \in Texts(states[s]) : v \in Nat /\ emitted <= v /\ v <= latest
      /\ \A r \in State : LineOK(states[r])
      /\ \A r \in State : ~disposed /\ ~Quiet(states[r]) => current = r
      /\ latest \in Nat /\ discarded \in Nat /\ emitted \in Nat
      /\ emitted <= latest /\ current \in State \cup {NoState}
  BY OfOneState
<1>2. Len(states[s].line) \in Nat
  BY <1>1, LenProperties DEF StateRecord
<1>3. /\ \A j \in Operation : progress'[j] # "new" <=> progress[j] # "new"
      /\ \A j \in Operation : Begun(j)' => Begun(j)
      /\ progress' \in [Operation -> {"new", "waiting", "running", "done"}]
  BY <1>1 DEF Shaped, Begun
<1>4. states'[s] = t /\ \A r \in State \ {s} : states'[r] = states[r]
  BY <1>1 DEF Shaped
<1>5. current' = current \/ (s = current /\ current' = NoState /\ Quiet(t) /\ t.line = <<>>)
  OBVIOUS
<1>6. Shaped'
  <2>1. states' \in [State -> StateRecord] /\ current' \in State \cup {NoState}
    BY <1>1, <1>5 DEF Shaped
  <2>2. QED
    BY <1>1, <1>3, <2>1 DEF Shaped
<1>7. \A r \in State : LineOK(states'[r])
  BY <1>1, <1>4
<1>8. OneCarrier'
  <2>1. ~Quiet(t) => \A r \in State \ {s} : Quiet(states[r])
    BY <1>1, OthersAreQuiet
  <2>2. ~disposed /\ ~Quiet(t) => current' = s
    BY <1>1, <1>5
  <2>3. \A r \in State \ {s} : ~disposed /\ ~Quiet(states[r]) => current' = r
    BY <1>1, <1>5
  <2>4. disposed' = disposed
    OBVIOUS
  <2>5. QED
    BY <1>1, <2>1, <2>2, <2>3, <2>4, CarrierKept
<1>9. Numbers'
  <2>1. /\ \A v \in Texts(t) : emitted' <= v /\ v <= latest'
        /\ \A j \in Operation : mark'[j] = mark[j]
        /\ disposed' = disposed /\ emitted' \in Nat /\ latest' \in Nat /\ discarded' \in Nat
        /\ latest' >= latest /\ emitted' <= latest' /\ discarded <= discarded'
        /\ discarded' <= latest' + 1 /\ latest' = latest /\ emitted' = emitted
    BY <1>1 DEF Numbers
  <2>2. QED
    BY <1>1, <2>1, NumbersKept
<1>10. LatestIsKnown'
  <2>1. /\ latest' = latest /\ discarded' \in Nat /\ discarded' >= discarded
        /\ LastText(states[s]) = latest =>
             LastText(t) = latest \/ settled' >= latest \/ discarded' > latest
    BY <1>1
  <2>2. QED
    BY <1>1, <2>1, LatestKept
<1>11. \A j \in Operation : Past(j) => Past(j)'
  <2>1. ASSUME NEW j \in Operation, Past(j) PROVE Past(j)'
    <3>1. /\ mark'[j] = mark[j] /\ discarded' \in Nat /\ discarded' >= discarded
          /\ disposed' = disposed /\ \A v \in Texts(t) : v \in Texts(states[s])
      BY <1>1
    <3>2. QED
      BY <1>1, <2>1, <3>1, PastKept
  <2>2. QED
    BY <2>1
<1>12. ASSUME NEW p \in 1..Len(t.line), NEW j \in Operation, t.line[p] = j
       PROVE  progress'[j] # "new" /\ (Past(j)' \/ (DrainAhead(t, p) /\ Hurries(t)))
  <2>1. p + 1 \in 1..Len(states[s].line) /\ states[s].line[p + 1] = j
    BY <1>2, <1>12
  <2>2. progress[j] # "new"
    BY <1>1, <2>1 DEF Barriers, InItsPlace
  <2>3. QED
    BY <1>3, <1>11, <1>12, <2>2
<1>13. Barriers'
  BY <1>1, <1>3, <1>11, <1>12, BarriersKept
<1>14. Orders'
  <2>1. t.line \in Seq(Jobs) /\ order' = order /\ discarded' = discarded
    BY DEF StateRecord
  <2>2. current' = current \/ (s = current /\ current' = NoState /\ t.line = <<>>)
    BY <1>5
  <2>3. QED
    BY <1>1, <2>1, <2>2, OrdersLeft
<1>15. QED
  BY <1>6, <1>7, <1>8, <1>9, <1>10, <1>13, <1>14 DEF CoalescerInv

LEMMA EndOperationKeeps ==
  ASSUME CoalescerInv, NEW i \in Operation, NEW s \in State, EndOperation(i, s)
  PROVE  CoalescerInv' /\ emitted' = emitted
<1>1. PICK t : t = [states[s] EXCEPT !.line = Tail(@)]
  OBVIOUS
<1>2. /\ states[s].line # <<>> /\ Head(states[s].line) = i /\ progress[i] = "running"
      /\ progress' = [progress EXCEPT ![i] = "done"]
      /\ states' = [states EXCEPT ![s] = t]
      /\ current' = IF s = current /\ Quiet(t) /\ t.line = <<>> THEN NoState ELSE current
      /\ UNCHANGED <<closed, disposed, latest, mark, settled, discarded, emitted, order>>
  BY <1>1 DEF EndOperation, Runs, Leaves, Becomes, Cleaned, ghosts
<1>3. /\ states[s] \in StateRecord /\ LineOK(states[s]) /\ Barriers /\ settled \in Nat
      /\ i # Drain
  BY OfOneState, ClosingOperations
<1>4. states[s].line \in Seq(Jobs)
  BY <1>3 DEF StateRecord
<1>5. /\ Len(states[s].line) \in Nat /\ Len(states[s].line) > 0 /\ states[s].line[1] = i
      /\ Len(Tail(states[s].line)) = Len(states[s].line) - 1
      /\ \A p \in 1..(Len(states[s].line) - 1) : Tail(states[s].line)[p] = states[s].line[p + 1]
  BY <1>2, <1>4, HeadLeaves
<1>6. states[s].sending = NoSnapshot
  BY <1>3, <1>5 DEF LineOK
<1>7. /\ states[s].draining \in BOOLEAN
      /\ states[s].draining <=> \E p \in 2..Len(states[s].line) : states[s].line[p] = Drain
  <2>1. \A p \in 1..Len(states[s].line) : states[s].line[p] = Drain => p \in 2..Len(states[s].line)
    BY <1>3, <1>5
  <2>2. \A p \in 2..Len(states[s].line) : p \in 1..Len(states[s].line)
    BY <1>5
  <2>3. QED
    BY <1>3, <2>1, <2>2 DEF LineOK, StateRecord
<1>8. \A p, q \in 1..Len(states[s].line) :
        states[s].line[p] = Drain /\ states[s].line[q] = Drain => p = q
  BY <1>3 DEF LineOK
<1>9. /\ t \in StateRecord /\ LineOK(t)
      /\ t.pending = states[s].pending /\ t.sending = states[s].sending
      /\ t.timer = states[s].timer /\ t.draining = states[s].draining
      /\ t.flushing = states[s].flushing /\ t.immediate = states[s].immediate
      /\ t.line = Tail(states[s].line)
  BY <1>1, <1>2, <1>3, <1>6, <1>7, <1>8, LeavingEffect
<1>10. /\ Texts(t) = Texts(states[s]) /\ LastText(t) = LastText(states[s])
       /\ Quiet(t) <=> Quiet(states[s])
       /\ Hurries(t) <=> Hurries(states[s])
  BY <1>9 DEF Texts, LastText, HasPending, Quiet, Hurries
<1>11. /\ Len(t.line) = Len(states[s].line) - 1
       /\ \A p \in 1..Len(t.line) : t.line[p] = states[s].line[p + 1]
  BY <1>5, <1>9
<1>12. ASSUME NEW p \in 1..Len(t.line), NEW j \in Operation, t.line[p] = j
       PROVE  Past(j) \/ (DrainAhead(t, p) /\ Hurries(t))
  <2>1. p + 1 \in 1..Len(states[s].line) /\ states[s].line[p + 1] = j
    BY <1>5, <1>11, <1>12
  <2>2. Past(j) \/ (DrainAhead(states[s], p + 1) /\ Hurries(states[s]))
    BY <1>3, <2>1 DEF Barriers, InItsPlace
  <2>3. CASE DrainAhead(states[s], p + 1) /\ Hurries(states[s])
    <3>1. PICK q \in 1..((p + 1) - 1) : states[s].line[q] = Drain
      BY <2>3 DEF DrainAhead
    <3>2. q # 1
      BY <1>3, <1>5, <3>1
    <3>3. q - 1 \in 1..(p - 1) /\ q - 1 \in 1..Len(t.line)
      BY <1>5, <1>11, <1>12, <3>2
    <3>4. t.line[q - 1] = Drain
      BY <1>11, <3>1, <3>3
    <3>5. QED
      BY <1>10, <2>3, <3>3, <3>4 DEF DrainAhead
  <2>4. QED
    BY <2>2, <2>3
<1>13. /\ states[s].line[1] \in Operation /\ progress[states[s].line[1]] = "running"
       /\ progress' = [progress EXCEPT ![states[s].line[1]] = "done"]
       /\ settled' \in Nat /\ settled' >= settled
       /\ UNCHANGED <<closed, disposed, latest, mark, discarded, emitted, order>>
       /\ Texts(t) \subseteq Texts(states[s])
  BY <1>2, <1>3, <1>5, <1>10
<1>14. CoalescerInv'
  BY <1>2, <1>5, <1>9, <1>10, <1>11, <1>12, <1>13, LeaveKeeps
<1>15. QED
  BY <1>2, <1>14

\* A drain leaves: it was not in a hurry, or it has sent everything.
LEMMA DrainEndsKeeps ==
  ASSUME CoalescerInv, NEW s \in State, NEW u \in StateRecord, DrainEnds(s, u),
         states[s].line # <<>>, states[s].line[1] = Drain,
         u.sending = NoSnapshot, u.line = states[s].line, u.timer = states[s].timer,
         u.flushing = states[s].flushing, u.immediate = states[s].immediate,
         Texts(u) \subseteq Texts(states[s]),
         LastText(states[s]) = latest => LastText(u) = latest \/ settled' >= latest,
         settled' \in Nat, settled' >= settled,
         UNCHANGED <<closed, disposed, latest, progress, mark, discarded, emitted, order>>,
         ~HasPending(u) \/ ~Hurries(u)
  PROVE  CoalescerInv'
<1> DEFINE w == [u EXCEPT !.draining = FALSE, !.flushing = FALSE,
                   !.timer = IF HasPending(u) /\ ~u.immediate /\ ~disposed
                             THEN "compensation" ELSE @]
<1>1. PICK t : t = [w EXCEPT !.line = Tail(@)]
  OBVIOUS
<1>2. /\ states' = [states EXCEPT ![s] = t]
      /\ current' = IF s = current /\ Quiet(t) /\ t.line = <<>> THEN NoState ELSE current
  BY <1>1 DEF DrainEnds, Leaves, Becomes, Cleaned
<1>3. /\ w \in StateRecord /\ w.pending = u.pending /\ w.sending = NoSnapshot
      /\ w.draining = FALSE /\ w.line = states[s].line
  BY DEF StateRecord
<1> HIDE DEF w
<1>4. /\ Shaped /\ OneCarrier /\ Numbers /\ LatestIsKnown /\ Barriers
      /\ states[s] \in StateRecord /\ LineOK(states[s])
      /\ \A r \in State : LineOK(states[r])
      /\ latest \in Nat /\ settled \in Nat /\ discarded \in Nat
  BY OfOneState
<1>5. states[s].line \in Seq(Jobs)
  BY <1>4 DEF StateRecord
<1>6. /\ Len(states[s].line) \in Nat /\ Len(states[s].line) > 0
      /\ Len(Tail(states[s].line)) = Len(states[s].line) - 1
      /\ \A p \in 1..(Len(states[s].line) - 1) : Tail(states[s].line)[p] = states[s].line[p + 1]
  BY <1>5, HeadLeaves
<1>7. \A p, q \in 1..Len(w.line) : w.line[p] = Drain /\ w.line[q] = Drain => p = q
  BY <1>3, <1>4 DEF LineOK
<1>8. ~ \E p \in 2..Len(w.line) : w.line[p] = Drain
  <2>1. \A p \in 2..Len(w.line) : p \in 1..Len(w.line) /\ 1 \in 1..Len(w.line) /\ p # 1
    BY <1>3, <1>6
  <2>2. QED
    BY <1>3, <1>7, <2>1
<1>9. /\ t \in StateRecord /\ LineOK(t)
      /\ t.pending = w.pending /\ t.sending = w.sending
      /\ t.line = Tail(w.line)
  <2>1. w.line # <<>>
    BY <1>3
  <2>2. FALSE <=> \E p \in 2..Len(w.line) : w.line[p] = Drain
    BY <1>8
  <2>3. QED
    BY <1>1, <1>3, <1>7, <2>1, <2>2, LeavingEffect
<1>10. /\ t.pending = u.pending /\ t.sending = u.sending
       /\ Len(t.line) = Len(states[s].line) - 1
       /\ \A p \in 1..Len(t.line) : t.line[p] = states[s].line[p + 1]
  BY <1>3, <1>6, <1>9
<1>11. /\ Texts(t) = Texts(u) /\ LastText(t) = LastText(u)
       /\ HasPending(t) <=> HasPending(u)
  BY <1>10 DEF Texts, LastText, HasPending
<1>12. ~Quiet(states[s])
  <2>1. states[s].draining
    BY <1>4, <1>6 DEF LineOK
  <2>2. QED
    BY <2>1 DEF Quiet
<1>13. \A r \in State \ {s} : Quiet(states[r]) /\ Texts(states[r]) = {} /\ LastText(states[r]) = 0
  <2>1. \A r \in State \ {s} : Quiet(states[r])
    BY <1>4, <1>12, OthersAreQuiet
  <2>2. QED
    BY <1>4, <2>1, QuietHoldsNothing DEF Shaped
<1>14. states'[s] = t /\ \A r \in State \ {s} : states'[r] = states[r]
  BY <1>2, <1>4 DEF Shaped
<1>15. ASSUME ~HasPending(u), NEW j \in Operation PROVE Past(j)'
  <2>1. Texts(u) = {} /\ LastText(u) = 0
    BY <1>15 DEF Texts, LastText, HasPending, NoSnapshot
  <2>2. settled' >= latest \/ discarded > latest
    <3>1. CASE settled >= latest \/ discarded > latest
      BY <1>4, <3>1
    <3>2. ASSUME NEW r \in State, LastText(states[r]) = latest
          PROVE  settled' >= latest
      <4>1. CASE r = s
        BY <1>4, <2>1, <3>2, <4>1
      <4>2. CASE r # s
        BY <1>4, <1>13, <3>2, <4>2
      <4>3. QED
        BY <4>1, <4>2
    <3>3. QED
      BY <1>4, <3>1, <3>2 DEF LatestIsKnown
  <2>3. mark'[j] \in Nat /\ mark'[j] <= latest /\ discarded' = discarded
    BY <1>4 DEF Shaped, Numbers
  <2>4. settled' >= mark'[j] \/ discarded' > mark'[j]
    BY <1>4, <2>2, <2>3
  <2>5. \A r \in State : Texts(states'[r]) = {}
    BY <1>11, <1>13, <1>14, <2>1
  <2>6. QED
    BY <2>4, <2>5 DEF Past
<1>16. ASSUME NEW p \in 1..Len(t.line), NEW j \in Operation, t.line[p] = j
       PROVE  Past(j) \/ Past(j)'
  <2>1. CASE ~HasPending(u)
    BY <1>15, <2>1
  <2>2. CASE ~Hurries(u)
    <3>1. p + 1 \in 1..Len(states[s].line) /\ states[s].line[p + 1] = j
      BY <1>6, <1>10, <1>16
    <3>2. Past(j) \/ Hurries(states[s])
      BY <1>4, <3>1 DEF Barriers, InItsPlace
    <3>3. ~Hurries(states[s])
      BY <2>2 DEF Hurries
    <3>4. QED
      BY <3>2, <3>3
  <2>3. QED
    BY <2>1, <2>2
<1>17. states[s].line[1] = Drain /\ progress' = progress
  OBVIOUS
<1>18. /\ UNCHANGED <<closed, disposed, latest, mark, discarded, emitted, order>>
       /\ Texts(t) \subseteq Texts(states[s])
       /\ LastText(states[s]) = latest => LastText(t) = latest \/ settled' >= latest
  BY <1>11
<1>19. QED
  BY <1>2, <1>6, <1>9, <1>10, <1>12, <1>16, <1>17, <1>18, LeaveKeeps

\* The drain at the head sends the next snapshot, or leaves.
LEMMA LoopKeeps ==
  ASSUME CoalescerInv, NEW s \in State, NEW u \in StateRecord, Loop(s, u),
         states[s].line # <<>>, states[s].line[1] = Drain,
         u.sending = NoSnapshot, u.line = states[s].line, u.timer = states[s].timer,
         u.draining = states[s].draining,
         u.flushing = states[s].flushing, u.immediate = states[s].immediate,
         Texts(u) \subseteq Texts(states[s]),
         LastText(states[s]) = latest => LastText(u) = latest \/ settled' >= latest,
         settled' \in Nat, settled' >= settled,
         UNCHANGED <<closed, disposed, latest, progress, mark, discarded, order>>
  PROVE  CoalescerInv' /\ emitted' >= emitted
<1>1. /\ Shaped /\ OneCarrier /\ Numbers
      /\ states[s] \in StateRecord /\ LineOK(states[s])
      /\ \A v \in Texts(states[s]) : v \in Nat /\ emitted <= v /\ v <= latest
      /\ \A r \in State : LineOK(states[r])
      /\ \A r \in State : ~disposed /\ ~Quiet(states[r]) => current = r
      /\ latest \in Nat /\ emitted \in Nat /\ closed \in BOOLEAN
      /\ current \in State \cup {NoState}
      /\ disposed => discarded > latest
      /\ discarded \in Nat
  BY OfOneState
<1>2. states[s].draining
  <2>1. states[s].line \in Seq(Jobs)
    BY <1>1 DEF StateRecord
  <2>2. 1 \in 1..Len(states[s].line)
    BY <2>1, HeadLeaves
  <2>3. QED
    BY <1>1, <2>2 DEF LineOK
<1>3. ~Quiet(states[s])
  BY <1>2 DEF Quiet
<1>4. \A r \in State \ {s} : Quiet(states[r]) /\ Texts(states[r]) = {}
  <2>1. \A r \in State \ {s} : Quiet(states[r])
    BY <1>1, <1>3, OthersAreQuiet
  <2>2. QED
    BY <1>1, <2>1, QuietHoldsNothing DEF Shaped
<1>5. CASE HasPending(u)
  <2>1. PICK t : t = [u EXCEPT !.sending = u.pending, !.pending = NoSnapshot]
    OBVIOUS
  <2>2. /\ states' = [states EXCEPT ![s] = t] /\ emitted' = u.pending.value
        /\ current' = current
    BY <1>5, <2>1 DEF Loop, Becomes
  <2>3. /\ t \in StateRecord /\ t.sending = u.pending /\ t.pending = NoSnapshot
        /\ t.line = states[s].line /\ t.draining = states[s].draining
        /\ t.flushing = states[s].flushing /\ t.immediate = states[s].immediate
    BY <2>1, SnapshotValues DEF StateRecord
  <2>4. LineOK(t)
    BY <1>1, <2>3 DEF LineOK
  <2>5. /\ Texts(t) = {u.pending.value} /\ u.pending.value \in Texts(u)
        /\ LastText(t) = LastText(u)
    BY <1>5, <2>3 DEF Texts, LastText, HasPending
  <2>6. emitted' \in Nat /\ emitted <= emitted' /\ emitted' <= latest
    BY <1>1, <2>2, <2>5
  <2>7. \A v \in Texts(t) : emitted' <= v /\ v <= latest' /\ v \in Texts(states[s])
    BY <2>2, <2>5, <2>6
  <2>8. Hurries(states[s]) => Hurries(t)
    BY <2>3 DEF Hurries
  <2>9. /\ latest' \in Nat /\ latest' >= latest /\ closed' \in BOOLEAN
        /\ emitted' <= latest' /\ latest' = latest /\ discarded' = discarded
        /\ current' \in State \cup {NoState}
        /\ ~disposed => current' = s
        /\ ~disposed => \A r \in State \ {s} : Quiet(states[r])
        /\ LastText(states[s]) = latest => LastText(t) = latest \/ settled' >= latest
    BY <1>1, <1>3, <1>4, <2>2, <2>5, <2>6
  <2>10. CoalescerInv'
    BY <1>4, <2>2, <2>3, <2>4, <2>6, <2>7, <2>8, <2>9, StayKeeps
  <2>11. QED
    BY <2>6, <2>10
<1>6. CASE ~HasPending(u)
  <2>1. DrainEnds(s, u) /\ emitted' = emitted
    BY <1>6 DEF Loop
  <2>2. CoalescerInv'
    BY <1>6, <2>1, DrainEndsKeeps
  <2>3. QED
    BY <1>1, <2>1, <2>2
<1>7. QED
  BY <1>5, <1>6

LEMMA BeginDrainKeeps ==
  ASSUME CoalescerInv, NEW s \in State, BeginDrain(s)
  PROVE  CoalescerInv' /\ emitted' >= emitted
<1>1. /\ states[s].line # <<>> /\ Head(states[s].line) = Drain
      /\ states[s].sending = NoSnapshot /\ Loop(s, states[s])
      /\ UNCHANGED <<closed, disposed, latest, progress, mark, settled, discarded, order>>
  BY DEF BeginDrain, Runs
<1>2. states[s] \in StateRecord /\ settled \in Nat
  BY OfOneState
<1>3. states[s].line[1] = Drain
  <2>1. states[s].line \in Seq(Jobs)
    BY <1>2 DEF StateRecord
  <2>2. QED
    BY <1>1, <2>1, HeadLeaves
<1>4. settled' \in Nat /\ settled' >= settled
  BY <1>1, <1>2
<1>5. QED
  BY <1>1, <1>2, <1>3, <1>4, LoopKeeps

\* While a snapshot is on its way the drain is at the head; its number is the
\* last of the state if nothing is pending.
LEMMA SentEffect ==
  ASSUME CoalescerInv, NEW s \in State, states[s].sending # NoSnapshot, NEW u, u = Sent(s)
  PROVE  /\ states[s].line # <<>> /\ states[s].line[1] = Drain
         /\ u \in StateRecord /\ u.sending = NoSnapshot /\ u.pending = states[s].pending
         /\ u.line = states[s].line /\ u.timer = states[s].timer
         /\ u.draining = states[s].draining
         /\ u.flushing = states[s].flushing /\ u.immediate = states[s].immediate
         /\ Texts(u) \subseteq Texts(states[s])
         /\ HasPending(states[s]) => LastText(u) = LastText(states[s])
         /\ ~HasPending(states[s]) => LastText(states[s]) = states[s].sending.value
         /\ states[s].sending.value \in Nat
         /\ states[s].sending.value \in Texts(states[s])
<1>1. states[s] \in StateRecord /\ LineOK(states[s])
  BY OfOneState
<1>2. /\ u \in StateRecord /\ u.sending = NoSnapshot /\ u.pending = states[s].pending
      /\ u.line = states[s].line /\ u.timer = states[s].timer
      /\ u.draining = states[s].draining
      /\ u.flushing = states[s].flushing /\ u.immediate = states[s].immediate
  BY <1>1, SnapshotValues DEF Sent, StateRecord
<1>3. states[s].line # <<>> /\ states[s].line[1] = Drain
  BY <1>1 DEF LineOK
<1>4. /\ Texts(u) \subseteq Texts(states[s])
      /\ HasPending(states[s]) => LastText(u) = LastText(states[s])
      /\ ~HasPending(states[s]) => LastText(states[s]) = states[s].sending.value
      /\ states[s].sending.value \in Texts(states[s])
  BY <1>2 DEF Texts, LastText, HasPending
<1>5. states[s].sending.value \in Nat
  BY <1>1 DEF StateRecord, Snapshots
<1>6. QED
  BY <1>2, <1>3, <1>4, <1>5

LEMMA DeliveredKeeps ==
  ASSUME CoalescerInv, NEW s \in State, Delivered(s)
  PROVE  CoalescerInv' /\ emitted' >= emitted
<1> DEFINE n == states[s].sending.value
<1>1. PICK u : u = Sent(s)
  OBVIOUS
<1>2. /\ states[s].sending # NoSnapshot /\ Loop(s, u)
      /\ settled' = IF n > settled THEN n ELSE settled
      /\ UNCHANGED <<closed, disposed, latest, progress, mark, discarded, order>>
  BY <1>1 DEF Delivered, Settle
<1>3. /\ states[s].line # <<>> /\ states[s].line[1] = Drain
      /\ u \in StateRecord /\ u.sending = NoSnapshot
      /\ u.line = states[s].line /\ u.timer = states[s].timer
      /\ u.draining = states[s].draining
      /\ u.flushing = states[s].flushing /\ u.immediate = states[s].immediate
      /\ Texts(u) \subseteq Texts(states[s])
      /\ HasPending(states[s]) => LastText(u) = LastText(states[s])
      /\ ~HasPending(states[s]) => LastText(states[s]) = n
      /\ n \in Nat
  BY <1>1, <1>2, SentEffect
<1> HIDE DEF n
<1>4. settled' \in Nat /\ settled' >= settled /\ settled' >= n
  <2>1. settled \in Nat
    BY OfOneState
  <2>2. QED
    BY <1>2, <1>3, <2>1
<1>5. LastText(states[s]) = latest => LastText(u) = latest \/ settled' >= latest
  BY <1>3, <1>4
<1>6. QED
  BY <1>2, <1>3, <1>4, <1>5, LoopKeeps

LEMMA RetryableKeeps ==
  ASSUME CoalescerInv, NEW s \in State, Retryable(s)
  PROVE  CoalescerInv' /\ emitted' >= emitted
<1> DEFINE sent == states[s].sending
           n == sent.value
<1>1. PICK u : u = Sent(s)
  OBVIOUS
<1>2. PICK again : again = Again(sent)
  OBVIOUS
<1>3. PICK t : t = [u EXCEPT !.pending = again]
  OBVIOUS
<1>4. /\ sent # NoSnapshot
      /\ IF Superseded(s) THEN Loop(s, u) /\ UNCHANGED settled
         ELSE IF Exhausted(again) THEN Loop(s, u) /\ Settle(n)
         ELSE IF Hurries(t) THEN Loop(s, t) /\ UNCHANGED settled
         ELSE DrainEnds(s, t) /\ UNCHANGED <<emitted, settled>>
      /\ UNCHANGED <<closed, disposed, latest, progress, mark, discarded, order>>
  BY <1>1, <1>2, <1>3 DEF Retryable
<1>5. /\ states[s].line # <<>> /\ states[s].line[1] = Drain
      /\ u \in StateRecord /\ u.sending = NoSnapshot
      /\ u.line = states[s].line /\ u.timer = states[s].timer
      /\ u.draining = states[s].draining
      /\ u.flushing = states[s].flushing /\ u.immediate = states[s].immediate
      /\ Texts(u) \subseteq Texts(states[s])
      /\ HasPending(states[s]) => LastText(u) = LastText(states[s])
      /\ ~HasPending(states[s]) => LastText(states[s]) = n
      /\ n \in Nat /\ n \in Texts(states[s])
  BY <1>1, <1>4, SentEffect
<1>6. /\ states[s] \in StateRecord /\ settled \in Nat /\ emitted \in Nat
  BY OfOneState
<1>7. sent \in Snapshots
  BY <1>6 DEF StateRecord
<1> HIDE DEF n, sent
<1>8. CASE Superseded(s)
  <2>1. Loop(s, u) /\ settled' = settled
    BY <1>4, <1>8
  <2>2. HasPending(states[s])
    BY <1>8 DEF Superseded
  <2>3. LastText(states[s]) = latest => LastText(u) = latest \/ settled' >= latest
    BY <1>5, <2>2
  <2>4. settled' \in Nat /\ settled' >= settled
    BY <1>6, <2>1
  <2>5. QED
    BY <1>4, <1>5, <2>1, <2>3, <2>4, LoopKeeps
<1>9. CASE ~Superseded(s) /\ Exhausted(again)
  <2>1. Loop(s, u) /\ settled' = IF n > settled THEN n ELSE settled
    BY <1>4, <1>9 DEF Settle
  <2>2. settled' \in Nat /\ settled' >= settled /\ settled' >= n
    BY <1>5, <1>6, <2>1
  <2>3. LastText(states[s]) = latest => LastText(u) = latest \/ settled' >= latest
    BY <1>5, <2>2
  <2>4. QED
    BY <1>4, <1>5, <2>1, <2>2, <2>3, LoopKeeps
<1>10. CASE ~Superseded(s) /\ ~Exhausted(again)
  <2>1. ~HasPending(states[s])
    BY <1>10 DEF Superseded
  <2>2. again \in Snapshots /\ again.value = n /\ again # NoSnapshot
    <3>1. /\ again = [sent EXCEPT !.failures = @ + 1]
          /\ ~(again.failures > MaxRetries) /\ MaxRetries \in Nat
      BY <1>2, <1>10, BoundsAreNatural DEF Again, Exhausted
    <3>2. again \in [value : Nat, failures : Nat] /\ again.value = n
          /\ again.failures = sent.failures + 1 /\ sent.failures \in Nat
      BY <1>7, <3>1 DEF Snapshots, n
    <3>3. again.failures \in 0..MaxRetries /\ again.failures # 0
      BY <3>1, <3>2
    <3>4. QED
      BY <3>2, <3>3 DEF Snapshots, NoSnapshot
  <2>3. /\ t \in StateRecord /\ t.pending = again /\ t.sending = NoSnapshot
        /\ t.line = states[s].line /\ t.timer = states[s].timer
        /\ t.draining = states[s].draining
        /\ t.flushing = states[s].flushing /\ t.immediate = states[s].immediate
    BY <1>3, <1>5, <2>2 DEF StateRecord
  <2>4. Texts(t) \subseteq Texts(states[s]) /\ LastText(t) = n
    BY <1>5, <2>2, <2>3 DEF Texts, LastText, HasPending
  <2>5. settled' = settled
    BY <1>4, <1>10
  <2>6. LastText(states[s]) = latest => LastText(t) = latest \/ settled' >= latest
    BY <1>5, <2>1, <2>4
  <2>7. settled' \in Nat /\ settled' >= settled
    BY <1>6, <2>5
  <2>8. CASE Hurries(t)
    <3>1. Loop(s, t)
      BY <1>4, <1>10, <2>8
    <3>2. QED
      BY <1>4, <1>5, <2>3, <2>4, <2>6, <2>7, <3>1, LoopKeeps
  <2>9. CASE ~Hurries(t)
    <3>1. DrainEnds(s, t) /\ emitted' = emitted
      BY <1>4, <1>10, <2>9
    <3>2. CoalescerInv'
      BY <1>4, <1>5, <2>3, <2>4, <2>6, <2>7, <2>9, <3>1, DrainEndsKeeps
    <3>3. QED
      BY <1>6, <3>1, <3>2
  <2>10. QED
    BY <2>8, <2>9
<1>11. QED
  BY <1>8, <1>9, <1>10

---------------------------------------------------------------------------
(* Somebody comes for a snapshot that waits                                *)

Served(t) == HasPending(t) => t.draining \/ t.timer # "none"
AllServed == ~disposed => \A s \in State : Served(states[s])

LEMMA ServedKept ==
  ASSUME CoalescerInv, AllServed, NEW s \in State, NEW t, states' = [states EXCEPT ![s] = t],
         disposed' = disposed, ~disposed /\ Served(states[s]) => Served(t)
  PROVE  AllServed'
<1>1. states'[s] = t /\ \A r \in State \ {s} : states'[r] = states[r]
  BY DEF CoalescerInv, Shaped
<1>2. ASSUME ~disposed, NEW r \in State PROVE Served(states'[r])
  BY <1>1, <1>2 DEF AllServed
<1>3. QED
  BY <1>2 DEF AllServed, Served, HasPending

LEMMA FlushedIsServed ==
  ASSUME NEW t \in StateRecord, LineOK(t)
  PROVE  Served(Flushed(Cancelled(t)))
<1>1. PICK u : u = Flushed(Cancelled(t))
  OBVIOUS
<1>2. ~u.draining => Quiet(u)
  BY <1>1, CancelledFlushed
<1>3. QED
  BY <1>1, <1>2 DEF Served, Quiet

\* A drain that leaves a snapshot behind arms the timer.
LEMMA DrainEndsServes ==
  ASSUME CoalescerInv, AllServed, NEW s \in State, NEW u \in StateRecord, DrainEnds(s, u),
         disposed' = disposed, HasPending(u) => ~u.immediate
  PROVE  AllServed'
<1> DEFINE w == [u EXCEPT !.draining = FALSE, !.flushing = FALSE,
                   !.timer = IF HasPending(u) /\ ~u.immediate /\ ~disposed
                             THEN "compensation" ELSE @]
<1>1. PICK t : t = [w EXCEPT !.line = Tail(@)]
  OBVIOUS
<1>2. states' = [states EXCEPT ![s] = t]
  BY <1>1 DEF DrainEnds, Leaves, Becomes
<1>3. w.pending = u.pending /\ (~disposed /\ HasPending(u) => w.timer = "compensation")
  BY DEF StateRecord
<1>4. t.pending = w.pending /\ t.timer = w.timer
  <2>1. w \in [pending : Snapshots, timer : {"none", "coalesce", "compensation"},
               draining : BOOLEAN, flushing : BOOLEAN, immediate : BOOLEAN,
               sending : Snapshots, line : Seq(Jobs)]
    BY DEF StateRecord
  <2> HIDE DEF w
  <2>2. QED
    BY <1>1, <2>1
<1> HIDE DEF w
<1>5. ~disposed => Served(t)
  BY <1>3, <1>4 DEF Served, HasPending
<1>6. QED
  BY <1>2, <1>5, ServedKept

LEMMA LoopServes ==
  ASSUME CoalescerInv, AllServed, NEW s \in State, NEW u \in StateRecord, Loop(s, u),
         disposed' = disposed
  PROVE  AllServed'
<1>1. CASE HasPending(u)
  <2>1. PICK t : t = [u EXCEPT !.sending = u.pending, !.pending = NoSnapshot]
    OBVIOUS
  <2>2. states' = [states EXCEPT ![s] = t] /\ t.pending = NoSnapshot
    BY <1>1, <2>1 DEF Loop, Becomes, StateRecord
  <2>3. Served(t)
    BY <2>2 DEF Served, HasPending
  <2>4. QED
    BY <2>2, <2>3, ServedKept
<1>2. CASE ~HasPending(u)
  <2>1. DrainEnds(s, u)
    BY <1>2 DEF Loop
  <2>2. QED
    BY <1>2, <2>1, DrainEndsServes
<1>3. QED
  BY <1>1, <1>2

LEMMA StepServes ==
  ASSUME CoalescerInv, AllServed, Next
  PROVE  AllServed'
<1>1. /\ states \in [State -> StateRecord]
      /\ \A s \in State : LineOK(states[s]) /\ states[s] \in StateRecord
  BY DEF CoalescerInv, Shaped
<1>2. ASSUME NEW s \in State, Schedule(s) PROVE AllServed'
  <2>1. PICK t : /\ t = [states[s] EXCEPT
                           !.pending = [value |-> latest', failures |-> 0],
                           !.timer = IF @ = "coalesce" \/ ~states[s].draining
                                     THEN "coalesce" ELSE "none"]
    OBVIOUS
  <2>2. states' = [states EXCEPT ![s] = t] /\ disposed' = disposed
    BY <1>2, <2>1 DEF Schedule, Becomes
  <2>3. t.draining = states[s].draining /\ (~t.draining => t.timer = "coalesce")
    BY <1>1, <2>1 DEF StateRecord
  <2>4. Served(t)
    BY <2>3 DEF Served
  <2>5. QED
    BY <2>2, <2>4, ServedKept
<1>3. ASSUME NEW s \in State, FireTimer(s) PROVE AllServed'
  <2>1. PICK c : c = Cancelled(states[s])
    OBVIOUS
  <2>2. PICK t : t = Drained(c, FALSE)
    OBVIOUS
  <2>3. states' = [states EXCEPT ![s] = t] /\ disposed' = disposed
    BY <1>3, <2>1, <2>2 DEF FireTimer, Becomes
  <2>4. c \in StateRecord /\ LineOK(c)
    <3>1. /\ c \in StateRecord /\ c.sending = states[s].sending /\ c.line = states[s].line
          /\ c.draining = states[s].draining
      BY <1>1, <2>1, CancelledEffect
    <3>2. LineOK(states[s])
      BY <1>1
    <3>3. QED
      BY <3>1, <3>2 DEF LineOK
  <2>5. t.draining
    BY <2>2, <2>4, DrainedEffect
  <2>6. Served(t)
    BY <2>5 DEF Served
  <2>7. QED
    BY <2>3, <2>6, ServedKept
<1>4. ASSUME NEW s \in State, BeginDrain(s) PROVE AllServed'
  BY <1>1, <1>4, LoopServes DEF BeginDrain
<1>5. ASSUME NEW s \in State, Delivered(s) PROVE AllServed'
  <2>1. Sent(s) \in StateRecord
    BY <1>5, SentEffect DEF Delivered
  <2>2. QED
    BY <1>5, <2>1, LoopServes DEF Delivered
<1>6. ASSUME NEW s \in State, Retryable(s) PROVE AllServed'
  <2>1. PICK u : u = Sent(s)
    OBVIOUS
  <2>2. PICK again : again = Again(states[s].sending)
    OBVIOUS
  <2>3. PICK t : t = [u EXCEPT !.pending = again]
    OBVIOUS
  <2>4. /\ states[s].sending # NoSnapshot /\ disposed' = disposed
        /\ \/ Loop(s, u)
           \/ ~Exhausted(again) /\ Loop(s, t)
           \/ ~Exhausted(again) /\ ~Hurries(t) /\ DrainEnds(s, t)
    BY <1>6, <2>1, <2>2, <2>3 DEF Retryable
  <2>5. u \in StateRecord
    BY <2>1, <2>4, SentEffect
  <2>6. ASSUME ~Exhausted(again) PROVE t \in StateRecord
    <3>1. states[s].sending \in Snapshots
      BY <1>1 DEF StateRecord
    <3>2. again \in Snapshots
      BY <2>2, <2>6, <3>1, BoundsAreNatural DEF Snapshots, Again, Exhausted
    <3>3. QED
      BY <2>3, <2>5, <3>2 DEF StateRecord
  <2>7. CASE Loop(s, u)
    BY <2>4, <2>5, <2>7, LoopServes
  <2>8. CASE ~Exhausted(again) /\ Loop(s, t)
    BY <2>4, <2>6, <2>8, LoopServes
  <2>9. CASE ~Exhausted(again) /\ ~Hurries(t) /\ DrainEnds(s, t)
    <3>1. ~t.immediate
      BY <2>9 DEF Hurries
    <3>2. QED
      BY <2>4, <2>6, <2>9, <3>1, DrainEndsServes
  <2>10. QED
    BY <2>4, <2>7, <2>8, <2>9
<1>7. ASSUME NEW i \in Operation, NEW s \in State, BeginOperation(i, s) PROVE AllServed'
  BY <1>7 DEF BeginOperation, AllServed
<1>8. ASSUME NEW i \in Operation, NEW s \in State, EndOperation(i, s) PROVE AllServed'
  <2>1. PICK t : t = [states[s] EXCEPT !.line = Tail(@)]
    OBVIOUS
  <2>2. states' = [states EXCEPT ![s] = t] /\ disposed' = disposed
    BY <1>8, <2>1 DEF EndOperation, Leaves, Becomes
  <2>3. t.pending = states[s].pending /\ t.timer = states[s].timer
        /\ t.draining = states[s].draining
    BY <1>1, <2>1 DEF StateRecord
  <2>4. Served(states[s]) => Served(t)
    BY <2>3 DEF Served, HasPending
  <2>5. QED
    BY <2>2, <2>4, ServedKept
<1>9. ASSUME NEW i \in Operation, NEW s \in State, FlushThen(i, s) PROVE AllServed'
  <2>1. PICK u : u = Flushed(Cancelled(states[s]))
    OBVIOUS
  <2>2. PICK t : t = [u EXCEPT !.line = Append(u.line, i)]
    OBVIOUS
  <2>3. states' = [states EXCEPT ![s] = t] /\ disposed' = disposed
    BY <1>9, <2>1, <2>2 DEF FlushThen, Becomes, Queued
  <2>4. u \in StateRecord /\ Served(u)
    BY <1>1, <2>1, CancelledFlushed, FlushedIsServed
  <2>5. t.pending = u.pending /\ t.timer = u.timer /\ t.draining = u.draining
    BY <2>2, <2>4 DEF StateRecord
  <2>6. Served(t)
    BY <2>4, <2>5 DEF Served, HasPending
  <2>7. QED
    BY <2>3, <2>6, ServedKept
<1>10. CASE Flush
  <2>1. current \in State
    BY <1>10 DEF Flush, CoalescerInv, Shaped
  <2>2. PICK t : t = Flushed(Cancelled(states[current]))
    OBVIOUS
  <2>3. states' = [states EXCEPT ![current] = t] /\ disposed' = disposed
    BY <1>10, <2>2 DEF Flush, Becomes
  <2>4. Served(t)
    BY <1>1, <2>1, <2>2, FlushedIsServed
  <2>5. QED
    BY <2>1, <2>3, <2>4, ServedKept
<1>11. CASE Clear
  <2>1. current \in State
    BY <1>11 DEF Clear, CoalescerInv, Shaped
  <2>2. PICK t : t = [Cancelled(states[current]) EXCEPT !.pending = NoSnapshot]
    OBVIOUS
  <2>3. states' = [states EXCEPT ![current] = t] /\ disposed' = disposed
    BY <1>11, <2>2 DEF Clear, Becomes
  <2>4. Cancelled(states[current]) \in StateRecord
    BY <1>1, <2>1, CancelledEffect
  <2>5. Served(t)
    BY <2>2, <2>4 DEF StateRecord, Served, HasPending
  <2>6. QED
    BY <2>1, <2>3, <2>5, ServedKept
<1>12. CASE Forget
  BY <1>12 DEF Forget, AllServed
<1>13. CASE Dispose
  BY <1>13 DEF Dispose, AllServed
<1>14. QED
  BY <1>2, <1>3, <1>4, <1>5, <1>6, <1>7, <1>8, <1>9, <1>10, <1>11, <1>12, <1>13
     DEF Next, Job

---------------------------------------------------------------------------
(* The theorems                                                            *)

LEMMA InitKeeps == Init => CoalescerInv
<1> SUFFICES ASSUME Init PROVE CoalescerInv
  OBVIOUS
<1>1. /\ states = [s \in State |-> Fresh] /\ current = NoState
      /\ closed = FALSE /\ disposed = FALSE /\ latest = 0
      /\ progress = [i \in Operation |-> "new"] /\ mark = [i \in Operation |-> 0]
      /\ settled = 0 /\ discarded = 0 /\ emitted = 0 /\ order = <<>>
  BY DEF Init
<1>2. /\ \A s \in State : states[s] = Fresh
      /\ \A i \in Operation : progress[i] = "new" /\ mark[i] = 0
      /\ Len(order) = 0 /\ DOMAIN order = {} /\ order \in Seq(Operation)
  BY <1>1
<1>3. Fresh \in StateRecord /\ LineOK(Fresh) /\ Quiet(Fresh) /\ Fresh.line = <<>>
  BY FreshIsQuiet
<1>4. Texts(Fresh) = {} /\ Len(Fresh.line) = 0
  BY <1>3, QuietHoldsNothing
<1>5. Shaped
  BY <1>1, <1>2, <1>3 DEF Shaped
<1>6. OneCarrier
  BY <1>2, <1>3 DEF OneCarrier
<1>7. Numbers
  BY <1>1, <1>2, <1>4 DEF Numbers
<1>8. LatestIsKnown
  BY <1>1 DEF LatestIsKnown
<1>9. Barriers
  BY <1>2, <1>4 DEF Barriers, InItsPlace, Begun
<1>10. Orders
  BY <1>1, <1>2, <1>3 DEF Orders, Behind, OperationsInOrder
<1>11. QED
  BY <1>2, <1>3, <1>5, <1>6, <1>7, <1>8, <1>9, <1>10 DEF CoalescerInv

LEMMA StepKeeps ==
  ASSUME CoalescerInv, Next
  PROVE  CoalescerInv' /\ emitted' >= emitted
<1>1. emitted \in Nat
  BY DEF CoalescerInv, Shaped
<1>2. emitted' = emitted => emitted' >= emitted
  BY <1>1
<1>3. ASSUME NEW s \in State, Schedule(s) PROVE CoalescerInv' /\ emitted' >= emitted
  BY <1>2, <1>3, ScheduleKeeps
<1>4. ASSUME NEW s \in State, Job(s) PROVE CoalescerInv' /\ emitted' >= emitted
  <2>1. CASE FireTimer(s)
    BY <1>2, <2>1, FireTimerKeeps
  <2>2. CASE BeginDrain(s)
    BY <2>2, BeginDrainKeeps
  <2>3. CASE Delivered(s)
    BY <2>3, DeliveredKeeps
  <2>4. CASE Retryable(s)
    BY <2>4, RetryableKeeps
  <2>5. ASSUME NEW i \in Operation, BeginOperation(i, s)
        PROVE  CoalescerInv' /\ emitted' >= emitted
    BY <1>2, <2>5, BeginOperationKeeps
  <2>6. ASSUME NEW i \in Operation, EndOperation(i, s)
        PROVE  CoalescerInv' /\ emitted' >= emitted
    BY <1>2, <2>6, EndOperationKeeps
  <2>7. QED
    BY <1>4, <2>1, <2>2, <2>3, <2>4, <2>5, <2>6 DEF Job
<1>5. ASSUME NEW i \in Operation, NEW s \in State, FlushThen(i, s)
      PROVE  CoalescerInv' /\ emitted' >= emitted
  BY <1>2, <1>5, FlushThenKeeps
<1>6. CASE Flush
  BY <1>2, <1>6, FlushKeeps
<1>7. CASE Clear
  BY <1>2, <1>7, ClearKeeps
<1>8. CASE Forget
  BY <1>2, <1>8, ForgetKeeps
<1>9. CASE Dispose
  BY <1>2, <1>9, DisposeKeeps
<1>10. QED
  BY <1>3, <1>4, <1>5, <1>6, <1>7, <1>8, <1>9 DEF Next

\* The lines, the numbers and the places of the operations hold together, and
\* somebody comes for every snapshot that waits.
THEOREM CoalescerInvariance == Spec => [](CoalescerInv /\ AllServed)
<1>1. Init => CoalescerInv /\ AllServed
  <2>1. Init => AllServed
    <3>1. HasPending(Fresh) = FALSE
      BY DEF HasPending, Fresh
    <3>2. QED
      BY <3>1 DEF Init, AllServed, Served
  <2>2. QED
    BY <2>1, InitKeeps
<1>2. (CoalescerInv /\ AllServed) /\ [Next]_vars => (CoalescerInv /\ AllServed)'
  <2>1. ASSUME CoalescerInv, AllServed, Next PROVE (CoalescerInv /\ AllServed)'
    BY <2>1, StepKeeps, StepServes
  <2>2. ASSUME CoalescerInv, AllServed, UNCHANGED vars PROVE (CoalescerInv /\ AllServed)'
    <3>1. UNCHANGED <<states, current, closed, disposed, latest, progress, mark, settled,
                      discarded, emitted, order>>
      BY <2>2 DEF vars, ghosts
    <3>2. AllServed'
      BY <2>2, <3>1 DEF AllServed
    <3>3. CoalescerInv'
      <4>1. 1 \in State
        BY BoundsAreNatural DEF State
      <4>2. states' = [states EXCEPT ![1] = states[1]]
        BY <2>2, <3>1, <4>1 DEF CoalescerInv, Shaped
      <4>3. /\ Shaped /\ Orders /\ Barriers /\ OneCarrier /\ Numbers /\ LatestIsKnown
            /\ LineOK(states[1]) /\ states[1] \in StateRecord
        BY <2>2, <4>1 DEF CoalescerInv, Shaped
      <4>4. Orders'
        BY <3>1, <4>1, <4>2, <4>3, OrdersKept
      <4>5. \A i \in Operation : Past(i) => Past(i)'
        BY <3>1 DEF Past
      <4>6. Barriers'
        BY <3>1, <4>1, <4>2, <4>3, <4>5, PlaceKept
      <4>7. Shaped' /\ OneCarrier' /\ Numbers' /\ LatestIsKnown'
        BY <3>1, <4>3 DEF Shaped, OneCarrier, Numbers, LatestIsKnown
      <4>8. (\A s \in State : LineOK(states[s]))'
        BY <2>2, <3>1 DEF CoalescerInv
      <4>9. QED
        BY <4>4, <4>6, <4>7, <4>8 DEF CoalescerInv
    <3>4. QED
      BY <3>2, <3>3
  <2>3. QED
    BY <2>1, <2>2
<1>3. QED
  BY <1>1, <1>2, PTL DEF Spec

\* No snapshot has a number that was not given, or was sent more often than the
\* code retries.
THEOREM SnapshotsAreTyped == Spec => []TypeOK
<1>1. CoalescerInv => TypeOK
  <2> SUFFICES ASSUME CoalescerInv PROVE TypeOK
    OBVIOUS
  <2>1. Shaped /\ Numbers
    BY DEF CoalescerInv
  <2>2. ASSUME NEW s \in State
        PROVE  /\ states[s].timer \in {"none", "coalesce", "compensation"}
               /\ states[s].line \in Seq(Operation \cup {Drain})
               /\ \A p \in {states[s].pending, states[s].sending} :
                    p.value \in 0..latest /\ p.failures \in 0..MaxRetries
    <3>1. states[s] \in StateRecord /\ latest \in Nat
      BY <2>1 DEF Shaped
    <3>2. ASSUME NEW p \in {states[s].pending, states[s].sending}
          PROVE  p.value \in 0..latest /\ p.failures \in 0..MaxRetries
      <4>1. p \in Snapshots
        BY <3>1 DEF StateRecord
      <4>2. p.value \in Nat /\ p.failures \in 0..MaxRetries
        BY <4>1 DEF Snapshots
      <4>3. CASE p = NoSnapshot
        BY <3>1, <4>2, <4>3 DEF NoSnapshot
      <4>4. CASE p # NoSnapshot
        <5>1. p.value \in Texts(states[s])
          BY <4>4 DEF Texts
        <5>2. p.value <= latest
          BY <2>1, <5>1 DEF Numbers
        <5>3. QED
          BY <3>1, <4>2, <5>2
      <4>5. QED
        BY <4>3, <4>4
    <3>3. QED
      BY <3>1, <3>2 DEF StateRecord, Jobs
  <2>3. QED
    BY <2>1, <2>2 DEF TypeOK, Shaped
<1>2. QED
  BY <1>1, CoalescerInvariance, PTL

\* An operation comes after the text and the operations that were there before
\* it (enqueueOperation), whatever is retried, and whoever clears or disposes.
THEOREM PlacesAreKept == Spec => []OperationsKeepTheirPlace
<1>1. CoalescerInv => OperationsKeepTheirPlace
  <2> SUFFICES ASSUME CoalescerInv PROVE OperationsKeepTheirPlace
    OBVIOUS
  <2>1. Shaped /\ Barriers /\ Orders
    BY DEF CoalescerInv
  <2>2. ASSUME NEW i \in Operation, Begun(i)
        PROVE  /\ settled >= mark[i] \/ discarded > mark[i]
               /\ ~disposed => \A s \in State : Sending(s) => states[s].sending.value > mark[i]
    <3>1. Past(i)
      BY <2>1, <2>2 DEF Barriers
    <3>2. \A s \in State : Sending(s) => states[s].sending.value \in Texts(states[s])
      BY DEF Sending, Texts
    <3>3. QED
      BY <3>1, <3>2 DEF Past
  <2>3. Barrier
    BY <2>2 DEF Barrier
  <2>4. OperationsInOrder
    BY <2>1 DEF Orders, OperationsInOrder
  <2>5. QED
    BY <2>3, <2>4 DEF OperationsKeepTheirPlace
<1>2. QED
  BY <1>1, CoalescerInvariance, PTL

\* The text never shrinks: a retry never sends an older snapshot after a newer
\* one (the loop of enqueueSnapshotDrain).
THEOREM TextNeverShrinks == Spec => NeverBackwards
<1>1. CoalescerInv /\ [Next]_vars => [emitted' >= emitted]_vars
  BY StepKeeps
<1>2. QED
  BY <1>1, CoalescerInvariance, PTL DEF Spec, NeverBackwards

\* A snapshot that waits is fetched: a drain is in line, or the timer of the
\* state in the map is armed (the finally block of enqueueSnapshotDrain).
THEOREM SnapshotsAreFetched == Spec => []NoStall
<1>1. CoalescerInv /\ AllServed => NoStall
  <2> SUFFICES ASSUME CoalescerInv, AllServed, NEW s \in State, HasPending(states[s]), ~disposed
      PROVE  states[s].draining \/ (s = current /\ states[s].timer # "none")
    BY DEF NoStall
  <2>1. s = current
    BY OfOneState DEF Quiet
  <2>2. Served(states[s])
    BY DEF AllServed
  <2>3. QED
    BY <2>1, <2>2 DEF Served
<1>2. QED
  BY <1>1, CoalescerInvariance, PTL
=============================================================================
