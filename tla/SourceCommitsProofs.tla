------------------------- MODULE SourceCommitsProofs -------------------------
(***************************************************************************)
(* Proofs about SourceCommits: Relay's watermark of the current transcript *)
(* stands above no gap, no watcher's cursor passes what Relay took, and    *)
(* one frame at a time is under way; for any sessions, rows, edits, pages  *)
(* and hellos, with connections lost and restored anywhere.                *)
(***************************************************************************)
EXTENDS SourceCommits, SequenceTheorems, FiniteSetTheorems, WellFoundedInduction, TLAPS

Versions == UNION {[D -> Nat \ {0}] : D \in SUBSET Row}
Through == 0..MaxRows
Page == [epoch : 0..MaxEpochs, through : Through, to : Through, more : BOOLEAN, rows : Versions]
Watcher ==
  [at : Positions, pending : BOOLEAN,
   cursor : [epoch : 0..MaxEpochs, through : Through, gen : Nat], rewriting : BOOLEAN,
   from : Through, page : Page, resolved : SUBSET Epoch, latest : [Epoch -> Through],
   known : [Epoch -> Nat], prints : [epoch : 0..MaxEpochs, rows : [Row -> Nat]]]
Transcript == [epoch : Epoch, rows : Seq(Nat), gen : Nat \ {0}]
SourceFrame ==
  [session : Session, epoch : Epoch, through : Through, origin : Epoch, rewriting : BOOLEAN,
   rows : Versions]

Types ==
  /\ source \in [Session -> Transcript] /\ \A s \in Session : Len(source[s].rows) <= RowsOf[s]
  /\ edits \in [Session -> Nat]
  /\ mode \in Modes \cup {NoHello} /\ watcher \in [Session -> Watcher]
  /\ gate \in Seq(Session) /\ waiting \in BOOLEAN /\ wire \in Seq(SourceFrame)
  /\ stored \in [Session -> [Epoch -> [Row -> Nat]]]
  /\ watermark \in [Session -> [Epoch -> Through]]

(* What holds of one session: its watcher w, its transcript src, what      *)
(* Relay stores of it, st, the frames wr on the wire and the mode m.       *)

Holds(f, s, e, i) == f.session = s /\ f.origin = e /\ i \in DOMAIN f.rows

Under(wr, s, e, i, v) == \E k \in DOMAIN wr : Holds(wr[k], s, e, i) /\ wr[k].rows[i] >= v

\* Relay has a row, or, where it does not say so, was sent it.
Backed(s, i, src, st, wr, m) ==
  \/ st[src.epoch][i] # 0
  \/ EventAcks \notin m /\ Under(wr, s, src.epoch, i, 1)

Shown(s, i, v, src, st, wr) == st[src.epoch][i] >= v \/ Under(wr, s, src.epoch, i, v)

Base(s, w, src, st, wr, m) ==
  /\ w \in Watcher
  /\ w.cursor.epoch <= src.epoch /\ w.prints.epoch <= src.epoch
  /\ \A e \in Epoch : e > src.epoch => w.latest[e] = 0
  /\ \A i \in Row \ Hidden : i <= w.latest[src.epoch] => Backed(s, i, src, st, wr, m)
  /\ \A i \in Row : w.prints.epoch = src.epoch /\ w.prints.rows[i] # 0 =>
       Shown(s, i, w.prints.rows[i], src, st, wr)

\* A walk: a rewrite stays below the cursor, an ordinary walk leaves nothing out.
Walks(s, w, src, st, wr, m) ==
  /\ w.cursor.epoch # 0
  /\ w.rewriting => w.cursor.through <= w.latest[w.cursor.epoch]
  /\ ~w.rewriting /\ w.cursor.epoch = src.epoch =>
       \A i \in Row \ Hidden : i <= w.from => Backed(s, i, src, st, wr, m)

\* The page leaves no row out either, and is newer than anything sent before.
PageFits(s, w, src, st, wr) ==
  /\ w.cursor.epoch <= w.page.epoch /\ w.page.epoch <= src.epoch
  /\ w.page.through = Covered(w, w.page.to)
  /\ ~w.rewriting /\ w.cursor.epoch = src.epoch =>
       \A i \in Row \ Hidden : w.from < i /\ i <= w.page.through => i \in DOMAIN w.page.rows
  /\ w.page.epoch = src.epoch =>
       \A i \in DOMAIN w.page.rows :
         /\ i \in DOMAIN src.rows /\ w.page.rows[i] <= src.rows[i]
         /\ st[src.epoch][i] <= w.page.rows[i]
         /\ \A k \in DOMAIN wr :
              Holds(wr[k], s, src.epoch, i) => wr[k].rows[i] <= w.page.rows[i]

PageIsSent(s, w, src, st, wr) ==
  w.page.epoch = src.epoch =>
    \A i \in DOMAIN w.page.rows : Shown(s, i, w.page.rows[i], src, st, wr)

Sent == {"writing", "acking"}
Paged == {"relaying", "queued", "sending"} \cup Sent
InGate == Paged \ {"relaying"}

\* Before the hello.
Unasked(w) ==
  /\ w.at \in {"off", "idle", "resolving"}
  /\ w.latest = [e \in Epoch |-> 0] /\ w.resolved = {}

Good(s, w, src, st, wr, m) ==
  /\ Base(s, w, src, st, wr, m)
  /\ w.at \in {"off", "idle", "resolving"} => ~w.rewriting
  /\ w.at = "resolving" => w.cursor.epoch # 0 /\ w.cursor.gen # 0
  /\ w.at \in {"reading"} \cup Paged => Walks(s, w, src, st, wr, m)
  /\ w.at \in Paged => PageFits(s, w, src, st, wr)
  /\ w.at \in Sent => PageIsSent(s, w, src, st, wr)
  /\ m = NoHello => Unasked(w)

\* A frame's rows are no newer than the source's, and no older than what came before.
FramesAgree(s, src, st, wr) ==
  \A k \in DOMAIN wr : wr[k].session = s =>
    /\ wr[k].epoch <= wr[k].origin /\ wr[k].origin <= src.epoch
    /\ wr[k].origin = src.epoch =>
         \A i \in DOMAIN wr[k].rows :
           /\ i \in DOMAIN src.rows /\ wr[k].rows[i] <= src.rows[i]
           /\ st[src.epoch][i] <= wr[k].rows[i]
           /\ \A l \in DOMAIN wr : k < l /\ Holds(wr[l], s, src.epoch, i) =>
                wr[k].rows[i] <= wr[l].rows[i]

\* What a frame's watermark covers is with Relay, or no later than the frame.
FramesCover(s, src, st, wr) ==
  \A k \in DOMAIN wr : wr[k].session = s /\ wr[k].epoch = src.epoch =>
    \A i \in Row \ Hidden : i <= wr[k].through =>
      st[src.epoch][i] # 0 \/ \E l \in 1..k : Holds(wr[l], s, src.epoch, i)

SourceFits(src) ==
  \A i \in DOMAIN src.rows : i \notin Hidden => src.rows[i] # 0

StoredFits(src, st) ==
  /\ \A i \in Row : st[src.epoch][i] # 0 =>
       i \in DOMAIN src.rows /\ st[src.epoch][i] <= src.rows[i]
  /\ \A e \in Epoch, i \in Row : e > src.epoch => st[e][i] = 0

WatermarkFits(src, st, wm) ==
  /\ \A i \in Row \ Hidden : i <= wm[src.epoch] => st[src.epoch][i] # 0
  /\ \A e \in Epoch : e > src.epoch => wm[e] = 0

AcksFit(s, src, st, as) ==
  \A a \in as : a.session = s =>
    /\ a.epoch <= src.epoch
    /\ a.epoch \in Epoch /\ DOMAIN a.rows \subseteq Row
    /\ a.epoch = src.epoch => \A i \in DOMAIN a.rows : st[src.epoch][i] # 0

SessionInv(s) ==
  /\ Good(s, watcher[s], source[s], stored[s], wire, mode)
  /\ FramesAgree(s, source[s], stored[s], wire)
  /\ FramesCover(s, source[s], stored[s], wire)
  /\ SourceFits(source[s]) /\ StoredFits(source[s], stored[s])
  /\ WatermarkFits(source[s], stored[s], watermark[s])
  /\ AcksFit(s, source[s], stored[s], acks)

\* The first of the gate works, the others are queued.
GateInv ==
  /\ \A s \in Session : watcher[s].at \in InGate <=> \E i \in DOMAIN gate : gate[i] = s
  /\ \A i, j \in DOMAIN gate : gate[i] = gate[j] => i = j
  /\ \A i \in DOMAIN gate : watcher[gate[i]].at = "queued" <=> i # 1
  /\ \A s \in Session : watcher[s].at = "acking" => waiting
  /\ ~up => \A s \in Session : watcher[s].at = "off"
  /\ waiting => gate # <<>> /\ Acks
  /\ mode = NoHello => wire = <<>> /\ acks = {}

\* A frame that counts as ACKed was taken, or one that showed the same rows was.
AckedInv ==
  (gate # <<>> /\ Acks /\ ~waiting) =>
    LET s == Head(gate)
        w == watcher[s]
    IN  w.cursor.epoch = source[s].epoch =>
          \A i \in DOMAIN w.page.rows : stored[s][source[s].epoch][i] # 0

OneFrameInv ==
  (Acks /\ ~givenUp) =>
    /\ Len(wire) <= 1 /\ (wire = <<>> \/ acks = {}) /\ \A a, b \in acks : a = b
    /\ (wire # <<>> \/ acks # {}) => waiting /\ watcher[Head(gate)].at \in Sent
    /\ gate # <<>> /\ watcher[Head(gate)].at = "sending" => waiting

CommitsInv ==
  /\ Types /\ GateInv /\ AckedInv /\ OneFrameInv
  /\ \A s \in Session : SessionInv(s)

---------------------------------------------------------------------------
(* Rows, and what a walk makes of a watcher                                *)

LEMMA NoRows == <<>> \in Versions /\ DOMAIN <<>> = {}
<1>1. <<>> \in Seq(Nat \ {0}) /\ Len(<<>>) = 0
  OBVIOUS
<1>2. <<>> \in [{} -> Nat \ {0}]
  OBVIOUS
<1>3. QED
  BY <1>2 DEF Versions

LEMMA VersionsAre ==
  ASSUME NEW r \in Versions
  PROVE  /\ DOMAIN r \subseteq Row
         /\ \A i \in DOMAIN r : r[i] \in Nat /\ r[i] # 0
  BY DEF Versions

LEMMA Bounds ==
  /\ MaxRows \in Nat /\ MaxEpochs \in Nat /\ MaxEpochs > 0 /\ PageLimit \in Nat /\ PageLimit > 0
  /\ \A s \in Session : RowsOf[s] \in 0..MaxRows
  BY BoundsAreNatural

LEMMA NothingIsTyped ==
  /\ NoCursor \in [epoch : 0..MaxEpochs, through : Through, gen : Nat]
  /\ NoPage \in Page /\ NoPrints \in [epoch : 0..MaxEpochs, rows : [Row -> Nat]]
<1>1. 0 \in 0..MaxEpochs /\ 0 \in Through
  BY Bounds DEF Through
<1>2. NoPage \in Page
  BY <1>1, NoRows DEF NoPage, Page
<1>3. QED
  BY <1>1, <1>2 DEF NoCursor, NoPrints

LEMMA OffIsTyped ==
  /\ Off \in Watcher /\ Off.at = "off" /\ ~Off.rewriting /\ Off.cursor.epoch = 0
  /\ Off.prints.epoch = 0 /\ Off.latest = [e \in Epoch |-> 0] /\ Off.resolved = {}
<1>1. 0 \in Through /\ "off" \in Positions
  BY Bounds DEF Through, Positions
<1>2. [e \in Epoch |-> 0] \in [Epoch -> Through] /\ [e \in Epoch |-> 0] \in [Epoch -> Nat]
  BY <1>1
<1>3. Off \in Watcher
  BY <1>1, <1>2, NothingIsTyped DEF Off, Watcher
<1>4. QED
  BY <1>3 DEF Off, NoCursor, NoPrints

\* A walk that ends leaves only what it knows.
LEMMA EndedIs ==
  ASSUME NEW w \in Watcher
  PROVE  /\ Ended(w) \in Watcher /\ Ended(w).at = "idle" /\ ~Ended(w).rewriting
         /\ Ended(w).cursor.epoch = 0 /\ Ended(w).latest = w.latest /\ Ended(w).known = w.known
         /\ Ended(w).prints = w.prints /\ Ended(w).resolved = w.resolved
<1>1. "idle" \in Positions /\ 0 \in Through
  BY Bounds DEF Positions, Through
<1>2. Ended(w) \in Watcher
  BY <1>1, NothingIsTyped DEF Ended, Watcher
<1>3. QED
  BY <1>2 DEF Ended, Watcher, NoCursor

LEMMA SucceededIs ==
  ASSUME NEW w \in Watcher, w.cursor.epoch # 0
  PROVE  /\ Succeeded(w) \in Watcher /\ Succeeded(w).at = "idle" /\ ~Succeeded(w).rewriting
         /\ Succeeded(w).cursor.epoch = 0 /\ Succeeded(w).prints = w.prints
         /\ Succeeded(w).resolved = w.resolved
         /\ \A e \in Epoch : Succeeded(w).latest[e] =
              IF e = w.cursor.epoch /\ ~w.rewriting THEN w.cursor.through ELSE w.latest[e]
<1> DEFINE v == Ended(w)
           e == w.cursor.epoch
           l == [v.latest EXCEPT ![e] = IF w.rewriting THEN @ ELSE w.cursor.through]
           k == [v.known EXCEPT ![e] = w.cursor.gen]
<1>1. v \in Watcher /\ v.at = "idle" /\ ~v.rewriting /\ v.latest = w.latest /\ v.known = w.known
      /\ v.cursor.epoch = 0 /\ v.prints = w.prints /\ v.resolved = w.resolved
  BY EndedIs
<1>2. e \in Epoch /\ w.latest \in [Epoch -> Through] /\ w.known \in [Epoch -> Nat]
      /\ w.cursor.through \in Through /\ w.cursor.gen \in Nat
  BY Bounds DEF Watcher, Epoch
<1>3. l \in [Epoch -> Through] /\ k \in [Epoch -> Nat]
  BY <1>1, <1>2
<1>4. \A x \in Epoch : l[x] = IF x = e /\ ~w.rewriting THEN w.cursor.through ELSE w.latest[x]
  BY <1>1, <1>2
<1>5. Succeeded(w) = [v EXCEPT !.latest = l, !.known = k]
  BY DEF Succeeded
<1> HIDE DEF v, l, k
<1>6. Succeeded(w) \in Watcher /\ Succeeded(w).latest = l /\ Succeeded(w).at = "idle"
      /\ ~Succeeded(w).rewriting /\ Succeeded(w).cursor.epoch = 0
      /\ Succeeded(w).prints = w.prints /\ Succeeded(w).resolved = w.resolved
  BY <1>1, <1>3, <1>5 DEF Watcher
<1>7. QED
  BY <1>4, <1>6

\* The kept fingerprints become those of the page, or stay.
LEMMA RecordedIs ==
  ASSUME NEW w \in Watcher
  PROVE  /\ Recorded(w) \in [epoch : 0..MaxEpochs, rows : [Row -> Nat]]
         /\ \/ Recorded(w) = w.prints
            \/ /\ Recorded(w).epoch = w.cursor.epoch
               /\ \A i \in Row :
                    \/ i \in DOMAIN w.page.rows /\ Recorded(w).rows[i] = w.page.rows[i]
                    \/ w.prints.epoch = w.cursor.epoch /\ Recorded(w).rows[i] = w.prints.rows[i]
                    \/ Recorded(w).rows[i] = 0
<1> DEFINE new == [i \in Row |->
                     IF i \in DOMAIN w.page.rows THEN w.page.rows[i]
                     ELSE IF w.prints.epoch = w.cursor.epoch THEN w.prints.rows[i] ELSE 0]
<1>1. /\ w.prints \in [epoch : 0..MaxEpochs, rows : [Row -> Nat]]
      /\ w.cursor.epoch \in 0..MaxEpochs /\ w.page.rows \in Versions
  BY DEF Watcher, Page
<1>2. new \in [Row -> Nat]
  BY <1>1, VersionsAre
<1>3. CASE w.rewriting /\ DOMAIN w.page.rows = {}
  BY <1>1, <1>3 DEF Recorded
<1>4. CASE ~(w.rewriting /\ DOMAIN w.page.rows = {})
  <2>1. Recorded(w) = [epoch |-> w.cursor.epoch, rows |-> new]
    BY <1>4 DEF Recorded
  <2>2. \A i \in Row :
          \/ i \in DOMAIN w.page.rows /\ new[i] = w.page.rows[i]
          \/ w.prints.epoch = w.cursor.epoch /\ new[i] = w.prints.rows[i]
          \/ new[i] = 0
    OBVIOUS
  <2> HIDE DEF new
  <2>3. QED
    BY <1>1, <1>2, <2>1, <2>2
<1>5. QED
  BY <1>3, <1>4

LEMMA LeastTracked ==
  ASSUME NEW w \in Watcher, Tracked(w) # {}
  PROVE  TrackedFrom(w) \in Row
<1> DEFINE R == OpToRel(<, Nat)
<1>1. Tracked(w) \subseteq Nat /\ Tracked(w) \subseteq Row
  BY Bounds DEF Tracked, Row
<1>2. IsWellFoundedOn(R, Nat)
  BY NatLessThanWellFounded
<1>3. \A i, j \in Nat : i < j => <<i, j>> \in R
  BY DEF OpToRel
<1>4. \E i \in Tracked(w) : \A j \in Tracked(w) : ~(<<j, i>> \in R)
  <2> HIDE DEF R
  <2>1. QED
    BY <1>1, <1>2, WFMin, Zenon
<1> HIDE DEF R
<1>5. \E i \in Tracked(w) : \A j \in Tracked(w) : ~(j < i)
  BY <1>1, <1>3, <1>4, Zenon
<1>6. \E i \in Tracked(w) : \A j \in Tracked(w) : i <= j
  BY <1>1, <1>5
<1>7. QED
  BY <1>1, <1>6 DEF TrackedFrom

\* What is known about a watcher does not hang on where its walk is.
LEMMA BaseKept ==
  ASSUME NEW s, NEW w, NEW v \in Watcher, NEW src, NEW st, NEW wr, NEW m,
         Base(s, w, src, st, wr, m), v.cursor.epoch <= src.epoch,
         v.latest = w.latest, v.prints = w.prints
  PROVE  Base(s, v, src, st, wr, m)
  BY DEF Base

LEMMA EndedGood ==
  ASSUME NEW s, NEW w, NEW src \in Transcript, NEW st, NEW wr, NEW m,
         Base(s, w, src, st, wr, m),
         m = NoHello => w.latest = [e \in Epoch |-> 0] /\ w.resolved = {}
  PROVE  Good(s, Ended(w), src, st, wr, m) /\ Ended(w).at = "idle"
<1>1. w \in Watcher /\ src.epoch \in Epoch
  BY DEF Base, Transcript
<1>2. Ended(w).cursor.epoch <= src.epoch
  BY <1>1, EndedIs DEF Epoch
<1>3. Base(s, Ended(w), src, st, wr, m)
  BY <1>1, <1>2, EndedIs, BaseKept
<1>4. m = NoHello => Unasked(Ended(w))
  BY <1>1, EndedIs DEF Unasked
<1>5. QED
  BY <1>1, <1>3, <1>4, EndedIs DEF Good, Paged, Sent

\* A walk that is complete moves the cursor over rows that Relay was shown.
LEMMA SucceededGood ==
  ASSUME NEW s, NEW w, NEW src \in Transcript, NEW st, NEW wr, NEW m,
         Base(s, w, src, st, wr, m), w.cursor.epoch # 0, m # NoHello,
         ~w.rewriting /\ w.cursor.epoch = src.epoch =>
           \A i \in Row \ Hidden : i <= w.cursor.through => Backed(s, i, src, st, wr, m)
  PROVE  Good(s, Succeeded(w), src, st, wr, m) /\ Succeeded(w).at = "idle"
<1> DEFINE v == Succeeded(w)
<1>1. w \in Watcher /\ src.epoch \in Epoch /\ w.cursor.epoch <= src.epoch
  BY DEF Base, Transcript
<1>2. /\ v \in Watcher /\ v.at = "idle" /\ ~v.rewriting /\ v.cursor.epoch = 0
      /\ v.prints = w.prints
      /\ \A e \in Epoch : v.latest[e] =
           IF e = w.cursor.epoch /\ ~w.rewriting THEN w.cursor.through ELSE w.latest[e]
  BY <1>1, SucceededIs
<1> HIDE DEF v
<1>3. \A e \in Epoch : e > src.epoch => v.latest[e] = 0
  BY <1>1, <1>2 DEF Base, Epoch
<1>4. \A i \in Row \ Hidden : i <= v.latest[src.epoch] => Backed(s, i, src, st, wr, m)
  BY <1>1, <1>2 DEF Base
<1>5. Base(s, v, src, st, wr, m)
  BY <1>1, <1>2, <1>3, <1>4 DEF Base, Epoch
<1>6. QED
  BY <1>2, <1>5 DEF Good, Paged, Sent, v

\* What a drain decides to walk over, it may.
LEMMA DecidedGood ==
  ASSUME NEW s, NEW w, NEW src \in Transcript, NEW st, NEW wr, NEW m,
         Base(s, w, src, st, wr, m), ~w.rewriting, w.cursor.epoch # 0, w.cursor.gen # 0,
         m # NoHello
  PROVE  /\ Good(s, Decided(w), src, st, wr, m)
         /\ Decided(w).at \in {"idle", "reading"}
<1> DEFINE e == w.cursor.epoch
<1>1. /\ w \in Watcher /\ src.epoch \in Epoch /\ e \in Epoch /\ e <= src.epoch
      /\ w.latest[e] \in Through /\ w.cursor.through \in Through
  BY Bounds DEF Base, Transcript, Watcher, Epoch
<1>2. ASSUME NEW v \in Watcher, v.at = "reading", v.cursor = w.cursor, v.latest = w.latest,
             v.prints = w.prints, v.rewriting => w.cursor.through <= w.latest[e],
             ~v.rewriting => v.from = w.latest[e]
      PROVE  Good(s, v, src, st, wr, m)
  <2>1. Base(s, v, src, st, wr, m)
    BY <1>1, <1>2, BaseKept
  <2>2. Walks(s, v, src, st, wr, m)
    BY <1>1, <1>2 DEF Base, Walks
  <2>3. QED
    BY <1>2, <2>1, <2>2 DEF Good, Paged, Sent
<1> "reading" \in Positions
  BY DEF Positions
<1>0. w.cursor.through > w.latest[e] <=> ~(w.cursor.through <= w.latest[e])
  BY <1>1, Bounds DEF Through
<1>3. CASE w.cursor.through > w.latest[e]
  <2> DEFINE v == [w EXCEPT !.at = "reading", !.from = w.latest[e]]
  <2>1. Decided(w) = v
    BY <1>0, <1>3 DEF Decided
  <2>2. /\ v \in Watcher /\ v.at = "reading" /\ v.cursor = w.cursor /\ v.latest = w.latest
        /\ v.prints = w.prints /\ v.rewriting = w.rewriting /\ v.from = w.latest[e]
    BY <1>1 DEF Watcher
  <2> HIDE DEF v
  <2>3. QED
    BY <1>2, <2>1, <2>2
<1>4. CASE w.cursor.through <= w.latest[e] /\ w.known[e] = w.cursor.gen
  <2>1. Decided(w) = Ended(w)
    BY <1>0, <1>4 DEF Decided
  <2>2. QED
    BY <2>1, EndedGood
<1>5. CASE w.cursor.through <= w.latest[e] /\ w.known[e] # w.cursor.gen /\ w.known[e] = 0
  <2> DEFINE k == [w.known EXCEPT ![e] = w.cursor.gen]
             x == [w EXCEPT !.known = k]
  <2>1. Decided(w) = [Ended(w) EXCEPT !.known[e] = w.cursor.gen]
    BY <1>0, <1>5 DEF Decided
  <2>2. k \in [Epoch -> Nat]
    BY <1>1 DEF Watcher
  <2>3. Decided(w) = [Ended(w) EXCEPT !.known = k]
    BY <1>1, <2>1, EndedIs
  <2> HIDE DEF k
  <2>4. x \in Watcher /\ x.latest = w.latest /\ x.prints = w.prints /\ x.cursor = w.cursor
    BY <1>1, <2>2 DEF Watcher
  <2>5. Decided(w) = Ended(x)
    BY <1>1, <2>3, EndedIs DEF Ended, Watcher
  <2>6. Base(s, x, src, st, wr, m)
    BY <1>1, <2>4, BaseKept
  <2>7. QED
    BY <2>5, <2>6, EndedGood
<1>6. CASE w.cursor.through <= w.latest[e] /\ w.known[e] # w.cursor.gen /\ w.known[e] # 0
  <2> DEFINE x == [w EXCEPT !.rewriting = TRUE]
  <2>1. Decided(w) = IF Tracked(w) = {} \/ TrackedFrom(w) > w.cursor.through THEN Succeeded(x)
                     ELSE [w EXCEPT !.at = "reading", !.rewriting = TRUE,
                                    !.from = TrackedFrom(w) - 1]
    BY <1>0, <1>6 DEF Decided
  <2>2. CASE Tracked(w) = {} \/ TrackedFrom(w) > w.cursor.through
    <3>1. /\ x \in Watcher /\ x.latest = w.latest /\ x.prints = w.prints
          /\ x.cursor = w.cursor /\ x.rewriting = TRUE
      BY <1>1 DEF Watcher
    <3>2. Base(s, x, src, st, wr, m)
      BY <1>1, <3>1, BaseKept
    <3> HIDE DEF x
    <3>3. Good(s, Succeeded(x), src, st, wr, m) /\ Succeeded(x).at = "idle"
      BY <3>1, <3>2, SucceededGood
    <3>4. QED
      BY <2>1, <2>2, <3>3
  <2>3. CASE ~(Tracked(w) = {} \/ TrackedFrom(w) > w.cursor.through)
    <3>1. TrackedFrom(w) - 1 \in Through
      BY <1>1, <2>3, LeastTracked, Bounds DEF Row, Through
    <3> DEFINE v == [w EXCEPT !.at = "reading", !.rewriting = TRUE, !.from = TrackedFrom(w) - 1]
    <3>2. Decided(w) = v
      BY <2>1, <2>3
    <3>3. /\ v \in Watcher /\ v.at = "reading" /\ v.cursor = w.cursor /\ v.latest = w.latest
          /\ v.prints = w.prints /\ v.rewriting = TRUE
      BY <1>1, <3>1 DEF Watcher
    <3> HIDE DEF v
    <3>4. QED
      BY <1>2, <1>6, <3>2, <3>3
  <2>4. QED
    BY <2>2, <2>3
<1>7. QED
  BY <1>0, <1>3, <1>4, <1>5, <1>6

\* A page that Relay was shown may be recorded, and the walk goes on behind it.
LEMMA TurnedGood ==
  ASSUME NEW s, NEW w, NEW src \in Transcript, NEW st \in [Epoch -> [Row -> Nat]], NEW wr, NEW m,
         Base(s, w, src, st, wr, m), Walks(s, w, src, st, wr, m), PageFits(s, w, src, st, wr),
         PageIsSent(s, w, src, st, wr), m # NoHello,
         ~w.rewriting /\ w.cursor.epoch = src.epoch =>
           \A i \in DOMAIN w.page.rows : i \in Row => Backed(s, i, src, st, wr, m)
  PROVE  /\ Good(s, Turned(w), src, st, wr, m)
         /\ Turned(w).at \in {"idle", "reading"}
<1> DEFINE v == [w EXCEPT !.from = w.page.to, !.prints = Recorded(w), !.page = NoPage]
<1>1. /\ w \in Watcher /\ src.epoch \in Epoch /\ w.page.to \in Through
      /\ w.cursor.through \in Through /\ w.cursor.epoch \in 0..MaxEpochs
      /\ w.page.epoch \in 0..MaxEpochs /\ w.page.rows \in Versions
  BY DEF Base, Transcript, Watcher, Page
<1>2. /\ v \in Watcher /\ v.from = w.page.to /\ v.prints = Recorded(w) /\ v.cursor = w.cursor
      /\ v.latest = w.latest /\ v.rewriting = w.rewriting
  BY <1>1, RecordedIs, NothingIsTyped DEF Watcher
<1>3. Turned(w) = IF w.page.to >= w.cursor.through THEN Succeeded(v)
                  ELSE IF w.page.more THEN [v EXCEPT !.at = "reading"] ELSE Ended(v)
  BY DEF Turned
<1> HIDE DEF v
<1>4. \A i \in Row : v.prints.epoch = src.epoch /\ v.prints.rows[i] # 0 =>
        Shown(s, i, v.prints.rows[i], src, st, wr)
  <2>1. CASE Recorded(w) = w.prints
    BY <1>2, <2>1 DEF Base
  <2>2. CASE /\ Recorded(w).epoch = w.cursor.epoch
             /\ \A i \in Row :
                  \/ i \in DOMAIN w.page.rows /\ Recorded(w).rows[i] = w.page.rows[i]
                  \/ w.prints.epoch = w.cursor.epoch /\ Recorded(w).rows[i] = w.prints.rows[i]
                  \/ Recorded(w).rows[i] = 0
    <3>1. ASSUME NEW i \in Row, v.prints.epoch = src.epoch, v.prints.rows[i] # 0
          PROVE  Shown(s, i, v.prints.rows[i], src, st, wr)
      <4>1. w.cursor.epoch = src.epoch /\ w.page.epoch = src.epoch
        BY <1>1, <1>2, <2>2, <3>1 DEF PageFits, Epoch
      <4>2. CASE i \in DOMAIN w.page.rows /\ Recorded(w).rows[i] = w.page.rows[i]
        BY <1>2, <4>1, <4>2 DEF PageIsSent
      <4>3. CASE w.prints.epoch = w.cursor.epoch /\ Recorded(w).rows[i] = w.prints.rows[i]
        BY <1>2, <3>1, <4>1, <4>3 DEF Base
      <4>4. QED
        BY <1>2, <2>2, <3>1, <4>2, <4>3
    <3>2. QED
      BY <3>1
  <2>3. QED
    BY <1>1, <2>1, <2>2, RecordedIs
<1>5. v.prints.epoch <= src.epoch
  BY <1>1, <1>2, RecordedIs DEF Base
<1>6. Base(s, v, src, st, wr, m)
  BY <1>2, <1>4, <1>5 DEF Base
<1>7. ~w.rewriting /\ w.cursor.epoch = src.epoch =>
        \A i \in Row \ Hidden : i <= w.page.through => Backed(s, i, src, st, wr, m)
  <2>1. ASSUME ~w.rewriting, w.cursor.epoch = src.epoch, NEW i \in Row \ Hidden,
               i <= w.page.through
        PROVE  Backed(s, i, src, st, wr, m)
    <3>1. CASE i <= w.from
      BY <2>1, <3>1 DEF Walks
    <3>2. CASE w.from < i
      BY <2>1, <3>2 DEF PageFits
    <3>3. w.from \in Nat /\ i \in Nat
      BY <1>1, Bounds DEF Watcher, Through, Row
    <3>4. QED
      BY <3>1, <3>2, <3>3
  <2>2. QED
    BY <2>1
<1>8. w.page.through =
        IF w.page.to <= w.cursor.through THEN w.page.to ELSE w.cursor.through
  BY DEF PageFits, Covered, Least
<1>9. CASE w.page.to >= w.cursor.through
  <2>1. w.page.through = w.cursor.through
    BY <1>1, <1>8, <1>9, Bounds DEF Through
  <2>2. v.cursor.epoch # 0
    BY <1>2 DEF Walks
  <2>3. Good(s, Succeeded(v), src, st, wr, m) /\ Succeeded(v).at = "idle"
    BY <1>2, <1>6, <1>7, <2>1, <2>2, SucceededGood
  <2>4. QED
    BY <1>3, <1>9, <2>3
<1>10. CASE ~(w.page.to >= w.cursor.through) /\ w.page.more
  <2> DEFINE u == [v EXCEPT !.at = "reading"]
  <2>1. w.page.through = w.page.to
    BY <1>1, <1>8, <1>10, Bounds DEF Through
  <2>2. "reading" \in Positions
    BY DEF Positions
  <2>3. /\ u \in Watcher /\ u.at = "reading" /\ u.cursor = w.cursor /\ u.latest = v.latest
        /\ u.prints = v.prints /\ u.rewriting = w.rewriting /\ u.from = w.page.to
    BY <1>2, <2>2 DEF Watcher
  <2>4. Turned(w) = u
    BY <1>3, <1>10
  <2> HIDE DEF u
  <2>5. Base(s, u, src, st, wr, m)
    BY <1>2, <1>6, <2>3, BaseKept DEF Base
  <2>6. Walks(s, u, src, st, wr, m)
    BY <1>2, <1>7, <2>1, <2>3 DEF Walks
  <2>7. QED
    BY <2>3, <2>4, <2>5, <2>6 DEF Good, Paged, Sent
<1>11. CASE ~(w.page.to >= w.cursor.through) /\ ~w.page.more
  BY <1>3, <1>6, <1>11, EndedGood
<1>12. QED
  BY <1>9, <1>10, <1>11

\* The next turn of a drain that waits.
LEMMA BegunGood ==
  ASSUME NEW s \in Session, NEW w, NEW st, NEW wr, NEW m, source[s] \in Transcript,
         Len(source[s].rows) \in Through, Good(s, w, source[s], st, wr, m), w.at = "idle"
  PROVE  /\ Good(s, Begun(s, w), source[s], st, wr, m)
         /\ Begun(s, w).at \in {"idle", "resolving", "reading"}
<1> DEFINE now == source[s]
           c == [epoch |-> now.epoch, through |-> Len(now.rows), gen |-> now.gen]
           v == [w EXCEPT !.pending = FALSE, !.cursor = c]
           u == [v EXCEPT !.at = "resolving"]
<1>1. /\ w \in Watcher /\ now.epoch \in Epoch /\ ~w.rewriting
      /\ m = NoHello => Unasked(w)
  BY DEF Good, Base, Transcript
<1>2. c \in [epoch : 0..MaxEpochs, through : Through, gen : Nat] /\ c.epoch = now.epoch
      /\ c.gen # 0
  BY <1>1 DEF Transcript, Epoch
<1>3. Begun(s, w) = IF now.epoch \in w.resolved THEN Decided(v) ELSE u
  BY DEF Begun
<1> HIDE DEF c
<1>4. /\ v \in Watcher /\ v.cursor = c /\ v.latest = w.latest /\ v.prints = w.prints
      /\ v.rewriting = w.rewriting /\ v.resolved = w.resolved
  BY <1>1, <1>2 DEF Watcher
<1>5. "resolving" \in Positions
  BY DEF Positions
<1>6. /\ u \in Watcher /\ u.cursor = c /\ u.latest = w.latest /\ u.prints = w.prints
      /\ u.rewriting = w.rewriting /\ u.resolved = w.resolved /\ u.at = "resolving"
  BY <1>1, <1>2, <1>5 DEF Watcher
<1> HIDE DEF u, v
<1>7. now.epoch <= now.epoch
  BY <1>1 DEF Epoch
<1>8. Base(s, v, now, st, wr, m) /\ Base(s, u, now, st, wr, m)
  <2>1. Base(s, w, now, st, wr, m)
    BY DEF Good
  <2>2. QED
    BY <1>2, <1>4, <1>6, <1>7, <2>1, BaseKept
<1>9. CASE now.epoch \in w.resolved
  <2>1. m # NoHello
    BY <1>1, <1>9 DEF Unasked
  <2>2. v.cursor.epoch # 0 /\ v.cursor.gen # 0 /\ ~v.rewriting
    BY <1>1, <1>2, <1>4 DEF Epoch
  <2>3. Good(s, Decided(v), now, st, wr, m) /\ Decided(v).at \in {"idle", "reading"}
    BY <1>8, <2>1, <2>2, DecidedGood
  <2>4. QED
    BY <1>3, <1>9, <2>3
<1>10. CASE now.epoch \notin w.resolved
  <2>1. m = NoHello => Unasked(u)
    BY <1>1, <1>6 DEF Unasked
  <2>2. Good(s, u, now, st, wr, m)
    BY <1>1, <1>2, <1>6, <1>8, <2>1 DEF Good, Paged, Sent, Epoch
  <2>3. QED
    BY <1>3, <1>6, <1>10, <2>2
<1>11. QED
  BY <1>9, <1>10

LEMMA LoopedGood ==
  ASSUME NEW s \in Session, NEW w, NEW st, NEW wr, NEW m, source[s] \in Transcript,
         Len(source[s].rows) \in Through, Good(s, w, source[s], st, wr, m)
  PROVE  /\ Good(s, Looped(s, w), source[s], st, wr, m)
         /\ w.at # "idle" => Looped(s, w) = w
         /\ w.at = "idle" => Looped(s, w).at \in {"idle", "resolving", "reading"}
  BY BegunGood DEF Looped

---------------------------------------------------------------------------
(* Moves of one watcher                                                    *)

LEMMA TypesOf ==
  ASSUME Types, NEW s \in Session
  PROVE  /\ source[s] \in Transcript /\ source[s].epoch \in Epoch
         /\ source[s].rows \in Seq(Nat) /\ Len(source[s].rows) \in Through
         /\ watcher[s] \in Watcher /\ stored[s] \in [Epoch -> [Row -> Nat]]
         /\ watermark[s] \in [Epoch -> Through]
<1>1. source[s] \in Transcript /\ Len(source[s].rows) <= RowsOf[s]
  BY DEF Types
<1>2. source[s].rows \in Seq(Nat) /\ Len(source[s].rows) \in Nat
  BY <1>1 DEF Transcript
<1>3. QED
  BY <1>1, <1>2, Bounds DEF Types, Transcript, Through

\* A watcher that is not in the gate moves, or one in the gate is told of a change.
LEMMA GateKeeps ==
  ASSUME Types, GateInv, AckedInv, OneFrameInv, NEW s \in Session, NEW v \in Watcher,
         watcher' = [watcher EXCEPT ![s] = v], up,
         UNCHANGED <<source, up, mode, gate, waiting, wire, acks, givenUp, stored>>,
         \/ watcher[s].at \notin InGate /\ v.at \notin InGate
         \/ v.at = watcher[s].at /\ v.page = watcher[s].page /\ v.cursor = watcher[s].cursor
  PROVE  GateInv' /\ AckedInv' /\ OneFrameInv'
<1>1. /\ watcher'[s] = v /\ \A t \in Session : t # s => watcher'[t] = watcher[t]
  BY DEF Types
<1>2. \A t \in Session :
        /\ watcher'[t].at \in InGate <=> watcher[t].at \in InGate
        /\ watcher[t].at \in InGate =>
             /\ watcher'[t].at = watcher[t].at /\ watcher'[t].page = watcher[t].page
             /\ watcher'[t].cursor = watcher[t].cursor
  BY <1>1
<1>3. \A i \in DOMAIN gate : gate[i] \in Session /\ watcher[gate[i]].at \in InGate
  BY DEF Types, GateInv
<1>4. gate # <<>> => Head(gate) \in Session /\ watcher[Head(gate)].at \in InGate
  <2>1. gate # <<>> => Head(gate) = gate[1] /\ 1 \in DOMAIN gate
    BY DEF Types
  <2>2. QED
    BY <1>3, <2>1
<1>5. "queued" \in InGate /\ "acking" \in InGate /\ "sending" \in InGate /\ Sent \subseteq InGate
  BY DEF InGate, Paged, Sent
<1>6. /\ \A t \in Session : watcher'[t].at \in InGate <=> \E i \in DOMAIN gate : gate[i] = t
      /\ \A i \in DOMAIN gate : watcher'[gate[i]].at = "queued" <=> i # 1
      /\ \A t \in Session : watcher'[t].at = "acking" => waiting
  BY <1>2, <1>3, <1>5 DEF GateInv
<1>7. GateInv'
  BY <1>6 DEF GateInv, Acks
<1>8. AckedInv'
  BY <1>2, <1>4 DEF AckedInv, Acks
<1>9. waiting => gate # <<>>
  BY DEF GateInv
<1>10. OneFrameInv'
  BY <1>2, <1>4, <1>5, <1>9 DEF OneFrameInv, Acks
<1>11. QED
  BY <1>7, <1>8, <1>10

\* Nothing but one watcher changes.
LEMMA BecomesKeeps ==
  ASSUME CommitsInv, NEW s \in Session, NEW w, Becomes(s, w), up,
         Good(s, w, source[s], stored[s], wire, mode),
         UNCHANGED <<source, edits, up, mode, gate, waiting, wire, acks, givenUp, relay>>,
         \/ watcher[s].at \notin InGate /\ w.at \notin InGate
         \/ w.at = watcher[s].at /\ w.page = watcher[s].page /\ w.cursor = watcher[s].cursor
  PROVE  CommitsInv'
<1> DEFINE v == Looped(s, w)
<1>1. Types
  BY DEF CommitsInv
<1>2. /\ Good(s, v, source[s], stored[s], wire, mode)
      /\ w.at # "idle" => v = w
      /\ w.at = "idle" => v.at \in {"idle", "resolving", "reading"}
  BY <1>1, TypesOf, LoopedGood
<1>3. v \in Watcher
  BY <1>2 DEF Good, Base
<1>4. watcher' = [watcher EXCEPT ![s] = v]
  BY DEF Becomes
<1> HIDE DEF v
<1>5. "idle" \notin InGate /\ "resolving" \notin InGate /\ "reading" \notin InGate
  BY DEF InGate, Paged, Sent
<1>6. \/ watcher[s].at \notin InGate /\ v.at \notin InGate
      \/ v.at = watcher[s].at /\ v.page = watcher[s].page /\ v.cursor = watcher[s].cursor
  BY <1>2, <1>5
<1>7. GateInv' /\ AckedInv' /\ OneFrameInv'
  BY <1>1, <1>3, <1>4, <1>6, GateKeeps DEF CommitsInv, relay
<1>8. watcher' \in [Session -> Watcher]
  BY <1>1, <1>3, <1>4 DEF Types
<1>9. Types'
  BY <1>1, <1>8 DEF Types, relay
<1>10. ASSUME NEW t \in Session PROVE SessionInv(t)'
  <2>1. Good(t, watcher'[t], source[t], stored[t], wire, mode)
    BY <1>1, <1>2, <1>4 DEF CommitsInv, SessionInv, Types
  <2>2. SessionInv(t)
    BY DEF CommitsInv
  <2>3. QED
    BY <2>1, <2>2 DEF SessionInv, relay
<1>11. QED
  BY <1>7, <1>9, <1>10 DEF CommitsInv

LEMMA NewWatcherIsGood ==
  ASSUME NEW s, NEW w \in Watcher, NEW src \in Transcript, NEW st, NEW wr, NEW m,
         w.at \in {"off", "idle"}, w.latest = [e \in Epoch |-> 0], w.resolved = {},
         w.prints.epoch = 0, w.cursor.epoch = 0, ~w.rewriting
  PROVE  Good(s, w, src, st, wr, m)
<1>1. src.epoch \in Epoch /\ 0 <= src.epoch /\ 0 # src.epoch
  BY DEF Transcript, Epoch
<1>2. \A i \in Row : ~(i <= 0)
  BY Bounds DEF Row
<1>3. Base(s, w, src, st, wr, m)
  BY <1>1, <1>2 DEF Base
<1>4. QED
  BY <1>3 DEF Good, Paged, Sent, Unasked

LEMMA WatchKeeps ==
  ASSUME CommitsInv, NEW s \in Session, Watch(s)
  PROVE  CommitsInv'
<1> DEFINE w == [Off EXCEPT !.at = "idle", !.pending = TRUE]
<1>1. "idle" \in Positions
  BY DEF Positions
<1>2. /\ w \in Watcher /\ w.at = "idle" /\ w.latest = [e \in Epoch |-> 0] /\ w.resolved = {}
      /\ w.prints.epoch = 0 /\ w.cursor.epoch = 0 /\ ~w.rewriting
  BY <1>1, OffIsTyped DEF Watcher
<1> HIDE DEF w
<1>3. Good(s, w, source[s], stored[s], wire, mode)
  BY <1>2, TypesOf, NewWatcherIsGood DEF CommitsInv
<1>4. Becomes(s, w) /\ up /\ watcher[s].at \notin InGate /\ w.at \notin InGate
  BY <1>2 DEF Watch, w, InGate, Paged, Sent
<1>5. QED
  BY <1>3, <1>4, BecomesKeeps DEF Watch

\* A watcher that exists has a connection.
LEMMA WatcherIsUp ==
  ASSUME CommitsInv, NEW s \in Session, watcher[s].at # "off"
  PROVE  up
  BY DEF CommitsInv, GateInv

LEMMA NotifyKeeps ==
  ASSUME CommitsInv, NEW s \in Session, Notify(s)
  PROVE  CommitsInv'
<1> DEFINE w == [watcher[s] EXCEPT !.pending = TRUE]
<1>1. watcher[s] \in Watcher /\ Good(s, watcher[s], source[s], stored[s], wire, mode)
  BY DEF CommitsInv, SessionInv, Good, Base
<1>2. /\ w \in Watcher /\ w.at = watcher[s].at /\ w.page = watcher[s].page
      /\ w.cursor = watcher[s].cursor /\ w.latest = watcher[s].latest
      /\ w.prints = watcher[s].prints /\ w.rewriting = watcher[s].rewriting
      /\ w.from = watcher[s].from /\ w.resolved = watcher[s].resolved
  BY <1>1 DEF Watcher
<1>3. Becomes(s, w) /\ up
  BY WatcherIsUp DEF Notify
<1> HIDE DEF w
<1>4. Base(s, w, source[s], stored[s], wire, mode)
  BY <1>1, <1>2 DEF Good, Base
<1>5. /\ Walks(s, w, source[s], stored[s], wire, mode)
           <=> Walks(s, watcher[s], source[s], stored[s], wire, mode)
      /\ PageFits(s, w, source[s], stored[s], wire)
           <=> PageFits(s, watcher[s], source[s], stored[s], wire)
      /\ PageIsSent(s, w, source[s], stored[s], wire)
           <=> PageIsSent(s, watcher[s], source[s], stored[s], wire)
      /\ Unasked(w) <=> Unasked(watcher[s])
  BY <1>2 DEF Walks, PageFits, PageIsSent, Unasked, Covered
<1>6. Good(s, w, source[s], stored[s], wire, mode)
  BY <1>1, <1>2, <1>4, <1>5 DEF Good
<1>7. QED
  BY <1>2, <1>3, <1>6, BecomesKeeps DEF Notify

\* A walk outside the gate ends for whatever reason.
LEMMA EndingKeeps ==
  ASSUME CommitsInv, NEW s \in Session, watcher[s].at \in {"resolving", "reading", "relaying"},
         Becomes(s, Ended(watcher[s])),
         UNCHANGED <<source, edits, up, mode, gate, waiting, wire, acks, givenUp, relay>>
  PROVE  CommitsInv'
<1>1. Good(s, watcher[s], source[s], stored[s], wire, mode) /\ source[s] \in Transcript
  BY TypesOf DEF CommitsInv, SessionInv
<1>2. Base(s, watcher[s], source[s], stored[s], wire, mode)
  BY <1>1 DEF Good
<1>3. /\ Good(s, Ended(watcher[s]), source[s], stored[s], wire, mode)
      /\ Ended(watcher[s]).at = "idle"
  BY <1>1, <1>2, EndedGood DEF Good, Unasked
<1>4. watcher[s].at \notin InGate /\ Ended(watcher[s]).at \notin InGate /\ watcher[s].at # "off"
  BY <1>3 DEF InGate, Paged, Sent
<1>5. QED
  BY <1>3, <1>4, WatcherIsUp, BecomesKeeps

LEMMA ResolveFailsKeeps ==
  ASSUME CommitsInv, NEW s \in Session, ResolveFails(s)
  PROVE  CommitsInv'
  BY EndingKeeps DEF ResolveFails

LEMMA ReadFailsKeeps ==
  ASSUME CommitsInv, NEW s \in Session, ReadFails(s)
  PROVE  CommitsInv'
  BY EndingKeeps DEF ReadFails

\* The watermark that a watcher starts from stands above no gap.
LEMMA ResolveKeeps ==
  ASSUME CommitsInv, NEW s \in Session, Resolve(s)
  PROVE  CommitsInv'
<1> DEFINE w == watcher[s]
           e == w.cursor.epoch
           l == [w.latest EXCEPT ![e] = Resumed(s, e)]
           v == [w EXCEPT !.resolved = @ \cup {e}, !.latest = l]
           src == source[s]
           st == stored[s]
<1>1. /\ w \in Watcher /\ src \in Transcript /\ src.epoch \in Epoch /\ w.at = "resolving"
      /\ mode # NoHello /\ Good(s, w, src, st, wire, mode)
      /\ watermark[s] \in [Epoch -> Through] /\ WatermarkFits(src, st, watermark[s])
  BY TypesOf DEF CommitsInv, SessionInv, Resolve
<1>2. /\ Base(s, w, src, st, wire, mode) /\ ~w.rewriting /\ e # 0 /\ w.cursor.gen # 0
      /\ e \in Epoch /\ e <= src.epoch
  BY <1>1, Bounds DEF Good, Base, Watcher, Epoch
<1>3. /\ Resumed(s, e) \in Through
      /\ e = src.epoch => \A i \in Row \ Hidden : i <= Resumed(s, e) => st[e][i] # 0
  <2>1. CASE Watermarks \in mode
    BY <1>1, <1>2, <2>1 DEF Resumed, WatermarkFits
  <2>2. CASE Watermarks \notin mode
    <3>1. Resumed(s, e) = 0 /\ 0 \in Through
      BY <2>2, Bounds DEF Resumed, Through
    <3>2. \A i \in Row : ~(i <= 0)
      BY Bounds DEF Row
    <3>3. QED
      BY <3>1, <3>2
  <2>3. QED
    BY <2>1, <2>2
<1>4. /\ l \in [Epoch -> Through] /\ l[e] = Resumed(s, e)
      /\ \A x \in Epoch : x # e => l[x] = w.latest[x]
  BY <1>2, <1>3, <1>1 DEF Watcher
<1>5. [w EXCEPT !.resolved = @ \cup {e}, !.latest[e] = Resumed(s, e)] = v
  BY <1>1 DEF Watcher
<1> HIDE DEF l
<1>6. /\ v \in Watcher /\ v.at = "resolving" /\ v.cursor = w.cursor /\ v.latest = l
      /\ v.prints = w.prints /\ v.rewriting = w.rewriting
  BY <1>1, <1>2, <1>4 DEF Watcher
<1>7. Becomes(s, Decided(v))
  BY <1>5 DEF Resolve
<1> HIDE DEF v
<1>8. /\ \A x \in Epoch : x > src.epoch => v.latest[x] = 0
      /\ \A i \in Row \ Hidden : i <= v.latest[src.epoch] => Backed(s, i, src, st, wire, mode)
  <2>1. CASE e = src.epoch
    BY <1>1, <1>2, <1>3, <1>4, <1>6, <2>1 DEF Base, Backed, Epoch
  <2>2. CASE e # src.epoch
    BY <1>1, <1>2, <1>4, <1>6, <2>2 DEF Base, Epoch
  <2>3. QED
    BY <2>1, <2>2
<1>9. Base(s, v, src, st, wire, mode)
  BY <1>2, <1>6, <1>8 DEF Base
<1>10. /\ Good(s, Decided(v), src, st, wire, mode)
       /\ Decided(v).at \in {"idle", "reading"}
  BY <1>1, <1>2, <1>6, <1>9, DecidedGood
<1>11. watcher[s].at \notin InGate /\ Decided(v).at \notin InGate /\ watcher[s].at # "off"
  BY <1>1, <1>10 DEF InGate, Paged, Sent
<1>12. QED
  BY <1>7, <1>10, <1>11, WatcherIsUp, BecomesKeeps DEF Resolve

\* A page that is read leaves nothing out, and is as new as the source.
LEMMA PageOfFits ==
  ASSUME CommitsInv, NEW s \in Session, watcher[s].at = "reading"
  PROVE  LET w == [watcher[s] EXCEPT !.page = PageOf(watcher[s], source[s])]
         IN  /\ w \in Watcher
             /\ PageFits(s, w, source[s], stored[s], wire)
<1> DEFINE v == watcher[s]
           src == source[s]
           st == stored[s]
           to == Least(v.from + PageLimit, Len(src.rows))
           last == Least(to, v.cursor.through)
           p == PageOf(v, src)
           w == [v EXCEPT !.page = p]
           W == Wanted(v, src, last)
<1>1. /\ v \in Watcher /\ src \in Transcript /\ src.epoch \in Epoch /\ src.rows \in Seq(Nat)
      /\ Len(src.rows) \in Through /\ v.from \in Through /\ v.cursor.through \in Through
      /\ v.cursor.epoch <= src.epoch /\ v.cursor.epoch \in 0..MaxEpochs
      /\ Len(src.rows) \in Nat /\ DOMAIN src.rows = 1..Len(src.rows)
  BY TypesOf DEF CommitsInv, SessionInv, Good, Base, Watcher, Transcript
<1>2. /\ to \in Through /\ to <= Len(src.rows) /\ last \in Through /\ last <= to
      /\ last <= v.cursor.through /\ last = Covered(v, to)
  <2>1. v.from + PageLimit \in Nat
    BY <1>1, Bounds DEF Through
  <2>2. to \in Through /\ to <= Len(src.rows)
    BY <1>1, <2>1, Bounds DEF Least, Through
  <2>3. last = Covered(v, to)
    BY DEF Covered
  <2> HIDE DEF to
  <2>4. last \in Through /\ last <= to /\ last <= v.cursor.through
    BY <1>1, <2>2, Bounds DEF Least, Through
  <2>5. QED
    BY <2>2, <2>3, <2>4
<1> HIDE DEF to, last
<1>3. /\ W \subseteq Row /\ W \subseteq DOMAIN src.rows
      /\ \A i \in W : src.rows[i] \in Nat /\ src.rows[i] # 0
  <2>1. \A i \in W : i \in (v.from + 1)..last /\ src.rows[i] # 0
    BY DEF Wanted
  <2>2. \A i \in (v.from + 1)..last : i \in Row /\ i \in DOMAIN src.rows
    BY <1>1, <1>2, Bounds DEF Row, Through
  <2> HIDE DEF W
  <2>3. \A i \in W : i \in Row /\ i \in DOMAIN src.rows /\ src.rows[i] # 0
    BY <2>1, <2>2
  <2>4. \A i \in DOMAIN src.rows : src.rows[i] \in Nat
    BY <1>1
  <2>5. QED
    BY <2>3, <2>4
<1>4. p = [epoch |-> src.epoch, to |-> to, through |-> Covered(v, to),
           more |-> to < Len(src.rows), rows |-> [i \in W |-> src.rows[i]]]
  BY DEF PageOf, to, last
<1>5. ~v.rewriting => \A i \in Row \ Hidden : v.from < i /\ i <= last => i \in W
  <2>1. SourceFits(src)
    BY DEF CommitsInv, SessionInv
  <2>2. ASSUME ~v.rewriting, NEW i \in Row \ Hidden, v.from < i, i <= last
        PROVE  i \in W
    <3>1. i \in Nat /\ i > 0 /\ i \in (v.from + 1)..last /\ i \in DOMAIN src.rows
      BY <1>1, <1>2, <2>2, Bounds DEF Row, Through
    <3>2. src.rows[i] # 0
      BY <2>1, <2>2, <3>1 DEF SourceFits
    <3>3. QED
      BY <2>2, <3>1, <3>2 DEF Wanted
  <2>3. QED
    BY <2>2
<1> HIDE DEF W
<1>6. [i \in W |-> src.rows[i]] \in Versions
  BY <1>3 DEF Versions
<1>7. p \in Page
  BY <1>1, <1>2, <1>4, <1>6, Bounds DEF Page, Epoch
<1> HIDE DEF p
<1>8. /\ w \in Watcher /\ w.page = p /\ w.cursor = v.cursor /\ w.rewriting = v.rewriting
      /\ w.from = v.from
  BY <1>1, <1>7 DEF Watcher
<1>9. /\ p.epoch = src.epoch /\ p.to = to /\ p.through = last /\ DOMAIN p.rows = W
      /\ \A i \in W : p.rows[i] = src.rows[i]
  BY <1>2, <1>4
<1> HIDE DEF w
<1>10. w.page.through = Covered(w, w.page.to)
  BY <1>2, <1>8, <1>9 DEF Covered
<1>11. \A i \in W : st[src.epoch][i] <= src.rows[i]
  <2>1. StoredFits(src, st) /\ st[src.epoch] \in [Row -> Nat]
    BY <1>1, TypesOf DEF CommitsInv, SessionInv
  <2>2. QED
    BY <1>3, <2>1 DEF StoredFits
<1>12. \A i \in W, k \in DOMAIN wire :
         Holds(wire[k], s, src.epoch, i) => wire[k].rows[i] <= src.rows[i]
  BY DEF CommitsInv, SessionInv, FramesAgree, Holds
<1>13. \A i \in W : src.rows[i] <= src.rows[i]
  BY <1>3
<1>14. PageFits(s, w, src, st, wire)
  BY <1>1, <1>3, <1>5, <1>8, <1>9, <1>10, <1>11, <1>12, <1>13 DEF PageFits, Epoch
<1>15. QED
  BY <1>8, <1>14 DEF w, p

LEMMA ReadPageKeeps ==
  ASSUME CommitsInv, NEW s \in Session, ReadPage(s)
  PROVE  CommitsInv'
<1> DEFINE v == watcher[s]
           p == PageOf(v, source[s])
           w == [v EXCEPT !.page = p]
           u == [w EXCEPT !.at = "relaying"]
<1>1. /\ v.at = "reading" /\ up /\ source[s] \in Transcript
      /\ stored[s] \in [Epoch -> [Row -> Nat]]
      /\ Good(s, v, source[s], stored[s], wire, mode)
  BY TypesOf, WatcherIsUp DEF ReadPage, CommitsInv, SessionInv
<1>2. w \in Watcher /\ PageFits(s, w, source[s], stored[s], wire)
  BY <1>1, PageOfFits
<1>3. "relaying" \in Positions
  BY DEF Positions
<1>4. v \in Watcher
  BY <1>1 DEF Good, Base
<1>5. Becomes(s, IF p.to = w.from THEN Ended(w)
                 ELSE IF w.rewriting /\ DOMAIN p.rows = {} THEN Turned(w) ELSE u)
  BY DEF ReadPage
<1> HIDE DEF p
<1>6. /\ w.page = p /\ w.cursor = v.cursor /\ w.rewriting = v.rewriting /\ w.from = v.from
      /\ w.latest = v.latest /\ w.prints = v.prints /\ w.resolved = v.resolved /\ w.at = "reading"
  BY <1>1, <1>4 DEF Watcher
<1>7. /\ u \in Watcher /\ u.page = p /\ u.cursor = v.cursor /\ u.rewriting = v.rewriting
      /\ u.from = v.from /\ u.latest = v.latest /\ u.prints = v.prints /\ u.at = "relaying"
  BY <1>2, <1>3, <1>6 DEF Watcher
<1> HIDE DEF w, u
<1>8. /\ Base(s, w, source[s], stored[s], wire, mode)
      /\ Walks(s, w, source[s], stored[s], wire, mode) /\ mode # NoHello
  BY <1>1, <1>2, <1>6 DEF Good, Base, Walks, Unasked
<1>9. ASSUME NEW x, Becomes(s, x), Good(s, x, source[s], stored[s], wire, mode),
             x.at \in {"idle", "reading", "relaying"}
      PROVE  CommitsInv'
  <2>1. v.at \notin InGate /\ x.at \notin InGate
    BY <1>1, <1>9 DEF InGate, Paged, Sent
  <2>2. QED
    BY <1>1, <1>9, <2>1, BecomesKeeps DEF ReadPage
<1>10. CASE p.to = w.from
  <2>1. Good(s, Ended(w), source[s], stored[s], wire, mode) /\ Ended(w).at = "idle"
    BY <1>1, <1>8, EndedGood
  <2>2. QED
    BY <1>5, <1>9, <1>10, <2>1
<1>11. CASE p.to # w.from /\ w.rewriting /\ DOMAIN p.rows = {}
  <2>1. PageIsSent(s, w, source[s], stored[s], wire)
    BY <1>6, <1>11 DEF PageIsSent
  <2>2. /\ Good(s, Turned(w), source[s], stored[s], wire, mode)
        /\ Turned(w).at \in {"idle", "reading"}
    BY <1>1, <1>2, <1>8, <1>11, <2>1, TurnedGood
  <2>3. QED
    BY <1>5, <1>9, <1>11, <2>2
<1>12. CASE p.to # w.from /\ ~(w.rewriting /\ DOMAIN p.rows = {})
  <2>1. Good(s, u, source[s], stored[s], wire, mode)
    BY <1>2, <1>6, <1>7, <1>8 DEF Good, Base, Walks, PageFits, Covered, Paged, Sent
  <2>2. QED
    BY <1>5, <1>7, <1>9, <1>12, <2>1
<1>13. QED
  BY <1>10, <1>11, <1>12

---------------------------------------------------------------------------
(* The gate                                                                *)

\* Whoever is in the gate and not queued is the first.
LEMMA FirstWorks ==
  ASSUME Types, GateInv
  PROVE  /\ \A s \in Session : watcher[s].at \in InGate \ {"queued"} =>
              gate # <<>> /\ s = Head(gate)
         /\ gate # <<>> => /\ Head(gate) \in Session
                           /\ watcher[Head(gate)].at \in InGate \ {"queued"}
<1>1. /\ DOMAIN gate = 1..Len(gate) /\ Len(gate) \in Nat
      /\ \A i \in DOMAIN gate : gate[i] \in Session
      /\ gate # <<>> => Head(gate) = gate[1] /\ 1 \in DOMAIN gate
      /\ gate = <<>> => DOMAIN gate = {}
  BY DEF Types
<1>2. ASSUME NEW s \in Session, watcher[s].at \in InGate \ {"queued"}
      PROVE  gate # <<>> /\ s = Head(gate)
  <2>1. PICK i \in DOMAIN gate : gate[i] = s
    BY <1>2 DEF GateInv
  <2>2. i = 1
    BY <1>2, <2>1 DEF GateInv
  <2>3. QED
    BY <1>1, <2>1, <2>2
<1>3. gate # <<>> => watcher[Head(gate)].at \in InGate \ {"queued"}
  BY <1>1 DEF GateInv
<1>4. QED
  BY <1>1, <1>2, <1>3

\* What Relay gets does not take back what is known of a watcher.
LEMMA GoodKept ==
  ASSUME NEW s, NEW w, NEW src \in Transcript, NEW st, NEW wr, NEW m, NEW st2, NEW wr2,
         Good(s, w, src, st, wr, m),
         \A i \in Row : Backed(s, i, src, st, wr, m) => Backed(s, i, src, st2, wr2, m),
         \A i \in Row, v \in Nat : Shown(s, i, v, src, st, wr) => Shown(s, i, v, src, st2, wr2),
         PageFits(s, w, src, st, wr) /\ w.at \in Paged => PageFits(s, w, src, st2, wr2)
  PROVE  Good(s, w, src, st2, wr2, m)
<1>1. w \in Watcher /\ w.prints.rows \in [Row -> Nat] /\ w.page.rows \in Versions
  BY DEF Good, Base, Watcher, Page
<1>2. Base(s, w, src, st2, wr2, m)
  BY <1>1 DEF Good, Base
<1>3. Walks(s, w, src, st, wr, m) => Walks(s, w, src, st2, wr2, m)
  BY DEF Walks
<1>4. PageIsSent(s, w, src, st, wr) => PageIsSent(s, w, src, st2, wr2)
  BY <1>1, VersionsAre DEF PageIsSent
<1>5. QED
  BY <1>2, <1>3, <1>4 DEF Good

LEMMA RelayedKeeps ==
  ASSUME CommitsInv, NEW s \in Session, Relayed(s)
  PROVE  CommitsInv'
<1> DEFINE w == watcher[s]
           at == IF GateIsOpen THEN "sending" ELSE "queued"
           v == [w EXCEPT !.at = at]
<1>1. /\ w.at = "relaying" /\ up /\ Types /\ GateInv /\ AckedInv /\ OneFrameInv
      /\ source[s] \in Transcript /\ stored[s] \in [Epoch -> [Row -> Nat]]
      /\ Good(s, w, source[s], stored[s], wire, mode)
  BY TypesOf, WatcherIsUp DEF Relayed, CommitsInv, SessionInv
<1>2. /\ w \in Watcher /\ Base(s, w, source[s], stored[s], wire, mode)
      /\ Walks(s, w, source[s], stored[s], wire, mode) /\ mode # NoHello
      /\ PageFits(s, w, source[s], stored[s], wire)
  BY <1>1 DEF Good, Base, Paged, Unasked
<1>3. CASE DOMAIN w.page.rows = {}
  <2>1. PageIsSent(s, w, source[s], stored[s], wire)
    BY <1>3 DEF PageIsSent
  <2>2. /\ Good(s, Turned(w), source[s], stored[s], wire, mode)
        /\ Turned(w).at \in {"idle", "reading"}
    BY <1>1, <1>2, <1>3, <2>1, TurnedGood
  <2>3. w.at \notin InGate /\ Turned(w).at \notin InGate
    BY <1>1, <2>2 DEF InGate, Paged, Sent
  <2>4. Becomes(s, Turned(w)) /\ UNCHANGED <<gate, waiting>>
    BY <1>3 DEF Relayed
  <2>5. QED
    BY <1>1, <2>2, <2>3, <2>4, BecomesKeeps DEF Relayed
<1>4. CASE DOMAIN w.page.rows # {}
  <2>1. /\ Becomes(s, v) /\ gate' = Append(gate, s)
        /\ waiting' = IF GateIsOpen THEN Acks ELSE waiting
        /\ UNCHANGED <<source, edits, up, mode, wire, acks, givenUp, relay>>
    BY <1>4 DEF Relayed
  <2>2. at \in Positions /\ at \in {"sending", "queued"}
    BY DEF Positions
  <2>3. /\ v \in Watcher /\ v.at = at /\ v.page = w.page /\ v.cursor = w.cursor
        /\ v.rewriting = w.rewriting /\ v.from = w.from /\ v.latest = w.latest
        /\ v.prints = w.prints
    BY <1>2, <2>2 DEF Watcher
  <2>4. (GateIsOpen => at = "sending") /\ (~GateIsOpen => at = "queued")
    OBVIOUS
  <2> HIDE DEF v, at
  <2>5. watcher' = [watcher EXCEPT ![s] = v]
    BY <2>1, <2>2, <2>3 DEF Becomes, Looped
  <2>6. Good(s, v, source[s], stored[s], wire, mode)
    BY <1>2, <2>2, <2>3 DEF Good, Base, Walks, PageFits, Covered, Paged, Sent
  <2>7. /\ watcher'[s] = v /\ \A t \in Session : t # s => watcher'[t] = watcher[t]
        /\ watcher' \in [Session -> Watcher]
    BY <1>1, <2>3, <2>5 DEF Types
  <2>8. /\ gate' \in Seq(Session) /\ Len(gate') = Len(gate) + 1 /\ Len(gate) \in Nat
        /\ DOMAIN gate = 1..Len(gate) /\ DOMAIN gate' = 1..(Len(gate) + 1)
        /\ \A i \in 1..Len(gate) : gate'[i] = gate[i] /\ gate[i] \in Session
        /\ gate'[Len(gate) + 1] = s /\ gate' # <<>>
        /\ Head(gate') = IF gate = <<>> THEN s ELSE Head(gate)
        /\ (gate = <<>>) <=> (Len(gate) = 0)
    BY <1>1, <2>1, AppendProperties DEF Types
  <2>9. v.at \in InGate /\ w.at \notin InGate /\ at # "acking"
    BY <1>1, <2>2, <2>3 DEF InGate, Paged, Sent
  <2>10. \A i \in 1..Len(gate) : gate[i] # s
    BY <1>1, <2>8, <2>9 DEF GateInv
  <2>11. Types'
    <3>1. waiting' \in BOOLEAN
      <4>1. Acks \in BOOLEAN
        BY DEF Acks
      <4>2. waiting \in BOOLEAN
        BY <1>1 DEF Types
      <4>3. CASE GateIsOpen
        BY <2>1, <4>1, <4>3
      <4>4. CASE ~GateIsOpen
        BY <2>1, <4>2, <4>4
      <4>5. QED
        BY <4>3, <4>4
    <3>2. QED
      BY <1>1, <2>1, <2>7, <2>8, <3>1 DEF Types, relay
  <2>12. \A t \in Session : watcher'[t].at \in InGate <=> \E i \in DOMAIN gate' : gate'[i] = t
    <3>1. ASSUME NEW t \in Session, t # s
          PROVE  (\E i \in DOMAIN gate' : gate'[i] = t) <=> \E i \in DOMAIN gate : gate[i] = t
      BY <2>8, <3>1
    <3>2. Len(gate) + 1 \in DOMAIN gate'
      BY <2>8
    <3>3. \A t \in Session : watcher[t].at \in InGate <=> \E i \in DOMAIN gate : gate[i] = t
      BY <1>1 DEF GateInv
    <3>4. QED
      BY <2>7, <2>8, <2>9, <3>1, <3>2, <3>3
  <2>13. \A i, j \in DOMAIN gate' : gate'[i] = gate'[j] => i = j
    BY <1>1, <2>8, <2>10 DEF GateInv
  <2>14. \A i \in DOMAIN gate' : watcher'[gate'[i]].at = "queued" <=> i # 1
    <3>1. ASSUME NEW i \in 1..Len(gate)
          PROVE  watcher'[gate'[i]].at = "queued" <=> i # 1
      BY <1>1, <2>7, <2>8, <2>10, <3>1 DEF GateInv
    <3>2. watcher'[gate'[Len(gate) + 1]].at = "queued" <=> Len(gate) + 1 # 1
      BY <2>2, <2>3, <2>4, <2>7, <2>8 DEF GateIsOpen
    <3>3. QED
      BY <2>8, <3>1, <3>2
  <2>15. gate = <<>> => \A t \in Session : watcher[t].at # "acking"
    BY <1>1, FirstWorks DEF InGate, Paged, Sent
  <2>16. GateInv'
    <3>1. \A t \in Session : watcher'[t].at = "acking" => waiting'
      BY <1>1, <2>1, <2>3, <2>7, <2>9, <2>15 DEF GateInv, GateIsOpen
    <3>2. waiting' => gate' # <<>> /\ Acks
      BY <1>1, <2>1, <2>8 DEF GateInv, GateIsOpen
    <3>3. QED
      BY <1>1, <2>1, <2>12, <2>13, <2>14, <3>1, <3>2 DEF GateInv, Acks
  <2>17. gate # <<>> => Head(gate) \in Session /\ Head(gate) # s
    BY <1>1, <2>9, FirstWorks
  <2>18. AckedInv'
    BY <1>1, <2>1, <2>7, <2>8, <2>17 DEF AckedInv, Acks, GateIsOpen, relay
  <2>19. OneFrameInv'
    <3>1. CASE gate = <<>>
      <4>1. ~waiting
        BY <1>1, <3>1 DEF GateInv
      <4>2. (Acks /\ ~givenUp) => wire = <<>> /\ acks = {}
        BY <1>1, <4>1 DEF OneFrameInv
      <4>3. waiting' = Acks
        BY <2>1, <3>1 DEF GateIsOpen
      <4>4. Len(<<>>) <= 1
        OBVIOUS
      <4>5. QED
        BY <2>1, <4>2, <4>3, <4>4 DEF OneFrameInv, Acks
    <3>2. CASE gate # <<>>
      BY <1>1, <2>1, <2>7, <2>8, <2>17, <3>2 DEF OneFrameInv, Acks, GateIsOpen
    <3>3. QED
      BY <3>1, <3>2
  <2>20. ASSUME NEW t \in Session PROVE SessionInv(t)'
    <3>1. Good(t, watcher'[t], source[t], stored[t], wire, mode) /\ SessionInv(t)
      BY <2>6, <2>7 DEF CommitsInv, SessionInv
    <3>2. QED
      BY <2>1, <3>1 DEF SessionInv, relay
  <2>21. QED
    BY <2>11, <2>16, <2>18, <2>19, <2>20 DEF CommitsInv
<1>5. QED
  BY <1>3, <1>4

\* The frame covers what its watermark says, and is newer than all before it.
LEMMA WriteKeeps ==
  ASSUME CommitsInv, NEW s \in Session, Write(s)
  PROVE  CommitsInv'
<1> DEFINE w == watcher[s]
           v == [w EXCEPT !.at = "writing"]
           f == Frame(s)
           n == Len(wire) + 1
           src == source[s]
           st == stored[s]
<1>1. /\ w.at = "sending" /\ up /\ Types /\ GateInv /\ AckedInv /\ OneFrameInv
      /\ src \in Transcript /\ src.epoch \in Epoch /\ st \in [Epoch -> [Row -> Nat]]
      /\ Good(s, w, src, st, wire, mode)
  BY TypesOf, WatcherIsUp DEF Write, CommitsInv, SessionInv
<1>2. /\ w \in Watcher /\ Base(s, w, src, st, wire, mode) /\ mode # NoHello
      /\ Walks(s, w, src, st, wire, mode) /\ PageFits(s, w, src, st, wire)
  BY <1>1 DEF Good, Base, Paged, Unasked
<1>3. "writing" \in Positions
  BY DEF Positions
<1>4. /\ v \in Watcher /\ v.at = "writing" /\ v.page = w.page /\ v.cursor = w.cursor
      /\ v.rewriting = w.rewriting /\ v.from = w.from /\ v.latest = w.latest
      /\ v.prints = w.prints
  BY <1>2, <1>3 DEF Watcher
<1> HIDE DEF v
<1>5. watcher' = [watcher EXCEPT ![s] = v]
  BY <1>4 DEF Write, Becomes, Looped, v
<1>6. /\ watcher'[s] = v /\ \A t \in Session : t # s => watcher'[t] = watcher[t]
      /\ watcher' \in [Session -> Watcher]
  BY <1>1, <1>4, <1>5 DEF Types
<1>7. /\ f.session = s /\ f.epoch = w.cursor.epoch /\ f.through = w.page.through
      /\ f.origin = w.page.epoch /\ f.rewriting = w.rewriting /\ f.rows = w.page.rows
      /\ f \in SourceFrame
  <2>1. f = [session |-> s, epoch |-> w.cursor.epoch, through |-> w.page.through,
             origin |-> w.page.epoch, rewriting |-> w.rewriting, rows |-> w.page.rows]
    BY DEF Frame
  <2>2. w.cursor.epoch \in Epoch /\ w.page.epoch \in Epoch
    BY <1>1, <1>2, Bounds DEF Walks, PageFits, Watcher, Page, Epoch
  <2>3. w.page.through \in Through /\ w.page.rows \in Versions /\ w.rewriting \in BOOLEAN
    BY <1>2 DEF Watcher, Page
  <2>4. QED
    BY <2>1, <2>2, <2>3 DEF SourceFrame
<1> HIDE DEF f
<1>8. /\ wire' \in Seq(SourceFrame) /\ Len(wire') = n /\ n \in Nat /\ Len(wire) \in Nat
      /\ DOMAIN wire = 1..Len(wire) /\ DOMAIN wire' = 1..n
      /\ \A k \in DOMAIN wire : wire'[k] = wire[k] /\ k \in DOMAIN wire' /\ k < n
      /\ wire'[n] = f /\ n \in DOMAIN wire' /\ \A k \in DOMAIN wire' : k = n \/ k \in DOMAIN wire
  <2>1. wire' = Append(wire, f) /\ wire \in Seq(SourceFrame)
    BY <1>1 DEF Write, f, Types
  <2>2. QED
    BY <1>7, <2>1, AppendProperties
<1> HIDE DEF n
<1>9. UNCHANGED <<source, edits, up, mode, gate, waiting, acks, givenUp, relay>>
  BY DEF Write
<1>10. \A t, e, i, x : Under(wire, t, e, i, x) => Under(wire', t, e, i, x)
  BY <1>8 DEF Under
<1>11. ASSUME NEW t \in Session
       PROVE  Good(t, watcher[t], source[t], stored[t], wire', mode)
  <2>1. Good(t, watcher[t], source[t], stored[t], wire, mode) /\ source[t] \in Transcript
    BY <1>1, TypesOf DEF CommitsInv, SessionInv
  <2>2. \A i \in Row : Backed(t, i, source[t], stored[t], wire, mode) =>
          Backed(t, i, source[t], stored[t], wire', mode)
    BY <1>10 DEF Backed
  <2>3. \A i \in Row, x \in Nat : Shown(t, i, x, source[t], stored[t], wire) =>
          Shown(t, i, x, source[t], stored[t], wire')
    BY <1>10 DEF Shown
  <2>4. PageFits(t, watcher[t], source[t], stored[t], wire) =>
          PageFits(t, watcher[t], source[t], stored[t], wire')
    <3>1. ASSUME PageFits(t, watcher[t], source[t], stored[t], wire),
                 watcher[t].page.epoch = source[t].epoch,
                 NEW i \in DOMAIN watcher[t].page.rows, NEW k \in DOMAIN wire',
                 Holds(wire'[k], t, source[t].epoch, i)
          PROVE  wire'[k].rows[i] <= watcher[t].page.rows[i]
      <4>1. CASE k \in DOMAIN wire
        BY <1>8, <3>1, <4>1 DEF PageFits
      <4>2. CASE k = n
        <5>1. t = s /\ wire'[k].rows[i] = w.page.rows[i]
          BY <1>7, <1>8, <3>1, <4>2 DEF Holds
        <5>2. w.page.rows[i] \in Nat
          BY <1>2, <3>1, <5>1, VersionsAre DEF Watcher, Page
        <5>3. QED
          BY <5>1, <5>2
      <4>3. QED
        BY <1>8, <4>1, <4>2
    <3>2. QED
      BY <3>1 DEF PageFits
  <2>5. QED
    BY <2>1, <2>2, <2>3, <2>4, GoodKept
<1>12. \A i \in DOMAIN w.page.rows : w.page.rows[i] \in Nat
  BY <1>2, VersionsAre DEF Watcher, Page
<1>13. Good(s, v, src, st, wire', mode)
  <2>1. Good(s, w, src, st, wire', mode)
    BY <1>11
  <2>2. PageIsSent(s, w, src, st, wire')
    <3>1. ASSUME w.page.epoch = src.epoch, NEW i \in DOMAIN w.page.rows
          PROVE  Under(wire', s, src.epoch, i, w.page.rows[i])
      <4>1. w.page.rows[i] >= w.page.rows[i]
        BY <1>12
      <4>2. QED
        BY <1>7, <1>8, <3>1, <4>1 DEF Under, Holds
    <3>2. QED
      BY <3>1 DEF PageIsSent, Shown
  <2>3. QED
    BY <1>1, <1>2, <1>4, <2>1, <2>2
       DEF Good, Base, Walks, PageFits, PageIsSent, Covered, Paged, Sent
<1>14. ASSUME NEW t \in Session
       PROVE  FramesAgree(t, source[t], stored[t], wire')
  <2>1. FramesAgree(t, source[t], stored[t], wire)
    BY DEF CommitsInv, SessionInv
  <2>2. ASSUME NEW k \in DOMAIN wire', wire'[k].session = t
        PROVE  wire'[k].epoch <= wire'[k].origin /\ wire'[k].origin <= source[t].epoch
    BY <1>2, <1>7, <1>8, <2>1, <2>2 DEF FramesAgree, PageFits
  <2>3. ASSUME NEW k \in DOMAIN wire', wire'[k].session = t, wire'[k].origin = source[t].epoch,
               NEW i \in DOMAIN wire'[k].rows
        PROVE  /\ i \in DOMAIN source[t].rows /\ wire'[k].rows[i] <= source[t].rows[i]
               /\ stored[t][source[t].epoch][i] <= wire'[k].rows[i]
    BY <1>2, <1>7, <1>8, <2>1, <2>3 DEF FramesAgree, PageFits
  <2>4. ASSUME NEW k \in DOMAIN wire', wire'[k].session = t, wire'[k].origin = source[t].epoch,
               NEW i \in DOMAIN wire'[k].rows, NEW l \in DOMAIN wire', k < l,
               Holds(wire'[l], t, source[t].epoch, i)
        PROVE  wire'[k].rows[i] <= wire'[l].rows[i]
    <3>1. k \in DOMAIN wire
      BY <1>8, <2>4
    <3>2. CASE l \in DOMAIN wire
      BY <1>8, <2>1, <2>4, <3>1, <3>2 DEF FramesAgree, Holds
    <3>3. CASE l = n
      <4>1. t = s /\ w.page.epoch = src.epoch /\ i \in DOMAIN w.page.rows
            /\ wire'[l].rows[i] = w.page.rows[i]
        BY <1>7, <1>8, <2>4, <3>3 DEF Holds
      <4>2. Holds(wire[k], s, src.epoch, i)
        BY <1>8, <2>4, <3>1, <4>1 DEF Holds
      <4>3. QED
        BY <1>2, <1>8, <3>1, <4>1, <4>2 DEF PageFits
    <3>4. QED
      BY <1>8, <3>2, <3>3
  <2>5. QED
    BY <2>2, <2>3, <2>4 DEF FramesAgree
<1>15. ASSUME NEW t \in Session
       PROVE  FramesCover(t, source[t], stored[t], wire')
  <2>1. FramesCover(t, source[t], stored[t], wire)
    BY DEF CommitsInv, SessionInv
  <2>2. ASSUME NEW k \in DOMAIN wire', wire'[k].session = t, wire'[k].epoch = source[t].epoch,
               NEW i \in Row \ Hidden, i <= wire'[k].through,
               stored[t][source[t].epoch][i] = 0
        PROVE  \E l \in 1..k : Holds(wire'[l], t, source[t].epoch, i)
    <3>1. CASE k \in DOMAIN wire
      <4>1. PICK l \in 1..k : Holds(wire[l], t, source[t].epoch, i)
        BY <1>8, <2>1, <2>2, <3>1 DEF FramesCover
      <4>2. l \in DOMAIN wire
        BY <1>8, <3>1
      <4>3. QED
        BY <1>8, <4>1, <4>2
    <3>2. CASE k = n
      <4>1. t = s /\ w.cursor.epoch = src.epoch /\ i <= w.page.through
        BY <1>7, <1>8, <2>2, <3>2
      <4>2. w.page.epoch = src.epoch
        <5>1. w.cursor.epoch <= w.page.epoch /\ w.page.epoch <= src.epoch
          BY <1>2 DEF PageFits
        <5>2. w.page.epoch \in Nat /\ src.epoch \in Nat
          BY <1>1, <1>2, Bounds DEF Watcher, Page, Epoch
        <5>3. QED
          BY <4>1, <5>1, <5>2
      <4>3. ASSUME Under(wire, s, src.epoch, i, 1)
            PROVE  \E l \in 1..k : Holds(wire'[l], t, source[t].epoch, i)
        <5>1. PICK l \in DOMAIN wire : Holds(wire[l], s, src.epoch, i)
          BY <4>3 DEF Under
        <5>2. l \in 1..k
          BY <1>8, <3>2
        <5>3. QED
          BY <1>8, <4>1, <5>1, <5>2
      <4>4. ASSUME Backed(s, i, src, st, wire, mode)
            PROVE  \E l \in 1..k : Holds(wire'[l], t, source[t].epoch, i)
        BY <2>2, <4>1, <4>3, <4>4 DEF Backed
      <4>5. ASSUME i \in DOMAIN w.page.rows
            PROVE  \E l \in 1..k : Holds(wire'[l], t, source[t].epoch, i)
        <5>1. k \in 1..k /\ Holds(wire'[k], t, source[t].epoch, i)
          BY <1>7, <1>8, <3>2, <4>1, <4>2, <4>5 DEF Holds
        <5>2. QED
          BY <5>1
      <4>6. /\ i \in Nat /\ w.from \in Nat /\ w.page.to \in Nat /\ w.cursor.through \in Nat
            /\ w.latest[src.epoch] \in Nat
        <5>1. /\ w.from \in Through /\ w.page \in Page /\ w.cursor.through \in Through
              /\ w.latest \in [Epoch -> Through]
          BY <1>2 DEF Watcher
        <5>2. w.page.to \in Through /\ w.latest[src.epoch] \in Through
          BY <1>1, <5>1 DEF Page
        <5>3. Through \subseteq Nat /\ Row \subseteq Nat
          BY Bounds DEF Through, Row
        <5>4. QED
          BY <5>1, <5>2, <5>3
      <4>7. CASE w.rewriting
        <5>1. i <= w.cursor.through
          BY <1>2, <4>1, <4>6 DEF PageFits, Covered, Least
        <5>2. i <= w.latest[src.epoch]
          BY <1>2, <4>1, <4>6, <4>7, <5>1 DEF Walks
        <5>3. QED
          BY <1>2, <4>4, <5>2 DEF Base
      <4>8. CASE ~w.rewriting
        <5>1. CASE i <= w.from
          BY <1>2, <4>1, <4>4, <4>8, <5>1 DEF Walks
        <5>2. CASE w.from < i
          BY <1>2, <4>1, <4>5, <4>8, <5>2 DEF PageFits
        <5>3. QED
          BY <4>6, <5>1, <5>2
      <4>9. QED
        BY <4>7, <4>8
    <3>3. QED
      BY <1>8, <3>1, <3>2
  <2>3. QED
    BY <2>2 DEF FramesCover
<1>16. ASSUME NEW t \in Session PROVE SessionInv(t)'
  <2>1. Good(t, watcher'[t], source[t], stored[t], wire', mode) /\ SessionInv(t)
    BY <1>6, <1>11, <1>13 DEF CommitsInv
  <2>2. QED
    BY <1>9, <1>14, <1>15, <2>1 DEF SessionInv, relay
<1>17. Types'
  BY <1>1, <1>6, <1>8, <1>9 DEF Types, relay
<1>18. gate # <<>> /\ s = Head(gate)
  BY <1>1, FirstWorks DEF InGate, Paged, Sent
<1>19. GateInv'
  <2>1. \A t \in Session : watcher'[t].at \in InGate <=> watcher[t].at \in InGate
    BY <1>1, <1>4, <1>6 DEF InGate, Paged, Sent
  <2>2. \A t \in Session :
          /\ watcher'[t].at = "queued" <=> watcher[t].at = "queued"
          /\ watcher'[t].at = "acking" <=> watcher[t].at = "acking"
    BY <1>1, <1>4, <1>6
  <2>3. \A i \in DOMAIN gate : gate[i] \in Session
    BY <1>1 DEF Types
  <2>4. QED
    BY <1>1, <1>2, <1>9, <2>1, <2>2, <2>3 DEF GateInv, Acks
<1>20. AckedInv'
  BY <1>1, <1>4, <1>6, <1>9, <1>18 DEF AckedInv, Acks, relay
<1>21. OneFrameInv'
  <2>1. (Acks /\ ~givenUp) => wire = <<>> /\ acks = {} /\ waiting
    BY <1>1, <1>18 DEF OneFrameInv, Sent
  <2>2. wire = <<>> => Len(wire') <= 1
    BY <1>8 DEF n
  <2>3. QED
    BY <1>4, <1>6, <1>9, <1>18, <2>1, <2>2 DEF OneFrameInv, Acks, Sent
<1>22. QED
  BY <1>16, <1>17, <1>19, <1>20, <1>21 DEF CommitsInv

\* The turn of the first is over, and the next one works.
LEMMA PassesKeeps ==
  ASSUME CommitsInv, NEW s \in Session, gate # <<>>, s = Head(gate), NEW w, Passes(s, w),
         Good(s, w, source[s], stored[s], wire, mode), w.at \in {"idle", "reading"},
         UNCHANGED <<source, edits, up, mode, wire, relay>>, acks' \subseteq acks,
         (Acks /\ ~givenUp') => wire = <<>> /\ acks' = {}
  PROVE  CommitsInv'
<1> DEFINE v == Looped(s, w)
           behind == Tail(gate)
           h == Head(behind)
           u == [watcher[h] EXCEPT !.at = "sending"]
<1>1. Types /\ GateInv /\ up
  BY FirstWorks, WatcherIsUp DEF CommitsInv, InGate, Paged, Sent
<1>2. Good(s, v, source[s], stored[s], wire, mode) /\ v.at \in {"idle", "reading", "resolving"}
  BY <1>1, TypesOf, LoopedGood
<1>3. v \in Watcher /\ v.at \notin InGate /\ v.at # "acking"
  BY <1>2 DEF Good, Base, InGate, Paged, Sent
<1>4. /\ gate' = behind /\ behind \in Seq(Session) /\ gate \in Seq(Session)
      /\ Len(behind) = Len(gate) - 1 /\ Len(gate) \in Nat /\ Len(gate) > 0
      /\ DOMAIN gate = 1..Len(gate) /\ DOMAIN behind = 1..Len(behind) /\ gate[1] = s
      /\ \A i \in DOMAIN behind : behind[i] = gate[i + 1] /\ i + 1 \in DOMAIN gate
      /\ \A i \in DOMAIN gate : i # 1 => i - 1 \in DOMAIN behind /\ behind[i - 1] = gate[i]
      /\ behind # <<>> => h = behind[1] /\ 1 \in DOMAIN behind /\ h \in Session
  <2>1. gate \in Seq(Session) /\ gate' = behind
    BY <1>1 DEF Types, Passes
  <2>2. QED
    BY <2>1, HeadTailProperties
<1>5. waiting' = (behind # <<>> /\ Acks)
  BY DEF Passes
<1>6. watcher' = [t \in Session |->
         IF t = s THEN v ELSE IF behind # <<>> /\ t = h THEN u ELSE watcher[t]]
  BY DEF Passes
<1> HIDE DEF v, behind
<1>7. \A i \in DOMAIN behind : behind[i] # s /\ behind[i] \in Session
                               /\ watcher[behind[i]].at = "queued"
  <2>1. \A i \in DOMAIN gate : gate[i] \in Session
    BY <1>4
  <2>2. \A i \in DOMAIN behind : i + 1 # 1
    BY <1>4
  <2>3. 1 \in DOMAIN gate
    BY <1>4
  <2>4. \A i, j \in DOMAIN gate : gate[i] = gate[j] => i = j
    BY <1>1 DEF GateInv
  <2>5. \A i \in DOMAIN gate : i # 1 => watcher[gate[i]].at = "queued"
    BY <1>1 DEF GateInv
  <2>6. ASSUME NEW i \in DOMAIN behind
        PROVE  behind[i] # s /\ behind[i] \in Session /\ watcher[behind[i]].at = "queued"
    <3>1. i + 1 \in DOMAIN gate /\ i + 1 # 1 /\ behind[i] = gate[i + 1]
      BY <1>4, <2>2
    <3>2. QED
      BY <1>4, <2>1, <2>3, <2>4, <2>5, <3>1
  <2>7. QED
    BY <2>6
<1>8. behind # <<>> =>
        /\ h \in Session /\ h # s /\ watcher[h].at = "queued"
        /\ u \in Watcher /\ u.at = "sending" /\ u.page = watcher[h].page
        /\ u.cursor = watcher[h].cursor /\ u.rewriting = watcher[h].rewriting
        /\ u.from = watcher[h].from /\ u.latest = watcher[h].latest
        /\ u.prints = watcher[h].prints
  <2>1. "sending" \in Positions
    BY DEF Positions
  <2>2. behind # <<>> => h \in Session /\ h # s /\ watcher[h].at = "queued"
    BY <1>4, <1>7
  <2>3. behind # <<>> => watcher[h] \in Watcher
    BY <1>1, <2>2 DEF Types
  <2>4. QED
    BY <2>1, <2>2, <2>3 DEF Watcher
<1>9. behind # <<>> => Good(h, u, source[h], stored[h], wire, mode)
  <2>1. ASSUME behind # <<>> PROVE Good(h, u, source[h], stored[h], wire, mode)
    <3>1. Good(h, watcher[h], source[h], stored[h], wire, mode)
      BY <1>8, <2>1 DEF CommitsInv, SessionInv
    <3>2. QED
      BY <1>8, <2>1, <3>1 DEF Good, Base, Walks, PageFits, Covered, Unasked, Paged, Sent
  <2>2. QED
    BY <2>1
<1> HIDE DEF u, h
<1>10. /\ watcher'[s] = v
       /\ behind # <<>> => watcher'[h] = u
       /\ \A t \in Session : t # s /\ ~(behind # <<>> /\ t = h) => watcher'[t] = watcher[t]
  BY <1>6, <1>8
<1>11. watcher' \in [Session -> Watcher]
  BY <1>1, <1>3, <1>6, <1>8 DEF Types
<1>12. Types'
  <2>1. waiting' \in BOOLEAN
    BY <1>5
  <2>2. QED
    BY <1>1, <1>4, <1>11, <2>1 DEF Types, relay
<1>13. \A t \in Session : watcher[t].at \in InGate /\ t # s => watcher[t].at = "queued"
  BY <1>1, FirstWorks
<1>14. GateInv'
  <2>1. \A t \in Session : (\E i \in DOMAIN behind : behind[i] = t) <=>
          t # s /\ \E i \in DOMAIN gate : gate[i] = t
    <3>1. ASSUME NEW t \in Session, t # s, NEW i \in DOMAIN gate, gate[i] = t
          PROVE  \E j \in DOMAIN behind : behind[j] = t
      BY <1>4, <3>1
    <3>2. QED
      BY <1>4, <1>7, <3>1
  <2>2. "queued" \in InGate /\ "sending" \in InGate
    BY DEF InGate, Paged
  <2>3. \A t \in Session : watcher'[t].at \in InGate <=> t # s /\ watcher[t].at \in InGate
    BY <1>3, <1>8, <1>10, <2>2
  <2>4. \A t \in Session : watcher'[t].at \in InGate <=> \E i \in DOMAIN behind : behind[i] = t
    BY <1>1, <2>1, <2>3 DEF GateInv
  <2>5. \A i, j \in DOMAIN behind : behind[i] = behind[j] => i = j
    <3>1. ASSUME NEW i \in DOMAIN behind, NEW j \in DOMAIN behind, behind[i] = behind[j]
          PROVE  i = j
      <4>1. i + 1 = j + 1
        BY <1>1, <1>4, <3>1 DEF GateInv
      <4>2. QED
        BY <1>4, <4>1
    <3>2. QED
      BY <3>1
  <2>6. \A i \in DOMAIN behind : watcher'[behind[i]].at = "queued" <=> i # 1
    <3>1. ASSUME NEW i \in DOMAIN behind
          PROVE  watcher'[behind[i]].at = "queued" <=> i # 1
      <4>1. behind # <<>>
        BY <1>4, <3>1
      <4>2. CASE i = 1
        BY <1>4, <1>8, <1>10, <4>1, <4>2
      <4>3. CASE i # 1
        <5>1. behind[i] # h
          BY <1>4, <2>5, <3>1, <4>1, <4>3
        <5>2. QED
          BY <1>7, <1>10, <3>1, <4>3, <5>1
      <4>4. QED
        BY <4>2, <4>3
    <3>2. QED
      BY <3>1
  <2>7. \A t \in Session : watcher'[t].at # "acking"
    <3>1. \A t \in Session : t # s => watcher[t].at # "acking"
      BY <1>13 DEF InGate, Paged, Sent
    <3>2. QED
      BY <1>3, <1>8, <1>10, <3>1
  <2>8. mode = NoHello => wire = <<>> /\ acks' = {}
    BY <1>1 DEF GateInv
  <2>9. gate' = behind /\ up' /\ mode' = mode /\ wire' = wire /\ (waiting' => behind # <<>> /\ Acks')
    BY <1>1, <1>4, <1>5 DEF Acks
  <2>10. /\ \A t \in Session : watcher'[t].at \in InGate <=> \E i \in DOMAIN gate' : gate'[i] = t
         /\ \A i, j \in DOMAIN gate' : gate'[i] = gate'[j] => i = j
         /\ \A i \in DOMAIN gate' : watcher'[gate'[i]].at = "queued" <=> i # 1
    BY <2>4, <2>5, <2>6, <2>9
  <2>11. QED
    BY <2>7, <2>8, <2>9, <2>10 DEF GateInv
<1>15. AckedInv'
  BY <1>4, <1>5 DEF AckedInv, Acks
<1>16. OneFrameInv'
  <2>1. Len(<<>>) <= 1
    OBVIOUS
  <2>2. QED
    BY <1>4, <1>5, <2>1 DEF OneFrameInv, Acks
<1>17. ASSUME NEW t \in Session PROVE SessionInv(t)'
  <2>1. Good(t, watcher'[t], source[t], stored[t], wire, mode) /\ SessionInv(t)
    BY <1>2, <1>9, <1>10 DEF CommitsInv, SessionInv
  <2>2. AcksFit(t, source[t], stored[t], acks')
    BY <2>1 DEF SessionInv, AcksFit
  <2>3. QED
    BY <2>1, <2>2 DEF SessionInv, relay
<1>18. QED
  BY <1>12, <1>14, <1>15, <1>16, <1>17 DEF CommitsInv

\* The first of the gate, whose frame is with Relay or on its way.
LEMMA FirstIs ==
  ASSUME CommitsInv, NEW s \in Session, watcher[s].at \in InGate \ {"queued"}
  PROVE  /\ gate # <<>> /\ s = Head(gate) /\ up /\ source[s] \in Transcript
         /\ stored[s] \in [Epoch -> [Row -> Nat]] /\ source[s].epoch \in Epoch
         /\ watcher[s] \in Watcher /\ mode # NoHello
         /\ Good(s, watcher[s], source[s], stored[s], wire, mode)
         /\ Base(s, watcher[s], source[s], stored[s], wire, mode)
         /\ Walks(s, watcher[s], source[s], stored[s], wire, mode)
         /\ PageFits(s, watcher[s], source[s], stored[s], wire)
         /\ watcher[s].page.epoch \in Nat
         /\ watcher[s].page.rows \in Versions
         /\ watcher[s].cursor.epoch = source[s].epoch => watcher[s].page.epoch = source[s].epoch
<1>1. Good(s, watcher[s], source[s], stored[s], wire, mode) /\ Types /\ GateInv
  BY DEF CommitsInv, SessionInv
<1>2. watcher[s].at \in Paged /\ watcher[s].at \notin {"off", "idle", "resolving"}
  BY DEF InGate, Paged, Sent
<1>3. gate # <<>> /\ s = Head(gate) /\ up
  BY <1>1, <1>2, FirstWorks, WatcherIsUp
<1>4. /\ PageFits(s, watcher[s], source[s], stored[s], wire) /\ watcher[s] \in Watcher
      /\ Walks(s, watcher[s], source[s], stored[s], wire, mode)
      /\ Base(s, watcher[s], source[s], stored[s], wire, mode) /\ mode # NoHello
  BY <1>1, <1>2 DEF Good, Base, Unasked
<1>5. source[s].epoch \in Nat /\ source[s].epoch \in Epoch
  BY <1>1, TypesOf, Bounds DEF Epoch
<1>6. watcher[s].page.epoch \in Nat /\ watcher[s].page.rows \in Versions
  BY <1>4, Bounds DEF Watcher, Page
<1>7. watcher[s].cursor.epoch = source[s].epoch => watcher[s].page.epoch = source[s].epoch
  BY <1>4, <1>5, <1>6 DEF PageFits
<1>8. QED
  BY <1>1, <1>3, <1>4, <1>5, <1>6, <1>7, TypesOf

LEMMA WrittenKeeps ==
  ASSUME CommitsInv, NEW s \in Session, Written(s)
  PROVE  CommitsInv'
<1> DEFINE w == watcher[s]
           v == [w EXCEPT !.at = "acking"]
           src == source[s]
           st == stored[s]
<1>1. w.at = "writing" /\ w.at \in InGate \ {"queued"}
  BY DEF Written, InGate, Paged, Sent
<1>2. /\ gate # <<>> /\ s = Head(gate) /\ up /\ w \in Watcher /\ mode # NoHello
      /\ src \in Transcript /\ st \in [Epoch -> [Row -> Nat]]
      /\ Good(s, w, src, st, wire, mode) /\ Base(s, w, src, st, wire, mode)
      /\ Walks(s, w, src, st, wire, mode) /\ PageFits(s, w, src, st, wire)
      /\ w.page.rows \in Versions /\ src.epoch \in Epoch
      /\ w.cursor.epoch = src.epoch => w.page.epoch = src.epoch
  BY <1>1, FirstIs
<1>3. PageIsSent(s, w, src, st, wire)
  BY <1>1, <1>2 DEF Good, Sent
<1>4. CASE ~waiting
  <2>1. ASSUME w.cursor.epoch = src.epoch, NEW i \in DOMAIN w.page.rows, i \in Row
        PROVE  Backed(s, i, src, st, wire, mode)
    <3>1. CASE Acks
      BY <1>2, <1>4, <2>1, <3>1 DEF CommitsInv, AckedInv, Backed
    <3>2. CASE ~Acks
      <4>1. w.page.rows[i] \in Nat /\ w.page.rows[i] # 0 /\ w.page.rows[i] >= 1
            /\ st[src.epoch][i] \in Nat
        BY <1>2, <2>1, VersionsAre
      <4>2. Shown(s, i, w.page.rows[i], src, st, wire)
        BY <1>2, <1>3, <2>1 DEF PageIsSent
      <4>3. CASE st[src.epoch][i] >= w.page.rows[i]
        BY <4>1, <4>3 DEF Backed
      <4>4. CASE Under(wire, s, src.epoch, i, w.page.rows[i])
        <5>1. PICK k \in DOMAIN wire :
                Holds(wire[k], s, src.epoch, i) /\ wire[k].rows[i] >= w.page.rows[i]
          BY <4>4 DEF Under
        <5>2. wire[k].rows \in Versions /\ i \in DOMAIN wire[k].rows
          <6>1. wire \in Seq(SourceFrame)
            BY DEF CommitsInv, Types
          <6>2. wire[k] \in SourceFrame
            BY <6>1
          <6>3. QED
            BY <5>1, <6>2 DEF SourceFrame, Holds
        <5>3. wire[k].rows[i] \in Nat /\ wire[k].rows[i] # 0
          BY <5>2, VersionsAre
        <5>4. Under(wire, s, src.epoch, i, 1)
          BY <5>1, <5>3 DEF Under
        <5>5. QED
          BY <3>2, <5>4 DEF Backed, Acks
      <4>5. QED
        BY <4>2, <4>3, <4>4 DEF Shown
    <3>3. QED
      BY <3>1, <3>2
  <2>2. Good(s, Turned(w), src, st, wire, mode) /\ Turned(w).at \in {"idle", "reading"}
    BY <1>2, <1>3, <2>1, TurnedGood
  <2>3. Passes(s, Turned(w))
    BY <1>4 DEF Written, Confirmed
  <2>4. (Acks /\ ~givenUp) => wire = <<>> /\ acks = {}
    BY <1>4 DEF CommitsInv, OneFrameInv
  <2>5. UNCHANGED <<source, edits, up, mode, wire, relay>> /\ acks' = acks /\ givenUp' = givenUp
    BY DEF Written
  <2>6. QED
    BY <1>2, <2>2, <2>3, <2>4, <2>5, PassesKeeps
<1>5. CASE waiting
  <2>1. Becomes(s, v) /\ UNCHANGED <<source, edits, up, mode, gate, waiting, wire, acks, givenUp,
                                     relay>>
    BY <1>5 DEF Written, Confirmed
  <2>2. "acking" \in Positions
    BY DEF Positions
  <2>3. /\ v \in Watcher /\ v.at = "acking" /\ v.page = w.page /\ v.cursor = w.cursor
        /\ v.rewriting = w.rewriting /\ v.from = w.from /\ v.latest = w.latest
        /\ v.prints = w.prints
    BY <1>2, <2>2 DEF Watcher
  <2> HIDE DEF v
  <2>4. watcher' = [watcher EXCEPT ![s] = v]
    BY <2>1, <2>3 DEF Becomes, Looped
  <2>5. Types /\ GateInv /\ AckedInv /\ OneFrameInv
    BY DEF CommitsInv
  <2>6. /\ watcher'[s] = v /\ \A t \in Session : t # s => watcher'[t] = watcher[t]
        /\ watcher' \in [Session -> Watcher]
    BY <2>3, <2>4, <2>5 DEF Types
  <2>7. Good(s, v, src, st, wire, mode)
    BY <1>2, <1>3, <2>3 DEF Good, Base, Walks, PageFits, PageIsSent, Covered, Paged, Sent
  <2>8. ASSUME NEW t \in Session PROVE SessionInv(t)'
    <3>1. Good(t, watcher'[t], source[t], stored[t], wire, mode) /\ SessionInv(t)
      BY <2>6, <2>7 DEF CommitsInv, SessionInv
    <3>2. QED
      BY <2>1, <3>1 DEF SessionInv, relay
  <2>9. Types'
    BY <2>1, <2>5, <2>6 DEF Types, relay
  <2>10. GateInv'
    <3>1. \A t \in Session : watcher'[t].at \in InGate <=> watcher[t].at \in InGate
      BY <1>1, <2>3, <2>6 DEF InGate, Paged, Sent
    <3>2. \A t \in Session : watcher'[t].at = "queued" <=> watcher[t].at = "queued"
      BY <1>1, <2>3, <2>6
    <3>3. \A i \in DOMAIN gate : gate[i] \in Session
      BY <2>5 DEF Types
    <3>4. QED
      BY <1>2, <1>5, <2>1, <2>5, <3>1, <3>2, <3>3 DEF GateInv, Acks
  <2>11. AckedInv'
    BY <1>5, <2>1 DEF AckedInv
  <2>12. OneFrameInv'
    BY <1>2, <1>5, <2>1, <2>3, <2>5, <2>6 DEF OneFrameInv, Acks, Sent
  <2>13. QED
    BY <2>8, <2>9, <2>10, <2>11, <2>12 DEF CommitsInv
<1>6. QED
  BY <1>4, <1>5

\* The first of the gate fails.
LEMMA FailingKeeps ==
  ASSUME CommitsInv, NEW s \in Session, watcher[s].at \in InGate \ {"queued"},
         Passes(s, Ended(watcher[s])), givenUp' = TRUE,
         UNCHANGED <<source, edits, up, mode, wire, acks, relay>>
  PROVE  CommitsInv'
<1>1. /\ Good(s, Ended(watcher[s]), source[s], stored[s], wire, mode)
      /\ Ended(watcher[s]).at = "idle"
  BY FirstIs, EndedGood
<1>2. QED
  BY <1>1, FirstIs, PassesKeeps

LEMMA SendFailsKeeps ==
  ASSUME CommitsInv, NEW s \in Session, SendFails(s)
  PROVE  CommitsInv'
  BY FailingKeeps DEF SendFails, InGate, Paged, Sent

LEMMA AckTimeoutKeeps ==
  ASSUME CommitsInv, NEW s \in Session, AckTimeout(s)
  PROVE  CommitsInv'
  BY FailingKeeps DEF AckTimeout, InGate, Paged, Sent

\* The delivery id of the frame that is first in the gate.
LEMMA AwaitedIs ==
  ASSUME CommitsInv, NEW a, Awaited(a), gate # <<>>
  PROVE  LET s == Head(gate)
         IN  /\ a.session = s /\ a.epoch = watcher[s].cursor.epoch
             /\ DOMAIN a.rows = DOMAIN watcher[s].page.rows
<1> DEFINE s == Head(gate)
           f == Frame(s)
<1>1. a = [session |-> f.session, epoch |-> f.epoch, through |-> f.through,
           rewriting |-> f.rewriting,
           rows |-> [i \in DOMAIN f.rows |-> IF f.rewriting THEN f.rows[i] ELSE 0]]
  BY DEF Awaited, DeliveryId
<1>2. f.session = s /\ f.epoch = watcher[s].cursor.epoch /\ f.rows = watcher[s].page.rows
  BY DEF Frame
<1> HIDE DEF f
<1>3. QED
  BY <1>1, <1>2

LEMMA AckArrivesKeeps ==
  ASSUME CommitsInv, NEW a \in acks, AckArrives(a)
  PROVE  CommitsInv'
<1> DEFINE s == Head(gate)
           w == watcher[s]
           src == source[s]
           st == stored[s]
<1>1. /\ acks' \subseteq acks /\ acks' = acks \ {a}
      /\ UNCHANGED <<source, edits, up, mode, wire, givenUp, relay>>
  BY DEF AckArrives
<1>2. Types /\ GateInv /\ AckedInv /\ OneFrameInv
  BY DEF CommitsInv
<1>3. \A t \in Session : AcksFit(t, source[t], stored[t], acks')
  BY <1>1 DEF CommitsInv, SessionInv, AcksFit
<1>4. CASE ~Awaited(a)
  <2>1. UNCHANGED <<watcher, gate, waiting>>
    BY <1>4 DEF AckArrives
  <2>2. Types'
    BY <1>1, <1>2, <2>1 DEF Types, relay
  <2>3. GateInv'
    BY <1>1, <1>2, <2>1 DEF GateInv, Acks
  <2>4. AckedInv'
    BY <1>1, <1>2, <2>1 DEF AckedInv, Acks, relay
  <2>5. OneFrameInv'
    BY <1>1, <1>2, <2>1 DEF OneFrameInv, Acks
  <2>6. ASSUME NEW t \in Session PROVE SessionInv(t)'
    BY <1>1, <1>3, <2>1 DEF CommitsInv, SessionInv, relay
  <2>7. QED
    BY <2>2, <2>3, <2>4, <2>5, <2>6 DEF CommitsInv
<1>5. CASE Awaited(a)
  <2>1. waiting /\ gate # <<>> /\ Acks
    BY <1>2, <1>5 DEF Awaited, GateInv
  <2>2. s \in Session /\ w.at \in InGate \ {"queued"}
    BY <1>2, <2>1, FirstWorks
  <2>3. /\ up /\ w \in Watcher /\ mode # NoHello
        /\ src \in Transcript /\ st \in [Epoch -> [Row -> Nat]]
        /\ Good(s, w, src, st, wire, mode) /\ Base(s, w, src, st, wire, mode)
        /\ Walks(s, w, src, st, wire, mode) /\ PageFits(s, w, src, st, wire)
    BY <2>2, FirstIs
  <2>4. a.session = s /\ a.epoch = w.cursor.epoch /\ DOMAIN a.rows = DOMAIN w.page.rows
    BY <1>5, <2>1, AwaitedIs
  <2>5. w.cursor.epoch = src.epoch => \A i \in DOMAIN w.page.rows : st[src.epoch][i] # 0
    BY <2>2, <2>4 DEF CommitsInv, SessionInv, AcksFit
  <2>6. (Acks /\ ~givenUp) => wire = <<>> /\ acks' = {} /\ w.at \in Sent
    BY <1>1, <1>2 DEF OneFrameInv
  <2>7. CASE w.at = "acking"
    <3>1. PageIsSent(s, w, src, st, wire)
      BY <2>3, <2>7 DEF Good, Sent
    <3>2. ~w.rewriting /\ w.cursor.epoch = src.epoch =>
            \A i \in DOMAIN w.page.rows : i \in Row => Backed(s, i, src, st, wire, mode)
      BY <2>5 DEF Backed
    <3>3. Good(s, Turned(w), src, st, wire, mode) /\ Turned(w).at \in {"idle", "reading"}
      BY <2>3, <3>1, <3>2, TurnedGood
    <3>4. Passes(s, Turned(w))
      BY <1>5, <2>7 DEF AckArrives
    <3>5. (Acks /\ ~givenUp') => wire = <<>> /\ acks' = {}
      BY <1>1, <2>6
    <3>6. QED
      BY <1>1, <2>1, <2>2, <3>3, <3>4, <3>5, PassesKeeps
  <2>8. CASE w.at # "acking"
    <3>1. waiting' = FALSE /\ UNCHANGED <<watcher, gate>>
      BY <1>5, <2>8 DEF AckArrives
    <3>2. Types'
      BY <1>1, <1>2, <3>1 DEF Types, relay
    <3>3. \A t \in Session : watcher[t].at # "acking"
      BY <1>2, <2>8, FirstWorks DEF InGate, Paged, Sent
    <3>4. GateInv'
      BY <1>1, <1>2, <3>1, <3>3 DEF GateInv, Acks
    <3>5. AckedInv'
      BY <1>1, <2>5, <3>1 DEF AckedInv, Acks, relay
    <3>6. "sending" \notin Sent /\ Len(<<>>) <= 1
      BY DEF Sent
    <3>7. OneFrameInv'
      BY <1>1, <2>6, <3>1, <3>6 DEF OneFrameInv, Acks
    <3>8. ASSUME NEW t \in Session PROVE SessionInv(t)'
      BY <1>1, <1>3, <3>1 DEF CommitsInv, SessionInv, relay
    <3>9. QED
      BY <3>2, <3>4, <3>5, <3>7, <3>8 DEF CommitsInv
  <2>9. QED
    BY <2>7, <2>8
<1>6. QED
  BY <1>4, <1>5

---------------------------------------------------------------------------
(* The connection and Relay                                                *)

\* With the connection everything about it goes.
LEMMA GoesKeeps ==
  ASSUME CommitsInv, Goes, UNCHANGED <<source, edits, relay>>
  PROVE  CommitsInv'
<1>1. Types
  BY DEF CommitsInv
<1>2. /\ up' = FALSE /\ mode' = NoHello /\ watcher' = [s \in Session |-> Off] /\ gate' = <<>>
      /\ waiting' = FALSE /\ wire' = <<>> /\ acks' = {} /\ givenUp' = FALSE
  BY DEF Goes
<1>3. <<>> \in Seq(Session) /\ <<>> \in Seq(SourceFrame) /\ DOMAIN <<>> = {} /\ Len(<<>>) <= 1
  OBVIOUS
<1>4. Types'
  <2>1. waiting' \in BOOLEAN
    BY <1>2
  <2>2. [s \in Session |-> Off] \in [Session -> Watcher]
    BY OffIsTyped
  <2>3. QED
    BY <1>1, <1>2, <1>3, <2>1, <2>2 DEF Types, relay
<1>5. GateInv'
  BY <1>2, <1>3, OffIsTyped DEF GateInv, InGate, Paged, Sent
<1>6. AckedInv'
  BY <1>2 DEF AckedInv
<1>7. OneFrameInv'
  BY <1>2, <1>3 DEF OneFrameInv
<1>8. ASSUME NEW t \in Session PROVE SessionInv(t)'
  <2>1. Good(t, Off, source[t], stored[t], <<>>, NoHello)
    BY <1>1, OffIsTyped, TypesOf, NewWatcherIsGood
  <2>2. /\ FramesAgree(t, source[t], stored[t], <<>>) /\ FramesCover(t, source[t], stored[t], <<>>)
        /\ AcksFit(t, source[t], stored[t], {})
    BY <1>3 DEF FramesAgree, FramesCover, AcksFit
  <2>3. QED
    BY <1>2, <2>1, <2>2 DEF CommitsInv, SessionInv, relay
<1>9. QED
  BY <1>4, <1>5, <1>6, <1>7, <1>8 DEF CommitsInv

LEMMA ConnectKeeps ==
  ASSUME CommitsInv, Connect
  PROVE  CommitsInv'
<1>1. UNCHANGED <<source, edits, mode, watcher, gate, waiting, wire, acks, givenUp, relay>> /\ up'
  BY DEF Connect
<1>2. Types'
  BY <1>1 DEF CommitsInv, Types, relay
<1>3. GateInv'
  BY <1>1 DEF CommitsInv, GateInv, Acks
<1>4. AckedInv' /\ OneFrameInv'
  BY <1>1 DEF CommitsInv, AckedInv, OneFrameInv, Acks, relay
<1>5. ASSUME NEW t \in Session PROVE SessionInv(t)'
  BY <1>1 DEF CommitsInv, SessionInv, relay
<1>6. QED
  BY <1>2, <1>3, <1>4, <1>5 DEF CommitsInv

\* Before the hello, nothing counts on what it offers.
LEMMA HelloKeeps ==
  ASSUME CommitsInv, NEW m \in Modes, Hello(m)
  PROVE  CommitsInv'
<1>1. /\ UNCHANGED <<source, edits, up, watcher, gate, waiting, wire, acks, givenUp, relay>>
      /\ mode = NoHello /\ mode' = m
  BY DEF Hello
<1>2. Types /\ GateInv /\ wire = <<>> /\ acks = {}
  BY <1>1 DEF CommitsInv, GateInv
<1>3. m # NoHello
  <2>1. m \subseteq {EventAcks, Watermarks}
    BY ModesAreKnown
  <2>2. "none" \notin {EventAcks, Watermarks}
    BY DEF EventAcks, Watermarks
  <2>3. QED
    BY <2>1, <2>2 DEF NoHello
<1>4. \A t \in Session : Unasked(watcher[t])
  BY <1>1 DEF CommitsInv, SessionInv, Good
<1>5. gate = <<>>
  BY <1>2, <1>4, FirstWorks DEF Unasked, InGate, Paged, Sent
<1>6. Types'
  BY <1>1, <1>2 DEF Types, relay
<1>7. GateInv'
  BY <1>1, <1>2, <1>3, <1>5 DEF GateInv
<1>8. AckedInv' /\ OneFrameInv'
  BY <1>1, <1>2, <1>5 DEF AckedInv, OneFrameInv
<1>9. ASSUME NEW t \in Session PROVE SessionInv(t)'
  <2>1. Good(t, watcher[t], source[t], stored[t], wire, mode) /\ Unasked(watcher[t])
    BY <1>4 DEF CommitsInv, SessionInv
  <2>2. source[t].epoch \in Epoch /\ watcher[t].at \in {"off", "idle", "resolving"}
    BY <1>2, <2>1, TypesOf DEF Unasked
  <2>3. \A i \in Row : ~(i <= watcher[t].latest[source[t].epoch])
    <3>1. watcher[t].latest[source[t].epoch] = 0
      BY <2>1, <2>2 DEF Unasked
    <3>2. QED
      BY <3>1, Bounds DEF Row
  <2>4. Base(t, watcher[t], source[t], stored[t], wire, m)
    BY <2>1, <2>3 DEF Good, Base
  <2>5. Good(t, watcher[t], source[t], stored[t], wire, m)
    BY <1>3, <2>1, <2>2, <2>4 DEF Good, Paged, Sent
  <2>6. QED
    BY <1>1, <2>5 DEF CommitsInv, SessionInv, relay
<1>10. QED
  BY <1>6, <1>7, <1>8, <1>9 DEF CommitsInv

\* Relay takes the frames in order: what it stores only gets newer, and its
\* watermark never runs ahead of what it stores.
LEMMA RelayTakesKeeps ==
  ASSUME CommitsInv, RelayTakes
  PROVE  CommitsInv'
<1> DEFINE f == Head(wire)
           z == f.session
           new == [i \in Row |-> IF i \in DOMAIN f.rows THEN f.rows[i] ELSE stored[z][f.origin][i]]
           mark == IF f.through > watermark[z][f.epoch] THEN f.through ELSE watermark[z][f.epoch]
           d == DeliveryId(f)
<1>1. Types /\ GateInv /\ AckedInv /\ OneFrameInv
  BY DEF CommitsInv
<1>2. /\ UNCHANGED <<source, edits, up, mode, watcher, gate, waiting, givenUp>> /\ wire # <<>>
      /\ wire' = Tail(wire) /\ acks' = IF Acks THEN acks \cup {d} ELSE acks
  BY DEF RelayTakes
<1>3. /\ wire' \in Seq(SourceFrame) /\ Len(wire') = Len(wire) - 1 /\ Len(wire) \in Nat
      /\ DOMAIN wire = 1..Len(wire) /\ DOMAIN wire' = 1..Len(wire') /\ f = wire[1]
      /\ 1 \in DOMAIN wire /\ f \in SourceFrame
      /\ \A k \in DOMAIN wire' : k + 1 \in DOMAIN wire /\ wire'[k] = wire[k + 1]
      /\ \A k \in DOMAIN wire : k # 1 => k - 1 \in DOMAIN wire' /\ wire[k] = wire'[k - 1]
  <2>1. wire \in Seq(SourceFrame) /\ wire # <<>>
    BY <1>1, <1>2 DEF Types
  <2>2. QED
    BY <1>2, <2>1, HeadTailProperties
<1>4. /\ z \in Session /\ f.origin \in Epoch /\ f.epoch \in Epoch /\ f.through \in Through
      /\ f.rows \in Versions
  BY <1>3 DEF SourceFrame
<1>5. /\ stored \in [Session -> [Epoch -> [Row -> Nat]]]
      /\ watermark \in [Session -> [Epoch -> Through]]
  BY <1>1 DEF Types
<1>6. new \in [Row -> Nat] /\ mark \in Through
  BY <1>4, <1>5, VersionsAre
<1>7. /\ stored' = [stored EXCEPT ![z][f.origin] = new]
      /\ watermark' = [watermark EXCEPT ![z][f.epoch] = mark]
  BY <1>4, <1>5 DEF RelayTakes
<1>8. \A i \in Row : new[i] = IF i \in DOMAIN f.rows THEN f.rows[i] ELSE stored[z][f.origin][i]
  OBVIOUS
<1>9. d.session = z /\ d.epoch = f.epoch /\ DOMAIN d.rows = DOMAIN f.rows
  BY DEF DeliveryId
<1> HIDE DEF f, new, mark, d
<1>10. Types'
  <2>1. stored' \in [Session -> [Epoch -> [Row -> Nat]]]
    BY <1>4, <1>5, <1>6, <1>7
  <2>2. watermark' \in [Session -> [Epoch -> Through]]
    BY <1>4, <1>5, <1>6, <1>7
  <2>3. QED
    BY <1>1, <1>2, <1>3, <2>1, <2>2 DEF Types
<1>11. /\ \A t \in Session, e \in Epoch : stored'[t][e] = IF t = z /\ e = f.origin THEN new
                                                         ELSE stored[t][e]
       /\ \A t \in Session, e \in Epoch : watermark'[t][e] = IF t = z /\ e = f.epoch THEN mark
                                                            ELSE watermark[t][e]
  BY <1>4, <1>5, <1>7
<1>12. ASSUME NEW t \in Session
       PROVE  /\ SessionInv(t)'
              /\ \A i \in Row : stored[t][source[t].epoch][i] # 0 =>
                   stored'[t][source[t].epoch][i] # 0
  <2> DEFINE src == source[t]
             e == src.epoch
             st == stored[t]
             st2 == stored'[t]
  <2>1. /\ src \in Transcript /\ e \in Epoch /\ st[e] \in [Row -> Nat] /\ st2[e] \in [Row -> Nat]
        /\ SessionInv(t)
    BY <1>1, <1>5, <1>10, TypesOf DEF CommitsInv, Types
  <2>2. /\ FramesAgree(t, src, st, wire) /\ FramesCover(t, src, st, wire)
        /\ Good(t, watcher[t], src, st, wire, mode) /\ SourceFits(src) /\ StoredFits(src, st)
        /\ WatermarkFits(src, st, watermark[t]) /\ AcksFit(t, src, st, acks)
    BY <2>1 DEF SessionInv
  <2>3. t = z => f.epoch <= f.origin /\ f.origin <= e
    BY <1>3, <2>2 DEF FramesAgree
  \* The rows of the frame, if they are of the current transcript.
  <2>4. ASSUME NEW i \in Row, Holds(f, t, e, i)
        PROVE  /\ st2[e][i] = f.rows[i] /\ f.rows[i] \in Nat /\ f.rows[i] # 0
               /\ st[e][i] <= f.rows[i] /\ i \in DOMAIN src.rows /\ f.rows[i] <= src.rows[i]
    <3>1. t = z /\ f.origin = e /\ i \in DOMAIN f.rows
      BY <2>4 DEF Holds
    <3>2. st2[e][i] = f.rows[i] /\ f.rows[i] \in Nat /\ f.rows[i] # 0
      BY <1>4, <1>8, <1>11, <2>1, <3>1, VersionsAre
    <3>3. st[e][i] <= f.rows[i] /\ i \in DOMAIN src.rows /\ f.rows[i] <= src.rows[i]
      BY <1>3, <2>2, <3>1 DEF FramesAgree
    <3>4. QED
      BY <3>2, <3>3
  <2>5. ASSUME NEW i \in Row, ~Holds(f, t, e, i)
        PROVE  st2[e][i] = st[e][i]
    BY <1>4, <1>8, <1>11, <2>1, <2>5 DEF Holds
  <2>6. \A i \in Row : st[e][i] <= st2[e][i] /\ st[e][i] \in Nat /\ st2[e][i] \in Nat
    <3>1. ASSUME NEW i \in Row PROVE st[e][i] <= st2[e][i]
      <4>1. st[e][i] \in Nat
        BY <2>1
      <4>2. QED
        BY <2>4, <2>5, <4>1
    <3>2. QED
      BY <2>1, <3>1
  <2>7. \A i \in Row : st[e][i] # 0 => st2[e][i] # 0
    BY <2>6
  <2> HIDE DEF st, st2, e, src
  <2>8. ASSUME NEW i \in Row, NEW x \in Nat, Under(wire, t, e, i, x)
        PROVE  st2[e][i] >= x \/ Under(wire', t, e, i, x)
    <3>1. PICK k \in DOMAIN wire : Holds(wire[k], t, e, i) /\ wire[k].rows[i] >= x
      BY <2>8 DEF Under
    <3>2. CASE k = 1
      BY <1>3, <2>4, <3>1, <3>2
    <3>3. CASE k # 1
      BY <1>3, <3>1, <3>3 DEF Under
    <3>4. QED
      BY <3>2, <3>3
  <2>9. \A i \in Row : Backed(t, i, src, st, wire, mode) => Backed(t, i, src, st2, wire', mode)
    <3>1. ASSUME NEW i \in Row, Backed(t, i, src, st, wire, mode)
          PROVE  Backed(t, i, src, st2, wire', mode)
      <4>1. CASE st[e][i] # 0
        BY <2>7, <4>1 DEF Backed, e
      <4>2. CASE EventAcks \notin mode /\ Under(wire, t, e, i, 1)
        <5>1. st2[e][i] >= 1 \/ Under(wire', t, e, i, 1)
          BY <2>8, <4>2
        <5>2. st2[e][i] >= 1 => st2[e][i] # 0
          BY <2>6
        <5>3. QED
          BY <4>2, <5>1, <5>2 DEF Backed, e
      <4>3. QED
        BY <3>1, <4>1, <4>2 DEF Backed, e
    <3>2. QED
      BY <3>1
  <2>10. \A i \in Row, x \in Nat : Shown(t, i, x, src, st, wire) => Shown(t, i, x, src, st2, wire')
    <3>1. ASSUME NEW i \in Row, NEW x \in Nat, Shown(t, i, x, src, st, wire)
          PROVE  Shown(t, i, x, src, st2, wire')
      <4>1. CASE st[e][i] >= x
        BY <2>6, <4>1 DEF Shown, e
      <4>2. CASE Under(wire, t, e, i, x)
        BY <2>8, <4>2 DEF Shown, e
      <4>3. QED
        BY <3>1, <4>1, <4>2 DEF Shown, e
    <3>2. QED
      BY <3>1
  <2>11. watcher[t].page.rows \in Versions
    BY <2>2 DEF Good, Base, Watcher, Page
  <2>12. PageFits(t, watcher[t], src, st, wire) => PageFits(t, watcher[t], src, st2, wire')
    <3>1. ASSUME PageFits(t, watcher[t], src, st, wire), watcher[t].page.epoch = e,
                 NEW i \in DOMAIN watcher[t].page.rows
          PROVE  /\ i \in DOMAIN src.rows /\ watcher[t].page.rows[i] <= src.rows[i]
                 /\ st2[e][i] <= watcher[t].page.rows[i]
                 /\ \A k \in DOMAIN wire' :
                      Holds(wire'[k], t, e, i) => wire'[k].rows[i] <= watcher[t].page.rows[i]
      <4>1. /\ i \in DOMAIN src.rows /\ watcher[t].page.rows[i] <= src.rows[i]
            /\ st[e][i] <= watcher[t].page.rows[i]
            /\ \A k \in DOMAIN wire :
                 Holds(wire[k], t, e, i) => wire[k].rows[i] <= watcher[t].page.rows[i]
        BY <3>1 DEF PageFits, e
      <4>2. i \in Row
        BY <2>11, <3>1, VersionsAre
      <4>3. CASE Holds(f, t, e, i)
        BY <1>3, <2>4, <4>1, <4>2, <4>3
      <4>4. CASE ~Holds(f, t, e, i)
        BY <1>3, <2>5, <4>1, <4>2, <4>4
      <4>5. QED
        BY <4>3, <4>4
    <3>2. QED
      BY <3>1 DEF PageFits, e
  <2>13. Good(t, watcher[t], src, st2, wire', mode)
    BY <2>1, <2>2, <2>9, <2>10, <2>12, GoodKept DEF src
  <2>14. \A k \in DOMAIN wire : wire[k].rows \in Versions
    <3>1. wire \in Seq(SourceFrame)
      BY <1>1 DEF Types
    <3>2. \A k \in DOMAIN wire : wire[k] \in SourceFrame
      BY <3>1
    <3>3. QED
      BY <3>2 DEF SourceFrame
  <2>15. FramesAgree(t, src, st2, wire')
    <3>1. ASSUME NEW k \in DOMAIN wire', wire'[k].session = t
          PROVE  wire'[k].epoch <= wire'[k].origin /\ wire'[k].origin <= e
      BY <1>3, <2>2, <3>1 DEF FramesAgree, e
    <3>2. ASSUME NEW k \in DOMAIN wire', wire'[k].session = t, wire'[k].origin = e,
                 NEW i \in DOMAIN wire'[k].rows
          PROVE  /\ i \in DOMAIN src.rows /\ wire'[k].rows[i] <= src.rows[i]
                 /\ st2[e][i] <= wire'[k].rows[i]
                 /\ \A l \in DOMAIN wire' : k < l /\ Holds(wire'[l], t, e, i) =>
                      wire'[k].rows[i] <= wire'[l].rows[i]
      <4>1. /\ k + 1 \in DOMAIN wire /\ wire'[k] = wire[k + 1] /\ k \in Nat /\ 1 < k + 1
        BY <1>3
      <4>2. /\ i \in DOMAIN src.rows /\ wire[k + 1].rows[i] <= src.rows[i]
            /\ st[e][i] <= wire[k + 1].rows[i]
            /\ \A l \in DOMAIN wire : k + 1 < l /\ Holds(wire[l], t, e, i) =>
                 wire[k + 1].rows[i] <= wire[l].rows[i]
        BY <2>2, <3>2, <4>1 DEF FramesAgree, e
      <4>3. i \in Row
        BY <2>14, <3>2, <4>1, VersionsAre
      <4>4. st2[e][i] <= wire[k + 1].rows[i]
        <5>1. CASE Holds(f, t, e, i)
          <6>1. Holds(wire[k + 1], t, e, i)
            BY <3>2, <4>1 DEF Holds
          <6>2. f.rows[i] <= wire[k + 1].rows[i]
            BY <1>3, <2>2, <4>1, <5>1, <6>1 DEF FramesAgree, Holds, e
          <6>3. QED
            BY <2>4, <4>3, <5>1, <6>2
        <5>2. CASE ~Holds(f, t, e, i)
          BY <2>5, <4>2, <4>3, <5>2
        <5>3. QED
          BY <5>1, <5>2
      <4>5. ASSUME NEW l \in DOMAIN wire', k < l, Holds(wire'[l], t, e, i)
            PROVE  wire'[k].rows[i] <= wire'[l].rows[i]
        <5>1. l + 1 \in DOMAIN wire /\ wire'[l] = wire[l + 1] /\ k + 1 < l + 1
          BY <1>3, <4>5
        <5>2. QED
          BY <4>1, <4>2, <4>5, <5>1
      <4>6. QED
        BY <4>1, <4>2, <4>4, <4>5
    <3>3. QED
      BY <3>1, <3>2 DEF FramesAgree, e
  <2>16. FramesCover(t, src, st2, wire')
    <3>1. ASSUME NEW k \in DOMAIN wire', wire'[k].session = t, wire'[k].epoch = e,
                 NEW i \in Row \ Hidden, i <= wire'[k].through, st2[e][i] = 0
          PROVE  \E l \in 1..k : Holds(wire'[l], t, e, i)
      <4>1. k + 1 \in DOMAIN wire /\ wire'[k] = wire[k + 1] /\ k \in Nat
        BY <1>3
      <4>2. st[e][i] = 0
        BY <2>7, <3>1
      <4>3. PICK l \in 1..(k + 1) : Holds(wire[l], t, e, i)
        BY <2>2, <3>1, <4>1, <4>2 DEF FramesCover, e
      <4>4. l # 1
        BY <1>3, <2>4, <3>1, <4>3
      <4>5. l \in DOMAIN wire /\ l - 1 \in 1..k
        BY <1>3, <4>1, <4>3, <4>4
      <4>6. QED
        BY <1>3, <4>3, <4>4, <4>5
    <3>2. QED
      BY <3>1 DEF FramesCover, e
  <2>17. StoredFits(src, st2)
    <3>1. \A i \in Row : st2[e][i] # 0 => i \in DOMAIN src.rows /\ st2[e][i] <= src.rows[i]
      BY <2>2, <2>4, <2>5 DEF StoredFits, e
    <3>2. ASSUME NEW x \in Epoch, x > e PROVE st2[x] = st[x]
      BY <1>4, <1>11, <2>1, <2>3, <3>2 DEF st, st2, Epoch
    <3>3. QED
      BY <2>2, <3>1, <3>2 DEF StoredFits, e
  <2>18. WatermarkFits(src, st2, watermark'[t])
    <3>1. ASSUME NEW i \in Row \ Hidden, i <= watermark'[t][e] PROVE st2[e][i] # 0
      <4>1. CASE i <= watermark[t][e]
        BY <2>2, <2>7, <4>1 DEF WatermarkFits, e
      <4>2. CASE t = z /\ f.epoch = e /\ i <= f.through
        <5>1. st[e][i] # 0 \/ \E l \in 1..1 : Holds(wire[l], t, e, i)
          BY <1>3, <2>2, <4>2 DEF FramesCover, e
        <5>2. st[e][i] # 0 \/ Holds(f, t, e, i)
          BY <1>3, <5>1
        <5>3. QED
          BY <2>4, <2>7, <5>2
      <4>3. \/ watermark'[t][e] = watermark[t][e]
            \/ t = z /\ f.epoch = e /\ watermark'[t][e] = f.through
        <5>1. CASE t = z /\ e = f.epoch
          <6>1. watermark'[t][e] = mark
            BY <1>11, <2>1, <5>1
          <6>2. mark = f.through \/ mark = watermark[z][f.epoch]
            BY DEF mark
          <6>3. QED
            BY <5>1, <6>1, <6>2
        <5>2. CASE ~(t = z /\ e = f.epoch)
          BY <1>11, <2>1, <5>2
        <5>3. QED
          BY <5>1, <5>2
      <4>4. QED
        BY <3>1, <4>1, <4>2, <4>3
    <3>2. ASSUME NEW x \in Epoch, x > e PROVE watermark'[t][x] = 0
      <4>1. ~(t = z /\ x = f.epoch)
        BY <1>4, <2>1, <2>3, <3>2 DEF Epoch
      <4>2. QED
        BY <1>11, <2>2, <3>2, <4>1 DEF WatermarkFits, e
    <3>3. QED
      BY <3>1, <3>2 DEF WatermarkFits, e
  <2>19. AcksFit(t, src, st2, acks')
    <3>1. ASSUME NEW a \in acks', a.session = t
          PROVE  /\ a.epoch <= e /\ a.epoch \in Epoch /\ DOMAIN a.rows \subseteq Row
                 /\ a.epoch = e => \A i \in DOMAIN a.rows : st2[e][i] # 0
      <4>1. CASE a \in acks
        <5>1. a.epoch <= e /\ a.epoch \in Epoch /\ DOMAIN a.rows \subseteq Row
              /\ (a.epoch = e => \A i \in DOMAIN a.rows : st[e][i] # 0)
          BY <2>2, <3>1, <4>1 DEF AcksFit, e
        <5>2. QED
          BY <2>7, <5>1
      <4>2. CASE a = d
        <5>1. t = z /\ a.epoch = f.epoch /\ DOMAIN a.rows = DOMAIN f.rows
          BY <1>9, <3>1, <4>2
        <5>2. a.epoch <= e /\ (a.epoch = e => f.origin = e)
          BY <1>4, <2>1, <2>3, <5>1 DEF Epoch
        <5>3. QED
          BY <1>4, <2>4, <5>1, <5>2, VersionsAre DEF Holds
      <4>3. QED
        BY <1>2, <3>1, <4>1, <4>2
    <3>2. QED
      BY <3>1 DEF AcksFit, e
  <2>20. SessionInv(t)'
    BY <1>2, <2>2, <2>13, <2>15, <2>16, <2>17, <2>18, <2>19 DEF SessionInv, src, st2
  <2>21. QED
    BY <2>7, <2>20 DEF st, st2, e, src
<1>13. mode # NoHello
  BY <1>1, <1>2 DEF GateInv
<1>14. GateInv'
  BY <1>1, <1>2, <1>13 DEF GateInv, Acks
<1>15. AckedInv'
  <2>1. ASSUME gate # <<>>, Acks, ~waiting,
               watcher[Head(gate)].cursor.epoch = source[Head(gate)].epoch,
               NEW i \in DOMAIN watcher[Head(gate)].page.rows
        PROVE  stored'[Head(gate)][source[Head(gate)].epoch][i] # 0
    <3>1. Head(gate) \in Session
      BY <1>1, <2>1, FirstWorks
    <3>2. stored[Head(gate)][source[Head(gate)].epoch][i] # 0
      BY <1>1, <2>1 DEF AckedInv
    <3>3. watcher[Head(gate)].page.rows \in Versions
      BY <1>1, <3>1 DEF Types, Watcher, Page
    <3>4. i \in Row
      BY <2>1, <3>3, VersionsAre
    <3>5. QED
      BY <1>12, <3>1, <3>2, <3>4
  <2>2. QED
    BY <1>2, <2>1 DEF AckedInv, Acks
<1>16. OneFrameInv'
  <2>1. ASSUME Acks, ~givenUp PROVE wire' = <<>> /\ acks = {} /\ waiting
                                    /\ watcher[Head(gate)].at \in Sent
    <3>1. Len(wire) <= 1 /\ acks = {} /\ waiting /\ watcher[Head(gate)].at \in Sent
      BY <1>1, <1>2, <2>1 DEF OneFrameInv
    <3>2. Len(wire') = 0
      BY <1>3, <3>1
    <3>3. QED
      BY <1>3, <3>1, <3>2
  <2>2. Len(<<>>) <= 1
    OBVIOUS
  <2>3. QED
    BY <1>2, <2>1, <2>2 DEF OneFrameInv, Acks
<1>17. QED
  BY <1>10, <1>12, <1>14, <1>15, <1>16 DEF CommitsInv

---------------------------------------------------------------------------
(* The source                                                              *)

\* What a change of the source must leave alone: the rows of the transcript go
\* on, and Relay's frames and the watchers' pages stay no newer than they are.
LEMMA SourceKeeps ==
  ASSUME CommitsInv, NEW s \in Session, NEW now \in Transcript,
         source' = [source EXCEPT ![s] = now], Len(now.rows) <= RowsOf[s],
         edits' \in [Session -> Nat], UNCHANGED <<connection, relay>>, SourceFits(now),
         \/ /\ now.epoch = source[s].epoch
            /\ DOMAIN source[s].rows \subseteq DOMAIN now.rows
            /\ \A i \in DOMAIN source[s].rows : source[s].rows[i] <= now.rows[i]
         \/ now.epoch > source[s].epoch
  PROVE  CommitsInv'
<1> DEFINE src == source[s]
           st == stored[s]
           w == watcher[s]
<1>1. /\ Types /\ GateInv /\ AckedInv /\ OneFrameInv /\ SessionInv(s)
      /\ src \in Transcript /\ src.epoch \in Epoch /\ src.rows \in Seq(Nat)
      /\ now.epoch \in Epoch /\ now.rows \in Seq(Nat) /\ st \in [Epoch -> [Row -> Nat]]
  BY TypesOf DEF CommitsInv, Transcript
<1>2. /\ source'[s] = now /\ \A t \in Session : t # s => source'[t] = source[t]
      /\ source' \in [Session -> Transcript]
  BY <1>1 DEF Types
<1>3. UNCHANGED <<up, mode, watcher, gate, waiting, wire, acks, givenUp, stored, watermark>>
  BY DEF connection, relay
<1>4. Types'
  BY <1>1, <1>2, <1>3 DEF Types
<1>5. GateInv'
  BY <1>1, <1>3 DEF GateInv, Acks
<1>6. OneFrameInv'
  BY <1>1, <1>3 DEF OneFrameInv, Acks
<1>7. /\ Good(s, w, src, st, wire, mode) /\ FramesAgree(s, src, st, wire)
      /\ FramesCover(s, src, st, wire) /\ StoredFits(src, st)
      /\ WatermarkFits(src, st, watermark[s]) /\ AcksFit(s, src, st, acks)
  BY <1>1 DEF SessionInv
<1>8. /\ w \in Watcher /\ w.cursor.epoch <= src.epoch /\ w.prints.epoch <= src.epoch
      /\ w.cursor.epoch \in Nat /\ w.prints.epoch \in Nat /\ w.page.epoch \in Nat
      /\ src.epoch \in Nat /\ now.epoch \in Nat /\ w.page.rows \in Versions
      /\ w.latest \in [Epoch -> Through]
  <2>1. w \in Watcher /\ w.cursor.epoch <= src.epoch /\ w.prints.epoch <= src.epoch
    BY <1>7 DEF Good, Base
  <2>2. w.page \in Page /\ w.cursor.epoch \in 0..MaxEpochs /\ w.prints.epoch \in 0..MaxEpochs
        /\ w.latest \in [Epoch -> Through]
    BY <2>1 DEF Watcher
  <2>3. w.page.epoch \in 0..MaxEpochs /\ w.page.rows \in Versions
    BY <2>2 DEF Page
  <2>4. QED
    BY <1>1, <2>1, <2>2, <2>3, Bounds DEF Epoch
<1>9. \A k \in DOMAIN wire : wire[k].rows \in Versions /\ wire[k].origin \in Nat
                             /\ wire[k].epoch \in Nat
  <2>1. wire \in Seq(SourceFrame)
    BY <1>1 DEF Types
  <2>2. \A k \in DOMAIN wire : wire[k] \in SourceFrame
    BY <2>1
  <2>3. QED
    BY <2>2, Bounds DEF SourceFrame, Epoch
<1>10. CASE /\ now.epoch = src.epoch
            /\ DOMAIN src.rows \subseteq DOMAIN now.rows
            /\ \A i \in DOMAIN src.rows : src.rows[i] <= now.rows[i]
  <2>1. \A i \in DOMAIN src.rows, x \in Nat : x <= src.rows[i] => x <= now.rows[i]
    <3>1. \A i \in DOMAIN src.rows : src.rows[i] \in Nat /\ now.rows[i] \in Nat
      BY <1>1, <1>10
    <3>2. QED
      BY <1>10, <3>1
  <2>2. Base(s, w, now, st, wire, mode)
    BY <1>7, <1>10 DEF Good, Base, Backed, Shown
  <2>3. PageFits(s, w, src, st, wire) => PageFits(s, w, now, st, wire)
    <3>1. \A i \in DOMAIN w.page.rows : w.page.rows[i] \in Nat
      BY <1>8, VersionsAre
    <3>2. ASSUME PageFits(s, w, src, st, wire), w.page.epoch = now.epoch,
                 NEW i \in DOMAIN w.page.rows
          PROVE  i \in DOMAIN now.rows /\ w.page.rows[i] <= now.rows[i]
      BY <1>10, <2>1, <3>1, <3>2 DEF PageFits
    <3>3. QED
      BY <1>10, <3>2 DEF PageFits, Backed
  <2>4. Good(s, w, now, st, wire, mode)
    BY <1>7, <1>10, <2>2, <2>3 DEF Good, Walks, PageIsSent, Backed, Shown
  <2>5. FramesAgree(s, now, st, wire)
    <3>1. ASSUME NEW k \in DOMAIN wire, wire[k].session = s, wire[k].origin = now.epoch,
                 NEW i \in DOMAIN wire[k].rows
          PROVE  i \in DOMAIN now.rows /\ wire[k].rows[i] <= now.rows[i]
      <4>1. wire[k].rows[i] \in Nat
        BY <1>9, <3>1, VersionsAre
      <4>2. i \in DOMAIN src.rows /\ wire[k].rows[i] <= src.rows[i]
        BY <1>7, <1>10, <3>1 DEF FramesAgree
      <4>3. QED
        BY <1>10, <2>1, <4>1, <4>2
    <3>2. QED
      BY <1>7, <1>10, <3>1 DEF FramesAgree
  <2>6. FramesCover(s, now, st, wire)
    BY <1>7, <1>10 DEF FramesCover
  <2>7. StoredFits(now, st)
    <3>1. ASSUME NEW i \in Row, st[now.epoch][i] # 0
          PROVE  i \in DOMAIN now.rows /\ st[now.epoch][i] <= now.rows[i]
      <4>1. i \in DOMAIN src.rows /\ st[now.epoch][i] <= src.rows[i]
        BY <1>7, <1>10, <3>1 DEF StoredFits
      <4>2. st[now.epoch][i] \in Nat
        BY <1>1
      <4>3. QED
        BY <1>10, <2>1, <4>1, <4>2
    <3>2. QED
      BY <1>7, <1>10, <3>1 DEF StoredFits
  <2>8. WatermarkFits(now, st, watermark[s]) /\ AcksFit(s, now, st, acks)
    BY <1>7, <1>10 DEF WatermarkFits, AcksFit
  <2>9. ASSUME NEW t \in Session PROVE SessionInv(t)'
    <3>1. CASE t = s
      BY <1>2, <1>3, <2>4, <2>5, <2>6, <2>7, <2>8, <3>1 DEF SessionInv
    <3>2. CASE t # s
      BY <1>2, <1>3, <3>2 DEF CommitsInv, SessionInv
    <3>3. QED
      BY <3>1, <3>2
  <2>10. AckedInv'
    <3>1. \A t \in Session : source'[t].epoch = source[t].epoch
      BY <1>2, <1>10
    <3>2. gate # <<>> => Head(gate) \in Session
      BY <1>1, FirstWorks
    <3>3. QED
      BY <1>1, <1>3, <3>1, <3>2 DEF AckedInv, Acks
  <2>11. QED
    BY <1>4, <1>5, <1>6, <2>9, <2>10 DEF CommitsInv
<1>11. CASE now.epoch > src.epoch
  <2>1. \A i \in Row : ~(i <= 0)
    BY Bounds DEF Row
  <2>2. w.latest[now.epoch] = 0 /\ watermark[s][now.epoch] = 0
        /\ \A i \in Row : st[now.epoch][i] = 0
    BY <1>1, <1>7, <1>11 DEF Good, Base, WatermarkFits, StoredFits
  <2>3. w.cursor.epoch < now.epoch /\ w.prints.epoch < now.epoch
    BY <1>8, <1>11
  <2>4. \A e \in Epoch : e > now.epoch => e > src.epoch
    BY <1>8, <1>11, Bounds DEF Epoch
  <2>5. Base(s, w, now, st, wire, mode)
    BY <1>7, <1>8, <2>1, <2>2, <2>3, <2>4 DEF Good, Base
  <2>6. Walks(s, w, src, st, wire, mode) => Walks(s, w, now, st, wire, mode)
    BY <1>8, <2>3 DEF Walks
  <2>7. PageFits(s, w, src, st, wire) =>
          PageFits(s, w, now, st, wire) /\ PageIsSent(s, w, now, st, wire)
    <3>1. ASSUME PageFits(s, w, src, st, wire)
          PROVE  w.page.epoch < now.epoch /\ w.page.epoch <= now.epoch
      BY <1>8, <1>11, <3>1 DEF PageFits
    <3>2. QED
      BY <1>8, <2>3, <3>1 DEF PageFits, PageIsSent
  <2>8. Good(s, w, now, st, wire, mode)
    BY <1>7, <2>5, <2>6, <2>7 DEF Good, Sent, Paged
  <2>9. \A k \in DOMAIN wire : wire[k].session = s =>
          wire[k].epoch <= wire[k].origin /\ wire[k].origin < now.epoch
          /\ wire[k].epoch < now.epoch
    BY <1>7, <1>8, <1>9, <1>11 DEF FramesAgree
  <2>10. FramesAgree(s, now, st, wire) /\ FramesCover(s, now, st, wire)
    BY <1>8, <1>9, <2>9 DEF FramesAgree, FramesCover
  <2>11. StoredFits(now, st) /\ WatermarkFits(now, st, watermark[s])
    BY <1>7, <2>1, <2>2, <2>4 DEF StoredFits, WatermarkFits
  <2>12. AcksFit(s, now, st, acks)
    <3>1. \A e \in Epoch : e <= src.epoch => e < now.epoch /\ e <= now.epoch
      BY <1>8, <1>11, Bounds DEF Epoch
    <3>2. \A e \in Epoch : e < now.epoch => e # now.epoch
      BY <1>8, Bounds DEF Epoch
    <3>3. QED
      BY <1>7, <3>1, <3>2 DEF AcksFit
  <2>13. ASSUME NEW t \in Session PROVE SessionInv(t)'
    <3>1. CASE t = s
      BY <1>2, <1>3, <2>8, <2>10, <2>11, <2>12, <3>1 DEF SessionInv
    <3>2. CASE t # s
      BY <1>2, <1>3, <3>2 DEF CommitsInv, SessionInv
    <3>3. QED
      BY <3>1, <3>2
  <2>14. AckedInv'
    <3>1. gate # <<>> => Head(gate) \in Session
      BY <1>1, FirstWorks
    <3>2. CASE gate # <<>> /\ Head(gate) = s
      <4>1. w.cursor.epoch # now.epoch
        BY <1>8, <2>3
      <4>2. QED
        BY <1>2, <1>3, <3>2, <4>1 DEF AckedInv
    <3>3. CASE ~(gate # <<>> /\ Head(gate) = s)
      BY <1>1, <1>2, <1>3, <3>1, <3>3 DEF AckedInv, Acks
    <3>4. QED
      BY <3>2, <3>3
  <2>15. QED
    BY <1>4, <1>5, <1>6, <2>13, <2>14 DEF CommitsInv
<1>12. QED
  BY <1>10, <1>11

LEMMA AppendRowKeeps ==
  ASSUME CommitsInv, NEW s \in Session, AppendRow(s)
  PROVE  CommitsInv'
<1> DEFINE src == source[s]
           row == IF Len(src.rows) + 1 \in Hidden THEN 0 ELSE 1
           now == [src EXCEPT !.rows = Append(src.rows, row)]
<1>1. /\ src \in Transcript /\ src.rows \in Seq(Nat) /\ Len(src.rows) < RowsOf[s]
      /\ Types /\ SourceFits(src) /\ RowsOf[s] \in Nat
  BY TypesOf, Bounds DEF AppendRow, CommitsInv, SessionInv
<1>2. row \in Nat
  OBVIOUS
<1>3. source' = [source EXCEPT ![s].rows = Append(@, row)]
  BY DEF AppendRow
<1>4. Len(src.rows) + 1 \notin Hidden => row # 0
  OBVIOUS
<1> HIDE DEF row
<1>5. /\ Append(src.rows, row) \in Seq(Nat) /\ Len(Append(src.rows, row)) = Len(src.rows) + 1
      /\ Len(src.rows) \in Nat /\ DOMAIN src.rows = 1..Len(src.rows)
      /\ DOMAIN Append(src.rows, row) = 1..(Len(src.rows) + 1)
      /\ \A i \in DOMAIN src.rows : Append(src.rows, row)[i] = src.rows[i]
      /\ Append(src.rows, row)[Len(src.rows) + 1] = row
  BY <1>1, <1>2, AppendProperties
<1>6. /\ now \in Transcript /\ now.rows = Append(src.rows, row) /\ now.epoch = src.epoch
      /\ source' = [source EXCEPT ![s] = now]
  BY <1>1, <1>3, <1>5 DEF Transcript, Types
<1> HIDE DEF now
<1>7. Len(now.rows) <= RowsOf[s]
  BY <1>1, <1>5, <1>6
<1>8. SourceFits(now)
  <2>1. ASSUME NEW i \in DOMAIN now.rows, i \notin Hidden PROVE now.rows[i] # 0
    <3>1. CASE i \in DOMAIN src.rows
      BY <1>1, <1>5, <1>6, <2>1, <3>1 DEF SourceFits
    <3>2. CASE i = Len(src.rows) + 1
      BY <1>4, <1>5, <1>6, <2>1, <3>2
    <3>3. QED
      BY <1>5, <1>6, <2>1, <3>1, <3>2
  <2>2. QED
    BY <2>1 DEF SourceFits
<1>9. \A i \in DOMAIN src.rows : i \in DOMAIN now.rows /\ src.rows[i] <= now.rows[i]
  <2>1. ASSUME NEW i \in DOMAIN src.rows
        PROVE  i \in DOMAIN now.rows /\ src.rows[i] <= now.rows[i]
    <3>1. src.rows[i] \in Nat /\ now.rows[i] = src.rows[i] /\ i \in DOMAIN now.rows
      BY <1>1, <1>5, <1>6
    <3>2. QED
      BY <3>1
  <2>2. QED
    BY <2>1
<1>10. UNCHANGED <<connection, relay>> /\ edits' \in [Session -> Nat]
  BY <1>1 DEF AppendRow, Types
<1>11. QED
  BY <1>6, <1>7, <1>8, <1>9, <1>10, SourceKeeps

LEMMA EditIs ==
  ASSUME Types, NEW s \in Session, Edit(s)
  PROVE  edits' \in [Session -> Nat]
  BY DEF Types, Edit

LEMMA RewriteRowKeeps ==
  ASSUME CommitsInv, NEW s \in Session, NEW i \in Row, RewriteRow(s, i)
  PROVE  CommitsInv'
<1> DEFINE src == source[s]
           rows == [src.rows EXCEPT ![i] = @ + 1]
           now == [src EXCEPT !.rows = rows, !.gen = @ + 1]
<1>1. /\ src \in Transcript /\ src.rows \in Seq(Nat) /\ i \in DOMAIN src.rows
      /\ Types /\ SourceFits(src) /\ Len(src.rows) <= RowsOf[s]
  BY TypesOf DEF RewriteRow, CommitsInv, SessionInv, Types
<1>2. \A j \in DOMAIN src.rows : src.rows[j] \in Nat
  BY <1>1
<1>3. /\ rows \in Seq(Nat) /\ Len(rows) = Len(src.rows) /\ DOMAIN rows = DOMAIN src.rows
      /\ rows[i] = src.rows[i] + 1 /\ \A j \in DOMAIN src.rows : j # i => rows[j] = src.rows[j]
  BY <1>1, <1>2
<1>4. source' = [source EXCEPT ![s].rows[i] = @ + 1, ![s].gen = @ + 1]
  BY DEF RewriteRow
<1>5. /\ now \in Transcript /\ now.rows = rows /\ now.epoch = src.epoch
      /\ source' = [source EXCEPT ![s] = now]
  <2>1. source \in [Session -> Transcript]
    BY <1>1 DEF Types
  <2>2. source' = [source EXCEPT ![s] = now]
    <3> DEFINE one == [source EXCEPT ![s].rows[i] = @ + 1]
               mid == [src EXCEPT !.rows = rows]
    <3>1. one = [source EXCEPT ![s] = mid]
      BY <2>1
    <3>2. mid.gen = src.gen
      BY <1>1 DEF Transcript
    <3>3. source' = [one EXCEPT ![s].gen = @ + 1]
      BY <1>4
    <3>4. now = [mid EXCEPT !.gen = mid.gen + 1]
      BY <3>2
    <3> HIDE DEF one, mid, now
    <3>5. source' = [source EXCEPT ![s] = [mid EXCEPT !.gen = mid.gen + 1]]
      BY <2>1, <3>1, <3>3
    <3>6. QED
      BY <3>4, <3>5
  <2> HIDE DEF rows
  <2>3. src.gen + 1 \in Nat \ {0}
    <3>1. src.gen \in Nat \ {0}
      BY <1>1 DEF Transcript
    <3>2. QED
      BY <3>1
  <2> DEFINE gen == src.gen + 1
             new == [src EXCEPT !.rows = rows, !.gen = gen]
  <2>4. now = new
    OBVIOUS
  <2> HIDE DEF gen
  <2>5. gen \in Nat \ {0}
    BY <2>3 DEF gen
  <2>6. new \in Transcript /\ new.rows = rows /\ new.epoch = src.epoch
    BY <1>1, <1>3, <2>5 DEF Transcript
  <2> HIDE DEF now, new
  <2>7. now \in Transcript /\ now.rows = rows /\ now.epoch = src.epoch
    BY <2>4, <2>6
  <2>8. QED
    BY <2>2, <2>7
<1> HIDE DEF now, rows
<1>6. Len(now.rows) <= RowsOf[s]
  BY <1>1, <1>3, <1>5
<1>7. \A j \in DOMAIN src.rows : j \in DOMAIN now.rows /\ src.rows[j] <= now.rows[j]
  <2>1. ASSUME NEW j \in DOMAIN src.rows PROVE src.rows[j] <= rows[j]
    BY <1>2, <1>3
  <2>2. QED
    BY <1>3, <1>5, <2>1
<1>8. SourceFits(now)
  <2>1. ASSUME NEW j \in DOMAIN now.rows, j \notin Hidden PROVE now.rows[j] # 0
    <3>1. j \in DOMAIN src.rows /\ src.rows[j] # 0 /\ src.rows[j] \in Nat
      BY <1>1, <1>2, <1>3, <1>5, <2>1 DEF SourceFits
    <3>2. QED
      BY <1>2, <1>3, <1>5, <3>1
  <2>2. QED
    BY <2>1 DEF SourceFits
<1>9. UNCHANGED <<connection, relay>> /\ edits' \in [Session -> Nat]
  BY <1>1, EditIs DEF RewriteRow
<1>10. QED
  BY <1>5, <1>6, <1>7, <1>8, <1>9, SourceKeeps

LEMMA StartAnewKeeps ==
  ASSUME CommitsInv, NEW s \in Session, StartAnew(s)
  PROVE  CommitsInv'
<1> DEFINE src == source[s]
           now == [epoch |-> src.epoch + 1, rows |-> <<>>, gen |-> 1]
<1>1. /\ src \in Transcript /\ src.epoch \in Epoch /\ src.epoch < MaxEpochs /\ Types
      /\ RowsOf[s] \in Nat
  BY TypesOf, Bounds DEF StartAnew, CommitsInv
<1>2. src.epoch + 1 \in Epoch /\ src.epoch + 1 > src.epoch
  BY <1>1, Bounds DEF Epoch
<1>3. <<>> \in Seq(Nat) /\ Len(<<>>) = 0 /\ DOMAIN <<>> = {}
  OBVIOUS
<1>4. now \in Transcript /\ now.rows = <<>> /\ now.epoch > src.epoch
  BY <1>2, <1>3 DEF Transcript
<1>5. Len(now.rows) <= RowsOf[s] /\ SourceFits(now)
  BY <1>1, <1>3, <1>4 DEF SourceFits
<1>6. source' = [source EXCEPT ![s] = now]
  BY DEF StartAnew
<1>7. UNCHANGED <<connection, relay>> /\ edits' \in [Session -> Nat]
  BY <1>1, EditIs DEF StartAnew
<1> HIDE DEF now
<1>8. QED
  BY <1>4, <1>5, <1>6, <1>7, SourceKeeps

---------------------------------------------------------------------------
(* The theorems                                                            *)

LEMMA InitHolds ==
  ASSUME Init
  PROVE  CommitsInv
<1> DEFINE fresh == [epoch |-> 1, rows |-> <<>>, gen |-> 1]
           zeros == [e \in Epoch |-> [i \in Row |-> 0]]
           marks == [e \in Epoch |-> 0]
<1>1. <<>> \in Seq(Nat) /\ <<>> \in Seq(Session) /\ <<>> \in Seq(SourceFrame) /\ DOMAIN <<>> = {}
      /\ Len(<<>>) = 0
  OBVIOUS
<1>2. 1 \in Epoch /\ 0 \in Through /\ \A s \in Session : 0 <= RowsOf[s]
  BY Bounds DEF Epoch, Through
<1>3. fresh \in Transcript /\ fresh.rows = <<>> /\ fresh.epoch = 1
  BY <1>1, <1>2 DEF Transcript
<1>4. zeros \in [Epoch -> [Row -> Nat]] /\ marks \in [Epoch -> Through]
  BY <1>2
<1>5. \A s \in Session : /\ source[s] = fresh /\ watcher[s] = Off /\ stored[s] = zeros
                         /\ watermark[s] = marks
  BY DEF Init
<1>6. gate = <<>> /\ ~waiting /\ wire = <<>> /\ acks = {} /\ mode = NoHello /\ ~up
  BY DEF Init
<1>7. Types
  <2>1. source = [s \in Session |-> fresh] /\ watcher = [s \in Session |-> Off]
        /\ stored = [s \in Session |-> zeros] /\ watermark = [s \in Session |-> marks]
        /\ edits = [s \in Session |-> 0]
    BY DEF Init
  <2> HIDE DEF fresh, zeros, marks
  <2>2. source \in [Session -> Transcript] /\ watcher \in [Session -> Watcher]
        /\ stored \in [Session -> [Epoch -> [Row -> Nat]]]
        /\ watermark \in [Session -> [Epoch -> Through]] /\ edits \in [Session -> Nat]
    BY <1>3, <1>4, <2>1, OffIsTyped
  <2>3. waiting \in BOOLEAN
    BY DEF Init
  <2>4. QED
    BY <1>1, <1>2, <1>3, <1>5, <1>6, <2>2, <2>3 DEF Types
<1>8. GateInv
  BY <1>1, <1>5, <1>6, OffIsTyped DEF GateInv, InGate, Paged, Sent
<1>9. AckedInv /\ OneFrameInv
  BY <1>1, <1>6 DEF AckedInv, OneFrameInv
<1>10. \A i \in Row : ~(i <= 0)
  BY Bounds DEF Row
<1>11. ASSUME NEW s \in Session PROVE SessionInv(s)
  <2>1. Good(s, Off, fresh, zeros, <<>>, NoHello)
    BY <1>3, OffIsTyped, NewWatcherIsGood
  <2>2. /\ FramesAgree(s, fresh, zeros, <<>>) /\ FramesCover(s, fresh, zeros, <<>>)
        /\ AcksFit(s, fresh, zeros, {}) /\ SourceFits(fresh)
    BY <1>1, <1>3 DEF FramesAgree, FramesCover, AcksFit, SourceFits
  <2>3. StoredFits(fresh, zeros) /\ WatermarkFits(fresh, zeros, marks)
    BY <1>2, <1>3, <1>10 DEF StoredFits, WatermarkFits
  <2>4. QED
    BY <1>5, <1>6, <2>1, <2>2, <2>3 DEF SessionInv
<1>12. QED
  BY <1>7, <1>8, <1>9, <1>11 DEF CommitsInv

LEMMA NextKeeps ==
  ASSUME CommitsInv, [Next]_vars
  PROVE  CommitsInv'
<1>1. CASE UNCHANGED vars
  <2>1. UNCHANGED <<source, edits, up, mode, watcher, gate, waiting, wire, acks, stored,
                    watermark, givenUp>>
    BY <1>1 DEF vars, connection, relay
  <2>2. Types'
    BY <2>1 DEF CommitsInv, Types
  <2>3. GateInv' /\ AckedInv' /\ OneFrameInv'
    BY <2>1 DEF CommitsInv, GateInv, AckedInv, OneFrameInv, Acks
  <2>4. \A s \in Session : SessionInv(s)'
    BY <2>1 DEF CommitsInv, SessionInv
  <2>5. QED
    BY <2>2, <2>3, <2>4 DEF CommitsInv
<1>2. CASE Connect
  BY <1>2, ConnectKeeps
<1>3. CASE Close \/ AckTimeoutUnhandled
  BY <1>3, GoesKeeps DEF Close, AckTimeoutUnhandled
<1>4. CASE RelayTakes
  BY <1>4, RelayTakesKeeps
<1>5. CASE \E m \in Modes : Hello(m)
  BY <1>5, HelloKeeps
<1>6. CASE \E a \in acks : AckArrives(a)
  BY <1>6, AckArrivesKeeps
<1>7. ASSUME NEW s \in Session,
             \/ AppendRow(s) \/ StartAnew(s) \/ \E i \in Row : RewriteRow(s, i)
             \/ Watch(s) \/ Notify(s) \/ Resolve(s) \/ ResolveFails(s)
             \/ ReadPage(s) \/ Relayed(s) \/ ReadFails(s) \/ Write(s) \/ Written(s)
             \/ SendFails(s) \/ AckTimeout(s)
      PROVE  CommitsInv'
  BY <1>7, AppendRowKeeps, StartAnewKeeps, RewriteRowKeeps, WatchKeeps, NotifyKeeps,
     ResolveKeeps, ResolveFailsKeeps, ReadPageKeeps, RelayedKeeps, ReadFailsKeeps, WriteKeeps,
     WrittenKeeps, SendFailsKeeps, AckTimeoutKeeps
<1>8. QED
  BY <1>1, <1>2, <1>3, <1>4, <1>5, <1>6, <1>7 DEF Next

\* The invariant from which the others follow.
THEOREM CommitsInvariance == Spec => []CommitsInv
  BY InitHolds, NextKeeps, PTL DEF Spec

\* The type invariant: whoever stands in the gate is somewhere between its media and
\* its ACK, nobody stands there twice, and nobody before Relay's hello.
THEOREM CommitsAreTyped == Spec => []TypeOK
<1>1. ASSUME CommitsInv PROVE TypeOK
  <2>1. Types /\ GateInv
    BY <1>1 DEF CommitsInv
  <2>2. ASSUME NEW s \in Session
        PROVE  /\ source[s].epoch \in Epoch /\ Len(source[s].rows) <= RowsOf[s]
               /\ watcher[s].at \in Positions
               /\ watcher[s].cursor.epoch \in 0..source[s].epoch
               /\ \A e \in Epoch : watermark[s][e] \in 0..MaxRows
    <3>1. watcher[s] \in Watcher /\ watcher[s].cursor.epoch <= source[s].epoch
      BY <1>1 DEF CommitsInv, SessionInv, Good, Base
    <3>2. watcher[s].at \in Positions /\ watcher[s].cursor.epoch \in 0..MaxEpochs
      BY <3>1 DEF Watcher
    <3>3. QED
      BY <2>1, <3>1, <3>2, TypesOf, Bounds DEF Types, Through, Epoch
  <2>3. \A s \in Session : (\E i \in DOMAIN gate : gate[i] = s)
          <=> watcher[s].at \in {"queued", "sending", "writing", "acking"}
    BY <2>1 DEF GateInv, InGate, Paged, Sent
  <2>4. gate # <<>> => up /\ mode # NoHello
    BY <1>1, <2>1, FirstWorks, FirstIs
  <2>5. mode \in Modes \cup {NoHello} /\ \A i, j \in DOMAIN gate : gate[i] = gate[j] => i = j
    BY <2>1 DEF Types, GateInv
  <2>6. QED
    BY <2>2, <2>3, <2>4, <2>5 DEF TypeOK
<1>2. QED
  BY <1>1, CommitsInvariance, PTL

\* What Relay is told is so: below its watermark of a session's transcript no row is
\* missing, so a watcher that resumes there skips nothing, and a row whose fingerprint
\* is kept has been shown.
THEOREM RelayIsToldTheTruth == Spec => []ClaimsAreTrue
<1>1. ASSUME CommitsInv PROVE ClaimsAreTrue
  <2>1. ResumesWithoutGap
    BY <1>1 DEF CommitsInv, SessionInv, WatermarkFits, ResumesWithoutGap
  <2>2. PrintsAreShown
    BY <1>1 DEF CommitsInv, SessionInv, Good, Base, Shown, Under, Holds, PrintsAreShown, OnTheWay
  <2>3. QED
    BY <2>1, <2>2 DEF ClaimsAreTrue
<1>2. QED
  BY <1>1, CommitsInvariance, PTL

\* No watcher's cursor passes a row that Relay has not taken.
THEOREM CursorsAreBacked == Spec => []CursorIsBacked
<1>1. ASSUME CommitsInv PROVE CursorIsBacked
  BY <1>1 DEF CommitsInv, SessionInv, Good, Base, Backed, Under, Holds, CursorIsBacked,
              OnTheWay, Acks
<1>2. QED
  BY <1>1, CommitsInvariance, PTL

\* Relay has one source frame of the agent's to look at, or its ACK is on the way, as
\* long as the agent gave none up.
THEOREM OneFrameIsUnderWay == Spec => []OneFrameAtATime
<1>1. ASSUME CommitsInv, Acks, ~givenUp PROVE Len(wire) + Cardinality(acks) <= 1
  <2>1. /\ Len(wire) <= 1 /\ (wire = <<>> \/ acks = {}) /\ \A a, b \in acks : a = b
        /\ Len(wire) \in Nat
    BY <1>1 DEF CommitsInv, OneFrameInv, Types
  <2>2. CASE acks = {}
    <3>1. Cardinality(acks) = 0
      BY <2>2, FS_EmptySet
    <3>2. QED
      BY <2>1, <3>1
  <2>3. CASE acks # {}
    <3>1. PICK a \in acks : acks = {a}
      BY <2>1, <2>3
    <3>2. Cardinality(acks) = 1 /\ Len(<<>>) = 0
      BY <3>1, FS_Singleton
    <3>3. QED
      BY <2>1, <2>3, <3>2
  <2>4. QED
    BY <2>2, <2>3
<1>2. CommitsInv => OneFrameAtATime
  BY <1>1 DEF OneFrameAtATime
<1>3. QED
  BY <1>2, CommitsInvariance, PTL

\* No cursor passes a row that Relay has not taken, and frames go one by one.
THEOREM SentRowsAreTaken == Spec => []SentIsTaken
<1>1. CursorIsBacked /\ OneFrameAtATime => SentIsTaken
  BY DEF SentIsTaken
<1>2. QED
  BY <1>1, CursorsAreBacked, OneFrameIsUnderWay, PTL
=============================================================================
