-------------------------- MODULE OutboxStoreProofs --------------------------
(***************************************************************************)
(* The journal of the durable outbox keeps what it took, through crashes,  *)
(* power losses and calls that fail: what parseGeneration finds in a log,  *)
(* what a power loss leaves of it, the inductive invariant of the store    *)
(* (StoreInv, and DurableInv where the store can rely on its directory),   *)
(* and that every step is one of the durable queue.                        *)
(***************************************************************************)
EXTENDS OutboxStore, SequenceTheorems, WellFoundedInduction, TLAPS

---------------------------------------------------------------------------
(* Induction, in the form the provers can use: of a set of natural numbers. *)

Smaller == {p \in Nat \X Nat : p[1] < p[2]}

\* There is no infinite descent in the natural numbers.
LEMMA SmallerIsWellFounded == IsWellFoundedOn(Smaller, Nat)
<1>1. IsWellFoundedOn(OpToRel(<, Nat), Nat)
  BY NatLessThanWellFounded
<1>2. Smaller \subseteq OpToRel(<, Nat)
  BY DEF Smaller, OpToRel
<1>3. QED
  BY <1>1, <1>2, IsWellFoundedOnSubrelation

\* A set of natural numbers has a least one.
LEMMA LeastNumber ==
  ASSUME NEW T \in SUBSET Nat, T # {}
  PROVE  \E n \in T : \A m \in T : n <= m
<1>1. PICK n \in T : \A m \in T : <<m, n>> \notin Smaller
  BY SmallerIsWellFounded, WFMin, Zenon
<1>2. ASSUME NEW m \in T
      PROVE  n <= m
  <2>1. m \in Nat /\ n \in Nat
    OBVIOUS
  <2>2. ~(m < n)
    BY <1>1, <2>1 DEF Smaller
  <2>3. QED
    BY <2>1, <2>2
<1>3. QED
  BY <1>2

\* Induction over the natural numbers, for a set.
LEMMA SetInduction ==
  ASSUME NEW S, 0 \in S, \A n \in Nat : n \in S => n + 1 \in S
  PROVE  Nat \subseteq S
<1>1. SUFFICES ASSUME Nat \ S # {}
               PROVE  FALSE
  OBVIOUS
<1>2. PICK n \in Nat \ S : \A m \in Nat \ S : n <= m
  BY <1>1, LeastNumber
<1>3. n - 1 \in S /\ n - 1 \in Nat
  BY <1>2
<1>4. QED
  BY <1>2, <1>3

---------------------------------------------------------------------------
(* Numbers of generations                                                  *)

\* A set of generations has a highest one.
LEMMA HighestIs ==
  ASSUME NEW S \in SUBSET (Generation \cup {0}), S # {}
  PROVE  Highest(S) \in S /\ \A h \in S : h <= Highest(S)
<1> DEFINE T == {n \in Nat : \E g \in S : n + g = MaxGeneration}
<1>1. S \subseteq 0..MaxGeneration /\ MaxGeneration \in Nat
  BY StoreConstants DEF Generation
<1>2. T # {} /\ T \in SUBSET Nat
  <2>1. PICK g \in S : TRUE
    OBVIOUS
  <2>2. MaxGeneration - g \in Nat /\ (MaxGeneration - g) + g = MaxGeneration
    BY <1>1, <2>1
  <2>3. QED
    BY <2>2
<1>3. PICK n \in T : \A k \in T : n <= k
  <2> HIDE DEF T
  <2>1. QED
    BY <1>2, LeastNumber
<1>4. PICK g \in S : n + g = MaxGeneration
  BY <1>3
<1>5. \A h \in S : h <= g
  <2> SUFFICES ASSUME NEW h \in S
               PROVE  h <= g
    OBVIOUS
  <2>1. MaxGeneration - h \in T
    BY <1>1
  <2>2. QED
    BY <1>1, <1>3, <1>4, <2>1
<1>6. QED
  BY <1>5 DEF Highest

\* There is but one highest.
LEMMA HighestOf ==
  ASSUME NEW S \in SUBSET (Generation \cup {0}), NEW a \in S, \A h \in S : h <= a
  PROVE  Highest(S) = a
<1>1. Highest(S) \in S /\ \A h \in S : h <= Highest(S)
  BY HighestIs
<1>2. Generation \cup {0} \subseteq Nat
  BY StoreConstants DEF Generation
<1>3. a \in Nat /\ Highest(S) \in Nat
  BY <1>1, <1>2
<1>4. QED
  BY <1>1, <1>3

---------------------------------------------------------------------------
(* Prefixes                                                                *)

\* The first n elements.
LEMMA Prefix ==
  ASSUME NEW T, NEW l \in Seq(T), NEW n \in 0..Len(l)
  PROVE  /\ SubSeq(l, 1, n) \in Seq(T) /\ Len(SubSeq(l, 1, n)) = n
         /\ \A i \in 1..n : SubSeq(l, 1, n)[i] = l[i]
<1>1. \A i \in 1..n : l[i] \in T
  OBVIOUS
<1>2. n \in Int /\ 1 \in Int /\ (IF 1 <= n THEN n - 1 + 1 ELSE 0) = n
  OBVIOUS
<1>3. QED
  BY <1>1, <1>2, SubSeqProperties

LEMMA WholePrefix ==
  ASSUME NEW T, NEW l \in Seq(T)
  PROVE  SubSeq(l, 1, Len(l)) = l /\ SubSeq(l, 1, 0) = <<>>
  BY SubSeqFull, SubSeqEmpty

LEMMA PrefixOfPrefix ==
  ASSUME NEW T, NEW l \in Seq(T), NEW n \in 0..Len(l), NEW k \in 0..n
  PROVE  SubSeq(SubSeq(l, 1, n), 1, k) = SubSeq(l, 1, k)
<1>1. SubSeq(l, 1, n) \in Seq(T) /\ Len(SubSeq(l, 1, n)) = n
      /\ \A i \in 1..n : SubSeq(l, 1, n)[i] = l[i]
  BY Prefix
<1>2. k \in 0..Len(l) /\ k \in 0..Len(SubSeq(l, 1, n))
  BY <1>1
<1>3. /\ SubSeq(l, 1, k) \in Seq(T) /\ Len(SubSeq(l, 1, k)) = k
      /\ \A i \in 1..k : SubSeq(l, 1, k)[i] = l[i]
  BY <1>2, Prefix
<1>4. /\ SubSeq(SubSeq(l, 1, n), 1, k) \in Seq(T) /\ Len(SubSeq(SubSeq(l, 1, n), 1, k)) = k
      /\ \A i \in 1..k : SubSeq(SubSeq(l, 1, n), 1, k)[i] = SubSeq(l, 1, n)[i]
  BY <1>1, <1>2, Prefix
<1>5. \A i \in 1..k : SubSeq(SubSeq(l, 1, n), 1, k)[i] = SubSeq(l, 1, k)[i]
  BY <1>1, <1>3, <1>4
<1>6. QED
  BY <1>3, <1>4, <1>5, SeqEqual

LEMMA PrefixOfAppend ==
  ASSUME NEW T, NEW l \in Seq(T), NEW x \in T, NEW n \in 0..Len(l)
  PROVE  SubSeq(Append(l, x), 1, n) = SubSeq(l, 1, n)
<1>1. /\ Append(l, x) \in Seq(T) /\ Len(Append(l, x)) = Len(l) + 1
      /\ \A i \in 1..Len(l) : Append(l, x)[i] = l[i]
  BY AppendProperties
<1>2. n \in 0..Len(Append(l, x))
  BY <1>1
<1>3. /\ SubSeq(l, 1, n) \in Seq(T) /\ Len(SubSeq(l, 1, n)) = n
      /\ \A i \in 1..n : SubSeq(l, 1, n)[i] = l[i]
  BY Prefix
<1>4. /\ SubSeq(Append(l, x), 1, n) \in Seq(T) /\ Len(SubSeq(Append(l, x), 1, n)) = n
      /\ \A i \in 1..n : SubSeq(Append(l, x), 1, n)[i] = Append(l, x)[i]
  BY <1>1, <1>2, Prefix
<1>5. QED
  BY <1>1, <1>3, <1>4, SeqEqual

LEMMA LongerPrefix ==
  ASSUME NEW T, NEW l \in Seq(T), NEW n \in 1..Len(l)
  PROVE  SubSeq(l, 1, n) = Append(SubSeq(l, 1, n - 1), l[n])
<1>1. n \in 0..Len(l) /\ n - 1 \in 0..Len(l) /\ l[n] \in T
  OBVIOUS
<1>2. /\ SubSeq(l, 1, n) \in Seq(T) /\ Len(SubSeq(l, 1, n)) = n
      /\ \A i \in 1..n : SubSeq(l, 1, n)[i] = l[i]
  BY <1>1, Prefix
<1>3. /\ SubSeq(l, 1, n - 1) \in Seq(T) /\ Len(SubSeq(l, 1, n - 1)) = n - 1
      /\ \A i \in 1..(n - 1) : SubSeq(l, 1, n - 1)[i] = l[i]
  BY <1>1, Prefix
<1> DEFINE a == Append(SubSeq(l, 1, n - 1), l[n])
<1>4. /\ a \in Seq(T) /\ Len(a) = n /\ a[n] = l[n]
      /\ \A i \in 1..(n - 1) : a[i] = l[i]
  BY <1>1, <1>3, AppendProperties
<1> HIDE DEF a
<1>5. \A i \in 1..n : a[i] = SubSeq(l, 1, n)[i]
  BY <1>2, <1>4
<1>6. a = SubSeq(l, 1, n)
  BY <1>2, <1>4, <1>5, SeqEqual
<1>7. QED
  BY <1>6 DEF a
---------------------------------------------------------------------------
(* What parseGeneration finds                                              *)

Line == Requests \cup {Checkpoint, Torn}

\* The kinds of lines.
LEMMA Lines ==
  /\ \A r \in Requests : /\ r \in Line /\ r.kind \in {"put", "remove"} /\ r.key \in Key
                         /\ r # Checkpoint /\ r # Torn /\ r # NoOp
  /\ Checkpoint \in Line /\ Torn \in Line /\ Checkpoint # Torn
  /\ Checkpoint.kind = "checkpoint" /\ Torn.kind = "torn"
  /\ \A k \in Key : Record("put", k) \in Requests /\ Record("remove", k) \in Requests
<1>1. \A r \in Requests : \E kind \in {"put", "remove"}, k \in Key : r = [kind |-> kind, key |-> k]
  BY DEF Requests, Record
<1>2. \A r \in Requests : r.kind \in {"put", "remove"} /\ r.key \in Key
  BY <1>1
<1>3. Checkpoint.kind = "checkpoint" /\ Torn.kind = "torn" /\ NoOp.kind = "none"
  BY DEF Checkpoint, Torn, NoOp, Record
<1>4. \A k \in Key : Record("put", k) \in Requests /\ Record("remove", k) \in Requests
  BY DEF Requests
<1>5. QED
  BY <1>2, <1>3, <1>4 DEF Line

\* p holds what has been read after each of the first n lines.
Reads(p, n, log) ==
  p[0] = Unread /\ \A i \in 1..n : p[i] = ReadLine(p[i - 1], log[i])

LEMMA ReadsExist ==
  ASSUME NEW log, NEW N \in Nat
  PROVE  \E p : Reads(p, N, log)
<1> DEFINE S == {n \in Nat : \E p : Reads(p, n, log)}
<1>1. 0 \in S
  <2>1. Reads([i \in 0..0 |-> Unread], 0, log)
    BY DEF Reads
  <2>2. QED
    BY <2>1
<1>2. ASSUME NEW n \in Nat, n \in S
      PROVE  n + 1 \in S
  <2>1. PICK p : Reads(p, n, log)
    BY <1>2
  <2> DEFINE b == ReadLine(p[n], log[n + 1])
             q == [i \in 0..(n + 1) |-> IF i <= n THEN p[i] ELSE b]
  <2> HIDE DEF b
  <2>2. \A i \in 1..(n + 1) : q[i] = ReadLine(q[i - 1], log[i])
    <3> SUFFICES ASSUME NEW i \in 1..(n + 1)
                 PROVE  q[i] = ReadLine(q[i - 1], log[i])
      OBVIOUS
    <3>1. CASE i = n + 1
      <4>1. q[i] = b /\ q[i - 1] = p[n]
        BY <3>1
      <4>2. QED
        BY <4>1, <3>1 DEF b
    <3>2. CASE i # n + 1
      <4>1. i \in 1..n /\ q[i] = p[i] /\ q[i - 1] = p[i - 1]
        BY <3>2
      <4>2. QED
        BY <4>1, <2>1 DEF Reads
    <3>3. QED
      BY <3>1, <3>2
  <2>3. q[0] = Unread
    BY <2>1 DEF Reads
  <2>4. Reads(q, n + 1, log)
    BY <2>2, <2>3 DEF Reads
  <2>5. QED
    BY <2>4
<1>3. N \in S
  <2> HIDE DEF S
  <2>1. QED
    BY <1>1, <1>2, SetInduction
<1>4. QED
  BY <1>3

\* What Reading is: the end of such a chain.
LEMMA ReadingIs ==
  ASSUME NEW T, NEW log \in Seq(T)
  PROVE  \E p : Reads(p, Len(log), log) /\ Reading(log) = p[Len(log)]
<1> DEFINE N == Len(log)
           Unrolled(g) == [i \in 0..N |-> IF i = 0 THEN Unread ELSE ReadLine(g[i - 1], log[i])]
           read == CHOOSE g : g = Unrolled(g)
<1>1. N \in Nat
  OBVIOUS
<1>2. Reading(log) = read[N]
  BY DEF Reading
<1>3. read = Unrolled(read)
  <2>1. PICK q : Reads(q, N, log)
    BY <1>1, ReadsExist
  <2> DEFINE g == [i \in 0..N |-> q[i]]
  <2>2. \A i \in 0..N : g[i] = IF i = 0 THEN Unread ELSE ReadLine(g[i - 1], log[i])
    <3> SUFFICES ASSUME NEW i \in 0..N
                 PROVE  g[i] = IF i = 0 THEN Unread ELSE ReadLine(g[i - 1], log[i])
      OBVIOUS
    <3>1. CASE i = 0
      BY <2>1, <3>1 DEF Reads
    <3>2. CASE i # 0
      <4>1. i \in 1..N /\ i - 1 \in 0..N
        BY <1>1, <3>2
      <4>2. q[i] = ReadLine(q[i - 1], log[i])
        BY <2>1, <4>1 DEF Reads
      <4>3. g[i] = q[i] /\ g[i - 1] = q[i - 1]
        BY <4>1
      <4>4. QED
        BY <3>2, <4>2, <4>3
    <3>3. QED
      BY <3>1, <3>2
  <2>3. g = Unrolled(g)
    BY <2>2
  <2>4. QED
    BY <2>3
<1> HIDE DEF read, N
<1>4. read[0] = Unread /\ \A i \in 1..N : read[i] = ReadLine(read[i - 1], log[i])
  BY <1>1, <1>3
<1>5. Reads(read, N, log)
  BY <1>4 DEF Reads
<1>6. QED
  BY <1>2, <1>5 DEF N

\* Two chains over the same lines agree.
LEMMA ReadsAgree ==
  ASSUME NEW a, NEW b, NEW p, NEW q, NEW N \in Nat, Reads(p, N, a), Reads(q, N, b),
         \A i \in 1..N : a[i] = b[i]
  PROVE  \A i \in 0..N : p[i] = q[i]
<1> DEFINE S == {n \in Nat : n <= N => p[n] = q[n]}
<1>1. 0 \in S
  BY DEF Reads
<1>2. ASSUME NEW n \in Nat, n \in S
      PROVE  n + 1 \in S
  <2> SUFFICES ASSUME n + 1 <= N
               PROVE  p[n + 1] = q[n + 1]
    OBVIOUS
  <2>1. n + 1 \in 1..N /\ (n + 1) - 1 = n /\ p[n] = q[n]
    BY <1>2
  <2>2. p[n + 1] = ReadLine(p[n], a[n + 1]) /\ q[n + 1] = ReadLine(q[n], b[n + 1])
    BY <2>1 DEF Reads
  <2>3. QED
    BY <2>1, <2>2
<1>3. Nat \subseteq S
  <2> HIDE DEF S
  <2>1. QED
    BY <1>1, <1>2, SetInduction
<1>4. QED
  BY <1>3

\* One more line is read after the others.
LEMMA ReadingAppended ==
  ASSUME NEW T, NEW l \in Seq(T), NEW r \in T
  PROVE  Reading(Append(l, r)) = ReadLine(Reading(l), r)
<1> DEFINE a == Append(l, r)
           N == Len(l)
<1>1. /\ a \in Seq(T) /\ Len(a) = N + 1 /\ a[N + 1] = r /\ N \in Nat
      /\ \A i \in 1..N : a[i] = l[i]
  BY AppendProperties
<1>2. PICK p : Reads(p, N, l) /\ Reading(l) = p[N]
  BY ReadingIs
<1> HIDE DEF a, N
<1>3. PICK q : Reads(q, N + 1, a) /\ Reading(a) = q[N + 1]
  BY <1>1, ReadingIs
<1>4. Reads(q, N, a)
  BY <1>1, <1>3 DEF Reads
<1>5. p[N] = q[N]
  BY <1>1, <1>2, <1>4, ReadsAgree
<1>6. q[N + 1] = ReadLine(q[N], a[N + 1])
  <2>1. N + 1 \in 1..(N + 1) /\ (N + 1) - 1 = N
    BY <1>1
  <2>2. QED
    BY <1>3, <2>1 DEF Reads
<1>7. QED
  BY <1>1, <1>2, <1>3, <1>5, <1>6 DEF a

LEMMA ReadingNothing == Reading(<<>>) = Unread
<1>1. <<>> \in Seq(Line) /\ Len(<<>>) = 0
  OBVIOUS
<1>2. PICK p : Reads(p, 0, <<>>) /\ Reading(<<>>) = p[0]
  BY <1>1, ReadingIs
<1>3. QED
  BY <1>2 DEF Reads

\* A longer prefix is read line by line.
LEMMA ReadingPrefix ==
  ASSUME NEW l \in Seq(Line), NEW n \in 1..Len(l)
  PROVE  Reading(SubSeq(l, 1, n)) = ReadLine(Reading(SubSeq(l, 1, n - 1)), l[n])
<1>1. n - 1 \in 0..Len(l) /\ l[n] \in Line
  OBVIOUS
<1>2. SubSeq(l, 1, n - 1) \in Seq(Line)
  BY <1>1, Prefix
<1>3. SubSeq(l, 1, n) = Append(SubSeq(l, 1, n - 1), l[n])
  BY LongerPrefix
<1>4. QED
  BY <1>1, <1>2, <1>3, ReadingAppended
---------------------------------------------------------------------------
(* Queues of keys                                                          *)

Distinct(q) == \A i, j \in 1..Len(q) : q[i] = q[j] => i = j

LEMMA KeysOf ==
  ASSUME NEW q \in Seq(Key)
  PROVE  ToSet(q) = {q[i] : i \in 1..Len(q)} /\ ToSet(q) \subseteq Key
  BY DEF ToSet

\* A sequence without its element at i.
LEMMA RemovedAt ==
  ASSUME NEW q \in Seq(Key), NEW i \in 1..Len(q)
  PROVE  /\ RemoveAt(q, i) \in Seq(Key) /\ Len(RemoveAt(q, i)) = Len(q) - 1
         /\ \A j \in 1..(Len(q) - 1) : RemoveAt(q, i)[j] = IF j < i THEN q[j] ELSE q[j + 1]
<1> DEFINE N == Len(q)
           u == SubSeq(q, 1, i - 1)
           v == SubSeq(q, i + 1, N)
<1>1. N \in Nat /\ i \in 1..N
  OBVIOUS
<1>2. u \in Seq(Key) /\ Len(u) = i - 1 /\ \A j \in 1..(i - 1) : u[j] = q[j]
  <2>1. i - 1 \in 0..Len(q)
    BY <1>1
  <2>2. QED
    BY <2>1, Prefix
<1>3. v \in Seq(Key) /\ Len(v) = N - i /\ \A j \in 1..(N - i) : v[j] = q[i + j]
  <2>1. \A j \in (i + 1)..N : q[j] \in Key
    BY <1>1
  <2>2. i + 1 \in Int /\ N \in Int
    BY <1>1
  <2>3. /\ v \in Seq(Key) /\ Len(v) = IF i + 1 <= N THEN N - (i + 1) + 1 ELSE 0
        /\ \A j \in 1..(N - (i + 1) + 1) : v[j] = q[(i + 1) + j - 1]
    BY <2>1, <2>2, SubSeqProperties
  <2>4. Len(v) = N - i
    BY <1>1, <2>3
  <2>5. \A j \in 1..(N - i) : v[j] = q[i + j]
    BY <1>1, <2>3
  <2>6. QED
    BY <2>3, <2>4, <2>5
<1>4. RemoveAt(q, i) = u \o v
  BY DEF RemoveAt
<1> HIDE DEF u, v
<1>5. /\ u \o v \in Seq(Key) /\ Len(u \o v) = Len(u) + Len(v)
      /\ \A j \in 1..(Len(u) + Len(v)) :
           (u \o v)[j] = IF j <= Len(u) THEN u[j] ELSE v[j - Len(u)]
  BY <1>2, <1>3, ConcatProperties
<1>6. Len(u) + Len(v) = N - 1
  BY <1>1, <1>2, <1>3
<1>7. \A j \in 1..(N - 1) : (u \o v)[j] = IF j < i THEN q[j] ELSE q[j + 1]
  <2> SUFFICES ASSUME NEW j \in 1..(N - 1)
               PROVE  (u \o v)[j] = IF j < i THEN q[j] ELSE q[j + 1]
    OBVIOUS
  <2>1. CASE j < i
    <3>1. j <= Len(u) /\ j \in 1..(i - 1)
      BY <1>1, <1>2, <2>1
    <3>2. QED
      BY <1>2, <1>5, <1>6, <2>1, <3>1
  <2>2. CASE ~(j < i)
    <3>1. ~(j <= Len(u)) /\ j - Len(u) \in 1..(N - i) /\ i + (j - Len(u)) = j + 1
      BY <1>1, <1>2, <2>2
    <3>2. QED
      BY <1>3, <1>5, <1>6, <2>2, <3>1
  <2>3. QED
    BY <2>1, <2>2
<1>8. QED
  BY <1>4, <1>5, <1>6, <1>7

LEMMA PlaceIs ==
  ASSUME NEW q \in Seq(Key), NEW k \in ToSet(q)
  PROVE  Place(q, k) \in 1..Len(q) /\ q[Place(q, k)] = k
<1>1. DOMAIN q = 1..Len(q) /\ \E i \in DOMAIN q : q[i] = k
  BY DEF ToSet
<1>2. Place(q, k) \in DOMAIN q /\ q[Place(q, k)] = k
  BY <1>1 DEF Place
<1>3. QED
  BY <1>1, <1>2

LEMMA ApplyTyped ==
  ASSUME NEW q \in Seq(Key), NEW r \in Line
  PROVE  Apply(q, r) \in Seq(Key)
<1>1. CASE r.kind = "put"
  <2>1. r.key \in Key
    BY <1>1, Lines DEF Line
  <2>2. QED
    BY <1>1, <2>1 DEF Apply
<1>2. CASE r.kind # "put" /\ r.kind = "remove" /\ r.key \in ToSet(q)
  BY <1>2, PlaceIs, RemovedAt DEF Apply
<1>3. CASE ~(r.kind = "put") /\ ~(r.kind = "remove" /\ r.key \in ToSet(q))
  BY <1>3 DEF Apply
<1>4. QED
  BY <1>1, <1>2, <1>3

\* A put of a new key.
LEMMA ApplyPut ==
  ASSUME NEW q \in Seq(Key), Distinct(q), NEW r \in Requests, r.kind = "put", r.key \notin ToSet(q)
  PROVE  Distinct(Apply(q, r)) /\ ToSet(Apply(q, r)) = ToSet(q) \cup {r.key}
<1> DEFINE a == Append(q, r.key)
           N == Len(q)
<1>1. r.key \in Key /\ Apply(q, r) = a
  BY Lines DEF Apply
<1>2. /\ a \in Seq(Key) /\ Len(a) = N + 1 /\ a[N + 1] = r.key /\ N \in Nat
      /\ \A i \in 1..N : a[i] = q[i]
  BY <1>1, AppendProperties
<1>3. ToSet(q) = {q[i] : i \in 1..N} /\ ToSet(a) = {a[i] : i \in 1..(N + 1)}
  <2>1. ToSet(a) = {a[i] : i \in 1..Len(a)}
    BY <1>2, KeysOf
  <2>2. QED
    BY <1>2, <2>1, KeysOf
<1> HIDE DEF a, N
<1>4. \A i \in 1..(N + 1) : i \in 1..N \/ i = N + 1
  BY <1>2
<1>5. ToSet(a) = ToSet(q) \cup {r.key}
  <2>1. \A x \in ToSet(a) : x \in ToSet(q) \cup {r.key}
    BY <1>2, <1>3, <1>4
  <2>2. N + 1 \in 1..(N + 1) /\ \A i \in 1..N : i \in 1..(N + 1)
    BY <1>2
  <2>3. r.key \in ToSet(a)
    BY <1>2, <1>3, <2>2
  <2>4. \A x \in ToSet(q) : x \in ToSet(a)
    <3> SUFFICES ASSUME NEW i \in 1..N PROVE q[i] \in ToSet(a)
      BY <1>3
    <3>1. q[i] = a[i] /\ i \in 1..(N + 1)
      BY <1>2, <2>2
    <3>2. QED
      BY <1>3, <3>1
  <2>5. QED
    BY <2>1, <2>3, <2>4
<1>6. Distinct(a)
  <2>1. \A i, j \in 1..N : q[i] = q[j] => i = j
    BY DEF Distinct, N
  <2>2. \A i \in 1..N : q[i] # r.key
    BY <1>3
  <2>3. \A i, j \in 1..(N + 1) : a[i] = a[j] => i = j
    BY <1>2, <1>4, <2>1, <2>2
  <2>4. QED
    BY <1>2, <2>3 DEF Distinct
<1>7. QED
  BY <1>1, <1>5, <1>6

\* A remove of a key that is there.
LEMMA ApplyRemove ==
  ASSUME NEW q \in Seq(Key), Distinct(q), NEW r \in Requests, r.kind = "remove", r.key \in ToSet(q)
  PROVE  Distinct(Apply(q, r)) /\ ToSet(Apply(q, r)) = ToSet(q) \ {r.key}
<1> DEFINE at == Place(q, r.key)
           a == RemoveAt(q, at)
           N == Len(q)
<1>1. Apply(q, r) = a /\ N \in Nat
  BY DEF Apply
<1>2. at \in 1..N /\ q[at] = r.key
  BY PlaceIs
<1> HIDE DEF at
<1>3. /\ a \in Seq(Key) /\ Len(a) = N - 1
      /\ \A j \in 1..(N - 1) : a[j] = IF j < at THEN q[j] ELSE q[j + 1]
  BY <1>2, RemovedAt
<1>4. ToSet(q) = {q[i] : i \in 1..N} /\ ToSet(a) = {a[i] : i \in 1..(N - 1)}
  <2>1. ToSet(a) = {a[i] : i \in 1..Len(a)}
    BY <1>3, KeysOf
  <2>2. QED
    BY <1>3, <2>1, KeysOf
<1>5. \A i, j \in 1..N : q[i] = q[j] => i = j
  BY DEF Distinct
<1> HIDE DEF a, N
<1> DEFINE from(j) == IF j < at THEN j ELSE j + 1
<1>6. \A j \in 1..(N - 1) : from(j) \in 1..N /\ from(j) # at /\ a[j] = q[from(j)]
  BY <1>1, <1>2, <1>3
<1>7. \A j, k \in 1..(N - 1) : from(j) = from(k) => j = k
  BY <1>1, <1>2
<1>8. \A i \in 1..N : i # at => \E j \in 1..(N - 1) : from(j) = i
  <2> SUFFICES ASSUME NEW i \in 1..N, i # at
               PROVE  \E j \in 1..(N - 1) : from(j) = i
    OBVIOUS
  <2>1. CASE i < at
    <3>1. i \in 1..(N - 1) /\ from(i) = i
      BY <1>1, <1>2, <2>1
    <3>2. QED
      BY <3>1
  <2>2. CASE ~(i < at)
    <3>1. i - 1 \in 1..(N - 1) /\ from(i - 1) = i
      BY <1>1, <1>2, <2>2
    <3>2. QED
      BY <3>1
  <2>3. QED
    BY <2>1, <2>2
<1> HIDE DEF from
<1>9. ToSet(a) = ToSet(q) \ {r.key}
  <2>1. \A x \in ToSet(a) : x \in ToSet(q) /\ x # r.key
    <3> SUFFICES ASSUME NEW j \in 1..(N - 1) PROVE a[j] \in ToSet(q) /\ a[j] # r.key
      BY <1>4
    <3>1. QED
      BY <1>2, <1>4, <1>5, <1>6
  <2>2. \A x \in ToSet(q) : x # r.key => x \in ToSet(a)
    <3> SUFFICES ASSUME NEW i \in 1..N, q[i] # r.key PROVE q[i] \in ToSet(a)
      BY <1>4
    <3>1. PICK j \in 1..(N - 1) : from(j) = i
      BY <1>2, <1>8
    <3>2. QED
      BY <1>4, <1>6, <3>1
  <2>3. QED
    BY <2>1, <2>2
<1>10. Distinct(a)
  <2>1. \A j, k \in 1..(N - 1) : a[j] = a[k] => j = k
    BY <1>5, <1>6, <1>7
  <2>2. QED
    BY <1>3, <2>1 DEF Distinct
<1>11. QED
  BY <1>1, <1>9, <1>10
---------------------------------------------------------------------------
(* Logs                                                                    *)

\* What reading a log amounts to at any line.
Shape(so) ==
  /\ so.good \in BOOLEAN /\ so.checkpointed \in BOOLEAN /\ so.queue \in Seq(Key)
  /\ so = [good |-> so.good, checkpointed |-> so.checkpointed, queue |-> so.queue]
  /\ so.good => Distinct(so.queue)

LEMMA ReadGoodLine ==
  ASSUME NEW so, so.good, NEW r, r # Torn, NEW c \in BOOLEAN, c = so.checkpointed,
         r = Checkpoint => ~c,
         r.kind = "put" => r.key \notin ToSet(so.queue),
         r.kind = "remove" => c /\ r.key \in ToSet(so.queue),
         NEW d \in BOOLEAN, d = (c \/ r = Checkpoint)
  PROVE  ReadLine(so, r) = [good |-> TRUE, checkpointed |-> d, queue |-> Apply(so.queue, r)]
<1> DEFINE g == /\ so.good /\ r # Torn
                /\ r = Checkpoint => ~so.checkpointed
                /\ r.kind = "put" => r.key \notin ToSet(so.queue)
                /\ r.kind = "remove" => so.checkpointed /\ r.key \in ToSet(so.queue)
<1>1. g = TRUE
  OBVIOUS
<1>2. (so.checkpointed \/ r = Checkpoint) = d
  OBVIOUS
<1>3. ReadLine(so, r) =
        [good |-> g, checkpointed |-> (so.checkpointed \/ r = Checkpoint),
         queue |-> Apply(so.queue, r)]
  BY DEF ReadLine
<1>4. QED
  BY <1>1, <1>2, <1>3

LEMMA ReadLineShape ==
  ASSUME NEW so, Shape(so), NEW r \in Line
  PROVE  Shape(ReadLine(so, r))
<1> DEFINE n == ReadLine(so, r)
<1>1. /\ n.good = (/\ so.good /\ r # Torn
                   /\ r = Checkpoint => ~so.checkpointed
                   /\ r.kind = "put" => r.key \notin ToSet(so.queue)
                   /\ r.kind = "remove" => so.checkpointed /\ r.key \in ToSet(so.queue))
      /\ n.checkpointed = (so.checkpointed \/ r = Checkpoint)
      /\ n.queue = Apply(so.queue, r)
      /\ n = [good |-> n.good, checkpointed |-> n.checkpointed, queue |-> n.queue]
  BY DEF ReadLine
<1>2. n.queue \in Seq(Key)
  BY <1>1, ApplyTyped DEF Shape
<1>3. n.good \in BOOLEAN /\ n.checkpointed \in BOOLEAN
  BY <1>1 DEF Shape
<1> HIDE DEF n
<1>4. ASSUME n.good
      PROVE  Distinct(n.queue)
  <2>1. so.good /\ Distinct(so.queue) /\ so.queue \in Seq(Key)
    BY <1>1, <1>4 DEF Shape
  <2>2. CASE r.kind = "put"
    <3>1. r \in Requests /\ r.key \notin ToSet(so.queue)
      BY <1>1, <1>4, <2>2, Lines DEF Line
    <3>2. QED
      BY <1>1, <2>1, <2>2, <3>1, ApplyPut
  <2>3. CASE r.kind = "remove"
    <3>1. r \in Requests /\ r.key \in ToSet(so.queue)
      BY <1>1, <1>4, <2>3, Lines DEF Line
    <3>2. QED
      BY <1>1, <2>1, <2>3, <3>1, ApplyRemove
  <2>4. CASE r.kind # "put" /\ r.kind # "remove"
    BY <1>1, <2>1, <2>4 DEF Apply
  <2>5. QED
    BY <2>2, <2>3, <2>4
<1>5. QED
  BY <1>1, <1>2, <1>3, <1>4 DEF Shape, n

LEMMA UnreadShape == Shape(Unread)
  BY DEF Shape, Unread, Distinct

\* A prefix of a log is read to such a shape.
LEMMA PrefixShape ==
  ASSUME NEW l \in Seq(Line)
  PROVE  \A n \in 0..Len(l) : Shape(Reading(SubSeq(l, 1, n)))
<1> DEFINE S == {n \in Nat : n <= Len(l) => Shape(Reading(SubSeq(l, 1, n)))}
<1>1. 0 \in S
  BY WholePrefix, ReadingNothing, UnreadShape
<1>2. ASSUME NEW n \in Nat, n \in S
      PROVE  n + 1 \in S
  <2> SUFFICES ASSUME n + 1 <= Len(l)
               PROVE  Shape(Reading(SubSeq(l, 1, n + 1)))
    OBVIOUS
  <2>1. n + 1 \in 1..Len(l) /\ (n + 1) - 1 = n /\ Shape(Reading(SubSeq(l, 1, n)))
    BY <1>2
  <2>2. l[n + 1] \in Line
    BY <2>1
  <2>3. Reading(SubSeq(l, 1, n + 1)) = ReadLine(Reading(SubSeq(l, 1, n)), l[n + 1])
    BY <2>1, ReadingPrefix
  <2>4. QED
    BY <2>1, <2>2, <2>3, ReadLineShape
<1>3. Nat \subseteq S
  <2> HIDE DEF S
  <2>1. QED
    BY <1>1, <1>2, SetInduction
<1>4. QED
  BY <1>3

LEMMA ReadingShape ==
  ASSUME NEW l \in Seq(Line)
  PROVE  Shape(Reading(l))
<1>1. SubSeq(l, 1, Len(l)) = l /\ Len(l) \in 0..Len(l)
  BY WholePrefix
<1>2. QED
  BY <1>1, PrefixShape

\* A log that is good was good at every line, and one that is checkpointed
\* at some line stays so.
LEMMA Monotone ==
  ASSUME NEW l \in Seq(Line), NEW n \in 0..Len(l)
  PROVE  /\ Reading(l).good => Reading(SubSeq(l, 1, n)).good
         /\ Reading(SubSeq(l, 1, n)).checkpointed => Reading(l).checkpointed
<1> DEFINE R(k) == Reading(SubSeq(l, 1, k))
           S == {k \in Nat : n + k <= Len(l) => /\ R(n + k).good => R(n).good
                                                /\ R(n).checkpointed => R(n + k).checkpointed}
<1>1. 0 \in S
  <2>1. n + 0 = n
    OBVIOUS
  <2>2. QED
    BY <2>1
<1>2. ASSUME NEW k \in Nat, k \in S
      PROVE  k + 1 \in S
  <2> SUFFICES ASSUME n + (k + 1) <= Len(l)
               PROVE  /\ R(n + (k + 1)).good => R(n).good
                      /\ R(n).checkpointed => R(n + (k + 1)).checkpointed
    OBVIOUS
  <2> DEFINE i == n + (k + 1)
  <2>1. i \in 1..Len(l) /\ i - 1 = n + k /\ n + k <= Len(l)
    OBVIOUS
  <2>2. (R(i - 1).good => R(n).good) /\ (R(n).checkpointed => R(i - 1).checkpointed)
    BY <1>2, <2>1
  <2> HIDE DEF i
  <2>3. R(i) = ReadLine(R(i - 1), l[i])
    BY <2>1, ReadingPrefix
  <2>4. (R(i).good => R(i - 1).good) /\ (R(i - 1).checkpointed => R(i).checkpointed)
    <3>1. \A so : /\ ReadLine(so, l[i]).good => so.good
                  /\ so.checkpointed => ReadLine(so, l[i]).checkpointed
      BY DEF ReadLine
    <3>2. QED
      BY <2>3, <3>1
  <2>5. QED
    BY <2>2, <2>4 DEF i
<1>3. Nat \subseteq S
  <2> HIDE DEF S
  <2>1. QED
    BY <1>1, <1>2, SetInduction
<1>4. n + (Len(l) - n) = Len(l) /\ Len(l) - n \in Nat /\ SubSeq(l, 1, Len(l)) = l
  BY WholePrefix
<1>5. Len(l) - n \in S
  BY <1>3, <1>4
<1>6. (R(Len(l)).good => R(n).good) /\ (R(n).checkpointed => R(Len(l)).checkpointed)
  BY <1>4, <1>5
<1>7. QED
  BY <1>4, <1>6

\* A good log has no fragment.
LEMMA GoodHasNoTorn ==
  ASSUME NEW l \in Seq(Line), Reading(l).good
  PROVE  \A i \in 1..Len(l) : l[i] # Torn
<1> SUFFICES ASSUME NEW i \in 1..Len(l)
             PROVE  l[i] # Torn
  OBVIOUS
<1>1. i \in 0..Len(l)
  OBVIOUS
<1>2. Reading(SubSeq(l, 1, i)).good
  BY <1>1, Monotone
<1>3. Reading(SubSeq(l, 1, i)) = ReadLine(Reading(SubSeq(l, 1, i - 1)), l[i])
  BY ReadingPrefix
<1>4. QED
  BY <1>2, <1>3 DEF ReadLine

\* What is good up to a fragment at the end.
Sound(log) == Parsed(log).good

LEMMA GoodIsSound ==
  ASSUME NEW l \in Seq(Line), Reading(l).good
  PROVE  Whole(l) = l /\ Sound(l) /\ Parsed(l) = Reading(l)
<1>1. l = <<>> \/ Len(l) \in 1..Len(l)
  OBVIOUS
<1>2. l # <<>> => Last(l) # Torn
  BY <1>1, GoodHasNoTorn DEF Last
<1>3. Whole(l) = l
  BY <1>2 DEF Whole
<1>4. QED
  BY <1>3 DEF Sound, Parsed

LEMMA TornIsSound ==
  ASSUME NEW l \in Seq(Line), Reading(l).good
  PROVE  /\ Append(l, Torn) \in Seq(Line)
         /\ Whole(Append(l, Torn)) = l /\ Sound(Append(l, Torn))
         /\ Parsed(Append(l, Torn)) = Reading(l)
<1>1. Torn \in Line
  BY Lines
<1> DEFINE a == Append(l, Torn)
<1>2. a \in Seq(Line) /\ a # <<>> /\ Len(a) = Len(l) + 1 /\ a[Len(l) + 1] = Torn
  BY <1>1, AppendProperties
<1>3. Last(a) = Torn
  BY <1>2 DEF Last
<1>4. Front(a) = l
  <2>1. Front(a) = SubSeq(a, 1, Len(l))
    BY <1>2 DEF Front
  <2>2. Len(l) \in 0..Len(l)
    OBVIOUS
  <2>3. SubSeq(a, 1, Len(l)) = SubSeq(l, 1, Len(l))
    BY <1>1, <2>2, PrefixOfAppend
  <2>4. QED
    BY <2>1, <2>3, WholePrefix
<1>5. Whole(a) = l
  BY <1>2, <1>3, <1>4 DEF Whole
<1>6. QED
  BY <1>2, <1>5 DEF Sound, Parsed

\* The two forms of a sound log.
LEMMA SoundIs ==
  ASSUME NEW l \in Seq(Line), Sound(l)
  PROVE  /\ Whole(l) \in Seq(Line) /\ Reading(Whole(l)).good
         /\ l = Whole(l) \/ l = Append(Whole(l), Torn)
<1>1. Reading(Whole(l)).good
  BY DEF Sound, Parsed
<1>2. CASE l # <<>> /\ Last(l) = Torn
  <2>1. Whole(l) = SubSeq(l, 1, Len(l) - 1) /\ Len(l) \in 1..Len(l) /\ Len(l) - 1 \in 0..Len(l)
    BY <1>2 DEF Whole, Front
  <2>2. SubSeq(l, 1, Len(l) - 1) \in Seq(Line)
    BY <2>1, Prefix
  <2>3. SubSeq(l, 1, Len(l)) = Append(SubSeq(l, 1, Len(l) - 1), l[Len(l)])
    BY <2>1, LongerPrefix
  <2>4. l = Append(Whole(l), Torn)
    BY <1>2, <2>1, <2>3, WholePrefix DEF Last
  <2>5. QED
    BY <1>1, <2>1, <2>2, <2>4
<1>3. CASE ~(l # <<>> /\ Last(l) = Torn)
  <2>1. Whole(l) = l
    BY <1>3 DEF Whole
  <2>2. QED
    BY <1>1, <2>1
<1>4. QED
  BY <1>2, <1>3
---------------------------------------------------------------------------
(* Snapshots                                                               *)

LEMMA SnapshotIs ==
  ASSUME NEW q \in Seq(Key)
  PROVE  /\ Snapshot(q) \in Seq(Line) /\ Len(Snapshot(q)) = Len(q) + 1
         /\ \A i \in 1..Len(q) : Snapshot(q)[i] = Record("put", q[i])
         /\ Snapshot(q)[Len(q) + 1] = Checkpoint
<1> DEFINE p == [i \in DOMAIN q |-> Record("put", q[i])]
           N == Len(q)
<1>1. N \in Nat /\ DOMAIN q = 1..N /\ \A i \in 1..N : q[i] \in Key
  OBVIOUS
<1>2. p \in [1..N -> Line]
  BY <1>1, Lines
<1>3. p \in Seq(Line) /\ Len(p) = N
  BY <1>1, <1>2
<1>4. \A i \in 1..N : p[i] = Record("put", q[i])
  BY <1>1
<1>5. Snapshot(q) = p \o <<Checkpoint>>
  BY DEF Snapshot
<1> HIDE DEF p, N
<1>6. Append(p, Checkpoint) = p \o <<Checkpoint>>
  BY <1>3, Lines, AppendIsConcat
<1>7. /\ Append(p, Checkpoint) \in Seq(Line) /\ Len(Append(p, Checkpoint)) = N + 1
      /\ \A i \in 1..N : Append(p, Checkpoint)[i] = p[i]
      /\ Append(p, Checkpoint)[N + 1] = Checkpoint
  BY <1>3, Lines, AppendProperties
<1>8. QED
  BY <1>4, <1>5, <1>6, <1>7 DEF N

\* The puts of a snapshot, line by line.
LEMMA SnapshotPrefix ==
  ASSUME NEW q \in Seq(Key), Distinct(q)
  PROVE  \A n \in 0..Len(q) :
           Reading(SubSeq(Snapshot(q), 1, n)) =
             [good |-> TRUE, checkpointed |-> FALSE, queue |-> SubSeq(q, 1, n)]
<1> DEFINE s == Snapshot(q)
           N == Len(q)
           S == {n \in Nat : n <= N =>
                   Reading(SubSeq(s, 1, n)) =
                     [good |-> TRUE, checkpointed |-> FALSE, queue |-> SubSeq(q, 1, n)]}
<1>1. /\ s \in Seq(Line) /\ Len(s) = N + 1 /\ N \in Nat
      /\ \A i \in 1..N : s[i] = Record("put", q[i])
  BY SnapshotIs
<1>2. 0 \in S
  <2>1. SubSeq(s, 1, 0) = <<>> /\ SubSeq(q, 1, 0) = <<>>
    BY <1>1, WholePrefix
  <2>2. QED
    BY <2>1, ReadingNothing DEF Unread
<1>3. ASSUME NEW n \in Nat, n \in S
      PROVE  n + 1 \in S
  <2> SUFFICES ASSUME n + 1 <= N
               PROVE  Reading(SubSeq(s, 1, n + 1)) =
                        [good |-> TRUE, checkpointed |-> FALSE, queue |-> SubSeq(q, 1, n + 1)]
    OBVIOUS
  <2> DEFINE so == SubSeq(q, 1, n)
             r == s[n + 1]
  <2>1. n + 1 \in 1..N /\ (n + 1) - 1 = n /\ n \in 0..N /\ n + 1 \in 1..Len(s)
    BY <1>1
  <2>2. Reading(SubSeq(s, 1, n)) = [good |-> TRUE, checkpointed |-> FALSE, queue |-> so]
    BY <1>3, <2>1
  <2>3. Reading(SubSeq(s, 1, n + 1)) = ReadLine(Reading(SubSeq(s, 1, n)), r)
    BY <1>1, <2>1, ReadingPrefix
  <2>4. r = Record("put", q[n + 1]) /\ q[n + 1] \in Key
    BY <1>1, <2>1
  <2>5. r \in Requests /\ r # Torn /\ r # Checkpoint /\ r.kind = "put" /\ r.key = q[n + 1]
    <3>1. r \in Requests
      BY <2>4, Lines
    <3>2. r.kind = "put" /\ r.key = q[n + 1]
      BY <2>4 DEF Record
    <3>3. QED
      BY <3>1, <3>2, Lines
  <2>6. so \in Seq(Key) /\ Len(so) = n /\ \A i \in 1..n : so[i] = q[i]
    BY <2>1, Prefix
  <2>7. q[n + 1] \notin ToSet(so)
    <3>1. ToSet(so) = {so[i] : i \in 1..n}
      BY <2>6, KeysOf
    <3>2. \A i \in 1..n : q[i] # q[n + 1]
      BY <2>1 DEF Distinct
    <3>3. QED
      BY <2>6, <3>1, <3>2
  <2>8. Apply(so, r) = SubSeq(q, 1, n + 1)
    <3>1. SubSeq(q, 1, n + 1) = Append(so, q[n + 1])
      BY <2>1, LongerPrefix
    <3>2. QED
      BY <2>5, <3>1 DEF Apply
  <2> HIDE DEF so, r
  <2> DEFINE b == [good |-> TRUE, checkpointed |-> FALSE, queue |-> so]
  <2>9. b.good /\ b.checkpointed = FALSE /\ b.queue = so
    OBVIOUS
  <2> HIDE DEF b
  <2>10. ReadLine(b, r) = [good |-> TRUE, checkpointed |-> FALSE, queue |-> Apply(b.queue, r)]
    BY <2>5, <2>7, <2>9, ReadGoodLine
  <2>11. QED
    BY <2>2, <2>3, <2>8, <2>9, <2>10 DEF b
<1>4. Nat \subseteq S
  <2> HIDE DEF S
  <2>1. QED
    BY <1>2, <1>3, SetInduction
<1>5. QED
  BY <1>1, <1>4

\* A whole snapshot holds what it was taken of.
LEMMA SnapshotRead ==
  ASSUME NEW q \in Seq(Key), Distinct(q)
  PROVE  Reading(Snapshot(q)) = [good |-> TRUE, checkpointed |-> TRUE, queue |-> q]
<1> DEFINE s == Snapshot(q)
           N == Len(q)
<1>1. s \in Seq(Line) /\ Len(s) = N + 1 /\ N \in Nat /\ s[N + 1] = Checkpoint
  BY SnapshotIs
<1>2. Reading(SubSeq(s, 1, N)) = [good |-> TRUE, checkpointed |-> FALSE, queue |-> q]
  <2>1. N \in 0..N /\ SubSeq(q, 1, N) = q
    BY <1>1, WholePrefix
  <2>2. QED
    BY <2>1, SnapshotPrefix
<1>3. SubSeq(s, 1, N + 1) = s
  BY <1>1, WholePrefix
<1>4. N + 1 \in 1..Len(s) /\ (N + 1) - 1 = N
  BY <1>1
<1>5. Reading(s) = ReadLine(Reading(SubSeq(s, 1, N)), Checkpoint)
  BY <1>1, <1>3, <1>4, ReadingPrefix
<1>6. Apply(q, Checkpoint) = q
  BY Lines DEF Apply
<1> DEFINE b == [good |-> TRUE, checkpointed |-> FALSE, queue |-> q]
<1>7. b.good /\ b.checkpointed = FALSE /\ b.queue = q
  OBVIOUS
<1> HIDE DEF s, N, b
<1>8. ReadLine(b, Checkpoint) = [good |-> TRUE, checkpointed |-> TRUE, queue |-> Apply(b.queue, Checkpoint)]
  BY <1>7, Lines, ReadGoodLine
<1>9. Reading(s) = [good |-> TRUE, checkpointed |-> TRUE, queue |-> q]
  BY <1>2, <1>5, <1>6, <1>7, <1>8 DEF b
<1>10. QED
  BY <1>9 DEF s

---------------------------------------------------------------------------
(* What is left of a log                                                   *)

\* What a power loss leaves is the lines that are durable, those after them
\* up to some line, and a fragment at most.
LEMMA RemainsAre ==
  ASSUME NEW l \in Seq(Line), Sound(l), NEW n \in 0..Len(l), NEW r \in Remains(l, n)
  PROVE  /\ r \in Seq(Line) /\ Sound(r)
         /\ \E k \in 0..Len(Whole(l)) : /\ Whole(r) = SubSeq(Whole(l), 1, k)
                                        /\ n <= k \/ k = Len(Whole(l))
<1> DEFINE w == Whole(l)
<1>1. w \in Seq(Line) /\ Reading(w).good /\ (l = w \/ l = Append(w, Torn))
  BY SoundIs
<1> HIDE DEF w
<1>2. /\ Len(l) = Len(w) \/ (Len(l) = Len(w) + 1 /\ l = Append(w, Torn))
      /\ \A k \in 0..Len(w) : SubSeq(l, 1, k) = SubSeq(w, 1, k)
      /\ Len(l) = Len(w) => l = w
  <2>1. CASE l = w
    <3>1. Len(l) = Len(w) /\ \A k \in 0..Len(w) : SubSeq(l, 1, k) = SubSeq(w, 1, k)
      BY <2>1, Zenon
    <3>2. QED
      BY <2>1, <3>1
  <2>2. CASE l = Append(w, Torn)
    BY <1>1, <2>2, Lines, PrefixOfAppend, AppendProperties
  <2>3. QED
    BY <1>1, <2>1, <2>2
<1>3. ASSUME NEW k \in 0..Len(w)
      PROVE  SubSeq(w, 1, k) \in Seq(Line) /\ Reading(SubSeq(w, 1, k)).good
  BY <1>1, Prefix, Monotone
<1>4. CASE \E i \in n..Len(l) : r = SubSeq(l, 1, i)
  <2>1. PICK i \in n..Len(l) : r = SubSeq(l, 1, i)
    BY <1>4
  <2>2. CASE i <= Len(w)
    <3>1. i \in 0..Len(w) /\ r = SubSeq(w, 1, i)
      BY <1>2, <2>1, <2>2
    <3>2. r \in Seq(Line) /\ Sound(r) /\ Whole(r) = SubSeq(w, 1, i)
      BY <1>3, <3>1, GoodIsSound
    <3>3. QED
      BY <2>1, <3>1, <3>2 DEF w
  <2>3. CASE ~(i <= Len(w))
    <3>1. i = Len(l) /\ l = Append(w, Torn)
      BY <1>1, <1>2, <2>1, <2>3
    <3>2. r = Append(w, Torn)
      BY <2>1, <3>1, WholePrefix
    <3>3. r \in Seq(Line) /\ Sound(r) /\ Whole(r) = w
      BY <1>1, <3>2, TornIsSound
    <3>4. w = SubSeq(w, 1, Len(w)) /\ Len(w) \in 0..Len(w)
      BY <1>1, WholePrefix
    <3>5. QED
      BY <3>3, <3>4 DEF w
  <2>4. QED
    BY <2>2, <2>3
<1>5. CASE \E i \in n..(Len(l) - 1) : r = SubSeq(l, 1, i) \o <<Torn>>
  <2>1. PICK i \in n..(Len(l) - 1) : r = SubSeq(l, 1, i) \o <<Torn>>
    BY <1>5
  <2>2. i \in 0..Len(w)
    BY <1>1, <1>2, <2>1
  <2>3. SubSeq(l, 1, i) = SubSeq(w, 1, i)
    BY <1>2, <2>2
  <2>4. r = Append(SubSeq(w, 1, i), Torn)
    BY <1>3, <2>1, <2>2, <2>3, Lines, AppendIsConcat
  <2>5. r \in Seq(Line) /\ Sound(r) /\ Whole(r) = SubSeq(w, 1, i)
    BY <1>3, <2>2, <2>4, TornIsSound
  <2>6. QED
    BY <2>1, <2>2, <2>5 DEF w
<1>6. QED
  BY <1>4, <1>5 DEF Remains

\* The whole log is among what may be left of it.
LEMMA AllMayRemain ==
  ASSUME NEW l \in Seq(Line), NEW n \in 0..Len(l)
  PROVE  l \in Remains(l, n)
<1>1. SubSeq(l, 1, Len(l)) = l /\ Len(l) \in n..Len(l)
  BY WholePrefix
<1>2. QED
  BY <1>1 DEF Remains
---------------------------------------------------------------------------
(* Files                                                                   *)

\* A file that opening the store would consider, and what it would load.
Candidate(file) == file.named /\ Parses(file.log)
Held(file) == Parsed(file.log).queue

\* Two files that make no difference to opening the store.
Same(x, y) == (Candidate(x) <=> Candidate(y)) /\ (Candidate(x) => Held(x) = Held(y))

\* All of it is durable.
Entire(file) == file.synced = Len(file.log)

SoundFile(file) == file \in File /\ file.synced <= Len(file.log) /\ Sound(file.log)
SoundDisk(f) == f \in [Generation -> File] /\ \A g \in Generation : SoundFile(f[g])

LEMMA FileFields ==
  ASSUME NEW x, SoundFile(x)
  PROVE  /\ x.named \in BOOLEAN /\ x.log \in Seq(Line) /\ x.synced \in 0..Len(x.log)
         /\ Sound(x.log) /\ Len(x.log) \in Nat
         /\ x = [named |-> x.named, log |-> x.log, synced |-> x.synced]
  BY DEF SoundFile, File, Log, Line

\* What a power loss leaves of a file.
LEMMA LeavesAre ==
  ASSUME NEW x, SoundFile(x), NEW y \in Leaves(x)
  PROVE  /\ SoundFile(y) /\ y.synced = Len(y.log) /\ y.named = x.named
         /\ \E k \in 0..Len(Whole(x.log)) : /\ Whole(y.log) = SubSeq(Whole(x.log), 1, k)
                                            /\ x.synced <= k \/ k = Len(Whole(x.log))
<1>1. /\ x.named \in BOOLEAN /\ x.log \in Seq(Line) /\ x.synced \in 0..Len(x.log)
      /\ Sound(x.log)
      /\ x = [named |-> x.named, log |-> x.log, synced |-> x.synced]
  BY FileFields
<1>2. CASE x.synced = Len(x.log)
  <2>1. y = x
    BY <1>2 DEF Leaves
  <2>2. Whole(x.log) \in Seq(Line)
    BY <1>1, SoundIs
  <2>3. Whole(x.log) = SubSeq(Whole(x.log), 1, Len(Whole(x.log)))
        /\ Len(Whole(x.log)) \in 0..Len(Whole(x.log))
    BY <2>2, WholePrefix
  <2>4. QED
    BY <1>2, <2>1, <2>3
<1>3. CASE x.synced # Len(x.log)
  <2>1. PICK log \in Remains(x.log, x.synced) : y = [x EXCEPT !.log = log, !.synced = Len(log)]
    BY <1>3 DEF Leaves
  <2>2. /\ log \in Seq(Line) /\ Sound(log)
        /\ \E k \in 0..Len(Whole(x.log)) : /\ Whole(log) = SubSeq(Whole(x.log), 1, k)
                                           /\ x.synced <= k \/ k = Len(Whole(x.log))
    BY <1>1, RemainsAre
  <2>3. y = [named |-> x.named, log |-> log, synced |-> Len(log)]
    BY <1>1, <2>1
  <2>4. y.named = x.named /\ y.log = log /\ y.synced = Len(log) /\ Len(log) \in Nat
    BY <2>2, <2>3
  <2>5. SoundFile(y)
    BY <1>1, <2>2, <2>3, <2>4 DEF SoundFile, File, Log, Line
  <2>6. QED
    BY <2>2, <2>4, <2>5
<1>4. QED
  BY <1>2, <1>3

\* All of it may be left.
LEMMA AllIsLeft ==
  ASSUME NEW x, SoundFile(x)
  PROVE  [x EXCEPT !.synced = Len(x.log)] \in Leaves(x)
<1>1. /\ x.log \in Seq(Line) /\ x.synced \in 0..Len(x.log)
      /\ x = [named |-> x.named, log |-> x.log, synced |-> x.synced]
  BY FileFields
<1> DEFINE y == [x EXCEPT !.synced = Len(x.log)]
<1>2. y = [named |-> x.named, log |-> x.log, synced |-> Len(x.log)]
  BY <1>1
<1>3. CASE x.synced = Len(x.log)
  BY <1>1, <1>2, <1>3 DEF Leaves
<1>4. CASE x.synced # Len(x.log)
  <2>1. x.log \in Remains(x.log, x.synced)
    BY <1>1, AllMayRemain
  <2>2. [x EXCEPT !.log = x.log, !.synced = Len(x.log)] = y
    BY <1>1
  <2>3. [x EXCEPT !.log = x.log, !.synced = Len(x.log)] \in Leaves(x)
    BY <1>4, <2>1 DEF Leaves
  <2>4. QED
    BY <2>2, <2>3
<1>5. QED
  BY <1>3, <1>4

LEMMA SameText ==
  ASSUME NEW x, NEW y, x.named = y.named, Whole(x.log) = Whole(y.log)
  PROVE  Same(x, y)
  BY DEF Same, Candidate, Held, Parses, Parsed

LEMMA SameIsSymmetric ==
  ASSUME NEW x, NEW y, Same(x, y)
  PROVE  Same(y, x)
  BY DEF Same

\* No file becomes a candidate by losing something.
LEMMA LossMakesNoCandidate ==
  ASSUME NEW x, SoundFile(x), NEW y \in Leaves(x), Candidate(y)
  PROVE  Candidate(x)
<1> DEFINE w == Whole(x.log)
<1>1. w \in Seq(Line) /\ Reading(w).good
  BY FileFields, SoundIs
<1>2. PICK k \in 0..Len(w) : Whole(y.log) = SubSeq(w, 1, k)
  BY LeavesAre
<1>3. Reading(SubSeq(w, 1, k)).checkpointed /\ x.named
  BY <1>2, LeavesAre DEF Candidate, Parses, Parsed
<1>4. Reading(w).checkpointed
  BY <1>1, <1>3, Monotone
<1>5. QED
  BY <1>1, <1>3, <1>4 DEF Candidate, Parses, Parsed

\* A file whose checkpoint is durable.
Firm(x) == x.named /\ Reading(SubSeq(x.log, 1, x.synced)).checkpointed

LEMMA FirmIsCandidate ==
  ASSUME NEW x, SoundFile(x), Firm(x), NEW y \in Leaves(x)
  PROVE  Candidate(y)
<1> DEFINE w == Whole(x.log)
           n == x.synced
<1>1. w \in Seq(Line) /\ Reading(w).good /\ (x.log = w \/ x.log = Append(w, Torn))
  BY FileFields, SoundIs
<1>2. n \in 0..Len(x.log) /\ Reading(SubSeq(x.log, 1, n)).checkpointed /\ x.log \in Seq(Line)
  BY FileFields DEF Firm
<1>3. PICK k \in 0..Len(w) : Whole(y.log) = SubSeq(w, 1, k) /\ (n <= k \/ k = Len(w))
  BY LeavesAre
<1>4. SoundFile(y) /\ y.named
  BY LeavesAre DEF Firm
<1> HIDE DEF w, n
<1>5. CASE n <= Len(w)
  <2>1. n \in 0..Len(w)
    BY <1>2, <1>5
  <2>2. SubSeq(x.log, 1, n) = SubSeq(w, 1, n)
    BY <1>1, <2>1, Lines, PrefixOfAppend
  <2>3. n <= k /\ n \in 0..k
    BY <1>3, <1>5, <2>1
  <2>4. SubSeq(SubSeq(w, 1, k), 1, n) = SubSeq(w, 1, n)
    BY <1>1, <2>3, PrefixOfPrefix
  <2>5. SubSeq(w, 1, k) \in Seq(Line) /\ Len(SubSeq(w, 1, k)) = k
    BY <1>1, Prefix
  <2>6. Reading(SubSeq(w, 1, k)).checkpointed
    BY <1>2, <2>2, <2>3, <2>4, <2>5, Monotone
  <2>7. QED
    BY <1>3, <1>4, <2>6, FileFields DEF Candidate, Parses, Parsed, Sound
<1>6. CASE ~(n <= Len(w))
  <2>1. x.log = Append(w, Torn) /\ n = Len(x.log)
    BY <1>1, <1>2, <1>6, Lines, AppendProperties
  <2>2. k = Len(w) /\ SubSeq(w, 1, k) = w
    <3>1. Len(w) \in Nat /\ n \in Nat /\ k \in 0..Len(w)
      BY <1>1, <1>2
    <3>2. ~(n <= k)
      BY <1>6, <3>1
    <3>3. k = Len(w)
      BY <1>3, <3>2
    <3>4. QED
      BY <1>1, <3>3, WholePrefix
  <2>3. Reading(Append(w, Torn)).checkpointed
    BY <1>2, <2>1, WholePrefix
  <2>4. Reading(Append(w, Torn)) = ReadLine(Reading(w), Torn)
    BY <1>1, Lines, ReadingAppended
  <2>5. Reading(w).checkpointed
    <3>1. \A so : ReadLine(so, Torn).checkpointed => so.checkpointed
      BY Lines DEF ReadLine
    <3>2. QED
      BY <2>3, <2>4, <3>1
  <2>6. QED
    BY <1>3, <1>4, <2>2, <2>5, FileFields DEF Candidate, Parses, Parsed, Sound
<1>7. QED
  BY <1>5, <1>6

\* What a power loss can leave of a file, it can leave of one with a longer text.
LEMMA LeafFor ==
  ASSUME NEW x, SoundFile(x), NEW k \in 0..Len(Whole(x.log)),
         x.synced <= k \/ k = Len(Whole(x.log))
  PROVE  \E y \in Leaves(x) : y.named = x.named /\ Whole(y.log) = SubSeq(Whole(x.log), 1, k)
<1> DEFINE w == Whole(x.log)
           l == x.log
           n == x.synced
<1>1. w \in Seq(Line) /\ Reading(w).good /\ (l = w \/ l = Append(w, Torn))
  BY FileFields, SoundIs
<1>2. /\ l \in Seq(Line) /\ n \in 0..Len(l)
      /\ x = [named |-> x.named, log |-> x.log, synced |-> x.synced]
  BY FileFields
<1> HIDE DEF w
<1>3. SubSeq(w, 1, Len(w)) = w
  BY <1>1, WholePrefix
<1>4. CASE n = Len(l)
  <2>1. Leaves(x) = {x}
    BY <1>4 DEF Leaves
  <2>2. Len(l) = Len(w) \/ Len(l) = Len(w) + 1
    BY <1>1, Lines, AppendProperties
  <2>3. k = Len(w)
    BY <1>1, <1>4, <2>2 DEF w
  <2>4. QED
    BY <1>3, <2>1, <2>3 DEF w
<1>5. CASE n # Len(l)
  <2>1. \A log \in Remains(l, n) :
          [x EXCEPT !.log = log, !.synced = Len(log)] \in Leaves(x)
    BY <1>5 DEF Leaves
  <2>2. \A log : /\ [x EXCEPT !.log = log, !.synced = Len(log)].named = x.named
                 /\ [x EXCEPT !.log = log, !.synced = Len(log)].log = log
    BY <1>2
  <2>3. CASE n <= k
    <3>1. k \in n..Len(l) /\ k \in 0..Len(w)
      BY <1>1, <1>2, <2>3, Lines, AppendProperties DEF w
    <3>2. SubSeq(l, 1, k) \in Remains(l, n)
      BY <3>1 DEF Remains
    <3>3. SubSeq(l, 1, k) = SubSeq(w, 1, k)
      BY <1>1, <3>1, Lines, PrefixOfAppend
    <3>4. SubSeq(w, 1, k) \in Seq(Line) /\ Reading(SubSeq(w, 1, k)).good
      BY <1>1, <3>1, Prefix, Monotone
    <3>5. Whole(SubSeq(w, 1, k)) = SubSeq(w, 1, k)
      BY <3>4, GoodIsSound
    <3>6. QED
      BY <2>1, <2>2, <3>2, <3>3, <3>5 DEF w
  <2>4. CASE k = Len(w)
    <3>1. l \in Remains(l, n)
      BY <1>2, AllMayRemain
    <3>2. QED
      BY <1>3, <2>1, <2>2, <2>4, <3>1 DEF w
  <2>5. QED
    BY <2>3, <2>4 DEF w
<1>6. QED
  BY <1>4, <1>5

\* A file whose text is a prefix of another's, and of which no less is durable, can lose no
\* more than that.
LEMMA LeavesNarrow ==
  ASSUME NEW x, SoundFile(x), NEW y, SoundFile(y), y.named = x.named,
         NEW m \in 0..Len(Whole(x.log)), Whole(y.log) = SubSeq(Whole(x.log), 1, m),
         m = Len(Whole(x.log)) \/ x.synced <= m,
         x.synced <= y.synced \/ m <= y.synced
  PROVE  \A z \in Leaves(y) : \E v \in Leaves(x) : Same(z, v)
<1> SUFFICES ASSUME NEW z \in Leaves(y)
             PROVE  \E v \in Leaves(x) : Same(z, v)
  OBVIOUS
<1> DEFINE w == Whole(x.log)
<1>1. w \in Seq(Line) /\ x.synced \in Nat /\ y.synced \in Nat
  BY FileFields, SoundIs
<1>2. /\ z.named = y.named
      /\ \E k \in 0..Len(Whole(y.log)) : /\ Whole(z.log) = SubSeq(Whole(y.log), 1, k)
                                         /\ y.synced <= k \/ k = Len(Whole(y.log))
  BY LeavesAre
<1> HIDE DEF w
<1>3. Whole(y.log) = SubSeq(w, 1, m) /\ m \in 0..Len(w) /\ Len(SubSeq(w, 1, m)) = m
  BY <1>1, Prefix DEF w
<1>4. PICK k \in 0..m : Whole(z.log) = SubSeq(SubSeq(w, 1, m), 1, k) /\ (y.synced <= k \/ k = m)
  BY <1>2, <1>3
<1>5. Whole(z.log) = SubSeq(w, 1, k)
  BY <1>1, <1>3, <1>4, PrefixOfPrefix
<1>6. k \in 0..Len(w) /\ (x.synced <= k \/ k = Len(w))
  BY <1>1, <1>3, <1>4 DEF w
<1>7. PICK v \in Leaves(x) : v.named = x.named /\ Whole(v.log) = SubSeq(w, 1, k)
  BY <1>6, LeafFor DEF w
<1>8. Same(z, v)
  BY <1>2, <1>5, <1>7, SameText
<1>9. QED
  BY <1>8

---------------------------------------------------------------------------
(* The directory                                                           *)

LEMMA CandidatesAre ==
  ASSUME NEW f
  PROVE  Candidates(f) = {g \in Generation : Candidate(f[g])}
  BY DEF Candidates, Named, Candidate

LEMMA GenerationsAreNumbers ==
  Generation \subseteq Nat /\ 0 \notin Generation /\ \A g \in Generation : g > 0
  BY StoreConstants DEF Generation

\* The highest candidate is what is loaded.
LEMMA RecoveredAt ==
  ASSUME NEW f, NEW a \in Candidates(f), \A h \in Candidates(f) : h <= a
  PROVE  Highest(Candidates(f)) = a /\ Recovered(f) = Held(f[a])
<1>1. Candidates(f) \in SUBSET (Generation \cup {0})
  BY CandidatesAre
<1>2. Highest(Candidates(f)) = a
  BY <1>1, HighestOf
<1>3. QED
  BY <1>2 DEF Recovered, Held

LEMMA HighestCandidate ==
  ASSUME NEW f, Candidates(f) # {}
  PROVE  /\ Highest(Candidates(f)) \in Candidates(f)
         /\ \A h \in Candidates(f) : h <= Highest(Candidates(f))
<1>1. Candidates(f) \in SUBSET (Generation \cup {0})
  BY CandidatesAre
<1>2. QED
  BY <1>1, HighestIs

LEMMA RecoveredSame ==
  ASSUME NEW f, NEW h, \A g \in Generation : Same(f[g], h[g])
  PROVE  Candidates(f) = Candidates(h) /\ Recovered(f) = Recovered(h)
<1>1. Candidates(f) = Candidates(h)
  BY CandidatesAre DEF Same
<1>2. CASE Candidates(f) = {}
  BY <1>1, <1>2 DEF Recovered
<1>3. CASE Candidates(f) # {}
  <2> DEFINE a == Highest(Candidates(f))
  <2>1. a \in Candidates(f)
    BY <1>3, HighestCandidate
  <2>2. Held(f[a]) = Held(h[a])
    BY <2>1, CandidatesAre DEF Same
  <2>3. QED
    BY <1>1, <1>3, <2>2 DEF Recovered, Held
<1>4. QED
  BY <1>1, <1>2, <1>3

\* A power loss leaves of the files what it leaves of each.
LEMMA LossIs ==
  ASSUME NEW f, NEW d \in AfterPowerLoss(f)
  PROVE  \A g \in Generation : d[g] \in Leaves(f[g])
  BY DEF AfterPowerLoss

LEMMA LossOf ==
  ASSUME NEW f, NEW d, d = [g \in Generation |-> d[g]],
         \A g \in Generation : d[g] \in Leaves(f[g])
  PROVE  d \in AfterPowerLoss(f)
  BY DEF AfterPowerLoss

LEMMA LossIsSound ==
  ASSUME NEW f, SoundDisk(f), NEW d \in AfterPowerLoss(f)
  PROVE  SoundDisk(d) /\ \A g \in Generation : Entire(d[g]) /\ d[g].named = f[g].named
<1>1. ASSUME NEW g \in Generation
      PROVE  SoundFile(d[g]) /\ Entire(d[g]) /\ d[g].named = f[g].named
  <2>1. SoundFile(f[g]) /\ d[g] \in Leaves(f[g])
    BY LossIs DEF SoundDisk
  <2>2. QED
    BY <2>1, LeavesAre DEF Entire
<1>2. d \in [Generation -> UNION {Leaves(f[g]) : g \in Generation}]
  BY DEF AfterPowerLoss
<1>3. d \in [Generation -> File]
  BY <1>1, <1>2 DEF SoundFile
<1>4. QED
  BY <1>1, <1>3 DEF SoundDisk

\* A generation that is above every candidate's number makes none in losing something.
LEMMA LossIsNoCandidate ==
  ASSUME NEW f, SoundDisk(f), NEW d \in AfterPowerLoss(f)
  PROVE  Candidates(d) \subseteq Candidates(f)
<1> SUFFICES ASSUME NEW g \in Generation, Candidate(d[g])
             PROVE  Candidate(f[g])
  BY CandidatesAre
<1>1. SoundFile(f[g]) /\ d[g] \in Leaves(f[g])
  BY LossIs DEF SoundDisk
<1>2. QED
  BY <1>1, LossMakesNoCandidate

\* If every file loses what it could lose before, or holds q and is the newest
\* that can be loaded, what is found after a power loss could be before, or is q.
NoMoreIsLost(f, h, a, q) ==
  \A g \in Generation : \A y \in Leaves(h[g]) :
    \/ \E x \in Leaves(f[g]) : Same(y, x)
    \/ g = a /\ Candidate(y) /\ Held(y) = q

LEMMA LossNarrows ==
  ASSUME NEW f, NEW h, SoundDisk(h), NEW a \in Generation \cup {0}, NEW q,
         NoMoreIsLost(f, h, a, q),
         a # 0 => \A g \in Candidates(h) : g <= a
  PROVE  \A d \in AfterPowerLoss(h) :
           Recovered(d) = q \/ \E e \in AfterPowerLoss(f) : Recovered(d) = Recovered(e)
<1> SUFFICES ASSUME NEW d \in AfterPowerLoss(h), Recovered(d) # q
             PROVE  \E e \in AfterPowerLoss(f) : Recovered(d) = Recovered(e)
  OBVIOUS
<1>1. Candidates(d) \subseteq Candidates(h)
  BY LossIsNoCandidate
<1>2. ASSUME a # 0, Candidate(d[a]), Held(d[a]) = q
      PROVE  FALSE
  <2>1. a \in Candidates(d) /\ \A g \in Candidates(d) : g <= a
    BY <1>1, <1>2, CandidatesAre
  <2>2. QED
    BY <1>2, <2>1, RecoveredAt
<1>3. ASSUME NEW g \in Generation
      PROVE  \E x \in Leaves(f[g]) : Same(d[g], x)
  BY <1>2, LossIs, GenerationsAreNumbers DEF NoMoreIsLost
<1> DEFINE e == [g \in Generation |-> CHOOSE x \in Leaves(f[g]) : Same(d[g], x)]
<1>4. \A g \in Generation : e[g] \in Leaves(f[g]) /\ Same(d[g], e[g])
  BY <1>3
<1>5. e = [g \in Generation |-> e[g]]
  OBVIOUS
<1> HIDE DEF e
<1>6. e \in AfterPowerLoss(f)
  BY <1>4, <1>5, LossOf
<1>7. Recovered(d) = Recovered(e)
  BY <1>4, RecoveredSame
<1>8. QED
  BY <1>6, <1>7

\* What was durable alone.
LEMMA EntireStays ==
  ASSUME NEW f, NEW d \in AfterPowerLoss(f), NEW g \in Generation, Entire(f[g])
  PROVE  d[g] = f[g]
<1>1. d[g] \in Leaves(f[g])
  BY LossIs
<1>2. Leaves(f[g]) = {f[g]}
  BY DEF Leaves, Entire
<1>3. QED
  BY <1>1, <1>2

\* Nothing is in doubt once the newest generation is durable.
LEMMA EntireIsFound ==
  ASSUME NEW f, SoundDisk(f), NEW a \in Candidates(f), \A g \in Candidates(f) : g <= a,
         Entire(f[a])
  PROVE  Survivors(f) = {Recovered(f)}
<1>1. ASSUME NEW d \in AfterPowerLoss(f)
      PROVE  Recovered(d) = Recovered(f)
  <2>1. a \in Generation /\ Candidate(f[a])
    BY CandidatesAre
  <2>2. d[a] = f[a]
    BY <2>1, EntireStays
  <2>3. a \in Candidates(d) /\ \A g \in Candidates(d) : g <= a
    BY <2>1, <2>2, LossIsNoCandidate, CandidatesAre
  <2>4. QED
    BY <2>2, <2>3, RecoveredAt
<1>2. QED
  BY <1>1 DEF Survivors

\* Nor is anything after a power loss.
LEMMA AllEntire ==
  ASSUME NEW f, SoundDisk(f), \A g \in Generation : Entire(f[g])
  PROVE  Survivors(f) = {Recovered(f)}
<1>1. ASSUME NEW d \in AfterPowerLoss(f)
      PROVE  Recovered(d) = Recovered(f)
  <2>1. \A g \in Generation : d[g] = f[g]
    BY EntireStays
  <2>2. \A g \in Generation : Same(d[g], f[g])
    BY <2>1 DEF Same
  <2>3. QED
    BY <2>2, RecoveredSame
<1>2. QED
  BY <1>1 DEF Survivors

LEMMA FoundSurvives ==
  ASSUME NEW f
  PROVE  Recovered(f) \in Survivors(f)
  BY DEF Survivors

\* LossNarrows, of what a start may find.
LEMMA Narrowing ==
  ASSUME NEW f, NEW h, SoundDisk(h), NEW a \in Generation \cup {0}, NEW q,
         NoMoreIsLost(f, h, a, q),
         a # 0 => \A g \in Candidates(h) : g <= a
  PROVE  Survivors(h) \subseteq Survivors(f) \cup {Recovered(h), q}
<1>1. \A d \in AfterPowerLoss(h) :
        Recovered(d) = q \/ \E e \in AfterPowerLoss(f) : Recovered(d) = Recovered(e)
  BY LossNarrows
<1>2. QED
  BY <1>1 DEF Survivors

\* ... when but one file changes.
LEMMA OneNarrows ==
  ASSUME NEW f, NEW h, SoundDisk(h), NEW c \in Generation,
         \A g \in Generation : g # c => h[g] = f[g],
         \A y \in Leaves(h[c]) : \E x \in Leaves(f[c]) : Same(y, x)
  PROVE  Survivors(h) \subseteq Survivors(f) \cup {Recovered(h)}
<1> DEFINE q == Recovered(h)
<1>1. NoMoreIsLost(f, h, 0, q)
  <2> SUFFICES ASSUME NEW g \in Generation, NEW y \in Leaves(h[g])
               PROVE  \E x \in Leaves(f[g]) : Same(y, x)
    BY DEF NoMoreIsLost
  <2>1. CASE g = c
    BY <2>1
  <2>2. CASE g # c
    BY <2>2 DEF Same
  <2>3. QED
    BY <2>1, <2>2
<1> HIDE DEF q
<1>2. Survivors(h) \subseteq Survivors(f) \cup {Recovered(h), q}
  BY <1>1, Narrowing
<1>3. QED
  BY <1>2 DEF q

LEMMA OneStores ==
  ASSUME NEW f, NEW h, SoundDisk(h), NEW c \in Generation,
         \A g \in Generation : g # c => h[g] = f[g],
         \A y \in Leaves(h[c]) : \/ \E x \in Leaves(f[c]) : Same(y, x)
                                 \/ Candidate(y) /\ Held(y) = Recovered(h),
         \A g \in Candidates(h) : g <= c
  PROVE  Survivors(h) \subseteq Survivors(f) \cup {Recovered(h)}
<1> DEFINE q == Recovered(h)
<1>1. NoMoreIsLost(f, h, c, q)
  <2> SUFFICES ASSUME NEW g \in Generation, NEW y \in Leaves(h[g])
               PROVE  \/ \E x \in Leaves(f[g]) : Same(y, x)
                      \/ g = c /\ Candidate(y) /\ Held(y) = q
    BY DEF NoMoreIsLost
  <2>1. CASE g = c
    BY <2>1
  <2>2. CASE g # c
    BY <2>2 DEF Same
  <2>3. QED
    BY <2>1, <2>2
<1>2. c \in Generation \cup {0}
  OBVIOUS
<1> HIDE DEF q
<1>3. Survivors(h) \subseteq Survivors(f) \cup {Recovered(h), q}
  BY <1>1, <1>2, Narrowing
<1>4. QED
  BY <1>3 DEF q

---------------------------------------------------------------------------
(* One file changed                                                        *)

\* A file by its fields.
FileOf(named, log, synced) == [named |-> named, log |-> log, synced |-> synced]

LEMMA FileOfIs ==
  ASSUME NEW named \in BOOLEAN, NEW log \in Seq(Line), Sound(log), NEW n \in 0..Len(log)
  PROVE  /\ SoundFile(FileOf(named, log, n))
         /\ FileOf(named, log, n).named = named /\ FileOf(named, log, n).log = log
         /\ FileOf(named, log, n).synced = n
  BY DEF FileOf, SoundFile, File, Log, Line

\* h is f, but that the file c has a new name, text or durable part.
Becomes(f, h, c, named, log, n) ==
  /\ SoundDisk(h) /\ SoundFile(h[c])
  /\ h[c].named = named /\ h[c].log = log /\ h[c].synced = n
  /\ \A g \in Generation : g # c => h[g] = f[g]

LEMMA Replaced ==
  ASSUME NEW f, SoundDisk(f), NEW c \in Generation,
         NEW named \in BOOLEAN, NEW log \in Seq(Line), Sound(log), NEW n \in 0..Len(log),
         NEW h, h = [f EXCEPT ![c] = FileOf(named, log, n)]
  PROVE  Becomes(f, h, c, named, log, n)
<1> DEFINE x == FileOf(named, log, n)
<1>1. SoundFile(x) /\ x.named = named /\ x.log = log /\ x.synced = n
  BY FileOfIs
<1>2. h = [f EXCEPT ![c] = x]
  OBVIOUS
<1> HIDE DEF x
<1>3. f \in [Generation -> File] /\ x \in File
  BY <1>1 DEF SoundDisk, SoundFile
<1>4. h \in [Generation -> File] /\ h[c] = x /\ \A g \in Generation : g # c => h[g] = f[g]
  BY <1>2, <1>3
<1>5. QED
  BY <1>1, <1>4 DEF SoundDisk, Becomes

\* A file by its fields, and what there is to know of it.
LEMMA FileFacts ==
  ASSUME NEW f, SoundDisk(f), NEW c \in Generation
  PROVE  /\ f[c].named \in BOOLEAN /\ f[c].log \in Seq(Line) /\ Sound(f[c].log)
         /\ f[c].synced \in 0..Len(f[c].log) /\ SoundFile(f[c])
         /\ f[c] = FileOf(f[c].named, f[c].log, f[c].synced)
         /\ f \in [Generation -> File]
  BY FileFields DEF SoundDisk, FileOf

LEMMA LogBecomes ==
  ASSUME NEW f, SoundDisk(f), NEW c \in Generation, NEW log \in Seq(Line), Sound(log),
         f[c].synced <= Len(log),
         NEW h, h = [f EXCEPT ![c].log = log]
  PROVE  Becomes(f, h, c, f[c].named, log, f[c].synced)
<1> DEFINE x == f[c]
           b == f[c].named
           l == log
           m == f[c].synced
<1>1. b \in BOOLEAN /\ l \in Seq(Line) /\ Sound(l) /\ m \in 0..Len(l)
  BY FileFacts
<1>2. x = [named |-> x.named, log |-> x.log, synced |-> x.synced]
  BY FileFacts DEF FileOf
<1>3. f \in [Generation -> File] /\ h = [f EXCEPT ![c] = [x EXCEPT !.log = log]]
  BY FileFacts
<1>4. \A y : y = [x EXCEPT !.log = log] => y = FileOf(b, l, m)
  <2> HIDE DEF x
  <2>1. \A y : y = [x EXCEPT !.log = log] => y = FileOf(x.named, log, x.synced)
    BY <1>2 DEF FileOf
  <2>2. QED
    BY <2>1, Zenon DEF x
<1>5. [x EXCEPT !.log = log] = FileOf(b, l, m)
  BY <1>4, Zenon
<1>6. h = [f EXCEPT ![c] = FileOf(b, l, m)]
  BY <1>3, <1>5
<1> HIDE DEF b, l, m
<1>7. Becomes(f, h, c, b, l, m)
  BY <1>1, <1>6, Replaced
<1>8. QED
  BY <1>7 DEF b, l, m

LEMMA SyncedBecomes ==
  ASSUME NEW f, SoundDisk(f), NEW c \in Generation, NEW n \in 0..Len(f[c].log),
         NEW h, h = [f EXCEPT ![c].synced = n]
  PROVE  Becomes(f, h, c, f[c].named, f[c].log, n)
<1> DEFINE x == f[c]
           b == f[c].named
           l == f[c].log
           m == n
<1>1. b \in BOOLEAN /\ l \in Seq(Line) /\ Sound(l) /\ m \in 0..Len(l)
  BY FileFacts
<1>2. x = [named |-> x.named, log |-> x.log, synced |-> x.synced]
  BY FileFacts DEF FileOf
<1>3. f \in [Generation -> File] /\ h = [f EXCEPT ![c] = [x EXCEPT !.synced = n]]
  BY FileFacts
<1>4. \A y : y = [x EXCEPT !.synced = n] => y = FileOf(b, l, m)
  <2> HIDE DEF x
  <2>1. \A y : y = [x EXCEPT !.synced = n] => y = FileOf(x.named, x.log, n)
    BY <1>2 DEF FileOf
  <2>2. QED
    BY <2>1, Zenon DEF x
<1>5. [x EXCEPT !.synced = n] = FileOf(b, l, m)
  BY <1>4, Zenon
<1>6. h = [f EXCEPT ![c] = FileOf(b, l, m)]
  BY <1>3, <1>5
<1> HIDE DEF b, l, m
<1>7. Becomes(f, h, c, b, l, m)
  BY <1>1, <1>6, Replaced
<1>8. QED
  BY <1>7 DEF b, l, m

LEMMA NameBecomes ==
  ASSUME NEW f, SoundDisk(f), NEW c \in Generation, NEW named \in BOOLEAN,
         NEW h, h = [f EXCEPT ![c].named = named]
  PROVE  Becomes(f, h, c, named, f[c].log, f[c].synced)
<1> DEFINE x == f[c]
           b == named
           l == f[c].log
           m == f[c].synced
<1>1. b \in BOOLEAN /\ l \in Seq(Line) /\ Sound(l) /\ m \in 0..Len(l)
  BY FileFacts
<1>2. x = [named |-> x.named, log |-> x.log, synced |-> x.synced]
  BY FileFacts DEF FileOf
<1>3. f \in [Generation -> File] /\ h = [f EXCEPT ![c] = [x EXCEPT !.named = named]]
  BY FileFacts
<1>4. \A y : y = [x EXCEPT !.named = named] => y = FileOf(b, l, m)
  <2> HIDE DEF x
  <2>1. \A y : y = [x EXCEPT !.named = named] => y = FileOf(named, x.log, x.synced)
    BY <1>2 DEF FileOf
  <2>2. QED
    BY <2>1, Zenon DEF x
<1>5. [x EXCEPT !.named = named] = FileOf(b, l, m)
  BY <1>4, Zenon
<1>6. h = [f EXCEPT ![c] = FileOf(b, l, m)]
  BY <1>3, <1>5
<1> HIDE DEF b, l, m
<1>7. Becomes(f, h, c, b, l, m)
  BY <1>1, <1>6, Replaced
<1>8. QED
  BY <1>7 DEF b, l, m

LEMMA FileCut ==
  ASSUME NEW x, x = [named |-> x.named, log |-> x.log, synced |-> x.synced], NEW log, NEW n,
         NEW y, y = [x EXCEPT !.log = log, !.synced = n]
  PROVE  y = [named |-> x.named, log |-> log, synced |-> n]
  OBVIOUS

LEMMA CutBecomes ==
  ASSUME NEW f, SoundDisk(f), NEW c \in Generation, NEW log \in Seq(Line), Sound(log),
         NEW n \in 0..Len(log),
         NEW h, h = [f EXCEPT ![c].log = log, ![c].synced = n]
  PROVE  Becomes(f, h, c, f[c].named, log, n)
<1> DEFINE x == f[c]
           b == f[c].named
           l == log
           m == n
<1>1. b \in BOOLEAN /\ l \in Seq(Line) /\ Sound(l) /\ m \in 0..Len(l)
  BY FileFacts
<1>2. x = [named |-> x.named, log |-> x.log, synced |-> x.synced]
  BY FileFacts DEF FileOf
<1>3. f \in [Generation -> File] /\ h = [f EXCEPT ![c] = [x EXCEPT !.log = log, !.synced = n]]
  BY FileFacts
<1>4. \A y : y = [x EXCEPT !.log = log, !.synced = n] => y = FileOf(b, l, m)
  <2> HIDE DEF x
  <2>1. \A y : y = [x EXCEPT !.log = log, !.synced = n] => y = FileOf(x.named, log, n)
    BY <1>2, FileCut DEF FileOf
  <2>2. QED
    BY <2>1, Zenon DEF x
<1>5. [x EXCEPT !.log = log, !.synced = n] = FileOf(b, l, m)
  BY <1>4, Zenon
<1>6. h = [f EXCEPT ![c] = FileOf(b, l, m)]
  BY <1>3, <1>5
<1> HIDE DEF b, l, m
<1>7. Becomes(f, h, c, b, l, m)
  BY <1>1, <1>6, Replaced
<1>8. QED
  BY <1>7 DEF b, l, m

\* A good log with a record that may be appended.
LEMMA AppendedIs ==
  ASSUME NEW l \in Seq(Line), NEW q,
         Reading(l) = [good |-> TRUE, checkpointed |-> TRUE, queue |-> q],
         NEW r \in Requests,
         \/ r.kind = "put" /\ r.key \notin ToSet(q)
         \/ r.kind = "remove" /\ r.key \in ToSet(q)
  PROVE  /\ Append(l, r) \in Seq(Line)
         /\ Reading(Append(l, r)) = [good |-> TRUE, checkpointed |-> TRUE, queue |-> Apply(q, r)]
<1>1. r \in Line /\ r # Torn /\ r # Checkpoint
  BY Lines
<1>2. Reading(Append(l, r)) = ReadLine(Reading(l), r)
  BY <1>1, ReadingAppended
<1> DEFINE b == [good |-> TRUE, checkpointed |-> TRUE, queue |-> q]
<1>3. b.good /\ b.checkpointed = TRUE /\ b.queue = q
  OBVIOUS
<1> HIDE DEF b
<1>4. ReadLine(b, r) = [good |-> TRUE, checkpointed |-> TRUE, queue |-> Apply(q, r)]
  BY <1>1, <1>3 DEF ReadLine
<1>5. QED
  BY <1>1, <1>2, <1>4, AppendProperties DEF b

---------------------------------------------------------------------------
(* The inductive invariants                                                *)

Journal == files[generation].log
Written == SubSeq(Journal, 1, committed)

Compacting == {"filling", "filled", "abandoning"}
InDoubt == pc \in {"written", "failing"} \/ failed

Control ==
  /\ pc = "closed" => generation = 0 /\ next = 0 /\ ~opening /\ ~failed /\ entries = <<>>
  /\ opening => pc \in {"compacting", "sweeping"} \cup Compacting /\ ~failed
  /\ generation = 0 /\ pc # "closed" =>
       opening /\ entries = <<>> /\ pc \in {"compacting"} \cup Compacting
  /\ IF InDoubt THEN op \in Requests /\ Allowed(op) ELSE op = NoOp
  /\ failed => pc = "idle"
  /\ pc \in Compacting => next # 0
  /\ pc \in {"filling", "filled"} => generation < next
  /\ pc \in {"idle", "written", "failing", "compacting"} => next = 0
  /\ pc = "sweeping" => IF next = 0 THEN opening ELSE next = generation

\* The file of the journal holds what memory does, and at most one record more, which is not
\* durable.
JournalIsRead ==
  generation # 0 =>
    /\ committed <= Len(Journal)
    /\ Reading(Written) = [good |-> TRUE, checkpointed |-> TRUE, queue |-> entries]
    /\ IF pc = "written" THEN Journal = Append(Written, op)
       ELSE IF InDoubt THEN Journal \in {Written, Append(Written, op), Append(Written, Torn)}
       ELSE Journal = Written
    /\ InDoubt => files[generation].synced <= committed

NextIsFilled ==
  /\ pc = "filling" => files[next].log = <<>> /\ files[next].synced = 0
  /\ pc = "filled" => files[next].log = Snapshot(entries) /\ files[next].synced = 0

\* What holds however the calls fail.
StoreInv == TypeOK /\ SoundDisk(files) /\ Control /\ JournalIsRead /\ NextIsFilled

Looks == found = Recovered(files) /\ left = Survivors(files)

\* A store that can rely on its directory knows where the newest generation is ...
NextIsHighest ==
  pc \in Compacting =>
    /\ next \in Named(files) /\ \A h \in Named(files) : h <= next
    /\ files[next].synced = 0 /\ generation < next
    /\ next \in Candidates(files) => files[next].log = Snapshot(entries)

GenerationIsNewest ==
  generation # 0 =>
    /\ generation \in Named(files)
    /\ \A h \in Candidates(files) : h <= generation \/ h = next
    /\ pc \in {"compacting"} \cup Compacting => files[generation].synced = committed

FirstIsAlone ==
  /\ opening /\ pc # "sweeping" => generation = 0
  /\ generation = 0 /\ opening => Named(files) \subseteq {next}

\* ... and, should a power loss take its checkpoint, which generation is loaded instead: the
\* one before it, which is durable, if there is one.
Older(f, a) == {h \in Named(f) : h < a}
Covered(f, a) ==
  \/ Firm(f[a])
  \/ Older(f, a) = {}
  \/ Highest(Older(f, a)) \in Candidates(f) /\ Entire(f[Highest(Older(f, a))])

Fallback ==
  env.power =>
    /\ pc = "closed" /\ Candidates(files) # {} => Covered(files, Highest(Candidates(files)))
    /\ generation # 0 => Covered(files, generation)

\* An abandoned generation that is newer than the one in use takes a crash, and to stay after
\* the next start, an unlink that fails.
Stray(a) == \E h \in Named(files) : h > a /\ h # next
StraysCost ==
  /\ pc = "closed" /\ Candidates(files) # {} /\ Stray(Highest(Candidates(files))) => faults >= 1
  /\ generation # 0 /\ Stray(generation) =>
       IF pc = "sweeping" /\ next = 0 THEN faults >= 1
       ELSE faults >= 2 /\ pc # "sweeping" /\ "sweep" \in env.calls

Agrees(q) == kept \subseteq ToSet(q) /\ dropped \cap ToSet(q) = {}
Remembered == (\A q \in left : Agrees(q)) /\ (generation # 0 => Agrees(entries))

\* Where the machine may stop and an unlink fail: with more faults than this, a power loss can
\* bring back an old generation.
FewFaults == \A e \in Environments : e.power /\ "sweep" \in e.calls => MaxFaults <= 2

PlaceInv == NextIsHighest /\ GenerationIsNewest /\ FirstIsAlone /\ Fallback /\ StraysCost

\* What holds of a store that can rely on its directory.
DurableInv == Dependable => PlaceInv /\ Remembered

---------------------------------------------------------------------------
(* The store's invariant                                                   *)

\* What the store knows of its journal.
LEMMA JournalFacts ==
  ASSUME StoreInv, generation # 0
  PROVE  /\ generation \in Generation /\ SoundFile(files[generation])
         /\ Journal \in Seq(Line) /\ committed \in 0..Len(Journal)
         /\ Written \in Seq(Line) /\ Len(Written) = committed
         /\ Reading(Written) = [good |-> TRUE, checkpointed |-> TRUE, queue |-> entries]
         /\ Reading(Written).good /\ Reading(Written).checkpointed
         /\ Reading(Written).queue = entries
<1>1. generation \in Generation /\ SoundFile(files[generation])
  BY DEF StoreInv, TypeOK, SoundDisk
<1>2. Journal \in Seq(Line)
  BY <1>1, FileFields DEF Journal
<1>3. committed \in 0..Len(Journal)
  BY <1>2 DEF StoreInv, TypeOK, JournalIsRead
<1>4. Written \in Seq(Line) /\ Len(Written) = committed
  BY <1>2, <1>3, Prefix DEF Written
<1>5. Reading(Written) = [good |-> TRUE, checkpointed |-> TRUE, queue |-> entries]
  BY DEF StoreInv, JournalIsRead
<1>6. QED
  BY <1>1, <1>2, <1>3, <1>4, <1>5

LEMMA EntriesAreDistinct ==
  ASSUME StoreInv
  PROVE  entries \in Seq(Key) /\ Distinct(entries)
<1>1. entries \in Seq(Key)
  BY DEF StoreInv, TypeOK
<1>2. CASE generation = 0
  <2>1. entries = <<>>
    BY <1>2 DEF StoreInv, Control
  <2>2. QED
    BY <1>1, <2>1 DEF Distinct
<1>3. CASE generation # 0
  <2>1. /\ Shape(Reading(Written)) /\ Reading(Written).queue = entries
        /\ Reading(Written).good
    BY <1>3, JournalFacts, ReadingShape
  <2>2. QED
    BY <1>1, <2>1 DEF Shape
<1>4. QED
  BY <1>2, <1>3

LEMMA StoreInitially == Init => StoreInv
<1> SUFFICES ASSUME Init
             PROVE  StoreInv
  OBVIOUS
<1>1. SoundFile(NoFile)
  <2>1. <<>> \in Seq(Line) /\ 0 \in 0..Len(<<>>)
    OBVIOUS
  <2>2. Reading(<<>>).good
    BY ReadingNothing DEF Unread
  <2>3. Sound(<<>>)
    BY <2>1, <2>2, GoodIsSound
  <2>4. QED
    BY <2>1, <2>3, FileOfIs DEF FileOf, NoFile
<1>2. SoundDisk(files)
  BY <1>1 DEF Init, SoundDisk, SoundFile
<1>3. TypeOK
  <2>1. files \in [Generation -> File] /\ 0 \in 0..MaxFaults
    BY <1>2, StoreConstants DEF SoundDisk
  <2>2. op \in Requests \cup {NoOp} /\ entries \in Seq(Key)
    BY DEF Init
  <2>3. QED
    BY <2>1, <2>2 DEF Init, TypeOK, Positions
<1>4. Control /\ JournalIsRead /\ NextIsFilled
  BY DEF Init, Control, JournalIsRead, NextIsFilled, InDoubt, Compacting
<1>5. QED
  BY <1>2, <1>3, <1>4 DEF StoreInv

\* The journal is as it was.
LEMMA JournalUnchanged ==
  ASSUME StoreInv, generation' = generation, committed' = committed, entries' = entries,
         generation # 0 => files'[generation] = files[generation],
         InDoubt = InDoubt', pc = "written" <=> pc' = "written", op' = op
  PROVE  JournalIsRead'
  BY DEF StoreInv, JournalIsRead, Journal, Written

LEMMA StoreOpenEmpty ==
  ASSUME StoreInv, OpenEmpty, env' = env
  PROVE  StoreInv'
<1>1. SoundDisk(files)'
  BY DEF OpenEmpty, StoreInv, SoundDisk
<1>2. TypeOK'
  BY DEF OpenEmpty, memory, history, NoFault, StoreInv, TypeOK, Positions
<1>3. Control'
  BY DEF OpenEmpty, memory, history, StoreInv, Control, InDoubt, Compacting, Allowed, Requests
<1>4. JournalIsRead' /\ NextIsFilled'
  BY DEF OpenEmpty, memory, history, StoreInv, Control, JournalIsRead, NextIsFilled
<1>5. QED
  BY <1>1, <1>2, <1>3, <1>4 DEF StoreInv

\* The generation that a start loads.
LEMMA LoadedIs ==
  ASSUME NEW f, SoundDisk(f), NEW g \in Candidates(f)
  PROVE  /\ g \in Generation /\ f[g].named /\ SoundFile(f[g])
         /\ Whole(f[g].log) \in Seq(Line)
         /\ Reading(Whole(f[g].log)) =
              [good |-> TRUE, checkpointed |-> TRUE, queue |-> Held(f[g])]
         /\ Held(f[g]) \in Seq(Key) /\ Distinct(Held(f[g]))
<1> DEFINE l == Whole(f[g].log)
<1>1. g \in Generation /\ f[g].named /\ SoundFile(f[g]) /\ Reading(l).good /\ Reading(l).checkpointed
  BY DEF Candidates, Named, Parses, Parsed, SoundDisk
<1>2. l \in Seq(Line)
  BY <1>1, FileFields, SoundIs
<1>3. Held(f[g]) = Reading(l).queue
  BY DEF Held, Parsed
<1> HIDE DEF l
<1>4. Shape(Reading(l))
  BY <1>2, ReadingShape
<1> DEFINE so == Reading(l)
<1>5. so.good = TRUE /\ so.checkpointed = TRUE /\ so.queue \in Seq(Key) /\ Distinct(so.queue)
      /\ so = [good |-> so.good, checkpointed |-> so.checkpointed, queue |-> so.queue]
  BY <1>1, <1>4 DEF Shape
<1> HIDE DEF so
<1>6. so = [good |-> TRUE, checkpointed |-> TRUE, queue |-> Held(f[g])]
  BY <1>3, <1>5 DEF so
<1>7. QED
  BY <1>1, <1>2, <1>3, <1>5, <1>6 DEF so, l

\* What OpenNewest makes of the files.
Loads(f, g, l, h) ==
  h = IF l = f[g].log THEN f ELSE [f EXCEPT ![g].log = l, ![g].synced = Len(l)]

LEMMA LoadedFiles ==
  ASSUME NEW f, SoundDisk(f), NEW g \in Candidates(f), NEW l, l = Whole(f[g].log),
         NEW h, Loads(f, g, l, h)
  PROVE  /\ SoundDisk(h) /\ \A i \in Generation : i # g => h[i] = f[i]
         /\ h[g].log = l /\ h[g].named
         /\ h[g] = f[g] \/ h[g].synced = Len(l)
<1>1. /\ g \in Generation /\ f[g].named /\ SoundFile(f[g]) /\ l \in Seq(Line)
      /\ Reading(l) = [good |-> TRUE, checkpointed |-> TRUE, queue |-> Held(f[g])]
  BY LoadedIs
<1>2. CASE l = f[g].log
  BY <1>1, <1>2 DEF Loads
<1>3. CASE l # f[g].log
  <2>1. h = [f EXCEPT ![g].log = l, ![g].synced = Len(l)]
    BY <1>3, Zenon DEF Loads
  <2>2. Reading(l).good /\ Len(l) \in 0..Len(l)
    BY <1>1
  <2>3. Sound(l)
    BY <1>1, <2>2, GoodIsSound
  <2>4. Becomes(f, h, g, f[g].named, l, Len(l))
    BY <1>1, <2>1, <2>2, <2>3, CutBecomes, Zenon
  <2>5. QED
    BY <1>1, <2>4 DEF Becomes
<1>4. QED
  BY <1>2, <1>3

LEMMA StoreOpenNewest ==
  ASSUME StoreInv, OpenNewest, env' = env
  PROVE  StoreInv'
<1> DEFINE g == Highest(Candidates(files))
           l == Whole(files[g].log)
<1>1. g \in Candidates(files) /\ SoundDisk(files)
  BY HighestCandidate DEF OpenNewest, StoreInv
<1>2. /\ pc = "closed" /\ generation' = g /\ committed' = Len(l) /\ entries' = Reading(l).queue
      /\ Loads(files, g, l, files')
      /\ pc' = "sweeping" /\ opening' = TRUE /\ failed' = failed /\ op' = op /\ next' = next
      /\ kept' = kept /\ dropped' = dropped /\ faults' = faults
  BY DEF OpenNewest, history, NoFault, Loads
<1>3. /\ g \in Generation /\ l \in Seq(Line) /\ Held(files[g]) \in Seq(Key)
      /\ Reading(l) = [good |-> TRUE, checkpointed |-> TRUE, queue |-> Held(files[g])]
  BY <1>1, LoadedIs
<1> HIDE DEF g, l
<1>4. l = Whole(files[g].log)
  BY DEF l
<1>5. /\ SoundDisk(files') /\ \A i \in Generation : i # g => files'[i] = files[i]
      /\ files'[g].log = l /\ files'[g].named
      /\ files'[g] = files[g] \/ files'[g].synced = Len(l)
  BY <1>1, <1>2, <1>4, LoadedFiles
<1>6. entries' = Held(files[g]) /\ Len(l) \in Nat
  BY <1>2, <1>3
<1>7. TypeOK'
  BY <1>2, <1>3, <1>5, <1>6 DEF StoreInv, TypeOK, Positions, SoundDisk
<1>8. /\ next = 0 /\ ~failed /\ op = NoOp /\ ~InDoubt'
  BY <1>2 DEF StoreInv, Control, InDoubt
<1>9. Control'
  BY <1>2, <1>3, <1>8, GenerationsAreNumbers DEF Control, InDoubt, Compacting
<1>10. JournalIsRead'
  <2>1. SubSeq(l, 1, Len(l)) = l
    BY <1>3, WholePrefix
  <2>2. Journal' = l /\ Written' = l
    BY <1>2, <1>5, <2>1 DEF Journal, Written
  <2>3. QED
    BY <1>2, <1>3, <1>6, <1>8, <2>2 DEF JournalIsRead
<1>11. NextIsFilled'
  BY <1>2 DEF NextIsFilled
<1>12. SoundDisk(files)'
  BY <1>5
<1>13. QED
  BY <1>7, <1>9, <1>10, <1>11, <1>12 DEF StoreInv

LEMMA UsableFacts ==
  ASSUME StoreInv, Usable
  PROVE  /\ pc = "idle" /\ ~failed /\ ~opening /\ generation # 0 /\ Journal = Written
         /\ op = NoOp /\ next = 0 /\ ~InDoubt
<1>1. pc = "idle" /\ ~failed /\ ~InDoubt
  BY DEF Usable, InDoubt
<1>2. ~opening /\ generation # 0 /\ op = NoOp /\ next = 0
  BY <1>1 DEF StoreInv, Control, Compacting
<1>3. QED
  BY <1>1, <1>2 DEF StoreInv, JournalIsRead

\* The three texts of a journal while a record is being appended.
LEMMA DoubtfulIs ==
  ASSUME StoreInv, generation # 0, NEW r \in Requests, Allowed(r),
         NEW l \in {Written, Append(Written, r), Append(Written, Torn)}
  PROVE  /\ l \in Seq(Line) /\ Sound(l) /\ committed \in 0..Len(l)
         /\ SubSeq(l, 1, committed) = Written
         /\ Whole(l) = IF l = Append(Written, r) THEN Append(Written, r) ELSE Written
<1>1. /\ Written \in Seq(Line) /\ Len(Written) = committed
      /\ Reading(Written) = [good |-> TRUE, checkpointed |-> TRUE, queue |-> entries]
      /\ Reading(Written).good
  BY JournalFacts
<1>2. /\ Append(Written, r) \in Seq(Line)
      /\ Reading(Append(Written, r)) =
           [good |-> TRUE, checkpointed |-> TRUE, queue |-> Apply(entries, r)]
  BY <1>1, AppendedIs DEF Allowed
<1>3. Reading(Append(Written, r)).good
  BY <1>2
<1>4. Written # Append(Written, r) /\ Append(Written, Torn) # Append(Written, r)
  <2>1. /\ Len(Append(Written, r)) = Len(Written) + 1 /\ Len(Written) \in Nat
        /\ Append(Written, r)[Len(Written) + 1] = r
        /\ Append(Written, Torn)[Len(Written) + 1] = Torn
    BY <1>1, Lines, AppendProperties
  <2>2. r # Torn
    BY Lines
  <2>3. QED
    BY <2>1, <2>2
<1>5. CASE l = Written
  <2>1. Whole(l) = Written /\ Sound(l)
    BY <1>1, <1>5, GoodIsSound
  <2>2. QED
    BY <1>1, <1>4, <1>5, <2>1, WholePrefix
<1>6. CASE l = Append(Written, r)
  <2>1. Whole(l) = l /\ Sound(l)
    BY <1>2, <1>3, <1>6, GoodIsSound
  <2>2. committed \in 0..Len(Written) /\ committed \in 0..Len(l)
    BY <1>1, <1>6, Lines, AppendProperties
  <2>3. SubSeq(l, 1, committed) = SubSeq(Written, 1, committed)
    BY <1>1, <1>6, <2>2, Lines, PrefixOfAppend
  <2>4. QED
    BY <1>1, <1>2, <1>6, <2>1, <2>2, <2>3, WholePrefix
<1>7. CASE l = Append(Written, Torn)
  <2>1. Whole(l) = Written /\ Sound(l) /\ l \in Seq(Line)
    BY <1>1, <1>7, TornIsSound
  <2>2. committed \in 0..Len(Written) /\ committed \in 0..Len(l)
    BY <1>1, <1>7, Lines, AppendProperties
  <2>3. SubSeq(l, 1, committed) = SubSeq(Written, 1, committed)
    BY <1>1, <1>7, <2>2, Lines, PrefixOfAppend
  <2>4. QED
    BY <1>1, <1>4, <1>7, <2>1, <2>2, <2>3, WholePrefix
<1>8. QED
  BY <1>5, <1>6, <1>7

LEMMA StoreWrite ==
  ASSUME StoreInv, NEW r \in Requests, Write(r), env' = env
  PROVE  /\ StoreInv'
         /\ Becomes(files, files', generation, files[generation].named, Append(Written, r),
                    files[generation].synced)
<1>1. /\ pc = "idle" /\ ~failed /\ ~opening /\ generation # 0 /\ Journal = Written
      /\ op = NoOp /\ next = 0 /\ ~InDoubt
  BY UsableFacts DEF Write, Requested
<1>2. /\ pc' = "written" /\ op' = r /\ Allowed(r) /\ faults' = faults
      /\ kept' = (IF r.kind = "remove" THEN kept \ {r.key} ELSE kept)
      /\ dropped' = (IF r.kind = "put" THEN dropped \ {r.key} ELSE dropped)
      /\ opening' = opening /\ entries' = entries /\ generation' = generation
      /\ committed' = committed /\ failed' = failed /\ next' = next
      /\ files' = [files EXCEPT ![generation].log = Append(Journal, r)]
  BY DEF Write, Requested, memory, NoFault, Journal
<1>3. /\ generation \in Generation /\ SoundDisk(files)
      /\ Written \in Seq(Line) /\ Len(Written) = committed
  BY <1>1, JournalFacts DEF StoreInv
<1> DEFINE l == Append(Written, r)
<1>4. l \in Seq(Line) /\ Sound(l) /\ committed \in 0..Len(l) /\ SubSeq(l, 1, committed) = Written
  BY <1>1, <1>2, DoubtfulIs
<1>5. files[generation].synced <= committed /\ files[generation].synced \in Nat
  BY <1>1, <1>3, FileFacts DEF Journal
<1>6. Becomes(files, files', generation, files[generation].named, l, files[generation].synced)
  <2>1. files[generation].synced <= Len(l)
    BY <1>3, <1>4, <1>5
  <2> HIDE DEF l
  <2>2. files' = [files EXCEPT ![generation].log = l]
    BY <1>1, <1>2 DEF l
  <2>3. QED
    BY <1>3, <1>4, <2>1, <2>2, LogBecomes
<1>7. Journal' = l /\ Written' = Written
  BY <1>2, <1>4, <1>6 DEF Journal, Written, Becomes
<1>8. TypeOK'
  <2>1. files' \in [Generation -> File]
    BY <1>6 DEF Becomes, SoundDisk
  <2>2. QED
    BY <1>2, <2>1 DEF StoreInv, TypeOK, Positions
<1>9. Control'
  BY <1>1, <1>2 DEF Control, InDoubt, Compacting, Allowed
<1>10. JournalIsRead'
  <2>1. committed' <= Len(Journal)' /\ InDoubt'
    BY <1>2, <1>4, <1>7 DEF InDoubt
  <2>2. Reading(Written)' = [good |-> TRUE, checkpointed |-> TRUE, queue |-> entries]
    BY <1>1, <1>7, JournalFacts
  <2>3. files'[generation'].synced <= committed'
    BY <1>2, <1>5, <1>6 DEF Becomes
  <2>4. QED
    BY <1>2, <1>7, <2>1, <2>2, <2>3 DEF JournalIsRead
<1>11. NextIsFilled'
  BY <1>2 DEF NextIsFilled
<1>12. SoundDisk(files)'
  BY <1>6 DEF Becomes
<1>13. QED
  BY <1>6, <1>8, <1>9, <1>10, <1>11, <1>12 DEF StoreInv

LEMMA BecomesItself ==
  ASSUME NEW f, SoundDisk(f), NEW c \in Generation
  PROVE  Becomes(f, f, c, f[c].named, f[c].log, f[c].synced)
  BY FileFacts DEF Becomes

\* The journal while the outcome of an append is in doubt.
LEMMA DoubtRemains ==
  ASSUME StoreInv, generation # 0, NEW r \in Requests, Allowed(r),
         NEW l \in {Written, Append(Written, r), Append(Written, Torn)},
         NEW b, NEW n, n <= committed, Becomes(files, files', generation, b, l, n),
         generation' = generation, committed' = committed, entries' = entries, op' = r,
         InDoubt', pc' = "written" => l = Append(Written, r)
  PROVE  JournalIsRead' /\ Journal' = l /\ Written' = Written
<1>1. /\ committed \in 0..Len(l) /\ SubSeq(l, 1, committed) = Written
  BY DoubtfulIs
<1>2. Journal' = l /\ Written' = Written /\ files'[generation'].synced <= committed'
  BY <1>1 DEF Journal, Written, Becomes
<1>3. Reading(Written)' = [good |-> TRUE, checkpointed |-> TRUE, queue |-> entries]
  BY <1>2, JournalFacts
<1>4. QED
  BY <1>1, <1>2, <1>3 DEF JournalIsRead

LEMMA StoreWriteFails ==
  ASSUME StoreInv, NEW r \in Requests, WriteFails(r), env' = env
  PROVE  /\ StoreInv'
         /\ \E l \in {Written, Append(Written, Torn)} :
              Becomes(files, files', generation, files[generation].named, l,
                      files[generation].synced)
<1>1. /\ pc = "idle" /\ ~failed /\ ~opening /\ generation # 0 /\ Journal = Written
      /\ op = NoOp /\ next = 0 /\ ~InDoubt
  BY UsableFacts DEF WriteFails, Requested
<1>2. /\ pc' = "failing" /\ op' = r /\ Allowed(r) /\ faults < MaxFaults /\ faults' = faults + 1
      /\ kept' = (IF r.kind = "remove" THEN kept \ {r.key} ELSE kept)
      /\ dropped' = (IF r.kind = "put" THEN dropped \ {r.key} ELSE dropped)
      /\ opening' = opening /\ entries' = entries /\ generation' = generation
      /\ committed' = committed /\ failed' = failed /\ next' = next
      /\ \/ files' = [files EXCEPT ![generation].log = Append(Journal, Torn)]
         \/ files' = files
  BY DEF WriteFails, Requested, memory, Fault, Journal
<1>3. /\ generation \in Generation /\ SoundDisk(files)
      /\ Written \in Seq(Line) /\ Len(Written) = committed
  BY <1>1, JournalFacts DEF StoreInv
<1>4. files[generation].synced <= committed /\ files[generation].synced \in Nat
  BY <1>1, <1>3, FileFacts DEF Journal
<1> DEFINE n == files[generation].synced
           b == files[generation].named
<1>5. \E l \in {Written, Append(Written, Torn)} :
        Becomes(files, files', generation, b, l, n)
  <2>1. CASE files' = files
    BY <1>1, <1>3, <2>1, BecomesItself DEF Journal
  <2>2. CASE files' = [files EXCEPT ![generation].log = Append(Journal, Torn)]
    <3> DEFINE l == Append(Written, Torn)
    <3>1. l \in Seq(Line) /\ Sound(l) /\ committed \in 0..Len(l)
      BY <1>1, <1>2, DoubtfulIs
    <3>2. n <= Len(l)
      BY <1>3, <1>4, <3>1
    <3> HIDE DEF l
    <3>3. files' = [files EXCEPT ![generation].log = l]
      BY <1>1, <2>2 DEF l
    <3>4. Becomes(files, files', generation, b, l, n)
      BY <1>3, <3>1, <3>2, <3>3, LogBecomes
    <3>5. QED
      BY <3>4 DEF l
  <2>3. QED
    BY <1>2, <2>1, <2>2
<1>6. PICK l \in {Written, Append(Written, Torn)} :
        Becomes(files, files', generation, b, l, n)
  BY <1>5
<1>7. SoundDisk(files') /\ files' \in [Generation -> File]
  BY <1>6 DEF Becomes, SoundDisk
<1>8. TypeOK'
  <2>1. faults' \in 0..MaxFaults
    BY <1>2, StoreConstants DEF StoreInv, TypeOK
  <2>2. QED
    BY <1>2, <1>7, <2>1 DEF StoreInv, TypeOK, Positions
<1>9. Control' /\ InDoubt'
  BY <1>1, <1>2 DEF Control, InDoubt, Compacting, Allowed
<1>10. JournalIsRead'
  <2> HIDE DEF b, n
  <2>1. n <= committed
    BY <1>4 DEF n
  <2>2. QED
    BY <1>1, <1>2, <1>6, <1>9, <2>1, DoubtRemains
<1>11. NextIsFilled'
  BY <1>2 DEF NextIsFilled
<1>12. SoundDisk(files)'
  BY <1>7
<1>13. QED
  BY <1>5, <1>8, <1>9, <1>10, <1>11, <1>12 DEF StoreInv

\* What an append in doubt knows.
LEMMA DoubtFacts ==
  ASSUME StoreInv, InDoubt
  PROVE  /\ generation # 0 /\ generation \in Generation /\ SoundDisk(files)
         /\ op \in Requests /\ Allowed(op) /\ ~opening /\ next = 0
         /\ Journal \in {Written, Append(Written, op), Append(Written, Torn)}
         /\ files[generation].synced <= committed /\ files[generation].synced \in Nat
         /\ Written \in Seq(Line) /\ Len(Written) = committed
<1>1. pc \in {"written", "failing", "idle"}
  BY DEF StoreInv, Control, InDoubt
<1>2. ~opening /\ next = 0 /\ generation # 0 /\ op \in Requests /\ Allowed(op)
  BY <1>1 DEF StoreInv, Control, Compacting
<1>3. Journal \in {Written, Append(Written, op), Append(Written, Torn)}
      /\ files[generation].synced <= committed
  BY <1>2 DEF StoreInv, JournalIsRead
<1>4. generation \in Generation /\ Written \in Seq(Line) /\ Len(Written) = committed
  BY <1>2, JournalFacts
<1>5. SoundDisk(files)
  BY DEF StoreInv
<1>6. files[generation].synced \in Nat
  BY <1>4, <1>5, FileFacts
<1>7. QED
  BY <1>2, <1>3, <1>4, <1>5, <1>6

LEMMA StoreCommit ==
  ASSUME StoreInv, Commit, env' = env
  PROVE  /\ StoreInv'
         /\ Becomes(files, files', generation, files[generation].named, Journal, Len(Journal))
         /\ Len(Journal) = committed'
<1>1. InDoubt /\ pc = "written" /\ ~failed /\ Journal = Append(Written, op)
  <2>1. pc = "written" /\ InDoubt
    BY DEF Commit, InDoubt
  <2>2. QED
    BY <2>1, DoubtFacts DEF StoreInv, Control, JournalIsRead
<1>2. /\ files' = [files EXCEPT ![generation].synced = Len(Journal)]
      /\ committed' = committed + 1 /\ entries' = Apply(entries, op)
      /\ kept' = (IF op.kind = "put" THEN kept \cup {op.key} ELSE kept)
      /\ dropped' = (IF op.kind = "remove" THEN dropped \cup {op.key} ELSE dropped)
      /\ op' = NoOp /\ pc' \in {"idle", "compacting"}
      /\ opening' = opening /\ generation' = generation /\ failed' = failed /\ next' = next
      /\ faults' = faults
  BY DEF Commit, NoFault, Journal
<1>3. /\ generation # 0 /\ generation \in Generation /\ SoundDisk(files)
      /\ op \in Requests /\ Allowed(op) /\ ~opening /\ next = 0
      /\ Written \in Seq(Line) /\ Len(Written) = committed
  BY <1>1, DoubtFacts
<1>4. /\ Journal \in Seq(Line) /\ Len(Journal) = committed + 1 /\ committed \in Nat
      /\ Reading(Journal) = [good |-> TRUE, checkpointed |-> TRUE, queue |-> Apply(entries, op)]
  <2>1. op \in Line /\ Len(Written) \in Nat
    BY <1>3, Lines
  <2>2. Reading(Written) = [good |-> TRUE, checkpointed |-> TRUE, queue |-> entries]
    BY <1>3, JournalFacts
  <2>3. QED
    BY <1>1, <1>3, <2>1, <2>2, AppendedIs, AppendProperties DEF Allowed
<1>5. Becomes(files, files', generation, files[generation].named, Journal, Len(Journal))
  <2>1. Len(Journal) \in 0..Len(files[generation].log)
    BY <1>4 DEF Journal
  <2>2. Becomes(files, files', generation, files[generation].named, files[generation].log, Len(Journal))
    BY <1>2, <1>3, <2>1, SyncedBecomes
  <2>3. QED
    BY <2>2 DEF Journal
<1>6. Journal' = Journal /\ Written' = Journal
  <2>1. Journal' = Journal
    BY <1>2, <1>5 DEF Journal, Becomes
  <2>2. SubSeq(Journal, 1, committed + 1) = Journal
    BY <1>4, WholePrefix
  <2>3. QED
    BY <1>2, <2>1, <2>2 DEF Written
<1>7. SoundDisk(files') /\ files' \in [Generation -> File]
  BY <1>5 DEF Becomes, SoundDisk
<1>8. TypeOK'
  <2>1. entries' \in Seq(Key) /\ op.key \in Key
    BY <1>2, <1>3, EntriesAreDistinct, ApplyTyped, Lines
  <2>2. QED
    BY <1>2, <1>4, <1>7, <2>1 DEF StoreInv, TypeOK, Positions
<1>9. Control' /\ ~InDoubt'
  BY <1>1, <1>2, <1>3 DEF Control, InDoubt, Compacting
<1>10. JournalIsRead'
  BY <1>2, <1>4, <1>6, <1>9 DEF JournalIsRead, InDoubt
<1>11. NextIsFilled'
  BY <1>2 DEF NextIsFilled
<1>12. SoundDisk(files)'
  BY <1>7
<1>13. QED
  BY <1>2, <1>4, <1>5, <1>8, <1>9, <1>10, <1>11, <1>12 DEF StoreInv

LEMMA StoreSyncFails ==
  ASSUME StoreInv, SyncFails, env' = env
  PROVE  StoreInv'
<1>1. InDoubt /\ pc = "written" /\ ~failed /\ Journal = Append(Written, op)
  <2>1. pc = "written" /\ InDoubt
    BY DEF SyncFails, InDoubt
  <2>2. QED
    BY <2>1, DoubtFacts DEF StoreInv, Control, JournalIsRead
<1>2. /\ pc' = "failing" /\ faults < MaxFaults /\ faults' = faults + 1
      /\ opening' = opening /\ entries' = entries /\ generation' = generation
      /\ committed' = committed /\ failed' = failed /\ next' = next /\ op' = op
      /\ files' = files /\ kept' = kept /\ dropped' = dropped
  BY DEF SyncFails, memory, history, Fault
<1>3. TypeOK'
  <2>1. faults' \in 0..MaxFaults
    BY <1>2, StoreConstants DEF StoreInv, TypeOK
  <2>2. QED
    BY <1>2, <2>1 DEF StoreInv, TypeOK, Positions
<1>4. Control' /\ InDoubt'
  BY <1>1, <1>2 DEF StoreInv, Control, InDoubt, Compacting, Allowed
<1>5. JournalIsRead'
  BY <1>1, <1>2, <1>4 DEF StoreInv, JournalIsRead, Journal, Written
<1>6. NextIsFilled'
  BY <1>2 DEF NextIsFilled
<1>7. SoundDisk(files)'
  BY <1>2 DEF StoreInv
<1>8. QED
  BY <1>3, <1>4, <1>5, <1>6, <1>7 DEF StoreInv

LEMMA StoreRollBack ==
  ASSUME StoreInv, RollBack, env' = env
  PROVE  /\ StoreInv'
         /\ Becomes(files, files', generation, files[generation].named, Written, committed)
<1>1. InDoubt /\ pc = "failing" /\ ~failed
  BY DEF RollBack, InDoubt, StoreInv, Control
<1>2. /\ files' = [files EXCEPT ![generation].log = Written, ![generation].synced = committed]
      /\ op' = NoOp /\ pc' = "idle" /\ faults' = faults
      /\ opening' = opening /\ entries' = entries /\ generation' = generation
      /\ committed' = committed /\ failed' = failed /\ next' = next
      /\ kept' = kept /\ dropped' = dropped
  BY DEF RollBack, memory, history, NoFault, Written, Journal
<1>3. /\ generation # 0 /\ generation \in Generation /\ SoundDisk(files)
      /\ ~opening /\ next = 0
      /\ Written \in Seq(Line) /\ Len(Written) = committed
  BY <1>1, DoubtFacts
<1>4. Becomes(files, files', generation, files[generation].named, Written, committed)
  <2>1. Sound(Written) /\ committed \in 0..Len(Written)
    BY <1>3, JournalFacts, GoodIsSound
  <2> DEFINE l == Written
  <2>2. files' = [files EXCEPT ![generation].log = l, ![generation].synced = committed]
    BY <1>2
  <2>3. l \in Seq(Line) /\ Sound(l) /\ committed \in 0..Len(l)
    BY <1>3, <2>1
  <2> HIDE DEF l
  <2>4. Becomes(files, files', generation, files[generation].named, l, committed)
    BY <1>3, <2>2, <2>3, CutBecomes
  <2>5. QED
    BY <2>4 DEF l
<1>5. Journal' = Written /\ Written' = Written
  <2>1. SubSeq(Written, 1, committed) = Written
    BY <1>3, WholePrefix
  <2>2. QED
    BY <1>2, <1>4, <2>1 DEF Becomes, Journal, Written
<1>6. SoundDisk(files') /\ files' \in [Generation -> File]
  BY <1>4 DEF Becomes, SoundDisk
<1>7. TypeOK'
  BY <1>2, <1>6 DEF StoreInv, TypeOK, Positions
<1>8. Control' /\ ~InDoubt'
  BY <1>1, <1>2, <1>3 DEF Control, InDoubt, Compacting
<1>9. JournalIsRead'
  <2>1. Reading(Written)' = [good |-> TRUE, checkpointed |-> TRUE, queue |-> entries]
    BY <1>3, <1>5, JournalFacts
  <2>2. committed' <= Len(Journal)'
    <3>1. committed' = Len(Journal)' /\ committed' \in Nat
      BY <1>2, <1>3, <1>5 DEF StoreInv, TypeOK
    <3>2. QED
      BY <3>1
  <2>3. QED
    BY <1>2, <1>5, <1>8, <2>1, <2>2 DEF JournalIsRead, InDoubt
<1>10. NextIsFilled'
  BY <1>2 DEF NextIsFilled
<1>11. SoundDisk(files)'
  BY <1>6
<1>12. QED
  BY <1>4, <1>7, <1>8, <1>9, <1>10, <1>11 DEF StoreInv

LEMMA StoreRollBackFails ==
  ASSUME StoreInv, RollBackFails, env' = env
  PROVE  /\ StoreInv'
         /\ \E l \in {Written, Journal} :
              Becomes(files, files', generation, files[generation].named, l,
                      files[generation].synced)
<1>1. InDoubt /\ pc = "failing" /\ ~failed
  BY DEF RollBackFails, InDoubt, StoreInv, Control
<1>2. /\ \/ files' = files
         \/ files' = [files EXCEPT ![generation].log = Written]
      /\ failed' = TRUE /\ pc' = "idle" /\ faults < MaxFaults /\ faults' = faults + 1
      /\ opening' = opening /\ entries' = entries /\ generation' = generation
      /\ committed' = committed /\ next' = next /\ op' = op
      /\ kept' = kept /\ dropped' = dropped
  BY DEF RollBackFails, history, Fault, Written, Journal
<1>3. /\ generation # 0 /\ generation \in Generation /\ SoundDisk(files)
      /\ op \in Requests /\ Allowed(op) /\ ~opening /\ next = 0
      /\ Journal \in {Written, Append(Written, op), Append(Written, Torn)}
      /\ files[generation].synced <= committed /\ files[generation].synced \in Nat
      /\ Written \in Seq(Line) /\ Len(Written) = committed
  BY <1>1, DoubtFacts
<1> DEFINE n == files[generation].synced
           b == files[generation].named
<1>4. \E l \in {Written, Journal} :
        Becomes(files, files', generation, b, l, n)
  <2>1. CASE files' = files
    BY <1>3, <2>1, BecomesItself DEF Journal
  <2>2. CASE files' = [files EXCEPT ![generation].log = Written]
    <3>1. Sound(Written) /\ n <= Len(Written)
      BY <1>3, JournalFacts, GoodIsSound
    <3>2. Becomes(files, files', generation, b, Written, n)
      BY <1>3, <2>2, <3>1, LogBecomes
    <3>3. QED
      BY <3>2
  <2>3. QED
    BY <1>2, <2>1, <2>2
<1>5. PICK l \in {Written, Journal} :
        Becomes(files, files', generation, b, l, n)
  BY <1>4
<1>6. SoundDisk(files') /\ files' \in [Generation -> File]
  BY <1>5 DEF Becomes, SoundDisk
<1>7. TypeOK'
  <2>1. faults' \in 0..MaxFaults
    BY <1>2, StoreConstants DEF StoreInv, TypeOK
  <2>2. QED
    BY <1>2, <1>6, <2>1 DEF StoreInv, TypeOK, Positions
<1>8. Control' /\ InDoubt'
  BY <1>1, <1>2, <1>3 DEF Control, InDoubt, Compacting, Allowed
<1>9. JournalIsRead'
  <2> HIDE DEF b, n
  <2>1. n <= committed
    BY <1>3 DEF n
  <2>2. pc' = "written" => l = Append(Written, op)
    BY <1>2
  <2>3. QED
    BY <1>2, <1>3, <1>5, <1>8, <2>1, <2>2, DoubtRemains
<1>10. NextIsFilled'
  BY <1>2 DEF NextIsFilled
<1>11. SoundDisk(files)'
  BY <1>6
<1>12. QED
  BY <1>4, <1>7, <1>8, <1>9, <1>10, <1>11 DEF StoreInv

\* The store object is gone.
LEMMA StoreCloses ==
  ASSUME StoreInv, Closed, SoundDisk(files'), faults' \in 0..MaxFaults,
         kept' = kept, dropped' = dropped, env' = env
  PROVE  StoreInv'
<1>1. /\ pc' = "closed" /\ opening' = FALSE /\ entries' = <<>> /\ op' = NoOp
      /\ generation' = 0 /\ committed' = 0 /\ failed' = FALSE /\ next' = 0
  BY DEF Closed
<1>2. TypeOK'
  <2>1. files' \in [Generation -> File]
    BY DEF SoundDisk
  <2>2. entries' \in Seq(Key)
    BY <1>1
  <2>3. QED
    BY <1>1, <2>1, <2>2 DEF StoreInv, TypeOK, Positions
<1>3. Control'
  BY <1>1 DEF Control, InDoubt, Compacting
<1>4. JournalIsRead' /\ NextIsFilled'
  BY <1>1 DEF JournalIsRead, NextIsFilled
<1>5. SoundDisk(files)'
  OBVIOUS
<1>6. QED
  BY <1>2, <1>3, <1>4, <1>5 DEF StoreInv

\* Whatever the store does with its files but to append, nothing is in doubt.
LEMMA NoDoubt ==
  ASSUME StoreInv, pc \in {"compacting", "sweeping"} \cup Compacting
  PROVE  /\ ~InDoubt /\ op = NoOp /\ ~failed
         /\ generation # 0 => Journal = Written
         /\ ~opening => generation # 0
<1>1. ~InDoubt
  BY DEF StoreInv, Control, InDoubt, Compacting
<1>2. op = NoOp /\ ~failed
  BY <1>1 DEF StoreInv, Control, InDoubt
<1>3. generation # 0 => Journal = Written
  BY <1>1 DEF StoreInv, JournalIsRead, InDoubt
<1>4. ~opening => generation # 0
  BY DEF StoreInv, Control, Compacting
<1>5. QED
  BY <1>1, <1>2, <1>3, <1>4

\* The journal is as it was, and nothing is in doubt.
LEMMA JournalStays ==
  ASSUME StoreInv, ~InDoubt, ~InDoubt', generation' = generation, committed' = committed,
         entries' = entries, generation # 0 => files'[generation].log = Journal
  PROVE  JournalIsRead'
<1> SUFFICES ASSUME generation # 0
             PROVE  JournalIsRead'
  BY DEF JournalIsRead
<1>1. Journal' = Journal /\ Written' = Written /\ Journal = Written
  BY DEF StoreInv, JournalIsRead, Journal, Written, InDoubt
<1>2. QED
  BY <1>1 DEF StoreInv, JournalIsRead, InDoubt

LEMMA StoreGivesUp ==
  ASSUME StoreInv, pc \in {"compacting", "sweeping"} \cup Compacting, GiveUp,
         SoundDisk(files'), generation # 0 => files'[generation].log = Journal,
         faults' \in 0..MaxFaults, kept' = kept, dropped' = dropped, env' = env
  PROVE  StoreInv'
<1>1. ~InDoubt /\ op = NoOp /\ ~failed /\ (~opening => generation # 0)
  BY NoDoubt
<1>2. CASE opening
  BY <1>2, StoreCloses DEF GiveUp
<1>3. CASE ~opening
  <2>1. /\ pc' = "idle" /\ next' = 0 /\ op' = op /\ opening' = opening /\ entries' = entries
        /\ generation' = generation /\ committed' = committed /\ failed' = failed
    BY <1>3 DEF GiveUp, memory
  <2>2. files' \in [Generation -> File]
    BY DEF SoundDisk
  <2>3. TypeOK'
    BY <2>1, <2>2 DEF StoreInv, TypeOK, Positions
  <2>4. Control' /\ ~InDoubt'
    BY <1>1, <1>3, <2>1 DEF Control, InDoubt, Compacting
  <2>5. JournalIsRead'
    BY <1>1, <2>1, <2>4, JournalStays
  <2>6. NextIsFilled' /\ SoundDisk(files)'
    BY <2>1 DEF NextIsFilled
  <2>7. QED
    BY <2>3, <2>4, <2>5, <2>6 DEF StoreInv
<1>4. QED
  BY <1>2, <1>3

\* The generation to be made is a new one, above all others.
LEMMA NextGenerationIs ==
  ASSUME StoreInv
  PROVE  /\ \A h \in Named(files) \cup {generation} : h < NextGeneration
         /\ NextGeneration \in Nat /\ NextGeneration # 0
<1> DEFINE S == Named(files) \cup {generation}
<1>1. S \in SUBSET (Generation \cup {0}) /\ S # {}
  BY DEF StoreInv, TypeOK, Named
<1> HIDE DEF S
<1>2. Highest(S) \in S /\ \A h \in S : h <= Highest(S)
  BY <1>1, HighestIs
<1>3. S \subseteq Nat
  BY <1>1, GenerationsAreNumbers
<1> DEFINE m == Highest(S)
<1>4. m \in Nat /\ \A h \in S : h \in Nat /\ h <= m
  BY <1>2, <1>3
<1> HIDE DEF m
<1>5. m + 1 \in Nat /\ m + 1 # 0 /\ \A h \in S : h < m + 1
  BY <1>4
<1>6. QED
  BY <1>5 DEF NextGeneration, S, m

LEMMA FileNamed ==
  ASSUME NEW x, x = [named |-> x.named, log |-> x.log, synced |-> x.synced],
         NEW named \in BOOLEAN, NEW y, y = [x EXCEPT !.named = named]
  PROVE  y = FileOf(named, x.log, x.synced)
  BY DEF FileOf

LEMMA NewFile ==
  ASSUME NEW f, SoundDisk(f), NEW c \in Generation,
         NEW h, h = [f EXCEPT ![c] = [NoFile EXCEPT !.named = TRUE]]
  PROVE  Becomes(f, h, c, TRUE, <<>>, 0)
<1>1. <<>> \in Seq(Line) /\ 0 \in 0..Len(<<>>)
  OBVIOUS
<1>2. Reading(<<>>).good
  BY ReadingNothing DEF Unread
<1>3. Sound(<<>>)
  BY <1>1, <1>2, GoodIsSound
<1>4. [NoFile EXCEPT !.named = TRUE] = FileOf(TRUE, <<>>, 0)
  <2>1. /\ NoFile = [named |-> NoFile.named, log |-> NoFile.log, synced |-> NoFile.synced]
        /\ NoFile.log = <<>> /\ NoFile.synced = 0
    BY DEF NoFile
  <2>2. \A y : y = [NoFile EXCEPT !.named = TRUE] => y = FileOf(TRUE, NoFile.log, NoFile.synced)
    BY <2>1, FileNamed
  <2>3. QED
    BY <2>1, <2>2, Zenon
<1>5. h = [f EXCEPT ![c] = FileOf(TRUE, <<>>, 0)]
  BY <1>4
<1>6. QED
  BY <1>1, <1>3, <1>5, Replaced

LEMMA StoreCreateGeneration ==
  ASSUME StoreInv, CreateGeneration, env' = env
  PROVE  StoreInv'
<1> DEFINE c == NextGeneration
<1>1. /\ pc = "compacting" /\ c \in Generation /\ next' = c
      /\ files' = [files EXCEPT ![c] = [NoFile EXCEPT !.named = TRUE]]
      /\ pc' = "filling" /\ opening' = opening /\ entries' = entries
      /\ generation' = generation /\ committed' = committed /\ failed' = failed /\ op' = op
      /\ kept' = kept /\ dropped' = dropped /\ faults' = faults
  BY DEF CreateGeneration, memory, history, NoFault
<1>2. generation < c /\ c # 0
  BY NextGenerationIs
<1> HIDE DEF c
<1>3. ~InDoubt /\ op = NoOp /\ ~failed /\ (~opening => generation # 0) /\ SoundDisk(files)
  BY <1>1, NoDoubt DEF StoreInv
<1>4. Becomes(files, files', c, TRUE, <<>>, 0)
  BY <1>1, <1>3, NewFile
<1>5. files' \in [Generation -> File] /\ SoundDisk(files)'
  BY <1>4 DEF Becomes, SoundDisk
<1>6. TypeOK'
  BY <1>1, <1>5 DEF StoreInv, TypeOK, Positions
<1>7. Control' /\ ~InDoubt'
  BY <1>1, <1>2, <1>3 DEF StoreInv, Control, InDoubt, Compacting
<1>8. generation # 0 => files'[generation].log = Journal
  <2>1. generation \in Nat /\ c \in Nat /\ generation \in Generation \cup {0}
    BY <1>1, GenerationsAreNumbers DEF StoreInv, TypeOK
  <2>2. QED
    BY <1>2, <1>4, <2>1 DEF Becomes, Journal
<1>9. JournalIsRead'
  BY <1>1, <1>3, <1>7, <1>8, JournalStays
<1>10. NextIsFilled'
  BY <1>1, <1>4 DEF NextIsFilled, Becomes
<1>11. QED
  BY <1>5, <1>6, <1>7, <1>9, <1>10 DEF StoreInv

LEMMA FaultIs ==
  ASSUME StoreInv
  PROVE  /\ Fault => faults' \in 0..MaxFaults /\ faults' = faults + 1 /\ faults < MaxFaults
         /\ NoFault => faults' \in 0..MaxFaults /\ faults' = faults
  BY StoreConstants DEF StoreInv, TypeOK, Fault, NoFault

LEMMA StoreCreateGenerationFails ==
  ASSUME StoreInv, CreateGenerationFails \/ NoMoreGenerations, env' = env
  PROVE  StoreInv'
<1>1. /\ pc = "compacting" /\ GiveUp /\ files' = files /\ kept' = kept /\ dropped' = dropped
      /\ faults' \in 0..MaxFaults
  BY FaultIs DEF CreateGenerationFails, NoMoreGenerations, history
<1>2. SoundDisk(files')
  BY <1>1 DEF StoreInv
<1>3. generation # 0 => files'[generation].log = Journal
  BY <1>1 DEF Journal
<1>4. QED
  BY <1>1, <1>2, <1>3, StoreGivesUp

\* A part of a snapshot is not one.
LEMMA SnapshotCut ==
  ASSUME NEW q \in Seq(Key), Distinct(q), NEW n \in 0..Len(q), NEW tail \in {<<>>, <<Torn>>},
         NEW l, l = SubSeq(Snapshot(q), 1, n) \o tail
  PROVE  l \in Seq(Line) /\ Sound(l) /\ ~Parses(l)
<1> DEFINE p == SubSeq(Snapshot(q), 1, n)
<1>1. Snapshot(q) \in Seq(Line) /\ n \in 0..Len(Snapshot(q))
  BY SnapshotIs
<1>2. p \in Seq(Line)
  BY <1>1, Prefix
<1>3. Reading(p).good /\ ~Reading(p).checkpointed
  <2>1. Reading(p) = [good |-> TRUE, checkpointed |-> FALSE, queue |-> SubSeq(q, 1, n)]
    BY SnapshotPrefix
  <2>2. QED
    BY <2>1
<1> HIDE DEF p
<1>4. CASE tail = <<>>
  <2>1. l = p
    BY <1>2, <1>4 DEF p
  <2>2. Sound(p) /\ Parsed(p) = Reading(p)
    BY <1>2, <1>3, GoodIsSound
  <2>3. QED
    BY <1>2, <1>3, <2>1, <2>2 DEF Parses
<1>5. CASE tail = <<Torn>>
  <2>1. l = Append(p, Torn)
    BY <1>2, <1>5, Lines, AppendIsConcat DEF p
  <2>2. Append(p, Torn) \in Seq(Line) /\ Sound(Append(p, Torn)) /\ Parsed(Append(p, Torn)) = Reading(p)
    BY <1>2, <1>3, TornIsSound
  <2>3. QED
    BY <1>3, <2>1, <2>2 DEF Parses
<1>6. QED
  BY <1>4, <1>5

\* A whole one is.
LEMMA SnapshotWhole ==
  ASSUME NEW q \in Seq(Key), Distinct(q)
  PROVE  /\ Snapshot(q) \in Seq(Line) /\ Sound(Snapshot(q)) /\ Whole(Snapshot(q)) = Snapshot(q)
         /\ Parses(Snapshot(q)) /\ Parsed(Snapshot(q)).queue = q
         /\ Reading(Snapshot(q)) = [good |-> TRUE, checkpointed |-> TRUE, queue |-> q]
<1>1. Snapshot(q) \in Seq(Line)
  BY SnapshotIs
<1>2. Reading(Snapshot(q)) = [good |-> TRUE, checkpointed |-> TRUE, queue |-> q]
  BY SnapshotRead
<1>3. Reading(Snapshot(q)).good /\ Reading(Snapshot(q)).checkpointed
      /\ Reading(Snapshot(q)).queue = q
  BY <1>2
<1>4. Whole(Snapshot(q)) = Snapshot(q) /\ Sound(Snapshot(q))
      /\ Parsed(Snapshot(q)) = Reading(Snapshot(q))
  BY <1>1, <1>3, GoodIsSound
<1>5. QED
  BY <1>1, <1>2, <1>3, <1>4 DEF Parses

\* What filling a new generation makes of it.
LEMMA FillingFacts ==
  ASSUME StoreInv, pc \in {"filling", "filled"}
  PROVE  /\ next \in Generation /\ SoundDisk(files) /\ files[next].synced = 0
         /\ generation < next /\ generation # next
         /\ ~InDoubt /\ op = NoOp /\ ~failed /\ (~opening => generation # 0)
<1>1. next \in Generation /\ generation < next
  BY DEF StoreInv, TypeOK, Control, Compacting
<1>2. generation # next
  <2>1. generation \in Nat
    BY GenerationsAreNumbers DEF StoreInv, TypeOK
  <2>2. QED
    BY <1>1, <2>1
<1>3. files[next].synced = 0
  BY DEF StoreInv, NextIsFilled
<1>4. SoundDisk(files)
  BY DEF StoreInv
<1>5. ~InDoubt /\ op = NoOp /\ ~failed /\ (~opening => generation # 0)
  BY NoDoubt DEF Compacting
<1>6. QED
  BY <1>1, <1>2, <1>3, <1>4, <1>5

\* The file of the next generation is written, with success or not.
LEMMA StoreFills ==
  ASSUME StoreInv, pc = "filling", NEW l \in Seq(Line), Sound(l),
         files' = [files EXCEPT ![next].log = l],
         UNCHANGED memory, UNCHANGED history, op' = op, next' = next,
         faults' \in 0..MaxFaults, env' = env,
         (pc' = "filled" /\ l = Snapshot(entries)) \/ pc' = "abandoning"
  PROVE  StoreInv' /\ Becomes(files, files', next, files[next].named, l, 0)
<1>1. /\ next \in Generation /\ SoundDisk(files) /\ files[next].synced = 0
      /\ generation < next /\ generation # next
      /\ ~InDoubt /\ op = NoOp /\ ~failed /\ (~opening => generation # 0)
  BY FillingFacts
<1>2. Becomes(files, files', next, files[next].named, l, 0)
  <2>1. files[next].synced <= Len(l)
    BY <1>1
  <2>2. Becomes(files, files', next, files[next].named, l, files[next].synced)
    BY <1>1, <2>1, LogBecomes
  <2>3. QED
    BY <1>1, <2>2
<1>3. files' \in [Generation -> File] /\ SoundDisk(files)'
  BY <1>2 DEF Becomes, SoundDisk
<1>4. TypeOK'
  BY <1>3 DEF StoreInv, TypeOK, Positions, memory, history
<1>5. Control' /\ ~InDoubt'
  BY <1>1 DEF StoreInv, Control, InDoubt, Compacting, memory
<1>6. generation # 0 => files'[generation].log = Journal
  BY <1>1, <1>2 DEF Becomes, Journal, StoreInv, TypeOK
<1>7. JournalIsRead'
  BY <1>1, <1>5, <1>6, JournalStays DEF memory
<1>8. NextIsFilled'
  BY <1>2 DEF NextIsFilled, Becomes, memory
<1>9. QED
  BY <1>2, <1>3, <1>4, <1>5, <1>7, <1>8 DEF StoreInv

LEMMA StoreFillGeneration ==
  ASSUME StoreInv, FillGeneration, env' = env
  PROVE  StoreInv' /\ Becomes(files, files', next, files[next].named, Snapshot(entries), 0)
<1> DEFINE l == Snapshot(entries)
<1>1. l \in Seq(Line) /\ Sound(l)
  BY EntriesAreDistinct, SnapshotWhole
<1>2. /\ pc = "filling" /\ files' = [files EXCEPT ![next].log = l]
      /\ pc' = "filled" /\ UNCHANGED memory /\ UNCHANGED history /\ op' = op /\ next' = next
      /\ faults' \in 0..MaxFaults
  BY FaultIs DEF FillGeneration
<1>3. l = Snapshot(entries)
  OBVIOUS
<1> HIDE DEF l
<1>4. QED
  BY <1>1, <1>2, <1>3, StoreFills

LEMMA StoreFillGenerationFails ==
  ASSUME StoreInv, FillGenerationFails, env' = env
  PROVE  StoreInv' /\ \E l : ~Parses(l) /\ Becomes(files, files', next, files[next].named, l, 0)
<1>1. PICK n \in 0..Len(entries), tail \in {<<>>, <<Torn>>} :
        files' = [files EXCEPT ![next].log = SubSeq(Snapshot(entries), 1, n) \o tail]
  BY DEF FillGenerationFails
<1> DEFINE l == SubSeq(Snapshot(entries), 1, n) \o tail
<1>2. l \in Seq(Line) /\ Sound(l) /\ ~Parses(l)
  BY EntriesAreDistinct, SnapshotCut
<1>3. /\ pc = "filling" /\ files' = [files EXCEPT ![next].log = l]
      /\ pc' = "abandoning" /\ UNCHANGED memory /\ UNCHANGED history /\ op' = op /\ next' = next
      /\ faults' \in 0..MaxFaults
  BY <1>1, FaultIs DEF FillGenerationFails
<1> HIDE DEF l
<1>4. StoreInv' /\ Becomes(files, files', next, files[next].named, l, 0)
  BY <1>2, <1>3, StoreFills
<1>5. QED
  BY <1>2, <1>4

LEMMA StoreSwitchGeneration ==
  ASSUME StoreInv, SwitchGeneration, env' = env
  PROVE  /\ StoreInv'
         /\ Becomes(files, files', next, files[next].named, Snapshot(entries), Len(Snapshot(entries)))
<1> DEFINE l == Snapshot(entries)
<1>1. /\ pc = "filled" /\ files[next].log = l /\ generation' = next /\ committed' = Len(l)
      /\ files' = [files EXCEPT ![next].synced = Len(l)]
      /\ pc' = "sweeping" /\ opening' = opening /\ entries' = entries /\ failed' = failed
      /\ op' = op /\ next' = next /\ kept' = kept /\ dropped' = dropped /\ faults' = faults
  BY DEF SwitchGeneration, StoreInv, NextIsFilled, history, NoFault
<1>2. /\ next \in Generation /\ SoundDisk(files) /\ files[next].synced = 0
      /\ ~InDoubt /\ op = NoOp /\ ~failed
  BY <1>1, FillingFacts
<1>3. /\ l \in Seq(Line) /\ Sound(l)
      /\ Reading(l) = [good |-> TRUE, checkpointed |-> TRUE, queue |-> entries]
  BY EntriesAreDistinct, SnapshotWhole
<1> HIDE DEF l
<1>4. Becomes(files, files', next, files[next].named, l, Len(l))
  <2>1. Len(l) \in 0..Len(files[next].log)
    BY <1>1, <1>3
  <2>2. Becomes(files, files', next, files[next].named, files[next].log, Len(l))
    BY <1>1, <1>2, <2>1, SyncedBecomes
  <2>3. QED
    BY <1>1, <2>2
<1>5. files' \in [Generation -> File] /\ SoundDisk(files)'
  BY <1>4 DEF Becomes, SoundDisk
<1>6. TypeOK'
  <2>1. committed' \in Nat
    BY <1>1, <1>3
  <2>2. QED
    BY <1>1, <1>5, <2>1 DEF StoreInv, TypeOK, Positions
<1>7. Control' /\ ~InDoubt'
  BY <1>1, <1>2, GenerationsAreNumbers DEF Control, InDoubt, Compacting
<1>8. JournalIsRead'
  <2>1. SubSeq(l, 1, Len(l)) = l /\ Len(l) <= Len(l)
    BY <1>3, WholePrefix
  <2>2. Journal' = l /\ Written' = l
    BY <1>1, <1>4, <2>1 DEF Journal, Written, Becomes
  <2>3. QED
    BY <1>1, <1>3, <1>7, <2>1, <2>2 DEF JournalIsRead, InDoubt
<1>9. NextIsFilled'
  BY <1>1 DEF NextIsFilled
<1>10. QED
  BY <1>4, <1>5, <1>6, <1>7, <1>8, <1>9 DEF StoreInv, l

LEMMA StoreSwitchGenerationFails ==
  ASSUME StoreInv, SwitchGenerationFails, env' = env
  PROVE  StoreInv'
<1>1. /\ pc = "filled" /\ pc' = "abandoning" /\ UNCHANGED memory /\ UNCHANGED history
      /\ op' = op /\ next' = next /\ files' = files /\ faults' \in 0..MaxFaults
  BY FaultIs DEF SwitchGenerationFails, history, memory
<1>2. ~InDoubt /\ op = NoOp /\ ~failed /\ (~opening => generation # 0)
  BY <1>1, FillingFacts
<1>3. TypeOK'
  BY <1>1 DEF StoreInv, TypeOK, Positions, memory, history
<1>4. Control' /\ ~InDoubt'
  BY <1>1, <1>2 DEF StoreInv, Control, InDoubt, Compacting, memory
<1>5. JournalIsRead'
  BY <1>1, <1>2, <1>4, JournalStays DEF memory, Journal
<1>6. NextIsFilled' /\ SoundDisk(files)'
  BY <1>1 DEF NextIsFilled, StoreInv
<1>7. QED
  BY <1>3, <1>4, <1>5, <1>6 DEF StoreInv

LEMMA StoreAbandon ==
  ASSUME StoreInv, Abandon, env' = env
  PROVE  StoreInv'
<1>1. /\ pc = "abandoning" /\ GiveUp /\ kept' = kept /\ dropped' = dropped
      /\ faults' \in 0..MaxFaults
      /\ files' = [files EXCEPT ![next].named = FALSE] \/ files' = files
  BY FaultIs DEF Abandon, history
<1>2. next \in Generation /\ SoundDisk(files)
  BY <1>1 DEF StoreInv, TypeOK, Control, Compacting
<1>3. CASE files' = files
  BY <1>1, <1>3, StoreGivesUp DEF StoreInv, Journal, Compacting
<1>4. CASE files' = [files EXCEPT ![next].named = FALSE]
  <2>1. Becomes(files, files', next, FALSE, files[next].log, files[next].synced)
    BY <1>2, <1>4, NameBecomes
  <2>2. SoundDisk(files') /\ (generation # 0 => files'[generation].log = Journal)
    BY <2>1 DEF Becomes, Journal, StoreInv, TypeOK
  <2>3. QED
    BY <1>1, <2>2, StoreGivesUp DEF Compacting
<1>5. QED
  BY <1>1, <1>3, <1>4

\* What a sweep leaves of the files.
Swept(f, gone, h) ==
  h = [g \in Generation |-> [f[g] EXCEPT !.named = @ /\ g \notin gone]]

LEMMA SweptFiles ==
  ASSUME NEW f, SoundDisk(f), NEW gone, NEW h, Swept(f, gone, h)
  PROVE  SoundDisk(h) /\ \A g \in Generation :
           /\ h[g].named <=> f[g].named /\ g \notin gone
           /\ h[g].log = f[g].log /\ h[g].synced = f[g].synced
<1>1. ASSUME NEW g \in Generation
      PROVE  /\ h[g].named <=> f[g].named /\ g \notin gone
             /\ h[g].log = f[g].log /\ h[g].synced = f[g].synced
             /\ SoundFile(h[g])
  <2> DEFINE b == f[g].named /\ g \notin gone
             x == f[g]
  <2>1. /\ x = [named |-> x.named, log |-> x.log, synced |-> x.synced]
        /\ x.log \in Seq(Line) /\ Sound(x.log) /\ x.synced \in 0..Len(x.log)
    BY FileFacts DEF FileOf
  <2>2. b \in BOOLEAN
    OBVIOUS
  <2>3. h[g] = [x EXCEPT !.named = b]
    BY DEF Swept
  <2>4. h[g] = FileOf(b, x.log, x.synced)
    <3> HIDE DEF b, x
    <3>1. QED
      BY <2>1, <2>2, <2>3, FileNamed
  <2>5. SoundFile(h[g]) /\ h[g].named = b /\ h[g].log = x.log /\ h[g].synced = x.synced
    <3> HIDE DEF b, x
    <3>1. QED
      BY <2>1, <2>2, <2>4, FileOfIs
  <2>6. QED
    BY <2>5
<1>2. h = [g \in Generation |-> h[g]]
  BY DEF Swept
<1>3. h \in [Generation -> File]
  BY <1>1, <1>2 DEF SoundFile
<1>4. QED
  BY <1>1, <1>3 DEF SoundDisk

LEMMA StoreSweep ==
  ASSUME StoreInv, Sweep, env' = env
  PROVE  StoreInv'
<1>1. PICK gone \in SUBSET Inactive : Swept(files, gone, files')
  BY DEF Sweep, Swept
<1>2. /\ pc = "sweeping" /\ pc' = "idle" /\ opening' = FALSE /\ next' = 0
      /\ entries' = entries /\ generation' = generation /\ committed' = committed
      /\ failed' = failed /\ op' = op /\ kept' = kept /\ dropped' = dropped
      /\ faults' \in 0..MaxFaults
  BY FaultIs DEF Sweep, history
<1>3. /\ ~InDoubt /\ op = NoOp /\ ~failed /\ generation # 0 /\ SoundDisk(files)
  BY <1>2, NoDoubt DEF StoreInv, Control, Compacting
<1>4. SoundDisk(files') /\ \A g \in Generation : files'[g].log = files[g].log
  BY <1>1, <1>3, SweptFiles
<1>5. TypeOK'
  BY <1>2, <1>4 DEF StoreInv, TypeOK, Positions, SoundDisk
<1>6. Control' /\ ~InDoubt'
  BY <1>2, <1>3 DEF Control, InDoubt, Compacting
<1>7. generation # 0 => files'[generation].log = Journal
  BY <1>3, <1>4, JournalFacts DEF Journal
<1>8. JournalIsRead'
  BY <1>2, <1>3, <1>6, <1>7, JournalStays
<1>9. NextIsFilled' /\ SoundDisk(files)'
  BY <1>2, <1>4 DEF NextIsFilled
<1>10. QED
  BY <1>5, <1>6, <1>8, <1>9 DEF StoreInv

LEMMA StoreSweepFails ==
  ASSUME StoreInv, SweepFails, env' = env
  PROVE  StoreInv'
<1>1. /\ pc = "sweeping" /\ files' = files /\ kept' = kept /\ dropped' = dropped
      /\ faults' \in 0..MaxFaults
  BY FaultIs DEF SweepFails, history
<1>2. ~InDoubt /\ op = NoOp /\ ~failed /\ generation # 0 /\ SoundDisk(files)
  BY <1>1, NoDoubt DEF StoreInv, Control, Compacting
<1>3. CASE next = 0
  BY <1>1, <1>2, <1>3, StoreGivesUp DEF SweepFails, Journal
<1>4. CASE next # 0
  <2>1. /\ pc' = "abandoning" /\ UNCHANGED memory /\ op' = op /\ next' = next
    BY <1>4 DEF SweepFails
  <2>2. TypeOK'
    BY <1>1, <2>1 DEF StoreInv, TypeOK, Positions, memory
  <2>3. Control' /\ ~InDoubt'
    BY <1>1, <1>2, <1>4, <2>1 DEF StoreInv, Control, InDoubt, Compacting, memory
  <2>4. JournalIsRead'
    BY <1>1, <1>2, <2>1, <2>3, JournalStays DEF memory, Journal
  <2>5. NextIsFilled' /\ SoundDisk(files)'
    BY <1>1, <1>2, <2>1 DEF NextIsFilled
  <2>6. QED
    BY <2>2, <2>3, <2>4, <2>5 DEF StoreInv
<1>5. QED
  BY <1>3, <1>4

LEMMA StoreStop ==
  ASSUME StoreInv, Stop \/ LosePower, env' = env
  PROVE  StoreInv'
<1>1. /\ Closed /\ kept' = kept /\ dropped' = dropped /\ faults' \in 0..MaxFaults
      /\ files' = files \/ files' \in AfterPowerLoss(files)
  BY FaultIs DEF Stop, LosePower, history
<1>2. SoundDisk(files')
  BY <1>1, LossIsSound DEF StoreInv
<1>3. QED
  BY <1>1, <1>2, StoreCloses

LEMMA StoreStays == StoreInv /\ [Next]_vars => StoreInv'
<1> SUFFICES ASSUME StoreInv, [Next]_vars
             PROVE  StoreInv'
  OBVIOUS
<1>1. CASE UNCHANGED vars
  BY <1>1 DEF vars, memory, history, StoreInv, TypeOK, SoundDisk, Control, JournalIsRead,
              NextIsFilled, InDoubt, Journal, Written, Allowed
<1>2. CASE Next
  <2>1. Step /\ env' = env
    BY <1>2 DEF Next
  <2>2. ASSUME NEW r \in Requests, Write(r) \/ WriteFails(r)
        PROVE  StoreInv'
    BY <2>1, <2>2, StoreWrite, StoreWriteFails
  <2>3. CASE OpenEmpty \/ OpenNewest \/ Commit \/ SyncFails \/ RollBack \/ RollBackFails
    BY <2>1, <2>3, StoreOpenEmpty, StoreOpenNewest, StoreCommit, StoreSyncFails, StoreRollBack,
       StoreRollBackFails
  <2>4. CASE CreateGeneration \/ CreateGenerationFails \/ NoMoreGenerations
    BY <2>1, <2>4, StoreCreateGeneration, StoreCreateGenerationFails
  <2>5. CASE \/ FillGeneration \/ FillGenerationFails \/ SwitchGeneration \/ SwitchGenerationFails
             \/ Abandon
    BY <2>1, <2>5, StoreFillGeneration, StoreFillGenerationFails, StoreSwitchGeneration,
       StoreSwitchGenerationFails, StoreAbandon
  <2>6. CASE Sweep \/ SweepFails \/ Stop \/ LosePower
    BY <2>1, <2>6, StoreSweep, StoreSweepFails, StoreStop
  <2>7. QED
    BY <2>1, <2>2, <2>3, <2>4, <2>5, <2>6 DEF Step
<1>3. QED
  BY <1>1, <1>2

\* Whatever calls fail, what the store holds in memory is what its journal holds up to where
\* the next record is written (reliable-relay-outbox-store.ts:99-394).
THEOREM StoreIsConsistent == Spec => []StoreInv
<1>1. QED
  BY StoreInitially, StoreStays, PTL DEF Spec

\* The next record is written where the last committed one ends, behind no fragment, unless
\* the store refuses to write.
LEMMA AppendsInPlace == StoreInv => AppendsAfterCommitted
<1> SUFFICES ASSUME StoreInv, Usable
             PROVE  Len(Journal) = committed /\ Torn \notin ToSet(Journal)
  BY DEF AppendsAfterCommitted, Journal
<1>1. generation # 0 /\ Journal = Written
  BY UsableFacts
<1>2. Written \in Seq(Line) /\ Len(Written) = committed /\ Reading(Written).good
  BY <1>1, JournalFacts
<1>3. \A i \in 1..Len(Written) : Written[i] # Torn
  BY <1>2, GoodHasNoTorn
<1>4. QED
  BY <1>1, <1>2, <1>3 DEF ToSet

---------------------------------------------------------------------------
(* Where the journal is, if the store can rely on its directory             *)

Sure == StoreInv /\ Dependable /\ FewFaults /\ PlaceInv

LEMMA OthersKept ==
  ASSUME NEW f, NEW h, NEW c, NEW b, NEW l, NEW n, Becomes(f, h, c, b, l, n)
  PROVE  \A g \in Generation : g # c =>
           /\ h[g] = f[g]
           /\ g \in Candidates(h) <=> g \in Candidates(f)
           /\ g \in Named(h) <=> g \in Named(f)
  BY DEF Becomes, Candidates, Named

\* Only what is older than a generation matters to what covers for it.
LEMMA CoveredStays ==
  ASSUME NEW f, NEW h, NEW a \in Generation, \A g \in Generation : g < a => h[g] = f[g],
         Firm(f[a]) => Firm(h[a]), Covered(f, a)
  PROVE  Covered(h, a)
<1>1. Older(h, a) = Older(f, a)
  BY DEF Older, Named
<1>2. CASE Firm(f[a]) \/ Older(f, a) = {}
  BY <1>1, <1>2 DEF Covered
<1>3. CASE Older(f, a) # {} /\ Highest(Older(f, a)) \in Candidates(f)
           /\ Entire(f[Highest(Older(f, a))])
  <2> DEFINE p == Highest(Older(f, a))
  <2>1. Older(f, a) \in SUBSET (Generation \cup {0})
    BY DEF Older, Named
  <2>2. p \in Older(f, a)
    BY <1>3, <2>1, HighestIs
  <2>3. p \in Generation /\ h[p] = f[p]
    BY <2>2 DEF Older, Named
  <2>4. p \in Candidates(h) /\ Entire(h[p])
    BY <1>3, <2>3, CandidatesAre
  <2>5. QED
    BY <1>1, <2>4 DEF Covered
<1>4. QED
  BY <1>2, <1>3 DEF Covered

LEMMA FirmIs ==
  ASSUME NEW x, NEW l \in Seq(Line), NEW n \in 0..Len(l), x.named, x.log = l, x.synced = n,
         Reading(SubSeq(l, 1, n)).checkpointed
  PROVE  Firm(x)
  BY DEF Firm

\* The journal can be loaded.
LEMMA JournalIsCandidate ==
  ASSUME StoreInv, generation # 0, NEW x, x.named, NEW r \in Requests, Allowed(r),
         x.log \in {Written, Append(Written, r), Append(Written, Torn)}
  PROVE  /\ Candidate(x)
         /\ Held(x) = IF x.log = Append(Written, r) THEN Apply(entries, r) ELSE entries
<1>1. /\ Whole(x.log) = IF x.log = Append(Written, r) THEN Append(Written, r) ELSE Written
  BY DoubtfulIs
<1>2. /\ Written \in Seq(Line) /\ Reading(Written).good /\ Reading(Written).checkpointed
      /\ Reading(Written).queue = entries
      /\ Reading(Written) = [good |-> TRUE, checkpointed |-> TRUE, queue |-> entries]
  BY JournalFacts
<1>3. Reading(Append(Written, r)) = [good |-> TRUE, checkpointed |-> TRUE, queue |-> Apply(entries, r)]
  BY <1>2, AppendedIs DEF Allowed
<1>4. /\ Reading(Append(Written, r)).good /\ Reading(Append(Written, r)).checkpointed
      /\ Reading(Append(Written, r)).queue = Apply(entries, r)
  BY <1>3
<1>5. QED
  BY <1>1, <1>2, <1>4 DEF Candidate, Held, Parses, Parsed

LEMMA WrittenIsCandidate ==
  ASSUME StoreInv, generation # 0, NEW x, x.named, x.log = Written
  PROVE  Candidate(x) /\ Held(x) = entries
<1>1. /\ Written \in Seq(Line) /\ Reading(Written).good /\ Reading(Written).checkpointed
      /\ Reading(Written).queue = entries
  BY JournalFacts
<1>2. Whole(Written) = Written
  BY <1>1, GoodIsSound
<1>3. QED
  BY <1>1, <1>2 DEF Candidate, Held, Parses, Parsed

\* What a start would find while a store is open.
LEMMA FoundIs ==
  ASSUME Sure, pc # "closed"
  PROVE  /\ generation # 0 => generation \in Candidates(files)
         /\ ~InDoubt => Recovered(files) = entries
         /\ InDoubt => /\ \A h \in Candidates(files) : h <= generation
                       /\ Recovered(files) =
                            IF Journal = Append(Written, op) THEN Apply(entries, op) ELSE entries
<1>1. StoreInv /\ NextIsHighest /\ GenerationIsNewest /\ FirstIsAlone
  BY DEF Sure, PlaceInv
<1>2. ASSUME generation # 0
      PROVE  /\ generation \in Candidates(files) /\ files[generation].named
             /\ generation \in Generation
  <2>1. generation \in Generation /\ files[generation].named
    BY <1>1, <1>2 DEF GenerationIsNewest, Named
  <2>2. Candidate(files[generation])
    <3>1. CASE InDoubt
      BY <1>1, <1>2, <2>1, <3>1, DoubtFacts, JournalIsCandidate DEF Journal
    <3>2. CASE ~InDoubt
      <4>1. Journal = Written
        BY <1>1, <1>2, <3>2 DEF StoreInv, JournalIsRead, InDoubt
      <4>2. QED
        BY <1>1, <1>2, <2>1, <4>1, WrittenIsCandidate DEF Journal
    <3>3. QED
      BY <3>1, <3>2
  <2>3. QED
    BY <2>1, <2>2, CandidatesAre
<1>3. ASSUME next \in Candidates(files), next # generation
      PROVE  ~InDoubt /\ Recovered(files) = entries
  <2>1. next # 0
    BY <1>3, GenerationsAreNumbers, CandidatesAre
  <2>2. pc \in Compacting
    BY <1>1, <1>3, <2>1 DEF StoreInv, TypeOK, Control, Positions, Compacting
  <2>3. ~InDoubt
    BY <1>1, <2>2, NoDoubt
  <2>4. files[next].log = Snapshot(entries) /\ \A h \in Candidates(files) : h <= next
    BY <1>1, <1>3, <2>2 DEF NextIsHighest, Candidates
  <2>5. Recovered(files) = Held(files[next])
    BY <1>3, <2>4, RecoveredAt
  <2>6. Held(files[next]) = entries
    BY <1>1, <2>4, EntriesAreDistinct, SnapshotWhole DEF Held
  <2>7. QED
    BY <2>3, <2>5, <2>6
<1>4. ASSUME ~(next \in Candidates(files) /\ next # generation), generation # 0
      PROVE  /\ \A h \in Candidates(files) : h <= generation
             /\ Recovered(files) = Held(files[generation])
  <2>1. \A h \in Candidates(files) : h <= generation
    <3>1. generation \in Nat
      BY <1>2, <1>4, GenerationsAreNumbers
    <3>2. QED
      <4>1. ASSUME NEW h \in Candidates(files)
            PROVE  h <= generation
        <5>1. h <= generation \/ h = next
          BY <1>1, <1>4 DEF GenerationIsNewest
        <5>2. QED
          BY <1>4, <3>1, <5>1
      <4>2. QED
        BY <4>1
  <2>2. QED
    BY <1>2, <1>4, <2>1, RecoveredAt
<1>5. CASE next \in Candidates(files) /\ next # generation
  BY <1>2, <1>3, <1>5
<1>6. CASE ~(next \in Candidates(files) /\ next # generation) /\ generation # 0
  <2>1. CASE InDoubt
    BY <1>1, <1>2, <1>4, <1>6, <2>1, DoubtFacts, JournalIsCandidate DEF Journal
  <2>2. CASE ~InDoubt
    <3>1. Journal = Written
      BY <1>1, <1>6, <2>2 DEF StoreInv, JournalIsRead, InDoubt
    <3>2. QED
      BY <1>1, <1>2, <1>4, <1>6, <2>2, <3>1, WrittenIsCandidate DEF Journal
  <2>3. QED
    BY <2>1, <2>2
<1>7. CASE ~(next \in Candidates(files) /\ next # generation) /\ generation = 0
  <2>1. opening /\ entries = <<>> /\ ~InDoubt
    BY <1>1, <1>7 DEF StoreInv, Control, InDoubt, Compacting
  <2>2. next \notin Candidates(files) /\ Named(files) \subseteq {next}
    BY <1>1, <1>7, <2>1, GenerationsAreNumbers, CandidatesAre DEF FirstIsAlone
  <2>3. Candidates(files) = {}
    BY <2>2 DEF Candidates
  <2>4. QED
    BY <1>7, <2>1, <2>3 DEF Recovered
<1>8. QED
  BY <1>5, <1>6, <1>7

\* The same after a step.
IsFound ==
  /\ generation # 0 => generation \in Candidates(files)
  /\ ~InDoubt => Recovered(files) = entries
  /\ InDoubt => /\ \A h \in Candidates(files) : h <= generation
                /\ Recovered(files) =
                     IF Journal = Append(Written, op) THEN Apply(entries, op) ELSE entries

LEMMA FoundInside == Sure /\ pc # "closed" => IsFound
<1> SUFFICES ASSUME Sure, pc # "closed"
             PROVE  IsFound
  OBVIOUS
<1>1. QED
  BY FoundIs DEF IsFound

LEMMA FoundNext == Sure' /\ (pc # "closed")' => IsFound'
<1>1. Sure /\ pc # "closed" => IsFound
  BY FoundInside
<1>2. QED
  BY <1>1, PTL

LEMMA SureParts ==
  ASSUME Sure
  PROVE  /\ StoreInv /\ Dependable /\ FewFaults /\ NextIsHighest /\ GenerationIsNewest
         /\ FirstIsAlone /\ Fallback /\ StraysCost /\ SoundDisk(files) /\ Control
         /\ generation \in Nat /\ next \in Nat /\ faults \in 0..MaxFaults /\ MaxFaults \in Nat
         /\ generation \in Generation \cup {0} /\ next \in Generation \cup {0}
         /\ Named(files) \subseteq Generation /\ Named(files) \subseteq Nat
         /\ pc \in Positions /\ opening \in BOOLEAN
<1>1. StoreInv /\ Dependable /\ FewFaults /\ PlaceInv
  BY DEF Sure
<1>2. generation \in Generation \cup {0} /\ next \in Generation \cup {0} /\ faults \in 0..MaxFaults
      /\ pc \in Positions /\ opening \in BOOLEAN
  BY <1>1 DEF StoreInv, TypeOK
<1>3. Named(files) \subseteq Generation
  BY DEF Named
<1>4. generation \in Nat /\ next \in Nat /\ Named(files) \subseteq Nat /\ MaxFaults \in Nat
  <2>1. Generation \subseteq Nat /\ MaxFaults \in Nat
    BY GenerationsAreNumbers, StoreConstants
  <2>2. Named(files) \subseteq Nat
    BY <1>3, <2>1
  <2>3. QED
    BY <1>2, <2>1, <2>2
<1>5. NextIsHighest /\ GenerationIsNewest /\ FirstIsAlone /\ Fallback /\ StraysCost
  BY <1>1 DEF PlaceInv
<1>6. SoundDisk(files) /\ Control
  BY <1>1 DEF StoreInv
<1>7. QED
  BY <1>1, <1>2, <1>3, <1>4, <1>5, <1>6

\* The newest generation is the journal or, while it is made, the next one.
LEMMA TopIs ==
  ASSUME Sure, pc # "closed", generation # 0
  PROVE  /\ generation \in Candidates(files) /\ generation \in Generation
         /\ \/ next \in Candidates(files) /\ pc \in Compacting /\ Highest(Candidates(files)) = next
            \/ /\ Highest(Candidates(files)) = generation
               /\ \A h \in Candidates(files) : h <= generation
<1>1. generation \in Candidates(files) /\ generation \in Generation
  BY FoundIs, CandidatesAre
<1>2. CASE next \in Candidates(files) /\ next # generation
  <2>1. next # 0
    BY <1>2, GenerationsAreNumbers, CandidatesAre
  <2>2. pc \in Compacting
    BY <1>2, <2>1, SureParts DEF Control, Positions, Compacting
  <2>3. \A h \in Candidates(files) : h <= next
    BY <2>2, SureParts DEF NextIsHighest, Candidates
  <2>4. QED
    BY <1>1, <1>2, <2>2, <2>3, RecoveredAt
<1>3. CASE ~(next \in Candidates(files) /\ next # generation)
  <2>1. ASSUME NEW h \in Candidates(files)
        PROVE  h <= generation
    <3>1. h <= generation \/ h = next
      BY SureParts DEF GenerationIsNewest
    <3>2. QED
      BY <1>3, <3>1, SureParts
  <2>2. Highest(Candidates(files)) = generation
    BY <1>1, <2>1, RecoveredAt
  <2>3. QED
    BY <1>1, <2>1, <2>2
<1>4. QED
  BY <1>2, <1>3

LEMMA EntireIsFirm ==
  ASSUME NEW x, SoundFile(x), Entire(x), Candidate(x)
  PROVE  Firm(x)
<1>1. x.log \in Seq(Line) /\ Whole(x.log) \in Seq(Line) /\ Reading(Whole(x.log)).checkpointed
      /\ (x.log = Whole(x.log) \/ x.log = Append(Whole(x.log), Torn)) /\ x.named
  BY FileFields, SoundIs DEF Candidate, Parses, Parsed
<1> DEFINE w == Whole(x.log)
<1>2. Reading(x.log).checkpointed
  <2>1. CASE x.log = w
    BY <1>1, <2>1
  <2>2. CASE x.log = Append(w, Torn)
    <3>1. Reading(Append(w, Torn)) = ReadLine(Reading(w), Torn)
      BY <1>1, Lines, ReadingAppended
    <3>2. \A so : so.checkpointed => ReadLine(so, Torn).checkpointed
      BY DEF ReadLine
    <3>3. QED
      BY <1>1, <2>2, <3>1, <3>2
  <2>3. QED
    BY <1>1, <2>1, <2>2
<1>3. SubSeq(x.log, 1, x.synced) = x.log
  BY <1>1, WholePrefix DEF Entire
<1>4. QED
  BY <1>1, <1>2, <1>3 DEF Firm

\* An operation on the journal leaves the directory as it is.
LEMMA JournalPlace ==
  ASSUME Sure, generation # 0, pc \in {"idle", "written", "failing"},
         NEW b, b = files[generation].named, NEW l, NEW n,
         Becomes(files, files', generation, b, l, n),
         generation' = generation, next' = next, opening' = opening, env' = env,
         pc' \in {"idle", "written", "failing", "compacting"},
         pc' = "compacting" => n = committed', faults' >= faults, faults' \in Nat,
         Firm(files[generation]) => Firm(files'[generation])
  PROVE  PlaceInv'
<1>1. next = 0 /\ ~opening /\ generation \in Generation
  BY SureParts DEF Control, Compacting
<1>2. Named(files') = Named(files)
  BY OthersKept DEF Named, Becomes
<1>3. NextIsHighest' /\ FirstIsAlone'
  BY <1>1 DEF NextIsHighest, FirstIsAlone, Compacting
<1>4. GenerationIsNewest'
  <2>1. generation \in Named(files')
    BY <1>2, SureParts DEF GenerationIsNewest
  <2>2. \A h \in Candidates(files') : h <= generation \/ h = next
    <3> SUFFICES ASSUME NEW h \in Candidates(files')
                 PROVE  h <= generation \/ h = next
      OBVIOUS
    <3>1. CASE h = generation
      BY <3>1, SureParts
    <3>2. CASE h # generation
      <4>1. h \in Candidates(files)
        BY <3>2, OthersKept, CandidatesAre
      <4>2. QED
        BY <4>1, SureParts DEF GenerationIsNewest
    <3>3. QED
      BY <3>1, <3>2
  <2>3. pc' \in {"compacting"} \cup Compacting => files'[generation].synced = committed'
    BY DEF Becomes, Compacting
  <2>4. QED
    BY <2>1, <2>2, <2>3 DEF GenerationIsNewest
<1>5. Fallback'
  <2>1. ASSUME env.power
        PROVE  Covered(files', generation)
    <3>1. Covered(files, generation)
      BY <2>1, SureParts DEF Fallback
    <3>2. \A g \in Generation : g < generation => files'[g] = files[g]
      BY OthersKept, SureParts
    <3>3. QED
      BY <1>1, <3>1, <3>2, CoveredStays
  <2>2. QED
    BY <2>1 DEF Fallback
<1>6. StraysCost'
  <2>1. Stray(generation)' => Stray(generation)
    BY <1>1, <1>2 DEF Stray
  <2>2. Stray(generation) => faults >= 2 /\ "sweep" \in env.calls
    BY SureParts DEF StraysCost
  <2>3. faults >= 2 => faults' >= 2
    BY SureParts
  <2>4. QED
    BY <2>1, <2>2, <2>3 DEF StraysCost
<1>7. QED
  BY <1>3, <1>4, <1>5, <1>6 DEF PlaceInv

\* TopIs, after a step.
IsTop ==
  generation # 0 =>
    /\ generation \in Candidates(files) /\ generation \in Generation
    /\ \/ next \in Candidates(files) /\ pc \in Compacting /\ Highest(Candidates(files)) = next
       \/ /\ Highest(Candidates(files)) = generation
          /\ \A h \in Candidates(files) : h <= generation

LEMMA TopNext == Sure' /\ (pc # "closed")' => IsTop'
<1>1. Sure /\ pc # "closed" => IsTop
  <2> SUFFICES ASSUME Sure, pc # "closed", generation # 0
               PROVE  IsTop
    BY DEF IsTop
  <2>1. QED
    BY TopIs DEF IsTop
<1>2. QED
  BY <1>1, PTL

LEMMA SureNext ==
  ASSUME Sure, StoreInv', PlaceInv', env' = env
  PROVE  Sure'
  BY DEF Sure, Dependable, FewFaults

LEMMA AppendsDiffer ==
  ASSUME NEW l \in Seq(Line), NEW r \in Requests
  PROVE  l # Append(l, r) /\ Append(l, Torn) # Append(l, r)
<1>1. /\ Len(Append(l, r)) = Len(l) + 1 /\ Len(l) \in Nat
      /\ Append(l, r)[Len(l) + 1] = r
      /\ Append(l, Torn)[Len(l) + 1] = Torn
  BY Lines, AppendProperties
<1>2. r # Torn
  BY Lines
<1>3. QED
  BY <1>1, <1>2

\* An append that is in doubt leaves what is durable of the journal.
LEMMA FirmKept ==
  ASSUME StoreInv, generation # 0, NEW r \in Requests, Allowed(r), NEW x, NEW y, Firm(x),
         x.log \in {Written, Append(Written, r), Append(Written, Torn)},
         y.log \in {Written, Append(Written, r), Append(Written, Torn)},
         y.named = x.named, y.synced = x.synced, x.synced \in Nat, x.synced <= committed
  PROVE  Firm(y)
<1>1. ASSUME NEW l \in {Written, Append(Written, r), Append(Written, Torn)}
      PROVE  SubSeq(l, 1, x.synced) = SubSeq(Written, 1, x.synced)
  <2>1. l \in Seq(Line) /\ committed \in 0..Len(l) /\ SubSeq(l, 1, committed) = Written
    BY DoubtfulIs
  <2>2. x.synced \in 0..committed
    BY <2>1
  <2>3. QED
    BY <2>1, <2>2, PrefixOfPrefix
<1>2. SubSeq(y.log, 1, y.synced) = SubSeq(x.log, 1, x.synced)
  BY <1>1
<1>3. QED
  BY <1>2 DEF Firm

LEMMA PlaceWrite ==
  ASSUME Sure, NEW r \in Requests, Write(r), env' = env
  PROVE  /\ Sure' /\ Recovered(files') = Apply(entries, r)
         /\ Survivors(files') \subseteq Survivors(files) \cup {Recovered(files')}
<1> DEFINE l == Append(Written, r)
           n == files[generation].synced
           b == files[generation].named
<1>1. /\ pc = "idle" /\ ~failed /\ ~opening /\ generation # 0 /\ Journal = Written
      /\ next = 0 /\ ~InDoubt /\ StoreInv /\ generation \in Generation /\ SoundDisk(files)
  BY SureParts, UsableFacts DEF Write, Requested
<1>2. /\ pc' = "written" /\ op' = r /\ Allowed(r) /\ faults' = faults
      /\ opening' = opening /\ entries' = entries /\ generation' = generation
      /\ committed' = committed /\ next' = next
  BY DEF Write, Requested, memory, NoFault
<1>3. StoreInv' /\ Becomes(files, files', generation, b, l, n)
  BY <1>1, StoreWrite
<1>4. /\ Written \in Seq(Line) /\ Len(Written) = committed /\ n \in 0..committed
      /\ Whole(Written) = Written /\ b
  <2>1. Written \in Seq(Line) /\ Len(Written) = committed /\ Reading(Written).good
    BY <1>1, JournalFacts
  <2>2. n \in 0..Len(Journal)
    BY <1>1, FileFacts DEF Journal
  <2>3. b
    BY <1>1, SureParts DEF GenerationIsNewest, Named
  <2>4. QED
    BY <1>1, <2>1, <2>2, <2>3, GoodIsSound
<1>5. Sure'
  <2>1. Firm(files[generation]) => Firm(files'[generation])
    <3>1. files[generation].log = Written /\ files'[generation].log = l
      BY <1>1, <1>3 DEF Journal, Becomes
    <3>2. files'[generation].named = b /\ files'[generation].synced = n
      BY <1>3 DEF Becomes
    <3>3. n \in Nat /\ n <= committed
      BY <1>4
    <3>4. QED
      BY <1>1, <1>2, <3>1, <3>2, <3>3, FirmKept
  <2>2. faults' >= faults /\ faults' \in Nat
    BY <1>2, SureParts
  <2>3. PlaceInv'
    <3> HIDE DEF l, n, b
    <3>1. b = files[generation].named
      BY DEF b
    <3>2. QED
      BY <1>1, <1>2, <1>3, <2>1, <2>2, <3>1, JournalPlace
  <2>4. QED
    BY <1>3, <2>3, SureNext
<1>6. /\ Recovered(files') = Apply(entries, r)
      /\ \A h \in Candidates(files') : h <= generation
  <2>1. IsFound'
    BY <1>2, <1>5, FoundNext
  <2>2. InDoubt'
    BY <1>2 DEF InDoubt
  <2>3. (Journal = Append(Written, op))'
    BY <1>1, <1>2, <1>3 DEF StoreInv, JournalIsRead
  <2>4. QED
    BY <1>2, <2>1, <2>2, <2>3 DEF IsFound
<1>7. Survivors(files') \subseteq Survivors(files) \cup {Recovered(files')}
  <2>1. SoundFile(files[generation]) /\ SoundFile(files'[generation]) /\ SoundDisk(files')
    BY <1>1, <1>3, FileFacts DEF Becomes
  <2>2. \A y \in Leaves(files'[generation]) :
          \/ \E x \in Leaves(files[generation]) : Same(y, x)
          \/ Candidate(y) /\ Held(y) = Recovered(files')
    <3> SUFFICES ASSUME NEW y \in Leaves(files'[generation])
                 PROVE  \/ \E x \in Leaves(files[generation]) : Same(y, x)
                        \/ Candidate(y) /\ Held(y) = Recovered(files')
      OBVIOUS
    <3>1. files'[generation].log = l /\ files'[generation].synced = n
          /\ files'[generation].named = b /\ files[generation].log = Written
      BY <1>1, <1>3 DEF Becomes, Journal
    <3>2. Whole(l) = l /\ l \in Seq(Line) /\ Len(l) = committed + 1 /\ committed \in Nat
      <4>1. Whole(l) = l /\ l \in Seq(Line)
        BY <1>1, <1>2, DoubtfulIs
      <4>2. QED
        BY <1>4, <4>1, Lines, AppendProperties
    <3>3. /\ y.named = b
          /\ \E k \in 0..Len(l) : Whole(y.log) = SubSeq(l, 1, k) /\ (n <= k \/ k = Len(l))
      <4> DEFINE x == files'[generation]
      <4>1. SoundFile(x) /\ Whole(x.log) = l /\ x.synced = n /\ x.named = b /\ y \in Leaves(x)
        BY <2>1, <3>1, <3>2
      <4> HIDE DEF x
      <4>2. /\ y.named = x.named
            /\ \E k \in 0..Len(Whole(x.log)) : /\ Whole(y.log) = SubSeq(Whole(x.log), 1, k)
                                               /\ x.synced <= k \/ k = Len(Whole(x.log))
        BY <4>1, LeavesAre
      <4>3. QED
        BY <4>1, <4>2
    <3>4. PICK k \in 0..Len(l) : Whole(y.log) = SubSeq(l, 1, k) /\ (n <= k \/ k = Len(l))
      BY <3>3
    <3>5. CASE k = Len(l)
      <4>1. Whole(y.log) = l
        BY <3>2, <3>4, <3>5, WholePrefix
      <4>2. Candidate(files'[generation]) /\ Held(files'[generation]) = Apply(entries, r)
        BY <1>1, <1>2, <1>4, <3>1, JournalIsCandidate
      <4>3. Same(y, files'[generation])
        BY <3>1, <3>2, <3>3, <4>1, SameText
      <4>4. QED
        BY <1>6, <4>2, <4>3 DEF Same
    <3>6. CASE k # Len(l)
      <4>1. k \in 0..Len(Written) /\ n <= k
        BY <1>4, <3>2, <3>4, <3>6
      <4>2. SubSeq(l, 1, k) = SubSeq(Written, 1, k)
        BY <1>4, <4>1, Lines, PrefixOfAppend
      <4>3. Whole(files[generation].log) = Written
        BY <1>4, <3>1
      <4>4. PICK x \in Leaves(files[generation]) :
              x.named = b /\ Whole(x.log) = SubSeq(Written, 1, k)
        BY <2>1, <4>1, <4>3, LeafFor
      <4>5. Same(y, x)
        BY <3>3, <3>4, <4>2, <4>4, SameText
      <4>6. QED
        BY <4>5
    <3>7. QED
      BY <3>5, <3>6
  <2>3. \A g \in Generation : g # generation => files'[g] = files[g]
    BY <1>3 DEF Becomes
  <2>4. QED
    BY <1>1, <1>6, <2>1, <2>2, <2>3, OneStores
<1>8. QED
  BY <1>5, <1>6, <1>7

LEMMA PlaceWriteFails ==
  ASSUME Sure, NEW r \in Requests, WriteFails(r), env' = env
  PROVE  /\ Sure' /\ Recovered(files') = entries
         /\ Survivors(files') \subseteq Survivors(files) \cup {Recovered(files')}
<1> DEFINE n == files[generation].synced
           b == files[generation].named
<1>1. /\ pc = "idle" /\ ~failed /\ ~opening /\ generation # 0 /\ Journal = Written
      /\ next = 0 /\ ~InDoubt /\ StoreInv /\ generation \in Generation /\ SoundDisk(files)
  BY SureParts, UsableFacts DEF WriteFails, Requested
<1>2. /\ pc' = "failing" /\ op' = r /\ Allowed(r) /\ faults' = faults + 1
      /\ opening' = opening /\ entries' = entries /\ generation' = generation
      /\ committed' = committed /\ next' = next
  BY DEF WriteFails, Requested, memory, Fault
<1>3. PICK l \in {Written, Append(Written, Torn)} :
        StoreInv' /\ Becomes(files, files', generation, b, l, n)
  BY <1>1, StoreWriteFails
<1>4. /\ Written \in Seq(Line) /\ Len(Written) = committed /\ n \in 0..committed
      /\ Whole(Written) = Written
  <2>1. Written \in Seq(Line) /\ Len(Written) = committed /\ Reading(Written).good
    BY <1>1, JournalFacts
  <2>2. n \in 0..Len(Journal)
    BY <1>1, FileFacts DEF Journal
  <2>3. QED
    BY <1>1, <2>1, <2>2, GoodIsSound
<1>5. /\ files[generation].log = Written /\ files'[generation].log = l
      /\ files'[generation].named = b /\ files'[generation].synced = n
  BY <1>1, <1>3 DEF Journal, Becomes
<1>6. Sure'
  <2>1. Firm(files[generation]) => Firm(files'[generation])
    <3>1. n \in Nat /\ n <= committed
      BY <1>4
    <3>2. QED
      BY <1>1, <1>2, <1>5, <3>1, FirmKept
  <2>2. faults' >= faults /\ faults' \in Nat
    BY <1>2, SureParts
  <2>3. PlaceInv'
    <3> HIDE DEF n, b
    <3>1. b = files[generation].named
      BY DEF b
    <3>2. QED
      BY <1>1, <1>2, <1>3, <2>1, <2>2, <3>1, JournalPlace
  <2>4. QED
    BY <1>3, <2>3, SureNext
<1>7. Recovered(files') = entries
  <2>1. IsFound'
    BY <1>2, <1>6, FoundNext
  <2>2. InDoubt'
    BY <1>2 DEF InDoubt
  <2>3. Journal' = l /\ Written' = Written
    <3>1. Journal' = l
      BY <1>2, <1>5 DEF Journal
    <3>2. SubSeq(l, 1, committed) = Written
      BY <1>1, <1>2, DoubtfulIs
    <3>3. QED
      BY <1>2, <3>1, <3>2 DEF Written
  <2>4. Journal' # Append(Written', op')
    BY <1>2, <1>4, <2>3, AppendsDiffer
  <2>5. QED
    BY <1>2, <2>1, <2>2, <2>4 DEF IsFound
<1>8. Survivors(files') \subseteq Survivors(files) \cup {Recovered(files')}
  <2>1. SoundFile(files[generation]) /\ SoundFile(files'[generation]) /\ SoundDisk(files')
    BY <1>1, <1>3, FileFacts DEF Becomes
  <2>2. \A y \in Leaves(files'[generation]) : \E x \in Leaves(files[generation]) : Same(y, x)
    <3> DEFINE v == files[generation]
               z == files'[generation]
    <3>1. Whole(v.log) = Written /\ Whole(z.log) = Written
      <4>1. l \in {Written, Append(Written, r), Append(Written, Torn)} /\ l # Append(Written, r)
        BY <1>4, AppendsDiffer
      <4>2. Whole(l) = Written
        BY <1>1, <1>2, <4>1, DoubtfulIs
      <4>3. QED
        BY <1>4, <1>5, <4>2
    <3>2. committed \in 0..Len(Written) /\ SubSeq(Written, 1, committed) = Written
      BY <1>4, WholePrefix
    <3>3. v.synced <= z.synced /\ z.named = v.named
      BY <1>4, <1>5
    <3>4. SoundFile(v) /\ SoundFile(z)
      BY <2>1
    <3> HIDE DEF v, z
    <3>5. \A y \in Leaves(z) : \E x \in Leaves(v) : Same(y, x)
      BY <1>4, <3>1, <3>2, <3>3, <3>4, LeavesNarrow
    <3>6. QED
      BY <3>5 DEF v, z
  <2>3. \A g \in Generation : g # generation => files'[g] = files[g]
    BY <1>3 DEF Becomes
  <2>4. QED
    BY <1>1, <2>1, <2>2, <2>3, OneNarrows
<1>9. QED
  BY <1>6, <1>7, <1>8

LEMMA PlaceSyncFails ==
  ASSUME Sure, SyncFails, env' = env
  PROVE  Sure' /\ files' = files
<1>1. /\ pc = "written" /\ pc' = "failing" /\ faults' = faults + 1 /\ files' = files
      /\ opening' = opening /\ generation' = generation /\ next' = next
  BY DEF SyncFails, memory, Fault
<1>2. generation # 0 /\ generation \in Generation /\ SoundDisk(files) /\ StoreInv
  BY <1>1, DoubtFacts, SureParts DEF InDoubt
<1>3. Becomes(files, files', generation, files[generation].named, Journal, files[generation].synced)
  BY <1>1, <1>2, BecomesItself DEF Journal
<1>4. faults' >= faults /\ faults' \in Nat
  BY <1>1, SureParts
<1>5. Firm(files[generation]) => Firm(files'[generation])
  BY <1>1
<1>6. PlaceInv'
  BY <1>1, <1>2, <1>3, <1>4, <1>5, JournalPlace
<1>7. QED
  BY <1>1, <1>2, <1>6, StoreSyncFails, SureNext

\* Once the journal is durable to its end, nothing is in doubt.
LEMMA EntireJournal ==
  ASSUME Sure', pc' \in {"idle", "compacting"}, generation' # 0,
         Entire(files'[generation'])
  PROVE  Survivors(files') = {Recovered(files')}
<1>1. IsTop'
  BY TopNext
<1>2. pc' \notin Compacting'
  BY DEF Compacting
<1>3. /\ generation' \in Candidates(files') /\ generation' \in Generation
      /\ \A h \in Candidates(files') : h <= generation'
  BY <1>1, <1>2 DEF IsTop
<1>4. SoundDisk(files')
  BY DEF Sure, StoreInv
<1>5. QED
  BY <1>3, <1>4, EntireIsFound

LEMMA PlaceCommit ==
  ASSUME Sure, Commit, env' = env
  PROVE  /\ Sure' /\ Recovered(files') = Apply(entries, op)
         /\ Survivors(files') = {Recovered(files')}
<1> DEFINE b == files[generation].named
           n == Len(Journal)
<1>1. /\ pc = "written" /\ entries' = Apply(entries, op) /\ pc' \in {"idle", "compacting"}
      /\ opening' = opening /\ generation' = generation /\ failed' = failed /\ next' = next
      /\ faults' = faults
  BY DEF Commit, NoFault
<1>2. InDoubt /\ ~failed /\ StoreInv
  BY <1>1, SureParts DEF InDoubt, Control
<1>3. generation # 0 /\ generation \in Generation /\ SoundDisk(files)
  BY <1>2, DoubtFacts
<1>4. StoreInv' /\ Becomes(files, files', generation, b, Journal, n) /\ n = committed'
  BY <1>2, StoreCommit
<1>5. b
  BY <1>3, SureParts DEF GenerationIsNewest, Named
<1>6. /\ files'[generation].log = Journal /\ files'[generation].named
      /\ files'[generation].synced = n /\ Journal' = Journal
  BY <1>1, <1>4, <1>5 DEF Becomes, Journal
<1>7. ~InDoubt'
  BY <1>1, <1>2 DEF InDoubt
<1>8. Journal \in Seq(Line) /\ SubSeq(Journal, 1, n) = Journal
  BY <1>2, <1>3, JournalFacts, WholePrefix
<1>9. Firm(files'[generation])
  <2>1. Reading(Written)' = [good |-> TRUE, checkpointed |-> TRUE, queue |-> entries']
        /\ Journal' = Written'
    BY <1>1, <1>3, <1>4, <1>7 DEF StoreInv, JournalIsRead, InDoubt
  <2>2. Reading(Journal).checkpointed
    BY <1>6, <2>1
  <2>3. QED
    BY <1>6, <1>8, <2>2 DEF Firm
<1>10. Sure'
  <2>1. faults' >= faults /\ faults' \in Nat
    BY <1>1, SureParts
  <2>2. PlaceInv'
    <3> DEFINE l == Journal
    <3> HIDE DEF n, b, l
    <3>1. b = files[generation].named /\ Becomes(files, files', generation, b, l, n)
      BY <1>4 DEF b, l
    <3>2. QED
      BY <1>1, <1>3, <1>4, <1>9, <2>1, <3>1, JournalPlace
  <2>3. QED
    BY <1>4, <2>2, SureNext
<1>11. Recovered(files') = Apply(entries, op)
  <2>1. IsFound'
    BY <1>1, <1>10, FoundNext
  <2>2. QED
    BY <1>1, <1>7, <2>1 DEF IsFound
<1>12. Entire(files'[generation'])
  BY <1>1, <1>6 DEF Entire
<1>13. QED
  BY <1>1, <1>3, <1>10, <1>11, <1>12, EntireJournal

LEMMA PlaceRollBack ==
  ASSUME Sure, RollBack, env' = env
  PROVE  /\ Sure' /\ Recovered(files') = entries
         /\ Survivors(files') = {Recovered(files')}
<1> DEFINE b == files[generation].named
<1>1. /\ pc = "failing" /\ entries' = entries /\ pc' = "idle" /\ committed' = committed
      /\ opening' = opening /\ generation' = generation /\ failed' = failed /\ next' = next
      /\ faults' = faults
  BY DEF RollBack, memory, NoFault
<1>2. InDoubt /\ ~failed /\ StoreInv
  BY <1>1, SureParts DEF InDoubt, Control
<1>3. generation # 0 /\ generation \in Generation /\ SoundDisk(files)
  BY <1>2, DoubtFacts
<1>4. StoreInv' /\ Becomes(files, files', generation, b, Written, committed)
  BY <1>2, StoreRollBack
<1>5. b
  BY <1>3, SureParts DEF GenerationIsNewest, Named
<1>6. /\ files'[generation].log = Written /\ files'[generation].named
      /\ files'[generation].synced = committed
  BY <1>1, <1>4, <1>5 DEF Becomes
<1>7. ~InDoubt'
  BY <1>1, <1>2 DEF InDoubt
<1>8. /\ Written \in Seq(Line) /\ Len(Written) = committed /\ Reading(Written).checkpointed
      /\ SubSeq(Written, 1, committed) = Written
  BY <1>2, <1>3, JournalFacts, WholePrefix
<1>9. Firm(files'[generation])
  BY <1>6, <1>8 DEF Firm
<1>10. Sure'
  <2>1. faults' >= faults /\ faults' \in Nat
    BY <1>1, SureParts
  <2>2. PlaceInv'
    <3> HIDE DEF b
    <3>1. b = files[generation].named
      BY DEF b
    <3>2. QED
      BY <1>1, <1>3, <1>4, <1>9, <2>1, <3>1, JournalPlace
  <2>3. QED
    BY <1>4, <2>2, SureNext
<1>11. Recovered(files') = entries
  <2>1. IsFound'
    BY <1>1, <1>10, FoundNext
  <2>2. QED
    BY <1>1, <1>7, <2>1 DEF IsFound
<1>12. Entire(files'[generation'])
  BY <1>1, <1>6, <1>8 DEF Entire
<1>13. QED
  BY <1>1, <1>3, <1>10, <1>11, <1>12, EntireJournal

LEMMA PlaceRollBackFails ==
  ASSUME Sure, RollBackFails, env' = env
  PROVE  /\ Sure' /\ Recovered(files') \in {entries, Recovered(files)}
         /\ Survivors(files') \subseteq Survivors(files) \cup {Recovered(files')}
<1> DEFINE n == files[generation].synced
           b == files[generation].named
<1>1. /\ pc = "failing" /\ pc' = "idle" /\ failed' = TRUE /\ faults' = faults + 1 /\ op' = op
      /\ opening' = opening /\ entries' = entries /\ generation' = generation
      /\ committed' = committed /\ next' = next
  BY DEF RollBackFails, Fault
<1>2. InDoubt /\ StoreInv
  BY <1>1, SureParts DEF InDoubt
<1>3. /\ generation # 0 /\ generation \in Generation /\ SoundDisk(files)
      /\ op \in Requests /\ Allowed(op)
      /\ Journal \in {Written, Append(Written, op), Append(Written, Torn)}
      /\ n <= committed /\ n \in Nat
      /\ Written \in Seq(Line) /\ Len(Written) = committed
  BY <1>2, DoubtFacts
<1>4. PICK l \in {Written, Journal} :
        StoreInv' /\ Becomes(files, files', generation, b, l, n)
  BY <1>2, StoreRollBackFails
<1>5. /\ files[generation].log = Journal /\ files'[generation].log = l
      /\ files'[generation].named = b /\ files'[generation].synced = n
  BY <1>4 DEF Journal, Becomes
<1>6. Sure'
  <2>1. Firm(files[generation]) => Firm(files'[generation])
    <3>1. l \in {Written, Append(Written, op), Append(Written, Torn)}
      BY <1>3
    <3>2. QED
      BY <1>2, <1>3, <1>5, <3>1, FirmKept
  <2>2. faults' >= faults /\ faults' \in Nat
    BY <1>1, SureParts
  <2>3. PlaceInv'
    <3> HIDE DEF n, b
    <3>1. b = files[generation].named
      BY DEF b
    <3>2. QED
      BY <1>1, <1>3, <1>4, <2>1, <2>2, <3>1, JournalPlace
  <2>4. QED
    BY <1>4, <2>3, SureNext
<1>7. Recovered(files') \in {entries, Recovered(files)}
  <2>1. IsFound' /\ IsFound
    BY <1>1, <1>6, FoundNext, FoundInside
  <2>2. InDoubt'
    BY <1>1 DEF InDoubt
  <2>3. CASE l = Journal
    <3>1. Journal' = Journal /\ Written' = Written
      BY <1>1, <1>5, <2>3 DEF Journal, Written
    <3>2. QED
      BY <1>1, <1>2, <2>1, <2>2, <3>1 DEF IsFound
  <2>4. CASE l = Written
    <3>1. SubSeq(Written, 1, committed) = Written
      BY <1>3, WholePrefix
    <3>2. Journal' = Written /\ Written' = Written
      BY <1>1, <1>5, <2>4, <3>1 DEF Journal, Written
    <3>3. Written # Append(Written, op)
      BY <1>3, AppendsDiffer
    <3>4. QED
      BY <1>1, <2>1, <2>2, <3>2, <3>3 DEF IsFound
  <2>5. QED
    BY <2>3, <2>4
<1>8. Survivors(files') \subseteq Survivors(files) \cup {Recovered(files')}
  <2>1. SoundFile(files[generation]) /\ SoundFile(files'[generation]) /\ SoundDisk(files')
    BY <1>3, <1>4, FileFacts DEF Becomes
  <2>2. \A y \in Leaves(files'[generation]) : \E x \in Leaves(files[generation]) : Same(y, x)
    <3> DEFINE v == files[generation]
               z == files'[generation]
               w == Whole(Journal)
    <3>1. /\ w \in {Written, Append(Written, op)} /\ w \in Seq(Line) /\ Whole(Written) = Written
      BY <1>2, <1>3, DoubtfulIs, SoundIs
    <3>2. committed \in 0..Len(w) /\ SubSeq(w, 1, committed) = Written
      <4>1. w \in {Written, Append(Written, op), Append(Written, Torn)}
        BY <3>1
      <4>2. QED
        BY <1>2, <1>3, <4>1, DoubtfulIs
    <3>3. \E m \in 0..Len(w) : Whole(l) = SubSeq(w, 1, m) /\ (m = Len(w) \/ n <= m)
      <4>1. CASE l = Written
        BY <1>3, <3>1, <3>2, <4>1
      <4>2. CASE l = Journal
        BY <3>1, <4>2, WholePrefix
      <4>3. QED
        BY <4>1, <4>2
    <3>4. PICK m \in 0..Len(w) : Whole(l) = SubSeq(w, 1, m) /\ (m = Len(w) \/ n <= m)
      BY <3>3
    <3>5. /\ SoundFile(v) /\ SoundFile(z) /\ Whole(v.log) = w /\ Whole(z.log) = Whole(l)
          /\ v.synced = n /\ z.synced = n /\ n <= n /\ z.named = v.named
      BY <1>3, <1>5, <2>1
    <3> HIDE DEF v, z, w, n
    <3>6. \A y \in Leaves(z) : \E x \in Leaves(v) : Same(y, x)
      BY <3>4, <3>5, LeavesNarrow
    <3>7. QED
      BY <3>6 DEF v, z
  <2>3. \A g \in Generation : g # generation => files'[g] = files[g]
    BY <1>4 DEF Becomes
  <2>4. QED
    BY <1>3, <2>1, <2>2, <2>3, OneNarrows
<1>9. QED
  BY <1>6, <1>7, <1>8

LEMMA PlaceOpenEmpty ==
  ASSUME Sure, OpenEmpty, env' = env
  PROVE  Sure' /\ files' = files
<1>1. /\ pc = "closed" /\ Named(files) = {} /\ pc' = "compacting" /\ opening' = TRUE
      /\ generation' = generation /\ next' = next /\ files' = files /\ faults' = faults
  BY DEF OpenEmpty, memory, NoFault
<1>2. generation = 0 /\ next = 0 /\ StoreInv
  BY <1>1, SureParts DEF Control
<1>3. NextIsHighest' /\ GenerationIsNewest' /\ FirstIsAlone' /\ Fallback' /\ StraysCost'
  BY <1>1, <1>2 DEF NextIsHighest, GenerationIsNewest, FirstIsAlone, Fallback, StraysCost, Compacting
<1>4. PlaceInv'
  BY <1>3 DEF PlaceInv
<1>5. QED
  BY <1>1, <1>2, <1>4, StoreOpenEmpty, SureNext

LEMMA PlaceOpenNewest ==
  ASSUME Sure, OpenNewest, env' = env
  PROVE  /\ Sure' /\ Recovered(files') = Recovered(files) /\ entries' = Recovered(files')
         /\ Survivors(files') \subseteq Survivors(files) \cup {Recovered(files')}
<1> DEFINE g == Highest(Candidates(files))
           l == Whole(files[g].log)
<1>1. g \in Candidates(files) /\ (\A h \in Candidates(files) : h <= g) /\ SoundDisk(files)
      /\ Recovered(files) = Held(files[g])
  BY HighestCandidate, RecoveredAt, SureParts DEF OpenNewest
<1>2. /\ pc = "closed" /\ generation' = g /\ entries' = Reading(l).queue
      /\ Loads(files, g, l, files')
      /\ pc' = "sweeping" /\ opening' = TRUE /\ next' = next /\ faults' = faults
  BY DEF OpenNewest, NoFault, Loads
<1>3. /\ g \in Generation /\ files[g].named /\ SoundFile(files[g]) /\ l \in Seq(Line)
      /\ Reading(l) = [good |-> TRUE, checkpointed |-> TRUE, queue |-> Held(files[g])]
  BY <1>1, LoadedIs
<1>4. /\ next = 0 /\ StoreInv' /\ Candidates(files) # {}
      /\ (env.power => Covered(files, g)) /\ (Stray(g) => faults >= 1)
  BY <1>1, <1>2, SureParts, StoreOpenNewest DEF Control, Fallback, StraysCost
<1> HIDE DEF g, l
<1>5. /\ SoundDisk(files') /\ \A i \in Generation : i # g => files'[i] = files[i]
      /\ files'[g].log = l /\ files'[g].named
      /\ files'[g] = files[g] \/ files'[g].synced = Len(l)
  BY <1>1, <1>2, LoadedFiles DEF l
<1>6. /\ Reading(l).good /\ Reading(l).checkpointed /\ Reading(l).queue = Held(files[g])
      /\ Len(l) \in Nat /\ SubSeq(l, 1, Len(l)) = l
  BY <1>3, WholePrefix
<1>7. Whole(l) = l
  BY <1>3, <1>6, GoodIsSound
<1>8. \A i \in Generation : Same(files[i], files'[i])
  <2>1. Same(files[g], files'[g])
    BY <1>3, <1>5, <1>7, SameText DEF l
  <2>2. QED
    BY <1>5, <2>1 DEF Same
<1>9. Candidates(files') = Candidates(files) /\ Recovered(files') = Recovered(files)
  BY <1>8, RecoveredSame
<1>10. Named(files') = Named(files)
  BY <1>3, <1>5 DEF Named
<1>11. Firm(files[g]) => Firm(files'[g])
  <2>1. CASE files'[g] = files[g]
    BY <2>1
  <2>2. CASE files'[g].synced = Len(l)
    BY <1>5, <1>6, <2>2 DEF Firm
  <2>3. QED
    BY <1>5, <2>1, <2>2
<1>12. PlaceInv'
  <2>1. NextIsHighest' /\ FirstIsAlone'
    BY <1>2, <1>3, GenerationsAreNumbers DEF NextIsHighest, FirstIsAlone, Compacting
  <2>2. GenerationIsNewest'
    BY <1>1, <1>2, <1>3, <1>9, <1>10 DEF GenerationIsNewest, Compacting, Named
  <2>3. Fallback'
    <3>1. ASSUME env.power
          PROVE  Covered(files', g)
      <4>1. Covered(files, g) /\ \A i \in Generation : i < g => files'[i] = files[i]
        BY <1>3, <1>4, <1>5, <3>1, GenerationsAreNumbers
      <4>2. QED
        BY <1>3, <1>11, <4>1, CoveredStays
    <3>2. QED
      BY <1>2, <3>1 DEF Fallback
  <2>4. StraysCost'
    <3>1. Stray(generation)' => Stray(g)
      BY <1>2, <1>10 DEF Stray
    <3>2. Stray(generation)' => faults' >= 1
      BY <1>2, <1>4, <3>1
    <3>3. QED
      BY <1>2, <1>4, <3>2 DEF StraysCost
  <2>5. QED
    BY <2>1, <2>2, <2>3, <2>4 DEF PlaceInv
<1>13. Survivors(files') \subseteq Survivors(files) \cup {Recovered(files')}
  <2>1. \A y \in Leaves(files'[g]) : \E x \in Leaves(files[g]) : Same(y, x)
    <3> DEFINE v == files[g]
               z == files'[g]
               m == Len(l)
    <3>1. SoundFile(v) /\ SoundFile(z) /\ z.named = v.named
      BY <1>3, <1>5 DEF SoundDisk
    <3>2. Whole(v.log) = l /\ Whole(z.log) = SubSeq(l, 1, m) /\ m \in 0..Len(l)
      BY <1>5, <1>6, <1>7 DEF l
    <3>3. v.synced <= z.synced \/ m <= z.synced
      <4>1. v.synced \in Nat
        BY <3>1, FileFields
      <4>2. QED
        BY <1>5, <1>6, <4>1
    <3>4. m = Len(l)
      OBVIOUS
    <3> HIDE DEF v, z, m
    <3>5. \A y \in Leaves(z) : \E x \in Leaves(v) : Same(y, x)
      BY <3>1, <3>2, <3>3, <3>4, LeavesNarrow
    <3>6. QED
      BY <3>5 DEF v, z
  <2>2. QED
    BY <1>3, <1>5, <2>1, OneNarrows
<1>14. QED
  BY <1>1, <1>2, <1>4, <1>6, <1>9, <1>12, <1>13, SureNext

\* A compaction that cannot start: the constructor throws, or the store goes on.
LEMMA PlaceGivesUp ==
  ASSUME Sure, GiveUp, StoreInv', files' = files, env' = env, pc = "compacting",
         faults' \in Nat, faults' >= faults
  PROVE  Sure'
<1>1. next = 0 /\ StoreInv
  BY SureParts DEF Control
<1>2. CASE opening
  <2>1. pc' = "closed" /\ opening' = FALSE /\ generation' = 0
    BY <1>2 DEF GiveUp, Closed
  <2>2. Named(files) = {}
    BY <1>1, <1>2, SureParts, GenerationsAreNumbers DEF FirstIsAlone
  <2>3. Candidates(files') = {}
    BY <2>2 DEF Candidates
  <2>4. NextIsHighest' /\ GenerationIsNewest' /\ FirstIsAlone' /\ Fallback' /\ StraysCost'
    BY <2>1, <2>3 DEF NextIsHighest, GenerationIsNewest, FirstIsAlone, Fallback, StraysCost, Compacting
  <2>5. QED
    BY <2>4, SureNext DEF PlaceInv
<1>3. CASE ~opening
  <2>1. /\ pc' = "idle" /\ next' = 0 /\ opening' = opening /\ generation' = generation
    BY <1>3 DEF GiveUp, memory
  <2>2. NextIsHighest' /\ FirstIsAlone' /\ Fallback'
    BY <1>3, <2>1, SureParts DEF NextIsHighest, FirstIsAlone, Fallback, Compacting
  <2>3. GenerationIsNewest'
    BY <1>1, <2>1, SureParts DEF GenerationIsNewest, Compacting
  <2>4. StraysCost'
    <3>1. Stray(generation)' => Stray(generation)
      BY <1>1, <2>1 DEF Stray
    <3>2. generation # 0 /\ Stray(generation) => faults >= 2 /\ "sweep" \in env.calls
      BY SureParts DEF StraysCost
    <3>3. faults >= 2 => faults' >= 2
      BY SureParts
    <3>4. QED
      BY <2>1, <3>1, <3>2, <3>3 DEF StraysCost
  <2>5. QED
    BY <2>2, <2>3, <2>4, SureNext DEF PlaceInv
<1>4. QED
  BY <1>2, <1>3

LEMMA PlaceCreateGenerationFails ==
  ASSUME Sure, CreateGenerationFails \/ NoMoreGenerations, env' = env
  PROVE  Sure' /\ files' = files
<1>1. pc = "compacting" /\ GiveUp /\ files' = files
  BY DEF CreateGenerationFails, NoMoreGenerations
<1>2. faults' \in Nat /\ faults' >= faults
  BY SureParts DEF CreateGenerationFails, NoMoreGenerations, Fault, NoFault
<1>3. QED
  BY <1>1, <1>2, SureParts, StoreCreateGenerationFails, PlaceGivesUp

\* What has no text cannot be loaded.
LEMMA EmptyIsNoCandidate ==
  ASSUME NEW x, x.log = <<>>
  PROVE  ~Candidate(x)
<1>1. Whole(<<>>) = <<>>
  BY DEF Whole
<1>2. ~Reading(<<>>).checkpointed
  BY ReadingNothing DEF Unread
<1>3. QED
  BY <1>1, <1>2 DEF Candidate, Parses, Parsed

LEMMA PlaceCreateGeneration ==
  ASSUME Sure, CreateGeneration, env' = env
  PROVE  /\ Sure' /\ Recovered(files') = Recovered(files)
         /\ Survivors(files') \subseteq Survivors(files) \cup {Recovered(files')}
<1> DEFINE c == NextGeneration
<1>1. /\ pc = "compacting" /\ c \in Generation /\ next' = c
      /\ files' = [files EXCEPT ![c] = [NoFile EXCEPT !.named = TRUE]]
      /\ pc' = "filling" /\ opening' = opening /\ entries' = entries
      /\ generation' = generation /\ committed' = committed /\ failed' = failed /\ op' = op
      /\ faults' = faults
  BY DEF CreateGeneration, memory, NoFault
<1>2. \A h \in Named(files) \cup {generation} : h < c
  BY SureParts, NextGenerationIs
<1> HIDE DEF c
<1>3. c \in Generation /\ Becomes(files, files', c, TRUE, <<>>, 0) /\ SoundDisk(files')
  <2>1. SoundDisk(files) /\ c \in Generation
    BY <1>1, SureParts
  <2>2. Becomes(files, files', c, TRUE, <<>>, 0)
    BY <1>1, <2>1, NewFile
  <2>3. QED
    BY <2>1, <2>2 DEF Becomes
<1>4. c \in Nat /\ c # 0 /\ c \notin Named(files) /\ c # generation
  BY <1>1, <1>2, GenerationsAreNumbers
<1>5. ~Candidate(files[c]) /\ ~Candidate(files'[c])
  BY <1>1, <1>3, <1>4, EmptyIsNoCandidate DEF Becomes, Candidate, Named
<1>6. \A g \in Generation : Same(files[g], files'[g])
  BY <1>3, <1>5 DEF Becomes, Same
<1>7. Candidates(files') = Candidates(files) /\ Recovered(files') = Recovered(files)
  BY <1>6, RecoveredSame
<1>8. Named(files') = Named(files) \cup {c}
  <2>1. \A g \in Generation : g \in Named(files') <=> g \in Named(files) \/ g = c
    BY <1>3 DEF Becomes, Named
  <2>2. QED
    BY <1>1, <2>1 DEF Named
<1>9. PlaceInv'
  <2>1. NextIsHighest'
    <3>1. \A h \in Named(files') : h <= c
      BY <1>2, <1>4, <1>8, SureParts
    <3>2. c \in Named(files') /\ files'[c].synced = 0 /\ generation < c
      BY <1>2, <1>3, <1>8 DEF Becomes
    <3>3. c \notin Candidates(files')
      BY <1>5, CandidatesAre
    <3>4. QED
      BY <1>1, <3>1, <3>2, <3>3 DEF NextIsHighest
  <2>2. GenerationIsNewest'
    <3>1. SUFFICES ASSUME generation # 0
                   PROVE  GenerationIsNewest'
      BY <1>1 DEF GenerationIsNewest
    <3>2. /\ generation \in Named(files) /\ files[generation].synced = committed
          /\ \A h \in Candidates(files) : h <= generation \/ h = next
      BY <1>1, <3>1, SureParts DEF GenerationIsNewest
    <3>3. files'[generation].synced = committed
      BY <1>3, <1>4, <3>2 DEF Becomes, Named
    <3>4. \A h \in Candidates(files') : h <= generation \/ h = c
      <4>1. next = 0
        BY <1>1, SureParts DEF Control
      <4>2. 0 \notin Candidates(files)
        BY CandidatesAre, GenerationsAreNumbers
      <4>3. QED
        BY <1>7, <3>2, <4>1, <4>2
    <3>5. QED
      BY <1>1, <1>8, <3>2, <3>3, <3>4 DEF GenerationIsNewest
  <2>3. FirstIsAlone'
    <3>1. opening => generation = 0
      BY <1>1, SureParts DEF FirstIsAlone
    <3>2. generation = 0 /\ opening => Named(files) = {}
      BY <1>1, SureParts, GenerationsAreNumbers DEF FirstIsAlone, Control
    <3>3. QED
      BY <1>1, <1>8, <3>1, <3>2 DEF FirstIsAlone
  <2>4. Fallback'
    <3>1. ASSUME env.power, generation # 0
          PROVE  Covered(files', generation)
      <4>1. generation \in Generation /\ Covered(files, generation) /\ generation < c
        BY <1>2, <3>1, SureParts DEF Fallback
      <4>2. \A g \in Generation : g < generation => files'[g] = files[g]
        BY <1>3, <1>4, <4>1, SureParts, GenerationsAreNumbers DEF Becomes
      <4>3. files'[generation] = files[generation]
        BY <1>3, <1>4, <4>1 DEF Becomes
      <4>4. QED
        BY <4>1, <4>2, <4>3, CoveredStays
    <3>2. QED
      BY <1>1, <3>1 DEF Fallback
  <2>5. StraysCost'
    <3>1. Stray(generation)' => Stray(generation)
      <4>1. next = 0
        BY <1>1, SureParts DEF Control
      <4>2. QED
        BY <1>1, <1>8, <4>1, GenerationsAreNumbers DEF Stray, Named
    <3>2. generation # 0 /\ Stray(generation) => faults >= 2 /\ "sweep" \in env.calls
      BY <1>1, SureParts DEF StraysCost
    <3>3. QED
      BY <1>1, <3>1, <3>2 DEF StraysCost
  <2>6. QED
    BY <2>1, <2>2, <2>3, <2>4, <2>5 DEF PlaceInv
<1>10. Sure'
  BY <1>9, SureParts, StoreCreateGeneration, SureNext
<1>11. Survivors(files') \subseteq Survivors(files) \cup {Recovered(files')}
  <2>1. \A y \in Leaves(files'[c]) : \E x \in Leaves(files[c]) : Same(y, x)
    <3> DEFINE v == files[c]
               z == files'[c]
    <3>1. SoundFile(v) /\ SoundFile(z)
      BY <1>1, <1>3, SureParts DEF SoundDisk
    <3>2. ~Candidate(v) /\ ~Candidate(z)
      BY <1>5
    <3> HIDE DEF v, z
    <3>3. PICK x : x \in Leaves(v)
      BY <3>1, AllIsLeft
    <3>4. ~Candidate(x) /\ \A y \in Leaves(z) : ~Candidate(y)
      BY <3>1, <3>2, <3>3, LossMakesNoCandidate
    <3>5. \A y \in Leaves(z) : Same(y, x)
      BY <3>4 DEF Same
    <3>6. QED
      BY <3>3, <3>5 DEF v, z
  <2>2. \A g \in Generation : g # c => files'[g] = files[g]
    BY <1>3 DEF Becomes
  <2>3. QED
    BY <1>3, <2>1, <2>2, OneNarrows
<1>12. QED
  BY <1>7, <1>10, <1>11

\* A part of a new generation is either all of it or cannot be loaded.
LEMMA SnapshotLeaf ==
  ASSUME NEW q \in Seq(Key), Distinct(q), NEW x, SoundFile(x), x.log = Snapshot(q),
         NEW y \in Leaves(x), Candidate(y)
  PROVE  Held(y) = q
<1> DEFINE s == Snapshot(q)
<1>1. s \in Seq(Line) /\ Len(s) = Len(q) + 1 /\ Whole(s) = s /\ Reading(s).queue = q
      /\ Len(q) \in Nat
  <2>1. Reading(s) = [good |-> TRUE, checkpointed |-> TRUE, queue |-> q]
    BY SnapshotWhole
  <2>2. QED
    BY <2>1, SnapshotIs, SnapshotWhole
<1>2. PICK k \in 0..Len(Whole(x.log)) : Whole(y.log) = SubSeq(Whole(x.log), 1, k)
  BY LeavesAre
<1>3. Reading(SubSeq(s, 1, k)).checkpointed /\ k \in 0..Len(s) /\ Held(y) = Reading(SubSeq(s, 1, k)).queue
  BY <1>1, <1>2 DEF Candidate, Parses, Parsed, Held
<1>4. ASSUME k \in 0..Len(q)
      PROVE  FALSE
  <2>1. Reading(SubSeq(s, 1, k)) = [good |-> TRUE, checkpointed |-> FALSE, queue |-> SubSeq(q, 1, k)]
    BY <1>4, SnapshotPrefix
  <2>2. QED
    BY <1>3, <2>1
<1> HIDE DEF s
<1>5. k = Len(s)
  BY <1>1, <1>3, <1>4
<1>6. SubSeq(s, 1, k) = s
  BY <1>1, <1>5, WholePrefix
<1>7. QED
  BY <1>1, <1>3, <1>6

\* The next generation is written; whether that fails or not, what a start finds stays.
LEMMA PlaceFills ==
  ASSUME Sure, pc = "filling", StoreInv', NEW l,
         Becomes(files, files', next, files[next].named, l, 0),
         ~Parses(l) \/ l = Snapshot(entries),
         generation' = generation, next' = next, opening' = opening, committed' = committed,
         entries' = entries, env' = env, pc' \in {"filled", "abandoning"},
         faults' \in Nat, faults' >= faults
  PROVE  /\ Sure' /\ Recovered(files') = entries
         /\ Survivors(files') \subseteq Survivors(files) \cup {Recovered(files')}
<1>1. /\ next \in Generation /\ SoundDisk(files) /\ generation < next /\ generation # next
      /\ next \in Named(files) /\ (\A h \in Named(files) : h <= next) /\ files[next].log = <<>>
  BY SureParts, FillingFacts DEF NextIsHighest, Compacting, StoreInv, NextIsFilled
<1>2. /\ SoundDisk(files') /\ SoundFile(files'[next]) /\ files'[next].named
      /\ files'[next].log = l /\ files'[next].synced = 0
      /\ \A g \in Generation : g # next => files'[g] = files[g]
  BY <1>1 DEF Becomes, Named
<1>3. Named(files') = Named(files)
  BY <1>1, <1>2 DEF Named
<1>4. \A g \in Generation : g # next => (g \in Candidates(files') <=> g \in Candidates(files))
  BY <1>2, CandidatesAre
<1>5. PlaceInv'
  <2>1. NextIsHighest'
    <3>1. next \in Candidates(files') => l = Snapshot(entries)
      BY <1>2, CandidatesAre DEF Candidate
    <3>2. QED
      BY <1>1, <1>2, <1>3, <3>1 DEF NextIsHighest
  <2>2. GenerationIsNewest'
    <3>1. SUFFICES ASSUME generation # 0
                   PROVE  GenerationIsNewest'
      BY DEF GenerationIsNewest
    <3>2. /\ generation \in Named(files) /\ files[generation].synced = committed
          /\ \A h \in Candidates(files) : h <= generation \/ h = next
      BY <3>1, SureParts DEF GenerationIsNewest, Compacting
    <3>3. files'[generation].synced = committed
      BY <1>1, <1>2, <3>2 DEF Named
    <3>4. \A h \in Candidates(files') : h <= generation \/ h = next
      BY <1>4, <3>2, CandidatesAre
    <3>5. QED
      BY <1>3, <3>2, <3>3, <3>4 DEF GenerationIsNewest
  <2>3. FirstIsAlone'
    BY <1>3, SureParts DEF FirstIsAlone
  <2>4. Fallback'
    <3>1. ASSUME env.power, generation # 0
          PROVE  Covered(files', generation)
      <4>1. generation \in Generation /\ Covered(files, generation)
        BY <3>1, SureParts DEF Fallback
      <4>2. \A g \in Generation : g < generation => files'[g] = files[g]
        BY <1>1, <1>2, SureParts, GenerationsAreNumbers
      <4>3. files'[generation] = files[generation]
        BY <1>1, <1>2, <4>1
      <4>4. QED
        BY <4>1, <4>2, <4>3, CoveredStays
    <3>2. QED
      BY <3>1 DEF Fallback
  <2>5. StraysCost'
    <3>1. Stray(generation)' => Stray(generation)
      BY <1>3 DEF Stray
    <3>2. generation # 0 /\ Stray(generation) => faults >= 2 /\ "sweep" \in env.calls
      BY SureParts DEF StraysCost
    <3>3. faults >= 2 => faults' >= 2
      BY SureParts
    <3>4. QED
      BY <3>1, <3>2, <3>3 DEF StraysCost
  <2>6. QED
    BY <2>1, <2>2, <2>3, <2>4, <2>5 DEF PlaceInv
<1>6. Sure'
  BY <1>5, SureNext
<1>7. Recovered(files') = entries
  <2>1. ~InDoubt'
    BY DEF InDoubt, StoreInv, Control
  <2>2. IsFound'
    BY <1>6, FoundNext
  <2>3. QED
    BY <2>1, <2>2 DEF IsFound
<1>8. Survivors(files') \subseteq Survivors(files) \cup {Recovered(files')}
  <2>1. ASSUME NEW y \in Leaves(files'[next])
        PROVE  \/ \E x \in Leaves(files[next]) : Same(y, x)
               \/ Candidate(y) /\ Held(y) = Recovered(files')
    <3>1. CASE Candidate(y)
      <4>1. Candidate(files'[next])
        BY <1>2, <3>1, LossMakesNoCandidate
      <4>2. l = Snapshot(entries)
        BY <1>2, <4>1 DEF Candidate
      <4>3. Held(y) = entries
        BY <1>2, <2>1, <3>1, <4>2, SureParts, EntriesAreDistinct, SnapshotLeaf
      <4>4. QED
        BY <1>7, <3>1, <4>3
    <3>2. CASE ~Candidate(y)
      <4>1. SoundFile(files[next]) /\ ~Candidate(files[next])
        BY <1>1, EmptyIsNoCandidate DEF SoundDisk
      <4>2. PICK x : x \in Leaves(files[next])
        BY <4>1, AllIsLeft
      <4>3. ~Candidate(x)
        BY <4>1, <4>2, LossMakesNoCandidate
      <4>4. Same(y, x)
        BY <3>2, <4>3 DEF Same
      <4>5. QED
        BY <4>2, <4>4
    <3>3. QED
      BY <3>1, <3>2
  <2>2. \A g \in Candidates(files') : g <= next
    BY <1>1, <1>3 DEF Candidates
  <2>3. next \in Generation /\ SoundDisk(files') /\ \A g \in Generation : g # next => files'[g] = files[g]
    BY <1>1, <1>2
  <2>4. QED
    BY <2>1, <2>2, <2>3, OneStores
<1>9. QED
  BY <1>6, <1>7, <1>8

LEMMA PlaceFillGeneration ==
  ASSUME Sure, FillGeneration \/ FillGenerationFails, env' = env
  PROVE  /\ Sure' /\ Recovered(files') = entries
         /\ Survivors(files') \subseteq Survivors(files) \cup {Recovered(files')}
<1>1. StoreInv' /\ \E l : /\ ~Parses(l) \/ l = Snapshot(entries)
                          /\ Becomes(files, files', next, files[next].named, l, 0)
  BY SureParts, StoreFillGeneration, StoreFillGenerationFails
<1>2. PICK l : /\ ~Parses(l) \/ l = Snapshot(entries)
               /\ Becomes(files, files', next, files[next].named, l, 0)
  BY <1>1
<1>3. /\ pc = "filling" /\ pc' \in {"filled", "abandoning"} /\ generation' = generation
      /\ next' = next /\ opening' = opening /\ committed' = committed /\ entries' = entries
      /\ faults' \in Nat /\ faults' >= faults
  BY SureParts DEF FillGeneration, FillGenerationFails, memory, Fault, NoFault
<1>4. QED
  BY <1>1, <1>2, <1>3, PlaceFills

LEMMA PlaceSwitchGenerationFails ==
  ASSUME Sure, SwitchGenerationFails, env' = env
  PROVE  Sure' /\ files' = files
<1>1. /\ pc = "filled" /\ pc' = "abandoning" /\ generation' = generation
      /\ next' = next /\ opening' = opening /\ committed' = committed /\ entries' = entries
      /\ files' = files /\ faults' = faults + 1
  BY DEF SwitchGenerationFails, memory, Fault
<1>2. NextIsHighest' /\ GenerationIsNewest' /\ FirstIsAlone' /\ Fallback'
  BY <1>1, SureParts DEF NextIsHighest, GenerationIsNewest, FirstIsAlone, Fallback, Compacting
<1>3. StraysCost'
  <2>1. Stray(generation)' => Stray(generation)
    BY <1>1 DEF Stray
  <2>2. generation # 0 /\ Stray(generation) => faults >= 2 /\ "sweep" \in env.calls
    BY <1>1, SureParts DEF StraysCost
  <2>3. faults >= 2 => faults' >= 2
    BY <1>1, SureParts
  <2>4. QED
    BY <1>1, <2>1, <2>2, <2>3 DEF StraysCost
<1>4. QED
  BY <1>1, <1>2, <1>3, SureParts, StoreSwitchGenerationFails, SureNext DEF PlaceInv

LEMMA PlaceSwitchGeneration ==
  ASSUME Sure, SwitchGeneration, env' = env
  PROVE  /\ Sure' /\ Recovered(files') = entries
         /\ Survivors(files') = {Recovered(files')}
<1> DEFINE l == Snapshot(entries)
<1>1. /\ pc = "filled" /\ pc' = "sweeping" /\ generation' = next /\ next' = next
      /\ opening' = opening /\ entries' = entries /\ faults' = faults /\ failed' = failed
  BY DEF SwitchGeneration, NoFault
<1>2. /\ next \in Generation /\ SoundDisk(files) /\ generation < next
      /\ next \in Named(files) /\ (\A h \in Named(files) : h <= next)
  BY <1>1, SureParts, FillingFacts DEF NextIsHighest, Compacting
<1>3. StoreInv' /\ Becomes(files, files', next, files[next].named, l, Len(l))
  BY <1>1, SureParts, StoreSwitchGeneration
<1>4. /\ SoundDisk(files') /\ SoundFile(files'[next]) /\ files'[next].named
      /\ files'[next].log = l /\ files'[next].synced = Len(l)
      /\ \A g \in Generation : g # next => files'[g] = files[g]
  BY <1>2, <1>3 DEF Becomes, Named
<1>5. Candidate(files'[next]) /\ Entire(files'[next])
  BY <1>4, SureParts, EntriesAreDistinct, SnapshotWhole DEF Candidate, Entire
<1> HIDE DEF l
<1>6. Named(files') = Named(files)
  BY <1>2, <1>4 DEF Named
<1>7. Firm(files'[next])
  BY <1>4, <1>5, EntireIsFirm
<1>8. next \in Candidates(files') /\ \A h \in Candidates(files') : h <= next
  BY <1>2, <1>5, <1>6, CandidatesAre DEF Candidates
<1>9. PlaceInv'
  <2>1. NextIsHighest' /\ FirstIsAlone'
    BY <1>1, <1>2, GenerationsAreNumbers DEF NextIsHighest, FirstIsAlone, Compacting
  <2>2. GenerationIsNewest'
    BY <1>1, <1>2, <1>6, <1>8 DEF GenerationIsNewest, Compacting
  <2>3. Fallback'
    BY <1>1, <1>7 DEF Fallback, Covered
  <2>4. StraysCost'
    <3>1. ~Stray(generation)'
      <4>1. ASSUME NEW h \in Named(files'), h > next
            PROVE  FALSE
        <5>1. h \in Nat /\ next \in Nat /\ h <= next
          BY <1>2, <1>6, <4>1, SureParts
        <5>2. QED
          BY <4>1, <5>1
      <4>2. QED
        BY <1>1, <4>1 DEF Stray
    <3>2. QED
      BY <1>1, <3>1 DEF StraysCost
  <2>5. QED
    BY <2>1, <2>2, <2>3, <2>4 DEF PlaceInv
<1>10. Sure'
  BY <1>3, <1>9, SureNext
<1>11. Recovered(files') = entries
  <2>1. ~InDoubt'
    BY <1>1, <1>3 DEF InDoubt, StoreInv, Control
  <2>2. IsFound'
    BY <1>1, <1>10, FoundNext
  <2>3. QED
    BY <1>1, <2>1, <2>2 DEF IsFound
<1>12. Survivors(files') = {Recovered(files')}
  BY <1>4, <1>5, <1>8, EntireIsFound
<1>13. QED
  BY <1>10, <1>11, <1>12

LEMMA PlaceAbandon ==
  ASSUME Sure, Abandon, env' = env
  PROVE  /\ Sure' /\ Recovered(files') = entries
         /\ Survivors(files') \subseteq Survivors(files) \cup {Recovered(files')}
<1>1. /\ pc = "abandoning" /\ GiveUp /\ files' = [files EXCEPT ![next].named = FALSE]
      /\ faults' = faults
  BY SureParts DEF Abandon, Dependable, NoFault
<1>2. /\ next \in Named(files) /\ next \in Generation /\ generation < next /\ generation # next
      /\ files[next].synced = 0 /\ \A h \in Named(files) : h <= next
  BY <1>1, SureParts DEF NextIsHighest, Compacting
<1>3. /\ StoreInv' /\ SoundDisk(files') /\ SoundFile(files'[next]) /\ ~files'[next].named
      /\ \A g \in Generation : g # next => files'[g] = files[g]
  <2>1. Becomes(files, files', next, FALSE, files[next].log, files[next].synced)
    BY <1>1, <1>2, SureParts, NameBecomes
  <2>2. QED
    BY <2>1, SureParts, StoreAbandon DEF Becomes
<1>4. ~InDoubt /\ Recovered(files) = entries /\ StoreInv
  BY <1>1, SureParts, NoDoubt, FoundIs DEF Compacting
<1>5. /\ Named(files') = Named(files) \ {next}
      /\ \A g \in Candidates(files') : g \in Candidates(files) /\ g # next
  <2>1. Named(files') = Named(files) \ {next}
    BY <1>3 DEF Named
  <2>2. \A g \in Candidates(files') : g \in Candidates(files) /\ g # next
    BY <1>3, <2>1, CandidatesAre DEF Candidates
  <2>3. QED
    BY <2>1, <2>2
<1>6. Survivors(files') \subseteq Survivors(files) \cup {Recovered(files')}
  <2>1. \A y \in Leaves(files'[next]) : \E x \in Leaves(files[next]) : Same(y, x)
    <3> SUFFICES ASSUME NEW y \in Leaves(files'[next])
                 PROVE  \E x \in Leaves(files[next]) : Same(y, x)
      OBVIOUS
    <3>1. ~Candidate(y)
      <4>1. ~Candidate(files'[next])
        BY <1>3 DEF Candidate
      <4>2. QED
        BY <1>3, <4>1, LossMakesNoCandidate
    <3>2. SoundFile(files[next]) /\ Whole(files[next].log) \in Seq(Line)
      BY <1>2, SureParts, FileFields, SoundIs DEF SoundDisk
    <3>3. PICK x \in Leaves(files[next]) : Whole(x.log) = SubSeq(Whole(files[next].log), 1, 0)
      <4>1. 0 \in 0..Len(Whole(files[next].log)) /\ files[next].synced <= 0
        BY <1>2, <3>2
      <4>2. QED
        BY <3>2, <4>1, LeafFor
    <3>4. ~Candidate(x)
      <4>1. Whole(x.log) = <<>>
        BY <3>2, <3>3, WholePrefix
      <4>2. ~Reading(<<>>).checkpointed
        BY ReadingNothing DEF Unread
      <4>3. QED
        BY <4>1, <4>2 DEF Candidate, Parses, Parsed
    <3>5. QED
      BY <3>1, <3>4 DEF Same
  <2>2. QED
    BY <1>2, <1>3, <2>1, OneNarrows
<1>7. CASE opening
  <2>1. /\ pc' = "closed" /\ opening' = FALSE /\ generation' = 0
    BY <1>1, <1>7 DEF GiveUp, Closed
  <2>2. generation = 0 /\ entries = <<>> /\ Named(files') = {}
    BY <1>1, <1>5, <1>7, SureParts DEF FirstIsAlone, Control
  <2>3. Candidates(files') = {}
    BY <2>2 DEF Candidates
  <2>4. NextIsHighest' /\ GenerationIsNewest' /\ FirstIsAlone' /\ Fallback' /\ StraysCost'
    BY <2>1, <2>3 DEF NextIsHighest, GenerationIsNewest, FirstIsAlone, Fallback, StraysCost, Compacting
  <2>5. Recovered(files') = entries
    BY <2>2, <2>3 DEF Recovered
  <2>6. QED
    BY <1>3, <1>6, <2>4, <2>5, SureNext DEF PlaceInv
<1>8. CASE ~opening
  <2>1. /\ pc' = "idle" /\ next' = 0 /\ opening' = opening /\ generation' = generation
        /\ entries' = entries /\ failed' = failed
    BY <1>1, <1>8 DEF GiveUp, memory
  <2>2. generation # 0 /\ generation \in Generation /\ generation \in Named(files)
        /\ \A h \in Candidates(files) : h <= generation \/ h = next
    BY <1>1, <1>8, SureParts, NoDoubt DEF GenerationIsNewest, Compacting
  <2>3. NextIsHighest' /\ FirstIsAlone'
    BY <1>8, <2>1 DEF NextIsHighest, FirstIsAlone, Compacting
  <2>4. GenerationIsNewest'
    BY <1>2, <1>5, <2>1, <2>2 DEF GenerationIsNewest, Compacting
  <2>5. Fallback'
    <3>1. ASSUME env.power
          PROVE  Covered(files', generation)
      <4>1. Covered(files, generation)
        BY <2>2, <3>1, SureParts DEF Fallback
      <4>2. \A g \in Generation : g < generation => files'[g] = files[g]
        BY <1>2, <1>3, SureParts, GenerationsAreNumbers
      <4>3. files'[generation] = files[generation]
        BY <1>2, <1>3, <2>2
      <4>4. QED
        BY <2>2, <4>1, <4>2, <4>3, CoveredStays
    <3>2. QED
      BY <2>1, <3>1 DEF Fallback
  <2>6. StraysCost'
    <3>1. Stray(generation)' => Stray(generation)
      BY <1>5, <2>1 DEF Stray
    <3>2. Stray(generation) => faults >= 2 /\ "sweep" \in env.calls
      BY <1>1, <2>2, SureParts DEF StraysCost
    <3>3. QED
      BY <1>1, <2>1, <3>1, <3>2 DEF StraysCost
  <2>7. Sure'
    BY <1>3, <2>3, <2>4, <2>5, <2>6, SureNext DEF PlaceInv
  <2>8. Recovered(files') = entries
    <3>1. ~InDoubt'
      BY <1>4, <2>1 DEF InDoubt
    <3>2. IsFound'
      BY <2>1, <2>7, FoundNext
    <3>3. QED
      BY <2>1, <3>1, <3>2 DEF IsFound
  <2>9. QED
    BY <1>6, <2>7, <2>8
<1>9. QED
  BY <1>7, <1>8

\* Which files a sweep takes.
LEMMA SweepFacts ==
  ASSUME Sure, Sweep, env' = env
  PROVE  /\ StoreInv' /\ pc = "sweeping" /\ generation # 0 /\ generation \in Generation
         /\ generation \in Candidates(files) /\ (\A h \in Candidates(files) : h <= generation)
         /\ Recovered(files) = entries /\ SoundDisk(files)
         /\ \E gone \in SUBSET Inactive :
              /\ SoundDisk(files') /\ Named(files') = Named(files) \ gone
              /\ \A g \in Generation : g \notin gone => files'[g] = files[g]
              /\ \A g \in gone : g \in Generation /\ ~files'[g].named
              /\ generation \notin gone
              /\ Older(files, generation) # {} => Highest(Older(files, generation)) \notin gone
              /\ IF gone = Inactive THEN NoFault ELSE "sweep" \in env.calls /\ Fault
<1>1. PICK gone \in SUBSET Inactive :
        /\ Swept(files, gone, files')
        /\ IF gone = Inactive THEN NoFault ELSE "sweep" \in env.calls /\ Fault
  BY DEF Sweep, Swept
<1>2. pc = "sweeping" /\ generation # 0 /\ SoundDisk(files) /\ StoreInv /\ ~InDoubt
  <2>1. pc = "sweeping" /\ StoreInv
    BY SureParts DEF Sweep
  <2>2. QED
    BY <2>1, NoDoubt, SureParts DEF Control, Compacting
<1>3. /\ generation \in Candidates(files) /\ generation \in Generation
      /\ (\A h \in Candidates(files) : h <= generation) /\ Recovered(files) = entries
  BY <1>2, TopIs, FoundIs DEF Compacting
<1>4. SoundDisk(files') /\ \A g \in Generation :
           /\ files'[g].named <=> files[g].named /\ g \notin gone
           /\ files'[g].log = files[g].log /\ files'[g].synced = files[g].synced
  BY <1>1, <1>2, SweptFiles
<1>5. ASSUME NEW g \in Generation, g \notin gone
      PROVE  files'[g] = files[g]
  <2>1. /\ files[g] = [named |-> files[g].named, log |-> files[g].log, synced |-> files[g].synced]
        /\ files'[g] = [named |-> files'[g].named, log |-> files'[g].log, synced |-> files'[g].synced]
        /\ files[g].named \in BOOLEAN /\ files'[g].named \in BOOLEAN
    BY <1>2, <1>4, FileFields DEF SoundDisk
  <2>2. files'[g].named = files[g].named
    BY <1>4, <1>5, <2>1
  <2>3. files'[g].log = files[g].log /\ files'[g].synced = files[g].synced
    BY <1>4
  <2>4. QED
    BY <2>1, <2>2, <2>3, Zenon
<1>6. Named(files') = Named(files) \ gone
  BY <1>4 DEF Named
<1>7. \A g \in gone : g \in Generation /\ ~files'[g].named
  BY <1>4 DEF Inactive, Named
<1>8. /\ generation \notin gone
      /\ Older(files, generation) # {} => Highest(Older(files, generation)) \notin gone
  <2>1. generation \notin gone /\ gone \cap Previous = {}
    BY <1>1 DEF Inactive
  <2>2. Older(files, generation) # {} => Previous = {Highest(Older(files, generation))}
    BY DEF Previous, Older
  <2>3. QED
    BY <2>1, <2>2
<1>9. StoreInv'
  BY <1>2, StoreSweep
<1>10. QED
  BY <1>1, <1>2, <1>3, <1>4, <1>5, <1>6, <1>7, <1>8, <1>9

\* The candidates that are left of a power loss are not newer than the journal; what is
\* found is the same with the swept files and without.
LEMMA SweptLoss ==
  ASSUME Sure, Sweep, env' = env, env.power, NEW d \in AfterPowerLoss(files')
  PROVE  \E e \in AfterPowerLoss(files) : Recovered(e) = Recovered(d)
<1>1. /\ generation # 0 /\ generation \in Generation
      /\ generation \in Candidates(files) /\ (\A h \in Candidates(files) : h <= generation)
      /\ SoundDisk(files)
  BY SweepFacts
<1>2. PICK gone \in SUBSET Inactive :
        /\ SoundDisk(files') /\ Named(files') = Named(files) \ gone
        /\ \A g \in Generation : g \notin gone => files'[g] = files[g]
        /\ \A g \in gone : g \in Generation /\ ~files'[g].named
        /\ generation \notin gone
        /\ Older(files, generation) # {} => Highest(Older(files, generation)) \notin gone
  BY SweepFacts
<1> DEFINE e == [g \in Generation |-> IF g \in gone THEN CHOOSE x : x \in Leaves(files[g]) ELSE d[g]]
<1>3. \A g \in Generation : e[g] \in Leaves(files[g]) /\ (g \notin gone => e[g] = d[g])
  <2> SUFFICES ASSUME NEW g \in Generation
               PROVE  e[g] \in Leaves(files[g]) /\ (g \notin gone => e[g] = d[g])
    OBVIOUS
  <2>1. CASE g \in gone
    <3>1. \E x : x \in Leaves(files[g])
      BY <1>1, AllIsLeft DEF SoundDisk
    <3>2. QED
      BY <2>1, <3>1
  <2>2. CASE g \notin gone
    BY <1>2, <2>2, LossIs
  <2>3. QED
    BY <2>1, <2>2
<1>4. e = [g \in Generation |-> e[g]]
  OBVIOUS
<1> HIDE DEF e
<1>5. e \in AfterPowerLoss(files)
  BY <1>3, <1>4, LossOf
<1>6. Candidates(e) \subseteq Candidates(files) /\ Candidates(d) \subseteq Candidates(files')
  BY <1>1, <1>2, <1>5, LossIsNoCandidate
<1>7. Candidates(files') \subseteq Candidates(files) \ gone
  BY <1>2, CandidatesAre DEF Candidate
<1>8. \A g \in Generation \ gone : g \in Candidates(e) <=> g \in Candidates(d)
  BY <1>3, CandidatesAre
<1>9. CASE generation \in Candidates(d)
  <2>1. generation \in Candidates(e) /\ e[generation] = d[generation]
    BY <1>1, <1>2, <1>3, <1>8, <1>9
  <2>2. Recovered(d) = Held(d[generation]) /\ Recovered(e) = Held(e[generation])
    BY <1>1, <1>6, <1>7, <1>9, <2>1, RecoveredAt
  <2>3. QED
    BY <1>5, <2>1, <2>2
<1>10. CASE generation \notin Candidates(d)
  <2>1. generation \notin Candidates(e)
    BY <1>1, <1>2, <1>8, <1>10
  <2>2. ~Firm(files[generation])
    <3>1. ~Candidate(e[generation])
      BY <1>1, <2>1, CandidatesAre
    <3>2. QED
      BY <1>1, <1>3, <3>1, FirmIsCandidate DEF SoundDisk
  <2>3. Covered(files, generation)
    BY <1>1, SureParts DEF Fallback
  <2>4. Candidates(e) \subseteq Older(files, generation) /\ Candidates(d) \subseteq Older(files, generation)
    <3>1. ASSUME NEW h \in Candidates(files), h # generation
          PROVE  h \in Older(files, generation)
      <4>1. h \in Named(files) /\ h <= generation
        BY <1>1 DEF Candidates
      <4>2. h \in Nat /\ generation \in Nat
        BY <4>1, SureParts
      <4>3. QED
        BY <3>1, <4>1, <4>2 DEF Older
    <3>2. QED
      BY <1>6, <1>7, <1>10, <2>1, <3>1
  <2>5. CASE Older(files, generation) = {}
    <3>1. Recovered(e) = <<>> /\ Recovered(d) = <<>>
      BY <2>4, <2>5 DEF Recovered
    <3>2. QED
      BY <1>5, <3>1
  <2>6. CASE Older(files, generation) # {}
    <3> DEFINE p == Highest(Older(files, generation))
    <3>1. p \in Candidates(files) /\ Entire(files[p]) /\ p \notin gone
      BY <1>2, <2>2, <2>3, <2>6 DEF Covered
    <3>2. \A h \in Older(files, generation) : h <= p
      <4>1. Older(files, generation) \in SUBSET (Generation \cup {0})
        BY DEF Older, Named
      <4>2. QED
        BY <2>6, <4>1, HighestIs
    <3> HIDE DEF p
    <3>3. p \in Generation /\ e[p] = d[p] /\ e[p] = files[p]
      BY <1>3, <1>5, <3>1, CandidatesAre, EntireStays
    <3>4. p \in Candidates(e) /\ p \in Candidates(d)
      BY <3>1, <3>3, CandidatesAre
    <3>5. Recovered(e) = Held(e[p]) /\ Recovered(d) = Held(d[p])
      BY <2>4, <3>2, <3>4, RecoveredAt
    <3>6. QED
      BY <1>5, <3>3, <3>5
  <2>7. QED
    BY <2>5, <2>6
<1>11. QED
  BY <1>9, <1>10

LEMMA PlaceSweep ==
  ASSUME Sure, Sweep, env' = env
  PROVE  /\ Sure' /\ Recovered(files') = entries
         /\ Survivors(files') \subseteq Survivors(files) \cup {Recovered(files')}
<1>1. /\ StoreInv' /\ pc = "sweeping" /\ generation # 0 /\ generation \in Generation
      /\ generation \in Candidates(files) /\ (\A h \in Candidates(files) : h <= generation)
      /\ SoundDisk(files)
  BY SweepFacts
<1>2. PICK gone \in SUBSET Inactive :
        /\ SoundDisk(files') /\ Named(files') = Named(files) \ gone
        /\ \A g \in Generation : g \notin gone => files'[g] = files[g]
        /\ \A g \in gone : g \in Generation /\ ~files'[g].named
        /\ generation \notin gone
        /\ Older(files, generation) # {} => Highest(Older(files, generation)) \notin gone
        /\ IF gone = Inactive THEN NoFault ELSE "sweep" \in env.calls /\ Fault
  BY SweepFacts
<1>3. /\ pc' = "idle" /\ opening' = FALSE /\ next' = 0 /\ generation' = generation
      /\ entries' = entries /\ failed' = failed
  BY DEF Sweep
<1>4. Candidates(files') \subseteq Candidates(files) \ gone
  BY <1>2, CandidatesAre DEF Candidate
<1>5. PlaceInv'
  <2>1. NextIsHighest' /\ FirstIsAlone'
    BY <1>3 DEF NextIsHighest, FirstIsAlone, Compacting
  <2>2. GenerationIsNewest'
    <3>1. generation \in Named(files')
      BY <1>1, <1>2 DEF Candidates
    <3>2. QED
      BY <1>1, <1>3, <1>4, <3>1 DEF GenerationIsNewest, Compacting
  <2>3. Fallback'
    <3>1. ASSUME env.power
          PROVE  Covered(files', generation)
      <4>1. Covered(files, generation) /\ files'[generation] = files[generation]
        BY <1>1, <1>2, <3>1, SureParts DEF Fallback
      <4>2. Older(files', generation) = Older(files, generation) \ gone
        BY <1>2 DEF Older
      <4>3. CASE Firm(files[generation]) \/ Older(files, generation) = {}
        BY <4>1, <4>2, <4>3 DEF Covered
      <4>4. CASE ~(Firm(files[generation]) \/ Older(files, generation) = {})
        <5> DEFINE p == Highest(Older(files, generation))
        <5>1. p \in Candidates(files) /\ Entire(files[p]) /\ p \notin gone
          BY <1>2, <4>1, <4>4 DEF Covered
        <5>2. Older(files, generation) \in SUBSET (Generation \cup {0})
          BY DEF Older, Named
        <5>3. p \in Older(files, generation) /\ \A h \in Older(files, generation) : h <= p
          BY <4>4, <5>2, HighestIs
        <5> HIDE DEF p
        <5>4. p \in Older(files', generation) /\ \A h \in Older(files', generation) : h <= p
          BY <4>2, <5>1, <5>3
        <5>5. Highest(Older(files', generation)) = p
          <6>1. Older(files', generation) \in SUBSET (Generation \cup {0})
            BY DEF Older, Named
          <6>2. QED
            BY <5>4, <6>1, HighestOf
        <5>6. files'[p] = files[p] /\ p \in Generation
          BY <1>2, <5>1, CandidatesAre
        <5>7. p \in Candidates(files')
          BY <5>1, <5>6, CandidatesAre
        <5>8. QED
          BY <5>1, <5>5, <5>6, <5>7 DEF Covered
      <4>5. QED
        BY <4>3, <4>4
    <3>2. QED
      BY <1>3, <3>1 DEF Fallback
  <2>4. StraysCost'
    <3>1. ASSUME Stray(generation)'
          PROVE  faults' >= 2 /\ "sweep" \in env.calls
      <4>1. PICK h \in Named(files') : h > generation /\ h # 0
        BY <1>3, <3>1 DEF Stray
      <4>2. h \in Named(files) /\ h \notin gone
        BY <1>2, <4>1
      <4>3. next = 0 \/ next = generation
        BY <1>1, SureParts DEF Control
      <4>4. h \in Nat /\ generation \in Nat /\ h # generation
        BY <4>1, <4>2, SureParts
      <4>5. Stray(generation)
        BY <4>1, <4>2, <4>3, <4>4 DEF Stray
      <4>6. faults >= 1
        BY <1>1, <4>5, SureParts DEF StraysCost
      <4>7. h \notin Previous
        <5>1. ASSUME Older(files, generation) # {}
              PROVE  Highest(Older(files, generation)) < generation
          <6>1. Older(files, generation) \in SUBSET (Generation \cup {0})
            BY DEF Older, Named
          <6>2. Highest(Older(files, generation)) \in Older(files, generation)
            BY <5>1, <6>1, HighestIs
          <6>3. QED
            BY <6>2 DEF Older
        <5>2. h \in Previous => h < generation
          BY <5>1 DEF Previous, Older
        <5>3. QED
          BY <4>1, <4>4, <5>2
      <4>8. h \in Inactive
        BY <4>2, <4>4, <4>7 DEF Inactive
      <4>9. "sweep" \in env.calls /\ faults' = faults + 1
        BY <1>2, <4>2, <4>8 DEF Fault
      <4>10. QED
        BY <4>6, <4>9, SureParts
    <3>2. QED
      BY <1>3, <3>1 DEF StraysCost
  <2>5. QED
    BY <2>1, <2>2, <2>3, <2>4 DEF PlaceInv
<1>6. Sure'
  BY <1>1, <1>5, SureNext
<1>7. Recovered(files') = entries
  <2>1. ~InDoubt'
    BY <1>1, <1>3, SureParts DEF InDoubt, Control
  <2>2. IsFound'
    BY <1>3, <1>6, FoundNext
  <2>3. QED
    BY <1>3, <2>1, <2>2 DEF IsFound
<1>8. Survivors(files') \subseteq Survivors(files) \cup {Recovered(files')}
  BY SweptLoss DEF Survivors
<1>9. QED
  BY <1>6, <1>7, <1>8

\* The process dies, or closes the store.
LEMMA PlaceStop ==
  ASSUME Sure, Stop, env' = env
  PROVE  Sure' /\ files' = files
<1>1. /\ pc # "closed" /\ pc' = "closed" /\ opening' = FALSE /\ generation' = 0 /\ next' = 0
      /\ files' = files /\ (pc = "idle" => faults' = faults)
      /\ (pc # "idle" => faults' = faults + 1 /\ faults < MaxFaults)
  BY DEF Stop, Closed, Fault, NoFault
<1>2. faults' \in Nat /\ faults' >= faults
  BY <1>1, SureParts
<1>3. NextIsHighest' /\ GenerationIsNewest' /\ FirstIsAlone'
  BY <1>1 DEF NextIsHighest, GenerationIsNewest, FirstIsAlone, Compacting
<1>4. CASE generation = 0
  <2>1. Named(files) \subseteq {next}
    BY <1>1, <1>4, SureParts DEF FirstIsAlone, Control
  <2>2. ASSUME Candidates(files) # {}
        PROVE  Highest(Candidates(files)) = next /\ next \in Nat /\ Older(files, next) = {}
    <3>1. next \in Candidates(files) /\ \A h \in Candidates(files) : h <= next
      BY <2>1, <2>2, SureParts DEF Candidates
    <3>2. QED
      BY <2>1, <3>1, RecoveredAt, SureParts DEF Older
  <2>3. Fallback'
    BY <1>1, <2>2 DEF Fallback, Covered
  <2>4. StraysCost'
    <3>1. Candidates(files') # {} => ~Stray(Highest(Candidates(files)))'
      BY <1>1, <2>1, <2>2, SureParts DEF Stray
    <3>2. QED
      BY <1>1, <3>1 DEF StraysCost
  <2>5. QED
    BY <1>1, <1>3, <2>3, <2>4, SureParts, StoreStop, SureNext DEF PlaceInv
<1>5. CASE generation # 0 /\ Highest(Candidates(files)) = generation
  <2>1. Fallback'
    <3>1. env.power => Covered(files, generation)
      BY <1>5, SureParts DEF Fallback
    <3>2. QED
      BY <1>1, <1>5, <3>1 DEF Fallback
  <2>2. StraysCost'
    <3>1. ASSUME Stray(Highest(Candidates(files)))'
          PROVE  faults' >= 1
      <4>1. PICK h \in Named(files) : h > generation
        BY <1>1, <1>5, <3>1 DEF Stray
      <4>2. CASE h = next
        <5>1. pc # "idle"
          BY <4>1, <4>2, SureParts DEF Control
        <5>2. QED
          BY <1>1, <5>1, SureParts
      <4>3. CASE h # next
        <5>1. Stray(generation)
          BY <4>1, <4>3 DEF Stray
        <5>2. faults >= 1
          BY <1>5, <5>1, SureParts DEF StraysCost
        <5>3. QED
          BY <1>2, <5>2, SureParts
      <4>4. QED
        BY <4>2, <4>3
    <3>2. QED
      BY <1>1, <3>1 DEF StraysCost
  <2>3. QED
    BY <1>1, <1>3, <2>1, <2>2, SureParts, StoreStop, SureNext DEF PlaceInv
<1>6. CASE /\ generation # 0 /\ pc \in Compacting /\ next \in Candidates(files)
           /\ Highest(Candidates(files)) = next
  <2>1. /\ next \in Named(files) /\ (\A h \in Named(files) : h <= next) /\ generation < next
        /\ generation \in Candidates(files) /\ generation \in Named(files)
        /\ files[generation].synced = committed /\ generation \in Generation
    BY <1>1, <1>6, SureParts, TopIs DEF NextIsHighest, GenerationIsNewest
  <2>2. Entire(files[generation])
    <3>1. StoreInv
      BY SureParts
    <3>2. Journal = Written
      BY <1>6, <3>1, NoDoubt
    <3>3. Len(Journal) = committed
      BY <1>6, <3>1, <3>2, JournalFacts
    <3>4. QED
      BY <2>1, <3>3 DEF Entire, Journal
  <2>3. ASSUME env.power
        PROVE  Covered(files, next)
    <3>1. ~Stray(generation)
      <4>1. ASSUME Stray(generation)
            PROVE  FALSE
        <5>1. faults >= 2 /\ "sweep" \in env.calls
          BY <1>6, <4>1, SureParts DEF StraysCost, Compacting
        <5>2. env \in Environments
          BY SureParts DEF StoreInv, TypeOK
        <5>3. MaxFaults <= 2
          BY <2>3, <5>1, <5>2, SureParts DEF FewFaults
        <5>4. faults < MaxFaults
          BY <1>1, <1>6 DEF Compacting
        <5>5. QED
          BY <5>1, <5>3, <5>4, SureParts
      <4>2. QED
        BY <4>1
    <3>2. generation \in Older(files, next) /\ \A h \in Older(files, next) : h <= generation
      <4>1. generation \in Older(files, next)
        BY <2>1 DEF Older
      <4>2. ASSUME NEW h \in Older(files, next)
            PROVE  h <= generation
        <5>1. h \in Named(files) /\ h < next
          BY <4>2 DEF Older
        <5>2. h \in Nat /\ generation \in Nat /\ next \in Nat /\ h # next
          BY <5>1, SureParts
        <5>3. ~(h > generation)
          BY <3>1, <5>1, <5>2 DEF Stray
        <5>4. QED
          BY <5>2, <5>3
      <4>3. QED
        BY <4>1, <4>2
    <3>3. Highest(Older(files, next)) = generation
      <4>1. Older(files, next) \in SUBSET (Generation \cup {0})
        BY DEF Older, Named
      <4>2. QED
        BY <3>2, <4>1, HighestOf
    <3>4. QED
      BY <2>1, <2>2, <3>3 DEF Covered
  <2>4. Fallback'
    BY <1>1, <1>6, <2>3 DEF Fallback
  <2>5. StraysCost'
    <3>1. ~Stray(Highest(Candidates(files)))'
      <4>1. ASSUME NEW h \in Named(files), h > next
            PROVE  FALSE
        <5>1. h \in Nat /\ next \in Nat /\ h <= next
          BY <2>1, SureParts
        <5>2. QED
          BY <4>1, <5>1
      <4>2. QED
        BY <1>1, <1>6, <4>1 DEF Stray
    <3>2. QED
      BY <1>1, <3>1 DEF StraysCost
  <2>6. QED
    BY <1>1, <1>3, <2>4, <2>5, SureParts, StoreStop, SureNext DEF PlaceInv
<1>7. QED
  BY <1>1, <1>4, <1>5, <1>6, TopIs

\* The machine stops.
LEMMA PlaceLosePower ==
  ASSUME Sure, LosePower, env' = env
  PROVE  /\ Sure' /\ Recovered(files') \in Survivors(files)
         /\ Survivors(files') = {Recovered(files')}
<1>1. /\ env.power /\ files' \in AfterPowerLoss(files) /\ faults' = faults + 1
      /\ pc' = "closed" /\ opening' = FALSE /\ generation' = 0 /\ next' = 0
  BY DEF LosePower, Closed, Fault
<1>2. SoundDisk(files') /\ \A g \in Generation : Entire(files'[g]) /\ SoundFile(files'[g])
  BY <1>1, SureParts, LossIsSound DEF SoundDisk
<1>3. Fallback'
  <2>1. ASSUME Candidates(files') # {}
        PROVE  Firm(files'[Highest(Candidates(files'))])
    <3> DEFINE c == Highest(Candidates(files'))
    <3>1. c \in Candidates(files')
      BY <2>1, HighestCandidate
    <3> HIDE DEF c
    <3>2. c \in Generation /\ Candidate(files'[c])
      BY <3>1, CandidatesAre
    <3>3. Firm(files'[c])
      BY <1>2, <3>2, EntireIsFirm
    <3>4. QED
      BY <3>3 DEF c
  <2>2. QED
    BY <1>1, <2>1 DEF Fallback, Covered
<1>4. NextIsHighest' /\ GenerationIsNewest' /\ FirstIsAlone'
  BY <1>1 DEF NextIsHighest, GenerationIsNewest, FirstIsAlone, Compacting
<1>5. StraysCost'
  <2>1. faults' >= 1
    BY <1>1, SureParts
  <2>2. QED
    BY <1>1, <2>1 DEF StraysCost
<1>6. Sure'
  BY <1>3, <1>4, <1>5, SureParts, StoreStop, SureNext DEF PlaceInv
<1>7. Recovered(files') \in Survivors(files)
  BY <1>1 DEF Survivors
<1>8. Survivors(files') = {Recovered(files')}
  BY <1>2, AllEntire
<1>9. QED
  BY <1>6, <1>7, <1>8

---------------------------------------------------------------------------
(* What a start finds, and what the owner was promised                     *)

\* The history variables, in a step.
Seen == found' = Recovered(files') /\ left' = Survivors(files') /\ env' = env

LEMMA LooksStay == Looks /\ [Next]_vars => Looks'
<1>1. CASE UNCHANGED vars
  BY <1>1 DEF vars, Looks, Survivors
<1>2. CASE Next
  BY <1>2 DEF Next, Looks, Survivors
<1>3. QED
  BY <1>1, <1>2

\* What the owner believes is stored.
Known == IF pc = "closed" \/ opening THEN NoOwner ELSE entries

LEMMA KnownIs ==
  ASSUME StoreInv, pc # "closed", ~opening
  PROVE  Known = entries /\ Known # NoOwner
<1>1. entries \in Seq(Key)
  BY DEF StoreInv, TypeOK
<1>2. entries # <<None>>
  <2>1. ASSUME entries = <<None>>
        PROVE  FALSE
    <3>1. entries[1] = None /\ 1 \in 1..Len(entries)
      BY <2>1
    <3>2. entries[1] \in Key
      BY <1>1, <3>1
    <3>3. QED
      BY <3>1, <3>2, NoneIsNoKey
  <2>2. QED
    BY <2>1
<1>3. QED
  BY <1>2 DEF Known, NoOwner

\* An operation that may be requested has, on the queue, the effect of its record.
LEMMA RequestIs ==
  ASSUME StoreInv, NEW r \in Requests, Allowed(r)
  PROVE  r \in Queue!Operation(entries) /\ Queue!Effect(r, entries) = Apply(entries, r)
<1>1. r.kind \in {"put", "remove"} /\ r.key \in Key
  BY Lines
<1>2. r = [kind |-> r.kind, key |-> r.key]
  BY DEF Requests, Record
<1>3. CASE r.kind = "put"
  <2>1. r.key \in Key \ ToSet(entries)
    BY <1>1, <1>3 DEF Allowed
  <2>2. r \in [kind : {"put"}, key : Key \ ToSet(entries)]
    BY <1>2, <1>3, <2>1
  <2>3. r \in Queue!Operation(entries)
    BY <2>2 DEF Queue!Operation, Queue!ToSet, ToSet
  <2>4. Queue!Effect(r, entries) = Apply(entries, r)
    BY <1>3 DEF Queue!Effect, Apply
  <2>5. QED
    BY <2>3, <2>4
<1>4. CASE r.kind = "remove"
  <2>1. r.key \in ToSet(entries)
    BY <1>4 DEF Allowed
  <2>2. r \in [kind : {"remove"}, key : ToSet(entries)]
    BY <1>2, <1>4, <2>1
  <2>3. r \in Queue!Operation(entries)
    BY <2>2 DEF Queue!Operation, Queue!ToSet, ToSet
  <2>4. Queue!Effect(r, entries) = RemoveAt(entries, Place(entries, r.key))
    BY <1>4 DEF Queue!Effect, Queue!RemoveAt, RemoveAt, Place
  <2>5. Apply(entries, r) = RemoveAt(entries, Place(entries, r.key))
    BY <1>4, <2>1 DEF Apply
  <2>6. QED
    BY <2>3, <2>4, <2>5
<1>5. QED
  BY <1>1, <1>3, <1>4

\* A step the owner does not see.
LEMMA Confirms ==
  ASSUME Looks, Seen, Recovered(files') = Recovered(files),
         Survivors(files') \subseteq Survivors(files) \cup {Recovered(files')},
         Known' = Known, op' = op, failed' = failed
  PROVE  Queue!QNext
<1>1. found' = found /\ found' \in left' /\ left' \subseteq left \cup {found'}
  BY FoundSurvives DEF Looks, Seen
<1>2. Queue!FirmsUp
  BY <1>1 DEF Queue!FirmsUp
<1>3. Queue!Confirm
  BY <1>1, <1>2 DEF Queue!Confirm, Known
<1>4. QED
  BY <1>3 DEF Queue!QNext

LEMMA NothingSeen ==
  ASSUME Looks, Seen, files' = files, Known' = Known, op' = op, failed' = failed
  PROVE  Queue!QNext
<1>1. Recovered(files') = Recovered(files) /\ Survivors(files') = Survivors(files)
  OBVIOUS
<1>2. QED
  BY <1>1, Confirms

\* An append begins.
LEMMA QueueBegins ==
  ASSUME Sure, Looks, Seen, NEW r \in Requests, Write(r) \/ WriteFails(r)
  PROVE  Queue!QNext
<1>1. /\ pc = "idle" /\ ~failed /\ ~opening /\ op = NoOp /\ Allowed(r) /\ op' = r
      /\ pc' \in {"written", "failing"} /\ opening' = opening /\ entries' = entries /\ failed' = failed
  BY SureParts, UsableFacts DEF Write, WriteFails, Requested, memory
<1>2. /\ Recovered(files') \in {entries, Apply(entries, r)}
      /\ Survivors(files') \subseteq Survivors(files) \cup {Recovered(files')}
  BY PlaceWrite, PlaceWriteFails DEF Seen
<1>3. Known = entries /\ Known # NoOwner /\ Known' = Known
  BY <1>1, SureParts, KnownIs DEF Known
<1>4. r \in Queue!Operation(Known) /\ Queue!Effect(r, Known) = Apply(entries, r)
  BY <1>1, <1>3, SureParts, RequestIs
<1>5. found' \in {Known, Queue!Effect(r, Known)} /\ found' \in left' /\ left' \subseteq left \cup {found'}
  BY <1>2, <1>3, <1>4, FoundSurvives DEF Looks, Seen
<1>6. Queue!Begin
  BY <1>1, <1>3, <1>4, <1>5 DEF Queue!Begin, Queue!FirmsUp, Known
<1>7. QED
  BY <1>6 DEF Queue!QNext

\* An append ends.
LEMMA QueueReturns ==
  ASSUME Sure, Looks, Seen, Commit
  PROVE  Queue!QNext
<1>1. /\ pc = "written" /\ entries' = Apply(entries, op) /\ pc' \in {"idle", "compacting"}
      /\ op' = NoOp /\ opening' = opening /\ failed' = failed
  BY DEF Commit
<1>2. InDoubt /\ ~failed /\ StoreInv
  BY <1>1, SureParts DEF InDoubt, Control
<1>3. op \in Requests /\ Allowed(op) /\ ~opening /\ op # NoOp
  BY <1>2, DoubtFacts, Lines
<1>4. Known = entries /\ Known' = entries'
  BY <1>1, <1>2, <1>3, KnownIs DEF Known
<1>5. found' = entries' /\ left' = {found'}
  BY <1>1, PlaceCommit DEF Seen
<1>6. Queue!Effect(op, Known) = entries'
  BY <1>1, <1>2, <1>3, <1>4, RequestIs
<1>7. Queue!Return
  BY <1>1, <1>2, <1>3, <1>4, <1>5, <1>6 DEF Queue!Return, Known
<1>8. QED
  BY <1>7 DEF Queue!QNext

LEMMA QueueThrows ==
  ASSUME Sure, Looks, Seen, RollBack
  PROVE  Queue!QNext
<1>1. /\ pc = "failing" /\ entries' = entries /\ pc' = "idle"
      /\ op' = NoOp /\ opening' = opening /\ failed' = failed
  BY DEF RollBack, memory
<1>2. InDoubt /\ ~failed /\ StoreInv
  BY <1>1, SureParts DEF InDoubt, Control
<1>3. op \in Requests /\ ~opening /\ op # NoOp
  BY <1>2, DoubtFacts, Lines
<1>4. Known = entries /\ Known' = Known
  BY <1>1, <1>2, <1>3, KnownIs DEF Known
<1>5. found' = entries /\ left' = {found'}
  BY PlaceRollBack DEF Seen
<1>6. Queue!Throw
  BY <1>1, <1>2, <1>3, <1>4, <1>5 DEF Queue!Throw, Known
<1>7. QED
  BY <1>6 DEF Queue!QNext

LEMMA QueueBreaks ==
  ASSUME Sure, Looks, Seen, RollBackFails
  PROVE  Queue!QNext
<1>1. /\ pc = "failing" /\ entries' = entries /\ pc' = "idle"
      /\ op' = op /\ opening' = opening /\ failed' = TRUE
  BY DEF RollBackFails
<1>2. InDoubt /\ StoreInv
  BY <1>1, SureParts DEF InDoubt
<1>3. op \in Requests /\ Allowed(op) /\ ~opening /\ op # NoOp
  BY <1>2, DoubtFacts, Lines
<1>4. Known = entries /\ Known' = Known
  BY <1>1, <1>2, <1>3, KnownIs DEF Known
<1>5. Recovered(files) \in {entries, Apply(entries, op)}
  BY <1>1, <1>2, FoundIs
<1>6. /\ Recovered(files') \in {entries, Recovered(files)}
      /\ Survivors(files') \subseteq Survivors(files) \cup {Recovered(files')}
  BY PlaceRollBackFails DEF Seen
<1>7. Queue!Effect(op, Known) = Apply(entries, op)
  BY <1>2, <1>3, <1>4, RequestIs
<1>8. found' \in {Known, Queue!Effect(op, Known)} /\ found' \in left' /\ left' \subseteq left \cup {found'}
  BY <1>4, <1>5, <1>6, <1>7, FoundSurvives DEF Looks, Seen
<1>9. Queue!Break
  BY <1>1, <1>3, <1>4, <1>8 DEF Queue!Break, Queue!FirmsUp, Known
<1>10. QED
  BY <1>9 DEF Queue!QNext

\* While it makes or sweeps generations the store does not promise anything new.
LEMMA Unpromised ==
  ASSUME StoreInv, pc \in {"compacting", "sweeping"} \cup Compacting, GiveUp
  PROVE  op' = op /\ failed' = failed /\ Known' = Known
<1>1. op = NoOp /\ ~failed
  BY NoDoubt
<1>2. CASE opening
  <2>1. failed = FALSE
    BY <1>1 DEF StoreInv, TypeOK
  <2>2. QED
    BY <1>1, <1>2, <2>1 DEF GiveUp, Closed, Known
<1>3. CASE ~opening
  <2>1. pc # "closed"
    BY DEF Compacting
  <2>2. QED
    BY <1>3, <2>1 DEF GiveUp, memory, Known
<1>4. QED
  BY <1>2, <1>3

LEMMA QueueCompacts ==
  ASSUME Sure, Looks, Seen,
         \/ OpenEmpty \/ OpenNewest \/ SyncFails \/ CreateGeneration
         \/ CreateGenerationFails \/ NoMoreGenerations \/ FillGeneration \/ FillGenerationFails
         \/ SwitchGeneration \/ SwitchGenerationFails \/ Abandon
  PROVE  Queue!QNext
<1>1. StoreInv /\ env' = env
  BY SureParts DEF Seen
<1>2. CASE OpenEmpty
  <2>1. op' = op /\ failed' = failed /\ Known' = Known
    BY <1>2 DEF OpenEmpty, Known
  <2>2. QED
    BY <1>1, <1>2, <2>1, PlaceOpenEmpty, NothingSeen
<1>3. CASE OpenNewest
  <2>1. op' = op /\ failed' = failed /\ Known' = Known
    BY <1>3 DEF OpenNewest, Known
  <2>2. QED
    BY <1>1, <1>3, <2>1, PlaceOpenNewest, Confirms
<1>4. CASE SyncFails
  <2>1. op' = op /\ failed' = failed /\ Known' = Known
    BY <1>4 DEF SyncFails, memory, Known
  <2>2. QED
    BY <1>1, <1>4, <2>1, PlaceSyncFails, NothingSeen
<1>5. CASE CreateGeneration
  <2>1. op' = op /\ failed' = failed /\ Known' = Known
    BY <1>5 DEF CreateGeneration, memory, Known
  <2>2. QED
    BY <1>1, <1>5, <2>1, PlaceCreateGeneration, Confirms
<1>6. CASE CreateGenerationFails \/ NoMoreGenerations
  <2>1. op' = op /\ failed' = failed /\ Known' = Known
    BY <1>1, <1>6, Unpromised DEF CreateGenerationFails, NoMoreGenerations
  <2>2. QED
    BY <1>1, <1>6, <2>1, PlaceCreateGenerationFails, NothingSeen
<1>7. ASSUME pc \in Compacting
      PROVE  Recovered(files) = entries
  <2>1. ~InDoubt /\ pc # "closed"
    BY <1>1, <1>7, NoDoubt DEF Compacting
  <2>2. QED
    BY <2>1, FoundIs
<1>8. CASE FillGeneration \/ FillGenerationFails
  <2>1. pc \in Compacting /\ op' = op /\ failed' = failed /\ Known' = Known
    BY <1>8 DEF FillGeneration, FillGenerationFails, memory, Known, Compacting
  <2>2. QED
    BY <1>1, <1>7, <1>8, <2>1, PlaceFillGeneration, Confirms
<1>9. CASE SwitchGeneration
  <2>1. pc \in Compacting /\ op' = op /\ failed' = failed /\ Known' = Known
    BY <1>9 DEF SwitchGeneration, Known, Compacting
  <2>2. QED
    BY <1>1, <1>7, <1>9, <2>1, PlaceSwitchGeneration, Confirms
<1>10. CASE SwitchGenerationFails
  <2>1. op' = op /\ failed' = failed /\ Known' = Known
    BY <1>10 DEF SwitchGenerationFails, memory, Known
  <2>2. QED
    BY <1>1, <1>10, <2>1, PlaceSwitchGenerationFails, NothingSeen
<1>11. CASE Abandon
  <2>1. pc \in Compacting /\ GiveUp
    BY <1>11 DEF Abandon, Compacting
  <2>2. op' = op /\ failed' = failed /\ Known' = Known
    BY <1>1, <2>1, Unpromised
  <2>3. QED
    BY <1>1, <1>7, <1>11, <2>1, <2>2, PlaceAbandon, Confirms
<1>12. QED
  BY <1>2, <1>3, <1>4, <1>5, <1>6, <1>8, <1>9, <1>10, <1>11

\* The constructor returns.
LEMMA QueueOpens ==
  ASSUME Sure, Looks, Seen, Sweep
  PROVE  Queue!QNext
<1>1. /\ StoreInv /\ pc = "sweeping" /\ Recovered(files) = entries
      /\ Recovered(files') = entries /\ entries' = entries /\ op' = op /\ failed' = failed
      /\ pc' = "idle" /\ opening' = FALSE
      /\ Survivors(files') \subseteq Survivors(files) \cup {Recovered(files')}
  BY SureParts, SweepFacts, PlaceSweep DEF Sweep, Seen
<1>2. CASE opening
  <2>1. /\ Known = NoOwner /\ Known' = found /\ found' = found /\ found' \in left'
        /\ left' \subseteq left \cup {found'}
    BY <1>1, <1>2, FoundSurvives DEF Known, Looks, Seen
  <2>2. Queue!Open
    BY <1>1, <2>1 DEF Queue!Open, Queue!FirmsUp, Known
  <2>3. QED
    BY <2>2 DEF Queue!QNext
<1>3. CASE ~opening
  BY <1>1, <1>3, Confirms DEF Known
<1>4. QED
  BY <1>2, <1>3

\* The owner, or the machine, stops.
LEMMA QueueStops ==
  ASSUME Sure, Looks, Seen, Stop \/ LosePower
  PROVE  [Queue!QNext]_(Queue!qvars)
<1>1. /\ Known' = NoOwner /\ op' = NoOp /\ failed' = FALSE /\ StoreInv
      /\ pc' = "closed"
  BY SureParts DEF Stop, LosePower, Closed, Known
<1>2. CASE LosePower
  <2>1. found' \in left /\ left' = {found'}
    BY <1>2, PlaceLosePower DEF Looks, Seen
  <2>2. Queue!LosePower
    BY <1>1, <2>1 DEF Queue!LosePower, Queue!Gone, Known
  <2>3. QED
    BY <2>2 DEF Queue!QNext
<1>3. CASE Stop /\ ~opening
  <2>1. found' = found /\ left' = left /\ pc # "closed"
    BY <1>3, PlaceStop DEF Looks, Seen, Stop, Survivors
  <2>2. Known # NoOwner
    BY <1>1, <1>3, <2>1, KnownIs
  <2>3. Queue!Stop
    BY <1>1, <2>1, <2>2 DEF Queue!Stop, Queue!Gone, Known
  <2>4. QED
    BY <2>3 DEF Queue!QNext
<1>4. CASE Stop /\ opening
  <2>1. files' = files
    BY <1>4, PlaceStop DEF Seen
  <2>2. pc \in {"compacting", "sweeping"} \cup Compacting /\ failed \in BOOLEAN
    BY <1>1, <1>4 DEF StoreInv, TypeOK, Control
  <2>3. op = NoOp /\ ~failed /\ Known = NoOwner
    BY <1>1, <1>4, <2>2, NoDoubt DEF Known
  <2>4. op' = op /\ failed' = failed /\ Known' = Known
    BY <1>1, <2>2, <2>3
  <2>5. QED
    BY <2>1, <2>4, NothingSeen
<1>5. QED
  BY <1>2, <1>3, <1>4

\* Every step is one of the durable queue.
LEMMA QueueSteps == Sure /\ Looks /\ [Next]_vars => Sure' /\ [Queue!QNext]_(Queue!qvars)
<1> SUFFICES ASSUME Sure, Looks, [Next]_vars
             PROVE  Sure' /\ [Queue!QNext]_(Queue!qvars)
  OBVIOUS
<1>1. CASE UNCHANGED vars
  <2>1. StoreInv' /\ env' = env
    BY <1>1, SureParts, StoreStays DEF vars
  <2>2. PlaceInv'
    BY <1>1 DEF vars, memory, history, Sure, PlaceInv, NextIsHighest, GenerationIsNewest,
                FirstIsAlone, Fallback, StraysCost, Stray
  <2>3. UNCHANGED Queue!qvars
    BY <1>1 DEF vars, memory, Queue!qvars
  <2>4. QED
    BY <2>1, <2>2, <2>3, SureNext
<1>2. CASE Next
  <2>1. Step /\ Seen /\ env' = env
    BY <1>2 DEF Next, Seen
  <2>2. ASSUME NEW r \in Requests, Write(r) \/ WriteFails(r)
        PROVE  Sure' /\ Queue!QNext
    BY <2>1, <2>2, PlaceWrite, PlaceWriteFails, QueueBegins
  <2>3. CASE Commit \/ RollBack \/ RollBackFails
    BY <2>1, <2>3, PlaceCommit, PlaceRollBack, PlaceRollBackFails, QueueReturns, QueueThrows,
       QueueBreaks
  <2>4. CASE \/ OpenEmpty \/ OpenNewest \/ SyncFails \/ CreateGeneration
             \/ CreateGenerationFails \/ NoMoreGenerations
    <3>1. Sure'
      BY <2>1, <2>4, PlaceOpenEmpty, PlaceOpenNewest, PlaceSyncFails, PlaceCreateGeneration,
         PlaceCreateGenerationFails
    <3>2. QED
      BY <2>1, <2>4, <3>1, QueueCompacts
  <2>5. CASE \/ FillGeneration \/ FillGenerationFails
             \/ SwitchGeneration \/ SwitchGenerationFails \/ Abandon
    <3>1. Sure'
      BY <2>1, <2>5, PlaceFillGeneration, PlaceSwitchGeneration, PlaceSwitchGenerationFails,
         PlaceAbandon
    <3>2. QED
      BY <2>1, <2>5, <3>1, QueueCompacts
  <2>6. CASE Sweep
    BY <2>1, <2>6, PlaceSweep, QueueOpens
  <2>7. CASE Stop \/ LosePower
    BY <2>1, <2>7, PlaceStop, PlaceLosePower, QueueStops
  <2>8. ~SweepFails
    BY SureParts DEF SweepFails, Dependable
  <2>9. QED
    BY <2>1, <2>2, <2>3, <2>4, <2>5, <2>6, <2>7, <2>8 DEF Step
<1>3. QED
  BY <1>1, <1>2

\* What a queue that is neither kept nor dropped from any more agrees with.
LEMMA AgreesLess ==
  ASSUME NEW q, Agrees(q), kept' \subseteq kept, dropped' \subseteq dropped
  PROVE  kept' \subseteq ToSet(q) /\ dropped' \cap ToSet(q) = {}
  BY DEF Agrees

\* Nothing is promised or taken back, and nothing new is found.
LEMMA RememberedStays ==
  ASSUME Looks, Seen, Remembered, kept' = kept, dropped' = dropped,
         Survivors(files') \subseteq Survivors(files) \cup {Recovered(files')},
         Recovered(files') \in Survivors(files) \/ (generation # 0 /\ Recovered(files') = entries),
         generation' # 0 => \/ entries' \in Survivors(files)
                            \/ generation # 0 /\ entries' = entries
  PROVE  Remembered'
<1>1. \A q \in Survivors(files) : Agrees(q)
  BY DEF Remembered, Looks
<1>2. generation # 0 => Agrees(entries)
  BY DEF Remembered
<1>3. \A q : Agrees(q) => kept' \subseteq ToSet(q) /\ dropped' \cap ToSet(q) = {}
  BY AgreesLess
<1>4. \A q \in Survivors(files') : Agrees(q)
  BY <1>1, <1>2
<1>5. \A q \in left' : kept' \subseteq ToSet(q) /\ dropped' \cap ToSet(q) = {}
  BY <1>3, <1>4 DEF Seen
<1>6. generation' # 0 => kept' \subseteq ToSet(entries') /\ dropped' \cap ToSet(entries') = {}
  BY <1>1, <1>2, <1>3
<1>7. QED
  BY <1>5, <1>6 DEF Remembered, Agrees

\* A put that begins is no longer dropped; a remove that begins, no longer kept.
LEMMA RememberedBegins ==
  ASSUME Sure, Looks, Seen, Remembered, NEW r \in Requests, Write(r) \/ WriteFails(r)
  PROVE  Remembered'
<1>1. /\ generation # 0 /\ Allowed(r) /\ generation' = generation /\ entries' = entries
      /\ kept' = (IF r.kind = "remove" THEN kept \ {r.key} ELSE kept)
      /\ dropped' = (IF r.kind = "put" THEN dropped \ {r.key} ELSE dropped)
  BY SureParts, UsableFacts DEF Write, WriteFails, Requested, memory
<1>2. /\ Recovered(files') \in {entries, Apply(entries, r)}
      /\ Survivors(files') \subseteq Survivors(files) \cup {Recovered(files')}
  BY PlaceWrite, PlaceWriteFails DEF Seen
<1>3. kept' \subseteq kept /\ dropped' \subseteq dropped
  BY <1>1
<1>4. \A q : Agrees(q) => kept' \subseteq ToSet(q) /\ dropped' \cap ToSet(q) = {}
  BY <1>3, AgreesLess
<1>5. (\A q \in Survivors(files) : Agrees(q)) /\ Agrees(entries)
  BY <1>1 DEF Remembered, Looks
<1>6. entries \in Seq(Key) /\ Distinct(entries)
  BY SureParts, EntriesAreDistinct
<1>7. kept' \subseteq ToSet(Apply(entries, r)) /\ dropped' \cap ToSet(Apply(entries, r)) = {}
  <2>1. CASE r.kind = "put" /\ r.key \notin ToSet(entries)
    <3>1. ToSet(Apply(entries, r)) = ToSet(entries) \cup {r.key}
      BY <1>6, <2>1, ApplyPut
    <3>2. dropped' = dropped \ {r.key} /\ kept' = kept
      BY <1>1, <2>1
    <3>3. QED
      BY <1>5, <3>1, <3>2 DEF Agrees
  <2>2. CASE r.kind = "remove" /\ r.key \in ToSet(entries)
    <3>1. ToSet(Apply(entries, r)) = ToSet(entries) \ {r.key}
      BY <1>6, <2>2, ApplyRemove
    <3>2. kept' = kept \ {r.key} /\ dropped' = dropped
      BY <1>1, <2>2
    <3>3. QED
      BY <1>5, <3>1, <3>2 DEF Agrees
  <2>3. QED
    BY <1>1, <2>1, <2>2 DEF Allowed
<1>8. \A q \in left' : kept' \subseteq ToSet(q) /\ dropped' \cap ToSet(q) = {}
  <2> SUFFICES ASSUME NEW q \in left'
               PROVE  kept' \subseteq ToSet(q) /\ dropped' \cap ToSet(q) = {}
    OBVIOUS
  <2>1. q \in Survivors(files) \/ q = entries \/ q = Apply(entries, r)
    BY <1>2 DEF Seen
  <2>2. QED
    BY <1>4, <1>5, <1>7, <2>1
<1>9. kept' \subseteq ToSet(entries') /\ dropped' \cap ToSet(entries') = {}
  BY <1>1, <1>4, <1>5
<1>10. QED
  BY <1>8, <1>9 DEF Remembered, Agrees

\* A put that returns is kept from now on; a remove that returns, dropped.
LEMMA RememberedReturns ==
  ASSUME Sure, Looks, Seen, Remembered, Commit
  PROVE  Remembered'
<1>1. /\ pc = "written" /\ entries' = Apply(entries, op)
      /\ kept' = (IF op.kind = "put" THEN kept \cup {op.key} ELSE kept)
      /\ dropped' = (IF op.kind = "remove" THEN dropped \cup {op.key} ELSE dropped)
  BY DEF Commit
<1>2. InDoubt /\ ~failed /\ StoreInv
  BY <1>1, SureParts DEF InDoubt, Control
<1>3. op \in Requests /\ Allowed(op) /\ generation # 0
  BY <1>2, DoubtFacts
<1>4. Journal = Append(Written, op)
  BY <1>1, <1>2, <1>3 DEF StoreInv, JournalIsRead
<1>5. Recovered(files) = Apply(entries, op)
  BY <1>1, <1>2, <1>4, FoundIs
<1> DEFINE a == Apply(entries, op)
<1>6. Agrees(a) /\ left' = {a} /\ entries' = a
  BY <1>1, <1>5, FoundSurvives, PlaceCommit DEF Looks, Seen, Remembered
<1>7. entries \in Seq(Key) /\ Distinct(entries)
  BY <1>2, EntriesAreDistinct
<1>8. kept' \subseteq ToSet(a) /\ dropped' \cap ToSet(a) = {}
  <2>1. CASE op.kind = "put" /\ op.key \notin ToSet(entries)
    <3>1. ToSet(a) = ToSet(entries) \cup {op.key}
      BY <1>3, <1>7, <2>1, ApplyPut
    <3>2. dropped' = dropped /\ kept' = kept \cup {op.key}
      BY <1>1, <2>1
    <3> HIDE DEF a
    <3>3. QED
      BY <1>6, <3>1, <3>2 DEF Agrees
  <2>2. CASE op.kind = "remove" /\ op.key \in ToSet(entries)
    <3>1. ToSet(a) = ToSet(entries) \ {op.key}
      BY <1>3, <1>7, <2>2, ApplyRemove
    <3>2. kept' = kept /\ dropped' = dropped \cup {op.key}
      BY <1>1, <2>2
    <3> HIDE DEF a
    <3>3. QED
      BY <1>6, <3>1, <3>2 DEF Agrees
  <2>3. QED
    BY <1>3, <2>1, <2>2 DEF Allowed
<1> HIDE DEF a
<1>9. QED
  BY <1>6, <1>8 DEF Remembered, Agrees

\* The other steps promise nothing.
LEMMA RememberedOtherwise ==
  ASSUME Sure, Looks, Seen, Remembered,
         \/ OpenEmpty \/ OpenNewest \/ SyncFails \/ RollBack \/ RollBackFails \/ CreateGeneration
         \/ CreateGenerationFails \/ NoMoreGenerations \/ FillGeneration \/ FillGenerationFails
         \/ SwitchGeneration \/ SwitchGenerationFails \/ Abandon \/ Sweep \/ Stop \/ LosePower
  PROVE  Remembered'
<1>1. StoreInv /\ env' = env /\ Recovered(files) \in Survivors(files)
  BY SureParts, FoundSurvives DEF Seen
<1>2. ASSUME files' = files, kept' = kept, dropped' = dropped,
             generation' # 0 => generation # 0 /\ entries' = entries
      PROVE  Remembered'
  BY <1>1, <1>2, RememberedStays
<1>3. CASE OpenEmpty \/ SyncFails
  <2>1. /\ kept' = kept /\ dropped' = dropped /\ generation' = generation /\ entries' = entries
        /\ files' = files
    BY <1>3 DEF OpenEmpty, SyncFails, memory, history
  <2>2. QED
    BY <1>2, <2>1
<1>4. CASE OpenNewest
  <2>1. kept' = kept /\ dropped' = dropped
    BY <1>4 DEF OpenNewest, history
  <2>2. QED
    BY <1>1, <1>4, <2>1, PlaceOpenNewest, RememberedStays
<1>5. CASE RollBack \/ RollBackFails
  <2>1. /\ kept' = kept /\ dropped' = dropped /\ generation' = generation /\ entries' = entries
        /\ pc = "failing"
    BY <1>5 DEF RollBack, RollBackFails, memory, history
  <2>2. generation # 0
    BY <1>1, <2>1, DoubtFacts DEF InDoubt
  <2>3. /\ Recovered(files') \in {entries, Recovered(files)}
        /\ Survivors(files') \subseteq Survivors(files) \cup {Recovered(files')}
    BY <1>1, <1>5, PlaceRollBack, PlaceRollBackFails
  <2>4. QED
    BY <1>1, <2>1, <2>2, <2>3, RememberedStays
<1>6. CASE CreateGeneration
  <2>1. kept' = kept /\ dropped' = dropped /\ generation' = generation /\ entries' = entries
    BY <1>6 DEF CreateGeneration, memory, history
  <2>2. QED
    BY <1>1, <1>6, <2>1, PlaceCreateGeneration, RememberedStays
<1>7. CASE CreateGenerationFails \/ NoMoreGenerations \/ SwitchGenerationFails
  <2>1. /\ kept' = kept /\ dropped' = dropped /\ files' = files
        /\ generation' # 0 => generation # 0 /\ entries' = entries
    BY <1>7 DEF CreateGenerationFails, NoMoreGenerations, SwitchGenerationFails, GiveUp, Closed,
                memory, history
  <2>2. QED
    BY <1>2, <2>1
<1>8. CASE Stop
  <2>1. /\ kept' = kept /\ dropped' = dropped /\ files' = files /\ generation' = 0
    BY <1>8 DEF Stop, Closed, history
  <2>2. QED
    BY <1>2, <2>1
<1>9. ASSUME pc \in Compacting \cup {"sweeping"}
      PROVE  entries \in Survivors(files)
  <2>1. ~InDoubt /\ pc # "closed"
    BY <1>1, <1>9, NoDoubt DEF Compacting
  <2>2. QED
    BY <1>1, <2>1, FoundIs
<1>10. CASE FillGeneration \/ FillGenerationFails
  <2>1. kept' = kept /\ dropped' = dropped /\ entries' = entries /\ pc \in Compacting
    BY <1>10 DEF FillGeneration, FillGenerationFails, memory, history, Compacting
  <2>2. QED
    BY <1>1, <1>9, <1>10, <2>1, PlaceFillGeneration, RememberedStays
<1>11. CASE SwitchGeneration
  <2>1. kept' = kept /\ dropped' = dropped /\ entries' = entries /\ pc \in Compacting
    BY <1>11 DEF SwitchGeneration, history, Compacting
  <2>2. QED
    BY <1>1, <1>9, <1>11, <2>1, PlaceSwitchGeneration, RememberedStays
<1>12. CASE Abandon
  <2>1. /\ kept' = kept /\ dropped' = dropped /\ pc \in Compacting
        /\ generation' # 0 => entries' = entries
    BY <1>12 DEF Abandon, GiveUp, Closed, memory, history, Compacting
  <2>2. QED
    BY <1>1, <1>9, <1>12, <2>1, PlaceAbandon, RememberedStays
<1>13. CASE Sweep
  <2>1. kept' = kept /\ dropped' = dropped /\ entries' = entries /\ pc = "sweeping"
    BY <1>13 DEF Sweep, history
  <2>2. QED
    BY <1>1, <1>9, <1>13, <2>1, PlaceSweep, RememberedStays
<1>14. CASE LosePower
  <2>1. kept' = kept /\ dropped' = dropped /\ generation' = 0
    BY <1>14 DEF LosePower, Closed, history
  <2>2. QED
    BY <1>1, <1>14, <2>1, PlaceLosePower, RememberedStays
<1>15. QED
  BY <1>3, <1>4, <1>5, <1>6, <1>7, <1>8, <1>10, <1>11, <1>12, <1>13, <1>14

LEMMA RememberedNext == Sure /\ Looks /\ Remembered /\ [Next]_vars => Remembered'
<1> SUFFICES ASSUME Sure, Looks, Remembered, [Next]_vars
             PROVE  Remembered'
  OBVIOUS
<1>1. CASE UNCHANGED vars
  BY <1>1 DEF vars, memory, history, Remembered, Agrees
<1>2. CASE Next
  <2>1. Step /\ Seen
    BY <1>2 DEF Next, Seen
  <2>2. ASSUME NEW r \in Requests, Write(r) \/ WriteFails(r)
        PROVE  Remembered'
    BY <2>1, <2>2, RememberedBegins
  <2>3. ~SweepFails
    BY SureParts DEF SweepFails, Dependable
  <2>4. QED
    BY <2>1, <2>2, <2>3, RememberedReturns, RememberedOtherwise DEF Step
<1>3. QED
  BY <1>1, <1>2

---------------------------------------------------------------------------
(* The invariant of a store that can rely on its directory                 *)

LEMMA DurableInitially == Init => Looks /\ DurableInv
<1> SUFFICES ASSUME Init
             PROVE  Looks /\ PlaceInv /\ Remembered
  BY DEF DurableInv
<1>1. /\ pc = "closed" /\ opening = FALSE /\ entries = <<>> /\ generation = 0 /\ next = 0
      /\ files = [g \in Generation |-> NoFile] /\ kept = {} /\ dropped = {} /\ found = <<>>
      /\ left = {<<>>} /\ faults = 0
  BY DEF Init
<1>2. Named(files) = {} /\ Candidates(files) = {}
  BY <1>1 DEF Named, Candidates, NoFile
<1>3. Recovered(files) = <<>>
  BY <1>2 DEF Recovered
<1>4. Survivors(files) = {<<>>}
  <2>1. SoundDisk(files)
    BY StoreInitially DEF StoreInv
  <2>2. \A g \in Generation : Entire(files[g])
    BY <1>1 DEF Entire, NoFile
  <2>3. QED
    BY <1>3, <2>1, <2>2, AllEntire
<1>5. PlaceInv
  BY <1>1, <1>2 DEF PlaceInv, NextIsHighest, GenerationIsNewest, FirstIsAlone, Fallback, StraysCost,
                    Compacting
<1>6. Remembered
  BY <1>1 DEF Remembered, Agrees
<1>7. QED
  BY <1>1, <1>3, <1>4, <1>5, <1>6 DEF Looks

LEMMA DurableStays ==
  ASSUME FewFaults
  PROVE  StoreInv /\ Looks /\ DurableInv /\ [Next]_vars => Looks' /\ DurableInv'
<1> SUFFICES ASSUME StoreInv, Looks, DurableInv, [Next]_vars
             PROVE  Looks' /\ DurableInv'
  OBVIOUS
<1>1. Looks'
  BY LooksStay
<1>2. env' = env
  BY DEF Next, vars
<1>3. ASSUME Dependable'
      PROVE  PlaceInv' /\ Remembered'
  <2>1. Sure /\ Remembered
    BY <1>2, <1>3 DEF Dependable, Sure, DurableInv
  <2>2. QED
    BY <2>1, QueueSteps, RememberedNext DEF Sure
<1>4. QED
  BY <1>1, <1>3 DEF DurableInv

\* Where the store can rely on its directory -- it can list it, and remove an abandoned
\* generation from it -- it knows which generation a start would load, and every queue that a
\* start may find, after a crash or a power loss, holds what was put and nothing of what was
\* removed (reliable-relay-outbox-store.ts:99-394).
THEOREM JournalIsDurable ==
  ASSUME FewFaults
  PROVE  Spec => [](StoreInv /\ Looks /\ DurableInv)
<1>1. Init => StoreInv /\ Looks /\ DurableInv
  BY StoreInitially, DurableInitially
<1>2. StoreInv /\ Looks /\ DurableInv /\ [Next]_vars => (StoreInv /\ Looks /\ DurableInv)'
  BY StoreStays, DurableStays
<1>3. QED
  BY <1>1, <1>2, PTL DEF Spec

\* What put and remove have promised holds through crashes, power losses and calls that fail,
\* and a store whose calls fail appends where its committed records end
\* (reliable-relay-outbox-store.ts:99-394).
THEOREM JournalKeeps ==
  ASSUME FewFaults
  PROVE  Spec => []JournalIsKept
<1>1. StoreInv /\ Looks /\ DurableInv => JournalIsKept
  <2> SUFFICES ASSUME StoreInv, Looks, DurableInv
               PROVE  JournalIsKept
    OBVIOUS
  <2>1. Dependable => Agrees(found)
    BY FoundSurvives DEF Looks, DurableInv, Remembered
  <2>2. QED
    BY <2>1, AppendsInPlace DEF JournalIsKept, Agrees, PutsSurvive, RemovesSurvive
<1>2. QED
  BY <1>1, JournalIsDurable, PTL

\* The journal implements the durable queue: put and remove take effect for good when they
\* return, have no effect when they throw, and whole effect or none when the process dies
\* (reliable-relay-outbox-store.ts:99-394).
THEOREM JournalImplementsQueue ==
  ASSUME FewFaults
  PROVE  Spec => ImplementsQueue
<1>1. Init => Queue!QInit
  BY DEF Init, Queue!QInit
<1>2. StoreInv /\ Looks /\ DurableInv /\ [Next]_vars =>
        [Dependable => [Queue!QNext]_(Queue!qvars)]_vars
  BY QueueSteps DEF Sure, DurableInv
<1>3. QED
  BY <1>1, <1>2, JournalIsDurable, PTL DEF Spec, ImplementsQueue
=============================================================================
