---------------------------- MODULE MetaStorProofs ----------------------------
(***************************************************************************)
(* A store that is opened finds what it was closed with: MetaStor          *)
(* implements DurableMap, for any keys, slots, segments and writes.        *)
(***************************************************************************)
EXTENDS MetaStor, FiniteSetTheorems, SequenceTheorems,
        WellFoundedInduction, TLAPS

-----------------------------------------------------------------------------
(* The list of a slot. *)

(* A set of natural numbers that is not empty has a least element.         *)
LEMMA LeastNatural ==
  ASSUME NEW T \in SUBSET Nat, T # {}
  PROVE  \E x \in T : \A y \in T : x <= y
<1> DEFINE R == {ss \in Nat \X Nat : ss[1] < ss[2]}
<1>1. IsWellFoundedOn(R, Nat)
  BY NatLessThanWellFounded DEF OpToRel
<1>2. \E x \in T : \A y \in T : ~(<<y, x>> \in R)
  <2> HIDE DEF R
  <2> QED
    BY <1>1, WFMin
<1>3. PICK x \in T : \A y \in T : ~(<<y, x>> \in R)
  BY <1>2
<1>4. \A y \in T : ~(y < x)
  <2> SUFFICES ASSUME NEW y \in T, y < x PROVE FALSE
    OBVIOUS
  <2>1. <<y, x>> \in R
    OBVIOUS
  <2> QED
    BY <1>3, <2>1
<1> QED
  BY <1>4

(* A list without its element at p: one shorter, the later elements one    *)
(* place earlier.                                                          *)
LEMMA CutOut ==
  ASSUME NEW S, NEW s \in Seq(S), NEW p \in 1 .. Len(s)
  PROVE  \A cut : cut = SubSeq(s, 1, p - 1) \o SubSeq(s, p + 1, Len(s)) =>
           /\ cut \in Seq(S) /\ Len(cut) = Len(s) - 1
           /\ \A i \in 1 .. Len(s) - 1 : cut[i] = IF i < p THEN s[i] ELSE s[i + 1]
<1> DEFINE N == Len(s)
           left == SubSeq(s, 1, p - 1)
           right == SubSeq(s, p + 1, N)
           u == left \o right
<1>1. N \in Nat /\ p \in 1 .. N /\ \A i \in 1 .. N : s[i] \in S
  OBVIOUS
<1>2. /\ left \in Seq(S) /\ Len(left) = p - 1
      /\ \A i \in 1 .. p - 1 : left[i] = s[i]
  <2>1. \A i \in 1 .. p - 1 : s[i] \in S
    BY <1>1
  <2> QED
    BY <1>1, <2>1, SubSeqProperties
<1>3. /\ right \in Seq(S) /\ Len(right) = N - p
      /\ \A i \in 1 .. N - p : right[i] = s[p + i]
  <2>1. \A i \in p + 1 .. N : s[i] \in S
    BY <1>1
  <2> QED
    BY <1>1, <2>1, SubSeqProperties
<1> HIDE DEF left, right, N
<1>4. /\ u \in Seq(S) /\ Len(u) = Len(left) + Len(right)
      /\ \A i \in 1 .. Len(left) + Len(right) :
           u[i] = IF i <= Len(left) THEN left[i] ELSE right[i - Len(left)]
  BY <1>2, <1>3, ConcatProperties
<1>5. SubSeq(s, 1, p - 1) \o SubSeq(s, p + 1, Len(s)) = u
  BY DEF left, right, N
<1> HIDE DEF u
<1>6. ASSUME NEW i \in 1 .. N - 1 PROVE u[i] = IF i < p THEN s[i] ELSE s[i + 1]
  <2>0. i \in 1 .. (p - 1) + (N - p)
    BY <1>1
  <2>1. CASE i < p
    <3>1. u[i] = left[i] /\ i \in 1 .. p - 1
      BY <1>1, <1>2, <1>3, <1>4, <2>0, <2>1
    <3> QED
      BY <1>2, <2>1, <3>1
  <2>2. CASE ~(i < p)
    <3>1. i - (p - 1) \in 1 .. N - p /\ p + (i - (p - 1)) = i + 1 /\ ~(i <= p - 1)
      BY <1>1, <2>2
    <3>2. u[i] = right[i - (p - 1)]
      BY <1>2, <1>3, <1>4, <2>0, <3>1
    <3> QED
      BY <1>3, <2>2, <3>1, <3>2
  <2> QED
    BY <2>1, <2>2
<1>7. Len(u) = N - 1
  BY <1>1, <1>2, <1>3, <1>4
<1> QED
  BY <1>4, <1>5, <1>6, <1>7 DEF N

(* No element of the list before the p-th has the key k.                   *)
First(list, k, p) ==
  p \in 1 .. Len(list) /\ list[p].key = k /\ \A j \in 1 .. p - 1 : list[j].key # k

(* SelectInSeq gives the place of the first entry of a key, or 0.          *)
LEMMA PositionFacts ==
  ASSUME NEW list \in Seq(Entries), NEW k
  PROVE  \/ Position(list, k) = 0 /\ \A j \in 1 .. Len(list) : list[j].key # k
         \/ First(list, k, Position(list, k))
<1> DEFINE I == {i \in 1 .. Len(list) : list[i].key = k}
<1>1. Position(list, k) = IF I # {} THEN Min(I) ELSE 0
  BY DEF Position, SelectInSeq
<1>2. I \in SUBSET Nat /\ Len(list) \in Nat
  OBVIOUS
<1>3. CASE I = {}
  BY <1>1, <1>2, <1>3
<1>4. CASE I # {}
  <2>1. \E x \in I : \A y \in I : x <= y
    <3> HIDE DEF I
    <3> QED
      BY <1>2, <1>4, LeastNatural
  <2>2. Min(I) \in I /\ \A y \in I : Min(I) <= y
    <3> HIDE DEF I
    <3> QED
      BY <2>1 DEF Min
  <2>3. PICK p : p = Min(I)
    OBVIOUS
  <2>4. p \in I /\ \A y \in I : p <= y
    BY <2>2, <2>3
  <2>5. \A j \in 1 .. p - 1 : list[j].key # k
    BY <1>2, <2>4
  <2> QED
    BY <1>1, <1>2, <1>4, <2>3, <2>4, <2>5 DEF First
<1> QED
  BY <1>3, <1>4

(* There is only one first entry.                                          *)
LEMMA PositionIs ==
  ASSUME NEW list \in Seq(Entries), NEW k, NEW p, First(list, k, p)
  PROVE  Position(list, k) = p /\ p \in Nat \ {0}
<1>1. Len(list) \in Nat
  OBVIOUS
<1>2. PICK q : q = Position(list, k)
  OBVIOUS
<1>3. (q = 0 /\ \A j \in 1 .. Len(list) : list[j].key # k) \/ First(list, k, q)
  BY <1>2, PositionFacts
<1>4. First(list, k, q)
  BY <1>3 DEF First
<1>5. ~(p < q) /\ ~(q < p) /\ p \in Nat \ {0} /\ q \in Nat
  BY <1>1, <1>4 DEF First
<1> QED
  BY <1>2, <1>5

(* A key that no entry has, has no position.                               *)
LEMMA PositionNone ==
  ASSUME NEW list \in Seq(Entries), NEW k, \A j \in 1 .. Len(list) : list[j].key # k
  PROVE  Position(list, k) = 0
BY PositionFacts DEF First

(* What LinkedList::put leaves.                                            *)
LEMMA PutList ==
  ASSUME NEW list \in Seq(Entries), NEW e \in Entries
  PROVE  LET q == PutEntry(list, e)
             p == Position(list, e.key)
         IN /\ q \in Seq(Entries)
            /\ p = 0 => Len(q) = Len(list) + 1 /\ q[Len(list) + 1] = e
            /\ p # 0 => Len(q) = Len(list) /\ p \in 1 .. Len(list) /\ q[p] = e
            /\ \A j \in 1 .. Len(list) : j # p => q[j] = list[j]
<1> DEFINE q == PutEntry(list, e)
           p == Position(list, e.key)
<1>1. p = 0 \/ (p # 0 /\ p \in 1 .. Len(list))
  BY PositionFacts DEF First
<1>2. q = IF p = 0 THEN Append(list, e) ELSE [list EXCEPT ![p] = e]
  BY DEF PutEntry
<1> HIDE DEF p, q
<1>3. CASE p = 0
  <2>1. q = Append(list, e)
    BY <1>2, <1>3
  <2>2. q \in Seq(Entries) /\ Len(q) = Len(list) + 1 /\ q[Len(list) + 1] = e
        /\ \A j \in 1 .. Len(list) : q[j] = list[j]
    BY <2>1
  <2> QED
    BY <1>3, <2>2 DEF p, q
<1>4. CASE p # 0
  <2>1. q = [list EXCEPT ![p] = e] /\ p \in 1 .. Len(list)
    BY <1>1, <1>2, <1>4
  <2>2. q \in Seq(Entries) /\ Len(q) = Len(list) /\ q[p] = e
        /\ \A j \in 1 .. Len(list) : j # p => q[j] = list[j]
    BY <2>1
  <2> QED
    BY <1>4, <2>1, <2>2 DEF p, q
<1> QED
  BY <1>3, <1>4

(* A list that differs in one place, or has one entry more at its end.     *)
LEMMA OtherPlaces ==
  ASSUME NEW list \in Seq(Entries), NEW q \in Seq(Entries), NEW e \in Entries, NEW p \in Nat,
         NEW k, k # e.key,
         p = 0 \/ (p \in 1 .. Len(list) /\ list[p].key = e.key),
         p = 0 => Len(q) = Len(list) + 1 /\ q[Len(list) + 1] = e,
         p # 0 => Len(q) = Len(list) /\ q[p] = e,
         \A j \in 1 .. Len(list) : j # p => q[j] = list[j]
  PROVE  /\ Position(q, k) = Position(list, k)
         /\ Position(q, k) # 0 => q[Position(q, k)] = list[Position(list, k)]
<1>1. Len(list) \in Nat /\ Len(q) \in Nat 
  OBVIOUS
<1>2. /\ \A j \in 1 .. Len(q) : j \notin 1 .. Len(list) \/ j = p => q[j] = e
      /\ \A j \in 1 .. Len(list) : j \in 1 .. Len(q)
  BY <1>1
<1>3. PICK r \in Nat : r = Position(list, k)
  BY <1>1, PositionFacts DEF First
<1>4. (r = 0 /\ \A j \in 1 .. Len(list) : list[j].key # k) \/ First(list, k, r)
  BY <1>3, PositionFacts
<1>5. CASE First(list, k, r)
  <2>1. r \in 1 .. Len(list) /\ list[r].key = k /\ \A j \in 1 .. r - 1 : list[j].key # k
    BY <1>5 DEF First
  <2>2. r # p
    BY <1>1, <2>1
  <2>3. q[r] = list[r] /\ r \in 1 .. Len(q)
    BY <1>2, <2>1, <2>2
  <2>4. \A j \in 1 .. r - 1 : j \in 1 .. Len(list)
    BY <1>1, <2>1
  <2>5. \A j \in 1 .. r - 1 : q[j] = list[j] \/ q[j] = e
    BY <1>2, <2>4
  <2>6. First(q, k, r)
    BY <2>1, <2>3, <2>5 DEF First
  <2> QED
    BY <1>3, <2>3, <2>6, PositionIs
<1>6. CASE r = 0 /\ \A j \in 1 .. Len(list) : list[j].key # k
  <2>1. \A j \in 1 .. Len(q) : q[j].key # k
    BY <1>2, <1>6
  <2> QED
    BY <1>3, <1>6, <2>1, PositionNone
<1> QED
  BY <1>4, <1>5, <1>6

(* The key that was put is found where it was, or at the end, and every    *)
(* other key where it was.                                                 *)
LEMMA PutPositions ==
  ASSUME NEW list \in Seq(Entries), NEW e \in Entries, NEW k
  PROVE  LET q == PutEntry(list, e)
         IN /\ k = e.key => Position(q, k) # 0 /\ q[Position(q, k)] = e
            /\ k # e.key => /\ Position(q, k) = Position(list, k)
                            /\ Position(q, k) # 0 => q[Position(q, k)] = list[Position(list, k)]
<1>1. PICK q : q = PutEntry(list, e)
  OBVIOUS
<1>2. PICK p \in Nat : p = Position(list, e.key)
  <2>1. Len(list) \in Nat
    OBVIOUS
  <2> QED
    BY <2>1, PositionFacts DEF First
<1>3. /\ q \in Seq(Entries)
      /\ p = 0 => Len(q) = Len(list) + 1 /\ q[Len(list) + 1] = e
      /\ p # 0 => Len(q) = Len(list) /\ p \in 1 .. Len(list) /\ q[p] = e
      /\ \A j \in 1 .. Len(list) : j # p => q[j] = list[j]
  BY <1>1, <1>2, PutList
<1>4. (p = 0 /\ \A j \in 1 .. Len(list) : list[j].key # e.key) \/ First(list, e.key, p)
  BY <1>2, PositionFacts
<1>5. Len(list) \in Nat /\ Len(q) \in Nat 
  BY <1>3
<1>6. p = 0 \/ (p \in 1 .. Len(list) /\ list[p].key = e.key)
  BY <1>4 DEF First
<1>7. Position(q, e.key) # 0 /\ q[Position(q, e.key)] = e
  <2>1. CASE p = 0
    <3>1. \A j \in 1 .. Len(list) : list[j].key # e.key
      BY <1>4, <1>5, <2>1 DEF First
    <3>2. \A j \in 1 .. Len(list) : q[j] = list[j]
      BY <1>3, <1>5, <2>1
    <3>3. First(q, e.key, Len(list) + 1)
      BY <1>3, <1>5, <2>1, <3>1, <3>2 DEF First
    <3> QED
      BY <1>3, <1>5, <2>1, <3>3, PositionIs
  <2>2. CASE p # 0
    <3>1. First(list, e.key, p)
      BY <1>4, <2>2
    <3>2. \A j \in 1 .. p - 1 : j \in 1 .. Len(list) /\ j # p
      BY <1>5, <3>1 DEF First
    <3>3. First(q, e.key, p)
      BY <1>3, <1>5, <2>2, <3>1, <3>2 DEF First
    <3> QED
      BY <1>3, <2>2, <3>3, PositionIs
  <2> QED
    BY <2>1, <2>2
<1>8. ASSUME k # e.key
      PROVE  /\ Position(q, k) = Position(list, k)
             /\ Position(q, k) # 0 => q[Position(q, k)] = list[Position(list, k)]
  BY <1>3, <1>6, <1>8, OtherPlaces
<1> QED
  BY <1>1, <1>7, <1>8

(* What LinkedList::remove leaves: one entry less, the others in order.    *)
LEMMA RemoveList ==
  ASSUME NEW list \in Seq(Entries), NEW x, Position(list, x) # 0
  PROVE  LET q == RemoveKey(list, x)
             p == Position(list, x)
         IN /\ q \in Seq(Entries) /\ Len(q) = Len(list) - 1
            /\ p \in 1 .. Len(list) /\ list[p].key = x
            /\ \A j \in 1 .. Len(list) - 1 : q[j] = IF j < p THEN list[j] ELSE list[j + 1]
<1> DEFINE p == Position(list, x)
           q == RemoveKey(list, x)
<1>1. First(list, x, p)
  BY PositionFacts
<1>2. p \in 1 .. Len(list) /\ list[p].key = x
  BY <1>1 DEF First
<1>3. q = SubSeq(list, 1, p - 1) \o SubSeq(list, p + 1, Len(list))
  BY DEF RemoveKey, RemoveAt
<1> HIDE DEF p, q
<1>4. /\ q \in Seq(Entries) /\ Len(q) = Len(list) - 1
      /\ \A j \in 1 .. Len(list) - 1 : q[j] = IF j < p THEN list[j] ELSE list[j + 1]
  BY <1>2, <1>3, CutOut
<1> QED
  BY <1>2, <1>4 DEF p, q

(* Every other key is found as before.                                     *)
LEMMA RemovePositions ==
  ASSUME NEW list \in Seq(Entries), NEW x, Position(list, x) # 0, NEW k, k # x
  PROVE  LET q == RemoveKey(list, x)
         IN /\ Position(q, k) = 0 <=> Position(list, k) = 0
            /\ Position(q, k) # 0 => q[Position(q, k)] = list[Position(list, k)]
<1> DEFINE p == Position(list, x)
           q == RemoveKey(list, x)
           r == Position(list, k)
           L == Len(list)
<1>1. /\ q \in Seq(Entries) /\ Len(q) = L - 1
      /\ p \in 1 .. Len(list) /\ list[p].key = x
      /\ \A j \in 1 .. L - 1 : q[j] = IF j < p THEN list[j] ELSE list[j + 1]
  BY RemoveList
<1>2. (r = 0 /\ \A j \in 1 .. Len(list) : list[j].key # k) \/ First(list, k, r)
  BY PositionFacts
<1>3. L \in Nat /\ L = Len(list)
  BY <1>1
<1> HIDE DEF p, q, r, L
<1>4. CASE r = 0
  <2>1. \A j \in 1 .. Len(list) : list[j].key # k
    BY <1>2, <1>3, <1>4 DEF First
  <2>2. \A j \in 1 .. Len(q) : q[j].key # k
    <3> SUFFICES ASSUME NEW j \in 1 .. L - 1 PROVE q[j].key # k
      BY <1>1
    <3>1. q[j] = IF j < p THEN list[j] ELSE list[j + 1]
      BY <1>1
    <3>2. j \in 1 .. Len(list) /\ j + 1 \in 1 .. Len(list)
      BY <1>3
    <3> QED
      BY <2>1, <3>1, <3>2
  <2>3. Position(q, k) = 0
    BY <1>1, <2>2, PositionNone
  <2> QED
    BY <1>4, <2>3 DEF q, r
<1>5. CASE r # 0
  <2>1. First(list, k, r)
    BY <1>2, <1>5
  <2>2. r # p /\ r \in 1 .. L /\ p \in 1 .. L
    BY <1>1, <1>3, <2>1 DEF First
  <2> DEFINE m == IF r < p THEN r ELSE r - 1
  <2>3. m \in 1 .. L - 1 /\ q[m] = list[r]
    <3>1. CASE r < p
      BY <1>1, <2>2, <1>3, <3>1
    <3>2. CASE ~(r < p)
      <4>1. m = r - 1 /\ r > p /\ m \in 1 .. L - 1 /\ ~(m < p) /\ m + 1 = r
        BY <2>2, <1>3, <3>2
      <4> HIDE DEF m
      <4> QED
        BY <1>1, <4>1
    <3> QED
      BY <3>1, <3>2
  <2>4. \A j \in 1 .. m - 1 : q[j].key # k
    BY <1>1, <1>3, <2>1, <2>2 DEF First
  <2> HIDE DEF m
  <2>5. First(q, k, m)
    BY <1>1, <1>3, <2>1, <2>3, <2>4 DEF First
  <2>6. Position(q, k) = m /\ m # 0
    BY <1>1, <2>5, PositionIs
  <2> QED
    BY <1>5, <2>3, <2>6 DEF q, r
<1> QED
  BY <1>4, <1>5

(* Every key of the list of slot i belongs there and has one entry.        *)
GoodList(list, i) ==
  \A j \in 1 .. Len(list) :
    /\ SlotOf[list[j].key] = i
    /\ \A m \in 1 .. Len(list) : list[m].key = list[j].key => m = j

(* What is in a list after put, and that keys stay apart.                  *)
LEMMA PutMembers ==
  ASSUME NEW list \in Seq(Entries), NEW e \in Entries, NEW i
  PROVE  LET q == PutEntry(list, e)
         IN /\ \A j \in 1 .. Len(q) : q[j] = e \/ \E m \in 1 .. Len(list) : q[j] = list[m]
            /\ GoodList(list, i) /\ SlotOf[e.key] = i => GoodList(q, i)
<1>1. PICK q : q = PutEntry(list, e)
  OBVIOUS
<1>2. PICK p \in Nat : p = Position(list, e.key)
  BY PositionFacts DEF First
<1>3. /\ q \in Seq(Entries)
      /\ p = 0 => Len(q) = Len(list) + 1 /\ q[Len(list) + 1] = e
      /\ p # 0 => Len(q) = Len(list) /\ p \in 1 .. Len(list) /\ q[p] = e
      /\ \A j \in 1 .. Len(list) : j # p => q[j] = list[j]
  BY <1>1, <1>2, PutList
<1>4. Len(list) \in Nat /\ Len(q) \in Nat
  BY <1>3
<1>5. PICK h \in 1 .. Len(q) : q[h] = e /\ \A j \in 1 .. Len(q) : j # h => j \in 1 .. Len(list) /\ j # p
  <2>1. CASE p = 0
    <3>1. Len(list) + 1 \in 1 .. Len(q)
      BY <1>3, <1>4, <2>1
    <3>2. \A j \in 1 .. Len(q) : j # Len(list) + 1 => j \in 1 .. Len(list) /\ j # p
      BY <1>3, <1>4, <2>1
    <3> QED
      BY <1>3, <2>1, <3>1, <3>2
  <2>2. CASE p # 0
    BY <1>3, <2>2
  <2> QED
    BY <2>1, <2>2
<1>6. \A j \in 1 .. Len(q) : j # h => q[j] = list[j]
  BY <1>3, <1>5
<1>7. \A j \in 1 .. Len(q) : q[j] = e \/ \E m \in 1 .. Len(list) : q[j] = list[m]
  BY <1>5, <1>6
<1>8. ASSUME GoodList(list, i), SlotOf[e.key] = i PROVE GoodList(q, i)
  <2>1. \A j \in 1 .. Len(q) : j # h => list[j].key # e.key
    <3>1. CASE p = 0
      <4>1. \A j \in 1 .. Len(list) : list[j].key # e.key
        <5>1. (p = 0 /\ \A j \in 1 .. Len(list) : list[j].key # e.key) \/ First(list, e.key, p)
          BY <1>2, PositionFacts
        <5> QED
          BY <1>4, <3>1, <5>1 DEF First
      <4> QED
        BY <1>5, <4>1
    <3>2. CASE p # 0
      <4>1. p \in 1 .. Len(list) /\ list[p].key = e.key
        BY <1>2, <3>2, PositionFacts DEF First
      <4> QED
        BY <1>5, <1>8, <4>1 DEF GoodList
    <3> QED
      BY <3>1, <3>2
  <2>2. ASSUME NEW j \in 1 .. Len(q), NEW m \in 1 .. Len(q), q[m].key = q[j].key
        PROVE  m = j
    <3>1. CASE j = h \/ m = h
      BY <1>5, <1>6, <2>1, <2>2, <3>1
    <3>2. CASE j # h /\ m # h
      BY <1>5, <1>6, <1>8, <2>2, <3>2 DEF GoodList
    <3> QED
      BY <3>1, <3>2
  <2>3. \A j \in 1 .. Len(q) : SlotOf[q[j].key] = i
    BY <1>5, <1>6, <1>8 DEF GoodList
  <2> QED
    BY <2>2, <2>3 DEF GoodList
<1> QED
  BY <1>1, <1>7, <1>8

(* What is in a list after remove, and that keys stay apart.               *)
LEMMA RemoveMembers ==
  ASSUME NEW list \in Seq(Entries), NEW x, Position(list, x) # 0, NEW i
  PROVE  LET q == RemoveKey(list, x)
         IN /\ \A j \in 1 .. Len(q) : \E m \in 1 .. Len(list) : q[j] = list[m]
            /\ GoodList(list, i) => GoodList(q, i) /\ Position(q, x) = 0
<1>1. PICK q : q = RemoveKey(list, x)
  OBVIOUS
<1>2. PICK p \in Nat : p = Position(list, x) /\ p # 0
  BY PositionFacts DEF First
<1>3. /\ q \in Seq(Entries) /\ Len(q) = Len(list) - 1
      /\ p \in 1 .. Len(list) /\ list[p].key = x
      /\ \A j \in 1 .. Len(list) - 1 : q[j] = IF j < p THEN list[j] ELSE list[j + 1]
  BY <1>1, <1>2, RemoveList
<1>4. Len(list) \in Nat /\ Len(q) \in Nat
  BY <1>3
<1>5. DEFINE old(j) == IF j < p THEN j ELSE j + 1
<1>6. /\ \A j \in 1 .. Len(q) : old(j) \in 1 .. Len(list) /\ old(j) # p /\ q[j] = list[old(j)]
      /\ \A j, m \in 1 .. Len(q) : old(j) = old(m) => j = m
  BY <1>3, <1>4
<1> HIDE DEF old
<1>7. \A j \in 1 .. Len(q) : \E m \in 1 .. Len(list) : q[j] = list[m]
  BY <1>6
<1>8. ASSUME GoodList(list, i) PROVE GoodList(q, i) /\ Position(q, x) = 0
  <2>1. GoodList(q, i)
    BY <1>6, <1>8 DEF GoodList
  <2>2. \A j \in 1 .. Len(q) : q[j].key # x
    BY <1>3, <1>6, <1>8 DEF GoodList
  <2> QED
    BY <1>3, <2>1, <2>2, PositionNone
<1> QED
  BY <1>1, <1>7, <1>8

-----------------------------------------------------------------------------
(* The hash table. *)

Tables == [Slots -> Seq(Entries)]
Lens(tab) == [i \in Slots |-> Len(tab[i])]

(* The entries of the lists.                                               *)
Held(tab) == {e \in Entries : \E i \in Slots : \E j \in 1 .. Len(tab[i]) : tab[i][j] = e}

(* Every key has one entry, in its slot.                                   *)
Good(tab) == \A i \in Slots : GoodList(tab[i], i)

(* What a read finds is in the table.                                      *)
LEMMA FoundEntry ==
  ASSUME NEW tab \in Tables, NEW k \in Keys, InIndex(tab, k)
  PROVE  EntryOf(tab, k) \in Held(tab) /\ EntryOf(tab, k) \in Entries /\ EntryOf(tab, k).key = k
<1>1. SlotOf[k] \in Slots /\ tab[SlotOf[k]] \in Seq(Entries)
  BY MetaStorAssumption DEF Tables, Slots
<1>2. First(tab[SlotOf[k]], k, Position(tab[SlotOf[k]], k))
  BY <1>1, PositionFacts DEF InIndex
<1>3. PICK list \in Seq(Entries) : list = tab[SlotOf[k]]
  BY <1>1
<1>4. PICK p : p = Position(tab[SlotOf[k]], k)
  OBVIOUS
<1>5. p \in 1 .. Len(list) /\ list[p].key = k /\ EntryOf(tab, k) = list[p]
  BY <1>2, <1>3, <1>4 DEF First, EntryOf
<1>6. list[p] \in Entries
  BY <1>5
<1> QED
  BY <1>1, <1>3, <1>5, <1>6 DEF Held

(* In a good table a read finds every entry.                               *)
LEMMA GoodEntries ==
  ASSUME NEW tab \in Tables, Good(tab), NEW e \in Held(tab)
  PROVE  InIndex(tab, e.key) /\ EntryOf(tab, e.key) = e /\ e.key \in Keys /\ e \in Entries
<1>1. e \in Entries /\ e.key \in Keys
  BY DEF Held, Entries
<1>2. PICK i \in Slots : \E j \in 1 .. Len(tab[i]) : tab[i][j] = e
  BY DEF Held
<1>3. PICK list \in Seq(Entries) : list = tab[i]
  BY <1>2 DEF Tables
<1>4. PICK j \in 1 .. Len(list) : list[j] = e
  BY <1>2, <1>3
<1>5. GoodList(list, i)
  BY <1>2, <1>3 DEF Good
<1>6. SlotOf[e.key] = i /\ \A m \in 1 .. Len(list) : list[m].key = e.key => m = j
  BY <1>4, <1>5 DEF GoodList
<1>7. First(list, e.key, j)
  <2>1. \A m \in 1 .. j - 1 : m \in 1 .. Len(list) /\ m # j
    BY <1>4
  <2> QED
    BY <1>4, <1>6, <2>1 DEF First
<1>8. Position(list, e.key) = j /\ j # 0
  BY <1>7, PositionIs
<1> QED
  BY <1>1, <1>3, <1>4, <1>6, <1>8 DEF InIndex, EntryOf

(* put and remove on the list of the slot of a key. *)
PutIn(tab, e) == [tab EXCEPT ![SlotOf[e.key]] = PutEntry(@, e)]
RemoveFrom(tab, k) == [tab EXCEPT ![SlotOf[k]] = RemoveKey(@, k)]

(* After put the key has the entry, all other keys have what they had.     *)
LEMMA PutTab ==
  ASSUME NEW tab \in Tables, NEW e \in Entries
  PROVE  LET new == PutIn(tab, e)
         IN /\ new \in Tables
            /\ \A x \in Keys : InIndex(new, x) <=> x = e.key \/ InIndex(tab, x)
            /\ EntryOf(new, e.key) = e
            /\ \A x \in Keys : x # e.key /\ InIndex(tab, x) => EntryOf(new, x) = EntryOf(tab, x)
            /\ \A f \in Held(new) : f = e \/ f \in Held(tab)
            /\ Good(tab) => Good(new)
<1>1. PICK new : new = PutIn(tab, e)
  OBVIOUS
<1>2. e.key \in Keys /\ SlotOf[e.key] \in Slots /\ SlotOf \in [Keys -> Slots]
  BY MetaStorAssumption DEF Entries, Slots
<1>3. PICK i \in Slots : i = SlotOf[e.key]
  BY <1>2
<1>4. PICK list \in Seq(Entries) : list = tab[i]
  BY <1>3 DEF Tables
<1>5. PICK q \in Seq(Entries) : q = PutEntry(list, e)
  BY PutList
<1>6. new = [tab EXCEPT ![i] = q] /\ tab \in Tables
  BY <1>1, <1>3, <1>4, <1>5 DEF PutIn
<1>7. new \in Tables /\ new[i] = q /\ \A n \in Slots : n # i => new[n] = tab[n]
  BY <1>6 DEF Tables
<1>8. ASSUME NEW x \in Keys
      PROVE  /\ InIndex(new, x) <=> x = e.key \/ InIndex(tab, x)
             /\ x = e.key => EntryOf(new, x) = e
             /\ x # e.key /\ InIndex(tab, x) => EntryOf(new, x) = EntryOf(tab, x)
  <2>1. SlotOf[x] \in Slots
    BY <1>2
  <2>2. CASE SlotOf[x] # i
    <3>1. new[SlotOf[x]] = tab[SlotOf[x]] /\ x # e.key
      BY <1>3, <1>7, <2>1, <2>2
    <3> QED
      BY <3>1 DEF InIndex, EntryOf
  <2>3. CASE SlotOf[x] = i
    <3>1. new[SlotOf[x]] = q /\ tab[SlotOf[x]] = list
      BY <1>4, <1>7, <2>3
    <3>2. /\ x = e.key => Position(q, x) # 0 /\ q[Position(q, x)] = e
          /\ x # e.key => /\ Position(q, x) = Position(list, x)
                          /\ Position(q, x) # 0 => q[Position(q, x)] = list[Position(list, x)]
      BY <1>5, PutPositions
    <3> QED
      BY <3>1, <3>2 DEF InIndex, EntryOf
  <2> QED
    BY <2>2, <2>3
<1>9. ASSUME NEW f \in Held(new) PROVE f = e \/ f \in Held(tab)
  <2>1. PICK n \in Slots : \E j \in 1 .. Len(new[n]) : new[n][j] = f
    BY DEF Held
  <2>2. f \in Entries
    BY DEF Held
  <2>3. CASE n # i
    BY <1>7, <2>1, <2>2, <2>3 DEF Held
  <2>4. CASE n = i
    <3>1. PICK j \in 1 .. Len(q) : q[j] = f
      BY <1>7, <2>1, <2>4
    <3>2. q[j] = e \/ \E m \in 1 .. Len(list) : q[j] = list[m]
      BY <1>5, PutMembers
    <3>3. f = e \/ \E m \in 1 .. Len(tab[i]) : tab[i][m] = f
      BY <1>4, <3>1, <3>2
    <3> QED
      BY <2>2, <3>3 DEF Held
  <2> QED
    BY <2>3, <2>4
<1>10. ASSUME Good(tab) PROVE Good(new)
  <2>1. GoodList(q, i)
    BY <1>3, <1>4, <1>5, <1>10, PutMembers DEF Good
  <2> QED
    BY <1>7, <1>10, <2>1 DEF Good
<1> QED
  BY <1>1, <1>2, <1>7, <1>8, <1>9, <1>10

(* After remove the key has no entry, all other keys have what they had.   *)
LEMMA RemoveTab ==
  ASSUME NEW tab \in Tables, NEW k \in Keys, InIndex(tab, k)
  PROVE  LET new == RemoveFrom(tab, k)
         IN /\ new \in Tables
            /\ \A x \in Keys : x # k =>
                 /\ InIndex(new, x) <=> InIndex(tab, x)
                 /\ InIndex(tab, x) => EntryOf(new, x) = EntryOf(tab, x)
            /\ Held(new) \subseteq Held(tab)
            /\ Good(tab) => Good(new) /\ ~InIndex(new, k)
<1>1. PICK new : new = RemoveFrom(tab, k)
  OBVIOUS
<1>2. SlotOf[k] \in Slots /\ SlotOf \in [Keys -> Slots]
  BY MetaStorAssumption DEF Slots
<1>3. PICK i \in Slots : i = SlotOf[k]
  BY <1>2
<1>4. PICK list \in Seq(Entries) : list = tab[i]
  BY <1>3 DEF Tables
<1>0. Position(list, k) # 0
  BY <1>3, <1>4 DEF InIndex
<1>5. PICK q \in Seq(Entries) : q = RemoveKey(list, k)
  BY <1>0, RemoveList
<1>6. new = [tab EXCEPT ![i] = q] /\ tab \in Tables
  BY <1>1, <1>3, <1>4, <1>5 DEF RemoveFrom
<1>7. new \in Tables /\ new[i] = q /\ \A n \in Slots : n # i => new[n] = tab[n]
  BY <1>6 DEF Tables
<1>8. ASSUME NEW x \in Keys, x # k
      PROVE  /\ InIndex(new, x) <=> InIndex(tab, x)
             /\ InIndex(tab, x) => EntryOf(new, x) = EntryOf(tab, x)
  <2>1. SlotOf[x] \in Slots
    BY <1>2
  <2>2. CASE SlotOf[x] # i
    <3>1. new[SlotOf[x]] = tab[SlotOf[x]]
      BY <1>7, <2>1, <2>2
    <3> QED
      BY <3>1 DEF InIndex, EntryOf
  <2>3. CASE SlotOf[x] = i
    <3>1. new[SlotOf[x]] = q /\ tab[SlotOf[x]] = list
      BY <1>4, <1>7, <2>3
    <3>2. /\ Position(q, x) = 0 <=> Position(list, x) = 0
          /\ Position(q, x) # 0 => q[Position(q, x)] = list[Position(list, x)]
      BY <1>0, <1>5, <1>8, RemovePositions
    <3> QED
      BY <3>1, <3>2 DEF InIndex, EntryOf
  <2> QED
    BY <2>2, <2>3
<1>9. ASSUME NEW f \in Held(new) PROVE f \in Held(tab)
  <2>1. PICK n \in Slots : \E j \in 1 .. Len(new[n]) : new[n][j] = f
    BY DEF Held
  <2>2. f \in Entries
    BY DEF Held
  <2>3. CASE n # i
    BY <1>7, <2>1, <2>2, <2>3 DEF Held
  <2>4. CASE n = i
    <3>1. PICK j \in 1 .. Len(q) : q[j] = f
      BY <1>7, <2>1, <2>4
    <3>2. \E m \in 1 .. Len(list) : q[j] = list[m]
      BY <1>0, <1>5, RemoveMembers
    <3>3. \E m \in 1 .. Len(tab[i]) : tab[i][m] = f
      BY <1>4, <3>1, <3>2
    <3> QED
      BY <2>2, <3>3 DEF Held
  <2> QED
    BY <2>3, <2>4
<1>10. ASSUME Good(tab) PROVE Good(new) /\ ~InIndex(new, k)
  <2>1. GoodList(list, i)
    BY <1>4, <1>10 DEF Good
  <2>2. GoodList(q, i) /\ Position(q, k) = 0
    BY <1>0, <1>5, <2>1, RemoveMembers
  <2> QED
    BY <1>3, <1>7, <1>10, <2>2 DEF Good, InIndex
<1> QED
  BY <1>1, <1>7, <1>8, <1>9, <1>10

-----------------------------------------------------------------------------
(* The number of entries. *)

Sizes == [Slots -> Nat]
Places(c, n) == UNION {{i} \X (1 .. c[i]) : i \in 1 .. n}

(* A place of the first n lists.                                           *)
LEMMA PlaceFacts ==
  ASSUME NEW c \in Sizes, NEW n \in 0 .. HtSize
  PROVE  /\ \A x : x \in Places(c, n) <=> \E i \in 1 .. n : \E j \in 1 .. c[i] : x = <<i, j>>
         /\ \A i, j : <<i, j>> \in Places(c, n) <=> i \in 1 .. n /\ j \in 1 .. c[i]
<1>1. ASSUME NEW x
      PROVE  x \in Places(c, n) <=> \E i \in 1 .. n : \E j \in 1 .. c[i] : x = <<i, j>>
  <2>1. x \in Places(c, n) <=> \E i \in 1 .. n : x \in {i} \X (1 .. c[i])
    BY DEF Places
  <2> QED
    BY <2>1
<1>2. ASSUME NEW i, NEW j
      PROVE  <<i, j>> \in Places(c, n) <=> i \in 1 .. n /\ j \in 1 .. c[i]
  <2>1. <<i, j>> \in Places(c, n) <=> \E a \in 1 .. n : \E b \in 1 .. c[a] : <<i, j>> = <<a, b>>
    BY <1>1
  <2> QED
    BY <2>1
<1> QED
  BY <1>1, <1>2

(* The count of no lists, and of one list more.                            *)
LEMMA CountStep ==
  ASSUME NEW c \in Sizes, NEW i \in Slots, IsFiniteSet(Places(c, i - 1))
  PROVE  /\ IsFiniteSet(Places(c, i))
         /\ Counted(c, i) = Counted(c, i - 1) + c[i]
<1>1. HtSize \in Nat /\ i \in Nat /\ i - 1 \in 0 .. HtSize /\ i \in 0 .. HtSize /\ c[i] \in Nat
  BY MetaStorAssumption DEF Slots, Sizes
<1> DEFINE Row == {i} \X (1 .. c[i])
<1>2. IsFiniteSet(Row) /\ Cardinality(Row) = c[i]
  <2>1. IsFiniteSet(1 .. c[i]) /\ Cardinality(1 .. c[i]) = c[i]
    <3>1. 1 \in Int /\ c[i] \in Int
      BY <1>1
    <3>2. /\ IsFiniteSet(1 .. c[i])
          /\ Cardinality(1 .. c[i]) = IF 1 > c[i] THEN 0 ELSE c[i] - 1 + 1
      BY <3>1, FS_Interval
    <3> QED
      BY <1>1, <3>2
  <2>2. IsFiniteSet({i}) /\ Cardinality({i}) = 1
    BY FS_Singleton
  <2>3. IsFiniteSet(Row) /\ Cardinality(Row) = Cardinality({i}) * Cardinality(1 .. c[i])
    BY <2>1, <2>2, FS_Product
  <2> QED
    BY <1>1, <2>1, <2>2, <2>3
<1>3. Places(c, i) = Places(c, i - 1) \cup Row
  <2>1. \A x : x \in Places(c, i) <=> \E m \in 1 .. i : \E j \in 1 .. c[m] : x = <<m, j>>
    BY <1>1, PlaceFacts
  <2>2. \A x : x \in Places(c, i - 1) <=> \E m \in 1 .. i - 1 : \E j \in 1 .. c[m] : x = <<m, j>>
    BY <1>1, PlaceFacts
  <2>3. \A x : x \in Row <=> \E j \in 1 .. c[i] : x = <<i, j>>
    OBVIOUS
  <2>4. \A m : m \in 1 .. i <=> m = i \/ m \in 1 .. i - 1
    BY <1>1
  <2> HIDE DEF Row
  <2> QED
    BY <2>1, <2>2, <2>3, <2>4
<1>4. Places(c, i - 1) \cap Row = {}
  <2> SUFFICES ASSUME NEW x \in Row, x \in Places(c, i - 1) PROVE FALSE
    OBVIOUS
  <2>1. PICK m \in 1 .. i - 1 : \E j \in 1 .. c[m] : x = <<m, j>>
    BY <1>1, PlaceFacts
  <2>2. x[1] = m /\ x[1] = i
    BY <2>1
  <2> QED
    BY <1>1, <2>1, <2>2
<1> HIDE DEF Row
<1>5. IsFiniteSet(Places(c, i))
  <2>1. IsFiniteSet(Places(c, i - 1) \cup Row)
    BY <1>2, FS_Union
  <2> QED
    BY <1>3, <2>1
<1>6. Cardinality(Places(c, i)) = Cardinality(Places(c, i - 1)) + Cardinality(Row)
  <2>1. Cardinality(Places(c, i)) = Cardinality(Places(c, i - 1)) + Cardinality(Row) - Cardinality({})
    BY <1>2, <1>3, <1>4, FS_Union
  <2>2. Cardinality(Places(c, i - 1)) \in Nat
    BY FS_CardinalityType
  <2> QED
    BY <1>1, <1>2, <2>1, <2>2, FS_EmptySet
<1> QED
  BY <1>2, <1>5, <1>6 DEF Counted, Places

LEMMA CountZero ==
  ASSUME NEW c \in Sizes
  PROVE  Places(c, 0) = {} /\ IsFiniteSet(Places(c, 0)) /\ Counted(c, 0) = 0
<1>1. Places(c, 0) = {}
  BY DEF Places
<1> QED
  BY <1>1, FS_EmptySet DEF Counted, Places

(* The places are finitely many.                                           *)
LEMMA PlacesFinite ==
  ASSUME NEW c \in Sizes
  PROVE  \A n \in 0 .. HtSize : IsFiniteSet(Places(c, n)) /\ Counted(c, n) \in Nat
<1>1. HtSize \in Nat
  BY MetaStorAssumption
<1> DEFINE T == {n \in 0 .. HtSize : ~IsFiniteSet(Places(c, n))}
<1>2. T = {}
  <2> SUFFICES ASSUME T # {} PROVE FALSE
    OBVIOUS
  <2>1. T \in SUBSET Nat
    BY <1>1
  <2>2. PICK x \in T : \A y \in T : x <= y
    <3> HIDE DEF T
    <3> QED
      BY <2>1, LeastNatural
  <2>3. x # 0
    BY CountZero
  <2>4. x \in Slots /\ x - 1 \in 0 .. HtSize /\ x - 1 \notin T
    BY <1>1, <2>2, <2>3 DEF Slots
  <2> QED
    BY <2>4, CountStep
<1>3. ASSUME NEW n \in 0 .. HtSize PROVE IsFiniteSet(Places(c, n)) /\ Counted(c, n) \in Nat
  <2>1. IsFiniteSet(Places(c, n))
    BY <1>2
  <2> QED
    BY <2>1, FS_CardinalityType DEF Counted, Places
<1> QED
  BY <1>3

(* The count slot by slot.                                                 *)
LEMMA CountFacts ==
  ASSUME NEW c \in Sizes
  PROVE  /\ Counted(c, 0) = 0
         /\ \A n \in 0 .. HtSize : Counted(c, n) \in Nat
         /\ \A i \in Slots : i - 1 \in 0 .. HtSize /\ Counted(c, i) = Counted(c, i - 1) + c[i]
<1>1. HtSize \in Nat
  BY MetaStorAssumption
<1>2. ASSUME NEW i \in Slots
      PROVE  i - 1 \in 0 .. HtSize /\ Counted(c, i) = Counted(c, i - 1) + c[i]
  <2>1. i - 1 \in 0 .. HtSize
    BY <1>1 DEF Slots
  <2> QED
    BY <2>1, PlacesFinite, CountStep
<1> QED
  BY <1>2, CountZero, PlacesFinite

(* More lists, or longer ones, have more places.                           *)
LEMMA CountMonotone ==
  ASSUME NEW c \in Sizes, NEW d \in Sizes, \A i \in Slots : c[i] <= d[i],
         NEW m \in 0 .. HtSize, NEW n \in m .. HtSize
  PROVE  Counted(c, m) <= Counted(d, n)
<1>1. HtSize \in Nat /\ n \in 0 .. HtSize
  BY MetaStorAssumption
<1>2. Places(c, m) \subseteq Places(d, n)
  <2> SUFFICES ASSUME NEW x \in Places(c, m) PROVE x \in Places(d, n)
    OBVIOUS
  <2>1. PICK i \in 1 .. m : \E j \in 1 .. c[i] : x = <<i, j>>
    BY PlaceFacts
  <2>2. PICK j \in 1 .. c[i] : x = <<i, j>>
    BY <2>1
  <2>3. i \in 1 .. n /\ i \in Slots
    BY <1>1 DEF Slots
  <2>4. j \in 1 .. d[i]
    BY <2>3 DEF Sizes
  <2> QED
    BY <1>1, <2>2, <2>3, <2>4, PlaceFacts
<1>3. Cardinality(Places(c, m)) <= Cardinality(Places(d, n))
  BY <1>1, <1>2, PlacesFinite, FS_Subset
<1> QED
  BY <1>3 DEF Counted, Places

(* One entry more in one list is one more of all.                          *)
LEMMA CountOneMore ==
  ASSUME NEW c \in Sizes, NEW d \in Sizes, NEW i \in Slots, d = [c EXCEPT ![i] = @ + 1]
  PROVE  Counted(d, HtSize) = Counted(c, HtSize) + 1
<1>1. HtSize \in Nat /\ HtSize \in 0 .. HtSize /\ c[i] \in Nat /\ d[i] = c[i] + 1
  BY MetaStorAssumption DEF Sizes
<1>2. Places(d, HtSize) = Places(c, HtSize) \cup {<<i, c[i] + 1>>}
  <2>1. \A x : x \in Places(c, HtSize) <=> \E m \in Slots : \E j \in 1 .. c[m] : x = <<m, j>>
    BY <1>1, PlaceFacts DEF Slots
  <2>2. \A x : x \in Places(d, HtSize) <=> \E m \in Slots : \E j \in 1 .. d[m] : x = <<m, j>>
    BY <1>1, PlaceFacts DEF Slots
  <2>3. \A m \in Slots : m # i => d[m] = c[m]
    BY DEF Sizes
  <2>4. \A j : j \in 1 .. d[i] <=> j = c[i] + 1 \/ j \in 1 .. c[i]
    BY <1>1
  <2> QED
    BY <2>1, <2>2, <2>3, <2>4
<1>3. <<i, c[i] + 1>> \notin Places(c, HtSize)
  <2>1. c[i] + 1 \notin 1 .. c[i]
    BY <1>1
  <2> QED
    BY <1>1, <2>1, PlaceFacts
<1>4. Cardinality(Places(c, HtSize) \cup {<<i, c[i] + 1>>}) = Cardinality(Places(c, HtSize)) + 1
  BY <1>1, <1>3, PlacesFinite, FS_AddElement
<1> QED
  BY <1>2, <1>4 DEF Counted, Places

(* The size of a table is that of its lists.                               *)
LEMMA LensType ==
  ASSUME NEW tab \in Tables
  PROVE  /\ Lens(tab) \in Sizes /\ Counted(Lens(tab), HtSize) \in Nat
         /\ \A i \in Slots : Lens(tab)[i] = Len(tab[i])
<1>1. \A i \in Slots : tab[i] \in Seq(Entries)
  BY DEF Tables
<1>2. \A i \in Slots : Len(tab[i]) \in Nat
  BY <1>1
<1>3. Lens(tab) \in Sizes /\ \A i \in Slots : Lens(tab)[i] = Len(tab[i])
  BY <1>2 DEF Lens, Sizes
<1>4. HtSize \in 0 .. HtSize
  BY MetaStorAssumption
<1> QED
  BY <1>3, <1>4, CountFacts

(* put makes a table longer when the key is new, remove makes it shorter.  *)
LEMMA PutCount ==
  ASSUME NEW tab \in Tables, NEW e \in Entries
  PROVE  Counted(Lens(PutIn(tab, e)), HtSize) =
           IF InIndex(tab, e.key) THEN Counted(Lens(tab), HtSize)
           ELSE Counted(Lens(tab), HtSize) + 1
<1>1. PICK new \in Tables : new = PutIn(tab, e)
  BY PutTab
<1>2. e.key \in Keys /\ SlotOf[e.key] \in Slots
  BY MetaStorAssumption DEF Entries, Slots
<1>3. PICK i \in Slots : i = SlotOf[e.key]
  BY <1>2
<1>4. PICK list \in Seq(Entries) : list = tab[i]
  BY <1>3 DEF Tables
<1>5. PICK q \in Seq(Entries) : q = PutEntry(list, e)
  BY PutList
<1>6. new = [tab EXCEPT ![i] = q] /\ tab \in Tables
  BY <1>1, <1>3, <1>4, <1>5 DEF PutIn
<1>7. new[i] = q /\ \A n \in Slots : n # i => new[n] = tab[n]
  BY <1>6 DEF Tables
<1>8. /\ InIndex(tab, e.key) => Len(q) = Len(list)
      /\ ~InIndex(tab, e.key) => Len(q) = Len(list) + 1
  BY <1>3, <1>4, <1>5, PutList DEF InIndex
<1>9. CASE InIndex(tab, e.key)
  <2>1. \A n \in Slots : Len(new[n]) = Len(tab[n])
    BY <1>4, <1>7, <1>8, <1>9
  <2>2. Lens(new) = Lens(tab)
    BY <2>1 DEF Lens
  <2> QED
    BY <1>1, <1>9, <2>2
<1>10. CASE ~InIndex(tab, e.key)
  <2>1. Lens(tab) \in Sizes /\ Lens(new) \in Sizes
    BY LensType
  <2>2. \A n \in Slots : Lens(new)[n] = IF n = i THEN Lens(tab)[n] + 1 ELSE Lens(tab)[n]
    BY <1>4, <1>7, <1>8, <1>10, LensType
  <2>3. Lens(new) = [Lens(tab) EXCEPT ![i] = @ + 1]
    BY <2>1, <2>2 DEF Sizes
  <2>4. Counted(Lens(new), HtSize) = Counted(Lens(tab), HtSize) + 1
    BY <2>1, <2>3, CountOneMore
  <2> QED
    BY <1>1, <1>10, <2>4
<1> QED
  BY <1>9, <1>10

LEMMA RemoveCount ==
  ASSUME NEW tab \in Tables, NEW k \in Keys, InIndex(tab, k)
  PROVE  Counted(Lens(RemoveFrom(tab, k)), HtSize) + 1 = Counted(Lens(tab), HtSize)
<1>1. PICK new \in Tables : new = RemoveFrom(tab, k)
  BY RemoveTab
<1>2. SlotOf[k] \in Slots
  BY MetaStorAssumption DEF Slots
<1>3. PICK i \in Slots : i = SlotOf[k]
  BY <1>2
<1>4. PICK list \in Seq(Entries) : list = tab[i]
  BY <1>3 DEF Tables
<1>0. Position(list, k) # 0
  BY <1>3, <1>4 DEF InIndex
<1>5. PICK q \in Seq(Entries) : q = RemoveKey(list, k) /\ Len(q) = Len(list) - 1
  BY <1>0, RemoveList
<1>6. new = [tab EXCEPT ![i] = q] /\ tab \in Tables
  BY <1>1, <1>3, <1>4, <1>5 DEF RemoveFrom
<1>7. new[i] = q /\ \A n \in Slots : n # i => new[n] = tab[n]
  BY <1>6 DEF Tables
<1>8. Lens(tab) \in Sizes /\ Lens(new) \in Sizes
  BY LensType
<1>9. Len(list) = Len(q) + 1 /\ Lens(tab)[i] = Len(list) /\ Lens(new)[i] = Len(q)
  BY <1>4, <1>5, <1>7, LensType
<1>10. \A n \in Slots : n # i => Lens(tab)[n] = Lens(new)[n]
  BY <1>7, LensType
<1>11. \A n \in Slots : Lens(tab)[n] = IF n = i THEN Lens(new)[n] + 1 ELSE Lens(new)[n]
  BY <1>9, <1>10
<1>12. Lens(tab) = [Lens(new) EXCEPT ![i] = @ + 1]
  BY <1>8, <1>11 DEF Sizes
<1> QED
  BY <1>1, <1>8, <1>12, CountOneMore

(* A good table has one entry for each of its keys.                        *)
LEMMA CountKeys ==
  ASSUME NEW tab \in Tables, Good(tab)
  PROVE  Cardinality({k \in Keys : InIndex(tab, k)}) = Counted(Lens(tab), HtSize)
<1>1. HtSize \in 0 .. HtSize /\ HtSize \in Nat
  BY MetaStorAssumption
<1>2. Lens(tab) \in Sizes /\ \A i \in Slots : Lens(tab)[i] = Len(tab[i])
  BY LensType
<1> DEFINE P == Places(Lens(tab), HtSize)
           K == {k \in Keys : InIndex(tab, k)}
           f == [x \in P |-> tab[x[1]][x[2]].key]
<1>3. ASSUME NEW x \in P
      PROVE  \E i \in Slots : \E j \in 1 .. Len(tab[i]) : x = <<i, j>>
  BY <1>1, <1>2, PlaceFacts DEF Slots
<1>4. ASSUME NEW x \in P PROVE f[x] \in K
  <2>1. PICK i \in Slots : \E j \in 1 .. Len(tab[i]) : x = <<i, j>>
    BY <1>3
  <2>2. PICK j \in 1 .. Len(tab[i]) : x = <<i, j>>
    BY <2>1
  <2>3. f[x] = tab[i][j].key
    BY <2>2
  <2>4. PICK list \in Seq(Entries) : list = tab[i]
    BY <2>1 DEF Tables
  <2>5. list[j] \in Entries
    BY <2>2, <2>4
  <2>6. tab[i][j] \in Held(tab)
    BY <2>1, <2>2, <2>4, <2>5 DEF Held
  <2>7. InIndex(tab, tab[i][j].key) /\ tab[i][j].key \in Keys
    BY <2>6, GoodEntries
  <2> QED
    BY <2>3, <2>7
<1>5. ASSUME NEW x \in P, NEW y \in P, f[x] = f[y] PROVE x = y
  <2>1. PICK i \in Slots : \E j \in 1 .. Len(tab[i]) : x = <<i, j>>
    BY <1>3
  <2>2. PICK j \in 1 .. Len(tab[i]) : x = <<i, j>>
    BY <2>1
  <2>3. PICK n \in Slots : \E m \in 1 .. Len(tab[n]) : y = <<n, m>>
    BY <1>3
  <2>4. PICK m \in 1 .. Len(tab[n]) : y = <<n, m>>
    BY <2>3
  <2>5. tab[i][j].key = tab[n][m].key
    BY <1>5, <2>2, <2>4
  <2>6. GoodList(tab[i], i) /\ GoodList(tab[n], n)
    BY DEF Good
  <2>7. i = n
    BY <2>5, <2>6 DEF GoodList
  <2>8. j = m
    BY <2>5, <2>6, <2>7 DEF GoodList
  <2> QED
    BY <2>2, <2>4, <2>7, <2>8
<1>6. ASSUME NEW k \in K PROVE \E x \in P : f[x] = k
  <2>1. InIndex(tab, k) /\ SlotOf[k] \in Slots
    BY MetaStorAssumption DEF Slots
  <2>2. PICK i \in Slots : i = SlotOf[k]
    BY <2>1
  <2>3. PICK list \in Seq(Entries) : list = tab[i]
    BY <2>2 DEF Tables
  <2>4. PICK j : j = Position(list, k)
    OBVIOUS
  <2>5. First(list, k, j)
    BY <2>1, <2>2, <2>3, <2>4, PositionFacts DEF InIndex
  <2>6. j \in 1 .. Len(tab[i]) /\ tab[i][j].key = k
    BY <2>3, <2>5 DEF First
  <2>7. <<i, j>> \in P
    BY <1>1, <1>2, <2>2, <2>6, PlaceFacts DEF Slots
  <2>8. f[<<i, j>>] = k
    BY <2>6, <2>7
  <2> QED
    BY <2>7, <2>8
<1>7. f \in Bijection(P, K)
  <2>1. f \in [P -> K]
    BY <1>4
  <2> HIDE DEF f, P, K
  <2> QED
    BY <1>5, <1>6, <2>1 DEF Bijection, Injection, Surjection, IsInjective
<1> HIDE DEF f
<1>8. ExistsBijection(P, K) /\ IsFiniteSet(P)
  BY <1>1, <1>2, <1>7, PlacesFinite DEF ExistsBijection
<1>9. Cardinality(K) = Cardinality(P)
  <2> HIDE DEF P, K
  <2> QED
    BY <1>8, FS_Bijection
<1> QED
  BY <1>9 DEF Counted, Places

-----------------------------------------------------------------------------
(* Tables that differ in where the records of their entries lie. *)

Like(e, f) == e.key = f.key /\ e.ver = f.ver /\ e.del = f.del

Alike(tab, new) ==
  \A i \in Slots : /\ Len(tab[i]) = Len(new[i])
                   /\ \A j \in 1 .. Len(tab[i]) : Like(tab[i][j], new[i][j])

(* The version that a read finds, 0 if there is none.                      *)
Seen(tab, k) == IF InIndex(tab, k) /\ ~EntryOf(tab, k).del THEN EntryOf(tab, k).ver ELSE 0

LEMMA AlikeFacts ==
  ASSUME NEW tab \in Tables, NEW new \in Tables, Alike(tab, new)
  PROVE  /\ Lens(new) = Lens(tab)
         /\ \A k \in Keys : /\ InIndex(new, k) <=> InIndex(tab, k)
                            /\ InIndex(tab, k) => Like(EntryOf(tab, k), EntryOf(new, k))
                            /\ Seen(new, k) = Seen(tab, k)
         /\ Good(tab) => Good(new)
<1>1. Lens(new) = Lens(tab)
  BY DEF Alike, Lens
<1>2. ASSUME NEW k \in Keys
      PROVE  /\ InIndex(new, k) <=> InIndex(tab, k)
             /\ InIndex(tab, k) => Like(EntryOf(tab, k), EntryOf(new, k))
  <2>1. SlotOf[k] \in Slots
    BY MetaStorAssumption DEF Slots
  <2>2. PICK i \in Slots : i = SlotOf[k]
    BY <2>1
  <2>3. PICK list \in Seq(Entries) : list = tab[i]
    BY <2>2 DEF Tables
  <2>4. PICK q \in Seq(Entries) : q = new[i]
    BY <2>2 DEF Tables
  <2>5. Len(list) = Len(q) /\ \A j \in 1 .. Len(list) : Like(list[j], q[j])
    BY <2>2, <2>3, <2>4 DEF Alike
  <2>6. PICK p : p = Position(list, k)
    OBVIOUS
  <2>7. (p = 0 /\ \A j \in 1 .. Len(list) : list[j].key # k) \/ First(list, k, p)
    BY <2>6, PositionFacts
  <2>8. Len(list) \in Nat
    OBVIOUS
  <2>9. CASE p = 0 /\ \A j \in 1 .. Len(list) : list[j].key # k
    <3>1. Position(q, k) = 0
      BY <2>5, <2>9, PositionNone DEF Like
    <3> QED
      BY <2>2, <2>3, <2>4, <2>6, <2>9, <3>1 DEF InIndex
  <2>10. CASE First(list, k, p)
    <3>1. p \in 1 .. Len(list) /\ list[p].key = k /\ \A j \in 1 .. p - 1 : list[j].key # k
      BY <2>10 DEF First
    <3>2. \A j \in 1 .. p - 1 : j \in 1 .. Len(list)
      BY <2>8, <3>1
    <3>3. First(q, k, p)
      BY <2>5, <3>1, <3>2 DEF First, Like
    <3>4. Position(q, k) = p /\ p # 0 /\ Like(list[p], q[p])
      BY <2>5, <3>1, <3>3, PositionIs
    <3> QED
      BY <2>2, <2>3, <2>4, <2>6, <3>4 DEF InIndex, EntryOf
  <2> QED
    BY <2>7, <2>9, <2>10
<1>3. \A k \in Keys : Seen(new, k) = Seen(tab, k)
  BY <1>2 DEF Seen, Like
<1>4. ASSUME Good(tab) PROVE Good(new)
  BY <1>4 DEF Good, GoodList, Alike, Like
<1> QED
  BY <1>1, <1>2, <1>3, <1>4

-----------------------------------------------------------------------------
(* The index on the device. *)

(* Stretch and Loaded for the counters c and the entries s.                *)
Piece(s, m, n) ==
  [j \in 1 .. Cardinality((m + 1 .. m + n) \cap DOMAIN s) |-> s[m + j]]
TableOf(c, s) == [i \in Slots |-> Piece(s, Counted(c, i - 1), c[i])]

LEMMA LoadedIs == Loaded = TableOf(disk.counters, disk.stream)
BY DEF Loaded, SlotLoaded, Stretch, Before, TableOf, Piece

(* A piece of a list: what is asked for, as far as the list reaches.       *)
LEMMA PieceFacts ==
  ASSUME NEW s \in Seq(Entries), NEW m \in Nat, NEW n \in Nat
  PROVE  /\ Piece(s, m, n) \in Seq(Entries) /\ Len(Piece(s, m, n)) <= n
         /\ \A j \in 1 .. Len(Piece(s, m, n)) :
              m + j \in 1 .. Len(s) /\ Piece(s, m, n)[j] = s[m + j]
         /\ m + n <= Len(s) => Len(Piece(s, m, n)) = n
<1>1. PICK L \in Nat : L = Len(s)
  OBVIOUS
<1>2. DOMAIN s = 1 .. L
  BY <1>1
<1>3. PICK b \in Nat : b = IF m + n <= L THEN m + n ELSE IF m <= L THEN L ELSE m
  OBVIOUS
<1>4. (m + 1 .. m + n) \cap (1 .. L) = m + 1 .. b
  BY <1>3
<1>5. m + 1 \in Int /\ b \in Int
  OBVIOUS
<1>6. Cardinality(m + 1 .. b) = IF m + 1 > b THEN 0 ELSE b - (m + 1) + 1
  BY <1>5, FS_Interval
<1>7. Cardinality(m + 1 .. b) = b - m /\ b - m \in Nat
  BY <1>3, <1>6
<1>8. Piece(s, m, n) = [j \in 1 .. b - m |-> s[m + j]]
  BY <1>2, <1>4, <1>7 DEF Piece
<1>9. \A j \in 1 .. b - m : m + j \in 1 .. L
  BY <1>3
<1>10. \A j \in 1 .. b - m : s[m + j] \in Entries
  <2> SUFFICES ASSUME NEW j \in 1 .. b - m PROVE s[m + j] \in Entries
    OBVIOUS
  <2>1. PICK n1 : n1 = m + j /\ n1 \in 1 .. Len(s)
    BY <1>1, <1>9
  <2> QED
    BY <2>1, ElementOfSeq
<1>11. PICK t : t = [j \in 1 .. b - m |-> s[m + j]]
  OBVIOUS
<1>12. t \in [1 .. b - m -> Entries] /\ \A j \in 1 .. b - m : t[j] = s[m + j]
  BY <1>10, <1>11
<1>13. t \in Seq(Entries) /\ Len(t) = b - m
  BY <1>7, <1>12, LenProperties
<1>14. /\ t \in Seq(Entries) /\ Len(t) <= n
       /\ \A j \in 1 .. Len(t) : m + j \in 1 .. Len(s) /\ t[j] = s[m + j]
       /\ m + n <= Len(s) => Len(t) = n
  BY <1>1, <1>3, <1>9, <1>12, <1>13
<1> QED
  BY <1>8, <1>11, <1>14

(* Whatever the device has, a table is made of it, no longer than the      *)
(* counters say.                                                           *)
LEMMA LoadedType ==
  ASSUME NEW c \in Sizes, NEW s \in Seq(Entries)
  PROVE  /\ TableOf(c, s) \in Tables
         /\ \A i \in Slots : Len(TableOf(c, s)[i]) <= c[i]
         /\ \A e \in Held(TableOf(c, s)) : \E n \in 1 .. Len(s) : s[n] = e
<1>1. \A i \in Slots : Counted(c, i - 1) \in Nat /\ c[i] \in Nat
  BY CountFacts DEF Sizes
<1>2. PICK tab : tab = TableOf(c, s)
  OBVIOUS
<1>3. \A i \in Slots : tab[i] = Piece(s, Counted(c, i - 1), c[i])
  BY <1>2 DEF TableOf
<1>4. \A i \in Slots :
        /\ tab[i] \in Seq(Entries) /\ Len(tab[i]) <= c[i]
        /\ \A j \in 1 .. Len(tab[i]) :
             Counted(c, i - 1) + j \in 1 .. Len(s) /\ tab[i][j] = s[Counted(c, i - 1) + j]
  <2> SUFFICES ASSUME NEW i \in Slots
               PROVE  /\ tab[i] \in Seq(Entries) /\ Len(tab[i]) <= c[i]
                      /\ \A j \in 1 .. Len(tab[i]) :
                           /\ Counted(c, i - 1) + j \in 1 .. Len(s)
                           /\ tab[i][j] = s[Counted(c, i - 1) + j]
    OBVIOUS
  <2>1. PICK m \in Nat : m = Counted(c, i - 1)
    BY <1>1
  <2>2. PICK n \in Nat : n = c[i]
    BY <1>1
  <2>3. tab[i] = Piece(s, m, n)
    BY <1>3, <2>1, <2>2
  <2>4. PICK q : q = Piece(s, m, n)
    OBVIOUS
  <2>5. /\ q \in Seq(Entries) /\ Len(q) <= n
        /\ \A j \in 1 .. Len(q) : m + j \in 1 .. Len(s) /\ q[j] = s[m + j]
    BY <2>4, PieceFacts
  <2> QED
    BY <2>1, <2>2, <2>3, <2>4, <2>5
<1>5. tab \in Tables
  BY <1>2, <1>4 DEF TableOf, Tables
<1>6. \A e \in Held(tab) : \E n \in 1 .. Len(s) : s[n] = e
  BY <1>4 DEF Held
<1> QED
  BY <1>2, <1>4, <1>5, <1>6

(* Entry n of slot i, within the first p slots, is among their entries.    *)
LEMMA PlaceOfEntry ==
  ASSUME NEW c \in Sizes, NEW p \in 0 .. HtSize, NEW i \in 1 .. p, NEW j \in 1 .. c[i]
  PROVE  Counted(c, i - 1) + j \in 1 .. Counted(c, p)
<1>1. HtSize \in Nat /\ i \in Slots /\ i \in 0 .. HtSize /\ p \in i .. HtSize
  BY MetaStorAssumption DEF Slots
<1>2. c[i] \in Nat /\ \A n \in Slots : c[n] <= c[n]
  BY <1>1 DEF Sizes
<1>3. Counted(c, i) <= Counted(c, p)
  BY <1>1, <1>2, CountMonotone
<1>4. /\ Counted(c, i) = Counted(c, i - 1) + c[i] /\ i - 1 \in 0 .. HtSize
      /\ Counted(c, i) \in Nat /\ Counted(c, p) \in Nat
  BY <1>1, CountFacts
<1>5. Counted(c, i - 1) \in Nat
  BY <1>4, CountFacts
<1> QED
  BY <1>2, <1>3, <1>4, <1>5

(* The first p lists of the table have been copied: c are their lengths,   *)
(* s their entries one after the other.                                    *)
Copied(tab, c, s, p) ==
  /\ c = Lens(tab)
  /\ Len(s) = Counted(c, p)
  /\ \A i \in 1 .. p : \A j \in 1 .. c[i] : Like(tab[i][j], s[Counted(c, i - 1) + j])

(* What was copied is read back.                                           *)
LEMMA LoadCopy ==
  ASSUME NEW tab \in Tables, NEW c \in Sizes, NEW s \in Seq(Entries), Copied(tab, c, s, HtSize)
  PROVE  Alike(tab, TableOf(c, s))
<1>1. HtSize \in Nat /\ HtSize \in 0 .. HtSize
  BY MetaStorAssumption
<1>2. ASSUME NEW i \in Slots
      PROVE  /\ Len(tab[i]) = Len(TableOf(c, s)[i])
             /\ \A j \in 1 .. Len(tab[i]) : Like(tab[i][j], TableOf(c, s)[i][j])
  <2>1. PICK m \in Nat : m = Counted(c, i - 1)
    BY CountFacts
  <2>2. PICK n \in Nat : n = c[i]
    BY DEF Sizes
  <2>3. n = Len(tab[i])
    BY <2>2, LensType DEF Copied
  <2>4. m + n <= Len(s)
    <3>1. Counted(c, i) = m + n /\ Len(s) = Counted(c, HtSize)
      BY <2>1, <2>2, CountFacts DEF Copied
    <3>2. \A x \in Slots : c[x] <= c[x]
      BY DEF Sizes
    <3>3. i \in 0 .. HtSize /\ HtSize \in i .. HtSize
      BY <1>1 DEF Slots
    <3>4. Counted(c, i) <= Counted(c, HtSize)
      BY <1>1, <3>2, <3>3, CountMonotone
    <3> QED
      BY <3>1, <3>4
  <2>5. TableOf(c, s)[i] = Piece(s, m, n)
    BY <2>1, <2>2 DEF TableOf
  <2>6. PICK t : t = Piece(s, m, n)
    OBVIOUS
  <2>7. Len(t) = n /\ \A j \in 1 .. n : t[j] = s[m + j]
    BY <2>4, <2>6, PieceFacts
  <2>8. \A j \in 1 .. n : Like(tab[i][j], s[m + j])
    BY <2>1, <2>2 DEF Copied, Slots
  <2> QED
    BY <2>3, <2>5, <2>6, <2>7, <2>8
<1> QED
  BY <1>2 DEF Alike

(* One slot more is copied.                                                *)
LEMMA CopyStep ==
  ASSUME NEW tab \in Tables, NEW c \in Sizes, NEW s \in Seq(Entries), NEW p \in Slots,
         Copied(tab, c, s, p - 1)
  PROVE  Copied(tab, c, s \o tab[p], p)
<1>1. HtSize \in Nat /\ p \in Nat /\ p - 1 \in 0 .. HtSize /\ p \in 0 .. HtSize
  BY MetaStorAssumption DEF Slots
<1>2. PICK list \in Seq(Entries) : list = tab[p]
  BY DEF Tables
<1>3. c[p] = Len(list) /\ Len(list) \in Nat /\ Len(s) \in Nat
  BY <1>2, LensType DEF Copied
<1>4. PICK t : t = s \o list
  OBVIOUS
<1>5. /\ Len(t) = Len(s) + Len(list)
      /\ \A n \in 1 .. Len(s) + Len(list) :
           t[n] = IF n <= Len(s) THEN s[n] ELSE list[n - Len(s)]
  BY <1>4, ConcatProperties
<1>6. Len(s) = Counted(c, p - 1) /\ Counted(c, p) = Counted(c, p - 1) + c[p]
  BY CountFacts DEF Copied
<1>7. ASSUME NEW i \in 1 .. p, NEW j \in 1 .. c[i]
      PROVE  Like(tab[i][j], t[Counted(c, i - 1) + j])
  <2>1. CASE i = p
    <3>1. PICK n : n = Counted(c, i - 1) + j
      OBVIOUS
    <3>2. n \in 1 .. Len(s) + Len(list) /\ ~(n <= Len(s)) /\ n - Len(s) = j
      BY <1>3, <1>6, <2>1, <3>1
    <3>3. t[n] = list[j]
      BY <1>5, <3>2
    <3> QED
      BY <1>2, <2>1, <3>1, <3>3 DEF Like
  <2>2. CASE i # p
    <3>1. i \in 1 .. p - 1
      BY <1>1, <2>2
    <3>2. PICK n : n = Counted(c, i - 1) + j
      OBVIOUS
    <3>3. n \in 1 .. Len(s)
      BY <1>1, <1>6, <3>1, <3>2, PlaceOfEntry
    <3>4. t[n] = s[n]
      BY <1>3, <1>5, <3>3
    <3> QED
      BY <3>1, <3>2, <3>4 DEF Copied
  <2> QED
    BY <2>1, <2>2
<1> QED
  BY <1>2, <1>3, <1>4, <1>5, <1>6, <1>7 DEF Copied

(* Nothing is copied yet.                                                  *)
LEMMA CopyStart ==
  ASSUME NEW tab \in Tables
  PROVE  Copied(tab, Lens(tab), <<>>, 0)
BY LensType, CountFacts DEF Copied

(* The copy of a table is a copy of every table alike.                     *)
LEMMA CopyAlike ==
  ASSUME NEW tab \in Tables, NEW new \in Tables, Alike(tab, new),
         NEW c, NEW s, NEW p \in 0 .. HtSize, Copied(tab, c, s, p)
  PROVE  Copied(new, c, s, p)
<1>1. Lens(new) = Lens(tab) /\ c = Lens(tab)
  BY AlikeFacts DEF Copied
<1>2. ASSUME NEW i \in 1 .. p, NEW j \in 1 .. c[i] PROVE Like(new[i][j], s[Counted(c, i - 1) + j])
  <2>1. i \in Slots
    BY MetaStorAssumption DEF Slots
  <2>2. j \in 1 .. Len(tab[i])
    BY <1>1, <2>1, LensType
  <2> QED
    BY <2>1, <2>2 DEF Copied, Alike, Like
<1> QED
  BY <1>1, <1>2 DEF Copied

-----------------------------------------------------------------------------
(* What holds of every store, damaged or not. *)

Up == phase = "open" \/ Closing

MergeRecord == [at : {"idle", "write", "index"}, from : SUBSET Segs,
                to : Segs \cup {0}, live : SUBSET Keys]
SnapRecord == [counters : Sizes, stream : Seq(Entries), slot : Nat \ {0}]
DiskRecord == [valid : BOOLEAN, count : Nat, counters : Sizes, stream : Seq(Entries),
               sst : [Segs -> {"FREE", "USED"}]]

(* The types of all variables.                                             *)
Shape ==
  /\ TypeOK
  /\ ver \in 0 .. MaxVer /\ dirty \in BOOLEAN /\ sbCount \in Nat
  /\ reapQ \in Seq(Entries) /\ uncounted \in {0, 1}
  /\ merge \in MergeRecord /\ (merge.at # "idle" => merge.to \in Segs)
  /\ snap \in SnapRecord /\ disk \in DiskRecord
  /\ phase = "counters" => snap.slot \in Slots

(* A store that is not open has nothing in memory.                         *)
Stopped ==
  ~Up => /\ htab = EmptyTable /\ keyCounter = 0 /\ table = [s \in Segs |-> "FREE"]
         /\ merge = NoMerge /\ reapQ = <<>> /\ uncounted = 0

(* The records that a merge carries are in the index and not deleted.      *)
LiveEntries == \A k \in merge.live : InIndex(htab, k) /\ ~EntryOf(htab, k).del

(* Every entry comes from a write that was made.                           *)
Vers ==
  /\ \A e \in Held(htab) : e.ver <= ver
  /\ \A n \in 1 .. Len(snap.stream) : snap.stream[n].ver <= ver
  /\ \A n \in 1 .. Len(disk.stream) : disk.stream[n].ver <= ver
  /\ \A n \in 1 .. Len(reapQ) : reapQ[n].ver <= ver

(* What the reaper has of a write is that it was a Delete.                 *)
ReapVers ==
  \A n \in 1 .. Len(reapQ) : \A e \in Held(htab) : e.ver = reapQ[n].ver => e.del

(* keyCounter is not below the number of entries.                          *)
CounterCovers == Counted(Lens(htab), HtSize) + uncounted <= keyCounter

(* While the metadata is being written the store is dirty; before it was   *)
(* created nothing has happened.                                           *)
Undisturbed ==
  /\ phase \in {"meta", "ssts", "sb"} => dirty
  /\ phase = "none" => hurt = {} /\ disk = Zeroed /\ ver = 0 /\ reapQ = <<>>

Base == Shape /\ Stopped /\ LiveEntries /\ Vers /\ ReapVers /\ CounterCovers /\ Undisturbed

LEMMA EmptyFacts ==
  /\ EmptyTable \in Tables /\ Held(EmptyTable) = {} /\ Good(EmptyTable)
  /\ \A k \in Keys : ~InIndex(EmptyTable, k)
  /\ Counted(Lens(EmptyTable), HtSize) = 0
  /\ EmptySnap \in SnapRecord /\ Zeroed \in DiskRecord /\ NoMerge \in MergeRecord
  /\ EmptySnap.slot = 1 /\ 1 \in Slots /\ EmptySnap.stream = <<>> /\ Zeroed.stream = <<>>
  /\ NoMerge.at = "idle" /\ NoMerge.live = {}
<1>1. EmptyTable \in Tables /\ \A i \in Slots : EmptyTable[i] = <<>>
  BY DEF EmptyTable, Tables
<1>2. Held(EmptyTable) = {} /\ Good(EmptyTable)
  <2>1. \A i \in Slots : Len(EmptyTable[i]) = 0
    BY <1>1
  <2> QED
    BY <2>1 DEF Held, Good, GoodList
<1>3. \A k \in Keys : ~InIndex(EmptyTable, k)
  BY <1>1, <1>2, FoundEntry
<1>4. Counted(Lens(EmptyTable), HtSize) = 0
  <2>1. Cardinality({k \in Keys : InIndex(EmptyTable, k)}) = Counted(Lens(EmptyTable), HtSize)
    BY <1>1, <1>2, CountKeys
  <2>2. {k \in Keys : InIndex(EmptyTable, k)} = {}
    BY <1>3
  <2> QED
    BY <2>1, <2>2, FS_EmptySet
<1>5. EmptySnap \in SnapRecord /\ EmptySnap.slot = 1 /\ EmptySnap.stream = <<>>
  BY DEF EmptySnap, SnapRecord, Sizes
<1>6. Zeroed \in DiskRecord /\ Zeroed.stream = <<>>
  BY DEF Zeroed, DiskRecord, Sizes
<1>7. NoMerge \in MergeRecord /\ NoMerge.at = "idle" /\ NoMerge.live = {}
  BY DEF NoMerge, MergeRecord
<1>8. 1 \in Slots
  BY MetaStorAssumption DEF Slots
<1> QED
  BY <1>1, <1>2, <1>3, <1>4, <1>5, <1>6, <1>7, <1>8

LEMMA InitBase == Init => Base
<1> SUFFICES ASSUME Init PROVE Base
  OBVIOUS
<1> USE DEF Init
<1>1. TypeOK
  <2>1. htab \in [Slots -> Seq(Entries)] /\ disk.sst = [s \in Segs |-> "FREE"]
    BY EmptyFacts DEF Tables, Zeroed
  <2>2. media \in [Segs -> [Keys -> 0 .. MaxVer]] /\ table \in [Segs -> States]
    BY MetaStorAssumption DEF States
  <2> QED
    BY <2>1, <2>2 DEF TypeOK
<1>2. Shape
  <2>0. 0 \in 0 .. MaxVer
    BY MetaStorAssumption
  <2>1. /\ ver \in 0 .. MaxVer /\ dirty \in BOOLEAN /\ sbCount \in Nat
        /\ uncounted \in {0, 1} /\ phase # "counters"
    BY <2>0
  <2>2. reapQ \in Seq(Entries)
    OBVIOUS
  <2>3. merge \in MergeRecord /\ merge.at = "idle" /\ snap \in SnapRecord /\ disk \in DiskRecord
    BY EmptyFacts
  <2> QED
    BY <1>1, <2>1, <2>2, <2>3 DEF Shape
<1>3. Stopped
  BY DEF Stopped
<1>4. LiveEntries /\ Vers /\ ReapVers
  <2>1. Len(snap.stream) = 0 /\ Len(disk.stream) = 0 /\ Len(reapQ) = 0
    BY EmptyFacts
  <2> QED
    BY <2>1, EmptyFacts DEF LiveEntries, Vers, ReapVers
<1>5. CounterCovers /\ Undisturbed
  BY EmptyFacts DEF CounterCovers, Undisturbed
<1> QED
  BY <1>2, <1>3, <1>4, <1>5 DEF Base

-----------------------------------------------------------------------------
(* The steps that leave the index alone. *)

(* What was copied, read back or queued stays within the writes made.      *)
LEMMA IndexKept ==
  ASSUME Base, htab' = htab, reapQ' = reapQ, ver' = ver, merge'.live \subseteq merge.live
  PROVE  LiveEntries' /\ ReapVers' /\ \A e \in Held(htab') : e.ver <= ver'
BY DEF Base, LiveEntries, ReapVers, Vers

LEMMA CreateBase == Base /\ CreateKVDS => Base'
<1> SUFFICES ASSUME Base, CreateKVDS PROVE Base'
  OBVIOUS
<1> USE DEF Base, CreateKVDS, memory, background
<1>1. Shape'
  BY EmptyFacts DEF Shape, TypeOK, Zeroed
<1>2. Vers'
  BY EmptyFacts DEF Vers
<1>3. LiveEntries' /\ ReapVers' /\ Stopped' /\ CounterCovers' /\ Undisturbed'
  BY DEF LiveEntries, ReapVers, Stopped, CounterCovers, Undisturbed, Up
<1> QED
  BY <1>1, <1>2, <1>3

LEMMA ReapCountBase == Base /\ ReapCount => Base'
<1> SUFFICES ASSUME Base, ReapCount PROVE Base'
  OBVIOUS
<1> USE DEF Base, ReapCount, history
<1>1. keyCounter' \in Nat /\ CounterCovers'
  <2>1. Counted(Lens(htab), HtSize) \in Nat
    BY LensType DEF Shape, TypeOK, Tables
  <2>2. Counted(Lens(htab'), HtSize) = Counted(Lens(htab), HtSize)
    OBVIOUS
  <2> QED
    BY <2>1, <2>2 DEF CounterCovers, Shape, TypeOK
<1>2. Shape'
  BY <1>1 DEF Shape, TypeOK
<1>3. LiveEntries' /\ ReapVers' /\ Stopped' /\ Vers' /\ Undisturbed'
  BY DEF LiveEntries, ReapVers, Stopped, Vers, Undisturbed, Up, Closing
<1> QED
  BY <1>1, <1>2, <1>3

LEMMA MergeStartBase ==
  ASSUME Base, NEW from \in SUBSET Segs, NEW t \in Segs, MergeStart(from, t)
  PROVE  Base'
<1> USE DEF Base, MergeStart, history
<1> DEFINE live == UNION {LiveIn(s) : s \in from}
<1>1. live \in SUBSET Keys /\ \A k \in live : InIndex(htab, k) /\ ~EntryOf(htab, k).del
  BY DEF LiveIn
<1>2. merge' = [at |-> "write", from |-> from, to |-> t, live |-> live]
  OBVIOUS
<1> HIDE DEF live
<1>3. merge' \in MergeRecord /\ merge'.to \in Segs /\ merge'.live = live
  BY <1>1, <1>2 DEF MergeRecord
<1>4. Shape'
  BY <1>3 DEF Shape, TypeOK, States, history
<1>5. LiveEntries'
  BY <1>1, <1>3 DEF LiveEntries
<1>6. ReapVers' /\ Stopped' /\ CounterCovers' /\ Vers' /\ Undisturbed'
  BY DEF ReapVers, Stopped, Vers, CounterCovers, Undisturbed, Up, Closing
<1> QED
  BY <1>4, <1>5, <1>6

LEMMA MergeWriteBase == Base /\ MergeWrite => Base'
<1> SUFFICES ASSUME Base, MergeWrite PROVE Base'
  OBVIOUS
<1> USE DEF Base, MergeWrite
<1>1. merge.to \in Segs /\ merge \in MergeRecord
  BY DEF Shape
<1>2. merge' \in MergeRecord /\ merge'.to = merge.to /\ merge'.live = merge.live
  BY <1>1 DEF MergeRecord
<1>3. \A k \in merge.live : EntryOf(htab, k).ver \in 0 .. MaxVer
  <2> SUFFICES ASSUME NEW k \in merge.live PROVE EntryOf(htab, k).ver \in 0 .. MaxVer
    OBVIOUS
  <2>1. k \in Keys /\ InIndex(htab, k)
    BY <1>1 DEF MergeRecord, LiveEntries
  <2>2. EntryOf(htab, k) \in Entries
    BY <2>1, FoundEntry DEF Shape, TypeOK, Tables
  <2> QED
    BY <2>2, MetaStorAssumption DEF Entries
<1>4. media' \in [Segs -> [Keys -> 0 .. MaxVer]]
  <2>1. 0 \in 0 .. MaxVer
    BY MetaStorAssumption
  <2>2. [k \in Keys |-> IF k \in merge.live THEN EntryOf(htab, k).ver ELSE 0] \in [Keys -> 0 .. MaxVer]
    BY <1>3, <2>1
  <2> QED
    BY <1>1, <2>2 DEF Shape, TypeOK
<1>5. table' \in [Segs -> States]
  BY <1>1 DEF Shape, TypeOK, States
<1>6. Shape'
  BY <1>1, <1>2, <1>4, <1>5 DEF Shape, TypeOK, history
<1>7. LiveEntries' /\ ReapVers'
  BY <1>2, IndexKept DEF history
<1>8. Up'
  BY DEF Stopped, NoMerge, Up, Closing
<1>9. Stopped' /\ CounterCovers' /\ Vers' /\ Undisturbed'
  BY <1>8 DEF Stopped, Vers, CounterCovers, Undisturbed, history, Closing
<1> QED
  BY <1>6, <1>7, <1>9

LEMMA MergeFreeBase == Base /\ MergeFree => Base'
<1> SUFFICES ASSUME Base, MergeFree PROVE Base'
  OBVIOUS
<1> USE DEF Base, MergeFree
<1>1. merge' \in MergeRecord /\ merge'.at = "idle" /\ merge'.live = {}
  BY EmptyFacts
<1>2. Shape'
  BY <1>1 DEF Shape, TypeOK, States
<1>3. LiveEntries' /\ ReapVers'
  BY <1>1, IndexKept
<1>4. Up
  BY DEF Stopped, NoMerge
<1>5. Stopped' /\ CounterCovers' /\ Vers' /\ Undisturbed'
  BY <1>4 DEF Stopped, Vers, CounterCovers, Undisturbed, Up, Closing
<1> QED
  BY <1>2, <1>3, <1>5

(* closeDB, crash and openDB. *)

(* closeDB goes on in memory that it leaves as it is.                      *)
LEMMA CloseBase ==
  ASSUME Base, Up, Up', UnchangedByClose, snap' \in SnapRecord, disk' \in DiskRecord,
         phase' \in {"counters", "entries", "meta", "ssts", "sb", "stopping"},
         phase' = "counters" => snap'.slot \in Slots,
         sbCount' \in Nat, dirty' \in BOOLEAN, hurt' \in SUBSET {"crash", "reap", "merge"},
         phase' \in {"meta", "ssts", "sb"} => dirty',
         \A n \in 1 .. Len(snap'.stream) : snap'.stream[n].ver <= ver,
         \A n \in 1 .. Len(disk'.stream) : disk'.stream[n].ver <= ver
  PROVE  Base'
<1> USE DEF Base, UnchangedByClose, memory, background
<1>1. Shape'
  BY DEF Shape, TypeOK, DiskRecord
<1>2. LiveEntries' /\ ReapVers' /\ CounterCovers'
  BY DEF LiveEntries, ReapVers, CounterCovers
<1>3. Vers' /\ Stopped' /\ Undisturbed'
  BY DEF Vers, Stopped, Undisturbed
<1> QED
  BY <1>1, <1>2, <1>3

LEMMA CopyCountersBase == Base /\ CopyCounters => Base'
<1> SUFFICES ASSUME Base, CopyCounters PROVE Base'
  OBVIOUS
<1> USE DEF CopyCounters
<1>1. snap' = [EmptySnap EXCEPT !.counters = Lens(htab)]
  BY DEF Lens
<1>2. Lens(htab) \in Sizes
  BY LensType DEF Base, Shape, TypeOK, Tables
<1>3. snap' \in SnapRecord /\ snap'.slot = 1 /\ snap'.stream = <<>>
  BY <1>1, <1>2, EmptyFacts DEF SnapRecord, EmptySnap
<1>4. Up /\ Up'
  BY DEF Up, Closing
<1>5. hurt' \in SUBSET {"crash", "reap", "merge"}
  BY DEF Base, Shape, TypeOK
<1>6. disk' \in DiskRecord /\ sbCount' \in Nat /\ dirty' \in BOOLEAN
  BY DEF Base, Shape
<1>7. /\ \A n \in 1 .. Len(snap'.stream) : snap'.stream[n].ver <= ver
      /\ \A n \in 1 .. Len(disk'.stream) : disk'.stream[n].ver <= ver
  BY <1>3 DEF Base, Vers
<1> QED
  BY <1>3, <1>4, <1>5, <1>6, <1>7, CloseBase, EmptyFacts

(* What CopySlot appends is in the table.                                  *)
LEMMA CopySlotStream ==
  ASSUME Base, CopySlot
  PROVE  /\ snap.slot \in Slots /\ htab[snap.slot] \in Seq(Entries)
         /\ snap' \in SnapRecord /\ snap'.stream = snap.stream \o htab[snap.slot]
         /\ snap'.slot = snap.slot + 1 /\ snap'.counters = snap.counters
         /\ \A n \in 1 .. Len(snap'.stream) :
              \/ n \in 1 .. Len(snap.stream) /\ snap'.stream[n] = snap.stream[n]
              \/ snap'.stream[n] \in Held(htab)
<1> USE DEF CopySlot
<1>1. snap.slot \in Slots /\ snap \in SnapRecord /\ htab \in Tables
  BY DEF Base, Shape, TypeOK, Tables
<1>2. PICK list \in Seq(Entries) : list = htab[snap.slot]
  BY <1>1 DEF Tables
<1>3. PICK s \in Seq(Entries) : s = snap.stream
  BY <1>1 DEF SnapRecord
<1>4. PICK t : t = s \o list
  OBVIOUS
<1>5. /\ t \in Seq(Entries) /\ Len(t) = Len(s) + Len(list)
      /\ \A n \in 1 .. Len(s) + Len(list) :
           t[n] = IF n <= Len(s) THEN s[n] ELSE list[n - Len(s)]
  BY <1>4, ConcatProperties
<1>6. snap' = [snap EXCEPT !.stream = t, !.slot = snap.slot + 1]
  BY <1>2, <1>3, <1>4
<1>7. snap.slot + 1 \in Nat \ {0}
  BY <1>1 DEF Slots
<1>8. /\ snap' \in SnapRecord /\ snap'.stream = t /\ snap'.slot = snap.slot + 1
      /\ snap'.counters = snap.counters
  BY <1>1, <1>5, <1>6, <1>7 DEF SnapRecord
<1>9. ASSUME NEW n \in 1 .. Len(t)
      PROVE  (n \in 1 .. Len(s) /\ t[n] = s[n]) \/ t[n] \in Held(htab)
  <2>1. Len(s) \in Nat /\ Len(list) \in Nat /\ n \in 1 .. Len(s) + Len(list)
    BY <1>5
  <2>2. CASE n <= Len(s)
    BY <1>5, <2>1, <2>2
  <2>3. CASE ~(n <= Len(s))
    <3>1. PICK m : m = n - Len(s)
      OBVIOUS
    <3>2. m \in 1 .. Len(list) /\ t[n] = list[m]
      BY <1>5, <2>1, <2>3, <3>1
    <3>3. list[m] \in Entries
      BY <3>2, ElementOfSeq
    <3> QED
      BY <1>1, <1>2, <3>2, <3>3 DEF Held
  <2> QED
    BY <2>2, <2>3
<1> QED
  BY <1>1, <1>2, <1>3, <1>4, <1>8, <1>9

LEMMA CopySlotBase == Base /\ CopySlot => Base'
<1> SUFFICES ASSUME Base, CopySlot PROVE Base'
  OBVIOUS
<1> USE DEF CopySlot
<1>1. snap' \in SnapRecord /\ snap.slot \in Slots
  BY CopySlotStream
<1>2. phase' = "counters" => snap'.slot \in Slots
  <2>1. snap.slot # HtSize => snap.slot + 1 \in Slots
    BY <1>1, MetaStorAssumption DEF Slots
  <2> QED
    BY <2>1, CopySlotStream
<1>3. Up /\ Up'
  BY DEF Up, Closing
<1>4. hurt' \in SUBSET {"crash", "reap", "merge"}
  BY DEF Base, Shape, TypeOK
<1>5. disk' \in DiskRecord /\ sbCount' \in Nat /\ dirty' \in BOOLEAN
  BY DEF Base, Shape
<1>6. \A n \in 1 .. Len(disk'.stream) : disk'.stream[n].ver <= ver
  BY DEF Base, Vers
<1>7. \A n \in 1 .. Len(snap'.stream) : snap'.stream[n].ver <= ver
  BY CopySlotStream DEF Base, Vers
<1> QED
  BY <1>1, <1>2, <1>3, <1>4, <1>5, <1>6, <1>7, CloseBase

LEMMA WriteIndexBase == Base /\ WriteIndex => Base'
<1> SUFFICES ASSUME Base, WriteIndex PROVE Base'
  OBVIOUS
<1> USE DEF WriteIndex
<1>1. disk' \in DiskRecord /\ disk'.stream = snap.stream
  BY DEF Base, Shape, DiskRecord, SnapRecord
<1>2. Up /\ Up'
  BY DEF Up, Closing
<1>3. hurt' \in SUBSET {"crash", "reap", "merge"} /\ sbCount' \in Nat
  BY DEF Base, Shape, TypeOK
<1>4. dirty' \in BOOLEAN /\ dirty' /\ snap' \in SnapRecord /\ snap'.stream = <<>>
  BY EmptyFacts
<1>5. /\ \A n \in 1 .. Len(snap'.stream) : snap'.stream[n].ver <= ver
      /\ \A n \in 1 .. Len(disk'.stream) : disk'.stream[n].ver <= ver
  BY <1>1, <1>4 DEF Base, Vers
<1> QED
  BY <1>1, <1>2, <1>3, <1>4, <1>5, CloseBase

LEMMA PersistBase == Base /\ (UpdateMetaToSB \/ PersistSSTs \/ PersistSuperBlock) => Base'
<1> SUFFICES ASSUME Base, UpdateMetaToSB \/ PersistSSTs \/ PersistSuperBlock PROVE Base'
  OBVIOUS
<1> USE DEF UpdateMetaToSB, PersistSSTs, PersistSuperBlock
<1>1. Up /\ Up' /\ UnchangedByClose /\ snap' = snap
  BY DEF Up, Closing
<1>2. AllSSTs \in [Segs -> {"FREE", "USED"}]
  BY DEF Base, Shape, TypeOK, AllSSTs, SstOnDisk, States
<1>3. disk' \in DiskRecord /\ disk'.stream = disk.stream
  BY <1>2 DEF Base, Shape, DiskRecord
<1>4. sbCount' \in Nat
  BY DEF Base, Shape, TypeOK, SBCount
<1>5. hurt' \in SUBSET {"crash", "reap", "merge"} /\ snap' \in SnapRecord
  BY DEF Base, Shape, TypeOK
<1>6. dirty' \in BOOLEAN /\ (phase' \in {"meta", "ssts", "sb"} => dirty')
  BY DEF Base, Shape, Undisturbed
<1>7. phase' \in {"ssts", "sb", "stopping"}
  OBVIOUS
<1>8. /\ \A n \in 1 .. Len(snap'.stream) : snap'.stream[n].ver <= ver
      /\ \A n \in 1 .. Len(disk'.stream) : disk'.stream[n].ver <= ver
  BY <1>1, <1>3 DEF Base, Vers
<1> QED
  BY <1>1, <1>3, <1>4, <1>5, <1>6, <1>7, <1>8, CloseBase

(* The process is gone: nothing is in memory.                              *)
LEMMA GoneBase == Base /\ (StopThds \/ Crash) => Base'
<1> SUFFICES ASSUME Base, StopThds \/ Crash PROVE Base'
  OBVIOUS
<1> USE DEF StopThds, Crash, MemoryGone, history, Base
<1>1. /\ phase' = "down" /\ htab' = EmptyTable /\ keyCounter' = 0
      /\ table' = [s \in Segs |-> "FREE"] /\ snap' = EmptySnap /\ sbCount' = 0
      /\ merge' = NoMerge /\ reapQ' = <<>> /\ uncounted' = 0
      /\ media' = media /\ disk' = disk /\ ver' = ver /\ dirty' = dirty
  OBVIOUS
<1>2. hurt' \subseteq {"crash", "reap", "merge"}
  BY DEF Shape, TypeOK
<1>3. htab' \in [Slots -> Seq(Entries)] /\ table' \in [Segs -> States]
  BY <1>1, EmptyFacts DEF Tables, States
<1>4. TypeOK'
  BY <1>1, <1>2, <1>3 DEF Shape, TypeOK
<1>5. Shape'
  BY <1>1, <1>4, EmptyFacts DEF Shape
<1>6. LiveEntries' /\ ReapVers' /\ CounterCovers'
  BY <1>1, EmptyFacts DEF LiveEntries, ReapVers, CounterCovers
<1>7. Vers'
  BY <1>1, EmptyFacts DEF Vers
<1>8. Stopped' /\ Undisturbed'
  BY <1>1 DEF Stopped, Undisturbed
<1> QED
  BY <1>5, <1>6, <1>7, <1>8

LEMMA RefusedBase == Base /\ OpenRefused => Base'
<1> SUFFICES ASSUME Base, OpenRefused PROVE Base'
  OBVIOUS
<1> USE DEF OpenRefused, memory, background, history, Base
<1>1. Shape'
  BY DEF Shape, TypeOK
<1>2. ~Up
  BY DEF Up, Closing
<1>3. Stopped' /\ Undisturbed'
  BY <1>2 DEF Stopped, Undisturbed
<1>4. LiveEntries' /\ ReapVers' /\ CounterCovers' /\ Vers'
  BY DEF LiveEntries, ReapVers, CounterCovers, Vers
<1> QED
  BY <1>1, <1>3, <1>4

LEMMA OpenBase == Base /\ OpenKVDS => Base'
<1> SUFFICES ASSUME Base, OpenKVDS PROVE Base'
  OBVIOUS
<1> USE DEF OpenKVDS, loadSuperBlock, loadIndex, loadDataStor, background, Base
<1>1. disk.counters \in Sizes /\ disk.stream \in Seq(Entries) /\ disk.count \in Nat
  BY DEF Shape, DiskRecord
<1>2. PICK tab : tab = Loaded
  OBVIOUS
<1>3. /\ tab \in Tables /\ \A i \in Slots : Len(tab[i]) <= disk.counters[i]
      /\ \A e \in Held(tab) : \E n \in 1 .. Len(disk.stream) : disk.stream[n] = e
  BY <1>1, <1>2, LoadedIs, LoadedType
<1>4. htab' = tab /\ keyCounter' = disk.count /\ table' = disk.sst /\ sbCount' = disk.count
  BY <1>2
<1>5. ~Up
  BY DEF Up, Closing
<1>6. merge = NoMerge /\ reapQ = <<>> /\ uncounted = 0
  BY <1>5 DEF Stopped
<1>7. TypeOK'
  <2>1. htab' \in [Slots -> Seq(Entries)]
    BY <1>3, <1>4 DEF Tables
  <2>2. table' \in [Segs -> States]
    BY <1>4 DEF Shape, TypeOK, States
  <2> QED
    BY <1>1, <1>4, <2>1, <2>2 DEF Shape, TypeOK
<1>8. Shape'
  BY <1>1, <1>4, <1>7 DEF Shape
<1>9. LiveEntries' /\ ReapVers'
  BY <1>6, EmptyFacts DEF LiveEntries, ReapVers
<1>10. Vers'
  BY <1>3, <1>4 DEF Vers
<1>11. CounterCovers'
  <2>1. Lens(tab) \in Sizes /\ \A i \in Slots : Lens(tab)[i] <= disk.counters[i]
    BY <1>3, LensType
  <2>2. HtSize \in 0 .. HtSize /\ HtSize \in HtSize .. HtSize
    BY MetaStorAssumption
  <2>3. Counted(Lens(tab), HtSize) <= Counted(disk.counters, HtSize)
    BY <1>1, <2>1, <2>2, CountMonotone
  <2>4. Counted(disk.counters, HtSize) = disk.count
    BY DEF Loadable
  <2>5. Counted(Lens(tab), HtSize) \in Nat
    BY <1>3, LensType
  <2> QED
    BY <1>1, <1>4, <1>6, <2>3, <2>4, <2>5 DEF CounterCovers
<1>12. Stopped' /\ Undisturbed'
  BY DEF Stopped, Undisturbed, Up
<1> QED
  BY <1>8, <1>9, <1>10, <1>11, <1>12

(* The steps that change the index. *)

(* What Write does to the index.                                           *)
LEMMA WriteFacts ==
  ASSUME Base, NEW k \in Keys, NEW del \in BOOLEAN, NEW s \in Segs, Write(k, del, s)
  PROVE  LET e == Entry(k, s, ver + 1, del)
         IN /\ e \in Entries /\ e.key = k /\ e.seg = s /\ e.ver = ver + 1 /\ e.del = del
            /\ ver' = ver + 1 /\ ver \in Nat /\ ver' \in 0 .. MaxVer
            /\ merge.live = {} /\ htab' \in Tables
            /\ IF del /\ ~InIndex(htab, k) THEN htab' = htab ELSE htab' = PutIn(htab, e)
            /\ \A f \in Held(htab') : f = e \/ f \in Held(htab)
            /\ keyCounter' = IF del \/ InIndex(htab, k) THEN keyCounter
                             ELSE keyCounter + 1
            /\ reapQ' = IF del THEN Append(reapQ, e) ELSE reapQ
<1> USE DEF Write
<1>1. PICK e : e = Entry(k, s, ver + 1, del)
  OBVIOUS
<1>2. ver \in 0 .. MaxVer /\ ver' = ver + 1 /\ ver < MaxVer /\ htab \in Tables
  BY DEF Base, Shape, TypeOK, Tables
<1>3. ver \in Nat /\ ver' \in 0 .. MaxVer /\ ver + 1 \in 1 .. MaxVer
  BY <1>2, MetaStorAssumption
<1>4. e \in Entries /\ e.key = k /\ e.seg = s /\ e.ver = ver + 1 /\ e.del = del
  BY <1>1, <1>3 DEF Entry, Entries
<1>5. e = Entry(k, s, ver', del)
  BY <1>1, <1>2
<1>6. IF del /\ ~InIndex(htab, k) THEN htab' = htab ELSE htab' = PutIn(htab, e)
  BY <1>4, <1>5 DEF PutIn
<1>7. htab' \in Tables /\ \A f \in Held(htab') : f = e \/ f \in Held(htab)
  BY <1>2, <1>4, <1>6, PutTab
<1>8. /\ keyCounter' = IF del \/ InIndex(htab, k) THEN keyCounter
                       ELSE keyCounter + 1
      /\ reapQ' = IF del THEN Append(reapQ, e) ELSE reapQ
  BY <1>5
<1>9. merge.live = {}
  BY EmptyFacts
<1> QED
  BY <1>1, <1>2, <1>3, <1>4, <1>6, <1>7, <1>8, <1>9

LEMMA WriteBase ==
  ASSUME Base, NEW k \in Keys, NEW del \in BOOLEAN, NEW s \in Segs, Write(k, del, s)
  PROVE  Base'
<1>1. PICK e : e = Entry(k, s, ver + 1, del)
  OBVIOUS
<1>2. /\ e \in Entries /\ e.key = k /\ e.seg = s /\ e.ver = ver + 1 /\ e.del = del
      /\ ver' = ver + 1 /\ ver \in Nat /\ ver' \in 0 .. MaxVer
      /\ merge.live = {} /\ htab' \in Tables
      /\ IF del /\ ~InIndex(htab, k) THEN htab' = htab ELSE htab' = PutIn(htab, e)
      /\ \A f \in Held(htab') : f = e \/ f \in Held(htab)
      /\ keyCounter' = IF del \/ InIndex(htab, k) THEN keyCounter
                       ELSE keyCounter + 1
      /\ reapQ' = IF del THEN Append(reapQ, e) ELSE reapQ
  BY <1>1, WriteFacts
<1>3. /\ phase = "open" /\ phase' = "open" /\ merge' = merge /\ snap' = snap /\ disk' = disk
      /\ sbCount' = sbCount /\ uncounted' = uncounted /\ hurt' = hurt /\ dirty' = TRUE
  BY DEF Write
<1> USE DEF Base
<1>4. \A n \in 1 .. Len(reapQ') : (n \in 1 .. Len(reapQ) /\ reapQ'[n] = reapQ[n]) \/ (del /\ reapQ'[n] = e)
  <2>1. PICK q \in Seq(Entries) : q = reapQ
    BY DEF Shape
  <2>2. \A n \in 1 .. Len(Append(q, e)) :
          (n \in 1 .. Len(q) /\ Append(q, e)[n] = q[n]) \/ Append(q, e)[n] = e
    OBVIOUS
  <2> QED
    BY <1>2, <2>1, <2>2
<1>5. TypeOK'
  <2>1. table' \in [Segs -> States]
    BY DEF Write, Shape, TypeOK, States
  <2>2. media' \in [Segs -> [Keys -> 0 .. MaxVer]]
    <3>1. 0 \in 0 .. MaxVer
      BY MetaStorAssumption
    <3>2. [x \in Keys |-> IF x = k THEN ver' ELSE 0] \in [Keys -> 0 .. MaxVer]
      BY <1>2, <3>1
    <3>3. media' = [media EXCEPT ![s] = [x \in Keys |-> IF x = k THEN ver' ELSE 0]]
      BY DEF Write
    <3> QED
      BY <3>2, <3>3 DEF Shape, TypeOK
  <2>3. keyCounter' \in Nat
    BY <1>2 DEF Shape, TypeOK
  <2> QED
    BY <1>2, <1>3, <2>1, <2>2, <2>3 DEF Shape, TypeOK, Tables
<1>6. Shape'
  <2>1. reapQ' \in Seq(Entries)
    BY <1>2 DEF Shape
  <2>2. dirty' \in BOOLEAN
    BY <1>3
  <2> QED
    BY <1>2, <1>3, <1>5, <2>1, <2>2 DEF Shape
<1>7. LiveEntries' /\ Stopped' /\ Undisturbed'
  BY <1>2, <1>3 DEF LiveEntries, Stopped, Undisturbed, Up
<1>8. Vers'
  <2>1. \A f \in Held(htab') : f.ver <= ver'
    <3> SUFFICES ASSUME NEW f \in Held(htab') PROVE f.ver <= ver'
      OBVIOUS
    <3>1. CASE f = e
      BY <1>2, <3>1
    <3>2. CASE f \in Held(htab)
      <4>1. f.ver <= ver /\ f.ver \in Nat
        BY <3>2, MetaStorAssumption DEF Vers, Held, Entries
      <4> QED
        BY <1>2, <4>1
    <3> QED
      BY <1>2, <3>1, <3>2
  <2>2. /\ \A n \in 1 .. Len(snap.stream) : snap.stream[n].ver \in Nat
        /\ \A n \in 1 .. Len(disk.stream) : disk.stream[n].ver \in Nat
        /\ \A n \in 1 .. Len(reapQ) : reapQ[n].ver \in Nat
    <3>1. snap.stream \in Seq(Entries) /\ disk.stream \in Seq(Entries) /\ reapQ \in Seq(Entries)
      BY DEF Shape, SnapRecord, DiskRecord
    <3>2. \A f \in Entries : f.ver \in Nat
      BY MetaStorAssumption DEF Entries
    <3> QED
      BY <3>1, <3>2, ElementOfSeq
  <2>3. /\ \A n \in 1 .. Len(snap'.stream) : snap'.stream[n].ver <= ver'
        /\ \A n \in 1 .. Len(disk'.stream) : disk'.stream[n].ver <= ver'
    BY <1>2, <1>3, <2>2 DEF Vers
  <2>4. \A n \in 1 .. Len(reapQ') : reapQ'[n].ver <= ver'
    BY <1>2, <1>4, <2>2 DEF Vers
  <2> QED
    BY <2>1, <2>3, <2>4 DEF Vers
<1>9. ReapVers'
  <2> SUFFICES ASSUME NEW n \in 1 .. Len(reapQ'), NEW f \in Held(htab'), f.ver = reapQ'[n].ver
               PROVE  f.del
    BY DEF ReapVers
  <2>1. CASE f = e
    <3>1. CASE del
      BY <1>2, <2>1, <3>1
    <3>2. CASE ~del
      <4>1. n \in 1 .. Len(reapQ) /\ reapQ'[n] = reapQ[n]
        BY <1>4, <3>2
      <4>2. reapQ[n].ver <= ver /\ reapQ[n].ver = ver + 1
        BY <1>2, <2>1, <4>1 DEF Vers
      <4> QED
        BY <1>2, <4>2
    <3> QED
      BY <3>1, <3>2
  <2>2. CASE f # e /\ f \in Held(htab)
    <3>1. f.ver <= ver
      BY <2>2 DEF Vers
    <3>2. reapQ'[n] # e
      BY <1>2, <3>1
    <3> QED
      BY <1>4, <2>2, <3>2 DEF ReapVers
  <2> QED
    BY <1>2, <2>1, <2>2
<1>10. CounterCovers'
  <2>1. htab \in Tables
    BY DEF Shape, TypeOK, Tables
  <2>2. Counted(Lens(htab), HtSize) \in Nat
    BY <2>1, LensType
  <2>3. Counted(Lens(htab'), HtSize) =
          IF ~del /\ ~InIndex(htab, k) THEN Counted(Lens(htab), HtSize) + 1
          ELSE Counted(Lens(htab), HtSize)
    BY <1>2, <2>1, PutCount
  <2> QED
    BY <1>2, <1>3, <2>2, <2>3 DEF CounterCovers, Shape, TypeOK
<1> QED
  BY <1>6, <1>7, <1>8, <1>9, <1>10

(* What MergeIndex does to the index: the record of k is elsewhere.        *)
LEMMA MergeIndexFacts ==
  ASSUME Base, NEW k \in Keys, MergeIndex(k)
  PROVE  LET e == Entry(k, merge.to, EntryOf(htab, k).ver, FALSE)
         IN /\ e \in Entries /\ e.key = k /\ e.seg = merge.to /\ e.ver = EntryOf(htab, k).ver
            /\ e.del = FALSE /\ merge.to \in Segs
            /\ InIndex(htab, k) /\ ~EntryOf(htab, k).del /\ EntryOf(htab, k) \in Held(htab)
            /\ htab' = PutIn(htab, e) /\ htab' \in Tables
            /\ merge' \in MergeRecord /\ merge'.live = merge.live \ {k}
            /\ merge'.at = merge.at /\ merge'.to = merge.to /\ merge'.from = merge.from
            /\ Alike(htab, htab')
            /\ Up
<1>1. PICK e : e = Entry(k, merge.to, EntryOf(htab, k).ver, FALSE)
  OBVIOUS
<1>2. merge \in MergeRecord /\ merge.at = "index" /\ merge.to \in Segs /\ htab \in Tables
  BY DEF MergeIndex, Base, Shape, TypeOK, Tables
<1>3. InIndex(htab, k) /\ ~EntryOf(htab, k).del
  BY DEF MergeIndex, Base, LiveEntries
<1>4. EntryOf(htab, k) \in Held(htab) /\ EntryOf(htab, k) \in Entries /\ EntryOf(htab, k).key = k
  BY <1>2, <1>3, FoundEntry
<1>5. /\ e \in Entries /\ e.key = k /\ e.seg = merge.to /\ e.ver = EntryOf(htab, k).ver
      /\ e.del = FALSE
  BY <1>1, <1>2, <1>4 DEF Entry, Entries
<1>6. htab' = PutIn(htab, e)
  BY <1>1, <1>5 DEF MergeIndex, PutIn
<1>7. htab' \in Tables
  <2>1. PutIn(htab, e) \in Tables
    BY <1>2, <1>5, PutTab
  <2> QED
    BY <1>6, <2>1
<1>8. /\ merge' \in MergeRecord /\ merge'.live = merge.live \ {k}
      /\ merge'.at = merge.at /\ merge'.to = merge.to /\ merge'.from = merge.from
  BY <1>2 DEF MergeIndex, MergeRecord
<1>9. Up
  BY <1>2, EmptyFacts DEF Base, Stopped
<1>10. Alike(htab, htab')
  <2>1. SlotOf[k] \in Slots
    BY MetaStorAssumption DEF Slots
  <2>2. PICK i \in Slots : i = SlotOf[k]
    BY <2>1
  <2>3. PICK list \in Seq(Entries) : list = htab[i]
    BY <1>2, <2>2 DEF Tables
  <2>4. PICK q \in Seq(Entries) : q = PutEntry(list, e)
    BY <1>5, PutList
  <2>5. htab' = [htab EXCEPT ![i] = q]
    BY <1>5, <1>6, <2>2, <2>3, <2>4 DEF PutIn
  <2>6. htab'[i] = q /\ \A n \in Slots : n # i => htab'[n] = htab[n]
    BY <1>2, <2>5 DEF Tables
  <2>7. PICK p \in Nat : p = Position(list, k)
    BY PositionFacts DEF First
  <2>8. p # 0 /\ EntryOf(htab, k) = list[p]
    BY <1>3, <2>2, <2>3, <2>7 DEF InIndex, EntryOf
  <2>9. /\ Len(q) = Len(list) /\ p \in 1 .. Len(list) /\ q[p] = e
        /\ \A j \in 1 .. Len(list) : j # p => q[j] = list[j]
    BY <1>5, <2>4, <2>7, <2>8, PutList
  <2>10. Like(list[p], q[p])
    <3>1. list[p].del = FALSE
      BY <1>3, <1>4, <2>8 DEF Entries
    <3> QED
      BY <1>4, <1>5, <2>8, <2>9, <3>1 DEF Like
  <2>11. \A j \in 1 .. Len(list) : Like(list[j], q[j])
    BY <2>9, <2>10 DEF Like
  <2>12. \A n \in Slots : /\ Len(htab[n]) = Len(htab'[n])
                          /\ \A j \in 1 .. Len(htab[n]) : Like(htab[n][j], htab'[n][j])
    <3> SUFFICES ASSUME NEW n \in Slots
                 PROVE  /\ Len(htab[n]) = Len(htab'[n])
                        /\ \A j \in 1 .. Len(htab[n]) : Like(htab[n][j], htab'[n][j])
      OBVIOUS
    <3>1. CASE n = i
      BY <2>3, <2>6, <2>9, <2>11, <3>1
    <3>2. CASE n # i
      BY <2>6, <3>2 DEF Like
    <3> QED
      BY <3>1, <3>2
  <2> QED
    BY <2>12 DEF Alike
<1> QED
  BY <1>1, <1>2, <1>3, <1>4, <1>5, <1>6, <1>7, <1>8, <1>9, <1>10

LEMMA MergeIndexBase ==
  ASSUME Base, NEW k \in Keys, MergeIndex(k)
  PROVE  Base'
<1>1. PICK e : e = Entry(k, merge.to, EntryOf(htab, k).ver, FALSE)
  OBVIOUS
<1>2. /\ e \in Entries /\ e.key = k /\ e.ver = EntryOf(htab, k).ver /\ e.del = FALSE
      /\ InIndex(htab, k) /\ ~EntryOf(htab, k).del /\ EntryOf(htab, k) \in Held(htab)
      /\ htab' = PutIn(htab, e) /\ htab' \in Tables /\ merge.to \in Segs
      /\ merge' \in MergeRecord /\ merge'.live = merge.live \ {k} /\ merge'.to = merge.to
      /\ Alike(htab, htab') /\ Up
  BY <1>1, MergeIndexFacts
<1>3. htab \in Tables
  BY DEF Base, Shape, TypeOK, Tables
<1>4. /\ \A x \in Keys : InIndex(htab', x) <=> x = k \/ InIndex(htab, x)
      /\ EntryOf(htab', k) = e
      /\ \A x \in Keys : x # k /\ InIndex(htab, x) => EntryOf(htab', x) = EntryOf(htab, x)
      /\ \A f \in Held(htab') : f = e \/ f \in Held(htab)
  BY <1>2, <1>3, PutTab
<1>5. UNCHANGED <<phase, keyCounter, table, media, snap, sbCount, disk, reapQ, uncounted, ver, dirty, hurt>>
  BY DEF MergeIndex, history
<1> USE DEF Base
<1>6. Shape'
  BY <1>2, <1>5 DEF Shape, TypeOK, Tables
<1>7. LiveEntries'
  <2>1. merge.live \in SUBSET Keys
    BY DEF Shape, MergeRecord
  <2> QED
    BY <1>2, <1>4, <2>1 DEF LiveEntries
<1>8. Vers' /\ ReapVers'
  <2>1. \A f \in Held(htab') : \E g \in Held(htab) : f.ver = g.ver /\ (g.del => f = g)
    BY <1>2, <1>4
  <2>2. ReapVers'
    BY <1>2, <1>4, <1>5, <2>1 DEF ReapVers
  <2> QED
    BY <1>5, <2>1, <2>2 DEF Vers
<1>9. CounterCovers'
  BY <1>2, <1>3, <1>5, AlikeFacts DEF CounterCovers
<1>10. Stopped' /\ Undisturbed'
  BY <1>2, <1>5 DEF Stopped, Undisturbed, Up, Closing
<1> QED
  BY <1>6, <1>7, <1>8, <1>9, <1>10

(* What ReapRemove does to the index.                                      *)
LEMMA ReapRemoveFacts ==
  ASSUME Base, ReapRemove
  PROVE  LET e == Head(reapQ)
             there == InIndex(htab, e.key) /\ EntryOf(htab, e.key).ver = e.ver
         IN /\ e \in Entries /\ e.key \in Keys /\ reapQ' \in Seq(Entries)
            /\ \A n \in 1 .. Len(reapQ') : n + 1 \in 1 .. Len(reapQ) /\ reapQ'[n] = reapQ[n + 1]
            /\ there => /\ htab' = RemoveFrom(htab, e.key) /\ EntryOf(htab, e.key).del
                        /\ e.key \notin merge.live /\ uncounted' = 1
                        /\ hurt' = IF phase \in CopyingIndex THEN hurt \cup {"reap"} ELSE hurt
            /\ ~there => htab' = htab /\ uncounted' = 0 /\ hurt' = hurt
            /\ htab' \in Tables /\ Held(htab') \subseteq Held(htab)
            /\ Up /\ uncounted = 0
<1> USE DEF ReapRemove
<1>1. reapQ \in Seq(Entries) /\ reapQ # <<>> /\ htab \in Tables
  BY DEF Base, Shape, TypeOK, Tables
<1>2. PICK e : e = Head(reapQ)
  OBVIOUS
<1>3. e \in Entries /\ e = reapQ[1] /\ 1 \in 1 .. Len(reapQ)
  BY <1>1, <1>2
<1>4. e.key \in Keys
  BY <1>3 DEF Entries
<1>5. reapQ' = Tail(reapQ)
  OBVIOUS
<1>6. reapQ' \in Seq(Entries) /\ \A n \in 1 .. Len(reapQ') : n + 1 \in 1 .. Len(reapQ) /\ reapQ'[n] = reapQ[n + 1]
  BY <1>1, <1>5
<1> DEFINE there == InIndex(htab, e.key) /\ EntryOf(htab, e.key).ver = e.ver
<1>7. ASSUME there
      PROVE  /\ htab' = RemoveFrom(htab, e.key) /\ EntryOf(htab, e.key).del
             /\ e.key \notin merge.live /\ uncounted' = 1
             /\ hurt' = IF phase \in CopyingIndex THEN hurt \cup {"reap"} ELSE hurt
             /\ htab' \in Tables /\ Held(htab') \subseteq Held(htab)
  <2>1. htab' = RemoveFrom(htab, e.key) /\ uncounted' = 1
    BY <1>2, <1>7 DEF RemoveFrom
  <2>2. hurt' = IF phase \in CopyingIndex THEN hurt \cup {"reap"} ELSE hurt
    BY <1>2, <1>7 DEF NotedIn
  <2>3. EntryOf(htab, e.key) \in Held(htab)
    BY <1>1, <1>4, <1>7, FoundEntry
  <2>4. EntryOf(htab, e.key).del
    BY <1>3, <1>7, <2>3 DEF Base, ReapVers
  <2>5. e.key \notin merge.live
    BY <2>4 DEF Base, LiveEntries
  <2>6. htab' \in Tables /\ Held(htab') \subseteq Held(htab)
    BY <1>1, <1>4, <1>7, <2>1, RemoveTab
  <2> QED
    BY <2>1, <2>2, <2>4, <2>5, <2>6
<1>8. ~there => htab' = htab /\ uncounted' = 0 /\ hurt' = hurt
  BY <1>2
<1>9. Up /\ uncounted = 0
  BY DEF Up
<1> QED
  BY <1>1, <1>2, <1>3, <1>4, <1>6, <1>7, <1>8, <1>9

LEMMA ReapRemoveBase == Base /\ ReapRemove => Base'
<1> SUFFICES ASSUME Base, ReapRemove PROVE Base'
  OBVIOUS
<1>1. PICK e : e = Head(reapQ)
  OBVIOUS
<1> DEFINE there == InIndex(htab, e.key) /\ EntryOf(htab, e.key).ver = e.ver
<1>2. /\ e \in Entries /\ e.key \in Keys /\ reapQ' \in Seq(Entries)
      /\ \A n \in 1 .. Len(reapQ') : n + 1 \in 1 .. Len(reapQ) /\ reapQ'[n] = reapQ[n + 1]
      /\ there => /\ htab' = RemoveFrom(htab, e.key) /\ e.key \notin merge.live /\ uncounted' = 1
                  /\ hurt' = IF phase \in CopyingIndex THEN hurt \cup {"reap"} ELSE hurt
      /\ ~there => htab' = htab /\ uncounted' = 0 /\ hurt' = hurt
      /\ htab' \in Tables /\ Held(htab') \subseteq Held(htab)
      /\ Up /\ uncounted = 0
  BY <1>1, ReapRemoveFacts
<1>3. htab \in Tables
  BY DEF Base, Shape, TypeOK, Tables
<1>4. UNCHANGED <<phase, keyCounter, table, media, snap, sbCount, disk, merge, ver, dirty>>
  BY DEF ReapRemove
<1> USE DEF Base
<1>5. Shape'
  <2>1. hurt' \subseteq {"crash", "reap", "merge"} /\ uncounted' \in {0, 1}
    BY <1>2 DEF Shape, TypeOK
  <2> QED
    BY <1>2, <1>4, <2>1 DEF Shape, TypeOK, Tables
<1>6. LiveEntries'
  <2>1. merge.live \in SUBSET Keys
    BY DEF Shape, MergeRecord
  <2>2. CASE there
    <3>1. \A x \in Keys : x # e.key =>
            /\ InIndex(htab', x) <=> InIndex(htab, x)
            /\ InIndex(htab, x) => EntryOf(htab', x) = EntryOf(htab, x)
      BY <1>2, <1>3, <2>2, RemoveTab
    <3> QED
      BY <1>2, <1>4, <2>1, <2>2, <3>1 DEF LiveEntries
  <2>3. CASE ~there
    BY <1>2, <1>4, <2>3 DEF LiveEntries
  <2> QED
    BY <2>2, <2>3
<1>7. Vers' /\ ReapVers'
  BY <1>2, <1>4 DEF Vers, ReapVers
<1>8. CounterCovers'
  <2>1. Counted(Lens(htab), HtSize) \in Nat /\ Counted(Lens(htab'), HtSize) \in Nat
    BY <1>2, <1>3, LensType
  <2>2. there => Counted(Lens(htab'), HtSize) + 1 = Counted(Lens(htab), HtSize)
    BY <1>2, <1>3, RemoveCount
  <2>3. ~there => Counted(Lens(htab'), HtSize) = Counted(Lens(htab), HtSize)
    BY <1>2
  <2> HIDE DEF there
  <2> QED
    BY <1>2, <1>4, <2>1, <2>2, <2>3 DEF CounterCovers, Shape, TypeOK
<1>9. Stopped' /\ Undisturbed'
  <2>1. Up' /\ phase' # "none"
    BY <1>2, <1>4 DEF Up, Closing
  <2> QED
    BY <1>4, <2>1 DEF Stopped, Undisturbed
<1> QED
  BY <1>5, <1>6, <1>7, <1>8, <1>9

-----------------------------------------------------------------------------
(* A store that no reap while it was closed, and no crash, has damaged. *)

Sound == hurt \subseteq {"merge"}

(* The device has the metadata of the store; the index at least.           *)
OnDisk == phase \in {"stopping", "down"} \/ (phase # "none" /\ ~dirty)
Indexed == OnDisk \/ phase \in {"meta", "ssts", "sb"}
DiskTable == TableOf(disk.counters, disk.stream)

(* Every key has one entry in its slot, and keyCounter counts them.        *)
IndexSound ==
  /\ Good(htab)
  /\ Counted(Lens(htab), HtSize) + uncounted = keyCounter

(* The copy of the index is one of the index as it still is.               *)
CopySound ==
  /\ phase \in CopyingIndex => uncounted = 0
  /\ phase = "entries" => snap.slot = HtSize + 1
  /\ phase \in {"counters", "entries"} => Copied(htab, snap.counters, snap.stream, snap.slot - 1)
  /\ phase = "meta" => Copied(htab, disk.counters, disk.stream, HtSize)
  /\ phase \in {"ssts", "sb"} => sbCount = Counted(disk.counters, HtSize)

(* The super block counts the entries of the index on the device.          *)
DiskSound ==
  /\ OnDisk => disk.valid /\ disk.count = Counted(disk.counters, HtSize)
  /\ Indexed => Good(DiskTable) /\ Len(disk.stream) = Counted(disk.counters, HtSize)

SoundInv == Sound => IndexSound /\ CopySound /\ DiskSound /\ phase # "refused"

(* An index as long as its counters say is read back with its lengths.     *)
LEMMA LoadWhole ==
  ASSUME NEW c \in Sizes, NEW s \in Seq(Entries), Len(s) = Counted(c, HtSize)
  PROVE  Lens(TableOf(c, s)) = c
<1>1. HtSize \in Nat
  BY MetaStorAssumption
<1>2. ASSUME NEW i \in Slots PROVE Len(TableOf(c, s)[i]) = c[i]
  <2>1. PICK m \in Nat : m = Counted(c, i - 1)
    BY CountFacts
  <2>2. PICK n \in Nat : n = c[i]
    BY DEF Sizes
  <2>3. Counted(c, i) = m + n
    BY <2>1, <2>2, CountFacts
  <2>4. \A x \in Slots : c[x] <= c[x]
    BY DEF Sizes
  <2>5. i \in 0 .. HtSize /\ HtSize \in i .. HtSize
    BY <1>1 DEF Slots
  <2>6. Counted(c, i) <= Counted(c, HtSize)
    BY <1>1, <2>4, <2>5, CountMonotone
  <2>7. m + n <= Len(s)
    BY <2>3, <2>6
  <2>8. TableOf(c, s)[i] = Piece(s, m, n)
    BY <2>1, <2>2 DEF TableOf
  <2>9. Len(Piece(s, m, n)) = n
    BY <2>7, PieceFacts
  <2> QED
    BY <2>2, <2>8, <2>9
<1>3. TableOf(c, s) \in Tables
  BY LoadedType
<1>4. Lens(TableOf(c, s)) \in Sizes /\ \A i \in Slots : Lens(TableOf(c, s))[i] = c[i]
  BY <1>2, <1>3, LensType
<1> QED
  BY <1>4 DEF Sizes

LEMMA InitSound == Init => SoundInv
<1> SUFFICES ASSUME Init PROVE SoundInv
  OBVIOUS
<1> USE DEF Init
<1>1. IndexSound
  BY EmptyFacts DEF IndexSound
<1>2. CopySound /\ DiskSound
  BY DEF CopySound, DiskSound, OnDisk, Indexed, CopyingIndex
<1> QED
  BY <1>1, <1>2 DEF SoundInv

(* The steps that leave the index and what was copied of it alone.         *)
LEMMA MemorySound ==
  ASSUME Base, SoundInv, UNCHANGED <<phase, htab, snap, sbCount, disk>>,
         dirty' \/ (dirty' = dirty), hurt \subseteq hurt',
         Sound /\ phase \in CopyingIndex => uncounted' = 0,
         IndexSound => Counted(Lens(htab), HtSize) + uncounted' = keyCounter'
  PROVE  SoundInv'
<1> SUFFICES ASSUME Sound' PROVE IndexSound' /\ CopySound' /\ DiskSound' /\ phase' # "refused"
  BY DEF SoundInv
<1>1. Sound /\ IndexSound /\ CopySound /\ DiskSound /\ phase # "refused"
  BY DEF Sound, SoundInv
<1>2. IndexSound'
  BY <1>1 DEF IndexSound
<1>3. CopySound'
  BY <1>1 DEF CopySound
<1>4. OnDisk' => OnDisk
  BY DEF OnDisk
<1>5. DiskSound'
  BY <1>1, <1>4 DEF DiskSound, Indexed, DiskTable
<1> QED
  BY <1>1, <1>2, <1>3, <1>5

LEMMA MemoryStepsSound ==
  ASSUME Base, SoundInv,
         \/ ReapCount \/ MergeWrite \/ MergeFree
         \/ \E from \in SUBSET Segs, t \in Segs : MergeStart(from, t)
  PROVE  SoundInv'
<1>1. CASE ReapCount
  <2>1. phase \in CopyingIndex /\ Sound => FALSE
    BY <1>1 DEF ReapCount, SoundInv, CopySound
  <2>2. IndexSound => Counted(Lens(htab), HtSize) + uncounted' = keyCounter'
    <3>1. Counted(Lens(htab), HtSize) \in Nat
      BY LensType DEF Base, Shape, TypeOK, Tables
    <3> QED
      BY <1>1, <3>1 DEF ReapCount, IndexSound
  <2> QED
    BY <1>1, <2>1, <2>2, MemorySound DEF ReapCount, history
<1>2. CASE MergeWrite
  <2>1. UNCHANGED <<phase, htab, snap, sbCount, disk, uncounted, keyCounter, dirty, hurt>>
    BY <1>2 DEF MergeWrite, history
  <2>2. IndexSound => Counted(Lens(htab), HtSize) + uncounted' = keyCounter'
    BY <2>1 DEF IndexSound
  <2>3. Sound /\ phase \in CopyingIndex => uncounted' = 0
    BY <2>1 DEF SoundInv, CopySound
  <2>4. Sound' <=> Sound
    BY <2>1 DEF Sound
  <2> QED
    BY <2>1, <2>2, <2>3, <2>4, MemorySound DEF SoundInv
<1>3. CASE \E from \in SUBSET Segs, t \in Segs : MergeStart(from, t)
  <2>1. UNCHANGED <<phase, htab, snap, sbCount, disk, uncounted, keyCounter, dirty, hurt>>
    BY <1>3 DEF MergeStart, history
  <2>2. IndexSound => Counted(Lens(htab), HtSize) + uncounted' = keyCounter'
    BY <2>1 DEF IndexSound
  <2>3. Sound /\ phase \in CopyingIndex => uncounted' = 0
    BY <2>1 DEF SoundInv, CopySound
  <2>4. Sound' <=> Sound
    BY <2>1 DEF Sound
  <2> QED
    BY <2>1, <2>2, <2>3, <2>4, MemorySound DEF SoundInv
<1>4. CASE MergeFree
  <2>1. UNCHANGED <<phase, htab, snap, sbCount, disk, uncounted, keyCounter>> /\ dirty' /\ hurt \subseteq hurt'
    BY <1>4 DEF MergeFree
  <2>2. IndexSound => Counted(Lens(htab), HtSize) + uncounted' = keyCounter'
    BY <2>1 DEF IndexSound
  <2>3. Sound /\ phase \in CopyingIndex => uncounted' = 0
    BY <2>1 DEF SoundInv, CopySound
  <2>4. Sound' => Sound
    BY <2>1 DEF Sound
  <2> QED
    BY <2>1, <2>2, <2>3, <2>4, MemorySound DEF SoundInv
<1> QED
  BY <1>1, <1>2, <1>3, <1>4

LEMMA CreateSound == Base /\ SoundInv /\ CreateKVDS => SoundInv'
<1> SUFFICES ASSUME Base, SoundInv, CreateKVDS, Sound'
             PROVE  IndexSound' /\ CopySound' /\ DiskSound' /\ phase' # "refused"
  BY DEF SoundInv
<1> USE DEF CreateKVDS, memory, background
<1>1. Sound /\ IndexSound
  BY DEF Sound, SoundInv
<1>2. IndexSound'
  BY <1>1 DEF IndexSound
<1>3. CopySound' /\ DiskSound'
  BY DEF CopySound, DiskSound, OnDisk, Indexed, CopyingIndex
<1> QED
  BY <1>2, <1>3

LEMMA WriteSound ==
  ASSUME Base, SoundInv, NEW k \in Keys, NEW del \in BOOLEAN, NEW s \in Segs, Write(k, del, s)
  PROVE  SoundInv'
<1> SUFFICES ASSUME Sound' PROVE IndexSound' /\ CopySound' /\ DiskSound' /\ phase' # "refused"
  BY DEF SoundInv
<1>1. PICK e : e = Entry(k, s, ver + 1, del)
  OBVIOUS
<1>2. /\ e \in Entries /\ e.key = k
      /\ IF del /\ ~InIndex(htab, k) THEN htab' = htab ELSE htab' = PutIn(htab, e)
      /\ keyCounter' = IF del \/ InIndex(htab, k) THEN keyCounter ELSE keyCounter + 1
  BY <1>1, WriteFacts
<1>3. phase = "open" /\ phase' = "open" /\ hurt' = hurt /\ dirty' /\ uncounted' = uncounted
  BY DEF Write
<1>4. htab \in Tables /\ IndexSound /\ uncounted \in {0, 1}
  BY <1>3 DEF Sound, SoundInv, Base, Shape, TypeOK, Tables
<1>5. Counted(Lens(htab), HtSize) \in Nat
  BY <1>4, LensType
<1>6. Counted(Lens(htab'), HtSize) =
        IF ~del /\ ~InIndex(htab, k) THEN Counted(Lens(htab), HtSize) + 1
        ELSE Counted(Lens(htab), HtSize)
  BY <1>2, <1>4, PutCount
<1>7. Good(htab')
  BY <1>2, <1>4, PutTab DEF IndexSound
<1>8. keyCounter' = IF ~del /\ ~InIndex(htab, k) THEN keyCounter + 1 ELSE keyCounter
  <2>1. CASE InIndex(htab, k)
    BY <1>2, <2>1
  <2>2. CASE ~InIndex(htab, k) /\ del
    BY <1>2, <2>2
  <2>3. CASE ~InIndex(htab, k) /\ ~del
    BY <1>2, <2>3
  <2> QED
    BY <2>1, <2>2, <2>3
<1>9. IndexSound'
  BY <1>3, <1>4, <1>5, <1>6, <1>7, <1>8 DEF IndexSound
<1>10. CopySound' /\ DiskSound'
  BY <1>3 DEF CopySound, DiskSound, OnDisk, Indexed, CopyingIndex
<1> QED
  BY <1>3, <1>9, <1>10

LEMMA MergeIndexSound ==
  ASSUME Base, SoundInv, NEW k \in Keys, MergeIndex(k)
  PROVE  SoundInv'
<1> SUFFICES ASSUME Sound' PROVE IndexSound' /\ CopySound' /\ DiskSound' /\ phase' # "refused"
  BY DEF SoundInv
<1>1. htab \in Tables /\ htab' \in Tables /\ Alike(htab, htab')
  BY MergeIndexFacts DEF Base, Shape, TypeOK, Tables
<1>2. UNCHANGED <<phase, keyCounter, snap, sbCount, disk, uncounted, dirty, hurt>>
  BY DEF MergeIndex, history
<1>3. Sound /\ IndexSound /\ CopySound /\ DiskSound /\ phase # "refused"
  BY <1>2 DEF Sound, SoundInv
<1>4. IndexSound'
  BY <1>1, <1>2, <1>3, AlikeFacts DEF IndexSound
<1>5. CopySound'
  <2>1. HtSize \in Nat /\ HtSize \in 0 .. HtSize
    BY MetaStorAssumption
  <2>2. phase \in {"counters", "entries"} => snap.slot - 1 \in 0 .. HtSize
    BY <1>3, <2>1 DEF CopySound, Base, Shape, Slots
  <2>3. ASSUME phase \in {"counters", "entries"}
        PROVE  Copied(htab', snap.counters, snap.stream, snap.slot - 1)
    BY <1>1, <1>3, <2>2, <2>3, CopyAlike DEF CopySound
  <2>4. ASSUME phase = "meta" PROVE Copied(htab', disk.counters, disk.stream, HtSize)
    BY <1>1, <1>3, <2>1, <2>4, CopyAlike DEF CopySound
  <2> QED
    BY <1>2, <1>3, <2>3, <2>4 DEF CopySound
<1>6. DiskSound'
  BY <1>2, <1>3 DEF DiskSound, OnDisk, Indexed, DiskTable
<1> QED
  BY <1>2, <1>3, <1>4, <1>5, <1>6

LEMMA ReapRemoveSound == Base /\ SoundInv /\ ReapRemove => SoundInv'
<1> SUFFICES ASSUME Base, SoundInv, ReapRemove, Sound'
             PROVE  IndexSound' /\ CopySound' /\ DiskSound' /\ phase' # "refused"
  BY DEF SoundInv
<1>1. PICK e : e = Head(reapQ)
  OBVIOUS
<1> DEFINE there == InIndex(htab, e.key) /\ EntryOf(htab, e.key).ver = e.ver
<1>2. /\ e \in Entries /\ e.key \in Keys
      /\ there => /\ htab' = RemoveFrom(htab, e.key) /\ uncounted' = 1
                  /\ hurt' = IF phase \in CopyingIndex THEN hurt \cup {"reap"} ELSE hurt
      /\ ~there => htab' = htab /\ uncounted' = 0 /\ hurt' = hurt
      /\ uncounted = 0
  BY <1>1, ReapRemoveFacts
<1>3. UNCHANGED <<phase, keyCounter, snap, sbCount, disk, dirty>>
  BY DEF ReapRemove
<1>4. Sound /\ IndexSound /\ CopySound /\ DiskSound /\ phase # "refused" /\ htab \in Tables
  BY <1>2 DEF Sound, SoundInv, Base, Shape, TypeOK, Tables
<1>5. CASE ~there
  BY <1>2, <1>3, <1>4, <1>5 DEF IndexSound, CopySound, DiskSound, OnDisk, Indexed, DiskTable
<1>6. CASE there
  <2>1. phase \notin CopyingIndex
    BY <1>2, <1>6 DEF Sound
  <2>2. Good(htab')
    BY <1>2, <1>4, <1>6, RemoveTab DEF IndexSound
  <2>3. Counted(Lens(htab'), HtSize) + 1 = Counted(Lens(htab), HtSize)
    BY <1>2, <1>4, <1>6, RemoveCount
  <2>4. Counted(Lens(htab), HtSize) + uncounted = keyCounter
    BY <1>4 DEF IndexSound
  <2>5. Counted(Lens(htab), HtSize) \in Nat /\ uncounted' = 1
    BY <1>2, <1>4, <1>6, LensType
  <2>6. IndexSound'
    BY <1>2, <1>3, <2>2, <2>3, <2>4, <2>5 DEF IndexSound
  <2>7. CopySound' /\ DiskSound'
    BY <1>3, <1>4, <2>1 DEF CopySound, DiskSound, OnDisk, Indexed, DiskTable, CopyingIndex
  <2> QED
    BY <1>3, <1>4, <2>6, <2>7
<1> QED
  BY <1>5, <1>6

LEMMA CopyCountersSound == Base /\ SoundInv /\ CopyCounters => SoundInv'
<1> SUFFICES ASSUME Base, SoundInv, CopyCounters, Sound'
             PROVE  IndexSound' /\ CopySound' /\ DiskSound' /\ phase' # "refused"
  BY DEF SoundInv
<1> USE DEF CopyCounters, UnchangedByClose, memory, background
<1>1. uncounted = 0 /\ hurt' = hurt
  BY DEF Sound
<1>2. IndexSound /\ DiskSound /\ htab \in Tables
  BY <1>1 DEF Sound, SoundInv, Base, Shape, TypeOK, Tables
<1>3. snap'.counters = Lens(htab) /\ snap'.stream = <<>> /\ snap'.slot = 1
  BY DEF EmptySnap, Lens
<1>4. Copied(htab, snap'.counters, snap'.stream, snap'.slot - 1)
  BY <1>2, <1>3, CopyStart
<1>5. CopySound'
  BY <1>1, <1>4 DEF CopySound
<1>6. IndexSound'
  BY <1>2 DEF IndexSound
<1>7. DiskSound'
  BY <1>2 DEF DiskSound, OnDisk, Indexed, DiskTable
<1> QED
  BY <1>5, <1>6, <1>7

LEMMA CopySlotSound == Base /\ SoundInv /\ CopySlot => SoundInv'
<1> SUFFICES ASSUME Base, SoundInv, CopySlot, Sound'
             PROVE  IndexSound' /\ CopySound' /\ DiskSound' /\ phase' # "refused"
  BY DEF SoundInv
<1>1. /\ snap.slot \in Slots /\ snap'.stream = snap.stream \o htab[snap.slot]
      /\ snap'.slot = snap.slot + 1 /\ snap'.counters = snap.counters
  BY CopySlotStream
<1> USE DEF CopySlot, UnchangedByClose, memory, background
<1>2. IndexSound /\ CopySound /\ DiskSound /\ htab \in Tables
  BY DEF Sound, SoundInv, Base, Shape, TypeOK, Tables
<1>3. Copied(htab, snap.counters, snap.stream, snap.slot - 1)
  BY <1>2 DEF CopySound
<1>4. snap.counters \in Sizes /\ snap.stream \in Seq(Entries)
  BY DEF Base, Shape, SnapRecord
<1>5. Copied(htab, snap.counters, snap.stream \o htab[snap.slot], snap.slot)
  BY <1>1, <1>2, <1>3, <1>4, CopyStep
<1>6. snap'.slot - 1 = snap.slot /\ (phase' = "entries" => snap'.slot = HtSize + 1)
  BY <1>1 DEF Slots
<1>7. Copied(htab', snap'.counters, snap'.stream, snap'.slot - 1)
  BY <1>1, <1>5, <1>6
<1>8. uncounted = 0
  BY <1>2 DEF CopySound, CopyingIndex
<1>9. CopySound'
  BY <1>6, <1>7, <1>8 DEF CopySound
<1>10. IndexSound'
  BY <1>2 DEF IndexSound
<1>11. DiskSound'
  BY <1>2 DEF DiskSound, OnDisk, Indexed, DiskTable
<1> QED
  BY <1>9, <1>10, <1>11

(* A copied index is read back as one alike.                               *)
LEMMA CopiedDisk ==
  ASSUME NEW tab \in Tables, NEW c \in Sizes, NEW s \in Seq(Entries),
         Copied(tab, c, s, HtSize), Good(tab)
  PROVE  /\ Good(TableOf(c, s)) /\ Len(s) = Counted(c, HtSize)
         /\ \A k \in Keys : Seen(TableOf(c, s), k) = Seen(tab, k)
<1>1. Alike(tab, TableOf(c, s)) /\ TableOf(c, s) \in Tables
  BY LoadCopy, LoadedType
<1> QED
  BY <1>1, AlikeFacts DEF Copied

LEMMA WriteIndexSound == Base /\ SoundInv /\ WriteIndex => SoundInv'
<1> SUFFICES ASSUME Base, SoundInv, WriteIndex, Sound'
             PROVE  IndexSound' /\ CopySound' /\ DiskSound' /\ phase' # "refused"
  BY DEF SoundInv
<1> USE DEF WriteIndex, UnchangedByClose, memory, background
<1>1. IndexSound /\ CopySound /\ htab \in Tables
  BY DEF Sound, SoundInv, Base, Shape, TypeOK, Tables
<1>2. snap.counters \in Sizes /\ snap.stream \in Seq(Entries)
  BY DEF Base, Shape, SnapRecord
<1>3. disk'.counters = snap.counters /\ disk'.stream = snap.stream
  BY DEF Base, Shape, DiskRecord
<1>4. snap.slot - 1 = HtSize
  BY <1>1, MetaStorAssumption DEF CopySound
<1>5. Copied(htab, disk'.counters, disk'.stream, HtSize)
  BY <1>1, <1>3, <1>4 DEF CopySound
<1>6. Good(DiskTable') /\ Len(disk'.stream) = Counted(disk'.counters, HtSize)
  BY <1>1, <1>2, <1>3, <1>5, CopiedDisk DEF IndexSound, DiskTable
<1>7. uncounted = 0
  BY <1>1 DEF CopySound, CopyingIndex
<1>8. CopySound'
  BY <1>5, <1>7 DEF CopySound
<1>9. IndexSound'
  BY <1>1 DEF IndexSound
<1>10. DiskSound'
  BY <1>6 DEF DiskSound, OnDisk
<1> QED
  BY <1>8, <1>9, <1>10

LEMMA PersistSound ==
  Base /\ SoundInv /\ (UpdateMetaToSB \/ PersistSSTs \/ PersistSuperBlock) => SoundInv'
<1> SUFFICES ASSUME Base, SoundInv, UpdateMetaToSB \/ PersistSSTs \/ PersistSuperBlock, Sound'
             PROVE  IndexSound' /\ CopySound' /\ DiskSound' /\ phase' # "refused"
  BY DEF SoundInv
<1> USE DEF UpdateMetaToSB, PersistSSTs, PersistSuperBlock, UnchangedByClose, memory, background
<1>1. IndexSound /\ CopySound /\ DiskSound /\ htab \in Tables
  BY DEF Sound, SoundInv, Base, Shape, TypeOK, Tables
<1>2. disk'.counters = disk.counters /\ disk'.stream = disk.stream
  BY DEF Base, Shape, DiskRecord
<1>3. Good(DiskTable') /\ Len(disk'.stream) = Counted(disk'.counters, HtSize)
  BY <1>1, <1>2 DEF DiskSound, Indexed, DiskTable
<1>4. phase' \in {"ssts", "sb"} => sbCount' = Counted(disk.counters, HtSize)
  <2>1. CASE UpdateMetaToSB
    <3>1. uncounted = 0 /\ Lens(htab) = disk.counters
      BY <1>1, <2>1 DEF CopySound, CopyingIndex, Copied
    <3>2. Counted(Lens(htab), HtSize) \in Nat
      BY <1>1, LensType
    <3> QED
      BY <1>1, <2>1, <3>1, <3>2 DEF IndexSound, SBCount
  <2>2. CASE PersistSSTs
    BY <1>1, <2>2 DEF CopySound
  <2>3. CASE PersistSuperBlock
    BY <2>3
  <2> QED
    BY <2>1, <2>2, <2>3
<1>5. CopySound'
  BY <1>2, <1>4 DEF CopySound, CopyingIndex
<1>6. IndexSound'
  BY <1>1 DEF IndexSound
<1>7. OnDisk' => disk'.valid /\ disk'.count = Counted(disk'.counters, HtSize)
  <2>1. CASE PersistSuperBlock
    <3>1. disk' = [disk EXCEPT !.valid = TRUE, !.count = sbCount] /\ disk \in DiskRecord
      BY <2>1 DEF Base, Shape
    <3>2. disk'.valid /\ disk'.count = sbCount
      BY <3>1 DEF DiskRecord
    <3> QED
      BY <1>1, <1>2, <2>1, <3>2 DEF CopySound
  <2>2. CASE UpdateMetaToSB \/ PersistSSTs
    BY <2>2 DEF OnDisk, Base, Undisturbed
  <2> QED
    BY <2>1, <2>2
<1>8. DiskSound'
  BY <1>3, <1>7 DEF DiskSound
<1> QED
  BY <1>5, <1>6, <1>8

LEMMA GoneSound == Base /\ SoundInv /\ (StopThds \/ Crash) => SoundInv'
<1> SUFFICES ASSUME Base, SoundInv, StopThds \/ Crash, Sound'
             PROVE  IndexSound' /\ CopySound' /\ DiskSound' /\ phase' # "refused"
  BY DEF SoundInv
<1> USE DEF StopThds, Crash, MemoryGone, history
<1>1. Sound /\ OnDisk
  <2>1. CASE StopThds
    BY <2>1 DEF Sound, OnDisk
  <2>2. CASE Crash
    BY <2>2 DEF Sound, OnDisk, Closing
  <2> QED
    BY <2>1, <2>2
<1>2. DiskSound
  BY <1>1 DEF SoundInv
<1>3. IndexSound'
  BY EmptyFacts DEF IndexSound
<1>4. CopySound' /\ DiskSound'
  BY <1>1, <1>2 DEF CopySound, CopyingIndex, DiskSound, OnDisk, Indexed, DiskTable
<1> QED
  BY <1>3, <1>4

LEMMA OpenSound == Base /\ SoundInv /\ (OpenKVDS \/ OpenRefused) => SoundInv'
<1> SUFFICES ASSUME Base, SoundInv, OpenKVDS \/ OpenRefused, Sound'
             PROVE  IndexSound' /\ CopySound' /\ DiskSound' /\ phase' # "refused"
  BY DEF SoundInv
<1>1. phase = "down" /\ hurt' = hurt /\ disk' = disk
  BY DEF OpenKVDS, OpenRefused, history
<1>2. DiskSound /\ OnDisk /\ Indexed
  BY <1>1 DEF Sound, SoundInv, OnDisk, Indexed
<1>3. disk.valid /\ disk.count = Counted(disk.counters, HtSize)
  BY <1>2 DEF DiskSound
<1>4. OpenKVDS
  BY <1>3 DEF OpenRefused, Loadable
<1> USE DEF OpenKVDS, loadSuperBlock, loadIndex, loadDataStor, background
<1>5. disk.counters \in Sizes /\ disk.stream \in Seq(Entries)
  BY DEF Base, Shape, DiskRecord
<1>6. htab' = DiskTable
  BY <1>4, LoadedIs DEF DiskTable
<1>7. Good(htab') /\ Lens(htab') = disk.counters
  BY <1>2, <1>5, <1>6, LoadWhole DEF DiskSound, DiskTable
<1>8. keyCounter' = disk.count /\ uncounted' = 0
  <2>1. ~Up
    BY <1>1 DEF Up, Closing
  <2> QED
    BY <1>4, <2>1 DEF Base, Stopped
<1>9. disk.count \in Nat
  BY DEF Base, Shape, DiskRecord
<1>10. IndexSound'
  BY <1>3, <1>7, <1>8, <1>9 DEF IndexSound
<1>11. CopySound' /\ DiskSound'
  BY <1>1, <1>2, <1>4 DEF CopySound, CopyingIndex, DiskSound, OnDisk, Indexed, DiskTable
<1> QED
  BY <1>4, <1>10, <1>11

-----------------------------------------------------------------------------
(* A store that nothing has damaged. *)

(* The record of an entry is where the entry says, in a segment in use.    *)
Right(m, e) == ~e.del => m[e.seg][e.key] = e.ver
Housed(t, e) == ~e.del => t[e.seg] = "USED"

TableWhole == \A e \in Held(htab) : Right(media, e) /\ Housed(table, e)

CopyWhole ==
  phase \in {"counters", "entries"} =>
    \A n \in 1 .. Len(snap.stream) :
      Right(media, snap.stream[n]) /\ Housed(table, snap.stream[n])

DiskWhole ==
  Indexed =>
    \A n \in 1 .. Len(disk.stream) :
      /\ Right(media, disk.stream[n])
      /\ Up => Housed(table, disk.stream[n])
      /\ phase \notin {"meta", "ssts"} => Housed(disk.sst, disk.stream[n])

(* The index on the device shows what the one in memory shows.             *)
SameSeen == Up /\ Indexed => \A k \in Keys : Seen(DiskTable, k) = Seen(htab, k)

(* A merge has the live records of its candidates, and a segment for them  *)
(* that is not one of the candidates.                                      *)
MergeWhole ==
  /\ merge.at = "write" => table[merge.to] = "RESERVED"
  /\ merge.at = "index" => /\ table[merge.to] = "USED"
                           /\ \A k \in merge.live : media[merge.to][k] = EntryOf(htab, k).ver
  /\ merge.at # "idle" => merge.to \notin merge.from
  /\ \A e \in Held(htab) : ~e.del /\ e.seg \in merge.from => e.key \in merge.live

Whole == TableWhole /\ CopyWhole /\ DiskWhole /\ SameSeen /\ MergeWhole
WholeInv == hurt = {} => Whole

(* Segments in use keep what they have: entries stay right and housed.     *)
LEMMA PlacesKept ==
  ASSUME NEW t, NEW u, NEW m, NEW n, NEW e \in Entries,
         \A s \in Segs : t[s] = "USED" => u[s] = "USED" /\ n[s] = m[s]
  PROVE  /\ Right(m, e) /\ Housed(t, e) => Right(n, e) /\ Housed(u, e)
         /\ Housed(t, e) => Housed(u, e)
BY DEF Right, Housed, Entries

LEMMA StreamTypes ==
  ASSUME Base
  PROVE  /\ \A n \in 1 .. Len(snap.stream) : snap.stream[n] \in Entries
         /\ \A n \in 1 .. Len(disk.stream) : disk.stream[n] \in Entries
         /\ \A e \in Held(htab) : e \in Entries
<1>1. snap.stream \in Seq(Entries) /\ disk.stream \in Seq(Entries)
  BY DEF Base, Shape, SnapRecord, DiskRecord
<1> QED
  BY <1>1, ElementOfSeq DEF Held

(* A merge that is idle asks for nothing.                                  *)
LEMMA IdleMerge == merge = NoMerge => MergeWhole
BY DEF NoMerge, MergeWhole

LEMMA InitWhole == Init => WholeInv
<1> SUFFICES ASSUME Init PROVE Whole
  BY DEF WholeInv
<1> USE DEF Init
<1>1. TableWhole /\ MergeWhole
  BY EmptyFacts, IdleMerge DEF TableWhole
<1>2. CopyWhole /\ DiskWhole /\ SameSeen
  BY DEF CopyWhole, DiskWhole, SameSeen, OnDisk, Indexed
<1> QED
  BY <1>1, <1>2 DEF Whole

LEMMA CreateWhole == Base /\ WholeInv /\ CreateKVDS => WholeInv'
<1> SUFFICES ASSUME Base, WholeInv, CreateKVDS PROVE Whole'
  BY DEF WholeInv
<1> USE DEF CreateKVDS, memory, background
<1>1. htab' = EmptyTable /\ merge' = NoMerge
  BY DEF Base, Stopped, Up, Closing
<1>2. TableWhole' /\ MergeWhole'
  BY <1>1, EmptyFacts DEF TableWhole, MergeWhole, NoMerge
<1>3. CopyWhole' /\ DiskWhole' /\ SameSeen'
  BY DEF CopyWhole, DiskWhole, SameSeen, OnDisk, Indexed
<1> QED
  BY <1>2, <1>3 DEF Whole

LEMMA WriteWhole ==
  ASSUME Base, WholeInv, NEW k \in Keys, NEW del \in BOOLEAN, NEW s \in Segs, Write(k, del, s)
  PROVE  WholeInv'
<1> SUFFICES ASSUME hurt' = {} PROVE Whole'
  BY DEF WholeInv
<1>1. PICK e : e = Entry(k, s, ver + 1, del)
  OBVIOUS
<1>2. /\ e \in Entries /\ e.key = k /\ e.seg = s /\ e.ver = ver + 1 /\ ver' = ver + 1
      /\ \A f \in Held(htab') : f = e \/ f \in Held(htab)
  BY <1>1, WriteFacts
<1>3. /\ phase' = "open" /\ dirty' /\ merge' = NoMerge /\ hurt = {}
      /\ table[s] = "FREE" /\ table' = [table EXCEPT ![s] = "USED"]
      /\ media' = [media EXCEPT ![s] = [x \in Keys |-> IF x = k THEN ver' ELSE 0]]
  BY DEF Write
<1>4. table \in [Segs -> States] /\ media \in [Segs -> [Keys -> 0 .. MaxVer]]
  BY DEF Base, Shape, TypeOK
<1>5. \A g \in Segs : table[g] = "USED" => table'[g] = "USED" /\ media'[g] = media[g]
  BY <1>3, <1>4
<1>6. Right(media', e) /\ Housed(table', e)
  BY <1>2, <1>3, <1>4 DEF Right, Housed
<1>7. TableWhole'
  <2> SUFFICES ASSUME NEW f \in Held(htab') PROVE Right(media', f) /\ Housed(table', f)
    BY DEF TableWhole
  <2>1. CASE f = e
    BY <1>6, <2>1
  <2>2. CASE f \in Held(htab)
    <3>1. f \in Entries /\ Right(media, f) /\ Housed(table, f)
      BY <1>3, <2>2, StreamTypes DEF WholeInv, Whole, TableWhole
    <3> QED
      BY <1>5, <3>1, PlacesKept
  <2> QED
    BY <1>2, <2>1, <2>2
<1>8. MergeWhole'
  BY <1>3 DEF MergeWhole, NoMerge
<1>9. CopyWhole' /\ DiskWhole' /\ SameSeen'
  BY <1>3 DEF CopyWhole, DiskWhole, SameSeen, OnDisk, Indexed
<1> QED
  BY <1>7, <1>8, <1>9 DEF Whole

(* The steps that leave the lists alone and keep the segments in use.      *)
LEMMA MemoryWhole ==
  ASSUME Base, Whole, UNCHANGED <<phase, htab, snap, disk, dirty>>, MergeWhole',
         \A g \in Segs : table[g] = "USED" => table'[g] = "USED" /\ media'[g] = media[g],
         Up
  PROVE  Whole'
<1>1. TableWhole'
  BY StreamTypes, PlacesKept DEF Whole, TableWhole
<1>2. CopyWhole'
  <2>1. \A n \in 1 .. Len(snap.stream) :
          Right(media, snap.stream[n]) /\ Housed(table, snap.stream[n]) =>
            Right(media', snap.stream[n]) /\ Housed(table', snap.stream[n])
    BY StreamTypes, PlacesKept
  <2> QED
    BY <2>1 DEF Whole, CopyWhole
<1>3. DiskWhole'
  <2>1. \A n \in 1 .. Len(disk.stream) :
          Right(media, disk.stream[n]) /\ Housed(table, disk.stream[n]) =>
            Right(media', disk.stream[n]) /\ Housed(table', disk.stream[n])
    BY StreamTypes, PlacesKept
  <2> QED
    BY <2>1 DEF Whole, DiskWhole, Indexed, OnDisk
<1>4. SameSeen'
  BY DEF Whole, SameSeen, Up, Closing, Indexed, OnDisk, DiskTable
<1> QED
  BY <1>1, <1>2, <1>3, <1>4 DEF Whole

LEMMA ReapCountWhole == Base /\ WholeInv /\ ReapCount => WholeInv'
<1> SUFFICES ASSUME Base, WholeInv, ReapCount, hurt' = {} PROVE Whole'
  BY DEF WholeInv
<1>1. UNCHANGED <<phase, htab, snap, disk, dirty, table, media, merge, hurt>>
  BY DEF ReapCount, history
<1>2. Whole /\ Up
  BY <1>1 DEF WholeInv, ReapCount, Base, Stopped
<1>3. MergeWhole'
  BY <1>1, <1>2 DEF Whole, MergeWhole
<1> QED
  BY <1>1, <1>2, <1>3, MemoryWhole

LEMMA MergeStartWhole ==
  ASSUME Base, SoundInv, WholeInv, NEW from \in SUBSET Segs, NEW t \in Segs, MergeStart(from, t)
  PROVE  WholeInv'
<1> SUFFICES ASSUME hurt' = {} PROVE Whole'
  BY DEF WholeInv
<1>1. UNCHANGED <<phase, htab, snap, disk, dirty, media, hurt>> /\ Up
  BY DEF MergeStart, history, Up
<1>2. Whole /\ IndexSound
  BY <1>1 DEF WholeInv, SoundInv, Sound
<1>3. /\ table[t] = "FREE" /\ table' = [table EXCEPT ![t] = "RESERVED"]
      /\ \A s \in from : table[s] = "USED"
      /\ merge' = [at |-> "write", from |-> from, to |-> t, live |-> UNION {LiveIn(s) : s \in from}]
  BY DEF MergeStart
<1>4. table \in [Segs -> States] /\ htab \in Tables
  BY DEF Base, Shape, TypeOK, Tables
<1>5. \A g \in Segs : table[g] = "USED" => table'[g] = "USED" /\ media'[g] = media[g]
  BY <1>1, <1>3, <1>4
<1>6. ASSUME NEW e \in Held(htab), ~e.del, e.seg \in from
      PROVE  e.key \in UNION {LiveIn(s) : s \in from}
  <2>1. InIndex(htab, e.key) /\ EntryOf(htab, e.key) = e /\ e.key \in Keys
    BY <1>2, <1>4, GoodEntries DEF IndexSound
  <2>2. e.key \in LiveIn(e.seg)
    BY <1>6, <2>1 DEF LiveIn
  <2> QED
    BY <1>6, <2>2
<1>7. MergeWhole'
  <2>1. merge'.at = "write" /\ merge'.from = from /\ merge'.to = t
        /\ merge'.live = UNION {LiveIn(s) : s \in from}
    BY <1>3
  <2>2. table'[t] = "RESERVED" /\ t \notin from
    BY <1>3, <1>4
  <2> QED
    BY <1>1, <1>6, <2>1, <2>2 DEF MergeWhole
<1> QED
  BY <1>1, <1>2, <1>5, <1>7, MemoryWhole

LEMMA MergeWriteWhole == Base /\ WholeInv /\ MergeWrite => WholeInv'
<1> SUFFICES ASSUME Base, WholeInv, MergeWrite, hurt' = {} PROVE Whole'
  BY DEF WholeInv
<1>1. UNCHANGED <<phase, htab, snap, disk, dirty, hurt>>
  BY DEF MergeWrite, history
<1>2. Whole /\ Up
  BY <1>1 DEF WholeInv, MergeWrite, Base, Stopped, NoMerge
<1>3. /\ merge.at = "write" /\ merge \in MergeRecord /\ merge.to \in Segs
      /\ table \in [Segs -> States] /\ media \in [Segs -> [Keys -> 0 .. MaxVer]]
  BY DEF MergeWrite, Base, Shape, TypeOK
<1>4. /\ media' = [media EXCEPT ![merge.to] =
                     [k \in Keys |-> IF k \in merge.live THEN EntryOf(htab, k).ver ELSE 0]]
      /\ table' = [table EXCEPT ![merge.to] = "USED"]
  BY DEF MergeWrite
<1>5. /\ merge'.at = "index" /\ merge'.from = merge.from /\ merge'.to = merge.to
      /\ merge'.live = merge.live /\ merge.live \in SUBSET Keys
  BY <1>3 DEF MergeWrite, MergeRecord
<1>6. table[merge.to] = "RESERVED" /\ merge.to \notin merge.from
  BY <1>2, <1>3 DEF Whole, MergeWhole
<1>7. \A g \in Segs : table[g] = "USED" => table'[g] = "USED" /\ media'[g] = media[g]
  BY <1>3, <1>4, <1>6
<1>8. MergeWhole'
  <2>1. table'[merge.to] = "USED" /\ \A k \in merge.live : media'[merge.to][k] = EntryOf(htab, k).ver
    BY <1>3, <1>4, <1>5
  <2> QED
    BY <1>1, <1>2, <1>5, <1>6, <2>1 DEF Whole, MergeWhole
<1> QED
  BY <1>1, <1>2, <1>7, <1>8, MemoryWhole

LEMMA MergeFreeWhole == Base /\ WholeInv /\ MergeFree => WholeInv'
<1> SUFFICES ASSUME Base, WholeInv, MergeFree, hurt' = {} PROVE Whole'
  BY DEF WholeInv
<1>1. UNCHANGED <<phase, htab, media>> /\ ~Closing /\ hurt = {} /\ dirty' /\ merge' = NoMerge
  BY DEF MergeFree
<1>2. Whole /\ merge.live = {}
  BY <1>1 DEF WholeInv, MergeFree
<1>3. phase = "open"
  BY <1>1 DEF MergeFree, Base, Stopped, NoMerge, Up
<1>4. TableWhole'
  <2> SUFFICES ASSUME NEW e \in Held(htab) PROVE Right(media, e) /\ Housed(table', e)
    BY <1>1 DEF TableWhole
  <2>1. Right(media, e) /\ Housed(table, e) /\ e \in Entries
    BY <1>2, StreamTypes DEF Whole, TableWhole
  <2>2. ~e.del => e.seg \notin merge.from
    BY <1>2 DEF Whole, MergeWhole
  <2>3. table' = [s \in Segs |-> IF s \in merge.from THEN "FREE" ELSE table[s]]
    BY DEF MergeFree
  <2> QED
    BY <2>1, <2>2, <2>3 DEF Housed, Entries
<1>5. MergeWhole'
  BY <1>1 DEF MergeWhole, NoMerge
<1>6. CopyWhole' /\ DiskWhole' /\ SameSeen'
  BY <1>1, <1>3 DEF CopyWhole, DiskWhole, SameSeen, OnDisk, Indexed
<1> QED
  BY <1>4, <1>5, <1>6 DEF Whole

LEMMA MergeIndexWhole ==
  ASSUME Base, SoundInv, WholeInv, NEW k \in Keys, MergeIndex(k)
  PROVE  WholeInv'
<1> SUFFICES ASSUME hurt' = {} PROVE Whole'
  BY DEF WholeInv
<1>1. PICK e : e = Entry(k, merge.to, EntryOf(htab, k).ver, FALSE)
  OBVIOUS
<1>2. /\ e \in Entries /\ e.key = k /\ e.seg = merge.to /\ e.ver = EntryOf(htab, k).ver
      /\ htab' = PutIn(htab, e) /\ htab' \in Tables /\ Alike(htab, htab')
      /\ merge'.live = merge.live \ {k} /\ InIndex(htab, k)
      /\ merge'.at = merge.at /\ merge'.to = merge.to /\ merge'.from = merge.from
  BY <1>1, MergeIndexFacts
<1>3. /\ UNCHANGED <<phase, table, media, snap, disk, dirty, hurt>>
      /\ merge.at = "index" /\ k \in merge.live /\ merge.live \in SUBSET Keys
  BY DEF MergeIndex, history, Base, Shape, MergeRecord
<1>4. Whole /\ Good(htab) /\ htab \in Tables
  BY <1>3 DEF WholeInv, SoundInv, Sound, IndexSound, Base, Shape, TypeOK, Tables
<1>5. /\ \A x \in Keys : x # k /\ InIndex(htab, x) => EntryOf(htab', x) = EntryOf(htab, x)
      /\ EntryOf(htab', k) = e /\ Good(htab')
      /\ \A f \in Held(htab') : f = e \/ f \in Held(htab)
  BY <1>2, <1>4, PutTab
<1>6. /\ table[merge.to] = "USED" /\ merge.to \notin merge.from
      /\ \A x \in merge.live : media[merge.to][x] = EntryOf(htab, x).ver
  BY <1>3, <1>4 DEF Whole, MergeWhole
<1>7. TableWhole'
  <2>1. Right(media, e) /\ Housed(table, e)
    BY <1>2, <1>3, <1>6 DEF Right, Housed
  <2> QED
    BY <1>3, <1>4, <1>5, <2>1 DEF Whole, TableWhole
<1>8. MergeWhole'
  <2>1. \A x \in merge'.live : media[merge.to][x] = EntryOf(htab', x).ver
    <3>1. \A x \in merge.live : InIndex(htab, x)
      BY DEF Base, LiveEntries
    <3> QED
      BY <1>2, <1>3, <1>5, <1>6, <3>1
  <2>2. ASSUME NEW f \in Held(htab'), ~f.del, f.seg \in merge.from PROVE f.key \in merge'.live
    <3>1. f # e
      BY <1>2, <1>6, <2>2
    <3>2. f.key \in merge.live
      BY <1>4, <1>5, <2>2, <3>1 DEF Whole, MergeWhole
    <3>3. f.key # k
      <4>1. EntryOf(htab', f.key) = f
        BY <1>2, <1>5, GoodEntries
      <4> QED
        BY <1>5, <3>1, <4>1
    <3> QED
      BY <1>2, <3>2, <3>3
  <2> QED
    BY <1>2, <1>3, <1>6, <2>1, <2>2 DEF MergeWhole
<1>9. SameSeen'
  <2>1. \A x \in Keys : Seen(htab', x) = Seen(htab, x)
    BY <1>2, <1>4, AlikeFacts
  <2>2. DiskTable' = DiskTable /\ (Indexed' <=> Indexed) /\ (Up' <=> Up)
    BY <1>3 DEF DiskTable, Indexed, OnDisk, Up, Closing
  <2> QED
    BY <1>4, <2>1, <2>2 DEF Whole, SameSeen
<1>10. CopyWhole' /\ DiskWhole'
  BY <1>3, <1>4 DEF Whole, CopyWhole, DiskWhole, Indexed, OnDisk, Up, Closing
<1> QED
  BY <1>7, <1>8, <1>9, <1>10 DEF Whole

(* The reaper takes away what could not be seen.                           *)
LEMMA ReapSeen ==
  ASSUME Base, Good(htab), ReapRemove
  PROVE  \A k \in Keys : Seen(htab', k) = Seen(htab, k)
<1>1. PICK e : e = Head(reapQ)
  OBVIOUS
<1> DEFINE there == InIndex(htab, e.key) /\ EntryOf(htab, e.key).ver = e.ver
<1>2. /\ e.key \in Keys
      /\ there => htab' = RemoveFrom(htab, e.key) /\ EntryOf(htab, e.key).del
      /\ ~there => htab' = htab
  BY <1>1, ReapRemoveFacts
<1>3. htab \in Tables
  BY DEF Base, Shape, TypeOK, Tables
<1>4. CASE there
  <2>1. /\ \A x \in Keys : x # e.key =>
             /\ InIndex(htab', x) <=> InIndex(htab, x)
             /\ InIndex(htab, x) => EntryOf(htab', x) = EntryOf(htab, x)
        /\ ~InIndex(htab', e.key)
    BY <1>2, <1>3, <1>4, RemoveTab
  <2>2. Seen(htab', e.key) = 0 /\ Seen(htab, e.key) = 0
    BY <1>2, <1>4, <2>1 DEF Seen
  <2>3. \A x \in Keys : x # e.key => Seen(htab', x) = Seen(htab, x)
    BY <2>1 DEF Seen
  <2> QED
    BY <2>2, <2>3
<1>5. CASE ~there
  BY <1>2, <1>5
<1> QED
  BY <1>4, <1>5

LEMMA ReapRemoveWhole == Base /\ SoundInv /\ WholeInv /\ ReapRemove => WholeInv'
<1> SUFFICES ASSUME Base, SoundInv, WholeInv, ReapRemove, hurt' = {} PROVE Whole'
  BY DEF WholeInv
<1>1. PICK e : e = Head(reapQ)
  OBVIOUS
<1> DEFINE there == InIndex(htab, e.key) /\ EntryOf(htab, e.key).ver = e.ver
<1>2. /\ e.key \in Keys
      /\ there => /\ htab' = RemoveFrom(htab, e.key) /\ e.key \notin merge.live
                  /\ hurt' = IF phase \in CopyingIndex THEN hurt \cup {"reap"} ELSE hurt
      /\ ~there => htab' = htab /\ hurt' = hurt
      /\ Held(htab') \subseteq Held(htab)
  BY <1>1, ReapRemoveFacts
<1>3. UNCHANGED <<phase, table, media, snap, disk, merge, dirty>>
  BY DEF ReapRemove
<1>4. Whole /\ Good(htab) /\ htab \in Tables
  <2>1. hurt = {}
    BY <1>2
  <2> QED
    BY <2>1 DEF WholeInv, SoundInv, Sound, IndexSound, Base, Shape, TypeOK, Tables
<1>5. TableWhole'
  BY <1>2, <1>3, <1>4 DEF Whole, TableWhole
<1>6. \A k \in merge.live : EntryOf(htab', k) = EntryOf(htab, k)
  <2>1. \A k \in merge.live : k \in Keys /\ InIndex(htab, k)
    BY DEF Base, Shape, MergeRecord, LiveEntries
  <2>2. CASE there
    <3>1. \A x \in Keys : x # e.key /\ InIndex(htab, x) => EntryOf(htab', x) = EntryOf(htab, x)
      BY <1>2, <1>4, <2>2, RemoveTab
    <3> QED
      BY <1>2, <2>1, <2>2, <3>1
  <2>3. CASE ~there
    BY <1>2, <2>3
  <2> QED
    BY <2>2, <2>3
<1>7. MergeWhole'
  BY <1>2, <1>3, <1>4, <1>6 DEF Whole, MergeWhole
<1>8. SameSeen'
  <2>1. \A x \in Keys : Seen(htab', x) = Seen(htab, x)
    BY <1>4, ReapSeen
  <2>2. DiskTable' = DiskTable /\ (Indexed' <=> Indexed) /\ (Up' <=> Up)
    BY <1>3 DEF DiskTable, Indexed, OnDisk, Up, Closing
  <2> QED
    BY <1>4, <2>1, <2>2 DEF Whole, SameSeen
<1>9. CopyWhole' /\ DiskWhole'
  BY <1>3, <1>4 DEF Whole, CopyWhole, DiskWhole, Indexed, OnDisk, Up, Closing
<1> QED
  BY <1>5, <1>7, <1>8, <1>9 DEF Whole

(* What closeDB leaves alone stays whole.                                  *)
LEMMA CloseWhole ==
  ASSUME Whole, UnchangedByClose
  PROVE  TableWhole' /\ MergeWhole'
BY DEF Whole, TableWhole, MergeWhole, UnchangedByClose, memory, background

LEMMA CopyCountersWhole == Base /\ WholeInv /\ CopyCounters => WholeInv'
<1> SUFFICES ASSUME Base, WholeInv, CopyCounters, hurt' = {} PROVE Whole'
  BY DEF WholeInv
<1> USE DEF CopyCounters
<1>1. Whole /\ UnchangedByClose /\ snap'.stream = <<>>
  BY DEF WholeInv, EmptySnap
<1>2. CopyWhole'
  BY <1>1 DEF CopyWhole
<1>3. DiskWhole' /\ SameSeen'
  BY <1>1 DEF Whole, DiskWhole, SameSeen, Indexed, OnDisk, Up, Closing, DiskTable,
              UnchangedByClose, memory
<1> QED
  BY <1>1, <1>2, <1>3, CloseWhole DEF Whole

LEMMA CopySlotWhole == Base /\ WholeInv /\ CopySlot => WholeInv'
<1> SUFFICES ASSUME Base, WholeInv, CopySlot, hurt' = {} PROVE Whole'
  BY DEF WholeInv
<1>1. Whole /\ UnchangedByClose /\ media' = media /\ table' = table
  BY DEF WholeInv, CopySlot, UnchangedByClose, memory
<1>2. \A n \in 1 .. Len(snap'.stream) :
        \/ n \in 1 .. Len(snap.stream) /\ snap'.stream[n] = snap.stream[n]
        \/ snap'.stream[n] \in Held(htab)
  BY CopySlotStream
<1>3. CopyWhole'
  <2>1. phase = "counters"
    BY DEF CopySlot
  <2> QED
    BY <1>1, <1>2, <2>1 DEF Whole, CopyWhole, TableWhole
<1>4. DiskWhole' /\ SameSeen'
  BY <1>1 DEF Whole, DiskWhole, SameSeen, Indexed, OnDisk, Up, Closing, DiskTable,
              UnchangedByClose, memory, CopySlot
<1> QED
  BY <1>1, <1>3, <1>4, CloseWhole DEF Whole

LEMMA WriteIndexWhole == Base /\ SoundInv /\ WholeInv /\ WriteIndex => WholeInv'
<1> SUFFICES ASSUME Base, SoundInv, WholeInv, WriteIndex, hurt' = {} PROVE Whole'
  BY DEF WholeInv
<1> USE DEF WriteIndex
<1>1. /\ Whole /\ UnchangedByClose /\ media' = media /\ table' = table /\ htab' = htab
      /\ phase = "entries" /\ phase' = "meta"
  BY DEF WholeInv, UnchangedByClose, memory
<1>2. IndexSound /\ CopySound /\ htab \in Tables
  BY DEF Sound, SoundInv, Base, Shape, TypeOK, Tables
<1>3. snap.counters \in Sizes /\ snap.stream \in Seq(Entries)
  BY DEF Base, Shape, SnapRecord
<1>4. disk'.counters = snap.counters /\ disk'.stream = snap.stream
  BY DEF Base, Shape, DiskRecord
<1>5. snap.slot - 1 = HtSize
  BY <1>2, MetaStorAssumption DEF CopySound
<1>6. Copied(htab, snap.counters, snap.stream, HtSize)
  BY <1>2, <1>5 DEF CopySound
<1>7. SameSeen'
  BY <1>1, <1>2, <1>3, <1>4, <1>6, CopiedDisk DEF SameSeen, IndexSound, DiskTable
<1>8. CopyWhole' /\ DiskWhole'
  BY <1>1, <1>4 DEF Whole, CopyWhole, DiskWhole
<1> QED
  BY <1>1, <1>7, <1>8, CloseWhole DEF Whole

LEMMA PersistWhole ==
  Base /\ WholeInv /\ (UpdateMetaToSB \/ PersistSSTs \/ PersistSuperBlock) => WholeInv'
<1> SUFFICES ASSUME Base, WholeInv, UpdateMetaToSB \/ PersistSSTs \/ PersistSuperBlock, hurt' = {}
             PROVE  Whole'
  BY DEF WholeInv
<1> USE DEF UpdateMetaToSB, PersistSSTs, PersistSuperBlock
<1>1. /\ Whole /\ UnchangedByClose /\ media' = media /\ table' = table /\ htab' = htab
      /\ phase \in {"meta", "ssts", "sb"} /\ phase' \in {"ssts", "sb", "stopping"}
  BY DEF WholeInv, UnchangedByClose, memory
<1>2. disk'.counters = disk.counters /\ disk'.stream = disk.stream
  BY DEF Base, Shape, DiskRecord
<1>3. Indexed /\ Indexed' /\ Up /\ Up'
  BY <1>1 DEF Indexed, OnDisk, Up, Closing
<1>4. phase' \notin {"meta", "ssts"} => \A n \in 1 .. Len(disk.stream) : Housed(disk'.sst, disk.stream[n])
  <2>1. CASE UpdateMetaToSB
    BY <2>1
  <2>2. CASE PersistSSTs
    <3>1. disk'.sst = AllSSTs
      BY <2>2 DEF Base, Shape, DiskRecord
    <3>2. \A s \in Segs : table[s] = "USED" => disk'.sst[s] = "USED"
      BY <3>1 DEF AllSSTs, SstOnDisk
    <3> SUFFICES ASSUME NEW n \in 1 .. Len(disk.stream) PROVE Housed(disk'.sst, disk.stream[n])
      OBVIOUS
    <3>3. disk.stream[n] \in Entries /\ Housed(table, disk.stream[n])
      BY <1>1, <1>3, StreamTypes DEF Whole, DiskWhole
    <3> QED
      BY <3>2, <3>3 DEF Housed, Entries
  <2>3. CASE PersistSuperBlock
    <3>1. disk'.sst = disk.sst /\ phase = "sb"
      BY <2>3 DEF Base, Shape, DiskRecord
    <3> QED
      BY <1>1, <1>3, <3>1 DEF Whole, DiskWhole
  <2> QED
    BY <2>1, <2>2, <2>3
<1>5. DiskWhole'
  BY <1>1, <1>2, <1>3, <1>4 DEF Whole, DiskWhole
<1>6. SameSeen'
  BY <1>1, <1>2, <1>3 DEF Whole, SameSeen, DiskTable
<1>7. CopyWhole'
  BY <1>1 DEF CopyWhole
<1> QED
  BY <1>1, <1>5, <1>6, <1>7, CloseWhole DEF Whole

LEMMA GoneWhole == Base /\ WholeInv /\ (StopThds \/ Crash) => WholeInv'
<1> SUFFICES ASSUME Base, WholeInv, StopThds \/ Crash, hurt' = {} PROVE Whole'
  BY DEF WholeInv
<1> USE DEF StopThds, Crash, MemoryGone, history
<1>1. Whole /\ OnDisk /\ phase \notin {"meta", "ssts"}
  <2>1. CASE StopThds
    BY <2>1 DEF WholeInv, OnDisk
  <2>2. CASE Crash
    BY <2>2 DEF WholeInv, OnDisk, Closing, Base, Undisturbed
  <2> QED
    BY <2>1, <2>2
<1>2. TableWhole' /\ MergeWhole'
  BY EmptyFacts DEF TableWhole, MergeWhole, NoMerge
<1>3. CopyWhole' /\ SameSeen'
  BY DEF CopyWhole, SameSeen, Up, Closing
<1>4. DiskWhole'
  BY <1>1 DEF Whole, DiskWhole, Indexed, Up, Closing
<1> QED
  BY <1>2, <1>3, <1>4 DEF Whole

LEMMA OpenWhole == Base /\ SoundInv /\ WholeInv /\ (OpenKVDS \/ OpenRefused) => WholeInv'
<1> SUFFICES ASSUME Base, SoundInv, WholeInv, OpenKVDS \/ OpenRefused, hurt' = {}
             PROVE  Whole'
  BY DEF WholeInv
<1>1. phase = "down" /\ hurt' = hurt /\ disk' = disk /\ media' = media /\ merge' = merge
  BY DEF OpenKVDS, OpenRefused, history, background
<1>2. Whole /\ OnDisk /\ Indexed /\ DiskSound
  BY <1>1 DEF WholeInv, Sound, SoundInv, OnDisk, Indexed
<1>3. OpenKVDS
  BY <1>2 DEF OpenRefused, Loadable, DiskSound
<1>4. htab' = DiskTable /\ table' = disk.sst /\ phase' = "open"
  BY <1>3, LoadedIs DEF OpenKVDS, loadSuperBlock, loadIndex, loadDataStor, DiskTable
<1>5. disk.counters \in Sizes /\ disk.stream \in Seq(Entries)
  BY DEF Base, Shape, DiskRecord
<1>6. \A n \in 1 .. Len(disk.stream) : Right(media, disk.stream[n]) /\ Housed(disk.sst, disk.stream[n])
  BY <1>1, <1>2 DEF Whole, DiskWhole
<1>7. TableWhole'
  <2>1. \A e \in Held(DiskTable) : \E n \in 1 .. Len(disk.stream) : disk.stream[n] = e
    BY <1>5, LoadedType DEF DiskTable
  <2> QED
    BY <1>1, <1>4, <1>6, <2>1 DEF TableWhole
<1>8. MergeWhole'
  <2>1. merge' = NoMerge
    BY <1>1 DEF Base, Stopped, Up, Closing
  <2> QED
    BY <2>1 DEF MergeWhole, NoMerge
<1>9. DiskWhole'
  BY <1>1, <1>4, <1>6 DEF DiskWhole
<1>10. SameSeen'
  BY <1>1, <1>4 DEF SameSeen, DiskTable
<1>11. CopyWhole'
  BY <1>4 DEF CopyWhole
<1> QED
  BY <1>7, <1>8, <1>9, <1>10, <1>11 DEF Whole

-----------------------------------------------------------------------------
(* The theorems. *)

IInv == Base /\ SoundInv /\ WholeInv

LEMMA NextInv == IInv /\ [Next]_vars => IInv'
<1> SUFFICES ASSUME IInv, [Next]_vars PROVE IInv'
  OBVIOUS
<1> USE DEF IInv
<1>1. CASE CreateKVDS
  BY <1>1, CreateBase, CreateSound, CreateWhole
<1>2. CASE OpenKVDS \/ OpenRefused
  BY <1>2, OpenBase, RefusedBase, OpenSound, OpenWhole
<1>3. CASE \E k \in Keys, del \in BOOLEAN, s \in Segs : Write(k, del, s)
  BY <1>3, WriteBase, WriteSound, WriteWhole
<1>4. CASE ReapRemove
  BY <1>4, ReapRemoveBase, ReapRemoveSound, ReapRemoveWhole
<1>5. CASE ReapCount
  BY <1>5, ReapCountBase, MemoryStepsSound, ReapCountWhole
<1>6. CASE \E from \in SUBSET Segs, t \in Segs : from # {} /\ MergeStart(from, t)
  BY <1>6, MergeStartBase, MemoryStepsSound, MergeStartWhole
<1>7. CASE MergeWrite
  BY <1>7, MergeWriteBase, MemoryStepsSound, MergeWriteWhole
<1>8. CASE \E k \in Keys : MergeIndex(k)
  BY <1>8, MergeIndexBase, MergeIndexSound, MergeIndexWhole
<1>9. CASE MergeFree
  BY <1>9, MergeFreeBase, MemoryStepsSound, MergeFreeWhole
<1>10. CASE CopyCounters
  BY <1>10, CopyCountersBase, CopyCountersSound, CopyCountersWhole
<1>11. CASE CopySlot
  BY <1>11, CopySlotBase, CopySlotSound, CopySlotWhole
<1>12. CASE WriteIndex
  BY <1>12, WriteIndexBase, WriteIndexSound, WriteIndexWhole
<1>13. CASE UpdateMetaToSB \/ PersistSSTs \/ PersistSuperBlock
  BY <1>13, PersistBase, PersistSound, PersistWhole
<1>14. CASE StopThds \/ Crash
  BY <1>14, GoneBase, GoneSound, GoneWhole
<1>15. CASE UNCHANGED vars
  <2>1. UNCHANGED <<phase, htab, keyCounter, table, media, snap, sbCount, disk, merge, reapQ,
                    uncounted, ver, dirty, hurt>>
    BY <1>15 DEF vars, memory, background, history
  <2>2. Base'
    BY <2>1 DEF Base, Shape, TypeOK, Stopped, Up, Closing, LiveEntries, Vers, ReapVers,
                CounterCovers, Undisturbed
  <2>3. SoundInv'
    BY <2>1 DEF SoundInv, Sound, IndexSound, CopySound, DiskSound, Indexed, OnDisk, DiskTable
  <2>4. WholeInv'
    BY <2>1 DEF WholeInv, Whole, TableWhole, CopyWhole, DiskWhole, SameSeen, MergeWhole, Indexed,
                OnDisk, DiskTable, Up, Closing
  <2> QED
    BY <2>2, <2>3, <2>4
<1> QED
  BY <1>1, <1>2, <1>3, <1>4, <1>5, <1>6, <1>7, <1>8, <1>9, <1>10, <1>11, <1>12, <1>13, <1>14,
     <1>15 DEF Next

LEMMA AlwaysInv == Spec => []IInv
<1>1. Init => IInv
  BY InitBase, InitSound, InitWhole DEF IInv
<1> QED
  BY <1>1, NextInv, PTL DEF Spec

(* In an open store that nothing has damaged the entries lie in segments   *)
(* in use and the counter counts them.                                     *)
LEMMA WholeIsHoused == IInv => Consistent
<1> SUFFICES ASSUME IInv PROVE Consistent
  OBVIOUS
<1>1. TypeOK
  BY DEF IInv, Base, Shape
<1>2. EntriesAreHoused
  <2> SUFFICES ASSUME phase = "open", hurt = {}
               PROVE  /\ \A k \in Keys : InIndex(htab, k) /\ ~EntryOf(htab, k).del =>
                           table[EntryOf(htab, k).seg] = "USED"
                      /\ keyCounter = Cardinality({k \in Keys : InIndex(htab, k)}) + uncounted
    BY DEF EntriesAreHoused
  <2>1. Whole /\ IndexSound /\ htab \in Tables
    BY DEF IInv, WholeInv, SoundInv, Sound, Base, Shape, TypeOK, Tables
  <2>2. \A k \in Keys : InIndex(htab, k) /\ ~EntryOf(htab, k).del =>
          table[EntryOf(htab, k).seg] = "USED"
    BY <2>1, FoundEntry DEF Whole, TableWhole, Housed
  <2>3. keyCounter = Cardinality({k \in Keys : InIndex(htab, k)}) + uncounted
    BY <2>1, CountKeys DEF IndexSound
  <2> QED
    BY <2>2, <2>3
<1> QED
  BY <1>1, <1>2 DEF Consistent

(* Types, and in an open store that nothing has damaged every entry in a   *)
(* segment in use and counted by keyCounter, although closeDB and openDB   *)
(* write and read it while a merge and the reaper go on.                   *)
THEOREM StoreConsistent == Spec => []Consistent
BY AlwaysInv, WholeIsHoused, PTL

(* openDB finds super block and index of different counts only after a     *)
(* reap during the copying of the index, or a crash with changes that were *)
(* not persisted.                                                          *)
THEOREM SoundStoreReopens == Spec => []RefusedOnlyAfter
<1>1. IInv => RefusedOnlyAfter
  BY DEF IInv, Base, Shape, TypeOK, SoundInv, Sound, RefusedOnlyAfter
<1> QED
  BY <1>1, AlwaysInv, PTL

-----------------------------------------------------------------------------
(* The store implements DurableMap. *)

(* What the entries say, when their records are right.                     *)
Shown == [k \in Keys |-> IF phase = "down" /\ disk.valid THEN Seen(DiskTable, k) ELSE Seen(htab, k)]

(* Reading through an entry finds its version if its record is right.      *)
LEMMA ReadRight ==
  ASSUME NEW tab \in Tables, \A e \in Held(tab) : Right(media, e), NEW k \in Keys
  PROVE  VisibleIn(tab, k) = Seen(tab, k)
<1>1. CASE InIndex(tab, k) /\ ~EntryOf(tab, k).del
  <2>1. Right(media, EntryOf(tab, k)) /\ EntryOf(tab, k).key = k
    BY <1>1, FoundEntry
  <2> QED
    BY <1>1, <2>1 DEF VisibleIn, Seen, Right
<1>2. CASE ~(InIndex(tab, k) /\ ~EntryOf(tab, k).del)
  BY <1>2 DEF VisibleIn, Seen
<1> QED
  BY <1>1, <1>2

(* An undamaged store shows what its entries say.                          *)
LEMMA VisibleIsShown == IInv /\ hurt = {} => Visible = Shown /\ Shown \in [Keys -> 0 .. MaxVer]
<1> SUFFICES ASSUME IInv, hurt = {} PROVE Visible = Shown /\ Shown \in [Keys -> 0 .. MaxVer]
  OBVIOUS
<1>1. Whole /\ htab \in Tables /\ disk.counters \in Sizes /\ disk.stream \in Seq(Entries)
  BY DEF IInv, WholeInv, Base, Shape, TypeOK, Tables, DiskRecord
<1>2. DiskTable \in Tables /\ \A e \in Held(DiskTable) : \E n \in 1 .. Len(disk.stream) : disk.stream[n] = e
  BY <1>1, LoadedType DEF DiskTable
<1>3. \A k \in Keys : VisibleIn(htab, k) = Seen(htab, k)
  BY <1>1, ReadRight DEF Whole, TableWhole
<1>4. ASSUME phase = "down" PROVE \A k \in Keys : VisibleIn(DiskTable, k) = Seen(DiskTable, k)
  <2>1. \A e \in Held(DiskTable) : Right(media, e)
    BY <1>1, <1>2, <1>4 DEF Whole, DiskWhole, Indexed, OnDisk
  <2> QED
    BY <1>2, <2>1, ReadRight
<1>5. Visible = Shown
  BY <1>3, <1>4, LoadedIs DEF Visible, Shown, DiskTable
<1>6. ASSUME NEW tab \in Tables, NEW k \in Keys PROVE Seen(tab, k) \in 0 .. MaxVer
  <2>1. CASE InIndex(tab, k)
    <3>1. EntryOf(tab, k) \in Entries
      BY <2>1, FoundEntry
    <3> QED
      BY <3>1, MetaStorAssumption DEF Seen, Entries
  <2>2. CASE ~InIndex(tab, k)
    BY <2>2, MetaStorAssumption DEF Seen
  <2> QED
    BY <2>1, <2>2
<1>7. Shown \in [Keys -> 0 .. MaxVer]
  BY <1>1, <1>2, <1>6 DEF Shown
<1> QED
  BY <1>5, <1>7

(* A write changes what is shown for its key only.                         *)
LEMMA WriteShows ==
  ASSUME IInv, NEW k \in Keys, NEW del \in BOOLEAN, NEW s \in Segs, Write(k, del, s)
  PROVE  Shown' = [Shown EXCEPT ![k] = IF del THEN 0 ELSE ver']
<1>1. PICK e : e = Entry(k, s, ver + 1, del)
  OBVIOUS
<1>2. /\ e \in Entries /\ e.key = k /\ e.ver = ver + 1 /\ e.del = del /\ ver' = ver + 1
      /\ IF del /\ ~InIndex(htab, k) THEN htab' = htab ELSE htab' = PutIn(htab, e)
  BY <1>1, WriteFacts DEF IInv
<1>3. phase = "open" /\ phase' = "open" /\ htab \in Tables
  BY DEF Write, IInv, Base, Shape, TypeOK, Tables
<1>4. ASSUME NEW x \in Keys
      PROVE  Seen(htab', x) = IF x = k THEN (IF del THEN 0 ELSE ver') ELSE Seen(htab, x)
  <2>1. CASE del /\ ~InIndex(htab, k)
    BY <1>2, <2>1 DEF Seen
  <2>2. CASE ~(del /\ ~InIndex(htab, k))
    <3>1. htab' = PutIn(htab, e)
      BY <1>2, <2>2
    <3>2. /\ InIndex(htab', x) <=> x = k \/ InIndex(htab, x)
          /\ EntryOf(htab', k) = e
          /\ x # k /\ InIndex(htab, x) => EntryOf(htab', x) = EntryOf(htab, x)
      BY <1>2, <1>3, <3>1, PutTab
    <3>3. CASE x = k
      BY <1>2, <3>2, <3>3 DEF Seen
    <3>4. CASE x # k
      BY <3>2, <3>4 DEF Seen
    <3> QED
      BY <3>3, <3>4
  <2> QED
    BY <2>1, <2>2
<1>5. Shown = [x \in Keys |-> Seen(htab, x)] /\ Shown' = [x \in Keys |-> Seen(htab', x)]
  BY <1>3 DEF Shown
<1> QED
  BY <1>4, <1>5

(* A step that leaves the lists and the phase alone shows what was shown.  *)
LEMMA SameShown ==
  ASSUME IInv, Up, Up', \A k \in Keys : Seen(htab', k) = Seen(htab, k)
  PROVE  Shown' = Shown
<1>1. phase # "down" /\ phase' # "down"
  BY DEF Up, Closing
<1> QED
  BY <1>1 DEF Shown

(* What a step that damages nothing does to what is shown.                 *)
LEMMA StepShows ==
  ASSUME IInv, Next, hurt' = {}
  PROVE  \/ \E k \in Keys, del \in BOOLEAN, s \in Segs : Write(k, del, s)
         \/ (Up' <=> ~Up) /\ UNCHANGED <<Shown, ver>>
         \/ Up /\ Up' /\ UNCHANGED <<Shown, ver>>
<1>1. CASE CreateKVDS
  <2>1. ~Up /\ Up' /\ ver' = ver /\ htab' = htab /\ phase = "none" /\ phase' = "open"
    BY <1>1 DEF CreateKVDS, Up, Closing, memory
  <2> QED
    BY <2>1 DEF Shown
<1>2. CASE OpenKVDS \/ OpenRefused
  <2>1. phase = "down" /\ hurt = {} /\ ver' = ver
    BY <1>2 DEF OpenKVDS, OpenRefused, history
  <2>2. disk.valid /\ disk.count = Counted(disk.counters, HtSize)
    BY <2>1 DEF IInv, SoundInv, Sound, DiskSound, OnDisk
  <2>3. OpenKVDS
    BY <1>2, <2>2 DEF OpenRefused, Loadable
  <2>4. htab' = DiskTable /\ phase' = "open"
    BY <2>3, LoadedIs DEF OpenKVDS, loadIndex, DiskTable
  <2>5. Shown' = Shown
    BY <2>1, <2>2, <2>4 DEF Shown
  <2> QED
    BY <2>1, <2>4, <2>5 DEF Up, Closing
<1>3. CASE ReapRemove
  <2>1. Up /\ Up' /\ ver' = ver
    BY <1>3 DEF ReapRemove, Up, Closing
  <2>2. Good(htab)
    <3>1. hurt = {}
      BY <1>3 DEF ReapRemove, NotedIn
    <3> QED
      BY <3>1 DEF IInv, SoundInv, Sound, IndexSound
  <2> QED
    BY <1>3, <2>1, <2>2, ReapSeen, SameShown DEF IInv
<1>4. CASE ReapCount \/ MergeWrite \/ MergeFree
           \/ \E from \in SUBSET Segs, t \in Segs : from # {} /\ MergeStart(from, t)
  <2>1. UNCHANGED <<phase, htab, ver, disk>>
    BY <1>4 DEF ReapCount, MergeWrite, MergeFree, MergeStart, history
  <2>2. Up
    <3>1. uncounted = 1 \/ merge.at \in {"write", "index"} \/ phase = "open" \/ Closing
      BY <1>4 DEF ReapCount, MergeWrite, MergeFree, MergeStart
    <3>2. ~Up => uncounted = 0 /\ merge.at = "idle"
      BY DEF IInv, Base, Stopped, NoMerge
    <3> QED
      BY <3>1, <3>2 DEF Up
  <2>3. Up'
    BY <2>1, <2>2 DEF Up, Closing
  <2> QED
    BY <2>1, <2>2, <2>3, SameShown
<1>5. CASE \E k \in Keys : MergeIndex(k)
  <2>1. PICK k \in Keys : MergeIndex(k)
    BY <1>5
  <2>2. Alike(htab, htab') /\ Up /\ htab' \in Tables /\ htab \in Tables
    BY <2>1, MergeIndexFacts DEF IInv, Base, Shape, TypeOK, Tables
  <2>3. phase' = phase /\ ver' = ver
    BY <2>1 DEF MergeIndex, history
  <2>4. Up'
    BY <2>2, <2>3 DEF Up, Closing
  <2> QED
    BY <2>2, <2>3, <2>4, AlikeFacts, SameShown
<1>6. CASE CopyCounters \/ CopySlot \/ WriteIndex \/ UpdateMetaToSB \/ PersistSSTs
           \/ PersistSuperBlock
  <2>1. Up /\ Up'
    BY <1>6 DEF CopyCounters, CopySlot, WriteIndex, UpdateMetaToSB, PersistSSTs,
                PersistSuperBlock, Up, Closing
  <2>2. htab' = htab /\ ver' = ver
    BY <1>6 DEF CopyCounters, CopySlot, WriteIndex, UpdateMetaToSB, PersistSSTs,
                PersistSuperBlock, UnchangedByClose, memory
  <2> QED
    BY <2>1, <2>2, SameShown
<1>7. CASE StopThds \/ Crash
  <2>1. /\ hurt = {} /\ Up /\ ~Up' /\ ver' = ver /\ disk' = disk /\ OnDisk
        /\ phase # "down" /\ phase' = "down"
    BY <1>7 DEF StopThds, Crash, history, Up, Closing, OnDisk
  <2>2. disk.valid /\ Whole
    BY <2>1 DEF IInv, SoundInv, Sound, DiskSound, WholeInv
  <2>3. \A k \in Keys : Seen(DiskTable, k) = Seen(htab, k)
    BY <2>1, <2>2 DEF Whole, SameSeen, Indexed
  <2>4. Shown' = Shown
    BY <2>1, <2>2, <2>3 DEF Shown, DiskTable
  <2> QED
    BY <2>1, <2>4
<1> QED
  BY <1>1, <1>2, <1>3, <1>4, <1>5, <1>6, <1>7 DEF Next

(* The abstract state: while nothing has damaged the store it is what the  *)
(* entries say.                                                            *)
kvBar == IF hurt = {} THEN Visible ELSE [k \in Keys |-> 0]

KvBarFact ==
  /\ kvBar = IF hurt = {} THEN Shown ELSE [k \in Keys |-> 0]
  /\ kvBar \in [Keys -> 0 .. MaxVer]

LEMMA KvBarIs == IInv => KvBarFact
<1>1. [k \in Keys |-> 0] \in [Keys -> 0 .. MaxVer]
  BY MetaStorAssumption
<1> QED
  BY <1>1, VisibleIsShown DEF kvBar, KvBarFact

(* Damage is never undone.                                                 *)
LEMMA HurtGrows == [Next]_vars => hurt \subseteq hurt'
BY DEF Next, vars, history, CreateKVDS, OpenKVDS, OpenRefused, Write, ReapRemove, ReapCount,
       MergeStart, MergeWrite, MergeIndex, MergeFree, CopyCounters, CopySlot, WriteIndex,
       UpdateMetaToSB, PersistSSTs, PersistSuperBlock, StopThds, Crash, NotedIn

(* Every step of an undamaged store is one of the map or leaves it alone;  *)
(* every step after that is Damage.                                        *)
LEMMA StepRefines == IInv /\ IInv' /\ [Next]_vars => [Abstract!Next]_(Abstract!vars)
<1> SUFFICES ASSUME IInv, IInv', [Next]_vars PROVE [Abstract!Next]_(Abstract!vars)
  OBVIOUS
<1>1. KvBarFact /\ KvBarFact'
  BY KvBarIs, PTL
<1>2. hurt \subseteq hurt'
  BY HurtGrows
<1>3. CASE hurt' # {}
  <2>1. ver' \in 0 .. MaxVer /\ kvBar' \in [Keys -> 0 .. MaxVer]
    BY <1>1 DEF IInv, Base, Shape, KvBarFact
  <2>2. Abstract!Damage
    BY <1>3, <2>1 DEF Abstract!Damage, kvBar
  <2> QED
    BY <2>2 DEF Abstract!Next
<1>4. CASE hurt' = {} /\ UNCHANGED vars
  <2>1. kvBar' = kvBar
    BY <1>4 DEF vars, memory, background, history, kvBar, Visible, VisibleIn, Loaded, SlotLoaded,
                Stretch, Before
  <2>2. Up' = Up /\ ver' = ver /\ hurt' = hurt
    BY <1>4 DEF vars, history, Up, Closing
  <2> QED
    BY <2>1, <2>2 DEF Abstract!vars, kvBar, Up
<1>5. CASE hurt' = {} /\ Next
  <2>1. hurt = {} /\ kvBar = Shown /\ kvBar' = Shown'
    BY <1>1, <1>2, <1>5 DEF KvBarFact
  <2>2. CASE \E k \in Keys, del \in BOOLEAN, s \in Segs : Write(k, del, s)
    <3>1. PICK k \in Keys, del \in BOOLEAN, s \in Segs : Write(k, del, s)
      BY <2>2
    <3>2. kvBar' = [kvBar EXCEPT ![k] = IF del THEN 0 ELSE ver']
      BY <2>1, <3>1, WriteShows
    <3>3. phase = "open" /\ phase' = "open" /\ ver < MaxVer /\ ver' = ver + 1
      BY <3>1 DEF Write
    <3>4. Abstract!Write(k, del)
      BY <1>5, <2>1, <3>2, <3>3 DEF Abstract!Write, kvBar
    <3> QED
      BY <2>1, <3>4 DEF Abstract!Next
  <2>3. CASE (Up' <=> ~Up) /\ UNCHANGED <<Shown, ver>>
    <3>1. kvBar' = kvBar
      BY <2>1, <2>3
    <3>2. Abstract!OpenOrClose
      BY <1>5, <2>1, <2>3, <3>1 DEF Abstract!OpenOrClose, kvBar, Up
    <3> QED
      BY <2>1, <3>2 DEF Abstract!Next
  <2>4. CASE Up /\ Up' /\ UNCHANGED <<Shown, ver>>
    <3>1. kvBar' = kvBar
      BY <2>1, <2>4
    <3> QED
      BY <1>5, <2>1, <2>4, <3>1 DEF Abstract!vars, kvBar, Up
  <2> QED
    BY <1>5, <2>2, <2>3, <2>4, StepShows
<1> QED
  BY <1>3, <1>4, <1>5

LEMMA InitRefines == Init => Abstract!Init
<1> SUFFICES ASSUME Init PROVE Abstract!Init
  OBVIOUS
<1>1. IInv
  BY InitBase, InitSound, InitWhole DEF IInv
<1>2. kvBar = Shown /\ phase = "none" /\ ver = 0 /\ hurt = {} /\ htab = EmptyTable
  BY <1>1, KvBarIs DEF Init, KvBarFact
<1>3. Shown = [k \in Keys |-> 0]
  BY <1>2, EmptyFacts DEF Shown, Seen
<1> QED
  BY <1>2, <1>3 DEF Abstract!Init, kvBar, Closing

(* A store that was never closed under a merge or a reap, nor killed with  *)
(* changes that it had not persisted, keeps the last write of every key    *)
(* through any number of closings, openings and merges.                    *)
THEOREM StoreIsDurableMap == Spec => IsDurableMap
BY AlwaysInv, StepRefines, InitRefines, PTL DEF Spec, IsDurableMap, Abstract!Spec

=============================================================================
