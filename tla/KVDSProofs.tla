----------------------------- MODULE KVDSProofs -----------------------------
(***************************************************************************)
(* What holds of the read cache, and of Gets through it, for any keys,     *)
(* values and clients, any sizes of the cache and both policies.           *)
(***************************************************************************)
EXTENDS KVDS, FiniteSetTheorems, SequenceTheorems,
        WellFoundedInduction, TLAPS

-----------------------------------------------------------------------------
(* Numbers: induction goes by the least one that fails, so that no lemma   *)
(* has an operator as its parameter.                                       *)

(* A set of natural numbers that is not empty has a least element.         *)
LEMMA LeastNatural ==
  ASSUME NEW T \in SUBSET Nat, T # {}
  PROVE  \E x \in T : \A y \in T : x <= y
<1> DEFINE R == {ss \in Nat \X Nat : ss[1] < ss[2]}
<1>1. IsWellFoundedOn(R, Nat)
  BY NatLessThanWellFounded DEF OpToRel
<1>2. \E x \in T : \A y \in T : ~(<<y, x>> \in R)
  <2> HIDE DEF R
  <2> QED
    BY <1>1, WFMin
<1>3. PICK x \in T : \A y \in T : ~(<<y, x>> \in R)
  BY <1>2
<1>4. \A y \in T : ~(y < x)
  <2> SUFFICES ASSUME NEW y \in T, y < x PROVE FALSE
    OBVIOUS
  <2>1. <<y, x>> \in R
    OBVIOUS
  <2> QED
    BY <1>3, <2>1
<1> QED
  BY <1>4

(* What holds of 0 and passes from each number to the next holds of all    *)
(* numbers up to n.                                                        *)
LEMMA SetInduction ==
  ASSUME NEW n \in Nat, NEW P, 0 \in P, \A m \in 1 .. n : m - 1 \in P => m \in P
  PROVE  \A m \in 0 .. n : m \in P
<1> SUFFICES ASSUME NEW m \in 0 .. n, m \notin P PROVE FALSE
  OBVIOUS
<1> DEFINE T == {k \in 0 .. n : k \notin P}
<1>1. T \in SUBSET Nat /\ T # {}
  OBVIOUS
<1>2. PICK x \in T : \A y \in T : x <= y
  <2> HIDE DEF T
  <2> QED
    BY <1>1, LeastNatural
<1>3. x \in 1 .. n /\ x - 1 \notin T /\ x - 1 \in 0 .. n
  BY <1>2
<1> QED
  BY <1>2, <1>3

(* A function may be defined by recursion on the numbers up to n: G[k]     *)
(* leads from its value at k - 1 to its value at k.                        *)
Recursion(n, S, c, G) ==
  \E f \in [0 .. n -> S] : f[0] = c /\ \A k \in 1 .. n : f[k] = G[k][f[k - 1]]

StepsOf(n, S) == [1 .. n -> [S -> S]]

(* A list of steps can be applied one after the other: the values they     *)
(* lead through exist.                                                     *)
LEMMA RecursionExists ==
  ASSUME NEW n \in Nat, NEW S, NEW c \in S, NEW G \in StepsOf(n, S)
  PROVE  Recursion(n, S, c, G)
<1> USE DEF Recursion, StepsOf
<1> DEFINE Upto(m) == \E f \in [0 .. m -> S] :
                        f[0] = c /\ \A k \in 1 .. m : f[k] = G[k][f[k - 1]]
           P == {m \in 0 .. n : Upto(m)}
<1>1. Upto(0)
  <2> DEFINE g == [k \in 0 .. 0 |-> c]
  <2>1. g \in [0 .. 0 -> S]
    OBVIOUS
  <2>2. g[0] = c
    OBVIOUS
  <2>3. \A k \in 1 .. 0 : g[k] = G[k][g[k - 1]]
    OBVIOUS
  <2> HIDE DEF g
  <2> QED
    BY <2>1, <2>2, <2>3
<1>2. ASSUME NEW m \in 1 .. n, Upto(m - 1) PROVE Upto(m)
  <2>1. PICK f \in [0 .. m - 1 -> S] :
               f[0] = c /\ \A k \in 1 .. m - 1 : f[k] = G[k][f[k - 1]]
    BY <1>2
  <2> DEFINE last == G[m][f[m - 1]]
             g == [k \in 0 .. m |-> IF k = m THEN last ELSE f[k]]
  <2>2. m \in Nat /\ m > 0 /\ m - 1 \in 0 .. m - 1 /\ last \in S
    OBVIOUS
  <2>3. g \in [0 .. m -> S]
    BY <2>2
  <2>4. g[0] = c
    BY <2>1, <2>2
  <2>5. \A k \in 1 .. m : g[k] = G[k][g[k - 1]]
    BY <2>1, <2>2
  <2> HIDE DEF g
  <2> QED
    BY <2>3, <2>4, <2>5
<1>3. \A m \in 1 .. n : m - 1 \in P => m \in P
  <2> HIDE DEF Upto
  <2> QED
    BY <1>2
<1>4. 0 \in P
  <2> HIDE DEF Upto
  <2> QED
    BY <1>1
<1>5. \A m \in 0 .. n : m \in P
  <2> HIDE DEF P
  <2> QED
    BY <1>3, <1>4, SetInduction
<1>6. Upto(n)
  <2> HIDE DEF Upto
  <2> QED
    BY <1>5
<1> QED
  BY <1>6

-----------------------------------------------------------------------------
(* A list without one of its elements. *)

(* A list without its element at p: one shorter, the later elements one    *)
(* place earlier.                                                          *)
LEMMA CutOut ==
  ASSUME NEW S, NEW s \in Seq(S), NEW p \in DOMAIN s
  PROVE  \A cut : cut = SubSeq(s, 1, p - 1) \o SubSeq(s, p + 1, Len(s)) =>
           /\ cut \in Seq(S) /\ Len(cut) = Len(s) - 1
           /\ \A i \in 1 .. Len(s) - 1 : cut[i] = IF i < p THEN s[i] ELSE s[i + 1]
<1> DEFINE N == Len(s)
           left == SubSeq(s, 1, p - 1)
           right == SubSeq(s, p + 1, N)
           u == left \o right
<1>1. N \in Nat /\ p \in 1 .. N /\ \A i \in 1 .. N : s[i] \in S
  OBVIOUS
<1>2. /\ left \in Seq(S) /\ Len(left) = p - 1
      /\ \A i \in 1 .. p - 1 : left[i] = s[i]
  <2>1. \A i \in 1 .. p - 1 : s[i] \in S
    BY <1>1
  <2> QED
    BY <1>1, <2>1, SubSeqProperties
<1>3. /\ right \in Seq(S) /\ Len(right) = N - p
      /\ \A i \in 1 .. N - p : right[i] = s[p + i]
  <2>1. \A i \in p + 1 .. N : s[i] \in S
    BY <1>1
  <2> QED
    BY <1>1, <2>1, SubSeqProperties
<1> HIDE DEF left, right, N
<1>4. /\ u \in Seq(S) /\ Len(u) = Len(left) + Len(right)
      /\ \A i \in 1 .. Len(left) + Len(right) :
           u[i] = IF i <= Len(left) THEN left[i] ELSE right[i - Len(left)]
  BY <1>2, <1>3, ConcatProperties
<1>5. SubSeq(s, 1, p - 1) \o SubSeq(s, p + 1, Len(s)) = u
  BY DEF left, right, N
<1> HIDE DEF u
<1>6. ASSUME NEW i \in 1 .. N - 1 PROVE u[i] = IF i < p THEN s[i] ELSE s[i + 1]
  <2>0. i \in 1 .. (p - 1) + (N - p)
    BY <1>1
  <2>1. CASE i < p
    <3>1. u[i] = left[i] /\ i \in 1 .. p - 1
      BY <1>1, <1>2, <1>3, <1>4, <2>0, <2>1
    <3> QED
      BY <1>2, <2>1, <3>1
  <2>2. CASE ~(i < p)
    <3>1. i - (p - 1) \in 1 .. N - p /\ p + (i - (p - 1)) = i + 1 /\ ~(i <= p - 1)
      BY <1>1, <2>2
    <3>2. u[i] = right[i - (p - 1)]
      BY <1>2, <1>3, <1>4, <2>0, <3>1
    <3> QED
      BY <1>3, <2>2, <3>1, <3>2
  <2> QED
    BY <2>1, <2>2
<1>7. Len(u) = N - 1
  BY <1>1, <1>2, <1>3, <1>4
<1> QED
  BY <1>4, <1>5, <1>6, <1>7 DEF N

-----------------------------------------------------------------------------
(* Lists of nodes. *)

(* A node taken out of a list.                                             *)
LEMMA Removed ==
  ASSUME NEW S, NEW s \in Seq(S), NEW p \in DOMAIN s
  PROVE  /\ RemoveAt(s, p) \in Seq(S)
         /\ Len(RemoveAt(s, p)) = Len(s) - 1
         /\ \A i \in 1 .. Len(s) - 1 : RemoveAt(s, p)[i] = IF i < p THEN s[i] ELSE s[i + 1]
<1>1. RemoveAt(s, p) = SubSeq(s, 1, p - 1) \o SubSeq(s, p + 1, Len(s))
  BY DEF RemoveAt
<1>2. PICK u : u = SubSeq(s, 1, p - 1) \o SubSeq(s, p + 1, Len(s))
  OBVIOUS
<1>3. /\ u \in Seq(S) /\ Len(u) = Len(s) - 1
      /\ \A i \in 1 .. Len(s) - 1 : u[i] = IF i < p THEN s[i] ELSE s[i + 1]
  BY <1>2, CutOut
<1> QED
  BY Zenon, <1>1, <1>2, <1>3

(* A list on which no key is twice, with its keys and its length.          *)
IsList(list, keys, n) ==
  list \in Seq(Nodes) /\ Distinct(list) /\ KeysOf(list) = keys /\ Len(list) = n

(* A key is held by a list exactly if it is among the list's keys.         *)
LEMMA HeldIsKey ==
  ASSUME NEW list, NEW f
  PROVE  Holds(list, f) <=> f \in KeysOf(list)
BY DEF Holds, KeysOf

(* get of a held key returns a node of the list with that key.             *)
LEMMA Lookup ==
  ASSUME NEW list \in Seq(Nodes), NEW f, Holds(list, f)
  PROVE  /\ PositionOf(list, f) \in DOMAIN list
         /\ NodeOf(list, f) \in Nodes /\ NodeOf(list, f).key = f
<1>1. /\ PositionOf(list, f) \in DOMAIN list
      /\ list[PositionOf(list, f)].key = f
  BY DEF Holds, PositionOf
<1> QED
  BY <1>1 DEF NodeOf

(* detach                                                                  *)
LEMMA WithoutIs ==
  ASSUME NEW list \in Seq(Nodes), Distinct(list), NEW f
  PROVE  IsList(Without(list, f), KeysOf(list) \ {f},
                IF Holds(list, f) THEN Len(list) - 1 ELSE Len(list))
<1>1. CASE ~Holds(list, f)
  <2>1. Without(list, f) = list /\ f \notin KeysOf(list)
    BY <1>1, HeldIsKey DEF Without
  <2> QED
    BY <1>1, <2>1 DEF IsList
<1>2. CASE Holds(list, f)
  <2> DEFINE p == PositionOf(list, f)
             N == Len(list)
             u == RemoveAt(list, p)
  <2>1. p \in 1 .. N /\ list[p].key = f /\ N \in Nat /\ DOMAIN list = 1 .. N
    BY <1>2, Lookup DEF NodeOf
  <2> HIDE DEF p
  <2>2. /\ u \in Seq(Nodes) /\ Len(u) = N - 1
        /\ \A i \in 1 .. N - 1 : u[i] = IF i < p THEN list[i] ELSE list[i + 1]
    <3>1. p \in DOMAIN list
      BY <2>1
    <3> QED
      BY <3>1, Removed
  <2>3. Without(list, f) = u
    BY <1>2 DEF Without, p
  <2> HIDE DEF u
  <2>4. Distinct(u)
    <3> SUFFICES ASSUME NEW i \in 1 .. N - 1, NEW j \in 1 .. N - 1, u[i].key = u[j].key
                 PROVE  i = j
      BY <2>2 DEF Distinct
    <3> DEFINE a == IF i < p THEN i ELSE i + 1
               b == IF j < p THEN j ELSE j + 1
    <3>1. a \in 1 .. N /\ b \in 1 .. N /\ u[i] = list[a] /\ u[j] = list[b]
      BY <2>1, <2>2
    <3>2. a = b
      <4> HIDE DEF a, b
      <4> QED
        BY <2>1, <3>1 DEF Distinct
    <3> QED
      BY <2>1, <3>2
  <2>5. ASSUME NEW k \in KeysOf(u) PROVE k \in KeysOf(list) \ {f}
    <3>1. PICK i \in 1 .. N - 1 : u[i].key = k
      BY <2>2, <2>5 DEF KeysOf
    <3> DEFINE a == IF i < p THEN i ELSE i + 1
    <3>2. a \in 1 .. N /\ u[i] = list[a] /\ a # p
      BY <2>1, <2>2
    <3> HIDE DEF a
    <3>3. k # list[p].key
      BY <2>1, <3>1, <3>2 DEF Distinct
    <3> QED
      BY <2>1, <3>1, <3>2, <3>3 DEF KeysOf
  <2>6. ASSUME NEW k \in KeysOf(list), k # f PROVE k \in KeysOf(u)
    <3>1. PICK j \in 1 .. N : list[j].key = k /\ j # p
      BY <2>1, <2>6 DEF KeysOf
    <3> DEFINE a == IF j < p THEN j ELSE j - 1
    <3>2. a \in 1 .. N - 1 /\ u[a] = list[j]
      BY <2>1, <2>2, <3>1
    <3> HIDE DEF a
    <3> QED
      BY <2>2, <3>1, <3>2 DEF KeysOf
  <2>7. KeysOf(u) = KeysOf(list) \ {f}
    BY <2>5, <2>6
  <2> QED
    BY <1>2, <2>2, <2>3, <2>4, <2>7 DEF IsList
<1> QED
  BY <1>1, <1>2

(* The list without the node next to tail.                                 *)
LEMMA FrontIs ==
  ASSUME NEW list \in Seq(Nodes), Distinct(list), Len(list) > 0
  PROVE  /\ IsList(Front(list), KeysOf(list) \ {Last(list).key}, Len(list) - 1)
         /\ Last(list) \in Nodes /\ Last(list).key \in KeysOf(list)
<1> DEFINE N == Len(list)
           u == Front(list)
<1>1. N \in Nat \ {0} /\ DOMAIN list = 1 .. N /\ \A i \in 1 .. N : list[i] \in Nodes
  OBVIOUS
<1>2. u \in Seq(Nodes) /\ Len(u) = N - 1 /\ \A i \in 1 .. N - 1 : u[i] = list[i]
  <2>1. \A i \in 1 .. N - 1 : list[i] \in Nodes
    BY <1>1
  <2> QED
    BY <1>1, <2>1, SubSeqProperties DEF Front
<1>3. DOMAIN u = 1 .. N - 1
  BY <1>2
<1>4. Last(list) = list[N]
  BY DEF Last
<1> HIDE DEF u, N
<1>5. Distinct(u)
  BY <1>1, <1>2, <1>3 DEF Distinct
<1>6. ASSUME NEW k \in KeysOf(u) PROVE k \in KeysOf(list) \ {list[N].key}
  <2>1. PICK i \in 1 .. N - 1 : list[i].key = k
    BY <1>2, <1>3, <1>6 DEF KeysOf
  <2>2. i \in 1 .. N /\ N \in 1 .. N /\ i # N
    BY <1>1
  <2> QED
    BY <1>1, <2>1, <2>2 DEF KeysOf, Distinct
<1>7. ASSUME NEW k \in KeysOf(list), k # list[N].key PROVE k \in KeysOf(u)
  <2>1. PICK i \in 1 .. N : list[i].key = k
    BY <1>1, <1>7 DEF KeysOf
  <2>2. i \in 1 .. N - 1
    BY <1>1, <1>7, <2>1
  <2> QED
    BY <1>2, <1>3, <2>1, <2>2 DEF KeysOf
<1>8. KeysOf(u) = KeysOf(list) \ {list[N].key}
  BY <1>6, <1>7
<1>9. list[N] \in Nodes /\ list[N].key \in KeysOf(list)
  BY <1>1 DEF KeysOf
<1> QED
  BY <1>2, <1>4, <1>5, <1>8, <1>9 DEF IsList, N, u

(* attach                                                                  *)
LEMMA AttachedIs ==
  ASSUME NEW list \in Seq(Nodes), Distinct(list), NEW node \in Nodes,
         node.key \notin KeysOf(list)
  PROVE  IsList(<<node>> \o list, KeysOf(list) \cup {node.key}, Len(list) + 1)
<1> DEFINE N == Len(list)
           u == <<node>> \o list
<1>1. N \in Nat /\ DOMAIN list = 1 .. N
  OBVIOUS
<1>2. /\ u \in Seq(Nodes) /\ Len(u) = N + 1
      /\ u[1] = node /\ \A i \in 1 .. N : u[i + 1] = list[i]
  <2>1. <<node>> \in Seq(Nodes) /\ Len(<<node>>) = 1 /\ <<node>>[1] = node
    OBVIOUS
  <2> DEFINE s == <<node>>
  <2> HIDE DEF s
  <2>2. /\ s \o list \in Seq(Nodes) /\ Len(s \o list) = Len(s) + Len(list)
        /\ \A i \in 1 .. Len(s) + Len(list) :
             (s \o list)[i] = IF i <= Len(s) THEN s[i] ELSE list[i - Len(s)]
    BY <2>1, ConcatProperties DEF s
  <2>3. u = s \o list /\ Len(s) = 1 /\ s[1] = node
    BY <2>1 DEF s
  <2> HIDE DEF u
  <2> QED
    BY <1>1, <2>2, <2>3
<1>3. DOMAIN u = 1 .. N + 1
  <2> HIDE DEF u
  <2> QED
    BY <1>2
<1> HIDE DEF u, N
<1>4. \A i \in 1 .. N + 1 : i = 1 \/ (i - 1 \in 1 .. N /\ u[i] = list[i - 1])
  <2> SUFFICES ASSUME NEW i \in 1 .. N + 1, i # 1 PROVE i - 1 \in 1 .. N /\ u[i] = list[i - 1]
    OBVIOUS
  <2>1. i - 1 \in 1 .. N /\ (i - 1) + 1 = i
    BY <1>1
  <2> QED
    BY <1>2, <2>1
<1>5. Distinct(u)
  <2> SUFFICES ASSUME NEW i \in 1 .. N + 1, NEW j \in 1 .. N + 1, u[i].key = u[j].key
               PROVE  i = j
    BY <1>3 DEF Distinct
  <2>1. \A n \in 1 .. N : list[n].key # node.key
    BY <1>1 DEF KeysOf
  <2>2. i = 1 <=> j = 1
    BY <1>2, <1>4, <2>1
  <2>3. CASE i # 1 /\ j # 1
    <3>1. i - 1 = j - 1
      BY <1>1, <1>4, <2>3 DEF Distinct
    <3> QED
      BY <1>1, <3>1
  <2> QED
    BY <2>2, <2>3
<1>6. ASSUME NEW k \in KeysOf(u) PROVE k \in KeysOf(list) \cup {node.key}
  <2>1. PICK i \in 1 .. N + 1 : u[i].key = k
    BY <1>3, <1>6 DEF KeysOf
  <2> QED
    BY <1>1, <1>2, <1>4, <2>1 DEF KeysOf
<1>7. ASSUME NEW k \in KeysOf(list) PROVE k \in KeysOf(u)
  <2>1. PICK i \in 1 .. N : list[i].key = k
    BY <1>1, <1>7 DEF KeysOf
  <2>2. i + 1 \in 1 .. N + 1 /\ u[i + 1].key = k
    BY <1>1, <1>2, <2>1
  <2> QED
    BY <1>3, <2>2 DEF KeysOf
<1>8. node.key \in KeysOf(u)
  <2>1. 1 \in 1 .. N + 1
    BY <1>1
  <2> QED
    BY <1>2, <1>3, <2>1 DEF KeysOf
<1>9. KeysOf(u) = KeysOf(list) \cup {node.key}
  BY <1>6, <1>7, <1>8
<1> QED
  BY <1>2, <1>5, <1>9 DEF IsList, N, u

(* The node that was attached last is found.                               *)
LEMMA TouchedIs ==
  ASSUME NEW list \in Seq(Nodes), Distinct(list), NEW f
  PROVE  IsList(Touched(list, f), KeysOf(list), Len(list))
<1>1. CASE ~Holds(list, f)
  BY <1>1 DEF Touched, IsList
<1>2. CASE Holds(list, f)
  <2> DEFINE rest == Without(list, f)
             node == NodeOf(list, f)
  <2>1. IsList(rest, KeysOf(list) \ {f}, Len(list) - 1)
    BY <1>2, WithoutIs
  <2>2. node \in Nodes /\ node.key = f /\ f \in KeysOf(list)
    BY <1>2, Lookup, HeldIsKey
  <2>3. Touched(list, f) = <<node>> \o rest
    BY <1>2 DEF Touched
  <2> HIDE DEF rest, node
  <2>4. /\ rest \in Seq(Nodes) /\ Distinct(rest)
        /\ KeysOf(rest) = KeysOf(list) \ {f} /\ Len(rest) = Len(list) - 1
    BY <2>1 DEF IsList
  <2>5. IsList(<<node>> \o rest, KeysOf(rest) \cup {node.key}, Len(rest) + 1)
    BY <2>2, <2>4, AttachedIs
  <2>6. KeysOf(rest) \cup {node.key} = KeysOf(list) /\ Len(rest) + 1 = Len(list)
    BY <2>2, <2>4
  <2> QED
    BY <2>3, <2>5, <2>6
<1> QED
  BY <1>1, <1>2

KeysPopped(list, size, f) == {n.key : n \in PoppedBy(list, size, f)}

(* Only a list at its size that does not hold the key pops, and it pops    *)
(* its last node.                                                          *)
LEMMA PoppedIs ==
  ASSUME NEW list \in Seq(Nodes), Distinct(list), NEW size \in Nat \ {0}, NEW f
  PROVE  /\ PoppedBy(list, size, f) \subseteq Nodes
         /\ KeysPopped(list, size, f) \subseteq KeysOf(list) \ {f}
         /\ PoppedBy(list, size, f) # {} =>
              /\ ~Holds(list, f) /\ Len(list) > 0
              /\ PoppedBy(list, size, f) = {Last(list)}
         /\ PoppedBy(list, size, f) = {} => Holds(list, f) \/ Len(list) < size
<1>1. CASE ~Holds(list, f) /\ Len(list) >= size
  <2>1. Len(list) > 0
    BY <1>1
  <2>2. Last(list) \in Nodes /\ Last(list).key \in KeysOf(list)
    BY <2>1, FrontIs
  <2>3. f \notin KeysOf(list)
    BY <1>1, HeldIsKey
  <2>4. PoppedBy(list, size, f) = {Last(list)}
    BY <1>1 DEF PoppedBy
  <2> QED
    BY <1>1, <2>1, <2>2, <2>3, <2>4 DEF KeysPopped
<1>2. CASE ~(~Holds(list, f) /\ Len(list) >= size)
  BY <1>2 DEF PoppedBy, KeysPopped
<1> QED
  BY <1>1, <1>2

(* Put leaves the keys that were there, but for the one it took a node     *)
(* from, and the key that was put; the list does not outgrow its size.     *)
LEMMA PutNodeIs ==
  ASSUME NEW list \in Seq(Nodes), Distinct(list), NEW size \in Nat \ {0},
         Len(list) <= size, NEW node \in Nodes, NEW same \in BOOLEAN
  PROVE  /\ PutNode(list, size, node, same) \in Seq(Nodes)
         /\ Distinct(PutNode(list, size, node, same))
         /\ Len(PutNode(list, size, node, same)) <= size
         /\ KeysOf(PutNode(list, size, node, same)) =
              (KeysOf(list) \ KeysPopped(list, size, node.key)) \cup {node.key}
<1> DEFINE out == PoppedBy(list, size, node.key)
           kept == IF out # {} THEN Front(list) ELSE list
           rest == Without(kept, node.key)
<1>1. CASE Holds(list, node.key) /\ same
  <2>1. PutNode(list, size, node, same) = Touched(list, node.key)
    BY <1>1 DEF PutNode
  <2>2. IsList(Touched(list, node.key), KeysOf(list), Len(list))
    BY TouchedIs
  <2>3. KeysPopped(list, size, node.key) = {} /\ node.key \in KeysOf(list)
    BY <1>1, HeldIsKey DEF KeysPopped, PoppedBy
  <2> QED
    BY <2>1, <2>2, <2>3 DEF IsList
<1>2. CASE ~(Holds(list, node.key) /\ same)
  <2>1. PutNode(list, size, node, same) = <<node>> \o rest
    BY <1>2 DEF PutNode
  <2>2. /\ kept \in Seq(Nodes) /\ Distinct(kept)
        /\ KeysOf(kept) = KeysOf(list) \ KeysPopped(list, size, node.key)
        /\ Holds(kept, node.key) \/ Len(kept) < size
        /\ Len(kept) <= size /\ Len(kept) \in Nat
    <3>1. CASE out = {}
      <4>1. KeysPopped(list, size, node.key) = {}
        BY <3>1 DEF KeysPopped
      <4>2. Holds(list, node.key) \/ Len(list) < size
        BY <3>1, PoppedIs
      <4> QED
        BY <3>1, <4>1, <4>2
    <3>2. CASE out # {}
      <4>1. ~Holds(list, node.key) /\ Len(list) > 0 /\ out = {Last(list)}
        BY <3>2, PoppedIs
      <4>2. KeysPopped(list, size, node.key) = {Last(list).key}
        BY <4>1 DEF KeysPopped
      <4>3. IsList(Front(list), KeysOf(list) \ {Last(list).key}, Len(list) - 1)
        BY <4>1, FrontIs
      <4>4. kept = Front(list)
        BY <3>2
      <4> HIDE DEF kept, out
      <4> QED
        BY <4>1, <4>2, <4>3, <4>4 DEF IsList
    <3> QED
      BY <3>1, <3>2
  <2> HIDE DEF kept
  <2>3. IsList(rest, KeysOf(kept) \ {node.key},
               IF Holds(kept, node.key) THEN Len(kept) - 1 ELSE Len(kept))
    BY <2>2, WithoutIs
  <2> HIDE DEF rest
  <2>4. /\ rest \in Seq(Nodes) /\ Distinct(rest)
        /\ KeysOf(rest) = KeysOf(kept) \ {node.key} /\ Len(rest) + 1 <= size
    BY <2>2, <2>3 DEF IsList
  <2>5. IsList(<<node>> \o rest, KeysOf(rest) \cup {node.key}, Len(rest) + 1)
    BY <2>4, AttachedIs
  <2>6. KeysOf(rest) \cup {node.key} =
          (KeysOf(list) \ KeysPopped(list, size, node.key)) \cup {node.key}
    BY <2>2, <2>4
  <2> QED
    BY <2>1, <2>4, <2>5, <2>6 DEF IsList
<1> QED
  BY <1>1, <1>2

-----------------------------------------------------------------------------
(* The two lists of the cache. *)

(* Neither part of an SLRU cache is of size 0.                             *)
LEMMA SizesPositive ==
  ProbationSize \in Nat \ {0} /\ ProtectSize \in Nat \ {0}
<1> DEFINE C == CacheSize
           q == 100 - Percent
           d == (C * q) \div 100
<1>1. C \in Nat /\ q \in 0 .. 100 /\ DefaultSize \in Nat \ {0}
  BY ReadCacheAssumption
<1>2. C * q \in Nat /\ C * q <= C * 100
  <2> HIDE DEF C, q
  <2>1. PICK p \in 0 .. 100 : q + p = 100
    BY <1>1
  <2>2. C * 100 = C * q + C * p
    BY <1>1, <2>1
  <2>3. C * q >= 0 /\ C * p >= 0
    BY <1>1, <2>1
  <2> QED
    BY <1>1, <2>1, <2>2, <2>3
<1>3. d \in Nat /\ d <= C
  <2> DEFINE x == C * q
  <2> HIDE DEF C, q
  <2>1. x \in Nat /\ x <= C * 100
    BY <1>2
  <2> HIDE DEF x
  <2>2. x \div 100 \in Nat /\ x \div 100 <= C
    BY <1>1, <2>1
  <2> QED
    BY <2>2 DEF x
<1>4. Size(C) \in Nat \ {0} /\ Size(d) \in Nat \ {0} /\ Size(C - d) \in Nat \ {0}
  <2> HIDE DEF C, d
  <2> QED
    BY <1>1, <1>3 DEF Size
<1> QED
  BY <1>4 DEF ProbationSize, ProtectSize

(* What holds of the two lists at every step, and within a step of the     *)
(* lists it goes through.                                                  *)
GoodLists(p, q) ==
  /\ p \in Seq(Nodes) /\ q \in Seq(Nodes)
  /\ Len(p) <= ProtectSize /\ Len(q) <= ProbationSize
  /\ Distinct(p) /\ Distinct(q)
  /\ KeysOf(p) \cap KeysOf(q) = {}
  /\ policy = "LRU" => p = <<>>

ListsAre == GoodLists(protect, probation)

(* The list of a new LRUMap.                                               *)
LEMMA EmptyList ==
  /\ <<>> \in Seq(Nodes) /\ Distinct(<<>>) /\ KeysOf(<<>>) = {} /\ Len(<<>>) = 0
  /\ \A f : ~Holds(<<>>, f)
BY DEF Distinct, KeysOf, Holds

(* A hit in probation moves the node to protect; what protect pops goes    *)
(* back, and the lists stay good.                                          *)
LEMMA PromotedIs ==
  ASSUME ListsAre, policy # "LRU", NEW f, Holds(probation, f)
  PROVE  /\ GoodLists(Promoted(f).protect, Promoted(f).probation)
         /\ Holds(Promoted(f).protect, f)
<1> DEFINE node == NodeOf(probation, f)
           rest == Without(probation, f)
           out == PoppedBy(protect, ProtectSize, f)
           p == PutNode(protect, ProtectSize, node, FALSE)
           q == IF out = {} THEN rest
                ELSE PutNode(rest, ProbationSize, CHOOSE n \in out : TRUE, FALSE)
<1>1. /\ protect \in Seq(Nodes) /\ Distinct(protect) /\ Len(protect) <= ProtectSize
      /\ probation \in Seq(Nodes) /\ Distinct(probation) /\ Len(probation) <= ProbationSize
      /\ KeysOf(protect) \cap KeysOf(probation) = {}
      /\ f \in KeysOf(probation) /\ f \notin KeysOf(protect)
      /\ ProtectSize \in Nat \ {0} /\ ProbationSize \in Nat \ {0}
  BY HeldIsKey, SizesPositive DEF ListsAre, GoodLists
<1>2. node \in Nodes /\ node.key = f
  BY <1>1, Lookup
<1>3. Promoted(f).protect = p /\ Promoted(f).probation = q
  BY DEF Promoted
<1> HIDE DEF node
<1>4. /\ p \in Seq(Nodes) /\ Distinct(p) /\ Len(p) <= ProtectSize
      /\ KeysOf(p) = (KeysOf(protect) \ KeysPopped(protect, ProtectSize, f)) \cup {f}
  BY <1>1, <1>2, PutNodeIs
<1>5. /\ rest \in Seq(Nodes) /\ Distinct(rest) /\ KeysOf(rest) = KeysOf(probation) \ {f}
      /\ Len(rest) = Len(probation) - 1
  BY <1>1, WithoutIs DEF IsList
<1>6. /\ out \subseteq Nodes /\ KeysPopped(protect, ProtectSize, f) \subseteq KeysOf(protect)
      /\ out # {} => out = {Last(protect)}
  BY <1>1, PoppedIs
<1> HIDE DEF rest, p
<1>7. /\ q \in Seq(Nodes) /\ Distinct(q) /\ Len(q) <= ProbationSize
      /\ KeysOf(q) \subseteq (KeysOf(probation) \ {f}) \cup KeysPopped(protect, ProtectSize, f)
  <2>1. CASE out = {}
    <3>1. q = rest
      BY <2>1
    <3> HIDE DEF q
    <3> QED
      BY <1>1, <1>5, <3>1
  <2>2. CASE out # {}
    <3> DEFINE n == CHOOSE x \in out : TRUE
    <3>1. n \in out /\ n \in Nodes /\ n.key \in KeysPopped(protect, ProtectSize, f)
      BY <1>6, <2>2 DEF KeysPopped
    <3>2. n.key \in KeysOf(protect) /\ n.key \notin KeysOf(rest)
      BY <1>1, <1>5, <1>6, <3>1
    <3>3. q = PutNode(rest, ProbationSize, n, FALSE)
      BY <2>2
    <3> HIDE DEF n, q
    <3>4. Len(rest) <= ProbationSize
      BY <1>1, <1>5
    <3>5. /\ q \in Seq(Nodes) /\ Distinct(q) /\ Len(q) <= ProbationSize
          /\ KeysOf(q) = (KeysOf(rest) \ KeysPopped(rest, ProbationSize, n.key)) \cup {n.key}
      BY <1>1, <1>5, <3>1, <3>3, <3>4, PutNodeIs
    <3> QED
      BY <1>5, <3>1, <3>5
  <2> QED
    BY <2>1, <2>2
<1> HIDE DEF q
<1>8. KeysOf(p) \cap KeysOf(q) = {}
  <2>1. \A k \in KeysPopped(protect, ProtectSize, f) : k # f
    BY <1>1, <1>6
  <2> QED
    BY <1>1, <1>4, <1>7, <2>1
<1>9. Holds(p, f)
  BY <1>4, HeldIsKey
<1> QED
  BY <1>3, <1>4, <1>7, <1>8, <1>9 DEF GoodLists

(* CacheMap::Get keeps the lists good, and in SLRU leaves a hit in         *)
(* protect.                                                                *)
LEMMA AfterGetIs ==
  ASSUME ListsAre, policy \in {"LRU", "SLRU"}, NEW f
  PROVE  /\ GoodLists(AfterGet(f).protect, AfterGet(f).probation)
         /\ policy = "SLRU" /\ Cached(f) => Holds(AfterGet(f).protect, f)
<1>1. CASE policy = "LRU"
  <2>1. AfterGet(f).protect = protect /\ AfterGet(f).probation = Touched(probation, f)
    BY <1>1 DEF AfterGet
  <2>2. IsList(Touched(probation, f), KeysOf(probation), Len(probation))
    BY TouchedIs DEF ListsAre, GoodLists
  <2> QED
    BY <1>1, <2>1, <2>2 DEF ListsAre, GoodLists, IsList
<1>2. CASE policy = "SLRU" /\ Holds(probation, f)
  <2>1. AfterGet(f) = Promoted(f)
    BY <1>2 DEF AfterGet
  <2> QED
    BY <1>2, <2>1, PromotedIs
<1>3. CASE policy = "SLRU" /\ ~Holds(probation, f)
  <2>1. AfterGet(f).protect = Touched(protect, f) /\ AfterGet(f).probation = probation
    BY <1>3 DEF AfterGet
  <2>2. IsList(Touched(protect, f), KeysOf(protect), Len(protect))
    BY TouchedIs DEF ListsAre, GoodLists
  <2>3. GoodLists(Touched(protect, f), probation)
    BY <1>3, <2>2 DEF ListsAre, GoodLists, IsList
  <2>4. Cached(f) => Holds(Touched(protect, f), f)
    BY <1>3, <2>2, HeldIsKey DEF Cached, IsList
  <2> QED
    BY <2>1, <2>3, <2>4
<1> QED
  BY <1>1, <1>2, <1>3

(* CacheMap::Put keeps the lists good for LRU and for SLRU.                *)
LEMMA CacheMapPutIs ==
  ASSUME ListsAre, policy \in {"LRU", "SLRU"}, policy' = policy,
         NEW v \in Values, NEW same \in BOOLEAN, CacheMapPut(Footprint[v], v, same)
  PROVE  ListsAre'
<1> DEFINE f == Footprint[v]
           node == [key |-> f, data |-> v]
<1>1. node \in Nodes /\ node.key = f
  BY DEF Nodes
<1>2. ProtectSize \in Nat \ {0} /\ ProbationSize \in Nat \ {0}
  BY SizesPositive
<1>3. ProtectSize' = ProtectSize /\ ProbationSize' = ProbationSize
  BY DEF ProtectSize, ProbationSize
<1>4. GoodLists(protect', probation')
  <2>1. CASE policy = "SLRU" /\ Cached(f)
    <3> DEFINE p == AfterGet(f).protect
               q == AfterGet(f).probation
    <3>1. protect' = PutNode(p, ProtectSize, node, same) /\ probation' = q
      BY <2>1 DEF CacheMapPut
    <3>2. GoodLists(p, q) /\ Holds(p, f)
      BY <2>1, AfterGetIs
    <3> HIDE DEF p, q, node
    <3>3. f \in KeysOf(p) /\ KeysPopped(p, ProtectSize, f) \subseteq KeysOf(p)
      BY <1>2, <3>2, HeldIsKey, PoppedIs DEF GoodLists
    <3> HIDE DEF f
    <3>4. /\ protect' \in Seq(Nodes) /\ Distinct(protect') /\ Len(protect') <= ProtectSize
          /\ KeysOf(protect') = (KeysOf(p) \ KeysPopped(p, ProtectSize, f)) \cup {f}
      <4>1. p \in Seq(Nodes) /\ Distinct(p) /\ Len(p) <= ProtectSize
        BY <3>2 DEF GoodLists
      <4> DEFINE n == PutNode(p, ProtectSize, node, same)
      <4>2. /\ n \in Seq(Nodes) /\ Distinct(n) /\ Len(n) <= ProtectSize
            /\ KeysOf(n) = (KeysOf(p) \ KeysPopped(p, ProtectSize, node.key)) \cup {node.key}
        BY <1>1, <1>2, <4>1, PutNodeIs
      <4> HIDE DEF n
      <4> QED
        BY <1>1, <3>1, <4>2 DEF n
    <3> QED
      BY <2>1, <3>1, <3>2, <3>3, <3>4 DEF GoodLists
  <2>2. CASE ~(policy = "SLRU" /\ Cached(f))
    <3>1. probation' = PutNode(probation, ProbationSize, node, same) /\ protect' = protect
      BY <2>2 DEF CacheMapPut
    <3>2. f \notin KeysOf(protect)
      <4>1. CASE policy = "LRU"
        BY <4>1, EmptyList DEF ListsAre, GoodLists
      <4>2. CASE policy = "SLRU"
        BY <2>2, <4>2, HeldIsKey DEF Cached
      <4> QED
        BY <4>1, <4>2
    <3> HIDE DEF node
    <3>3. KeysPopped(probation, ProbationSize, f) \subseteq KeysOf(probation)
      BY <1>2, PoppedIs DEF ListsAre, GoodLists
    <3>4. /\ probation' \in Seq(Nodes) /\ Distinct(probation')
          /\ Len(probation') <= ProbationSize
          /\ KeysOf(probation') =
               (KeysOf(probation) \ KeysPopped(probation, ProbationSize, f)) \cup {f}
      BY <1>1, <1>2, <3>1, PutNodeIs DEF ListsAre, GoodLists
    <3> HIDE DEF f
    <3> QED
      BY <3>1, <3>2, <3>3, <3>4 DEF ListsAre, GoodLists
  <2> QED
    BY <2>1, <2>2
<1> QED
  BY <1>3, <1>4 DEF ListsAre, GoodLists

-----------------------------------------------------------------------------
(* The maps of ReadCache. *)

(* What Put and Get rely on and leave.                                     *)
CacheInv == CacheTypeOK /\ CachedOnce /\ ReferIsInverse /\ OneList

(* The parts of the cache's invariant that speak of the lists.             *)
LEMMA InvLists ==
  ASSUME CacheInv
  PROVE  ListsAre /\ policy \in {"LRU", "SLRU"}
BY ReadCacheAssumption
   DEF CacheInv, CacheTypeOK, CachedOnce, OneList, ListsAre, GoodLists

(* The cache's invariant from its parts after a step.                      *)
LEMMA ListsInv ==
  ASSUME CacheInv, ListsAre', policy' = policy, ReferIsInverse',
         DOMAIN dedup' \subseteq Keys, \A k \in DOMAIN dedup' : dedup'[k] \in Prints
  PROVE  CacheInv'
<1>1. refer' \subseteq Prints \X Keys
  BY DEF ReferIsInverse
<1> QED
  BY <1>1 DEF CacheInv, CacheTypeOK, CachedOnce, OneList, ListsAre, GoodLists

(* What Put makes of dedup_map.                                            *)
OnlyNew(k, v) ==
  /\ DOMAIN dedup' \subseteq DOMAIN dedup \cup {k}
  /\ k \in DOMAIN dedup' /\ dedup'[k] = Footprint[v]
  /\ \A x \in DOMAIN dedup' : x # k => dedup'[x] = dedup[x]

(* ReadCache::Put keeps the cache's invariant and adds no digest but the   *)
(* new one.                                                                *)
LEMMA PutEffect ==
  ASSUME CacheInv, NEW k \in Keys, NEW v \in Values, CachePut(k, v)
  PROVE  CacheInv' /\ OnlyNew(k, v)
<1> DEFINE f == Footprint[v]
<1>1. ListsAre /\ policy \in {"LRU", "SLRU"} /\ policy' = policy
  BY InvLists DEF CachePut
<1>2. refer = {<<dedup[x], x>> : x \in DOMAIN dedup}
  BY DEF CacheInv, ReferIsInverse
<1>3. f \in Prints /\ DOMAIN dedup \subseteq Keys /\ \A x \in DOMAIN dedup : dedup[x] \in Prints
  BY DEF CacheInv, CacheTypeOK, Prints
<1>4. ListsAre' /\ ReferIsInverse' /\ OnlyNew(k, v)
  <2>1. CASE RenewValue(k, v)
    <3>1. ListsAre'
      BY <1>1, <2>1, CacheMapPutIs DEF RenewValue
    <3>2. /\ k \in DOMAIN dedup
          /\ refer' = (refer \ {<<dedup[k], k>>}) \cup {<<f, k>>}
          /\ dedup' = [dedup EXCEPT ![k] = f]
      BY <2>1 DEF RenewValue, ReferRenewed, RenewedDedup
    <3> HIDE DEF f
    <3>3. /\ DOMAIN dedup' = DOMAIN dedup /\ dedup'[k] = f
          /\ \A x \in DOMAIN dedup : x # k => dedup'[x] = dedup[x]
      BY <3>2
    <3>4. ASSUME NEW p \in refer' PROVE p \in {<<dedup'[x], x>> : x \in DOMAIN dedup'}
      BY <1>2, <3>2, <3>3
    <3>5. ASSUME NEW x \in DOMAIN dedup' PROVE <<dedup'[x], x>> \in refer'
      BY <1>2, <3>2, <3>3
    <3>6. ReferIsInverse'
      BY <3>4, <3>5 DEF ReferIsInverse
    <3> QED
      BY <3>1, <3>2, <3>3, <3>6 DEF OnlyNew, f
  <2>2. CASE SameValue(k, v)
    <3>1. ListsAre'
      BY <1>1, <2>2, CacheMapPutIs DEF SameValue
    <3>2. k \in DOMAIN dedup /\ dedup[k] = f /\ dedup' = dedup /\ refer' = refer
      BY <2>2 DEF SameValue
    <3>3. ReferIsInverse'
      BY <1>2, <3>2 DEF ReferIsInverse
    <3> QED
      BY <3>1, <3>2, <3>3 DEF OnlyNew
  <2>3. CASE NewKey(k, v)
    <3> DEFINE out == {n.key : n \in CacheMapPopped(f)}
               left == (DOMAIN dedup \ Forgotten(out)) \cup {k}
    <3>1. ListsAre'
      BY <1>1, <2>3, CacheMapPutIs DEF NewKey
    <3>2. /\ k \notin DOMAIN dedup
          /\ refer' = {p \in refer : p[1] \notin out} \cup {<<f, k>>}
          /\ dedup' = [x \in left |-> IF x = k THEN f ELSE dedup[x]]
      BY <2>3 DEF NewKey
    <3>3. \A x \in DOMAIN dedup : x \in Forgotten(out) <=> dedup[x] \in out
      <4> HIDE DEF out
      <4>1. ASSUME NEW x \in DOMAIN dedup, x \in Forgotten(out) PROVE dedup[x] \in out
        <5>1. PICK p \in refer : p[1] \in out /\ p[2] = x
          BY <4>1 DEF Forgotten
        <5>2. PICK y \in DOMAIN dedup : p = <<dedup[y], y>>
          BY <1>2
        <5> QED
          BY <5>1, <5>2
      <4>2. ASSUME NEW x \in DOMAIN dedup, dedup[x] \in out PROVE x \in Forgotten(out)
        <5> DEFINE p == <<dedup[x], x>>
        <5>1. p \in refer /\ p[1] \in out /\ p[2] = x
          BY <1>2, <4>2
        <5> HIDE DEF p
        <5> QED
          BY <5>1 DEF Forgotten
      <4> QED
        BY <4>1, <4>2
    <3> HIDE DEF f, out
    <3>4. /\ DOMAIN dedup' = left /\ dedup'[k] = f
          /\ \A x \in left : x # k => x \in DOMAIN dedup /\ dedup'[x] = dedup[x]
      BY <3>2
    <3>5. ASSUME NEW p \in refer' PROVE p \in {<<dedup'[x], x>> : x \in DOMAIN dedup'}
      <4>1. CASE p = <<f, k>>
        BY <3>4, <4>1
      <4>2. CASE p # <<f, k>>
        <5>1. PICK x \in DOMAIN dedup : p = <<dedup[x], x>> /\ dedup[x] \notin out
          BY <1>2, <3>2, <4>2
        <5>2. x \in left /\ x # k
          BY <3>2, <3>3, <5>1
        <5> QED
          BY <3>4, <5>1, <5>2
      <4> QED
        BY <4>1, <4>2
    <3>6. ASSUME NEW x \in DOMAIN dedup' PROVE <<dedup'[x], x>> \in refer'
      <4>1. CASE x = k
        BY <3>2, <3>4, <4>1
      <4>2. CASE x # k
        <5>1. x \in DOMAIN dedup /\ dedup'[x] = dedup[x] /\ dedup[x] \notin out
          BY <3>3, <3>4, <4>2
        <5> QED
          BY <1>2, <3>2, <5>1
      <4> QED
        BY <4>1, <4>2
    <3>7. ReferIsInverse'
      BY <3>5, <3>6 DEF ReferIsInverse
    <3> QED
      BY <3>1, <3>4, <3>7 DEF OnlyNew, f
  <2> QED
    BY <2>1, <2>2, <2>3 DEF CachePut
<1>5. DOMAIN dedup' \subseteq Keys /\ \A x \in DOMAIN dedup' : dedup'[x] \in Prints
  BY <1>3, <1>4 DEF OnlyNew
<1> QED
  BY <1>1, <1>4, <1>5, ListsInv

(* ReadCache::Get keeps the cache's invariant; it moves nodes and nothing  *)
(* else.                                                                   *)
LEMMA GetEffect ==
  ASSUME CacheInv, NEW k, CacheGet(k)
  PROVE  CacheInv' /\ UNCHANGED <<policy, dedup, refer>>
<1>1. ListsAre /\ policy \in {"LRU", "SLRU"} /\ UNCHANGED <<policy, dedup, refer>>
  BY InvLists DEF CacheGet
<1>2. ProtectSize' = ProtectSize /\ ProbationSize' = ProbationSize
  BY <1>1 DEF ProtectSize, ProbationSize
<1>3. GoodLists(protect', probation')
  <2>1. CASE k \in DOMAIN dedup
    <3>1. protect' = AfterGet(dedup[k]).protect /\ probation' = AfterGet(dedup[k]).probation
      BY <2>1 DEF CacheGet
    <3> QED
      BY <1>1, <3>1, AfterGetIs
  <2>2. CASE k \notin DOMAIN dedup
    BY <1>1, <2>2 DEF CacheGet, ListsAre
  <2> QED
    BY <2>1, <2>2
<1>4. ListsAre'
  BY <1>1, <1>2, <1>3 DEF ListsAre, GoodLists
<1>5. ReferIsInverse' /\ DOMAIN dedup' \subseteq Keys /\ \A x \in DOMAIN dedup' : dedup'[x] \in Prints
  BY <1>1 DEF CacheInv, CacheTypeOK, ReferIsInverse
<1> QED
  BY <1>1, <1>4, <1>5, ListsInv

(* What is cached under the digest of a value is that value.               *)
LEMMA CachedIs ==
  ASSUME CacheInv, NEW v \in Values, Cached(Footprint[v])
  PROVE  CachedValue(Footprint[v]) = v
<1>1. ASSUME NEW list \in Seq(Nodes), Holds(list, Footprint[v])
      PROVE  NodeOf(list, Footprint[v]).data = v
  <2>1. /\ NodeOf(list, Footprint[v]) \in Nodes
        /\ NodeOf(list, Footprint[v]).key = Footprint[v]
    BY <1>1, Lookup
  <2>2. PICK w \in Values : NodeOf(list, Footprint[v]) = [key |-> Footprint[w], data |-> w]
    BY <2>1 DEF Nodes
  <2>3. Footprint[w] = Footprint[v]
    BY <2>1, <2>2
  <2> QED
    BY <2>2, <2>3, ReadCacheAssumption
<1> QED
  BY <1>1 DEF Cached, CachedValue, CacheInv, CacheTypeOK

-----------------------------------------------------------------------------
(* Batches, and the calls of the clients. *)

Elements == Keys \X Values

(* What a batch leaves for the cache is taken from the batch.              *)
LEMMA ToCacheIs ==
  ASSUME NEW batch \in Seq(Elements)
  PROVE  /\ ToCache(batch) \in Seq(Elements)
         /\ \A n \in DOMAIN ToCache(batch) : \E i \in DOMAIN batch :
              IsEmpty(batch[i]) /\ ToCache(batch)[n] = batch[i]
<1>1. PICK N \in Nat : N = Len(batch) /\ \A k \in 1 .. N : batch[k] \in Elements
  OBVIOUS
<1> DEFINE S == Seq({batch[i] : i \in {j \in 1 .. N : IsEmpty(batch[j])}})
           G == [k \in 1 .. N |-> [l \in S |-> Chosen(l, batch[k])]]
           Body(f) == [m \in 0 .. N |-> IF m = 0 THEN <<>> ELSE Chosen(f[m - 1], batch[m])]
           chosen == CHOOSE f : f = Body(f)
<1>2. /\ G \in [1 .. N -> [S -> S]]
      /\ \A k \in 1 .. N : \A l \in S : G[k][l] = Chosen(l, batch[k])
  <2>1. ASSUME NEW k \in 1 .. N, NEW l \in S PROVE Chosen(l, batch[k]) \in S
    <3> DEFINE T == {batch[i] : i \in {j \in 1 .. N : IsEmpty(batch[j])}}
    <3>1. IsEmpty(batch[k]) => batch[k] \in T
      OBVIOUS
    <3>2. l \in Seq(T)
      OBVIOUS
    <3> HIDE DEF T
    <3>3. Chosen(l, batch[k]) \in Seq(T)
      BY <3>1, <3>2, AppendProperties DEF Chosen
    <3> QED
      BY <3>3 DEF T
  <2> HIDE DEF S
  <2> QED
    BY <2>1
<1>3. PICK c \in S : c = <<>>
  <2>1. <<>> \in S
    OBVIOUS
  <2> HIDE DEF S, G, Body
  <2> QED
    BY <2>1
<1>4. PICK f \in [0 .. N -> S] : f[0] = c /\ \A k \in 1 .. N : f[k] = G[k][f[k - 1]]
  <2>1. G \in StepsOf(N, S)
    <3> HIDE DEF S, G
    <3> QED
      BY <1>2 DEF StepsOf
  <2> HIDE DEF G, S, Body, chosen
  <2>2. Recursion(N, S, c, G)
    BY <2>1, RecursionExists
  <2> QED
    BY <2>2 DEF Recursion
<1>5. \A m \in 0 .. N : f[m] = IF m = 0 THEN c ELSE Chosen(f[m - 1], batch[m])
  <2> HIDE DEF G, S
  <2> SUFFICES ASSUME NEW m \in 1 .. N PROVE f[m] = Chosen(f[m - 1], batch[m])
    BY <1>4
  <2>1. f[m - 1] \in S
    BY <1>4
  <2> QED
    BY <1>2, <1>4, <2>1
<1>6. f = Body(f)
  <2> HIDE DEF G, S
  <2> QED
    BY <1>3, <1>5
<1>7. chosen = Body(chosen)
  <2> HIDE DEF Body
  <2> QED
    BY <1>6
<1>8. ToCache(batch) = chosen[N]
  BY <1>1 DEF ToCache
<1> HIDE DEF chosen
<1>9. chosen[0] = <<>> /\ \A m \in 1 .. N : chosen[m] = Chosen(chosen[m - 1], batch[m])
  BY <1>7
<1> DEFINE P == {m \in 0 .. N : chosen[m] \in S}
<1>10. 0 \in P
  <2> HIDE DEF S, G, Body
  <2> QED
    BY <1>3, <1>9
<1>11. ASSUME NEW m \in 1 .. N, m - 1 \in P PROVE m \in P
  <2>1. chosen[m - 1] \in S
    BY <1>11
  <2>2. Chosen(chosen[m - 1], batch[m]) = G[m][chosen[m - 1]]
    <3> HIDE DEF G, S, Body
    <3> QED
      BY <1>2, <2>1
  <2>3. G[m][chosen[m - 1]] \in S
    <3> HIDE DEF G, S, Body
    <3> QED
      BY <1>2, <2>1
  <2> HIDE DEF G, S, Body
  <2> QED
    BY <1>9, <2>2, <2>3
<1>12. \A m \in 0 .. N : m \in P
  <2> HIDE DEF P, G, Body
  <2> QED
    BY <1>10, <1>11, SetInduction
<1>13. chosen[N] \in S
  <2> HIDE DEF S
  <2> QED
    BY <1>12
<1> DEFINE T == {batch[i] : i \in {j \in 1 .. N : IsEmpty(batch[j])}}
           u == chosen[N]
<1>14. u \in Seq(T)
  BY <1>13
<1>15. T \subseteq Elements /\ \A t \in T : \E i \in 1 .. N : IsEmpty(batch[i]) /\ t = batch[i]
  BY <1>1
<1>16. DOMAIN batch = 1 .. N
  BY <1>1
<1> HIDE DEF T, u, G, Body
<1>17. u \in Seq(Elements) /\ \A n \in DOMAIN u : u[n] \in T
  BY <1>14, <1>15
<1> QED
  BY <1>8, <1>15, <1>16, <1>17 DEF u

(* A key counted once in a batch has one place there, a key not counted    *)
(* none.                                                                   *)
LEMMA CountIs ==
  ASSUME NEW batch \in Seq(Elements), NEW k
  PROVE  /\ CountOf(batch, k) \in Nat
         /\ CountOf(batch, k) = 0 => PlacesOf(batch, k) = {}
         /\ CountOf(batch, k) = 1 => \E i : PlacesOf(batch, k) = {i}
<1>1. IsFiniteSet(DOMAIN batch)
  <2>1. DOMAIN batch = 1 .. Len(batch) /\ Len(batch) \in Nat
    OBVIOUS
  <2> QED
    BY <2>1, FS_Interval
<1>2. IsFiniteSet(PlacesOf(batch, k))
  BY <1>1, FS_Subset DEF PlacesOf
<1>3. /\ CountOf(batch, k) \in Nat
      /\ CountOf(batch, k) = 0 => PlacesOf(batch, k) = {}
  BY <1>2, FS_CardinalityType, FS_EmptySet DEF CountOf
<1>4. CountOf(batch, k) = 1 => \E i : PlacesOf(batch, k) = {i}
  BY <1>2, FS_Singleton DEF CountOf
<1> QED
  BY <1>3, <1>4

(* The last of the elements for a key is one of them.                      *)
LEMMA LastIs ==
  ASSUME NEW batch \in Seq(Elements), NEW k, PlacesOf(batch, k) # {}
  PROVE  LastOf(batch, k) \in PlacesOf(batch, k)
<1> DEFINE N == Len(batch)
           P == PlacesOf(batch, k)
           T == {n \in Nat : \A j \in P : j <= n}
<1>1. N \in Nat /\ P \subseteq 1 .. N
  BY DEF PlacesOf
<1>2. T \subseteq Nat /\ N \in T
  BY <1>1
<1>3. PICK n \in T : \A y \in T : n <= y
  <2> HIDE DEF T
  <2> QED
    BY <1>2, LeastNatural
<1>4. n \in P
  <2> SUFFICES ASSUME n \notin P PROVE FALSE
    OBVIOUS
  <2>1. PICK j \in P : TRUE
    OBVIOUS
  <2> HIDE DEF P
  <2>2. n - 1 \in Nat /\ \A i \in P : i <= n - 1
    <3>1. \A i \in P : i <= n /\ i # n /\ i \in Nat /\ i > 0
      BY <1>1
    <3> QED
      BY <2>1, <3>1
  <2>3. n - 1 \in T
    BY <2>2
  <2> QED
    BY <1>3, <2>3
<1>5. \E i \in P : \A j \in P : j <= i
  BY <1>3, <1>4
<1> HIDE DEF T
<1> QED
  BY <1>5 DEF LastOf

-----------------------------------------------------------------------------
(* The inductive invariant. *)

(* The cache's invariant is a part of the facade's.                        *)
LEMMA InvCache ==
  ASSUME KVDSInv PROVE CacheInv
BY DEF KVDSInv, Consistent, TypeOK, CacheInv

(* A call of the cache by client c that goes to x; the data store stays.   *)
LEMMA CallStep ==
  ASSUME KVDSInv, CacheInv', UNCHANGED <<store, writes>>,
         NEW c \in Clients, NEW x \in Calls, client' = [client EXCEPT ![c] = x],
         lastPut' \in [Keys -> Values \cup {NoResult}],
         x.at = "put" => x.puts # <<>>,
         x.at = "read" \/ x.result # NoResult =>
           x.key \in Keys /\ Answer(store[x.key]) \in x.seen,
         x.result # NoResult /\ WrittenOnce(x.key) => x.result \in x.seen,
         \A k \in Keys : WrittenOnce(k) =>
           \A n \in DOMAIN x.puts :
             x.puts[n][1] = k => store[k] # Empty /\ x.puts[n][2] = store[k],
         DigestOfLast',
         \A k \in Keys : WrittenOnce(k) /\ k \in DOMAIN dedup' =>
           store[k] # Empty /\ lastPut'[k] = store[k]
  PROVE  KVDSInv'
<1>1. client \in [Clients -> Calls]
  BY DEF KVDSInv, Consistent, TypeOK
<1>2. /\ client' \in [Clients -> Calls] /\ client'[c] = x
      /\ \A d \in Clients : d # c => client'[d] = client[d]
  BY <1>1
<1>3. \A k : WrittenOnce(k)' <=> WrittenOnce(k)
  BY DEF WrittenOnce
<1>4. Consistent' /\ OneList'
  <2>1. CacheTypeOK' /\ CachedOnce' /\ ReferIsInverse' /\ OneList'
    BY DEF CacheInv
  <2>2. store' \in [Keys -> Values] /\ writes' \in [Keys -> 0 .. MaxWrites]
    BY DEF KVDSInv, Consistent, TypeOK
  <2> QED
    BY <1>2, <2>1, <2>2 DEF Consistent, TypeOK
<1>5. Noted'
  <2> SUFFICES ASSUME NEW d \in Clients
               PROVE  /\ client'[d].at = "put" => client'[d].puts # <<>>
                      /\ client'[d].at = "read" \/ client'[d].result # NoResult =>
                           /\ client'[d].key \in Keys
                           /\ Answer(store[client'[d].key]) \in client'[d].seen
    BY DEF Noted, Reading, Answered, Answer
  <2>1. CASE d = c
    BY <1>2, <2>1
  <2>2. CASE d # c
    BY <1>2, <2>2 DEF KVDSInv, Noted, Reading, Answered
  <2> QED
    BY <2>1, <2>2
<1>6. WrittenOnceReadsRight'
  <2> SUFFICES ASSUME NEW d \in Clients, client'[d].result # NoResult,
                      WrittenOnce(client'[d].key)
               PROVE  client'[d].result \in client'[d].seen
    BY DEF WrittenOnceReadsRight, Answered, WrittenOnce
  <2>1. CASE d = c
    BY <1>2, <2>1
  <2>2. CASE d # c
    BY <1>2, <2>2 DEF KVDSInv, WrittenOnceReadsRight, Answered
  <2> QED
    BY <2>1, <2>2
<1>7. OneValue'
  <2> SUFFICES ASSUME NEW k \in Keys, WrittenOnce(k)
               PROVE  /\ writes[k] = 0 => store[k] = Empty
                      /\ k \in DOMAIN dedup' => store[k] # Empty /\ lastPut'[k] = store[k]
                      /\ \A d \in Clients : \A n \in DOMAIN client'[d].puts :
                           client'[d].puts[n][1] = k =>
                             store[k] # Empty /\ client'[d].puts[n][2] = store[k]
    BY <1>3 DEF OneValue
  <2>1. writes[k] = 0 => store[k] = Empty
    BY DEF KVDSInv, OneValue
  <2>2. ASSUME NEW d \in Clients, NEW n \in DOMAIN client'[d].puts, client'[d].puts[n][1] = k
        PROVE  store[k] # Empty /\ client'[d].puts[n][2] = store[k]
    <3>1. CASE d = c
      BY <1>2, <2>2, <3>1
    <3>2. CASE d # c
      BY <1>2, <2>2, <3>2 DEF KVDSInv, OneValue
    <3> QED
      BY <3>1, <3>2
  <2> QED
    BY <2>1, <2>2
<1> QED
  BY <1>4, <1>5, <1>6, <1>7 DEF KVDSInv

(* The record of a client that is in no call.                              *)
LEMMA IdleCall ==
  /\ Idle \in Calls /\ Idle.at = "idle" /\ Idle.result = NoResult
  /\ Idle.puts = <<>> /\ DOMAIN Idle.puts = {}
  /\ Idle.key = NoResult /\ Idle.seen = {}
<1>1. Idle.puts = <<>> /\ <<>> \in Seq(Keys \X Values)
  BY DEF Idle
<1> QED
  BY <1>1 DEF Idle, Calls

(* The maps and lastPut, where the cache is not called to Put.             *)
LEMMA SameDigests ==
  ASSUME KVDSInv, UNCHANGED <<dedup, lastPut>>
  PROVE  /\ DigestOfLast' /\ lastPut' \in [Keys -> Values \cup {NoResult}]
         /\ \A k \in Keys : WrittenOnce(k) /\ k \in DOMAIN dedup' =>
              store[k] # Empty /\ lastPut'[k] = store[k]
BY DEF KVDSInv, DigestOfLast, Consistent, TypeOK, OneValue

(* A put of the cache after a write keeps the invariant.                   *)
LEMMA PutNextStep ==
  ASSUME KVDSInv, NEW c \in Clients, PutNext(c)
  PROVE  KVDSInv'
<1> DEFINE puts == client[c].puts
           p == Head(puts)
           x == IF Len(puts) = 1 THEN Idle ELSE [client[c] EXCEPT !.puts = Tail(puts)]
<1>1. /\ client[c].at = "put" /\ CachePut(p[1], p[2])
      /\ lastPut' = [lastPut EXCEPT ![p[1]] = p[2]]
      /\ UNCHANGED <<store, writes>>
  BY DEF PutNext
<1>2. client \in [Clients -> Calls] /\ client[c] \in Calls
  BY DEF KVDSInv, Consistent, TypeOK
<1>3. client' = [client EXCEPT ![c] = x]
  BY DEF PutNext, AfterPut
<1>4. puts \in Seq(Keys \X Values) /\ puts # <<>>
  BY <1>1, <1>2 DEF KVDSInv, Noted, Calls
<1>5. /\ p \in Keys \X Values /\ p = puts[1] /\ 1 \in DOMAIN puts
      /\ Len(puts) # 1 => /\ Tail(puts) \in Seq(Keys \X Values) /\ Tail(puts) # <<>>
                          /\ \A n \in DOMAIN Tail(puts) : n + 1 \in DOMAIN puts
                               /\ Tail(puts)[n] = puts[n + 1]
  <2> DEFINE q == puts
  <2> HIDE DEF q
  <2>1. q \in Seq(Keys \X Values) /\ q # <<>>
    BY <1>4 DEF q
  <2>2. /\ Head(q) \in Keys \X Values /\ Head(q) = q[1] /\ 1 \in DOMAIN q
        /\ Tail(q) \in Seq(Keys \X Values) /\ Len(Tail(q)) = Len(q) - 1
        /\ \A n \in 1 .. Len(q) - 1 : Tail(q)[n] = q[n + 1]
    BY <2>1, HeadTailProperties
  <2>3. Len(q) # 1 => Tail(q) # <<>>
    <3> DEFINE t == Tail(q)
    <3>1. t \in Seq(Keys \X Values) /\ Len(t) = Len(q) - 1 /\ Len(q) \in Nat
      BY <2>1, <2>2
    <3> HIDE DEF t
    <3>2. t = <<>> => Len(q) = 1
      BY <3>1
    <3> QED
      BY <3>2 DEF t
  <2>4. \A n \in DOMAIN Tail(q) : n + 1 \in DOMAIN q /\ Tail(q)[n] = q[n + 1]
    BY <2>1, <2>2
  <2> QED
    BY <2>2, <2>3, <2>4 DEF q
<1> DEFINE k == p[1]
           v == p[2]
<1>6. k \in Keys /\ v \in Values
  BY <1>5
<1>7. CacheInv' /\ OnlyNew(k, v)
  BY <1>1, <1>6, InvCache, PutEffect
<1>8. /\ lastPut \in [Keys -> Values \cup {NoResult}]
      /\ lastPut' \in [Keys -> Values \cup {NoResult}]
      /\ lastPut'[k] = v /\ \A y \in Keys : y # k => lastPut'[y] = lastPut[y]
  <2>1. lastPut \in [Keys -> Values \cup {NoResult}]
    BY DEF KVDSInv, Consistent, TypeOK
  <2>2. lastPut' = [lastPut EXCEPT ![k] = v]
    BY <1>1
  <2> HIDE DEF k, v
  <2> QED
    BY <1>6, <2>1, <2>2
<1>9. WrittenOnce(k) => store[k] # Empty /\ v = store[k]
  BY <1>5, <1>6 DEF KVDSInv, OneValue
<1>10. DOMAIN dedup \subseteq Keys
  BY InvCache DEF CacheInv, CacheTypeOK
<1>11. /\ x \in Calls /\ x.at \in {"idle", "put"}
       /\ x.at = "put" => x.puts # <<>>
       /\ x.result # NoResult => x.result = client[c].result /\ x.key = client[c].key
                                  /\ x.seen = client[c].seen
  <2>1. CASE Len(puts) = 1
    BY <2>1, IdleCall
  <2>2. CASE Len(puts) # 1
    <3> DEFINE t == Tail(puts)
    <3>1. t \in Seq(Keys \X Values) /\ t # <<>>
      BY <1>5, <2>2
    <3>2. x = [client[c] EXCEPT !.puts = t]
      BY <2>2
    <3> HIDE DEF x, t
    <3> QED
      BY <1>1, <1>2, <3>1, <3>2 DEF Calls
  <2> QED
    BY <2>1, <2>2
<1>12. \A n \in DOMAIN x.puts : \E m \in DOMAIN puts : x.puts[n] = puts[m]
  <2>1. CASE Len(puts) = 1
    BY <2>1, IdleCall
  <2>2. CASE Len(puts) # 1
    <3> DEFINE t == Tail(puts)
    <3>1. \A n \in DOMAIN t : n + 1 \in DOMAIN puts /\ t[n] = puts[n + 1]
      BY <1>5, <2>2
    <3>2. x = [client[c] EXCEPT !.puts = t]
      BY <2>2
    <3> HIDE DEF x, t
    <3>3. x.puts = t
      BY <1>2, <3>2 DEF Calls
    <3> QED
      BY <3>1, <3>3
  <2> QED
    BY <2>1, <2>2
<1> HIDE DEF x, k, v, p
<1>13. \A y \in Keys : WrittenOnce(y) =>
         \A n \in DOMAIN x.puts : x.puts[n][1] = y => store[y] # Empty /\ x.puts[n][2] = store[y]
  BY <1>12 DEF KVDSInv, OneValue
<1>14. DigestOfLast'
  <2> SUFFICES ASSUME NEW y \in DOMAIN dedup'
               PROVE  lastPut'[y] \in Values /\ dedup'[y] = Footprint[lastPut'[y]]
    BY DEF DigestOfLast
  <2>1. CASE y = k
    BY <1>6, <1>7, <1>8, <2>1 DEF OnlyNew
  <2>2. CASE y # k
    <3>1. y \in DOMAIN dedup /\ dedup'[y] = dedup[y] /\ lastPut'[y] = lastPut[y]
      BY <1>7, <1>8, <1>10, <2>2 DEF OnlyNew
    <3> QED
      BY <3>1 DEF KVDSInv, DigestOfLast
  <2> QED
    BY <2>1, <2>2
<1>15. ASSUME NEW y \in Keys, WrittenOnce(y), y \in DOMAIN dedup'
       PROVE  store[y] # Empty /\ lastPut'[y] = store[y]
  <2>1. CASE y = k
    BY <1>8, <1>9, <1>15, <2>1
  <2>2. CASE y # k
    <3>1. y \in DOMAIN dedup /\ lastPut'[y] = lastPut[y]
      BY <1>7, <1>8, <1>15, <2>2 DEF OnlyNew
    <3> QED
      BY <1>15, <3>1 DEF KVDSInv, OneValue
  <2> QED
    BY <2>1, <2>2
<1>16. x.at = "read" \/ x.result # NoResult =>
         x.key \in Keys /\ Answer(store[x.key]) \in x.seen
  BY <1>11 DEF KVDSInv, Noted, Reading, Answered
<1>17. x.result # NoResult /\ WrittenOnce(x.key) => x.result \in x.seen
  BY <1>11 DEF KVDSInv, WrittenOnceReadsRight, Answered
<1> QED
  BY <1>1, <1>3, <1>7, <1>8, <1>11, <1>13, <1>14, <1>15, <1>16, <1>17, CallStep

(* A Get that the cache answers keeps the invariant.                       *)
LEMMA GetHitStep ==
  ASSUME KVDSInv, NEW c \in Clients, NEW k \in Keys, GetHit(c, k)
  PROVE  KVDSInv'
<1>1. CacheInv /\ Hit(k) /\ UNCHANGED <<store, writes, lastPut>>
  BY InvCache DEF GetHit
<1>2. CacheInv' /\ UNCHANGED <<policy, dedup, refer>>
  BY <1>1, GetEffect DEF GetHit
<1>3. PICK v \in Values : v = lastPut[k] /\ v = CachedValue(dedup[k])
  <2>1. k \in DOMAIN dedup /\ Cached(dedup[k])
    BY <1>1 DEF Hit
  <2>2. lastPut[k] \in Values /\ dedup[k] = Footprint[lastPut[k]]
    BY <2>1 DEF KVDSInv, DigestOfLast
  <2> QED
    BY <1>1, <2>1, <2>2, CachedIs
<1> DEFINE x == [at |-> "put", key |-> k, puts |-> <<<<k, v>>>>, result |-> v,
                 seen |-> {Answer(store[k])}]
<1>4. client' = [client EXCEPT ![c] = x]
  BY <1>3 DEF GetHit
<1>5. store[k] \in Values /\ Answer(store[k]) \in Values \cup {NotFound}
  BY DEF KVDSInv, Consistent, TypeOK, Answer
<1>6. x \in Calls
  <2>1. <<<<k, v>>>> \in Seq(Keys \X Values)
    OBVIOUS
  <2> QED
    BY <1>5, <2>1 DEF Calls
<1>7. x.at = "put" /\ x.puts # <<>> /\ x.key = k /\ x.result = v
      /\ Answer(store[k]) \in x.seen /\ \A n \in DOMAIN x.puts : x.puts[n] = <<k, v>>
  OBVIOUS
<1>8. WrittenOnce(k) => store[k] # Empty /\ v = store[k]
  BY <1>1, <1>3 DEF Hit, KVDSInv, OneValue
<1>9. WrittenOnce(k) => x.result \in x.seen
  BY <1>8 DEF Answer
<1> HIDE DEF x
<1>10. \A y \in Keys : WrittenOnce(y) =>
         \A n \in DOMAIN x.puts : x.puts[n][1] = y => store[y] # Empty /\ x.puts[n][2] = store[y]
  BY <1>7, <1>8
<1>11. /\ DigestOfLast' /\ lastPut' \in [Keys -> Values \cup {NoResult}]
       /\ \A y \in Keys : WrittenOnce(y) /\ y \in DOMAIN dedup' =>
            store[y] # Empty /\ lastPut'[y] = store[y]
  BY <1>1, <1>2, SameDigests
<1> QED
  BY <1>1, <1>2, <1>4, <1>6, <1>7, <1>9, <1>10, <1>11, CallStep

(* A Get that the cache does not answer keeps the invariant.               *)
LEMMA GetMissStep ==
  ASSUME KVDSInv, NEW c \in Clients, NEW k \in Keys, GetMiss(c, k)
  PROVE  KVDSInv'
<1> DEFINE x == [Idle EXCEPT !.at = "read", !.key = k, !.seen = {Answer(store[k])}]
<1>1. /\ CacheInv /\ UNCHANGED <<store, writes, lastPut>>
      /\ client' = [client EXCEPT ![c] = x]
  BY InvCache DEF GetMiss
<1>2. CacheInv' /\ UNCHANGED <<policy, dedup, refer>>
  BY <1>1, GetEffect DEF GetMiss
<1>3. store[k] \in Values /\ Answer(store[k]) \in Values \cup {NotFound}
  BY DEF KVDSInv, Consistent, TypeOK, Answer
<1>4. /\ x \in Calls /\ x.at = "read" /\ x.key = k /\ x.result = NoResult
      /\ Answer(store[k]) \in x.seen /\ DOMAIN x.puts = {}
  <2> DEFINE i == Idle
             a == Answer(store[k])
  <2>1. i \in Calls /\ i.result = NoResult /\ DOMAIN i.puts = {} /\ a \in Values \cup {NotFound}
    BY <1>3, IdleCall
  <2> HIDE DEF i, a
  <2>2. /\ [i EXCEPT !.at = "read", !.key = k, !.seen = {a}] \in Calls
        /\ [i EXCEPT !.at = "read", !.key = k, !.seen = {a}].at = "read"
        /\ [i EXCEPT !.at = "read", !.key = k, !.seen = {a}].key = k
        /\ [i EXCEPT !.at = "read", !.key = k, !.seen = {a}].seen = {a}
        /\ [i EXCEPT !.at = "read", !.key = k, !.seen = {a}].result = i.result
        /\ [i EXCEPT !.at = "read", !.key = k, !.seen = {a}].puts = i.puts
    BY <2>1 DEF Calls
  <2> QED
    BY <2>1, <2>2 DEF i, a
<1> HIDE DEF x
<1>5. /\ DigestOfLast' /\ lastPut' \in [Keys -> Values \cup {NoResult}]
      /\ \A y \in Keys : WrittenOnce(y) /\ y \in DOMAIN dedup' =>
           store[y] # Empty /\ lastPut'[y] = store[y]
  BY <1>1, <1>2, SameDigests
<1> QED
  BY <1>1, <1>2, <1>4, <1>5, CallStep

(* The calls after which the cache has not changed.                        *)
LEMMA SameCache ==
  ASSUME KVDSInv, UNCHANGED cacheVars
  PROVE  CacheInv'
BY InvCache
   DEF cacheVars, CacheInv, CacheTypeOK, CachedOnce, ReferIsInverse, OneList, ProtectSize,
       ProbationSize

(* The read of the data store keeps the invariant.                         *)
LEMMA ReadStoreStep ==
  ASSUME KVDSInv, NEW c \in Clients, ReadStore(c)
  PROVE  KVDSInv'
<1> DEFINE k == client[c].key
           v == store[k]
           x == IF Found(v)
                THEN [client[c] EXCEPT !.at = "put", !.puts = <<<<k, v>>>>, !.result = v]
                ELSE [client[c] EXCEPT !.at = "return", !.result = NotFound]
<1>1. /\ client[c].at = "read" /\ client' = [client EXCEPT ![c] = x]
      /\ UNCHANGED <<cacheVars, store, writes, lastPut>>
  BY DEF ReadStore
<1>2. CacheInv' /\ UNCHANGED dedup
  BY <1>1, SameCache DEF cacheVars
<1>3. client[c] \in Calls
  BY DEF KVDSInv, Consistent, TypeOK
<1>4. k \in Keys /\ v \in Values /\ Answer(v) \in client[c].seen
  BY <1>1 DEF KVDSInv, Noted, Reading, Consistent, TypeOK
<1>5. /\ x \in Calls /\ x.at \in {"put", "return"} /\ x.key = k /\ x.seen = client[c].seen
      /\ x.result = Answer(v)
      /\ x.at = "put" => x.puts # <<>>
      /\ \A n \in DOMAIN x.puts : x.at = "return" \/ (x.puts[n] = <<k, v>> /\ v # Empty)
  <2>1. CASE Found(v)
    <3>1. x = [client[c] EXCEPT !.at = "put", !.puts = <<<<k, v>>>>, !.result = v]
      BY <2>1
    <3>2. <<<<k, v>>>> \in Seq(Keys \X Values) /\ Answer(v) = v /\ v # Empty
      BY <1>4, <2>1 DEF Found, Answer
    <3> DEFINE ps == <<<<k, v>>>>
    <3>3. ps # <<>> /\ \A n \in DOMAIN ps : ps[n] = <<k, v>>
      OBVIOUS
    <3> HIDE DEF x, ps, k, v
    <3> QED
      BY <1>3, <1>4, <3>1, <3>2, <3>3 DEF Calls, ps, k
  <2>2. CASE ~Found(v)
    <3>1. x = [client[c] EXCEPT !.at = "return", !.result = NotFound]
      BY <2>2
    <3>2. Answer(v) = NotFound
      BY <2>2 DEF Found, Answer
    <3> HIDE DEF x
    <3> QED
      BY <1>3, <1>4, <3>1, <3>2 DEF Calls
  <2> QED
    BY <2>1, <2>2
<1>6. \A n \in DOMAIN x.puts : x.at = "return" => x.puts[n] = client[c].puts[n] /\ n \in DOMAIN client[c].puts
  <2>1. CASE Found(v)
    BY <1>3, <2>1 DEF Calls
  <2>2. CASE ~Found(v)
    <3>1. x = [client[c] EXCEPT !.at = "return", !.result = NotFound]
      BY <2>2
    <3> HIDE DEF x
    <3>2. x.puts = client[c].puts
      BY <1>3, <3>1 DEF Calls
    <3> QED
      BY <3>2
  <2> QED
    BY <2>1, <2>2
<1> HIDE DEF x
<1>7. \A y \in Keys : WrittenOnce(y) =>
        \A n \in DOMAIN x.puts : x.puts[n][1] = y => store[y] # Empty /\ x.puts[n][2] = store[y]
  <2> SUFFICES ASSUME NEW y \in Keys, WrittenOnce(y), NEW n \in DOMAIN x.puts, x.puts[n][1] = y
               PROVE  store[y] # Empty /\ x.puts[n][2] = store[y]
    OBVIOUS
  <2>1. CASE x.at = "return"
    BY <1>6, <2>1 DEF KVDSInv, OneValue
  <2>2. CASE x.at # "return"
    BY <1>5, <2>2
  <2> QED
    BY <2>1, <2>2
<1>8. /\ DigestOfLast' /\ lastPut' \in [Keys -> Values \cup {NoResult}]
      /\ \A y \in Keys : WrittenOnce(y) /\ y \in DOMAIN dedup' =>
           store[y] # Empty /\ lastPut'[y] = store[y]
  BY <1>1, <1>2, SameDigests
<1> QED
  BY <1>1, <1>2, <1>4, <1>5, <1>7, <1>8, CallStep

(* A return to the client keeps the invariant.                             *)
LEMMA ReturnStep ==
  ASSUME KVDSInv, NEW c \in Clients, Return(c)
  PROVE  KVDSInv'
<1>1. client' = [client EXCEPT ![c] = Idle] /\ UNCHANGED <<cacheVars, store, writes, lastPut>>
  BY DEF Return
<1>2. CacheInv' /\ UNCHANGED dedup
  BY <1>1, SameCache DEF cacheVars
<1>3. /\ DigestOfLast' /\ lastPut' \in [Keys -> Values \cup {NoResult}]
      /\ \A y \in Keys : WrittenOnce(y) /\ y \in DOMAIN dedup' =>
           store[y] # Empty /\ lastPut'[y] = store[y]
  BY <1>1, <1>2, SameDigests
<1> QED
  BY <1>1, <1>2, <1>3, IdleCall, CallStep

(* What a batch makes of the store and of the number of writes of a key.   *)
LEMMA WriteEffect ==
  ASSUME KVDSInv, NEW c \in Clients, NEW batch \in Seq(Elements), Write(c, batch),
         NEW k \in Keys
  PROVE  /\ store'[k] \in Values /\ writes'[k] \in 0 .. MaxWrites
         /\ PlacesOf(batch, k) = {} => store'[k] = store[k] /\ writes'[k] = writes[k]
         /\ WrittenOnce(k)' => WrittenOnce(k)
         /\ WrittenOnce(k)' /\ PlacesOf(batch, k) # {} =>
              /\ writes[k] = 0 /\ writes'[k] = 1
              /\ \A i \in PlacesOf(batch, k) : batch[i][2] = store'[k]
              /\ store'[k] # Empty
<1>1. writes[k] \in Nat /\ store[k] \in Values
  BY KVDSAssumption DEF KVDSInv, Consistent, TypeOK
<1>2. /\ writes'[k] = writes[k] + CountOf(batch, k) /\ writes'[k] <= MaxWrites
      /\ store'[k] = IF PlacesOf(batch, k) = {} THEN store[k] ELSE batch[LastOf(batch, k)][2]
  BY DEF Write
<1>3. /\ CountOf(batch, k) \in Nat
      /\ CountOf(batch, k) = 0 => PlacesOf(batch, k) = {}
      /\ CountOf(batch, k) = 1 => \E i : PlacesOf(batch, k) = {i}
  BY CountIs
<1>4. writes'[k] \in 0 .. MaxWrites
  BY <1>1, <1>2, <1>3, KVDSAssumption
<1>5. PlacesOf(batch, k) = {} => CountOf(batch, k) = 0
  BY FS_EmptySet DEF CountOf
<1>6. CASE PlacesOf(batch, k) = {}
  BY <1>1, <1>2, <1>4, <1>5, <1>6 DEF WrittenOnce
<1>7. CASE PlacesOf(batch, k) # {}
  <2>1. LastOf(batch, k) \in PlacesOf(batch, k)
    BY <1>7, LastIs
  <2>2. LastOf(batch, k) \in DOMAIN batch
    BY <2>1 DEF PlacesOf
  <2>3. store'[k] = batch[LastOf(batch, k)][2] /\ batch[LastOf(batch, k)] \in Elements
    BY <1>2, <1>7, <2>2
  <2>4. store'[k] \in Values
    BY <2>3 DEF Elements
  <2>5. CountOf(batch, k) > 0
    BY <1>3, <1>7
  <2>6. ASSUME WrittenOnce(k)'
        PROVE  /\ writes[k] = 0 /\ writes'[k] = 1 /\ store'[k] # Empty
               /\ \A i \in PlacesOf(batch, k) : batch[i][2] = store'[k]
    <3>1. writes'[k] = 0 \/ (writes'[k] = 1 /\ store'[k] # Empty)
      BY <2>6 DEF WrittenOnce
    <3>2. writes[k] = 0 /\ CountOf(batch, k) = 1 /\ writes'[k] = 1 /\ store'[k] # Empty
      BY <1>1, <1>2, <1>3, <2>5, <3>1
    <3>3. \A i \in PlacesOf(batch, k) : i = LastOf(batch, k)
      BY <1>3, <2>1, <3>2
    <3> QED
      BY <2>3, <3>2, <3>3
  <2> QED
    BY <1>4, <1>7, <2>4, <2>6 DEF WrittenOnce
<1> QED
  BY <1>6, <1>7

(* The write of a batch to the data store keeps the invariant.             *)
LEMMA WriteStep ==
  ASSUME KVDSInv, NEW c \in Clients, NEW batch \in Batches, Write(c, batch)
  PROVE  KVDSInv'
<1> DEFINE x == IF ToCache(batch) = <<>> THEN Idle
                ELSE [Idle EXCEPT !.at = "put", !.puts = ToCache(batch)]
<1>1. batch \in Seq(Elements)
  BY DEF Batches, Elements
<1>2. /\ UNCHANGED <<cacheVars, lastPut>>
      /\ client' = [d \in Clients |-> IF d # c THEN Watched(d, store') ELSE x]
      /\ writes' = [k \in Keys |-> writes[k] + CountOf(batch, k)]
      /\ store' = [k \in Keys |-> IF PlacesOf(batch, k) = {} THEN store[k]
                                  ELSE batch[LastOf(batch, k)][2]]
  BY DEF Write
<1>3. CacheInv' /\ UNCHANGED dedup
  BY <1>2, SameCache DEF cacheVars
<1>4. store' \in [Keys -> Values] /\ writes' \in [Keys -> 0 .. MaxWrites]
  <2>1. \A k \in Keys : store'[k] \in Values /\ writes'[k] \in 0 .. MaxWrites
    BY <1>1, WriteEffect
  <2>2. /\ DOMAIN store' = Keys /\ store' = [k \in Keys |-> store'[k]]
        /\ DOMAIN writes' = Keys /\ writes' = [k \in Keys |-> writes'[k]]
    BY <1>2
  <2> QED
    BY <2>1, <2>2
<1>5. \A d \in Clients : client[d] \in Calls
  BY DEF KVDSInv, Consistent, TypeOK
<1>6. ASSUME NEW d \in Clients, d # c
      PROVE  /\ client'[d] \in Calls
             /\ client'[d].at = client[d].at /\ client'[d].key = client[d].key
             /\ client'[d].puts = client[d].puts /\ client'[d].result = client[d].result
             /\ client[d].seen \subseteq client'[d].seen
             /\ client[d].key \in Keys => Answer(store'[client[d].key]) \in client'[d].seen
  <2>1. client'[d] = Watched(d, store')
    BY <1>2, <1>6
  <2>2. CASE client[d].key \in Keys
    <3> DEFINE a == Answer(store'[client[d].key])
               s == client[d].seen \cup {a}
    <3>1. a \in Values \cup {NotFound}
      BY <1>4, <2>2 DEF Answer
    <3>2. client[d].seen \subseteq Values \cup {NotFound}
      BY <1>5 DEF Calls
    <3>3. client'[d] = [client[d] EXCEPT !.seen = s]
      BY <2>1, <2>2 DEF Watched
    <3>4. s \in SUBSET (Values \cup {NotFound}) /\ client[d].seen \subseteq s /\ a \in s
      BY <3>1, <3>2
    <3> HIDE DEF s
    <3>5. /\ client'[d] \in Calls /\ client'[d].seen = s
          /\ client'[d].at = client[d].at /\ client'[d].key = client[d].key
          /\ client'[d].puts = client[d].puts /\ client'[d].result = client[d].result
      BY <1>5, <3>3, <3>4 DEF Calls
    <3> QED
      BY <3>4, <3>5
  <2>3. CASE client[d].key \notin Keys
    BY <1>5, <2>1, <2>3 DEF Watched
  <2> QED
    BY <2>2, <2>3
<1>7. /\ client'[c] = x /\ x \in Calls /\ x.result = NoResult /\ x.at \in {"idle", "put"}
      /\ x.at = "put" => x.puts # <<>>
      /\ \A n \in DOMAIN x.puts : \E i \in DOMAIN batch :
           batch[i][2] = Empty /\ x.puts[n] = batch[i]
  <2>1. client'[c] = x
    BY <1>2
  <2>2. /\ ToCache(batch) \in Seq(Elements)
        /\ \A n \in DOMAIN ToCache(batch) : \E i \in DOMAIN batch :
             batch[i][2] = Empty /\ ToCache(batch)[n] = batch[i]
    BY <1>1, ToCacheIs DEF IsEmpty
  <2>3. CASE ToCache(batch) = <<>>
    BY <2>1, <2>3, IdleCall
  <2>4. CASE ToCache(batch) # <<>>
    <3> DEFINE i == Idle
               t == ToCache(batch)
    <3>1. x = [i EXCEPT !.at = "put", !.puts = t]
      BY <2>4
    <3>2. i \in Calls /\ i.result = NoResult /\ t \in Seq(Keys \X Values)
      BY <2>2, IdleCall DEF Elements
    <3> HIDE DEF i, t, x
    <3>3. x \in Calls /\ x.result = NoResult /\ x.at = "put" /\ x.puts = t
      BY <3>1, <3>2 DEF Calls
    <3>4. t # <<>>
      BY <2>4 DEF t
    <3>5. \A n \in DOMAIN t : \E j \in DOMAIN batch : batch[j][2] = Empty /\ t[n] = batch[j]
      BY <2>2 DEF t
    <3> QED
      BY <2>1, <3>3, <3>4, <3>5
  <2> QED
    BY <2>3, <2>4
<1> HIDE DEF x
<1>8. client' \in [Clients -> Calls]
  <2>1. \A d \in Clients : client'[d] \in Calls
    BY <1>6, <1>7
  <2>2. DOMAIN client' = Clients /\ client' = [d \in Clients |-> client'[d]]
    BY <1>2
  <2> QED
    BY <2>1, <2>2
<1>9. Consistent' /\ OneList' /\ DigestOfLast'
  <2>1. CacheTypeOK' /\ CachedOnce' /\ ReferIsInverse' /\ OneList'
    BY <1>3 DEF CacheInv
  <2>2. lastPut' \in [Keys -> Values \cup {NoResult}] /\ DigestOfLast'
    BY <1>2, <1>3 DEF KVDSInv, Consistent, TypeOK, DigestOfLast
  <2> QED
    BY <1>4, <1>8, <2>1, <2>2 DEF Consistent, TypeOK
<1>10. Noted'
  <2> SUFFICES ASSUME NEW d \in Clients
               PROVE  /\ client'[d].at = "put" => client'[d].puts # <<>>
                      /\ client'[d].at = "read" \/ client'[d].result # NoResult =>
                           /\ client'[d].key \in Keys
                           /\ Answer(store'[client'[d].key]) \in client'[d].seen
    BY DEF Noted, Reading, Answered, Answer
  <2>1. CASE d = c
    BY <1>7, <2>1
  <2>2. CASE d # c
    BY <1>6, <2>2 DEF KVDSInv, Noted, Reading, Answered
  <2> QED
    BY <2>1, <2>2
<1>11. WrittenOnceReadsRight'
  <2> SUFFICES ASSUME NEW d \in Clients, client'[d].result # NoResult,
                      WrittenOnce(client[d].key)'
               PROVE  client'[d].result \in client'[d].seen
    BY DEF WrittenOnceReadsRight, Answered
  <2>1. d # c
    BY <1>7
  <2>2. client[d].result # NoResult /\ client[d].key \in Keys
    BY <1>6, <2>1 DEF KVDSInv, Noted, Reading, Answered
  <2>3. PICK k \in Keys : k = client[d].key /\ k = client'[d].key
    BY <1>6, <2>1, <2>2
  <2>4. WrittenOnce(k)'
    BY <2>3 DEF WrittenOnce
  <2>5. WrittenOnce(k)
    BY <1>1, <2>4, WriteEffect
  <2>6. client[d].result \in client[d].seen
    BY <2>2, <2>3, <2>5 DEF KVDSInv, WrittenOnceReadsRight, Answered
  <2> QED
    BY <1>6, <2>1, <2>6
<1>12. OneValue'
  <2> SUFFICES ASSUME NEW k \in Keys, WrittenOnce(k)'
               PROVE  /\ writes'[k] = 0 => store'[k] = Empty
                      /\ k \in DOMAIN dedup => store'[k] # Empty /\ lastPut[k] = store'[k]
                      /\ \A d \in Clients : \A n \in DOMAIN client'[d].puts :
                           client'[d].puts[n][1] = k =>
                             store'[k] # Empty /\ client'[d].puts[n][2] = store'[k]
    BY <1>2, <1>3 DEF OneValue
  <2>1. /\ PlacesOf(batch, k) = {} => store'[k] = store[k] /\ writes'[k] = writes[k]
        /\ WrittenOnce(k)
        /\ PlacesOf(batch, k) # {} =>
              /\ writes[k] = 0 /\ writes'[k] = 1
              /\ \A i \in PlacesOf(batch, k) : batch[i][2] = store'[k]
              /\ store'[k] # Empty
    BY <1>1, WriteEffect
  <2>2. /\ writes[k] = 0 => store[k] = Empty
        /\ k \in DOMAIN dedup => store[k] # Empty /\ lastPut[k] = store[k]
        /\ \A d \in Clients : \A n \in DOMAIN client[d].puts :
             client[d].puts[n][1] = k => store[k] # Empty /\ client[d].puts[n][2] = store[k]
    BY <2>1 DEF KVDSInv, OneValue
  <2>3. /\ writes'[k] = 0 => store'[k] = Empty
        /\ k \in DOMAIN dedup => store'[k] # Empty /\ lastPut[k] = store'[k]
    BY <2>1, <2>2
  <2>4. ASSUME NEW d \in Clients, NEW n \in DOMAIN client'[d].puts, client'[d].puts[n][1] = k
        PROVE  store'[k] # Empty /\ client'[d].puts[n][2] = store'[k]
    <3>1. CASE d = c
      <4>1. PICK i \in DOMAIN batch : batch[i][2] = Empty /\ client'[c].puts[n] = batch[i]
        BY <1>7, <2>4, <3>1
      <4>2. i \in PlacesOf(batch, k)
        BY <2>4, <3>1, <4>1 DEF PlacesOf
      <4> QED
        BY <2>1, <4>1, <4>2
    <3>2. CASE d # c
      <4>1. client'[d].puts = client[d].puts
        BY <1>6, <3>2
      <4>2. store[k] # Empty /\ client[d].puts[n][2] = store[k]
        BY <2>2, <2>4, <4>1
      <4> QED
        BY <2>1, <2>2, <4>1, <4>2
    <3> QED
      BY <3>1, <3>2
  <2> QED
    BY <2>3, <2>4
<1> QED
  BY <1>9, <1>10, <1>11, <1>12 DEF KVDSInv

(* The opened store, with an empty cache, satisfies the invariant.         *)
LEMMA InitInv ==
  ASSUME Init PROVE KVDSInv
<1>1. CacheInv
  <2>1. ProbationSize \in Nat \ {0} /\ ProtectSize \in Nat \ {0}
    BY SizesPositive
  <2>2. /\ policy \in Policies /\ protect = <<>> /\ probation = <<>>
        /\ DOMAIN dedup = {} /\ refer = {}
    BY DEF Init, CacheInit
  <2>3. CacheTypeOK /\ OneList
    BY <2>2, EmptyList DEF CacheTypeOK, OneList
  <2>4. CachedOnce
    BY <2>1, <2>2, EmptyList DEF CachedOnce
  <2>5. ReferIsInverse
    BY <2>2 DEF ReferIsInverse
  <2> QED
    BY <2>3, <2>4, <2>5 DEF CacheInv
<1>2. /\ store = [k \in Keys |-> Empty] /\ client = [c \in Clients |-> Idle]
      /\ writes = [k \in Keys |-> 0] /\ lastPut = [k \in Keys |-> NoResult] /\ DOMAIN dedup = {}
  BY DEF Init, CacheInit
<1>3. Consistent
  <2>1. /\ store \in [Keys -> Values] /\ client \in [Clients -> Calls]
        /\ writes \in [Keys -> 0 .. MaxWrites] /\ lastPut \in [Keys -> Values \cup {NoResult}]
    BY <1>2, IdleCall, KVDSAssumption
  <2> QED
    BY <1>1, <2>1 DEF CacheInv, Consistent, TypeOK
<1>4. Noted /\ WrittenOnceReadsRight
  BY <1>2, IdleCall DEF Noted, Reading, WrittenOnceReadsRight, Answered
<1>5. OneValue /\ DigestOfLast
  BY <1>2, IdleCall DEF OneValue, DigestOfLast
<1> QED
  BY <1>1, <1>3, <1>4, <1>5 DEF KVDSInv, CacheInv

(* KVDSInv is inductive: the maps of the cache, what was last Put, what is *)
(* on its way to the cache for a key written once, and what readers saw.   *)
THEOREM CacheInvariant == Spec => []KVDSInv
<1>1. Init => KVDSInv
  BY InitInv
<1>2. KVDSInv /\ [Next]_vars => KVDSInv'
  <2> SUFFICES ASSUME KVDSInv, [Next]_vars PROVE KVDSInv'
    OBVIOUS
  <2>1. CASE UNCHANGED vars
    <3>1. CacheInv'
      BY <2>1, SameCache DEF vars
    <3>2. /\ Noted' /\ WrittenOnceReadsRight'
      BY <2>1 DEF vars, KVDSInv, Noted, Reading, Answered, Answer, WrittenOnceReadsRight,
                  WrittenOnce
    <3>3. OneValue' /\ DigestOfLast'
      BY <2>1 DEF vars, cacheVars, KVDSInv, OneValue, WrittenOnce, DigestOfLast
    <3>4. /\ store' \in [Keys -> Values] /\ client' \in [Clients -> Calls]
          /\ writes' \in [Keys -> 0 .. MaxWrites] /\ lastPut' \in [Keys -> Values \cup {NoResult}]
      BY <2>1 DEF vars, KVDSInv, Consistent, TypeOK
    <3> QED
      BY <3>1, <3>2, <3>3, <3>4 DEF KVDSInv, CacheInv, Consistent, TypeOK
  <2>2. ASSUME NEW c \in Clients, NEW batch \in Batches, Write(c, batch) PROVE KVDSInv'
    BY <2>2, WriteStep
  <2>3. ASSUME NEW c \in Clients, PutNext(c) PROVE KVDSInv'
    BY <2>3, PutNextStep
  <2>4. ASSUME NEW c \in Clients, NEW k \in Keys, GetHit(c, k) PROVE KVDSInv'
    BY <2>4, GetHitStep
  <2>5. ASSUME NEW c \in Clients, NEW k \in Keys, GetMiss(c, k) PROVE KVDSInv'
    BY <2>5, GetMissStep
  <2>6. ASSUME NEW c \in Clients, ReadStore(c) PROVE KVDSInv'
    BY <2>6, ReadStoreStep
  <2>7. ASSUME NEW c \in Clients, Return(c) PROVE KVDSInv'
    BY <2>7, ReturnStep
  <2> QED
    BY <2>1, <2>2, <2>3, <2>4, <2>5, <2>6, <2>7 DEF Next
<1> QED
  BY <1>1, <1>2, PTL DEF Spec

(* Types; dedup_map and refer_map are inverse to each other; a value is in *)
(* one list of the cache, once, and the lists keep to their sizes.         *)
THEOREM CacheConsistent == Spec => []Consistent
<1>1. KVDSInv => Consistent
  BY DEF KVDSInv
<1> QED
  BY <1>1, CacheInvariant, PTL

(* A hit of ReadCache::Get is the value its key was last Put with.         *)
THEOREM HitsAreRight == Spec => []HitIsLastPut
<1>1. KVDSInv => HitIsLastPut
  <2> SUFFICES ASSUME KVDSInv, NEW k \in Keys, Hit(k)
               PROVE  CachedValue(dedup[k]) = lastPut[k]
    BY DEF HitIsLastPut
  <2>1. k \in DOMAIN dedup /\ Cached(dedup[k])
    BY DEF Hit
  <2>2. lastPut[k] \in Values /\ dedup[k] = Footprint[lastPut[k]]
    BY <2>1 DEF KVDSInv, DigestOfLast
  <2> QED
    BY <2>1, <2>2, InvCache, CachedIs
<1> QED
  BY <1>1, CacheInvariant, PTL

(* KVDS::Get of a key that was written at most once, and not deleted, is   *)
(* right, however writes and the Puts of Gets are interleaved.             *)
THEOREM GetsAreRight == Spec => []WrittenOnceReadsRight
<1>1. KVDSInv => WrittenOnceReadsRight
  BY DEF KVDSInv
<1> QED
  BY <1>1, CacheInvariant, PTL
=============================================================================
