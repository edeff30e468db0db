------------------------- MODULE WritePipelineProofs -------------------------
(***************************************************************************)
(* What holds of WritePipeline for any finite set of requests and shards,  *)
(* any segment writers and any size of the segments.                       *)
(***************************************************************************)
EXTENDS WritePipeline, FiniteSetTheorems, SequenceTheorems,
        WellFoundedInduction, TLAPS

-----------------------------------------------------------------------------
(* Numbers: induction goes by the least one that fails, so that no lemma   *)
(* has an operator as its parameter.                                       *)

(* A set of natural numbers that is not empty has a least element.         *)
LEMMA LeastNatural ==
  ASSUME NEW T \in SUBSET Nat, T # {}
  PROVE  \E x \in T : \A y \in T : x <= y
<1> DEFINE R == {ss \in Nat \X Nat : ss[1] < ss[2]}
<1>1. IsWellFoundedOn(R, Nat)
  BY NatLessThanWellFounded DEF OpToRel
<1>2. \E x \in T : \A y \in T : ~(<<y, x>> \in R)
  <2> HIDE DEF R
  <2> QED
    BY <1>1, WFMin
<1>3. PICK x \in T : \A y \in T : ~(<<y, x>> \in R)
  BY <1>2
<1>4. \A y \in T : ~(y < x)
  <2> SUFFICES ASSUME NEW y \in T, y < x PROVE FALSE
    OBVIOUS
  <2>1. <<y, x>> \in R
    OBVIOUS
  <2> QED
    BY <1>3, <2>1
<1> QED
  BY <1>4

(* What holds of 0 and passes from each number to the next holds of all    *)
(* numbers up to n.                                                        *)
LEMMA SetInduction ==
  ASSUME NEW n \in Nat, NEW P, 0 \in P, \A m \in 1 .. n : m - 1 \in P => m \in P
  PROVE  \A m \in 0 .. n : m \in P
<1> SUFFICES ASSUME NEW m \in 0 .. n, m \notin P PROVE FALSE
  OBVIOUS
<1> DEFINE T == {k \in 0 .. n : k \notin P}
<1>1. T \in SUBSET Nat /\ T # {}
  OBVIOUS
<1>2. PICK x \in T : \A y \in T : x <= y
  <2> HIDE DEF T
  <2> QED
    BY <1>1, LeastNatural
<1>3. x \in 1 .. n /\ x - 1 \notin T /\ x - 1 \in 0 .. n
  BY <1>2
<1> QED
  BY <1>2, <1>3

(* A function may be defined by recursion on the numbers up to n: G[k]     *)
(* leads from its value at k - 1 to its value at k.                        *)
Recursion(n, S, c, G) ==
  \E f \in [0 .. n -> S] : f[0] = c /\ \A k \in 1 .. n : f[k] = G[k][f[k - 1]]

StepsOf(n, S) == [1 .. n -> [S -> S]]

(* A list of steps can be applied one after the other: the values they     *)
(* lead through exist.                                                     *)
LEMMA RecursionExists ==
  ASSUME NEW n \in Nat, NEW S, NEW c \in S, NEW G \in StepsOf(n, S)
  PROVE  Recursion(n, S, c, G)
<1> USE DEF Recursion, StepsOf
<1> DEFINE Upto(m) == \E f \in [0 .. m -> S] :
                        f[0] = c /\ \A k \in 1 .. m : f[k] = G[k][f[k - 1]]
           P == {m \in 0 .. n : Upto(m)}
<1>1. Upto(0)
  <2> DEFINE g == [k \in 0 .. 0 |-> c]
  <2>1. g \in [0 .. 0 -> S]
    OBVIOUS
  <2>2. g[0] = c
    OBVIOUS
  <2>3. \A k \in 1 .. 0 : g[k] = G[k][g[k - 1]]
    OBVIOUS
  <2> HIDE DEF g
  <2> QED
    BY <2>1, <2>2, <2>3
<1>2. ASSUME NEW m \in 1 .. n, Upto(m - 1) PROVE Upto(m)
  <2>1. PICK f \in [0 .. m - 1 -> S] :
               f[0] = c /\ \A k \in 1 .. m - 1 : f[k] = G[k][f[k - 1]]
    BY <1>2
  <2> DEFINE last == G[m][f[m - 1]]
             g == [k \in 0 .. m |-> IF k = m THEN last ELSE f[k]]
  <2>2. m \in Nat /\ m > 0 /\ m - 1 \in 0 .. m - 1 /\ last \in S
    OBVIOUS
  <2>3. g \in [0 .. m -> S]
    BY <2>2
  <2>4. g[0] = c
    BY <2>1, <2>2
  <2>5. \A k \in 1 .. m : g[k] = G[k][g[k - 1]]
    BY <2>1, <2>2
  <2> HIDE DEF g
  <2> QED
    BY <2>3, <2>4, <2>5
<1>3. \A m \in 1 .. n : m - 1 \in P => m \in P
  <2> HIDE DEF Upto
  <2> QED
    BY <1>2
<1>4. 0 \in P
  <2> HIDE DEF Upto
  <2> QED
    BY <1>1
<1>5. \A m \in 0 .. n : m \in P
  <2> HIDE DEF P
  <2> QED
    BY <1>3, <1>4, SetInduction
<1>6. Upto(n)
  <2> HIDE DEF Upto
  <2> QED
    BY <1>5
<1> QED
  BY <1>6

-----------------------------------------------------------------------------
(* The list of deletes. *)

(* DeletesAmong is a list of requests, with all deletes of the list.       *)
LEMMA DeletesListed ==
  ASSUME NEW reqs \in Seq(Reqs)
  PROVE  /\ DeletesAmong(reqs, Len(reqs)) \in Seq(Reqs)
         /\ \A n \in Positions(reqs) :
              reqs[n] \in Deletes => Among(reqs[n], DeletesAmong(reqs, Len(reqs)))
<1>1. PICK N \in Nat : N = Len(reqs) /\ \A k \in 1 .. N : reqs[k] \in Reqs
  OBVIOUS
<1> DEFINE S == Seq(Reqs)
           G == [k \in 1 .. N |-> [l \in S |-> Listed(l, reqs[k])]]
           Body(f) == [m \in 0 .. N |-> IF m = 0 THEN <<>> ELSE Listed(f[m - 1], reqs[m])]
           among == CHOOSE f : f = Body(f)
<1>2. /\ G \in [1 .. N -> [S -> S]]
      /\ \A k \in 1 .. N : \A l \in S : G[k][l] = Listed(l, reqs[k])
  <2>1. \A k \in 1 .. N : \A l \in S : Listed(l, reqs[k]) \in S
    BY <1>1 DEF Listed
  <2> HIDE DEF S
  <2> QED
    BY <2>1
<1>3. PICK c \in S : c = <<>>
  <2>1. <<>> \in S
    OBVIOUS
  <2> HIDE DEF S, G, Body
  <2> QED
    BY <2>1
<1>4. PICK f \in [0 .. N -> S] : f[0] = c /\ \A k \in 1 .. N : f[k] = G[k][f[k - 1]]
  <2>1. G \in StepsOf(N, S)
    <3> HIDE DEF S, G
    <3> QED
      BY <1>2 DEF StepsOf
  <2> HIDE DEF G, S, Body, among
  <2>2. Recursion(N, S, c, G)
    BY <2>1, RecursionExists
  <2> QED
    BY <2>2 DEF Recursion
<1>5. \A m \in 0 .. N : f[m] = IF m = 0 THEN c ELSE Listed(f[m - 1], reqs[m])
  <2> HIDE DEF G, S
  <2> SUFFICES ASSUME NEW m \in 1 .. N PROVE f[m] = Listed(f[m - 1], reqs[m])
    BY <1>4
  <2>1. f[m - 1] \in S
    BY <1>4
  <2> QED
    BY <1>2, <1>4, <2>1
<1>6. f = Body(f)
  <2> HIDE DEF G, S
  <2> QED
    BY <1>3, <1>5
<1>7. among = Body(among)
  <2> HIDE DEF Body
  <2> QED
    BY <1>6
<1>8. DeletesAmong(reqs, N) = among[N]
  BY <1>1 DEF DeletesAmong
<1> HIDE DEF among
<1>9. among[0] = <<>> /\ \A m \in 1 .. N : among[m] = Listed(among[m - 1], reqs[m])
  BY <1>7
<1> HIDE DEF Body, G
<1> DEFINE Complete(m) ==
             /\ among[m] \in S
             /\ \A n \in 1 .. m : reqs[n] \in Deletes => Among(reqs[n], among[m])
           P == {m \in 0 .. N : Complete(m)}
<1>10. Complete(0)
  BY <1>9
<1>11. ASSUME NEW m \in 1 .. N, Complete(m - 1) PROVE Complete(m)
  <2>1. CASE reqs[m] \notin Deletes
    <3>1. among[m] = among[m - 1]
      BY <1>9, <2>1 DEF Listed
    <3> QED
      BY <1>11, <2>1, <3>1
  <2>2. CASE reqs[m] \in Deletes
    <3>1. among[m] = Append(among[m - 1], reqs[m]) /\ reqs[m] \in Reqs
      BY <1>1, <1>9, <2>2 DEF Listed
    <3>2. /\ among[m] \in S
          /\ Len(among[m]) = Len(among[m - 1]) + 1
          /\ \A i \in 1 .. Len(among[m - 1]) : among[m][i] = among[m - 1][i]
          /\ among[m][Len(among[m - 1]) + 1] = reqs[m]
      BY <1>11, <3>1, AppendProperties
    <3>3. Len(among[m - 1]) \in Nat
      BY <1>11
    <3>4. Among(reqs[m], among[m])
      <4> DEFINE last == Len(among[m - 1]) + 1
      <4>1. last \in Positions(among[m]) /\ among[m][last] = reqs[m]
        BY <3>2, <3>3 DEF Positions
      <4> HIDE DEF last
      <4> QED
        BY <4>1 DEF Among
    <3>5. ASSUME NEW n \in 1 .. m - 1, reqs[n] \in Deletes PROVE Among(reqs[n], among[m])
      <4>1. Among(reqs[n], among[m - 1])
        BY <1>11, <3>5
      <4>2. PICK p \in Positions(among[m - 1]) : among[m - 1][p] = reqs[n]
        BY <4>1 DEF Among
      <4>3. p \in 1 .. Len(among[m - 1])
        BY <4>2 DEF Positions
      <4>4. among[m][p] = reqs[n]
        BY <3>2, <4>2, <4>3
      <4>5. p \in Positions(among[m])
        <5> HIDE DEF Complete, P, S
        <5> QED
          BY <3>2, <3>3, <4>3 DEF Positions
      <4> QED
        BY <4>4, <4>5 DEF Among
    <3>6. ASSUME NEW n \in 1 .. m, reqs[n] \in Deletes PROVE Among(reqs[n], among[m])
      <4>1. n = m \/ n \in 1 .. m - 1
        OBVIOUS
      <4> QED
        BY <3>4, <3>5, <3>6, <4>1
    <3>7. among[m] \in S
      BY <3>2
    <3> QED
      BY <3>6, <3>7
  <2> QED
    BY <2>1, <2>2
<1> HIDE DEF Complete
<1>12. 0 \in P /\ \A m \in 1 .. N : m - 1 \in P => m \in P
  BY <1>10, <1>11
<1>13. \A m \in 0 .. N : m \in P
  <2> HIDE DEF P
  <2> QED
    BY <1>12, SetInduction
<1>14. Complete(N)
  BY <1>13
<1> QED
  BY <1>1, <1>8, <1>14 DEF Positions, Complete

-----------------------------------------------------------------------------
(* Queues, and the list of segments. *)

(* A queue without its first element.                                      *)
LEMMA QueueTail ==
  ASSUME NEW S, NEW q \in Seq(S), q # <<>>
  PROVE  /\ Head(q) \in S /\ Head(q) = q[1] /\ 1 \in Positions(q)
         /\ Tail(q) \in Seq(S)
         /\ \A n \in Positions(Tail(q)) : n + 1 \in Positions(q) /\ Tail(q)[n] = q[n + 1]
         /\ \A n \in Positions(q) : n # 1 => n - 1 \in Positions(Tail(q))
BY HeadTailProperties DEF Positions

(* A step that changes one segment leaves the list of segments as long as  *)
(* it was, and the other segments alone.                                   *)
LEMMA SegsExcept ==
  ASSUME segs \in Seq(SegForReq), NEW i \in DOMAIN segs, NEW g \in SegForReq,
         segs' = [segs EXCEPT ![i] = g]
  PROVE  /\ segs' \in Seq(SegForReq)
         /\ DOMAIN segs' = DOMAIN segs
         /\ segs'[i] = g
         /\ \A j \in DOMAIN segs : j # i => segs'[j] = segs[j]
<1> DEFINE N == Len(segs)
<1>1. N \in Nat /\ segs \in [1 .. N -> SegForReq] /\ DOMAIN segs = 1 .. N
  OBVIOUS
<1>2. segs' \in [1 .. N -> SegForReq]
  BY <1>1
<1>3. segs' \in Seq(SegForReq)
  <2> HIDE DEF N
  <2> QED
    BY <1>1, <1>2, IsASeq
<1> QED
  BY <1>1, <1>2, <1>3

(* One that completes a segment opens another, which gets the next number. *)
LEMMA SegsGrow ==
  ASSUME segs \in Seq(SegForReq), NEW i \in DOMAIN segs, NEW g \in SegForReq,
         NEW o \in SegForReq, segs' = Append([segs EXCEPT ![i] = g], o)
  PROVE  /\ segs' \in Seq(SegForReq)
         /\ DOMAIN segs' = DOMAIN segs \cup {Len(segs) + 1}
         /\ Len(segs) + 1 \notin DOMAIN segs /\ Len(segs) \in Nat
         /\ segs'[i] = g /\ segs'[Len(segs) + 1] = o
         /\ \A j \in DOMAIN segs : j # i => segs'[j] = segs[j]
<1> DEFINE N == Len(segs)
           t == [segs EXCEPT ![i] = g]
<1>1. N \in Nat /\ segs \in [1 .. N -> SegForReq] /\ DOMAIN segs = 1 .. N
  OBVIOUS
<1>2. t \in [1 .. N -> SegForReq] /\ t[i] = g /\ \A j \in 1 .. N : j # i => t[j] = segs[j]
  BY <1>1
<1>3. t \in Seq(SegForReq) /\ Len(t) = N
  <2> HIDE DEF N, t
  <2>1. t \in Seq(SegForReq)
    BY <1>1, <1>2, IsASeq
  <2> QED
    BY <1>1, <1>2, <2>1
<1> HIDE DEF t
<1>4. segs' = Append(t, o)
  BY DEF t
<1>5. /\ segs' \in Seq(SegForReq) /\ Len(segs') = N + 1
      /\ \A j \in 1 .. N : segs'[j] = t[j]
      /\ segs'[N + 1] = o
  BY <1>1, <1>3, <1>4, AppendProperties
<1>6. DOMAIN segs' = 1 .. N + 1
  BY <1>5
<1> HIDE DEF N
<1>7. 1 .. N + 1 = (1 .. N) \cup {N + 1} /\ N + 1 \notin 1 .. N
  BY <1>1
<1> QED
  BY <1>1, <1>2, <1>5, <1>6, <1>7 DEF N

-----------------------------------------------------------------------------
(* What each step does to the segments. *)

(* The requests of the segments are the same before and after.             *)
SameLists ==
  /\ DOMAIN segs' = DOMAIN segs
  /\ \A i \in DOMAIN segs :
       segs'[i].reqList = segs[i].reqList /\ segs'[i].answered = segs[i].answered

SamePhases == \A i \in DOMAIN segs : segs'[i].phase = segs[i].phase

SameAccounts ==
  \A i \in DOMAIN segs : /\ segs'[i].reqCommited = segs[i].reqCommited
                         /\ segs'[i].delReqList = segs[i].delReqList

(* What the queues hold.                                                   *)
LEMMA QueueTypes ==
  ASSUME TypeOK
  PROVE  /\ \A h \in Shards : \A n \in Positions(reqWQ[h]) : reqWQ[h][n] \in Reqs
         /\ \A n \in Positions(segWteWQ) : segWteWQ[n] \in DOMAIN segs
         /\ \A n \in Positions(reaperWQ) : reaperWQ[n] \in DOMAIN segs
<1>1. \A h \in Shards : \A n \in Positions(reqWQ[h]) : reqWQ[h][n] \in Reqs
  <2>1. reqWQ \in [Shards -> Seq(Reqs)]
    BY DEF TypeOK
  <2> QED
    BY <2>1 DEF Positions
<1>2. \A n \in Positions(segWteWQ) : segWteWQ[n] \in DOMAIN segs
  <2>1. segWteWQ \in Seq(DOMAIN segs)
    BY DEF TypeOK
  <2> QED
    BY <2>1 DEF Positions
<1>3. \A n \in Positions(reaperWQ) : reaperWQ[n] \in DOMAIN segs
  <2>1. reaperWQ \in Seq(DOMAIN segs)
    BY DEF TypeOK
  <2> QED
    BY <2>1 DEF Positions
<1> QED
  BY <1>1, <1>2, <1>3

(* A step of one client.                                                   *)
LEMMA ClientSet ==
  ASSUME TypeOK, NEW r \in Reqs, NEW at, client' = [client EXCEPT ![r] = at]
  PROVE  client'[r] = at /\ \A d \in Reqs : d # r => client'[d] = client[d]
<1>1. DOMAIN client = Reqs
  BY DEF TypeOK
<1> QED
  BY <1>1

(* What the types say of one segment.                                      *)
LEMMA SegmentType ==
  ASSUME TypeOK, NEW i \in DOMAIN segs
  PROVE  /\ segs[i] \in SegForReq
         /\ segs[i].reqList \in Seq(Reqs) /\ segs[i].delReqList \in Seq(Reqs)
         /\ segs[i].answered \in 0 .. SegCap /\ segs[i].reqCommited \in 0 .. SegCap
         /\ segs[i].phase \in {"open", "completed", "deleted"}
         /\ Len(segs[i].reqList) \in Nat
         /\ \A n \in Positions(segs[i].reqList) : segs[i].reqList[n] \in Reqs
<1>1. segs[i] \in SegForReq
  BY DEF TypeOK
<1> QED
  BY <1>1 DEF SegForReq, Positions

(* Segments left alone keep lists, phases and accounts.                    *)
LEMMA SegsSame ==
  ASSUME TypeOK, UNCHANGED segs
  PROVE  segs' \in Seq(SegForReq) /\ SameLists /\ SamePhases /\ SameAccounts
BY DEF TypeOK, SameLists, SamePhases, SameAccounts

(* A new segment with requests on it.                                      *)
LEMMA OpenedType ==
  ASSUME NEW rs \in Seq(Reqs)
  PROVE  /\ Opened(rs) \in SegForReq
         /\ Opened(rs).reqList = rs /\ Opened(rs).answered = 0
         /\ Opened(rs).reqCommited = 0 /\ Opened(rs).delReqList = <<>>
         /\ Opened(rs).phase = "open"
<1>1. 0 \in 0 .. SegCap /\ <<>> \in Seq(Reqs)
  BY WritePipelineAssumption
<1> QED
  BY <1>1 DEF Opened, NewSeg, SegForReq

(* A shard's segment is completed and queued, and a new one opened in its  *)
(* place.                                                                  *)
LEMMA ReplacedEffect ==
  ASSUME TypeOK, NEW h \in Shards, NEW rs \in Seq(Reqs), Replaced(h, rs)
  PROVE  /\ segs' \in Seq(SegForReq)
         /\ DOMAIN segs' = DOMAIN segs \cup {Len(segs) + 1}
         /\ Len(segs) + 1 \notin DOMAIN segs /\ segMap[h] \in DOMAIN segs /\ Len(segs) \in Nat
         /\ \A i \in DOMAIN segs :
              /\ segs'[i].reqList = segs[i].reqList /\ segs'[i].answered = segs[i].answered
              /\ segs'[i].phase = IF i = segMap[h] THEN "completed" ELSE segs[i].phase
         /\ SameAccounts
         /\ segs'[Len(segs) + 1] = Opened(rs)
         /\ segMap' = [segMap EXCEPT ![h] = Len(segs) + 1]
         /\ segMap' \in [Shards -> DOMAIN segs']
         /\ segWteWQ' = Append(segWteWQ, segMap[h])
         /\ segWteWQ' \in Seq(DOMAIN segs')
<1> DEFINE i == segMap[h]
           g == [segs[i] EXCEPT !.phase = "completed"]
<1>1. i \in DOMAIN segs /\ segs \in Seq(SegForReq)
  BY DEF TypeOK
<1>2. segs[i] \in SegForReq
  BY <1>1, SegmentType
<1>3. /\ g \in SegForReq /\ g.reqList = segs[i].reqList /\ g.answered = segs[i].answered
      /\ g.phase = "completed" /\ g.reqCommited = segs[i].reqCommited
      /\ g.delReqList = segs[i].delReqList
  BY <1>2 DEF SegForReq
<1>4. segs' = Append([segs EXCEPT ![i] = g], Opened(rs))
  BY <1>1 DEF Replaced
<1> HIDE DEF g
<1>5. Opened(rs) \in SegForReq
  BY OpenedType
<1>6. /\ segs' \in Seq(SegForReq)
      /\ DOMAIN segs' = DOMAIN segs \cup {Len(segs) + 1}
      /\ Len(segs) + 1 \notin DOMAIN segs /\ Len(segs) \in Nat
      /\ segs'[i] = g /\ segs'[Len(segs) + 1] = Opened(rs)
      /\ \A j \in DOMAIN segs : j # i => segs'[j] = segs[j]
  BY <1>1, <1>3, <1>4, <1>5, SegsGrow
<1>7. /\ segMap' = [segMap EXCEPT ![h] = Len(segs) + 1]
      /\ segWteWQ' = Append(segWteWQ, i)
  BY DEF Replaced
<1>8. segMap' \in [Shards -> DOMAIN segs']
  <2> HIDE DEF i
  <2> QED
    BY <1>6, <1>7 DEF TypeOK
<1>9. segWteWQ' \in Seq(DOMAIN segs')
  <2>1. segWteWQ \in Seq(DOMAIN segs')
    <3>1. segWteWQ \in Seq(DOMAIN segs)
      BY DEF TypeOK
    <3> QED
      BY <1>6, <3>1
  <2> HIDE DEF i
  <2> QED
    BY <1>1, <1>6, <1>7, <2>1, AppendProperties
<1>10. SameAccounts
  BY <1>3, <1>6 DEF SameAccounts
<1>11. \A j \in DOMAIN segs :
         /\ segs'[j].reqList = segs[j].reqList /\ segs'[j].answered = segs[j].answered
         /\ segs'[j].phase = IF j = i THEN "completed" ELSE segs[j].phase
  BY <1>3, <1>6
<1> QED
  BY <1>1, <1>6, <1>7, <1>8, <1>9, <1>10, <1>11

(* A request joins the open segment.                                       *)
LEMMA FitsEffect ==
  ASSUME TypeOK, NEW h \in Shards, NEW r \in Reqs,
         segs' = [segs EXCEPT ![segMap[h]].reqList = Append(@, r)]
  PROVE  /\ segs' \in Seq(SegForReq)
         /\ DOMAIN segs' = DOMAIN segs /\ segMap[h] \in DOMAIN segs
         /\ SamePhases /\ SameAccounts
         /\ \A i \in DOMAIN segs :
              /\ segs'[i].reqList =
                   IF i = segMap[h] THEN Append(segs[i].reqList, r) ELSE segs[i].reqList
              /\ segs'[i].answered = segs[i].answered
<1> DEFINE i == segMap[h]
           g == [segs[i] EXCEPT !.reqList = Append(segs[i].reqList, r)]
<1>1. i \in DOMAIN segs /\ segs \in Seq(SegForReq)
  BY DEF TypeOK
<1>2. segs[i] \in SegForReq /\ Append(segs[i].reqList, r) \in Seq(Reqs)
  BY <1>1, SegmentType, AppendProperties
<1>3. /\ g \in SegForReq /\ g.reqList = Append(segs[i].reqList, r)
      /\ g.answered = segs[i].answered /\ g.phase = segs[i].phase
      /\ g.reqCommited = segs[i].reqCommited /\ g.delReqList = segs[i].delReqList
  BY <1>2 DEF SegForReq
<1>4. segs' = [segs EXCEPT ![i] = g]
  BY <1>1
<1> HIDE DEF g
<1>5. /\ segs' \in Seq(SegForReq) /\ DOMAIN segs' = DOMAIN segs /\ segs'[i] = g
      /\ \A j \in DOMAIN segs : j # i => segs'[j] = segs[j]
  BY <1>1, <1>3, <1>4, SegsExcept
<1> QED
  BY <1>1, <1>3, <1>5 DEF SamePhases, SameAccounts

(* The tombstones of the requests that are not answered are all found.     *)
LEMMA TombstonesListed ==
  ASSUME TypeOK, Counted, NEW i \in DOMAIN segs
  PROVE  /\ Tombstones(i) \in Seq(Reqs)
         /\ \A n \in Positions(segs[i].reqList) :
              n > segs[i].answered /\ segs[i].reqList[n] \in Deletes
                => Among(segs[i].reqList[n], Tombstones(i))
<1> DEFINE reqs == segs[i].reqList
           a == segs[i].answered
           N == Len(reqs)
           left == SubSeq(reqs, a + 1, N)
<1>1. reqs \in Seq(Reqs) /\ a \in Nat /\ N \in Nat /\ a <= N
  BY SegmentType DEF Counted, All
<1>2. Tombstones(i) = DeletesAmong(left, Len(left))
  BY DEF Tombstones
<1> HIDE DEF reqs, a
<1>3. /\ left \in Seq(Reqs) /\ Len(left) = N - a
      /\ \A n \in a + 1 .. N : n - a \in 1 .. Len(left) /\ left[n - a] = reqs[n]
  <2>1. \A n \in a + 1 .. N : reqs[n] \in Reqs
    BY <1>1
  <2> QED
    BY <1>1, <2>1, SubSeqProperties
<1> HIDE DEF left
<1>4. /\ DeletesAmong(left, Len(left)) \in Seq(Reqs)
      /\ \A n \in Positions(left) :
           left[n] \in Deletes => Among(left[n], DeletesAmong(left, Len(left)))
  BY <1>3, DeletesListed
<1> HIDE DEF N
<1>5. \A n \in Positions(reqs) :
        n > a /\ reqs[n] \in Deletes => Among(reqs[n], Tombstones(i))
  <2> SUFFICES ASSUME NEW n \in a + 1 .. N, reqs[n] \in Deletes
               PROVE  Among(reqs[n], Tombstones(i))
    BY <1>1 DEF Positions, N
  <2>1. n - a \in Positions(left) /\ left[n - a] = reqs[n]
    BY <1>3 DEF Positions
  <2> QED
    BY <1>2, <1>4, <2>1
<1> QED
  BY <1>2, <1>4, <1>5 DEF reqs, a

(* An entry of one of two lists is in their concatenation.                 *)
LEMMA AmongBoth ==
  ASSUME NEW s \in Seq(Reqs), NEW t \in Seq(Reqs), NEW r, Among(r, s) \/ Among(r, t)
  PROVE  Among(r, s \o t)
<1> DEFINE u == s \o t
<1>1. /\ Len(s) \in Nat /\ Len(t) \in Nat /\ Len(u) = Len(s) + Len(t)
      /\ \A n \in 1 .. Len(u) : u[n] = IF n <= Len(s) THEN s[n] ELSE t[n - Len(s)]
  BY ConcatProperties
<1> HIDE DEF u
<1>2. CASE Among(r, s)
  <2>1. PICK n \in 1 .. Len(s) : s[n] = r
    BY <1>2 DEF Among, Positions
  <2>2. n \in 1 .. Len(u) /\ u[n] = r
    BY <1>1, <2>1
  <2> QED
    BY <2>2 DEF Among, Positions, u
<1>3. CASE Among(r, t)
  <2>1. PICK n \in 1 .. Len(t) : t[n] = r
    BY <1>3 DEF Among, Positions
  <2> DEFINE m == Len(s) + n
  <2>2. m \in 1 .. Len(u) /\ ~(m <= Len(s)) /\ m - Len(s) = n
    BY <1>1, <2>1
  <2> HIDE DEF m
  <2>3. u[m] = r
    BY <1>1, <2>1, <2>2
  <2> QED
    BY <2>2, <2>3 DEF Among, Positions, u
<1> QED
  BY <1>2, <1>3

(* The start of a notification sets the segment's accounts.                *)
LEMMA NotifyStartEffect ==
  ASSUME TypeOK, Counted, WriterShape, NEW w \in SegWriters, NotifyStart(w)
  PROVE  /\ segs' \in Seq(SegForReq) /\ SameLists /\ SamePhases
         /\ writer[w].seg \in DOMAIN segs
         /\ \A j \in DOMAIN segs :
              IF j = writer[w].seg
              THEN /\ segs'[j].reqCommited = All(j)
                   /\ segs'[j].delReqList = segs[j].delReqList \o Tombstones(j)
              ELSE segs'[j] = segs[j]
<1> DEFINE i == writer[w].seg
           dels == segs[i].delReqList \o Tombstones(i)
           g == [segs[i] EXCEPT !.reqCommited = All(i), !.delReqList = dels]
<1>1. i \in DOMAIN segs /\ segs \in Seq(SegForReq)
  BY DEF TypeOK, WriterShape, Busy, NotifyStart, Writers
<1>2. /\ segs[i] \in SegForReq /\ All(i) \in 0 .. SegCap
      /\ dels \in Seq(Reqs)
  <2>1. All(i) \in 0 .. SegCap
    BY <1>1, SegmentType DEF Counted, All
  <2>2. dels \in Seq(Reqs)
    BY <1>1, SegmentType, TombstonesListed, ConcatProperties
  <2> QED
    BY <1>1, <2>1, <2>2, SegmentType
<1> HIDE DEF dels
<1>3. /\ g \in SegForReq /\ g.reqList = segs[i].reqList
      /\ g.answered = segs[i].answered /\ g.phase = segs[i].phase
      /\ g.reqCommited = All(i) /\ g.delReqList = dels
  BY <1>2 DEF SegForReq
<1>4. segs' = [segs EXCEPT ![i] = g]
  BY <1>1 DEF NotifyStart, CommitsToCome, All, dels
<1> HIDE DEF g
<1>5. /\ segs' \in Seq(SegForReq) /\ DOMAIN segs' = DOMAIN segs /\ segs'[i] = g
      /\ \A j \in DOMAIN segs : j # i => segs'[j] = segs[j]
  BY <1>1, <1>3, <1>4, SegsExcept
<1> QED
  BY <1>1, <1>3, <1>5 DEF SameLists, SamePhases, dels

(* An answer goes to the next request of the segment.                      *)
LEMMA AnswerEffect ==
  ASSUME TypeOK, Counted, WriterShape, NEW w \in SegWriters, Answer(w)
  PROVE  /\ segs' \in Seq(SegForReq) /\ SamePhases /\ SameAccounts
         /\ DOMAIN segs' = DOMAIN segs /\ writer[w].seg \in DOMAIN segs
         /\ \A j \in DOMAIN segs :
              /\ segs'[j].reqList = segs[j].reqList
              /\ segs'[j].answered =
                   IF j = writer[w].seg THEN segs[j].answered + 1 ELSE segs[j].answered
         /\ segs[writer[w].seg].answered + 1 \in Positions(segs[writer[w].seg].reqList)
<1> DEFINE i == writer[w].seg
           n == segs[i].answered + 1
           g == [segs[i] EXCEPT !.answered = n]
<1>1. i \in DOMAIN segs /\ segs \in Seq(SegForReq)
  BY DEF TypeOK, WriterShape, Busy, Answer, Writers
<1>2. segs[i] \in SegForReq /\ n \in Positions(segs[i].reqList) /\ n \in 0 .. SegCap
  BY <1>1, SegmentType, WritePipelineAssumption DEF Counted, All, Answer, Positions
<1> HIDE DEF n
<1>3. /\ g \in SegForReq /\ g.reqList = segs[i].reqList
      /\ g.answered = n /\ g.phase = segs[i].phase
      /\ g.reqCommited = segs[i].reqCommited /\ g.delReqList = segs[i].delReqList
  BY <1>2 DEF SegForReq
<1>4. segs' = [segs EXCEPT ![i] = g]
  BY <1>1 DEF Answer, n
<1> HIDE DEF g
<1>5. /\ segs' \in Seq(SegForReq) /\ DOMAIN segs' = DOMAIN segs /\ segs'[i] = g
      /\ \A j \in DOMAIN segs : j # i => segs'[j] = segs[j]
  BY <1>1, <1>3, <1>4, SegsExcept
<1> QED
  BY <1>1, <1>2, <1>3, <1>5 DEF SamePhases, SameAccounts, n

(* The end of a reaping deletes its segment.                               *)
LEMMA ReapEndEffect ==
  ASSUME TypeOK, ReapEnd
  PROVE  /\ segs' \in Seq(SegForReq) /\ SameLists /\ SameAccounts
         /\ reaping.seg \in DOMAIN segs
         /\ \A j \in DOMAIN segs :
              segs'[j].phase = IF j = reaping.seg THEN "deleted" ELSE segs[j].phase
<1> DEFINE i == reaping.seg
           g == [segs[i] EXCEPT !.phase = "deleted"]
<1>1. i \in DOMAIN segs /\ segs \in Seq(SegForReq)
  BY DEF TypeOK, ReapEnd
<1>2. segs[i] \in SegForReq
  BY <1>1, SegmentType
<1>3. /\ g \in SegForReq /\ g.reqList = segs[i].reqList
      /\ g.answered = segs[i].answered /\ g.phase = "deleted"
      /\ g.reqCommited = segs[i].reqCommited /\ g.delReqList = segs[i].delReqList
  BY <1>2 DEF SegForReq
<1>4. segs' = [segs EXCEPT ![i] = g]
  BY <1>1 DEF ReapEnd
<1> HIDE DEF g
<1>5. /\ segs' \in Seq(SegForReq) /\ DOMAIN segs' = DOMAIN segs /\ segs'[i] = g
      /\ \A j \in DOMAIN segs : j # i => segs'[j] = segs[j]
  BY <1>1, <1>3, <1>4, SegsExcept
<1> QED
  BY <1>1, <1>3, <1>5 DEF SameLists, SameAccounts

(* A request that was answered is held by the segment SegOf gives, and by  *)
(* no other; if it was told of success, the segment's account is in order. *)
LEMMA AnsweredHeld ==
  ASSUME TypeOK, RequestInv, NEW r \in Reqs,
         client[r] \in {"answered", "commit", "returned"}
  PROVE  /\ SegOf(r) \in DOMAIN segs
         /\ \E n \in 1 .. segs[SegOf(r)].answered : segs[SegOf(r)].reqList[n] = r
         /\ \A i \in DOMAIN segs : Holds(i, r) => i = SegOf(r)
<1>1. \E i \in DOMAIN segs : Holds(i, r)
  <2>1. \A n \in Positions(reqWQ[ShardOf[KeyOf[r]]]) : reqWQ[ShardOf[KeyOf[r]]][n] # r
    <3>1. ShardOf[KeyOf[r]] \in Shards
      BY WritePipelineAssumption
    <3> QED
      BY <3>1 DEF RequestInv, QueuedWait
  <2> QED
    BY <2>1 DEF RequestInv, NoneLost
<1>2. SegOf(r) \in DOMAIN segs /\ Holds(SegOf(r), r)
  BY <1>1 DEF SegOf
<1>3. PICK n \in Positions(segs[SegOf(r)].reqList) : segs[SegOf(r)].reqList[n] = r
  BY <1>2 DEF Holds
<1> DEFINE s == SegOf(r)
<1> HIDE DEF s
<1>4. s \in DOMAIN segs /\ n \in Positions(segs[s].reqList) /\ segs[s].reqList[n] = r
  BY <1>2, <1>3 DEF s
<1>5. n \in 1 .. segs[s].answered
  <2>1. ~(n > segs[s].answered)
    BY <1>4 DEF RequestInv, AnsweredInOrder
  <2> QED
    BY <1>4, <2>1, SegmentType DEF Positions
<1>6. \A i \in DOMAIN segs : Holds(i, r) => i = s
  BY <1>4 DEF RequestInv, HeldOnce, Holds
<1> QED
  BY <1>4, <1>5, <1>6 DEF s

(* The requests still to return are finitely many.                         *)
LEMMA UnreturnedFinite ==
  ASSUME TypeOK, NEW i \in DOMAIN segs
  PROVE  /\ IsFiniteSet(Unreturned(i))
         /\ Cardinality(Unreturned(i)) \in Nat
         /\ Unreturned(i) # {} => Cardinality(Unreturned(i)) > 0
<1>1. Len(segs[i].reqList) \in Nat
  BY SegmentType
<1>2. IsFiniteSet(1 .. Len(segs[i].reqList))
  BY <1>1, FS_Interval
<1>3. IsFiniteSet(Unreturned(i))
  BY <1>2, FS_Subset DEF Unreturned, Positions
<1> QED
  BY <1>3, FS_CardinalityType, FS_EmptySet

(* A request that returns success takes itself off its segment's count.    *)
LEMMA CommitEffect ==
  ASSUME TypeOK, RequestInv, Accounted, Decided, NEW r \in Reqs, Commit(r)
  PROVE  /\ segs' \in Seq(SegForReq) /\ SameLists /\ SamePhases
         /\ SegOf(r) \in DOMAIN segs
         /\ \E n \in 1 .. segs[SegOf(r)].answered : segs[SegOf(r)].reqList[n] = r
         /\ Good(SegOf(r))
         /\ segs[SegOf(r)].reqCommited = Cardinality(Unreturned(SegOf(r)))
         /\ \A j \in DOMAIN segs :
              /\ segs'[j].reqCommited =
                   IF j = SegOf(r) THEN segs[j].reqCommited - 1 ELSE segs[j].reqCommited
              /\ segs'[j].delReqList = segs[j].delReqList
<1> DEFINE i == SegOf(r)
           m == segs[i].reqCommited - 1
           g == [segs[i] EXCEPT !.reqCommited = m]
<1>1. /\ i \in DOMAIN segs /\ segs \in Seq(SegForReq)
      /\ \E n \in 1 .. segs[i].answered : segs[i].reqList[n] = r
  BY AnsweredHeld DEF TypeOK, Commit
<1>2. segs[i] \in SegForReq
  BY <1>1, SegmentType
<1> HIDE DEF i
<1>3. PICK n \in 1 .. segs[i].answered : segs[i].reqList[n] = r
  BY <1>1
<1>4. Good(i)
  BY <1>3 DEF Good, Decided, Commit
<1>5. n \in Unreturned(i)
  <2>1. n \in Positions(segs[i].reqList)
    BY <1>1, <1>3, SegmentType DEF RequestInv, Counted, All, Positions
  <2> QED
    BY <1>3, <2>1 DEF Unreturned, Commit
<1>6. segs[i].reqCommited = Cardinality(Unreturned(i)) /\ segs[i].reqCommited > 0
  BY <1>1, <1>4, <1>5, UnreturnedFinite DEF Accounted
<1>7. m \in 0 .. SegCap
  BY <1>1, <1>6, SegmentType, WritePipelineAssumption
<1> HIDE DEF m
<1>8. /\ g \in SegForReq /\ g.reqList = segs[i].reqList
      /\ g.answered = segs[i].answered /\ g.phase = segs[i].phase
      /\ g.reqCommited = m /\ g.delReqList = segs[i].delReqList
  BY <1>2, <1>7 DEF SegForReq
<1>9. segs' = [segs EXCEPT ![i] = g]
  BY <1>1 DEF Commit, i, m
<1> HIDE DEF g
<1>10. /\ segs' \in Seq(SegForReq) /\ DOMAIN segs' = DOMAIN segs /\ segs'[i] = g
       /\ \A j \in DOMAIN segs : j # i => segs'[j] = segs[j]
  BY <1>1, <1>8, <1>9, SegsExcept
<1> QED
  BY <1>1, <1>4, <1>6, <1>8, <1>10 DEF SameLists, SamePhases, i, m

(* What a writer is doing may change, never which segment it has.          *)
LEMMA NotifyStartWriter ==
  ASSUME TypeOK, NEW w \in SegWriters, NotifyStart(w)
  PROVE  /\ DOMAIN writer' = SegWriters
         /\ writer'[w] = [at |-> IF writer[w].at = "notify" THEN "answer" ELSE "answerWritten",
                          seg |-> writer[w].seg, ok |-> writer[w].ok]
         /\ writer'[w].at = IF writer[w].at = "notify" THEN "answer" ELSE "answerWritten"
         /\ writer'[w].seg = writer[w].seg /\ writer'[w].ok = writer[w].ok
         /\ \A v \in SegWriters : v # w => writer'[v] = writer[v]
<1> DEFINE a == IF writer[w].at = "notify" THEN "answer" ELSE "answerWritten"
<1>1. writer' = [writer EXCEPT ![w].at = a]
  BY DEF NotifyStart
<1>2. writer \in [SegWriters -> Writers]
  BY DEF TypeOK
<1> HIDE DEF a
<1>3. writer[w] \in Writers
  BY <1>2
<1>4. [writer[w] EXCEPT !.at = a] = [at |-> a, seg |-> writer[w].seg, ok |-> writer[w].ok]
  BY <1>3 DEF Writers
<1>5. writer' = [writer EXCEPT ![w] = [at |-> a, seg |-> writer[w].seg, ok |-> writer[w].ok]]
  BY <1>1, <1>4
<1>6. writer'[w].at = a /\ writer'[w].seg = writer[w].seg /\ writer'[w].ok = writer[w].ok
  BY <1>1, <1>2, <1>3 DEF Writers
<1> QED
  BY <1>2, <1>5, <1>6 DEF a

-----------------------------------------------------------------------------
(* Types. *)

(* A step of one segment writer that changes nothing but what it is doing. *)
LEMMA WriterTypes ==
  ASSUME TypeOK, NEW w \in SegWriters, NEW x \in Writers, writer' = [writer EXCEPT ![w] = x],
         UNCHANGED <<client, status, stamp, pipeVars, clock, indexVars, frame>>
  PROVE  TypeOK'
<1>1. writer' \in [SegWriters -> Writers]
  BY DEF TypeOK
<1>2. Writers' = Writers
  BY DEF Writers, pipeVars
<1>3. writer' \in [SegWriters -> Writers']
  BY <1>1, <1>2
<1> HIDE DEF Writers
<1> QED
  BY <1>3 DEF TypeOK, pipeVars, indexVars, frame

(* A writer at another step is a writer.                                   *)
LEMMA WriterRecord ==
  ASSUME TypeOK, NEW w \in SegWriters, NEW a, NEW b \in BOOLEAN,
         a \in {"idle", "alloc", "write", "notify", "notifyWritten", "answer", "answerWritten"}
  PROVE  /\ [writer[w] EXCEPT !.at = a] \in Writers
         /\ [writer[w] EXCEPT !.at = a, !.ok = b] \in Writers
<1>1. writer[w] \in Writers
  BY DEF TypeOK
<1> QED
  BY <1>1 DEF Writers

(* Every step of clients, merge threads, segment writers and reaper leaves *)
(* every variable of the types that TypeOK states; the segment a client    *)
(* commits to exists only because of where the requests are held.          *)
THEOREM TypeStep ==
  ASSUME PipelineInv, [Next]_vars
  PROVE  TypeOK'
<1> USE DEF PipelineInv, RequestInv, SegmentInv, ReapInv, VisibleInv
<1>1. ASSUME UNCHANGED vars PROVE TypeOK'
  BY <1>1 DEF vars, frame, TypeOK, Writers
<1>2. ASSUME NEW r \in Reqs, WriteData(r) PROVE TypeOK'
  <2>1. ShardOf[KeyOf[r]] \in Shards /\ Returned \in SUBSET Reqs
    BY WritePipelineAssumption DEF Returned
  <2>2. reqWQ' \in [Shards -> Seq(Reqs)]
    BY <1>2, <2>1, AppendProperties DEF TypeOK, WriteData
  <2>3. before' \in [Reqs -> SUBSET Reqs]
    BY <1>2, <2>1 DEF TypeOK, WriteData
  <2> QED
    BY <1>2, <2>2, <2>3 DEF WriteData, TypeOK, Writers, indexVars
<1>3. ASSUME NEW r \in Reqs, ReturnFailure(r) PROVE TypeOK'
  BY <1>3 DEF ReturnFailure, TypeOK, Writers, pipeVars, indexVars, frame
<1>4. ASSUME NEW r \in Reqs, UpdateIndex(r) PROVE TypeOK'
  <2>1. KeyOf[r] \in Keys
    BY WritePipelineAssumption
  <2>2. index' \in [Keys -> Reqs \cup {NoReq}]
    BY <1>4, <2>1 DEF TypeOK, UpdateIndex, Updated
  <2> QED
    BY <1>4, <2>2 DEF UpdateIndex, TypeOK, Writers, pipeVars, frame
<1>5. ASSUME NEW r \in Reqs, UpdateIndexRefused(r) PROVE TypeOK'
  BY <1>5 DEF UpdateIndexRefused, NeedsPlace, TypeOK, Writers, pipeVars, indexVars
<1>6. ASSUME NEW r \in Reqs, Commit(r) PROVE TypeOK'
  <2>1. /\ segs' \in Seq(SegForReq) /\ DOMAIN segs' = DOMAIN segs /\ SegOf(r) \in DOMAIN segs
    BY <1>6, CommitEffect DEF SameLists
  <2>2. reaperWQ' \in Seq(DOMAIN segs')
    <3> HIDE DEF PipelineInv, RequestInv, SegmentInv, ReapInv, VisibleInv
    <3>1. reaperWQ \in Seq(DOMAIN segs)
      BY DEF PipelineInv, TypeOK
    <3>2. Append(reaperWQ, SegOf(r)) \in Seq(DOMAIN segs)
      BY <2>1, <3>1, AppendProperties
    <3> QED
      BY <1>6, <2>1, <3>1, <3>2 DEF Commit
  <2> QED
    BY <1>6, <2>1, <2>2 DEF Commit, TypeOK, Writers, frame
<1>7. ASSUME NEW h \in Shards, ReqMerge(h) PROVE TypeOK'
  <2>1. reqWQ[h] \in Seq(Reqs) /\ reqWQ[h] # <<>>
    BY <1>7 DEF TypeOK, ReqMerge
  <2>2. Head(reqWQ[h]) \in Reqs /\ Tail(reqWQ[h]) \in Seq(Reqs)
    BY <2>1, QueueTail
  <2>3. reqWQ' \in [Shards -> Seq(Reqs)]
    BY <1>7, <2>2 DEF TypeOK, ReqMerge
  <2>4. CASE UNCHANGED <<segMap, segWteWQ>> /\
             segs' = [segs EXCEPT ![segMap[h]].reqList = Append(@, Head(reqWQ[h]))]
    <3>1. segs' \in Seq(SegForReq) /\ DOMAIN segs' = DOMAIN segs
      BY <2>2, <2>4, FitsEffect
    <3> QED
      BY <1>7, <2>3, <2>4, <3>1 DEF ReqMerge, TypeOK, Writers, indexVars, frame
  <2>5. CASE Replaced(h, <<Head(reqWQ[h])>>)
    <3>1. <<Head(reqWQ[h])>> \in Seq(Reqs)
      BY <2>2
    <3>2. /\ segs' \in Seq(SegForReq)
          /\ DOMAIN segs' = DOMAIN segs \cup {Len(segs) + 1}
          /\ segMap' \in [Shards -> DOMAIN segs']
          /\ segWteWQ' \in Seq(DOMAIN segs')
      BY <2>5, <3>1, ReplacedEffect
    <3>3. reaperWQ' \in Seq(DOMAIN segs')
      BY <1>7, <3>2 DEF ReqMerge, indexVars, TypeOK
    <3> QED
      BY <1>7, <2>3, <3>2, <3>3 DEF ReqMerge, TypeOK, Writers, indexVars, frame
  <2> QED
    BY <1>7, <2>4, <2>5 DEF ReqMerge
<1>8. ASSUME NEW h \in Shards, SegTimeout(h) PROVE TypeOK'
  <2>1. <<>> \in Seq(Reqs)
    OBVIOUS
  <2>2. /\ segs' \in Seq(SegForReq)
        /\ DOMAIN segs' = DOMAIN segs \cup {Len(segs) + 1}
        /\ segMap' \in [Shards -> DOMAIN segs']
        /\ segWteWQ' \in Seq(DOMAIN segs')
    BY <1>8, <2>1, ReplacedEffect DEF SegTimeout
  <2>3. reaperWQ' \in Seq(DOMAIN segs')
    BY <1>8, <2>2 DEF SegTimeout, indexVars, TypeOK
  <2> QED
    BY <1>8, <2>2, <2>3 DEF SegTimeout, TypeOK, Writers, indexVars, frame
<1>9. ASSUME NEW w \in SegWriters, SegWriteStart(w) PROVE TypeOK'
  <2>1. segWteWQ \in Seq(DOMAIN segs) /\ segWteWQ # <<>>
    BY <1>9 DEF TypeOK, SegWriteStart
  <2>2. Head(segWteWQ) \in DOMAIN segs /\ Tail(segWteWQ) \in Seq(DOMAIN segs)
    BY <2>1, QueueTail
  <2> QED
    BY <1>9, <2>2 DEF SegWriteStart, TypeOK, Writers, indexVars, frame
<1>10. ASSUME NEW w \in SegWriters, Allocated(w) PROVE TypeOK'
  <2>1. /\ writer' = [writer EXCEPT ![w] = [writer[w] EXCEPT !.at = "write"]]
        /\ UNCHANGED <<client, status, stamp, pipeVars, clock, indexVars, frame>>
    BY <1>10 DEF Allocated
  <2>2. [writer[w] EXCEPT !.at = "write"] \in Writers
    BY WriterRecord
  <2> QED
    BY <2>1, <2>2, WriterTypes
<1>11. ASSUME NEW w \in SegWriters, NotAllocated(w) PROVE TypeOK'
  <2>1. /\ writer' = [writer EXCEPT ![w] = [writer[w] EXCEPT !.at = "notify", !.ok = FALSE]]
        /\ UNCHANGED <<client, status, stamp, pipeVars, clock, indexVars, frame>>
    BY <1>11 DEF NotAllocated
  <2>2. [writer[w] EXCEPT !.at = "notify", !.ok = FALSE] \in Writers
    BY WriterRecord
  <2> QED
    BY <2>1, <2>2, WriterTypes
<1>12. ASSUME NEW w \in SegWriters, NEW ok \in BOOLEAN, Written(w, ok) PROVE TypeOK'
  <2>1. /\ writer' = [writer EXCEPT ![w] = [writer[w] EXCEPT !.at = "notifyWritten", !.ok = ok]]
        /\ UNCHANGED <<client, status, stamp, pipeVars, clock, indexVars, frame>>
    BY <1>12 DEF Written
  <2>2. [writer[w] EXCEPT !.at = "notifyWritten", !.ok = ok] \in Writers
    BY WriterRecord
  <2> QED
    BY <2>1, <2>2, WriterTypes
<1>13. ASSUME NEW w \in SegWriters, NotifyStart(w) PROVE TypeOK'
  <2>1. /\ segs' \in Seq(SegForReq) /\ DOMAIN segs' = DOMAIN segs
        /\ writer[w].seg \in DOMAIN segs
    BY <1>13, NotifyStartEffect DEF SameLists
  <2> DEFINE i == writer[w].seg
             reqs == segs[i].reqList
  <2>2. reqs \in Seq(Reqs) /\ Len(reqs) \in Nat /\ Len(reqs) <= SegCap /\ SegCap \in Nat
    BY <2>1, SegmentType, WritePipelineAssumption DEF Counted, All
  <2>3. clock' \in 0 .. MaxNotifies
    BY <1>13, WritePipelineAssumption DEF NotifyStart, TypeOK
  <2>4. \A r \in Unanswered(i) : (CHOOSE n \in Positions(reqs) : reqs[n] = r) \in 0 .. SegCap
    <3> SUFFICES ASSUME NEW r \in Unanswered(i)
                 PROVE  (CHOOSE n \in Positions(reqs) : reqs[n] = r) \in 0 .. SegCap
      OBVIOUS
    <3>1. \E n \in Positions(reqs) : reqs[n] = r
      BY DEF Unanswered
    <3> HIDE DEF reqs
    <3>2. (CHOOSE n \in Positions(reqs) : reqs[n] = r) \in Positions(reqs)
      BY <3>1
    <3> QED
      BY <2>2, <3>2 DEF Positions
  <2>5. stamp' \in [Reqs -> (0 .. MaxNotifies) \X (0 .. SegCap)]
    <3> HIDE DEF PipelineInv, RequestInv, SegmentInv, ReapInv, VisibleInv
    <3>1. stamp \in [Reqs -> (0 .. MaxNotifies) \X (0 .. SegCap)]
      BY DEF PipelineInv, TypeOK
    <3>2. stamp' = [r \in Reqs |-> IF r \in Unanswered(i)
                                   THEN <<clock', CHOOSE n \in Positions(reqs) : reqs[n] = r>>
                                   ELSE stamp[r]]
      BY <1>13 DEF NotifyStart
    <3> HIDE DEF reqs, i
    <3> QED
      BY <2>3, <2>4, <3>1, <3>2
  <2>6. writer' \in [SegWriters -> Writers']
    <3>1. writer' = [v \in SegWriters |-> writer'[v]]
      BY <1>13 DEF NotifyStart, TypeOK
    <3>2. \A v \in SegWriters : writer[v] \in Writers
      BY DEF TypeOK
    <3>3. writer'[w] \in Writers'
      <4> DEFINE a == IF writer[w].at = "notify" THEN "answer" ELSE "answerWritten"
      <4>1. writer'[w] = [at |-> a, seg |-> writer[w].seg, ok |-> writer[w].ok]
        BY <1>13, NotifyStartWriter
      <4>2. /\ a \in {"answer", "answerWritten"} /\ writer[w].seg \in DOMAIN segs'
            /\ writer[w].ok \in BOOLEAN
        BY <2>1, <3>2 DEF Writers
      <4> HIDE DEF a
      <4> QED
        BY <4>1, <4>2 DEF Writers
    <3>4. \A v \in SegWriters : v # w => writer'[v] \in Writers'
      <4>1. \A v \in SegWriters : v # w => writer'[v] = writer[v]
        BY <1>13, NotifyStartWriter
      <4> QED
        BY <2>1, <3>2, <4>1 DEF Writers
    <3> HIDE DEF PipelineInv
    <3> QED
      BY <3>1, <3>3, <3>4
  <2> QED
    BY <1>13, <2>1, <2>3, <2>5, <2>6 DEF NotifyStart, TypeOK, indexVars, frame
<1>14. ASSUME NEW w \in SegWriters, Answer(w) PROVE TypeOK'
  <2>1. /\ segs' \in Seq(SegForReq) /\ DOMAIN segs' = DOMAIN segs
        /\ writer[w].seg \in DOMAIN segs
    BY <1>14, AnswerEffect
  <2> QED
    BY <1>14, <2>1 DEF Answer, TypeOK, Writers, indexVars, frame
<1>15. ASSUME NEW w \in SegWriters, NotifyEnd(w) PROVE TypeOK'
  <2>1. /\ writer' = [writer EXCEPT ![w] = AfterNotify(w)]
        /\ UNCHANGED <<client, status, stamp, pipeVars, clock, indexVars, frame>>
    BY <1>15 DEF NotifyEnd
  <2>2. [writer[w] EXCEPT !.at = "alloc"] \in Writers
    BY WriterRecord
  <2>3. IdleWriter \in Writers
    BY DEF IdleWriter, Writers
  <2>4. AfterNotify(w) \in Writers
    BY <2>2, <2>3 DEF AfterNotify
  <2> QED
    BY <2>1, <2>4, WriterTypes
<1>16. ASSUME ReapStart PROVE TypeOK'
  <2>1. reaperWQ \in Seq(DOMAIN segs) /\ reaperWQ # <<>>
    BY <1>16 DEF TypeOK, ReapStart
  <2>2. Head(reaperWQ) \in DOMAIN segs /\ Tail(reaperWQ) \in Seq(DOMAIN segs)
    BY <2>1, QueueTail
  <2>3. segs[Head(reaperWQ)].delReqList \in Seq(Reqs)
    BY <2>2, SegmentType
  <2> QED
    BY <1>16, <2>2, <2>3 DEF ReapStart, TypeOK, Writers, pipeVars, frame
<1>17. ASSUME ReapEntry PROVE TypeOK'
  <2>1. reaping.entries \in Seq(Reqs) /\ reaping.entries # <<>>
    BY <1>17 DEF TypeOK, ReapEntry
  <2>2. Head(reaping.entries) \in Reqs /\ Tail(reaping.entries) \in Seq(Reqs)
    BY <2>1, QueueTail
  <2>3. KeyOf[Head(reaping.entries)] \in Keys
    BY <2>2, WritePipelineAssumption
  <2>4. index' \in [Keys -> Reqs \cup {NoReq}]
    BY <1>17, <2>3 DEF ReapEntry, TypeOK
  <2> QED
    BY <1>17, <2>2, <2>4 DEF ReapEntry, TypeOK, Writers, pipeVars, frame
<1>18. ASSUME ReapEnd PROVE TypeOK'
  <2>1. segs' \in Seq(SegForReq) /\ DOMAIN segs' = DOMAIN segs
    BY <1>18, ReapEndEffect DEF SameLists
  <2>2. <<>> \in Seq(Reqs)
    OBVIOUS
  <2> QED
    BY <1>18, <2>1, <2>2 DEF ReapEnd, NotReaping, TypeOK, Writers, frame
<1> QED
  BY <1>1, <1>2, <1>3, <1>4, <1>5, <1>6, <1>7, <1>8, <1>9, <1>10, <1>11, <1>12, <1>13, <1>14,
     <1>15, <1>16, <1>17, <1>18
  DEF Next, ClientGoesOn, SegWrite, SegReaper

-----------------------------------------------------------------------------
(* Where the requests are. *)

Late == {"answered", "commit", "returned"}

(* The requests of the segments after a step are those before it, where    *)
(* they were.                                                              *)
NothingNew ==
  \A i \in DOMAIN segs' : \A n \in Positions(segs'[i].reqList) :
    /\ i \in DOMAIN segs /\ n \in Positions(segs[i].reqList)
    /\ segs'[i].reqList[n] = segs[i].reqList[n] /\ segs'[i].answered = segs[i].answered

NothingGone ==
  \A i \in DOMAIN segs : \A n \in Positions(segs[i].reqList) :
    /\ i \in DOMAIN segs' /\ n \in Positions(segs'[i].reqList)
    /\ segs'[i].reqList[n] = segs[i].reqList[n]

(* Unchanged lists gain and lose no request.                               *)
LEMMA SameListsKeep ==
  ASSUME SameLists, Counted
  PROVE  NothingNew /\ NothingGone /\ Counted'
BY DEF SameLists, NothingNew, NothingGone, Counted, All, Positions

(* Steps that move no request, and move no client to or from Wait.         *)
LEMMA RequestsStay ==
  ASSUME TypeOK, TypeOK', RequestInv, NothingNew, NothingGone, Counted', UNCHANGED reqWQ,
         \A r \in Reqs : client'[r] = client[r] \/ {client[r], client'[r]} \subseteq Late
  PROVE  RequestInv'
<1> USE DEF RequestInv
<1>1. \A h \in Shards : \A n \in Positions(reqWQ[h]) : reqWQ[h][n] \in Reqs
  BY DEF TypeOK, Positions
<1>2. \A i \in DOMAIN segs : \A n \in Positions(segs[i].reqList) : segs[i].reqList[n] \in Reqs
  BY SegmentType
<1>3. QueuedWait'
  <2> SUFFICES ASSUME NEW h \in Shards, NEW n \in Positions(reqWQ[h])
               PROVE  /\ ShardOf[KeyOf[reqWQ[h][n]]] = h
                      /\ client'[reqWQ[h][n]] = "waiting"
                      /\ \A i \in DOMAIN segs' : \A m \in Positions(segs'[i].reqList) :
                           segs'[i].reqList[m] # reqWQ[h][n]
    BY DEF QueuedWait, Holds
  <2>1. reqWQ[h][n] \in Reqs /\ client[reqWQ[h][n]] = "waiting"
    BY <1>1 DEF QueuedWait
  <2>2. client'[reqWQ[h][n]] = "waiting"
    BY <2>1 DEF Late
  <2> QED
    BY <2>2 DEF QueuedWait, Holds, NothingNew
<1>4. QueuedOnce'
  BY DEF QueuedOnce
<1>5. AnsweredInOrder'
  <2> SUFFICES ASSUME NEW i \in DOMAIN segs', NEW n \in Positions(segs'[i].reqList)
               PROVE  IF n > segs'[i].answered
                      THEN client'[segs'[i].reqList[n]] = "waiting"
                      ELSE client'[segs'[i].reqList[n]] \in {"answered", "commit", "returned"}
    BY DEF AnsweredInOrder
  <2>1. /\ i \in DOMAIN segs /\ n \in Positions(segs[i].reqList)
        /\ segs'[i].reqList[n] = segs[i].reqList[n] /\ segs'[i].answered = segs[i].answered
    BY DEF NothingNew
  <2> QED
    BY <1>2, <2>1 DEF AnsweredInOrder, Late
<1>6. HeldOnce'
  BY DEF HeldOnce, NothingNew
<1>7. NoneLost'
  <2> SUFFICES ASSUME NEW r \in Reqs, client'[r] # "new"
               PROVE  \/ \E n \in Positions(reqWQ[ShardOf[KeyOf[r]]]) :
                           reqWQ[ShardOf[KeyOf[r]]][n] = r
                      \/ \E i \in DOMAIN segs' : \E n \in Positions(segs'[i].reqList) :
                           segs'[i].reqList[n] = r
    BY DEF NoneLost, Holds
  <2>1. client[r] # "new"
    BY DEF Late
  <2> QED
    BY <2>1 DEF NoneLost, Holds, NothingGone
<1> QED
  BY <1>3, <1>4, <1>5, <1>6, <1>7

(* The merge thread of shard h takes a request from its queue.             *)
Popped(h) ==
  /\ reqWQ[h] # <<>> /\ reqWQ'[h] = Tail(reqWQ[h])
  /\ \A g \in Shards : g # h => reqWQ'[g] = reqWQ[g]

(* The head of a shard's queue becomes request p of segment t.             *)
LEMMA RequestMoves ==
  ASSUME TypeOK, TypeOK', RequestInv, Counted', NothingGone, UNCHANGED client,
         NEW h \in Shards, Popped(h),
         NEW t \in DOMAIN segs', NEW p \in Positions(segs'[t].reqList),
         segs'[t].reqList[p] = Head(reqWQ[h]), p > segs'[t].answered,
         \A i \in DOMAIN segs' : \A n \in Positions(segs'[i].reqList) :
           i # t \/ n # p =>
             /\ i \in DOMAIN segs /\ n \in Positions(segs[i].reqList)
             /\ segs'[i].reqList[n] = segs[i].reqList[n]
             /\ segs'[i].answered = segs[i].answered
  PROVE  RequestInv'
<1> DEFINE r == Head(reqWQ[h])
<1> USE DEF RequestInv
<1>1. \A g \in Shards : g # h => reqWQ'[g] = reqWQ[g]
  BY DEF Popped
<1>2. /\ reqWQ[h] \in Seq(Reqs) /\ r \in Reqs /\ r = reqWQ[h][1] /\ 1 \in Positions(reqWQ[h])
      /\ \A n \in Positions(reqWQ'[h]) : n \in Nat \ {0}
  <2>1. reqWQ[h] \in Seq(Reqs)
    BY DEF TypeOK
  <2> QED
    BY <2>1, HeadTailProperties DEF Positions, Popped
<1>3. /\ \A n \in Positions(reqWQ'[h]) :
           n + 1 \in Positions(reqWQ[h]) /\ reqWQ'[h][n] = reqWQ[h][n + 1]
      /\ \A n \in Positions(reqWQ[h]) : n # 1 =>
           n - 1 \in Positions(reqWQ'[h]) /\ reqWQ'[h][n - 1] = reqWQ[h][n]
  BY <1>2, HeadTailProperties DEF Positions, Popped
<1>4. ShardOf[KeyOf[r]] = h /\ client[r] = "waiting" /\ ~(\E i \in DOMAIN segs : Holds(i, r))
  BY <1>2 DEF QueuedWait
<1> HIDE DEF r
<1>5. segs'[t].reqList[p] = r
  BY DEF r
<1>6. \A n \in Positions(reqWQ'[h]) : reqWQ'[h][n] # r
  BY <1>2, <1>3 DEF QueuedOnce
<1>7. \A g \in Shards : g # h => \A n \in Positions(reqWQ[g]) : reqWQ[g][n] # r
  BY <1>4 DEF QueuedWait
<1>8. QueuedWait'
  <2> SUFFICES ASSUME NEW g \in Shards, NEW n \in Positions(reqWQ'[g])
               PROVE  /\ ShardOf[KeyOf[reqWQ'[g][n]]] = g
                      /\ client[reqWQ'[g][n]] = "waiting"
                      /\ \A i \in DOMAIN segs' : \A m \in Positions(segs'[i].reqList) :
                           segs'[i].reqList[m] # reqWQ'[g][n]
    BY DEF QueuedWait, Holds
  <2>1. PICK k \in Positions(reqWQ[g]) : reqWQ'[g][n] = reqWQ[g][k]
    <3>1. CASE g = h
      <4>1. n + 1 \in Positions(reqWQ[h]) /\ reqWQ'[h][n] = reqWQ[h][n + 1]
        BY <1>3, <3>1
      <4> QED
        BY <3>1, <4>1
    <3> QED
      BY <1>1, <3>1
  <2>2. reqWQ'[g][n] # r
    BY <1>1, <1>6, <1>7
  <2>3. ASSUME NEW i \in DOMAIN segs', NEW m \in Positions(segs'[i].reqList)
        PROVE  segs'[i].reqList[m] # reqWQ'[g][n]
    <3>1. CASE i = t /\ m = p
      BY <1>5, <2>2, <3>1
    <3>2. CASE i # t \/ m # p
      <4>1. /\ i \in DOMAIN segs /\ m \in Positions(segs[i].reqList)
            /\ segs'[i].reqList[m] = segs[i].reqList[m]
        BY <3>2
      <4> QED
        BY <2>1, <4>1 DEF QueuedWait, Holds
    <3> QED
      BY <3>1, <3>2
  <2> QED
    BY <2>1, <2>3 DEF QueuedWait
<1>9. QueuedOnce'
  <2> SUFFICES ASSUME NEW g \in Shards, NEW n \in Positions(reqWQ'[g]),
                      NEW m \in Positions(reqWQ'[g]), reqWQ'[g][n] = reqWQ'[g][m]
               PROVE  n = m
    BY DEF QueuedOnce
  <2>1. CASE g = h
    <3>1. /\ n + 1 \in Positions(reqWQ[h]) /\ reqWQ'[h][n] = reqWQ[h][n + 1]
          /\ m + 1 \in Positions(reqWQ[h]) /\ reqWQ'[h][m] = reqWQ[h][m + 1]
      BY <1>3, <2>1
    <3>2. n + 1 = m + 1
      BY <2>1, <3>1 DEF QueuedOnce
    <3> QED
      BY <1>2, <2>1, <3>2
  <2>2. CASE g # h
    BY <1>1, <2>2 DEF QueuedOnce
  <2> QED
    BY <2>1, <2>2
<1>10. AnsweredInOrder'
  <2> SUFFICES ASSUME NEW i \in DOMAIN segs', NEW n \in Positions(segs'[i].reqList)
               PROVE  IF n > segs'[i].answered
                      THEN client[segs'[i].reqList[n]] = "waiting"
                      ELSE client[segs'[i].reqList[n]] \in {"answered", "commit", "returned"}
    BY DEF AnsweredInOrder
  <2>1. CASE i = t /\ n = p
    BY <1>4, <1>5, <2>1
  <2>2. CASE i # t \/ n # p
    BY <2>2 DEF AnsweredInOrder
  <2> QED
    BY <2>1, <2>2
<1>11. HeldOnce'
  <2> SUFFICES ASSUME NEW i \in DOMAIN segs', NEW j \in DOMAIN segs',
                      NEW n \in Positions(segs'[i].reqList), NEW m \in Positions(segs'[j].reqList),
                      segs'[i].reqList[n] = segs'[j].reqList[m]
               PROVE  i = j /\ n = m
    BY DEF HeldOnce
  <2>1. \A k \in DOMAIN segs' : \A q \in Positions(segs'[k].reqList) :
          k # t \/ q # p => segs'[k].reqList[q] # r
    BY <1>4 DEF Holds
  <2>2. CASE (i # t \/ n # p) /\ (j # t \/ m # p)
    BY <2>2 DEF HeldOnce
  <2> QED
    BY <1>5, <2>1, <2>2
<1>12. NoneLost'
  <2> SUFFICES ASSUME NEW a \in Reqs, client[a] # "new"
               PROVE  \/ \E n \in Positions(reqWQ'[ShardOf[KeyOf[a]]]) :
                           reqWQ'[ShardOf[KeyOf[a]]][n] = a
                      \/ \E i \in DOMAIN segs' : \E n \in Positions(segs'[i].reqList) :
                           segs'[i].reqList[n] = a
    BY DEF NoneLost, Holds
  <2> DEFINE s == ShardOf[KeyOf[a]]
  <2>1. s \in Shards
    BY WritePipelineAssumption
  <2>2. CASE a = r
    BY <1>5, <2>2
  <2>3. CASE \E i \in DOMAIN segs : Holds(i, a)
    BY <2>3 DEF Holds, NothingGone
  <2>4. CASE a # r /\ \E n \in Positions(reqWQ[s]) : reqWQ[s][n] = a
    <3> HIDE DEF s
    <3>1. \E n \in Positions(reqWQ'[s]) : reqWQ'[s][n] = a
      <4>1. PICK n \in Positions(reqWQ[s]) : reqWQ[s][n] = a
        BY <2>4
      <4>2. CASE s = h
        <5>1. n - 1 \in Positions(reqWQ'[h]) /\ reqWQ'[h][n - 1] = a
          BY <1>2, <1>3, <2>4, <4>1, <4>2
        <5> QED
          BY <4>2, <5>1
      <4> QED
        BY <1>1, <2>1, <4>1, <4>2
    <3> QED
      BY <3>1 DEF s
  <2> QED
    BY <2>2, <2>3, <2>4 DEF NoneLost
<1> QED
  BY <1>8, <1>9, <1>10, <1>11, <1>12

(* A client that issues a write is put in the queue of its shard.          *)
LEMMA WriteDataRequests ==
  ASSUME TypeOK, TypeOK', RequestInv, NEW r \in Reqs, WriteData(r)
  PROVE  RequestInv'
<1> DEFINE s == ShardOf[KeyOf[r]]
<1> USE DEF RequestInv
<1>1. /\ client[r] = "new" /\ client'[r] = "waiting"
      /\ \A a \in Reqs : a # r => client'[a] = client[a]
  BY DEF WriteData, TypeOK
<1>2. segs' = segs
  BY DEF WriteData
<1>3. s \in Shards /\ reqWQ[s] \in Seq(Reqs)
  BY WritePipelineAssumption DEF TypeOK
<1>4. reqWQ'[s] = Append(reqWQ[s], r) /\ \A h \in Shards : h # s => reqWQ'[h] = reqWQ[h]
  BY <1>3 DEF WriteData, TypeOK
<1> HIDE DEF s
<1>5. \A i, a : Holds(i, a)' <=> Holds(i, a)
  BY <1>2 DEF Holds
<1>6. /\ \A h \in Shards : h # s => reqWQ'[h] = reqWQ[h]
      /\ Positions(reqWQ'[s]) = Positions(reqWQ[s]) \cup {Len(reqWQ[s]) + 1}
      /\ Len(reqWQ[s]) + 1 \notin Positions(reqWQ[s])
      /\ reqWQ'[s][Len(reqWQ[s]) + 1] = r
      /\ \A n \in Positions(reqWQ[s]) : reqWQ'[s][n] = reqWQ[s][n]
  <2>2. /\ Positions(Append(reqWQ[s], r)) = Positions(reqWQ[s]) \cup {Len(reqWQ[s]) + 1}
        /\ Append(reqWQ[s], r)[Len(reqWQ[s]) + 1] = r
        /\ Len(reqWQ[s]) + 1 \notin Positions(reqWQ[s])
        /\ \A n \in Positions(reqWQ[s]) : Append(reqWQ[s], r)[n] = reqWQ[s][n]
    BY <1>3, AppendProperties DEF Positions
  <2> QED
    BY <1>4, <2>2
<1>7. \A h \in Shards : \A n \in Positions(reqWQ[h]) : reqWQ[h][n] \in Reqs
  BY QueueTypes
<1>8. \A i \in DOMAIN segs : \A n \in Positions(segs[i].reqList) :
        segs[i].reqList[n] \in Reqs /\ client[segs[i].reqList[n]] # "new"
  BY SegmentType DEF AnsweredInOrder
<1>9. ~(\E i \in DOMAIN segs : Holds(i, r))
  BY <1>1, <1>8 DEF Holds
<1>10. \A h \in Shards : \A n \in Positions(reqWQ[h]) : reqWQ[h][n] # r
  BY <1>1 DEF QueuedWait
<1>11. Counted'
  BY <1>2 DEF Counted, All
<1>12. QueuedWait'
  <2> SUFFICES ASSUME NEW h \in Shards, NEW n \in Positions(reqWQ'[h])
               PROVE  /\ ShardOf[KeyOf[reqWQ'[h][n]]] = h
                      /\ client'[reqWQ'[h][n]] = "waiting"
                      /\ \A i \in DOMAIN segs : \A m \in Positions(segs[i].reqList) :
                           segs[i].reqList[m] # reqWQ'[h][n]
    BY <1>2 DEF QueuedWait, Holds
  <2>1. CASE reqWQ'[h][n] = r /\ h = s
    <3>1. client'[r] = "waiting" /\ ShardOf[KeyOf[r]] = s
      BY <1>1 DEF TypeOK, s
    <3> QED
      BY <1>9, <2>1, <3>1 DEF Holds
  <2>2. CASE n \in Positions(reqWQ[h]) /\ reqWQ'[h][n] = reqWQ[h][n]
    <3>1. client'[reqWQ[h][n]] = "waiting"
      <4>1. reqWQ[h][n] \in Reqs /\ client[reqWQ[h][n]] = "waiting"
        BY <1>7, <2>2 DEF QueuedWait
      <4> QED
        BY <1>1, <4>1
    <3> QED
      BY <2>2, <3>1 DEF QueuedWait, Holds
  <2> QED
    BY <1>6, <2>1, <2>2
<1>13. QueuedOnce'
  <2> SUFFICES ASSUME NEW h \in Shards, NEW n \in Positions(reqWQ'[h]),
                      NEW m \in Positions(reqWQ'[h]), reqWQ'[h][n] = reqWQ'[h][m]
               PROVE  n = m
    BY DEF QueuedOnce
  <2>1. CASE h # s
    BY <1>6, <2>1 DEF QueuedOnce
  <2>2. CASE h = s
    <3>1. \A k \in Positions(reqWQ[s]) : reqWQ'[s][k] # r
      BY <1>3, <1>6, <1>10
    <3>2. CASE n \in Positions(reqWQ[s]) /\ m \in Positions(reqWQ[s])
      BY <1>3, <1>6, <2>2, <3>2 DEF QueuedOnce
    <3> QED
      BY <1>6, <2>2, <3>1, <3>2
  <2> QED
    BY <2>1, <2>2
<1>14. AnsweredInOrder'
  <2> SUFFICES ASSUME NEW i \in DOMAIN segs, NEW n \in Positions(segs[i].reqList)
               PROVE  IF n > segs[i].answered
                      THEN client'[segs[i].reqList[n]] = "waiting"
                      ELSE client'[segs[i].reqList[n]] \in {"answered", "commit", "returned"}
    BY <1>2 DEF AnsweredInOrder
  <2>1. client'[segs[i].reqList[n]] = client[segs[i].reqList[n]]
    BY <1>1, <1>8 DEF TypeOK
  <2> QED
    BY <2>1 DEF AnsweredInOrder
<1>15. HeldOnce'
  BY <1>2 DEF HeldOnce
<1>16. NoneLost'
  <2> SUFFICES ASSUME NEW a \in Reqs, client'[a] # "new"
               PROVE  \/ \E n \in Positions(reqWQ'[ShardOf[KeyOf[a]]]) :
                           reqWQ'[ShardOf[KeyOf[a]]][n] = a
                      \/ \E i \in DOMAIN segs : Holds(i, a)
    BY <1>2, <1>5 DEF NoneLost
  <2>1. CASE a = r
    BY <1>6, <2>1 DEF s
  <2>2. CASE a # r
    <3>1. client[a] # "new" /\ ShardOf[KeyOf[a]] \in Shards
      BY <1>1, <2>2, WritePipelineAssumption DEF TypeOK
    <3> QED
      BY <1>6, <3>1 DEF NoneLost
  <2> QED
    BY <2>1, <2>2
<1> QED
  BY <1>11, <1>12, <1>13, <1>14, <1>15, <1>16

(* Merging a request into a segment keeps each request in one place.       *)
LEMMA ReqMergeRequests ==
  ASSUME TypeOK, TypeOK', RequestInv, OpenShape, NEW h \in Shards, ReqMerge(h)
  PROVE  RequestInv'
<1> DEFINE i == segMap[h]
           r == Head(reqWQ[h])
<1>1. Popped(h) /\ r \in Reqs
  <2>1. reqWQ[h] \in Seq(Reqs) /\ reqWQ[h] # <<>>
    BY DEF TypeOK, ReqMerge
  <2>2. Popped(h)
    BY <2>1 DEF TypeOK, ReqMerge, Popped
  <2> QED
    BY <2>1, <2>2
<1> HIDE DEF r
<1>2. /\ i \in DOMAIN segs /\ segs[i].answered = 0 /\ UNCHANGED client
      /\ segs[i].reqList \in Seq(Reqs) /\ SegCap \in Nat \ {0}
  BY SegmentType, WritePipelineAssumption DEF TypeOK, ReqMerge, OpenShape
<1>3. CASE Fits(i) /\ segs' = [segs EXCEPT ![segMap[h]].reqList = Append(@, r)]
  <2>1. /\ DOMAIN segs' = DOMAIN segs
        /\ \A j \in DOMAIN segs :
              /\ segs'[j].reqList = IF j = i THEN Append(segs[j].reqList, r) ELSE segs[j].reqList
              /\ segs'[j].answered = segs[j].answered
    BY <1>1, <1>3, FitsEffect
  <2> DEFINE p == Len(segs[i].reqList) + 1
             new == Append(segs[i].reqList, r)
  <2>2. /\ Positions(new) = Positions(segs[i].reqList) \cup {p}
        /\ p \notin Positions(segs[i].reqList) /\ new[p] = r /\ p > 0
        /\ Len(new) = p /\ p <= SegCap
        /\ \A n \in Positions(segs[i].reqList) : new[n] = segs[i].reqList[n]
    BY <1>1, <1>2, <1>3, AppendProperties DEF Positions, Fits
  <2>3. segs'[i].reqList = new /\ segs'[i].answered = 0
    BY <1>2, <2>1
  <2> HIDE DEF p, new, i
  <2>4. Counted'
    <3> SUFFICES ASSUME NEW j \in DOMAIN segs
                 PROVE  segs'[j].answered <= Len(segs'[j].reqList)
                        /\ Len(segs'[j].reqList) <= SegCap
      BY <2>1 DEF Counted, All
    <3>1. CASE j = i
      BY <2>2, <2>3, <3>1, <1>2
    <3>2. CASE j # i
      BY <2>1, <3>2 DEF RequestInv, Counted, All
    <3> QED
      BY <3>1, <3>2
  <2>5. NothingGone
    <3> SUFFICES ASSUME NEW j \in DOMAIN segs, NEW n \in Positions(segs[j].reqList)
                 PROVE  n \in Positions(segs'[j].reqList)
                        /\ segs'[j].reqList[n] = segs[j].reqList[n]
      BY <2>1 DEF NothingGone
    <3> QED
      BY <2>1, <2>2, <2>3
  <2>6. \A j \in DOMAIN segs' : \A n \in Positions(segs'[j].reqList) :
          j # i \/ n # p =>
            /\ j \in DOMAIN segs /\ n \in Positions(segs[j].reqList)
            /\ segs'[j].reqList[n] = segs[j].reqList[n]
            /\ segs'[j].answered = segs[j].answered
    <3> SUFFICES ASSUME NEW j \in DOMAIN segs, NEW n \in Positions(segs'[j].reqList),
                        j # i \/ n # p
                 PROVE  /\ n \in Positions(segs[j].reqList)
                        /\ segs'[j].reqList[n] = segs[j].reqList[n]
                        /\ segs'[j].answered = segs[j].answered
      BY <2>1
    <3>1. CASE j = i
      BY <2>1, <2>2, <2>3, <3>1
    <3> QED
      BY <2>1, <3>1
  <2>7. /\ i \in DOMAIN segs' /\ p \in Positions(segs'[i].reqList)
        /\ segs'[i].reqList[p] = r /\ p > segs'[i].answered
    BY <1>2, <2>1, <2>2, <2>3
  <2> QED
    BY <1>1, <1>2, <2>4, <2>5, <2>6, <2>7, RequestMoves DEF r
<1>4. CASE Replaced(h, <<r>>)
  <2>1. <<r>> \in Seq(Reqs) /\ Len(<<r>>) = 1 /\ <<r>>[1] = r
    BY <1>1
  <2> DEFINE t == Len(segs) + 1
  <2>2. /\ DOMAIN segs' = DOMAIN segs \cup {t} /\ t \notin DOMAIN segs
        /\ \A j \in DOMAIN segs :
             segs'[j].reqList = segs[j].reqList /\ segs'[j].answered = segs[j].answered
        /\ segs'[t].reqList = <<r>> /\ segs'[t].answered = 0
    <3>1. Opened(<<r>>).reqList = <<r>> /\ Opened(<<r>>).answered = 0
      BY <2>1, OpenedType
    <3>2. /\ DOMAIN segs' = DOMAIN segs \cup {t} /\ t \notin DOMAIN segs
          /\ \A j \in DOMAIN segs :
               segs'[j].reqList = segs[j].reqList /\ segs'[j].answered = segs[j].answered
          /\ segs'[t] = Opened(<<r>>)
      BY <1>4, <2>1, ReplacedEffect
    <3> HIDE DEF t
    <3> QED
      BY <3>1, <3>2
  <2> HIDE DEF t
  <2>3. /\ 1 \in Positions(segs'[t].reqList) /\ segs'[t].reqList[1] = r
        /\ \A n \in Positions(segs'[t].reqList) : n = 1
        /\ Len(segs'[t].reqList) = 1 /\ segs'[t].answered = 0
    BY <2>1, <2>2 DEF Positions
  <2>4. Counted'
    <3> SUFFICES ASSUME NEW j \in DOMAIN segs'
                 PROVE  segs'[j].answered <= Len(segs'[j].reqList)
                        /\ Len(segs'[j].reqList) <= SegCap
      BY DEF Counted, All
    <3>1. CASE j = t
      <4>1. Len(segs'[j].reqList) = 1 /\ segs'[j].answered = 0
        BY <2>3, <3>1
      <4>2. SegCap \in Nat \ {0}
        BY <1>2
      <4> QED
        BY <4>1, <4>2
    <3>2. CASE j \in DOMAIN segs
      BY <2>2, <3>2 DEF RequestInv, Counted, All
    <3> QED
      BY <2>2, <3>1, <3>2
  <2>5. NothingGone
    BY <2>2 DEF NothingGone
  <2>6. \A j \in DOMAIN segs' : \A n \in Positions(segs'[j].reqList) :
          j # t \/ n # 1 =>
            /\ j \in DOMAIN segs /\ n \in Positions(segs[j].reqList)
            /\ segs'[j].reqList[n] = segs[j].reqList[n]
            /\ segs'[j].answered = segs[j].answered
    BY <2>2, <2>3
  <2>7. t \in DOMAIN segs' /\ 1 > segs'[t].answered
    BY <2>2
  <2> QED
    BY <1>1, <1>2, <2>3, <2>4, <2>5, <2>6, <2>7, RequestMoves DEF r
<1> QED
  BY <1>3, <1>4 DEF ReqMerge, r

(* A timeout keeps each request in one place.                              *)
LEMMA SegTimeoutRequests ==
  ASSUME TypeOK, TypeOK', RequestInv, NEW h \in Shards, SegTimeout(h)
  PROVE  RequestInv'
<1> DEFINE t == Len(segs) + 1
<1>1. <<>> \in Seq(Reqs) /\ Len(<<>>) = 0
  OBVIOUS
<1>2. /\ DOMAIN segs' = DOMAIN segs \cup {t} /\ t \notin DOMAIN segs
      /\ \A j \in DOMAIN segs :
           segs'[j].reqList = segs[j].reqList /\ segs'[j].answered = segs[j].answered
      /\ segs'[t].reqList = <<>> /\ segs'[t].answered = 0
  <2>1. Opened(<<>>).reqList = <<>> /\ Opened(<<>>).answered = 0
    BY <1>1, OpenedType
  <2>2. /\ DOMAIN segs' = DOMAIN segs \cup {t} /\ t \notin DOMAIN segs
        /\ \A j \in DOMAIN segs :
             segs'[j].reqList = segs[j].reqList /\ segs'[j].answered = segs[j].answered
        /\ segs'[t] = Opened(<<>>)
    <3>1. Replaced(h, <<>>)
      BY DEF SegTimeout
    <3> QED
      BY <1>1, <3>1, ReplacedEffect
  <2> HIDE DEF t
  <2> QED
    BY <2>1, <2>2
<1> HIDE DEF t
<1>3. Positions(segs'[t].reqList) = {}
  BY <1>1, <1>2 DEF Positions
<1>4. Counted'
  <2> SUFFICES ASSUME NEW j \in DOMAIN segs'
               PROVE  segs'[j].answered <= Len(segs'[j].reqList)
                      /\ Len(segs'[j].reqList) <= SegCap
    BY DEF Counted, All
  <2>1. CASE j = t
    BY <1>1, <1>2, <2>1, WritePipelineAssumption
  <2>2. CASE j \in DOMAIN segs
    BY <1>2, <2>2 DEF RequestInv, Counted, All
  <2> QED
    BY <1>2, <2>1, <2>2
<1>5. NothingNew
  BY <1>2, <1>3 DEF NothingNew
<1>6. NothingGone
  BY <1>2 DEF NothingGone
<1>7. UNCHANGED <<client, reqWQ>>
  BY DEF SegTimeout
<1> QED
  BY <1>4, <1>5, <1>6, <1>7, RequestsStay

(* An answer keeps each request in one place.                              *)
LEMMA AnswerRequests ==
  ASSUME TypeOK, TypeOK', RequestInv, WriterShape, NEW w \in SegWriters, Answer(w)
  PROVE  RequestInv'
<1> DEFINE i == writer[w].seg
           a == segs[i].answered + 1
           r == segs[i].reqList[a]
<1> USE DEF RequestInv
<1>1. /\ DOMAIN segs' = DOMAIN segs /\ i \in DOMAIN segs
      /\ \A j \in DOMAIN segs :
           /\ segs'[j].reqList = segs[j].reqList
           /\ segs'[j].answered = IF j = i THEN a ELSE segs[j].answered
      /\ a \in Positions(segs[i].reqList)
  BY AnswerEffect
<1>2. /\ segs[i].answered \in Nat /\ a \in Nat /\ a > segs[i].answered
      /\ Len(segs[i].reqList) \in Nat /\ r \in Reqs /\ a <= Len(segs[i].reqList)
  BY <1>1, SegmentType DEF Positions
<1>3. /\ client'[r] = "answered" /\ \A b \in Reqs : b # r => client'[b] = client[b]
      /\ reqWQ' = reqWQ
  <2>1. client' = [client EXCEPT ![r] = "answered"] /\ reqWQ' = reqWQ
    BY DEF Answer
  <2> HIDE DEF r
  <2> QED
    BY <1>2, <2>1, ClientSet
<1>4. client[r] = "waiting"
  BY <1>1, <1>2 DEF AnsweredInOrder
<1> HIDE DEF r, i
<1>5. \A h \in Shards : \A n \in Positions(reqWQ[h]) : reqWQ[h][n] \in Reqs /\ reqWQ[h][n] # r
  <2>1. Holds(i, r)
    BY <1>1 DEF Holds, r
  <2>2. \A h \in Shards : \A n \in Positions(reqWQ[h]) : reqWQ[h][n] \in Reqs
    BY DEF TypeOK, Positions
  <2> QED
    BY <1>1, <2>1, <2>2 DEF QueuedWait
<1>6. Counted'
  <2> SUFFICES ASSUME NEW j \in DOMAIN segs
               PROVE  segs'[j].answered <= Len(segs'[j].reqList)
                      /\ Len(segs'[j].reqList) <= SegCap
    BY <1>1 DEF Counted, All
  <2> HIDE DEF a
  <2>1. Len(segs[j].reqList) <= SegCap /\ segs[j].answered <= Len(segs[j].reqList)
    BY DEF Counted, All
  <2> QED
    BY <1>1, <1>2, <2>1
<1>7. QueuedWait'
  <2> SUFFICES ASSUME NEW h \in Shards, NEW n \in Positions(reqWQ[h])
               PROVE  /\ ShardOf[KeyOf[reqWQ[h][n]]] = h
                      /\ client'[reqWQ[h][n]] = "waiting"
                      /\ \A j \in DOMAIN segs : \A m \in Positions(segs[j].reqList) :
                           segs[j].reqList[m] # reqWQ[h][n]
    BY <1>1, <1>3 DEF QueuedWait, Holds
  <2>1. client'[reqWQ[h][n]] = "waiting"
    BY <1>3, <1>5 DEF QueuedWait
  <2> QED
    BY <2>1 DEF QueuedWait, Holds
<1>8. QueuedOnce'
  BY <1>3 DEF QueuedOnce
<1>9. HeldOnce'
  BY <1>1 DEF HeldOnce
<1>10. AnsweredInOrder'
  <2> SUFFICES ASSUME NEW j \in DOMAIN segs, NEW n \in Positions(segs[j].reqList)
               PROVE  IF n > segs'[j].answered
                      THEN client'[segs[j].reqList[n]] = "waiting"
                      ELSE client'[segs[j].reqList[n]] \in {"answered", "commit", "returned"}
    BY <1>1 DEF AnsweredInOrder
  <2>1. CASE j = i /\ n = a
    BY <1>1, <1>2, <1>3, <2>1 DEF r
  <2>2. CASE j # i \/ n # a
    <3>1. segs[j].reqList[n] # r
      BY <1>1, <2>2 DEF HeldOnce, r
    <3>2. client'[segs[j].reqList[n]] = client[segs[j].reqList[n]]
      BY <1>3, <3>1, SegmentType
    <3>3. n > segs'[j].answered <=> n > segs[j].answered
      <4>1. CASE j # i
        BY <1>1, <4>1
      <4>2. CASE j = i /\ n # a
        <5>1. n \in Nat
          BY <4>2, <1>2 DEF Positions
        <5> QED
          BY <1>1, <1>2, <4>2, <5>1
      <4> QED
        BY <2>2, <4>1, <4>2
    <3> QED
      BY <3>2, <3>3 DEF AnsweredInOrder
  <2> QED
    BY <2>1, <2>2
<1>11. NoneLost'
  <2> SUFFICES ASSUME NEW b \in Reqs, client'[b] # "new"
               PROVE  \/ \E n \in Positions(reqWQ[ShardOf[KeyOf[b]]]) :
                           reqWQ[ShardOf[KeyOf[b]]][n] = b
                      \/ \E j \in DOMAIN segs : \E n \in Positions(segs[j].reqList) :
                           segs[j].reqList[n] = b
    BY <1>1, <1>3 DEF NoneLost, Holds
  <2>1. client[b] # "new"
    BY <1>3, <1>4
  <2> QED
    BY <2>1 DEF NoneLost, Holds
<1> QED
  BY <1>6, <1>7, <1>8, <1>9, <1>10, <1>11

(* No step loses a request, holds it twice or answers it out of order:     *)
(* from the queue of its shard a request goes into one segment (ReqMerge)  *)
(* and is answered there by the writer of that segment (Notify).           *)
THEOREM RequestStep ==
  ASSUME PipelineInv, TypeOK', [Next]_vars
  PROVE  RequestInv'
<1> USE DEF PipelineInv, SegmentInv, ReapInv, VisibleInv
<1>1. ASSUME UNCHANGED segs PROVE NothingNew /\ NothingGone /\ Counted'
  BY <1>1, SegsSame, SameListsKeep DEF RequestInv
<1>2. ASSUME UNCHANGED <<segs, reqWQ>>,
             \A r \in Reqs : client'[r] = client[r] \/ {client[r], client'[r]} \subseteq Late
      PROVE  RequestInv'
  BY <1>1, <1>2, RequestsStay
<1>3. CASE UNCHANGED vars
  BY <1>2, <1>3 DEF vars
<1>4. ASSUME NEW r \in Reqs, WriteData(r) \/ ClientGoesOn(r) PROVE RequestInv'
  <2>1. CASE WriteData(r)
    BY <2>1, WriteDataRequests
  <2>2. CASE ReturnFailure(r) \/ UpdateIndex(r) \/ UpdateIndexRefused(r)
    <3>1. UNCHANGED <<segs, reqWQ>>
      BY <2>2 DEF ReturnFailure, UpdateIndex, UpdateIndexRefused, pipeVars
    <3>2. \A a \in Reqs : client'[a] = client[a] \/ {client[a], client'[a]} \subseteq Late
      <4>1. PICK at \in Late : client' = [client EXCEPT ![r] = at]
        BY <2>2 DEF ReturnFailure, UpdateIndex, UpdateIndexRefused, Late
      <4>2. client[r] \in Late
        BY <2>2 DEF ReturnFailure, UpdateIndex, UpdateIndexRefused, Late
      <4> QED
        BY <4>1, <4>2, ClientSet
    <3> QED
      BY <1>2, <3>1, <3>2
  <2>3. CASE Commit(r)
    <3>1. SameLists
      BY <2>3, CommitEffect
    <3>2. /\ UNCHANGED reqWQ
          /\ \A a \in Reqs : client'[a] = client[a] \/ {client[a], client'[a]} \subseteq Late
      BY <2>3 DEF Commit, TypeOK, Late
    <3> QED
      BY <3>1, <3>2, SameListsKeep, RequestsStay DEF RequestInv
  <2> QED
    BY <1>4, <2>1, <2>2, <2>3 DEF ClientGoesOn
<1>5. ASSUME NEW h \in Shards, ReqMerge(h) \/ SegTimeout(h) PROVE RequestInv'
  BY <1>5, ReqMergeRequests, SegTimeoutRequests
<1>6. ASSUME NEW w \in SegWriters, SegWrite(w) PROVE RequestInv'
  <2>1. CASE Answer(w)
    BY <2>1, AnswerRequests
  <2>2. CASE NotifyStart(w)
    <3>1. SameLists
      BY <2>2, NotifyStartEffect DEF RequestInv
    <3>2. UNCHANGED <<reqWQ, client>>
      BY <2>2 DEF NotifyStart
    <3> QED
      BY <3>1, <3>2, SameListsKeep, RequestsStay DEF RequestInv
  <2>3. CASE ~NotifyStart(w) /\ ~Answer(w)
    <3>1. UNCHANGED <<segs, reqWQ, client>>
      BY <1>6, <2>3 DEF SegWrite, SegWriteStart, Allocated, NotAllocated, Written, NotifyEnd, pipeVars
    <3> QED
      BY <1>2, <3>1
  <2> QED
    BY <2>1, <2>2, <2>3
<1>7. CASE SegReaper
  <2>1. CASE ReapEnd
    <3>1. SameLists
      BY <2>1, ReapEndEffect
    <3>2. UNCHANGED <<reqWQ, client>>
      BY <2>1 DEF ReapEnd
    <3> QED
      BY <3>1, <3>2, SameListsKeep, RequestsStay DEF RequestInv
  <2>2. CASE ReapStart \/ ReapEntry
    BY <1>2, <2>2 DEF ReapStart, ReapEntry, pipeVars
  <2> QED
    BY <1>7, <2>1, <2>2 DEF SegReaper
<1> QED
  BY <1>3, <1>4, <1>5, <1>6, <1>7 DEF Next

-----------------------------------------------------------------------------
(* Where the segments are. *)

(* A segment without unanswered requests has answered all of them.         *)
LEMMA AllAnswered ==
  ASSUME TypeOK, Counted, NEW i \in DOMAIN segs
  PROVE  Unanswered(i) = {} => segs[i].answered = All(i)
<1> SUFFICES ASSUME segs[i].answered # All(i) PROVE Unanswered(i) # {}
  OBVIOUS
<1>1. All(i) \in Positions(segs[i].reqList) /\ All(i) > segs[i].answered
  BY SegmentType DEF Counted, All, Positions
<1> QED
  BY <1>1 DEF Unanswered

(* Segments are numbered from 1.                                           *)
LEMMA NumbersPositive ==
  ASSUME TypeOK
  PROVE  DOMAIN segs \subseteq Nat \ {0} /\ DOMAIN segs = 1 .. Len(segs)
BY DEF TypeOK

(* Steps that leave the places of the segments alone; only an open segment *)
(* may get requests.                                                       *)
LEMMA SegmentsStay ==
  ASSUME TypeOK, TypeOK', SegmentInv, DOMAIN segs' = DOMAIN segs, SamePhases,
         \A i \in DOMAIN segs :
           /\ segs'[i].answered = segs[i].answered
           /\ segs[i].phase # "open" => segs'[i].reqList = segs[i].reqList,
         UNCHANGED <<segMap, segWteWQ, writer, keepsTrying>>
  PROVE  SegmentInv'
<1> USE DEF SegmentInv, SamePhases
<1>1. OpenShape'
  BY DEF OpenShape, TypeOK
<1>2. QueueShape'
  <2>1. \A n \in Positions(segWteWQ) : segWteWQ[n] \in DOMAIN segs
    BY DEF TypeOK, Positions
  <2> QED
    BY <2>1 DEF QueueShape
<1>3. WriterShape'
  <2> SUFFICES ASSUME NEW w \in SegWriters, writer[w].at # "idle" PROVE Busy(w)'
    BY DEF WriterShape, IdleWriter
  <2> DEFINE i == writer[w].seg
  <2>1. i \in DOMAIN segs /\ segs[i].phase = "completed" /\ Busy(w)
    BY DEF WriterShape, Busy, TypeOK, Writers
  <2>2. /\ segs'[i].phase = "completed" /\ segs'[i].answered = segs[i].answered
        /\ segs'[i].reqList = segs[i].reqList
    BY <2>1
  <2> QED
    BY <2>1, <2>2 DEF Busy, All
<1>4. Finished'
  BY DEF Finished, All
<1> QED
  BY <1>1, <1>2, <1>3, <1>4

(* The open segment of a shard goes to the queue of the writers.           *)
LEMMA ReplacedSegments ==
  ASSUME TypeOK, TypeOK', SegmentInv, NEW h \in Shards, NEW rs \in Seq(Reqs), Replaced(h, rs),
         UNCHANGED <<writer, keepsTrying>>
  PROVE  SegmentInv'
<1> DEFINE o == segMap[h]
           t == Len(segs) + 1
<1> USE DEF SegmentInv
<1>1. /\ DOMAIN segs' = DOMAIN segs \cup {t} /\ t \notin DOMAIN segs /\ o \in DOMAIN segs
      /\ \A i \in DOMAIN segs :
           /\ segs'[i].reqList = segs[i].reqList /\ segs'[i].answered = segs[i].answered
           /\ segs'[i].phase = IF i = o THEN "completed" ELSE segs[i].phase
      /\ t \in Nat \ {0}
  <2>1. /\ DOMAIN segs' = DOMAIN segs \cup {t} /\ t \notin DOMAIN segs /\ o \in DOMAIN segs
        /\ Len(segs) \in Nat
        /\ \A i \in DOMAIN segs :
             /\ segs'[i].reqList = segs[i].reqList /\ segs'[i].answered = segs[i].answered
             /\ segs'[i].phase = IF i = o THEN "completed" ELSE segs[i].phase
    BY ReplacedEffect
  <2>2. t \in Nat \ {0}
    BY <2>1
  <2> QED
    BY <2>1, <2>2
<1>2. segs'[t].answered = 0 /\ segs'[t].phase = "open"
  <2>1. Opened(rs).answered = 0 /\ Opened(rs).phase = "open"
    BY OpenedType
  <2>2. segs'[t] = Opened(rs)
    BY ReplacedEffect
  <2> QED
    BY <2>1, <2>2
<1>3. segMap'[h] = t /\ \A g \in Shards : g # h => segMap'[g] = segMap[g]
  <2>1. segMap' = [segMap EXCEPT ![h] = t]
    BY DEF Replaced
  <2>2. segMap \in [Shards -> DOMAIN segs]
    BY DEF TypeOK
  <2> HIDE DEF t
  <2> QED
    BY <2>1, <2>2
<1>4. /\ \A n \in Positions(segWteWQ) : segWteWQ[n] \in DOMAIN segs
      /\ Positions(segWteWQ') = Positions(segWteWQ) \cup {Len(segWteWQ) + 1}
      /\ segWteWQ'[Len(segWteWQ) + 1] = o
      /\ \A n \in Positions(segWteWQ) : segWteWQ'[n] = segWteWQ[n]
  <2>1. segWteWQ \in Seq(DOMAIN segs)
    BY DEF TypeOK
  <2>2. segWteWQ' = Append(segWteWQ, o)
    BY DEF Replaced
  <2> HIDE DEF o
  <2> QED
    BY <1>1, <2>1, <2>2, AppendProperties DEF Positions
<1>5. /\ segs[o].phase = "open" /\ segs[o].answered = 0
      /\ \A g \in Shards : g # h => segMap[g] # o /\ segMap[g] \in DOMAIN segs
  BY <1>1 DEF OpenShape, TypeOK
<1>6. \A w \in SegWriters : writer[w].seg # o
  <2>1. \A w \in SegWriters : writer[w].at = "idle" => writer[w].seg = 0
    BY DEF WriterShape, IdleWriter
  <2>2. o # 0
    BY <1>1, NumbersPositive
  <2> HIDE DEF o
  <2> QED
    BY <1>5, <2>1, <2>2 DEF WriterShape, Busy
<1>7. \A n \in Positions(segWteWQ) : segWteWQ[n] # o
  BY <1>5 DEF QueueShape
<1> HIDE DEF o, t
<1>8. OpenShape'
  <2>1. \A g, k \in Shards : segMap'[g] = segMap'[k] => g = k
    BY <1>1, <1>3, <1>5 DEF OpenShape
  <2>2. \A g \in Shards : segs'[segMap'[g]].phase = "open"
    BY <1>1, <1>2, <1>3, <1>5 DEF OpenShape
  <2>3. \A i \in DOMAIN segs' : segs'[i].phase = "open" =>
          segs'[i].answered = 0 /\ \E g \in Shards : segMap'[g] = i
    <3> SUFFICES ASSUME NEW i \in DOMAIN segs', segs'[i].phase = "open"
                 PROVE  segs'[i].answered = 0 /\ \E g \in Shards : segMap'[g] = i
      OBVIOUS
    <3>1. CASE i = t
      BY <1>2, <1>3, <3>1
    <3>2. CASE i \in DOMAIN segs
      <4>1. i # o /\ segs[i].phase = "open"
        BY <1>1, <3>2
      <4>2. PICK g \in Shards : segMap[g] = i
        BY <3>2, <4>1 DEF OpenShape
      <4>3. g # h
        BY <4>1, <4>2 DEF o
      <4> QED
        BY <1>1, <1>3, <3>2, <4>1, <4>2, <4>3 DEF OpenShape
    <3> QED
      BY <1>1, <3>1, <3>2
  <2> QED
    BY <2>1, <2>2, <2>3 DEF OpenShape
<1>9. QueueShape'
  <2>1. \A n, m \in Positions(segWteWQ') : segWteWQ'[n] = segWteWQ'[m] => n = m
    BY <1>4, <1>7 DEF QueueShape
  <2>2. \A n \in Positions(segWteWQ') :
          /\ segs'[segWteWQ'[n]].phase = "completed"
          /\ segs'[segWteWQ'[n]].answered = 0
          /\ \A w \in SegWriters : writer'[w].seg # segWteWQ'[n]
    <3> SUFFICES ASSUME NEW n \in Positions(segWteWQ')
                 PROVE  /\ segs'[segWteWQ'[n]].phase = "completed"
                        /\ segs'[segWteWQ'[n]].answered = 0
                        /\ \A w \in SegWriters : writer[w].seg # segWteWQ'[n]
      OBVIOUS
    <3>1. CASE segWteWQ'[n] = o
      BY <1>1, <1>5, <1>6, <3>1
    <3>2. CASE n \in Positions(segWteWQ) /\ segWteWQ'[n] = segWteWQ[n]
      BY <1>1, <1>4, <3>2 DEF QueueShape
    <3> QED
      BY <1>4, <3>1, <3>2
  <2> QED
    BY <2>1, <2>2 DEF QueueShape
<1>10. WriterShape'
  <2> SUFFICES ASSUME NEW w \in SegWriters, writer[w].at # "idle" PROVE Busy(w)'
    BY DEF WriterShape, IdleWriter
  <2> DEFINE i == writer[w].seg
  <2>1. i \in DOMAIN segs /\ segs[i].phase = "completed" /\ Busy(w)
    BY DEF WriterShape, Busy, TypeOK, Writers
  <2>2. /\ segs'[i].phase = "completed" /\ segs'[i].answered = segs[i].answered
        /\ segs'[i].reqList = segs[i].reqList
    BY <1>1, <2>1
  <2> QED
    BY <2>1, <2>2 DEF Busy, All
<1>11. Finished'
  <2> SUFFICES ASSUME NEW i \in DOMAIN segs'
               PROVE  /\ segs'[i].phase = "deleted" => segs'[i].answered = All(i)'
                      /\ segs'[i].phase = "completed" =>
                           \/ \E n \in Positions(segWteWQ') : segWteWQ'[n] = i
                           \/ \E w \in SegWriters : writer[w].seg = i
                           \/ segs'[i].answered = All(i)'
    BY DEF Finished
  <2>1. CASE i = t
    BY <1>2, <2>1
  <2>2. CASE i = o
    BY <1>1, <1>4, <2>2
  <2>3. CASE i \in DOMAIN segs /\ i # o
    <3>1. segs'[i].phase = segs[i].phase /\ segs'[i].answered = segs[i].answered
          /\ All(i)' = All(i)
      BY <1>1, <2>3 DEF All
    <3> QED
      BY <1>4, <2>3, <3>1 DEF Finished
  <2> QED
    BY <1>1, <2>1, <2>2, <2>3
<1> QED
  BY <1>8, <1>9, <1>10, <1>11

(* A writer goes on with its segment.                                      *)
LEMMA WriterMoves ==
  ASSUME TypeOK, TypeOK', SegmentInv, SameLists, SamePhases,
         UNCHANGED <<segMap, segWteWQ, keepsTrying>>,
         NEW w \in SegWriters, writer[w].at # "idle", writer'[w].at # "idle",
         writer'[w].seg = writer[w].seg,
         \A v \in SegWriters : v # w => writer'[v] = writer[v],
         writer'[w].at \in Answering \/ segs[writer[w].seg].answered \in {0, All(writer[w].seg)},
         writer'[w].at \in {"alloc", "write"} =>
           IF writer'[w].ok THEN segs[writer[w].seg].answered = 0
           ELSE keepsTrying /\ segs[writer[w].seg].answered = All(writer[w].seg),
         writer'[w].at \in {"notify", "answer"} => ~writer'[w].ok
  PROVE  SegmentInv'
<1> USE DEF SegmentInv
<1>1. \A v \in SegWriters : writer'[v].seg = writer[v].seg
  OBVIOUS
<1>2. \A i \in DOMAIN segs : /\ segs'[i].phase = segs[i].phase
                             /\ segs'[i].answered = segs[i].answered
                             /\ All(i)' = All(i)
  BY DEF SamePhases, SameLists, All
<1>3. DOMAIN segs' = DOMAIN segs
  BY DEF SameLists
<1>4. OpenShape'
  <2>1. \A h \in Shards : segMap[h] \in DOMAIN segs
    BY DEF TypeOK
  <2> QED
    BY <1>2, <1>3, <2>1 DEF OpenShape
<1>5. QueueShape'
  <2>1. \A n \in Positions(segWteWQ) : segWteWQ[n] \in DOMAIN segs
    BY DEF TypeOK, Positions
  <2> QED
    BY <1>1, <1>2, <2>1 DEF QueueShape
<1>6. WriterShape'
  <2> SUFFICES ASSUME NEW u \in SegWriters
               PROVE  IF writer'[u].at = "idle" THEN writer'[u] = IdleWriter ELSE Busy(u)'
    BY DEF WriterShape, IdleWriter
  <2>1. CASE u # w /\ writer[u].at = "idle"
    BY <2>1 DEF WriterShape
  <2>2. CASE u = w \/ writer[u].at # "idle"
    <3> DEFINE i == writer[u].seg
    <3>1. i \in DOMAIN segs /\ i # 0 /\ segs[i].phase = "completed" /\ Busy(u)
          /\ \A v \in SegWriters : writer[v].seg = i => v = u
      BY <2>2 DEF WriterShape, Busy, TypeOK, Writers
    <3>2. /\ segs'[i].phase = "completed" /\ segs'[i].answered = segs[i].answered
          /\ Len(segs'[i].reqList) = Len(segs[i].reqList)
      BY <1>2, <3>1 DEF All
    <3>3. writer'[u].seg = i
      BY <1>1
    <3>4. writer'[u].at # "idle" /\ \A v \in SegWriters : writer'[v].seg = i => v = u
      BY <1>1, <2>2, <3>1
    <3>5. /\ writer'[u].at \in Answering \/ segs[i].answered \in {0, Len(segs[i].reqList)}
          /\ writer'[u].at \in {"alloc", "write"} =>
               IF writer'[u].ok THEN segs[i].answered = 0
               ELSE keepsTrying /\ segs[i].answered = Len(segs[i].reqList)
          /\ writer'[u].at \in {"notify", "answer"} => ~writer'[u].ok
      <4>1. CASE u = w
        BY <4>1 DEF All
      <4>2. CASE u # w
        <5>1. writer'[u] = writer[u]
          BY <4>2
        <5> QED
          BY <3>1, <5>1 DEF Busy, All
      <4> QED
        BY <4>1, <4>2
    <3> HIDE DEF i
    <3> QED
      BY <3>1, <3>2, <3>3, <3>4, <3>5 DEF Busy, All
  <2> QED
    BY <2>1, <2>2
<1>7. Finished'
  <2> SUFFICES ASSUME NEW i \in DOMAIN segs
               PROVE  /\ segs'[i].phase = "deleted" => segs'[i].answered = All(i)'
                      /\ segs'[i].phase = "completed" =>
                           \/ \E n \in Positions(segWteWQ) : segWteWQ[n] = i
                           \/ \E v \in SegWriters : writer'[v].seg = i
                           \/ segs'[i].answered = All(i)'
    BY <1>3 DEF Finished
  <2> QED
    BY <1>1, <1>2 DEF Finished
<1> QED
  BY <1>4, <1>5, <1>6, <1>7

(* What a step does to its writer.                                         *)
LEMMA WriterSet ==
  ASSUME TypeOK, NEW w \in SegWriters, NEW v, writer' = [writer EXCEPT ![w] = v]
  PROVE  writer'[w] = v /\ \A u \in SegWriters : u # w => writer'[u] = writer[u]
BY DEF TypeOK

(* What the types say of one writer.                                       *)
LEMMA WriterType ==
  ASSUME TypeOK, NEW w \in SegWriters
  PROVE  /\ writer[w] = [at |-> writer[w].at, seg |-> writer[w].seg, ok |-> writer[w].ok]
         /\ writer[w].seg \in {0} \cup DOMAIN segs
         /\ writer[w].ok \in BOOLEAN
BY DEF TypeOK, Writers

(* A writer that got space goes on to write.                               *)
LEMMA AllocatedWriter ==
  ASSUME TypeOK, NEW w \in SegWriters, Allocated(w)
  PROVE  /\ writer'[w].at = "write" /\ writer'[w].seg = writer[w].seg
         /\ writer'[w].ok = writer[w].ok
         /\ \A v \in SegWriters : v # w => writer'[v] = writer[v]
<1>1. writer \in [SegWriters -> Writers] /\ writer[w] \in Writers
  BY DEF TypeOK
<1>2. writer' = [writer EXCEPT ![w] = [writer[w] EXCEPT !.at = "write"]]
  BY DEF Allocated
<1> QED
  BY <1>1, <1>2 DEF Writers

(* A writer that got none notifies its failure.                            *)
LEMMA NotAllocatedWriter ==
  ASSUME TypeOK, NEW w \in SegWriters, NotAllocated(w)
  PROVE  /\ writer'[w].at = "notify" /\ writer'[w].seg = writer[w].seg /\ ~writer'[w].ok
         /\ \A v \in SegWriters : v # w => writer'[v] = writer[v]
<1>1. writer \in [SegWriters -> Writers] /\ writer[w] \in Writers
  BY DEF TypeOK
<1>2. writer' = [writer EXCEPT ![w] = [writer[w] EXCEPT !.at = "notify", !.ok = FALSE]]
  BY DEF NotAllocated
<1> QED
  BY <1>1, <1>2 DEF Writers

(* A writer that wrote goes on to notify the result.                       *)
LEMMA WrittenWriter ==
  ASSUME TypeOK, NEW w \in SegWriters, NEW ok \in BOOLEAN, Written(w, ok)
  PROVE  /\ writer'[w].at = "notifyWritten" /\ writer'[w].seg = writer[w].seg
         /\ writer'[w].ok = ok
         /\ \A v \in SegWriters : v # w => writer'[v] = writer[v]
<1>1. writer \in [SegWriters -> Writers] /\ writer[w] \in Writers
  BY DEF TypeOK
<1>2. writer' = [writer EXCEPT ![w] = [writer[w] EXCEPT !.at = "notifyWritten", !.ok = ok]]
  BY DEF Written
<1> QED
  BY <1>1, <1>2 DEF Writers

(* A writer that notified all is idle, or tries again.                     *)
LEMMA NotifyEndWriter ==
  ASSUME TypeOK, NEW w \in SegWriters, NotifyEnd(w)
  PROVE  /\ writer'[w] =
              IF writer[w].at = "answer" /\ keepsTrying
              THEN [at |-> "alloc", seg |-> writer[w].seg, ok |-> writer[w].ok] ELSE IdleWriter
         /\ \A v \in SegWriters : v # w => writer'[v] = writer[v]
<1>1. writer \in [SegWriters -> Writers] /\ writer[w] \in Writers
  BY DEF TypeOK
<1>2. [writer[w] EXCEPT !.at = "alloc"] =
        [at |-> "alloc", seg |-> writer[w].seg, ok |-> writer[w].ok]
  BY <1>1 DEF Writers
<1>3. writer' = [writer EXCEPT ![w] = AfterNotify(w)]
  BY DEF NotifyEnd
<1>4. writer'[w] = AfterNotify(w) /\ \A v \in SegWriters : v # w => writer'[v] = writer[v]
  BY <1>3, WriterSet
<1> QED
  BY <1>2, <1>4 DEF AfterNotify

(* A writer that takes a segment from the queue keeps the segments'        *)
(* invariant.                                                              *)
LEMMA SegWriteStartSegments ==
  ASSUME TypeOK, TypeOK', SegmentInv, NEW w \in SegWriters, SegWriteStart(w)
  PROVE  SegmentInv'
<1> DEFINE i == Head(segWteWQ)
<1> USE DEF SegmentInv
<1>1. segWteWQ \in Seq(DOMAIN segs) /\ segWteWQ # <<>>
  BY DEF TypeOK, SegWriteStart
<1>2. /\ i \in DOMAIN segs /\ i = segWteWQ[1] /\ 1 \in Positions(segWteWQ)
      /\ \A n \in Positions(segWteWQ') :
           n + 1 \in Positions(segWteWQ) /\ segWteWQ'[n] = segWteWQ[n + 1]
      /\ \A n \in Positions(segWteWQ') : n \in Nat \ {0}
      /\ \A n \in Positions(segWteWQ) : n # 1 =>
           n - 1 \in Positions(segWteWQ') /\ segWteWQ'[n - 1] = segWteWQ[n]
  <2>1. segWteWQ' = Tail(segWteWQ)
    BY DEF SegWriteStart
  <2> QED
    BY <1>1, <2>1, HeadTailProperties DEF Positions
<1>3. /\ segs[i].phase = "completed" /\ segs[i].answered = 0 /\ i # 0
      /\ \A v \in SegWriters : writer[v].seg # i
      /\ \A n \in Positions(segWteWQ') : segWteWQ'[n] # i
  <2>1. i # 0
    BY <1>2, NumbersPositive
  <2>2. \A n \in Positions(segWteWQ') : segWteWQ'[n] # i
    <3> SUFFICES ASSUME NEW n \in Positions(segWteWQ'), segWteWQ'[n] = i PROVE FALSE
      OBVIOUS
    <3>1. n + 1 = 1
      BY <1>2 DEF QueueShape
    <3> QED
      BY <1>2, <3>1
  <2>3. /\ segs[segWteWQ[1]].phase = "completed" /\ segs[segWteWQ[1]].answered = 0
        /\ \A v \in SegWriters : writer[v].seg # segWteWQ[1]
    BY <1>2 DEF QueueShape
  <2> QED
    BY <1>2, <2>1, <2>2, <2>3
<1> HIDE DEF i
<1>4. writer'[w] = [at |-> "alloc", seg |-> i, ok |-> TRUE]
      /\ \A u \in SegWriters : u # w => writer'[u] = writer[u]
  <2>1. writer' = [writer EXCEPT ![w] = [at |-> "alloc", seg |-> i, ok |-> TRUE]]
    BY DEF SegWriteStart, i
  <2> QED
    BY <2>1, WriterSet
<1>5. writer'[w].at = "alloc" /\ writer'[w].seg = i /\ writer'[w].ok
  BY <1>4
<1>6. writer[w] = IdleWriter
  BY DEF SegWriteStart, WriterShape
<1>7. segs' = segs /\ segMap' = segMap /\ keepsTrying' = keepsTrying
  BY DEF SegWriteStart, frame
<1>8. OpenShape'
  BY <1>7 DEF OpenShape
<1>9. QueueShape'
  <2>1. \A n, m \in Positions(segWteWQ') : segWteWQ'[n] = segWteWQ'[m] => n = m
    <3> SUFFICES ASSUME NEW n \in Positions(segWteWQ'), NEW m \in Positions(segWteWQ'),
                        segWteWQ'[n] = segWteWQ'[m]
                 PROVE  n = m
      OBVIOUS
    <3>1. n + 1 = m + 1
      BY <1>2 DEF QueueShape
    <3> QED
      BY <1>2, <3>1
  <2>2. \A n \in Positions(segWteWQ') :
          /\ segs[segWteWQ'[n]].phase = "completed"
          /\ segs[segWteWQ'[n]].answered = 0
          /\ \A v \in SegWriters : writer'[v].seg # segWteWQ'[n]
    <3> SUFFICES ASSUME NEW n \in Positions(segWteWQ')
                 PROVE  /\ segs[segWteWQ'[n]].phase = "completed"
                        /\ segs[segWteWQ'[n]].answered = 0
                        /\ \A v \in SegWriters : writer'[v].seg # segWteWQ'[n]
      OBVIOUS
    <3>1. PICK m \in Positions(segWteWQ) : segWteWQ'[n] = segWteWQ[m]
      BY <1>2
    <3>2. \A v \in SegWriters : v # w => writer'[v].seg # segWteWQ'[n]
      BY <1>4, <3>1 DEF QueueShape
    <3>3. writer'[w].seg # segWteWQ'[n]
      BY <1>3, <1>5
    <3> QED
      BY <3>1, <3>2, <3>3 DEF QueueShape
  <2> QED
    BY <1>7, <2>1, <2>2 DEF QueueShape
<1>10. WriterShape'
  <2> SUFFICES ASSUME NEW u \in SegWriters
               PROVE  IF writer'[u].at = "idle" THEN writer'[u] = IdleWriter ELSE Busy(u)'
    BY DEF WriterShape, IdleWriter
  <2>1. CASE u = w
    <3>1. \A v \in SegWriters : writer'[v].seg = i => v = w
      BY <1>3, <1>4
    <3>2. Busy(w)'
      BY <1>3, <1>5, <1>7, <3>1 DEF Busy, All
    <3> QED
      BY <1>5, <2>1, <3>2
  <2>2. CASE u # w /\ writer[u].at # "idle"
    <3>1. writer'[u] = writer[u] /\ Busy(u)
      BY <1>4, <2>2 DEF WriterShape
    <3>2. \A v \in SegWriters : writer'[v].seg = writer[u].seg => v = u
      <4> SUFFICES ASSUME NEW v \in SegWriters, writer'[v].seg = writer[u].seg PROVE v = u
        OBVIOUS
      <4>1. v # w
        BY <1>3, <1>5
      <4> QED
        BY <1>4, <3>1, <4>1 DEF Busy
    <3> QED
      BY <1>7, <2>2, <3>1, <3>2 DEF Busy, All
  <2>3. CASE u # w /\ writer[u].at = "idle"
    BY <1>4, <2>3 DEF WriterShape
  <2> QED
    BY <2>1, <2>2, <2>3
<1>11. Finished'
  <2> SUFFICES ASSUME NEW j \in DOMAIN segs, segs[j].phase = "completed",
                      segs[j].answered # All(j)
               PROVE  \/ \E n \in Positions(segWteWQ') : segWteWQ'[n] = j
                      \/ \E v \in SegWriters : writer'[v].seg = j
    BY <1>7 DEF Finished, All
  <2>1. CASE j = i
    BY <1>5, <2>1
  <2>2. CASE \E v \in SegWriters : writer[v].seg = j
    <3>1. j # 0
      BY NumbersPositive
    <3> QED
      BY <1>4, <1>6, <2>2, <3>1 DEF IdleWriter
  <2>3. CASE j # i /\ \E n \in Positions(segWteWQ) : segWteWQ[n] = j
    <3>1. PICK n \in Positions(segWteWQ) : segWteWQ[n] = j
      BY <2>3
    <3>2. n - 1 \in Positions(segWteWQ') /\ segWteWQ'[n - 1] = j
      BY <1>2, <2>3, <3>1
    <3> QED
      BY <3>2
  <2> QED
    BY <2>1, <2>2, <2>3 DEF Finished
<1> QED
  BY <1>8, <1>9, <1>10, <1>11

(* An answer keeps the segments' invariant.                                *)
LEMMA AnswerSegments ==
  ASSUME TypeOK, TypeOK', Counted, SegmentInv, NEW w \in SegWriters, Answer(w)
  PROVE  SegmentInv'
<1> DEFINE i == writer[w].seg
<1> USE DEF SegmentInv
<1>1. /\ DOMAIN segs' = DOMAIN segs /\ i \in DOMAIN segs
      /\ \A j \in DOMAIN segs :
           /\ segs'[j].reqList = segs[j].reqList
           /\ segs'[j].phase = segs[j].phase
           /\ j # i => segs'[j].answered = segs[j].answered
  BY AnswerEffect DEF SamePhases
<1>2. writer' = writer /\ segMap' = segMap /\ segWteWQ' = segWteWQ /\ keepsTrying' = keepsTrying
      /\ writer[w].at \in Answering
  BY DEF Answer, frame, Answering
<1>3. segs[i].phase = "completed" /\ \A v \in SegWriters : writer[v].seg = i => v = w
  BY <1>2 DEF WriterShape, Busy, Answering
<1> HIDE DEF i
<1>4. writer[w].seg = i
  BY DEF i
<1>5. OpenShape'
  <2>1. \A h \in Shards : segMap[h] \in DOMAIN segs
    BY DEF TypeOK
  <2> QED
    BY <1>1, <1>2, <1>3, <2>1 DEF OpenShape
<1>6. QueueShape'
  <2>1. \A n \in Positions(segWteWQ) : segWteWQ[n] \in DOMAIN segs
    BY DEF TypeOK, Positions
  <2> QED
    BY <1>1, <1>2, <1>4, <2>1 DEF QueueShape
<1>7. WriterShape'
  <2> SUFFICES ASSUME NEW u \in SegWriters, writer[u].at # "idle" PROVE Busy(u)'
    BY <1>2 DEF WriterShape, IdleWriter
  <2>1. Busy(u) /\ writer[u].seg \in DOMAIN segs
    BY DEF WriterShape, Busy, TypeOK, Writers
  <2>2. segs'[writer[u].seg].phase = "completed"
        /\ segs'[writer[u].seg].reqList = segs[writer[u].seg].reqList
    BY <1>1, <2>1 DEF Busy
  <2>3. CASE u = w
    BY <1>2, <2>1, <2>2, <2>3 DEF Busy, Answering
  <2>4. CASE u # w
    <3>1. writer[u].seg # i
      BY <1>3, <2>4
    <3>2. segs'[writer[u].seg].answered = segs[writer[u].seg].answered
      BY <1>1, <2>1, <3>1
    <3> QED
      BY <1>2, <2>1, <2>2, <3>2 DEF Busy, All
  <2> QED
    BY <2>3, <2>4
<1>8. Finished'
  BY <1>1, <1>2, <1>3, <1>4 DEF Finished, All
<1> QED
  BY <1>5, <1>6, <1>7, <1>8

(* The end of a notification keeps the segments' invariant.                *)
LEMMA NotifyEndSegments ==
  ASSUME TypeOK, TypeOK', Counted, SegmentInv, NEW w \in SegWriters, NotifyEnd(w)
  PROVE  SegmentInv'
<1> DEFINE i == writer[w].seg
<1> USE DEF SegmentInv
<1>1. /\ segs' = segs /\ segMap' = segMap /\ segWteWQ' = segWteWQ /\ keepsTrying' = keepsTrying
      /\ writer[w].at \in Answering /\ Unanswered(i) = {}
  BY DEF NotifyEnd, pipeVars, frame, Answering
<1>2. Busy(w) /\ i \in DOMAIN segs
  BY <1>1 DEF WriterShape, Busy, TypeOK, Writers, Answering
<1>3. segs[i].answered = All(i)
  BY <1>1, <1>2, AllAnswered
<1>4. \A v \in SegWriters : v # w => writer'[v] = writer[v]
  BY NotifyEndWriter
<1>5. CASE writer[w].at = "answer" /\ keepsTrying
  <2>1. writer'[w] = [at |-> "alloc", seg |-> i, ok |-> writer[w].ok]
    BY <1>5, NotifyEndWriter
  <2>2. ~writer[w].ok
    BY <1>2, <1>5 DEF Busy
  <2> HIDE DEF i
  <2>3. writer'[w].at = "alloc" /\ writer'[w].seg = i /\ ~writer'[w].ok
    BY <2>1, <2>2
  <2>4. SameLists /\ SamePhases
    BY <1>1, SegsSame
  <2> QED
    BY <1>1, <1>3, <1>4, <1>5, <2>3, <2>4, WriterMoves DEF i, Answering
<1>6. CASE ~(writer[w].at = "answer" /\ keepsTrying)
  <2>1. writer'[w] = IdleWriter
    BY <1>6, NotifyEndWriter
  <2>2. writer'[w].seg = 0 /\ writer'[w].at = "idle"
    BY <2>1 DEF IdleWriter
  <2> HIDE DEF i
  <2>3. OpenShape'
    BY <1>1 DEF OpenShape
  <2>4. QueueShape'
    <3>1. \A n \in Positions(segWteWQ) : segWteWQ[n] # 0
      BY QueueTypes, NumbersPositive
    <3>2. \A n \in Positions(segWteWQ) : \A v \in SegWriters : writer'[v].seg # segWteWQ[n]
      BY <1>4, <2>2, <3>1 DEF QueueShape
    <3> QED
      BY <1>1, <3>2 DEF QueueShape
  <2>5. WriterShape'
    <3> SUFFICES ASSUME NEW u \in SegWriters, writer'[u].at # "idle" PROVE Busy(u)'
      BY <1>4, <2>1, <2>2 DEF WriterShape, IdleWriter
    <3>1. u # w /\ writer'[u] = writer[u] /\ Busy(u)
      BY <1>4, <2>2 DEF WriterShape
    <3>2. \A v \in SegWriters : writer'[v].seg = writer[u].seg => v = u
      <4> SUFFICES ASSUME NEW v \in SegWriters, writer'[v].seg = writer[u].seg PROVE v = u
        OBVIOUS
      <4>1. v # w
        BY <2>2, <3>1 DEF Busy
      <4> QED
        BY <1>4, <3>1, <4>1 DEF Busy
    <3> QED
      BY <1>1, <3>1, <3>2 DEF Busy, All
  <2>6. Finished'
    <3> SUFFICES ASSUME NEW j \in DOMAIN segs, segs[j].phase = "completed",
                        segs[j].answered # All(j)
                 PROVE  \/ \E n \in Positions(segWteWQ) : segWteWQ[n] = j
                        \/ \E v \in SegWriters : writer'[v].seg = j
      BY <1>1 DEF Finished, All
    <3>1. j # i
      BY <1>3
    <3> QED
      BY <1>4, <3>1 DEF Finished, i
  <2> QED
    BY <2>3, <2>4, <2>5, <2>6
<1> QED
  BY <1>5, <1>6

(* A segment that the reaper has is done with: all of its requests have    *)
(* been answered, and no queue, writer or shard has it.                    *)
LEMMA InReaperDone ==
  ASSUME TypeOK, RequestInv, SegmentInv, ReaperShape, NEW i \in DOMAIN segs, InReaper(i)
  PROVE  /\ segs[i].answered = All(i)
         /\ segs[i].phase # "open"
         /\ \A n \in Positions(segs[i].reqList) : client[segs[i].reqList[n]] = "returned"
         /\ \A n \in Positions(segWteWQ) : segWteWQ[n] # i
<1>1. Good(i) /\ Unreturned(i) = {}
  BY DEF ReaperShape
<1>2. \A n \in Positions(segs[i].reqList) : client[segs[i].reqList[n]] = "returned"
  BY <1>1 DEF Unreturned
<1>3. Unanswered(i) = {}
  BY <1>2 DEF Unanswered, RequestInv, AnsweredInOrder
<1>4. segs[i].answered = All(i)
  BY <1>3, AllAnswered DEF RequestInv
<1>5. segs[i].answered > 0
  BY <1>1, SegmentType DEF Good
<1> QED
  BY <1>2, <1>4, <1>5 DEF SegmentInv, OpenShape, QueueShape

(* The end of a reaping keeps the segments' invariant.                     *)
LEMMA ReapEndSegments ==
  ASSUME TypeOK, TypeOK', RequestInv, SegmentInv, ReaperShape, ReapEnd
  PROVE  SegmentInv'
<1> DEFINE i == reaping.seg
<1> USE DEF SegmentInv
<1>1. /\ DOMAIN segs' = DOMAIN segs /\ i \in DOMAIN segs
      /\ \A j \in DOMAIN segs :
           /\ segs'[j].reqList = segs[j].reqList
           /\ segs'[j].answered = segs[j].answered
           /\ segs'[j].phase = IF j = i THEN "deleted" ELSE segs[j].phase
  BY ReapEndEffect DEF SameLists
<1>2. /\ writer' = writer /\ segMap' = segMap /\ segWteWQ' = segWteWQ
      /\ keepsTrying' = keepsTrying /\ i # 0
  BY DEF ReapEnd, frame
<1>3. /\ segs[i].phase = "completed" /\ \A w \in SegWriters : writer[w].seg # i
  BY <1>2 DEF ReaperShape
<1>4. segs[i].answered = All(i) /\ \A n \in Positions(segWteWQ) : segWteWQ[n] # i
  BY <1>1, InReaperDone DEF InReaper
<1> HIDE DEF i
<1>5. OpenShape'
  <2>1. \A h \in Shards : segMap[h] \in DOMAIN segs
    BY DEF TypeOK
  <2> QED
    BY <1>1, <1>2, <1>3, <2>1 DEF OpenShape
<1>6. QueueShape'
  <2>1. \A n \in Positions(segWteWQ) : segWteWQ[n] \in DOMAIN segs
    BY DEF TypeOK, Positions
  <2> QED
    BY <1>1, <1>2, <1>4, <2>1 DEF QueueShape
<1>7. WriterShape'
  <2> SUFFICES ASSUME NEW u \in SegWriters, writer[u].at # "idle" PROVE Busy(u)'
    BY <1>2 DEF WriterShape, IdleWriter
  <2>1. Busy(u) /\ writer[u].seg \in DOMAIN segs
    BY DEF WriterShape, Busy, TypeOK, Writers
  <2>2. /\ segs'[writer[u].seg].phase = segs[writer[u].seg].phase
        /\ segs'[writer[u].seg].reqList = segs[writer[u].seg].reqList
        /\ segs'[writer[u].seg].answered = segs[writer[u].seg].answered
    BY <1>1, <1>3, <2>1
  <2> QED
    BY <1>2, <2>1, <2>2 DEF Busy, All
<1>8. Finished'
  BY <1>1, <1>2, <1>4 DEF Finished, All
<1> QED
  BY <1>5, <1>6, <1>7, <1>8

(* No step gives a segment to two places: it is open in one shard, in the  *)
(* queue of the writers, with one writer, or finished, and only a finished *)
(* segment that nobody waits for is deleted (SegReaper).                   *)
THEOREM SegmentStep ==
  ASSUME PipelineInv, TypeOK', [Next]_vars
  PROVE  SegmentInv'
<1> USE DEF PipelineInv, RequestInv, ReapInv, VisibleInv
<1>1. ASSUME SameLists, SamePhases, UNCHANGED <<segMap, segWteWQ, writer, keepsTrying>>
      PROVE  SegmentInv'
  BY <1>1, SegmentsStay DEF SameLists
<1>2. ASSUME UNCHANGED <<segs, segMap, segWteWQ, writer, keepsTrying>> PROVE SegmentInv'
  BY <1>1, <1>2, SegsSame
<1>3. CASE UNCHANGED vars
  BY <1>2, <1>3 DEF vars, frame
<1>4. ASSUME NEW r \in Reqs, WriteData(r) \/ ClientGoesOn(r) PROVE SegmentInv'
  <2>1. CASE Commit(r)
    <3>1. SameLists /\ SamePhases
      BY <2>1, CommitEffect
    <3> QED
      BY <1>1, <2>1, <3>1 DEF Commit, frame
  <2>2. CASE ~Commit(r)
    BY <1>2, <1>4, <2>2 DEF ClientGoesOn, WriteData, ReturnFailure, UpdateIndex,
                            UpdateIndexRefused, pipeVars, frame
  <2> QED
    BY <2>1, <2>2
<1>5. ASSUME NEW h \in Shards, ReqMerge(h) PROVE SegmentInv'
  <2>1. Head(reqWQ[h]) \in Reqs /\ UNCHANGED <<writer, keepsTrying>>
    <3>1. reqWQ[h] \in Seq(Reqs) /\ reqWQ[h] # <<>>
      BY <1>5 DEF TypeOK, ReqMerge
    <3> QED
      BY <1>5, <3>1 DEF ReqMerge, frame
  <2>2. CASE UNCHANGED <<segMap, segWteWQ>> /\
             segs' = [segs EXCEPT ![segMap[h]].reqList = Append(@, Head(reqWQ[h]))]
    <3>1. /\ DOMAIN segs' = DOMAIN segs /\ SamePhases
          /\ \A i \in DOMAIN segs :
               /\ segs'[i].answered = segs[i].answered
               /\ i # segMap[h] => segs'[i].reqList = segs[i].reqList
      BY <2>1, <2>2, FitsEffect
    <3>2. segs[segMap[h]].phase = "open"
      BY DEF SegmentInv, OpenShape
    <3> QED
      BY <2>1, <2>2, <3>1, <3>2, SegmentsStay
  <2>3. CASE Replaced(h, <<Head(reqWQ[h])>>)
    <3>1. <<Head(reqWQ[h])>> \in Seq(Reqs)
      BY <2>1
    <3> QED
      BY <2>1, <2>3, <3>1, ReplacedSegments
  <2> QED
    BY <1>5, <2>2, <2>3 DEF ReqMerge
<1>6. ASSUME NEW h \in Shards, SegTimeout(h) PROVE SegmentInv'
  <2>1. <<>> \in Seq(Reqs)
    OBVIOUS
  <2>2. Replaced(h, <<>>) /\ UNCHANGED <<writer, keepsTrying>>
    BY <1>6 DEF SegTimeout, frame
  <2> QED
    BY <2>1, <2>2, ReplacedSegments
<1>7. ASSUME NEW w \in SegWriters, SegWrite(w) PROVE SegmentInv'
  <2>1. CASE SegWriteStart(w)
    BY <2>1, SegWriteStartSegments
  <2>2. CASE Answer(w)
    BY <2>2, AnswerSegments
  <2>3. CASE NotifyEnd(w)
    BY <2>3, NotifyEndSegments
  <2>4. ASSUME writer[w].at # "idle" PROVE Busy(w)
    BY <2>4 DEF SegmentInv, WriterShape
  <2>5. CASE Allocated(w)
    <3>1. /\ SameLists /\ SamePhases /\ UNCHANGED <<segMap, segWteWQ, keepsTrying>>
          /\ writer[w].at = "alloc"
      BY <2>5, SegsSame DEF Allocated, pipeVars, frame
    <3>2. writer'[w].at = "write" /\ writer'[w].seg = writer[w].seg
          /\ writer'[w].ok = writer[w].ok
      BY <2>5, AllocatedWriter
    <3>3. \A v \in SegWriters : v # w => writer'[v] = writer[v]
      BY <2>5, AllocatedWriter
    <3> QED
      BY <2>4, <3>1, <3>2, <3>3, WriterMoves DEF Busy, Answering
  <2>6. CASE NotAllocated(w)
    <3>1. /\ SameLists /\ SamePhases /\ UNCHANGED <<segMap, segWteWQ, keepsTrying>>
          /\ writer[w].at = "alloc"
      BY <2>6, SegsSame DEF NotAllocated, pipeVars, frame
    <3>2. writer'[w].at = "notify" /\ writer'[w].seg = writer[w].seg /\ ~writer'[w].ok
      BY <2>6, NotAllocatedWriter
    <3>3. \A v \in SegWriters : v # w => writer'[v] = writer[v]
      BY <2>6, NotAllocatedWriter
    <3> QED
      BY <2>4, <3>1, <3>2, <3>3, WriterMoves DEF Busy, Answering
  <2>7. ASSUME NEW ok \in BOOLEAN, Written(w, ok) PROVE SegmentInv'
    <3>1. /\ SameLists /\ SamePhases /\ UNCHANGED <<segMap, segWteWQ, keepsTrying>>
          /\ writer[w].at = "write"
      BY <2>7, SegsSame DEF Written, pipeVars, frame
    <3>2. writer'[w].at = "notifyWritten" /\ writer'[w].seg = writer[w].seg
      BY <2>7, WrittenWriter
    <3>3. \A v \in SegWriters : v # w => writer'[v] = writer[v]
      BY <2>7, WrittenWriter
    <3> QED
      BY <2>4, <3>1, <3>2, <3>3, WriterMoves DEF Busy, Answering
  <2>8. CASE NotifyStart(w)
    <3>1. SameLists /\ SamePhases
      BY <2>8, NotifyStartEffect DEF SegmentInv
    <3>2. UNCHANGED <<segMap, segWteWQ, keepsTrying>> /\ writer[w].at \in {"notify", "notifyWritten"}
      BY <2>8 DEF NotifyStart, frame
    <3>3. /\ writer'[w].at = IF writer[w].at = "notify" THEN "answer" ELSE "answerWritten"
          /\ writer'[w].seg = writer[w].seg /\ writer'[w].ok = writer[w].ok
      BY <2>8, NotifyStartWriter
    <3>4. \A v \in SegWriters : v # w => writer'[v] = writer[v]
      BY <2>8, NotifyStartWriter
    <3> QED
      BY <2>4, <3>1, <3>2, <3>3, <3>4, WriterMoves DEF Busy, Answering
  <2> QED
    BY <1>7, <2>1, <2>2, <2>3, <2>5, <2>6, <2>7, <2>8 DEF SegWrite
<1>8. CASE SegReaper
  <2>1. CASE ReapEnd
    BY <2>1, ReapEndSegments
  <2>2. CASE ReapStart \/ ReapEntry
    BY <1>2, <2>2 DEF ReapStart, ReapEntry, pipeVars, frame
  <2> QED
    BY <1>8, <2>1, <2>2 DEF SegReaper
<1> QED
  BY <1>3, <1>4, <1>5, <1>6, <1>7, <1>8 DEF Next

-----------------------------------------------------------------------------
(* What the requests are told. *)

(* The answered requests of the segments are those before the step.        *)
ToldStay ==
  \A i \in DOMAIN segs' :
    \/ segs'[i].answered = 0
    \/ /\ i \in DOMAIN segs /\ segs'[i].answered = segs[i].answered
       /\ segs'[i].reqList = segs[i].reqList

(* Requests told alike stay so while no answer is given.                   *)
LEMMA ToldAlikeStays ==
  ASSUME TypeOK, ToldAlike, ToldStay, UNCHANGED status
  PROVE  ToldAlike'
<1> SUFFICES ASSUME NEW i \in DOMAIN segs', NEW n \in 1 .. segs'[i].answered,
                    NEW m \in 1 .. segs'[i].answered
             PROVE  /\ status[segs'[i].reqList[n]] = status[segs'[i].reqList[m]]
                    /\ status[segs'[i].reqList[n]] # "INIT"
  BY DEF ToldAlike
<1>1. CASE segs'[i].answered = 0
  BY <1>1
<1>2. CASE /\ i \in DOMAIN segs /\ segs'[i].answered = segs[i].answered
           /\ segs'[i].reqList = segs[i].reqList
  BY <1>2 DEF ToldAlike
<1> QED
  BY <1>1, <1>2 DEF ToldStay

(* Unchanged lists have told the same requests.                            *)
LEMMA SameListsTold ==
  ASSUME SameLists
  PROVE  ToldStay
BY DEF SameLists, ToldStay

(* Steps of the others than the writers.                                   *)
LEMMA ToldOthers ==
  ASSUME TypeOK, SegmentInv, ToldTheSame, ToldStay, UNCHANGED <<status, writer>>,
         \A i \in DOMAIN segs : segs[i].phase # "open" =>
           segs'[i].reqList = segs[i].reqList /\ segs'[i].answered = segs[i].answered
  PROVE  ToldTheSame'
<1>1. ToldAlike'
  BY ToldAlikeStays DEF ToldTheSame
<1>2. ASSUME NEW w \in SegWriters, writer[w].at # "idle" PROVE ToldBy(w)'
  <2> DEFINE i == writer[w].seg
  <2>1. ToldBy(w) /\ i \in DOMAIN segs /\ segs[i].phase # "open"
    BY <1>2 DEF ToldTheSame, SegmentInv, WriterShape, Busy, TypeOK, Writers
  <2>2. segs'[i].reqList = segs[i].reqList /\ segs'[i].answered = segs[i].answered
    BY <2>1
  <2> QED
    BY <2>1, <2>2 DEF ToldBy, All
<1> QED
  BY <1>1, <1>2 DEF ToldTheSame

(* Steps of a writer that answer nobody.                                   *)
LEMMA ToldWriter ==
  ASSUME TypeOK, SegmentInv, ToldTheSame, SameLists, UNCHANGED status, NEW w \in SegWriters,
         \A v \in SegWriters : v # w => writer'[v] = writer[v],
         writer'[w].at # "idle" => ToldBy(w)'
  PROVE  ToldTheSame'
<1>1. ToldAlike'
  BY ToldAlikeStays, SameListsTold DEF ToldTheSame
<1>2. ASSUME NEW v \in SegWriters, v # w, writer'[v].at # "idle" PROVE ToldBy(v)'
  <2> DEFINE i == writer[v].seg
  <2>1. writer'[v] = writer[v]
    BY <1>2
  <2>2. ToldBy(v) /\ i \in DOMAIN segs
    BY <1>2, <2>1 DEF ToldTheSame, SegmentInv, WriterShape, Busy, TypeOK, Writers
  <2>3. segs'[i].reqList = segs[i].reqList /\ segs'[i].answered = segs[i].answered
    BY <2>2 DEF SameLists
  <2> QED
    BY <2>1, <2>2, <2>3 DEF ToldBy, All
<1> QED
  BY <1>1, <1>2 DEF ToldTheSame

(* A writer's step that answers nobody keeps the answers alike.            *)
LEMMA WriterTold ==
  ASSUME TypeOK, SegmentInv, ToldTheSame, NEW w \in SegWriters, SegWrite(w), ~Answer(w),
         Counted
  PROVE  ToldTheSame'
<1> USE DEF SegmentInv
<1> DEFINE i == writer[w].seg
<1>1. SameLists /\ UNCHANGED status
  <2>1. CASE NotifyStart(w)
    BY <2>1, NotifyStartEffect DEF NotifyStart
  <2>2. CASE ~NotifyStart(w)
    BY <2>2, SegsSame
    DEF SegWrite, SegWriteStart, Allocated, NotAllocated, Written, NotifyEnd, pipeVars
  <2> QED
    BY <2>1, <2>2
<1>2. ASSUME writer[w].at # "idle" PROVE Busy(w) /\ ToldBy(w) /\ i \in DOMAIN segs
  BY <1>2 DEF WriterShape, Busy, ToldTheSame, TypeOK, Writers
<1>3. ASSUME i \in DOMAIN segs
      PROVE  segs'[i].reqList = segs[i].reqList /\ segs'[i].answered = segs[i].answered
  BY <1>1, <1>3 DEF SameLists
<1>4. CASE SegWriteStart(w)
  <2> DEFINE j == Head(segWteWQ)
  <2>1. j \in DOMAIN segs /\ segs[j].answered = 0
    <3>1. segWteWQ \in Seq(DOMAIN segs) /\ segWteWQ # <<>>
      BY <1>4 DEF TypeOK, SegWriteStart
    <3>2. j \in DOMAIN segs /\ j = segWteWQ[1] /\ 1 \in Positions(segWteWQ)
      BY <3>1 DEF Positions
    <3>3. segs[segWteWQ[1]].answered = 0
      BY <3>2 DEF QueueShape
    <3> QED
      BY <3>2, <3>3
  <2> HIDE DEF j
  <2>2. writer' = [writer EXCEPT ![w] = [at |-> "alloc", seg |-> j, ok |-> TRUE]]
    BY <1>4 DEF SegWriteStart, j
  <2>3. /\ writer'[w] = [at |-> "alloc", seg |-> j, ok |-> TRUE]
        /\ \A v \in SegWriters : v # w => writer'[v] = writer[v]
    BY <2>2, WriterSet
  <2>4. writer'[w].seg = j
    BY <2>3
  <2>5. segs'[j].answered = 0
    BY <1>1, <2>1 DEF SameLists
  <2>6. ToldBy(w)'
    BY <2>4, <2>5 DEF ToldBy
  <2> QED
    BY <1>1, <2>3, <2>6, ToldWriter
<1>5. CASE Allocated(w)
  <2>1. /\ writer'[w].seg = i /\ writer'[w].at = "write" /\ writer[w].at = "alloc"
        /\ writer'[w].ok = writer[w].ok
        /\ \A v \in SegWriters : v # w => writer'[v] = writer[v]
    BY <1>5, AllocatedWriter DEF Allocated
  <2>2. ToldBy(w)'
    BY <1>1, <1>2, <1>3, <2>1 DEF ToldBy, All
  <2> QED
    BY <1>1, <2>1, <2>2, ToldWriter
<1>6. CASE NotAllocated(w)
  <2>1. /\ writer'[w].seg = i /\ writer'[w].at = "notify" /\ writer[w].at = "alloc"
        /\ ~writer'[w].ok
        /\ \A v \in SegWriters : v # w => writer'[v] = writer[v]
    BY <1>6, NotAllocatedWriter DEF NotAllocated
  <2>2. ToldBy(w)'
    BY <1>1, <1>2, <1>3, <2>1 DEF ToldBy, All
  <2> QED
    BY <1>1, <2>1, <2>2, ToldWriter
<1>7. ASSUME NEW ok \in BOOLEAN, Written(w, ok) PROVE ToldTheSame'
  <2>1. /\ writer'[w].seg = i /\ writer'[w].at = "notifyWritten" /\ writer[w].at = "write"
        /\ \A v \in SegWriters : v # w => writer'[v] = writer[v]
    BY <1>7, WrittenWriter DEF Written
  <2>2. segs[i].answered \in {0, Len(segs[i].reqList)}
    BY <1>2, <2>1 DEF Busy, All
  <2>3. Len(segs[i].reqList) \in Nat
    BY <1>2, <2>1, SegmentType
  <2>4. ToldBy(w)'
    BY <1>1, <1>2, <1>3, <2>1, <2>2, <2>3 DEF ToldBy, All
  <2> QED
    BY <1>1, <2>1, <2>4, ToldWriter
<1>8. CASE NotifyStart(w)
  <2>1. /\ writer'[w].seg = i /\ writer'[w].ok = writer[w].ok
        /\ writer[w].at # "idle" /\ writer[w].at # "answerWritten"
        /\ \A v \in SegWriters : v # w => writer'[v] = writer[v]
    <3>1. writer[w].at \in {"notify", "notifyWritten"}
      BY <1>8 DEF NotifyStart
    <3> QED
      BY <1>8, <3>1, NotifyStartWriter
  <2>2. ToldBy(w)'
    BY <1>1, <1>2, <1>3, <2>1 DEF ToldBy, All
  <2> QED
    BY <1>1, <2>1, <2>2, ToldWriter
<1>9. CASE NotifyEnd(w)
  <2>1. \A v \in SegWriters : v # w => writer'[v] = writer[v]
    BY <1>9, NotifyEndWriter
  <2>2. CASE writer[w].at = "answer" /\ keepsTrying
    <3>1. writer'[w] = [at |-> "alloc", seg |-> i, ok |-> writer[w].ok]
      BY <1>9, <2>2, NotifyEndWriter
    <3>2. ~writer[w].ok
      BY <1>2, <2>2 DEF Busy
    <3> HIDE DEF i
    <3>3. writer'[w].seg = i /\ ~writer'[w].ok
      BY <3>1, <3>2
    <3>4. ToldBy(w)'
      BY <1>1, <1>2, <1>3, <2>2, <3>2, <3>3 DEF ToldBy, All, i
    <3> QED
      BY <1>1, <2>1, <3>4, ToldWriter
  <2>3. CASE ~(writer[w].at = "answer" /\ keepsTrying)
    <3>1. writer'[w] = IdleWriter
      BY <1>9, <2>3, NotifyEndWriter
    <3>2. writer'[w].at = "idle"
      BY <3>1 DEF IdleWriter
    <3> QED
      BY <1>1, <2>1, <3>2, ToldWriter
  <2> QED
    BY <2>2, <2>3
<1> QED
  BY <1>4, <1>5, <1>6, <1>7, <1>8, <1>9 DEF SegWrite

(* One more request is told what those before it were told.                *)
LEMMA AnswerStatus ==
  ASSUME TypeOK, RequestInv, SegmentInv, ToldTheSame, NEW w \in SegWriters, Answer(w)
  PROVE  LET i == writer[w].seg
             s == IF writer[w].ok THEN "SUCCESS" ELSE "FAIL"
         IN /\ \A n \in 1 .. segs[i].answered + 1 : status'[segs[i].reqList[n]] = s
            /\ \A j \in DOMAIN segs : j # i => \A n \in 1 .. segs[j].answered :
                 status'[segs[j].reqList[n]] = status[segs[j].reqList[n]]
<1> DEFINE i == writer[w].seg
           s == IF writer[w].ok THEN "SUCCESS" ELSE "FAIL"
           a == segs[i].answered + 1
           r == segs[i].reqList[a]
<1>1. /\ DOMAIN segs' = DOMAIN segs /\ i \in DOMAIN segs
      /\ \A j \in DOMAIN segs :
           /\ segs'[j].reqList = segs[j].reqList
           /\ segs'[j].answered = IF j = i THEN a ELSE segs[j].answered
      /\ a \in Positions(segs[i].reqList)
  BY AnswerEffect DEF RequestInv, SegmentInv
<1>2. /\ segs[i].answered \in Nat /\ a \in Nat /\ r \in Reqs
      /\ Len(segs[i].reqList) \in Nat /\ segs[i].answered < Len(segs[i].reqList)
  BY <1>1, SegmentType DEF Positions
<1>3. status' = [status EXCEPT ![r] = s]
  BY DEF Answer
<1>4. status'[r] = s /\ \A b \in Reqs : b # r => status'[b] = status[b]
  BY <1>2, <1>3 DEF TypeOK
<1>5. writer' = writer /\ writer[w].at \in Answering
  BY DEF Answer, Answering
<1>6. Busy(w) /\ ToldBy(w)
  BY <1>5 DEF SegmentInv, WriterShape, ToldTheSame, Answering
<1>7. \A n \in 1 .. segs[i].answered : status[segs[i].reqList[n]] = s
  <2>1. CASE writer[w].ok
    BY <1>2, <1>6, <2>1 DEF ToldBy, All
  <2>2. CASE ~writer[w].ok
    BY <1>2, <1>6, <2>2 DEF ToldBy, All
  <2> QED
    BY <2>1, <2>2
<1>8. \A j \in DOMAIN segs : \A n \in Positions(segs[j].reqList) :
        /\ segs[j].reqList[n] \in Reqs
        /\ j # i \/ n # a => segs[j].reqList[n] # r
  BY <1>1, SegmentType DEF RequestInv, HeldOnce
<1>9. \A j \in DOMAIN segs : \A n \in 1 .. segs[j].answered : n \in Positions(segs[j].reqList)
  BY SegmentType DEF RequestInv, Counted, All, Positions
<1> HIDE DEF r, a, s, i
<1>10. \A n \in 1 .. a : status'[segs[i].reqList[n]] = s
  <2> SUFFICES ASSUME NEW n \in 1 .. a PROVE status'[segs[i].reqList[n]] = s
    OBVIOUS
  <2>1. CASE n = a
    BY <1>4, <2>1 DEF r
  <2>2. CASE n # a
    <3>1. n \in 1 .. segs[i].answered
      BY <1>2, <2>2 DEF a
    <3>2. n \in Positions(segs[i].reqList)
      BY <1>1, <1>9, <3>1
    <3> QED
      BY <1>1, <1>4, <1>7, <1>8, <2>2, <3>1, <3>2
  <2> QED
    BY <2>1, <2>2
<1>11. \A j \in DOMAIN segs : j # i => \A n \in 1 .. segs[j].answered :
         status'[segs[j].reqList[n]] = status[segs[j].reqList[n]]
  BY <1>4, <1>8, <1>9
<1> QED
  BY <1>10, <1>11 DEF a, s, i

(* An answer is the one its segment gave before.                           *)
LEMMA AnswerTold ==
  ASSUME TypeOK, RequestInv, SegmentInv, ToldTheSame, NEW w \in SegWriters, Answer(w)
  PROVE  ToldTheSame'
<1> DEFINE i == writer[w].seg
           a == segs[i].answered + 1
           s == IF writer[w].ok THEN "SUCCESS" ELSE "FAIL"
<1>1. /\ DOMAIN segs' = DOMAIN segs /\ i \in DOMAIN segs
      /\ \A j \in DOMAIN segs :
           /\ segs'[j].reqList = segs[j].reqList
           /\ segs'[j].answered = IF j = i THEN a ELSE segs[j].answered
      /\ a \in Positions(segs[i].reqList)
  BY AnswerEffect DEF RequestInv, SegmentInv
<1>2. writer' = writer /\ writer[w].at \in Answering
  BY DEF Answer, Answering
<1>3. Busy(w) /\ ToldBy(w)
  BY <1>2 DEF SegmentInv, WriterShape, ToldTheSame, Answering
<1>4. s \in {"SUCCESS", "FAIL"} /\ (writer[w].ok => s = "SUCCESS") /\ (~writer[w].ok => s = "FAIL")
  OBVIOUS
<1>5. /\ \A n \in 1 .. a : status'[segs[i].reqList[n]] = s
      /\ \A j \in DOMAIN segs : j # i => \A n \in 1 .. segs[j].answered :
           status'[segs[j].reqList[n]] = status[segs[j].reqList[n]]
  BY AnswerStatus
<1> HIDE DEF s, a, i
<1>6. ToldAlike'
  <2> SUFFICES ASSUME NEW j \in DOMAIN segs', NEW n \in 1 .. segs'[j].answered,
                      NEW m \in 1 .. segs'[j].answered
               PROVE  /\ status'[segs'[j].reqList[n]] = status'[segs'[j].reqList[m]]
                      /\ status'[segs'[j].reqList[n]] # "INIT"
    BY DEF ToldAlike
  <2>1. CASE j = i
    BY <1>1, <1>4, <1>5, <2>1
  <2>2. CASE j # i
    <3>1. /\ j \in DOMAIN segs /\ segs'[j].reqList = segs[j].reqList
          /\ segs'[j].answered = segs[j].answered
      BY <1>1, <2>2
    <3>2. /\ status'[segs[j].reqList[n]] = status[segs[j].reqList[n]]
          /\ status'[segs[j].reqList[m]] = status[segs[j].reqList[m]]
      BY <1>5, <2>2, <3>1
    <3>3. /\ status[segs[j].reqList[n]] = status[segs[j].reqList[m]]
          /\ status[segs[j].reqList[n]] # "INIT"
      BY <3>1 DEF ToldTheSame, ToldAlike
    <3> QED
      BY <3>1, <3>2, <3>3
  <2> QED
    BY <2>1, <2>2
<1>7. ASSUME NEW v \in SegWriters, writer[v].at # "idle" PROVE ToldBy(v)'
  <2>1. writer[v].seg \in DOMAIN segs /\ ToldBy(v) /\ Busy(v)
    BY <1>7 DEF SegmentInv, WriterShape, Busy, ToldTheSame, TypeOK, Writers
  <2>2. CASE v = w
    <3>1. segs'[i].answered = a /\ segs'[i].reqList = segs[i].reqList /\ writer[v].seg = i
      BY <1>1, <2>2 DEF i
    <3>2. writer[v].at # "answerWritten" => ~writer[v].ok
      BY <1>2, <1>3, <2>2 DEF Busy, Answering
    <3> QED
      BY <1>2, <1>4, <1>5, <2>2, <3>1, <3>2 DEF ToldBy
  <2>3. CASE v # w
    <3>1. writer[v].seg # i
      BY <1>3, <2>1, <2>3 DEF Busy, i
    <3>2. /\ segs'[writer[v].seg].answered = segs[writer[v].seg].answered
          /\ segs'[writer[v].seg].reqList = segs[writer[v].seg].reqList
          /\ \A n \in 1 .. segs[writer[v].seg].answered :
               status'[segs[writer[v].seg].reqList[n]] = status[segs[writer[v].seg].reqList[n]]
      BY <1>1, <1>5, <2>1, <3>1
    <3> QED
      BY <1>2, <2>1, <3>2 DEF ToldBy, All
  <2> QED
    BY <2>2, <2>3
<1> QED
  BY <1>2, <1>6, <1>7 DEF ToldTheSame

-----------------------------------------------------------------------------
(* The account of each segment. *)

(* Only open segments get requests, and none is taken away.                *)
ClosedSame ==
  \A i \in DOMAIN segs :
    /\ i \in DOMAIN segs'
    /\ segs[i].phase # "open" =>
         segs'[i].reqList = segs[i].reqList /\ segs'[i].answered = segs[i].answered

(* Only open segments change their phase, and to none are they deleted.    *)
PhasesKept ==
  \A i \in DOMAIN segs' :
    \/ i \in DOMAIN segs /\ segs'[i].phase = segs[i].phase
    \/ segs'[i].phase # "deleted" /\ (i \in DOMAIN segs => segs[i].phase = "open")

SameReturned == \A r \in Reqs : client'[r] = "returned" <=> client[r] = "returned"

(* The segments with successful requests, and who of them has returned,    *)
(* are the same.                                                           *)
GoodSame ==
  /\ \A i \in DOMAIN segs' : Good(i)' =>
       /\ i \in DOMAIN segs /\ Good(i)
       /\ segs'[i].reqList = segs[i].reqList /\ Unreturned(i)' = Unreturned(i)
  /\ \A i \in DOMAIN segs : Good(i) => i \in DOMAIN segs' /\ Good(i)'

(* Unchanged lists are those of segments that are told and closed alike.   *)
LEMMA SameListsClosed ==
  ASSUME SameLists
  PROVE  ToldStay /\ ClosedSame /\ DOMAIN segs' = DOMAIN segs
BY DEF SameLists, ToldStay, ClosedSame

(* The requests still to return stay while none returns.                   *)
LEMMA UnreturnedStays ==
  ASSUME TypeOK, SameReturned, NEW i \in DOMAIN segs, segs'[i].reqList = segs[i].reqList
  PROVE  Unreturned(i)' = Unreturned(i)
<1>1. \A n \in Positions(segs[i].reqList) : segs[i].reqList[n] \in Reqs
  BY SegmentType
<1>2. \A n \in Positions(segs[i].reqList) :
        client'[segs[i].reqList[n]] # "returned" <=> client[segs[i].reqList[n]] # "returned"
  BY <1>1 DEF SameReturned
<1> QED
  BY <1>2 DEF Unreturned

(* The segments with successful requests stay while nobody is answered or  *)
(* returns.                                                                *)
LEMMA GoodStays ==
  ASSUME TypeOK, OpenShape, ToldStay, ClosedSame, SameReturned, UNCHANGED status
  PROVE  GoodSame
<1>1. ASSUME NEW i \in DOMAIN segs', Good(i)'
      PROVE  /\ i \in DOMAIN segs /\ Good(i)
             /\ segs'[i].reqList = segs[i].reqList /\ Unreturned(i)' = Unreturned(i)
  <2>1. segs'[i].answered # 0
    BY <1>1 DEF Good
  <2>2. /\ i \in DOMAIN segs /\ segs'[i].answered = segs[i].answered
        /\ segs'[i].reqList = segs[i].reqList
    BY <2>1 DEF ToldStay
  <2> QED
    BY <1>1, <2>2, UnreturnedStays DEF Good
<1>2. ASSUME NEW i \in DOMAIN segs, Good(i) PROVE i \in DOMAIN segs' /\ Good(i)'
  <2>1. segs[i].answered # 0
    BY <1>2 DEF Good
  <2>2. segs[i].phase # "open"
    BY <2>1 DEF OpenShape
  <2> QED
    BY <1>2, <2>2 DEF ClosedSame, Good
<1> QED
  BY <1>1, <1>2 DEF GoodSame

(* Steps that leave the accounts alone.                                    *)
LEMMA AccountsStay ==
  ASSUME TypeOK, Accounted, GoodSame, SameReturned, SameAccounts,
         \A i \in DOMAIN segs' : Telling(i)' =>
           i \in DOMAIN segs /\ Telling(i) /\ segs'[i].reqList = segs[i].reqList
  PROVE  Accounted'
<1> SUFFICES ASSUME NEW i \in DOMAIN segs', Good(i)' \/ Telling(i)'
             PROVE  /\ segs'[i].reqCommited = Cardinality(Unreturned(i)')
                    /\ \A n \in Positions(segs'[i].reqList) :
                         segs'[i].reqList[n] \in Deletes =>
                           Among(segs'[i].reqList[n], segs'[i].delReqList)
  BY DEF Accounted, Among
<1>1. i \in DOMAIN segs /\ (Good(i) \/ Telling(i)) /\ segs'[i].reqList = segs[i].reqList
  BY DEF GoodSame
<1>2. Unreturned(i)' = Unreturned(i)
  BY <1>1, UnreturnedStays
<1> QED
  BY <1>1, <1>2 DEF Accounted, SameAccounts

(* A segment whose requests are being told was so before.                  *)
LEMMA TellingStays ==
  ASSUME TypeOK, SegmentInv, ClosedSame, UNCHANGED writer
  PROVE  \A i \in DOMAIN segs' : Telling(i)' =>
           i \in DOMAIN segs /\ Telling(i) /\ segs'[i].reqList = segs[i].reqList
<1> SUFFICES ASSUME NEW i \in DOMAIN segs', Telling(i)'
             PROVE  i \in DOMAIN segs /\ Telling(i) /\ segs'[i].reqList = segs[i].reqList
  OBVIOUS
<1>1. PICK w \in SegWriters : /\ writer[w].at = "answerWritten" /\ writer[w].ok
                              /\ writer[w].seg = i /\ segs'[i].answered < Len(segs'[i].reqList)
  BY DEF Telling, All
<1>2. i \in DOMAIN segs /\ segs[i].phase # "open"
  BY <1>1 DEF SegmentInv, WriterShape, Busy, TypeOK, Writers
<1>3. segs'[i].reqList = segs[i].reqList /\ segs'[i].answered = segs[i].answered
  BY <1>2 DEF ClosedSame
<1> QED
  BY <1>1, <1>2, <1>3 DEF Telling, All

(* Steps after which the reaper has what it had.                           *)
LEMMA ReaperStays ==
  ASSUME TypeOK, TypeOK', OpenShape, ReaperShape, GoodSame, PhasesKept, ClosedSame,
         UNCHANGED reaperWQ, reaping'.seg = reaping.seg,
         reaping.seg = 0 => reaping' = NotReaping,
         reaping.seg # 0 =>
           \A w \in SegWriters : writer'[w].seg = reaping.seg => writer[w].seg = reaping.seg
  PROVE  ReaperShape'
<1>1. DOMAIN segs' \subseteq Nat \ {0} /\ DOMAIN segs \subseteq Nat \ {0}
  BY DEF TypeOK
<1>2. \A n \in Positions(reaperWQ) : reaperWQ[n] \in DOMAIN segs
  BY DEF TypeOK, Positions
<1>3. reaping.seg \in {0} \cup DOMAIN segs
  BY DEF TypeOK
<1>4. \A i \in DOMAIN segs : segs[i].phase # "open" =>
        i \in DOMAIN segs' /\ segs'[i].phase = segs[i].phase
  BY DEF PhasesKept, ClosedSame
<1>5. \A i \in DOMAIN segs' : InReaper(i)' => i \in DOMAIN segs /\ InReaper(i)
  <2> SUFFICES ASSUME NEW i \in DOMAIN segs', InReaper(i)'
               PROVE  i \in DOMAIN segs /\ InReaper(i)
    OBVIOUS
  <2>1. CASE Among(i, reaperWQ)
    BY <1>2, <2>1 DEF Among, InReaper
  <2>2. CASE reaping.seg = i
    BY <1>1, <1>3, <2>2 DEF InReaper
  <2>3. CASE segs'[i].phase = "deleted"
    BY <2>3 DEF PhasesKept, InReaper
  <2> QED
    BY <2>1, <2>2, <2>3 DEF InReaper, Among
<1>6. \A i \in DOMAIN segs : InReaper(i) /\ segs[i].phase # "open" => InReaper(i)'
  BY <1>4 DEF InReaper, Among
<1>7. \A n, m \in Positions(reaperWQ') : reaperWQ'[n] = reaperWQ'[m] => n = m
  BY DEF ReaperShape
<1>8. \A n \in Positions(reaperWQ') :
        segs'[reaperWQ'[n]].phase = "completed" /\ reaperWQ'[n] # reaping'.seg
  BY <1>2, <1>4 DEF ReaperShape
<1>9. IF reaping'.seg = 0 THEN reaping' = NotReaping
      ELSE /\ segs'[reaping'.seg].phase = "completed"
           /\ \A w \in SegWriters : writer'[w].seg # reaping'.seg
  BY <1>3, <1>4 DEF ReaperShape
<1>10. \A i \in DOMAIN segs' : InReaper(i)' => Good(i)'
  BY <1>5 DEF ReaperShape, GoodSame
<1>11. \A i \in DOMAIN segs' : Good(i)' => (InReaper(i)' <=> Unreturned(i)' = {})
  <2> SUFFICES ASSUME NEW i \in DOMAIN segs', Good(i)'
               PROVE  InReaper(i)' <=> Unreturned(i)' = {}
    OBVIOUS
  <2>1. i \in DOMAIN segs /\ Good(i) /\ Unreturned(i)' = Unreturned(i)
    BY DEF GoodSame
  <2>2. segs[i].phase # "open"
    BY <2>1 DEF OpenShape, Good
  <2> QED
    BY <1>5, <1>6, <2>1, <2>2 DEF ReaperShape
<1> QED
  BY <1>7, <1>8, <1>9, <1>10, <1>11 DEF ReaperShape, NotReaping

(* Steps that answer nobody, after which the same clients have returned.   *)
LEMMA ReapCalm ==
  ASSUME TypeOK, TypeOK', SegmentInv, ToldTheSame, Accounted, ReaperShape,
         ToldStay, ClosedSame, SameAccounts, PhasesKept, SameReturned,
         UNCHANGED <<status, writer, reaperWQ>>, reaping'.seg = reaping.seg,
         reaping.seg = 0 => reaping' = NotReaping
  PROVE  ToldTheSame' /\ Accounted' /\ ReaperShape'
<1>1. GoodSame
  BY GoodStays DEF SegmentInv
<1>2. ToldTheSame'
  BY ToldOthers DEF ClosedSame
<1>3. Accounted'
  BY <1>1, AccountsStay, TellingStays
<1>4. ReaperShape'
  BY <1>1, ReaperStays DEF SegmentInv
<1> QED
  BY <1>2, <1>3, <1>4

(* No delete of a segment that the reaper has comes back to the index.     *)
NoneBack ==
  \A i \in DOMAIN segs : InReaper(i) =>
    \A n \in Positions(segs[i].reqList) :
      LET r == segs[i].reqList[n]
      IN r \in Deletes /\ index'[KeyOf[r]] = r => index[KeyOf[r]] = r

(* What the reaper has still to remove stays so while it does not go on.   *)
LEMMA TombstonesStay ==
  ASSUME TypeOK, TypeOK', ReaperShape, TombstonesLeft, NoTombstoneLeft, PhasesKept,
         \A i \in DOMAIN segs : segs[i].phase # "open" => segs'[i].reqList = segs[i].reqList,
         NoneBack, UNCHANGED reaping
  PROVE  TombstonesLeft' /\ NoTombstoneLeft'
<1>1. TombstonesLeft'
  <2> SUFFICES ASSUME reaping.seg # 0,
                      NEW n \in Positions(segs'[reaping.seg].reqList),
                      NEW r, r = segs'[reaping.seg].reqList[n],
                      r \in Deletes, index'[KeyOf[r]] = r
               PROVE  Among(r, reaping.entries)
    BY DEF TombstonesLeft, Among
  <2>1. reaping.seg \in DOMAIN segs /\ segs[reaping.seg].phase = "completed"
        /\ InReaper(reaping.seg)
    BY DEF TypeOK, ReaperShape, InReaper
  <2>2. segs'[reaping.seg].reqList = segs[reaping.seg].reqList
    BY <2>1
  <2>3. index[KeyOf[r]] = r
    BY <2>1, <2>2 DEF NoneBack
  <2> QED
    BY <2>2, <2>3 DEF TombstonesLeft
<1>2. NoTombstoneLeft'
  <2> SUFFICES ASSUME NEW i \in DOMAIN segs', segs'[i].phase = "deleted",
                      NEW n \in Positions(segs'[i].reqList),
                      NEW r, r = segs'[i].reqList[n], r \in Deletes, index'[KeyOf[r]] = r
               PROVE  FALSE
    BY DEF NoTombstoneLeft
  <2>1. i \in DOMAIN segs /\ segs[i].phase = "deleted" /\ InReaper(i)
    BY DEF PhasesKept, InReaper
  <2>2. segs'[i].reqList = segs[i].reqList
    BY <2>1
  <2>3. index[KeyOf[r]] = r
    BY <2>1, <2>2 DEF NoneBack
  <2> QED
    BY <2>1, <2>2, <2>3 DEF NoTombstoneLeft
<1> QED
  BY <1>1, <1>2

(* An unchanged index brings no tombstone back.                            *)
LEMMA SameIndexNoneBack ==
  ASSUME UNCHANGED index
  PROVE  NoneBack
BY DEF NoneBack

(* Merge threads and the timeout thread.                                   *)
LEMMA MergedEffect ==
  ASSUME TypeOK, OpenShape, NEW h \in Shards, ReqMerge(h) \/ SegTimeout(h)
  PROVE  /\ ToldStay /\ ClosedSame /\ SameAccounts /\ PhasesKept
         /\ UNCHANGED <<client, status, stamp, writer, clock, indexVars, frame>>
<1>1. segMap[h] \in DOMAIN segs /\ segs[segMap[h]].phase = "open" /\ segs[segMap[h]].answered = 0
  BY DEF TypeOK, OpenShape
<1>2. ASSUME NEW rs \in Seq(Reqs), Replaced(h, rs)
      PROVE  ToldStay /\ ClosedSame /\ SameAccounts /\ PhasesKept
  <2>1. /\ DOMAIN segs' = DOMAIN segs \cup {Len(segs) + 1}
        /\ \A i \in DOMAIN segs :
              /\ segs'[i].reqList = segs[i].reqList /\ segs'[i].answered = segs[i].answered
              /\ segs'[i].phase = IF i = segMap[h] THEN "completed" ELSE segs[i].phase
        /\ SameAccounts /\ segs'[Len(segs) + 1] = Opened(rs)
    BY <1>2, ReplacedEffect
  <2>2. Opened(rs).answered = 0 /\ Opened(rs).phase = "open"
    BY OpenedType
  <2>3. segs'[Len(segs) + 1].answered = 0 /\ segs'[Len(segs) + 1].phase = "open"
    BY <2>1, <2>2
  <2>4. ToldStay
    BY <2>1, <2>3 DEF ToldStay
  <2>5. ClosedSame
    BY <2>1 DEF ClosedSame
  <2>6. PhasesKept
    <3> SUFFICES ASSUME NEW i \in DOMAIN segs'
                 PROVE  \/ i \in DOMAIN segs /\ segs'[i].phase = segs[i].phase
                        \/ /\ segs'[i].phase # "deleted"
                           /\ i \in DOMAIN segs => segs[i].phase = "open"
      BY DEF PhasesKept
    <3>1. CASE i \in DOMAIN segs
      BY <1>1, <2>1, <3>1
    <3>2. CASE i \notin DOMAIN segs
      BY <2>1, <2>3, <3>2
    <3> QED
      BY <3>1, <3>2
  <2> QED
    BY <2>1, <2>4, <2>5, <2>6
<1>3. CASE SegTimeout(h)
  <2>1. <<>> \in Seq(Reqs)
    OBVIOUS
  <2> QED
    BY <1>2, <1>3, <2>1 DEF SegTimeout
<1>4. CASE ReqMerge(h)
  <2> DEFINE r == Head(reqWQ[h])
  <2>1. r \in Reqs
    BY <1>4, QueueTail DEF ReqMerge, TypeOK
  <2>2. CASE Replaced(h, <<r>>)
    <3>1. <<r>> \in Seq(Reqs)
      BY <2>1
    <3> QED
      BY <1>2, <1>4, <2>2, <3>1 DEF ReqMerge
  <2>3. CASE segs' = [segs EXCEPT ![segMap[h]].reqList = Append(@, r)]
    <3> HIDE DEF r
    <3>1. /\ DOMAIN segs' = DOMAIN segs /\ SamePhases /\ SameAccounts
          /\ \A i \in DOMAIN segs :
              /\ segs'[i].reqList =
                   IF i = segMap[h] THEN Append(segs[i].reqList, r) ELSE segs[i].reqList
              /\ segs'[i].answered = segs[i].answered
      BY <2>1, <2>3, FitsEffect
    <3>2. ToldStay
      BY <1>1, <3>1 DEF ToldStay
    <3>3. ClosedSame
      BY <1>1, <3>1 DEF ClosedSame
    <3>4. PhasesKept
      BY <3>1 DEF PhasesKept, SamePhases
    <3> QED
      BY <1>4, <3>1, <3>2, <3>3, <3>4 DEF ReqMerge
  <2> QED
    BY <1>4, <2>2, <2>3 DEF ReqMerge
<1> QED
  BY <1>3, <1>4

(* Steps that leave the segments alone.                                    *)
LEMMA SegmentsAlone ==
  ASSUME TypeOK, UNCHANGED segs
  PROVE  ToldStay /\ ClosedSame /\ SameAccounts /\ PhasesKept
<1>1. SameLists /\ SamePhases /\ SameAccounts
  BY SegsSame
<1> QED
  BY <1>1, SameListsClosed DEF PhasesKept, SamePhases

(* Merging and timeouts keep the reaper's invariant.                       *)
LEMMA MergeReap ==
  ASSUME TypeOK, TypeOK', SegmentInv, ReapInv, NEW h \in Shards, ReqMerge(h) \/ SegTimeout(h)
  PROVE  ReapInv'
<1>1. /\ ToldStay /\ ClosedSame /\ SameAccounts /\ PhasesKept
      /\ UNCHANGED <<client, status, writer, reaperWQ, reaping, index>>
  BY MergedEffect DEF SegmentInv, indexVars
<1>2. ToldTheSame' /\ Accounted' /\ ReaperShape'
  BY <1>1, ReapCalm DEF ReapInv, ReaperShape, SameReturned
<1>3. TombstonesLeft' /\ NoTombstoneLeft'
  BY <1>1, SameIndexNoneBack, TombstonesStay DEF ReapInv, ClosedSame
<1> QED
  BY <1>2, <1>3 DEF ReapInv

(* A new request keeps the reaper's invariant.                             *)
LEMMA WriteDataReap ==
  ASSUME TypeOK, TypeOK', SegmentInv, ReapInv, NEW r \in Reqs, WriteData(r)
  PROVE  ReapInv'
<1>1. UNCHANGED <<segs, status, writer, reaperWQ, reaping, index>>
  BY DEF WriteData, indexVars
<1>2. SameReturned
  BY DEF WriteData, SameReturned, TypeOK
<1>3. ToldTheSame' /\ Accounted' /\ ReaperShape'
  BY <1>1, <1>2, SegmentsAlone, ReapCalm DEF ReapInv, ReaperShape
<1>4. TombstonesLeft' /\ NoTombstoneLeft'
  BY <1>1, SegmentsAlone, SameIndexNoneBack, TombstonesStay DEF ReapInv, ClosedSame
<1> QED
  BY <1>3, <1>4 DEF ReapInv

(* The client of a successful request goes to the index.                   *)
LEMMA UpdateReap ==
  ASSUME TypeOK, TypeOK', RequestInv, SegmentInv, ReapInv, NEW r \in Reqs,
         UpdateIndex(r) \/ UpdateIndexRefused(r)
  PROVE  ReapInv'
<1>1. UNCHANGED <<segs, status, writer, reaperWQ, reaping>>
  BY DEF UpdateIndex, UpdateIndexRefused, pipeVars, indexVars
<1>2. client[r] = "answered" /\ client' = [client EXCEPT ![r] = "commit"]
  BY DEF UpdateIndex, UpdateIndexRefused
<1>3. SameReturned
  BY <1>2 DEF SameReturned, TypeOK
<1>4. \A k \in Keys : index'[k] = index[k] \/ index'[k] \in {NoReq, r}
  <2>1. CASE UpdateIndexRefused(r)
    BY <2>1 DEF UpdateIndexRefused, indexVars
  <2>2. CASE UpdateIndex(r)
    <3>1. index' = [index EXCEPT ![KeyOf[r]] = Updated(r, index[KeyOf[r]])]
      BY <2>2 DEF UpdateIndex
    <3>2. Updated(r, index[KeyOf[r]]) \in {NoReq, r, index[KeyOf[r]]}
      BY DEF Updated
    <3> QED
      BY <3>1, <3>2 DEF TypeOK
  <2> QED
    BY <2>1, <2>2
<1>5. NoneBack
  <2> SUFFICES ASSUME NEW i \in DOMAIN segs, InReaper(i), NEW n \in Positions(segs[i].reqList),
                      NEW d, d = segs[i].reqList[n], index'[KeyOf[d]] = d
               PROVE  index[KeyOf[d]] = d
    BY DEF NoneBack
  <2>1. client[d] = "returned"
    BY InReaperDone DEF ReapInv
  <2>2. d \in Reqs /\ KeyOf[d] \in Keys /\ d # NoReq
    BY SegmentType, WritePipelineAssumption
  <2>3. d # r
    BY <1>2, <2>1
  <2> QED
    BY <1>4, <2>2, <2>3
<1>6. ToldTheSame' /\ Accounted' /\ ReaperShape'
  BY <1>1, <1>3, SegmentsAlone, ReapCalm DEF ReapInv, ReaperShape
<1>7. TombstonesLeft' /\ NoTombstoneLeft'
  BY <1>1, <1>5, SegmentsAlone, TombstonesStay DEF ReapInv, ClosedSame
<1> QED
  BY <1>6, <1>7 DEF ReapInv

(* Steps of a writer that neither answer anybody nor begin to.             *)
LEMMA QuietWriter ==
  ASSUME TypeOK, TypeOK', RequestInv, SegmentInv, ReapInv, ToldTheSame', NEW w \in SegWriters,
         UNCHANGED <<segs, client, status, index, reaperWQ, reaping>>,
         \A v \in SegWriters : v # w => writer'[v] = writer[v],
         writer'[w].at # "answerWritten" \/ writer'[w] = writer[w],
         \/ writer'[w].seg \in {0, writer[w].seg}
         \/ writer'[w].seg \in DOMAIN segs /\ segs[writer'[w].seg].answered = 0
  PROVE  ReapInv'
<1>1. ToldStay /\ ClosedSame /\ SameAccounts /\ PhasesKept
  BY SegmentsAlone
<1>2. SameReturned
  BY DEF SameReturned
<1>3. GoodSame
  BY <1>1, <1>2, GoodStays DEF SegmentInv
<1>4. \A i \in DOMAIN segs' : Telling(i)' =>
        i \in DOMAIN segs /\ Telling(i) /\ segs'[i].reqList = segs[i].reqList
  BY DEF Telling, All
<1>5. Accounted'
  BY <1>1, <1>2, <1>3, <1>4, AccountsStay DEF ReapInv
<1>6. ASSUME reaping.seg # 0, NEW v \in SegWriters, writer'[v].seg = reaping.seg
      PROVE  writer[v].seg = reaping.seg
  <2>1. reaping.seg \in DOMAIN segs /\ InReaper(reaping.seg)
    BY <1>6 DEF TypeOK, InReaper
  <2>2. segs[reaping.seg].answered # 0
    BY <2>1 DEF ReapInv, ReaperShape, Good
  <2> QED
    BY <1>6, <2>1, <2>2
<1>7. ReaperShape'
  BY <1>1, <1>3, <1>6, ReaperStays DEF ReapInv, SegmentInv, ReaperShape
<1>8. TombstonesLeft' /\ NoTombstoneLeft'
  BY <1>1, SameIndexNoneBack, TombstonesStay DEF ReapInv, ClosedSame
<1> QED
  BY <1>5, <1>7, <1>8 DEF ReapInv

(* A writer's step that tells nobody keeps the reaper's invariant.         *)
LEMMA QuietSteps ==
  ASSUME TypeOK, TypeOK', RequestInv, SegmentInv, ReapInv, NEW w \in SegWriters,
         SegWrite(w), ~NotifyStart(w), ~Answer(w)
  PROVE  ReapInv'
<1>1. UNCHANGED <<segs, client, status, index, reaperWQ, reaping>>
  BY DEF SegWrite, SegWriteStart, Allocated, NotAllocated, Written, NotifyEnd, pipeVars,
         indexVars
<1>2. ToldTheSame'
  BY WriterTold DEF ReapInv, RequestInv
<1>3. /\ \A v \in SegWriters : v # w => writer'[v] = writer[v]
      /\ writer'[w].at # "answerWritten" \/ writer'[w] = writer[w]
      /\ \/ writer'[w].seg \in {0, writer[w].seg}
         \/ writer'[w].seg \in DOMAIN segs /\ segs[writer'[w].seg].answered = 0
  <2>1. CASE SegWriteStart(w)
    <3> DEFINE j == Head(segWteWQ)
    <3>1. j \in DOMAIN segs /\ j = segWteWQ[1] /\ 1 \in Positions(segWteWQ)
      BY <2>1, QueueTail DEF TypeOK, SegWriteStart
    <3>2. segs[j].answered = 0
      BY <3>1 DEF SegmentInv, QueueShape
    <3> HIDE DEF j
    <3>3. writer' = [writer EXCEPT ![w] = [at |-> "alloc", seg |-> j, ok |-> TRUE]]
      BY <2>1 DEF SegWriteStart, j
    <3>4. /\ writer'[w] = [at |-> "alloc", seg |-> j, ok |-> TRUE]
          /\ \A v \in SegWriters : v # w => writer'[v] = writer[v]
      BY <3>3, WriterSet
    <3>5. writer'[w].at = "alloc" /\ writer'[w].seg = j
      BY <3>4
    <3> QED
      BY <3>1, <3>2, <3>4, <3>5
  <2>2. CASE Allocated(w)
    BY <2>2, AllocatedWriter
  <2>3. CASE NotAllocated(w)
    BY <2>3, NotAllocatedWriter
  <2>4. CASE \E ok \in BOOLEAN : Written(w, ok)
    BY <2>4, WrittenWriter
  <2>5. CASE NotifyEnd(w)
    <3>1. /\ writer'[w] =
              IF writer[w].at = "answer" /\ keepsTrying
              THEN [at |-> "alloc", seg |-> writer[w].seg, ok |-> writer[w].ok] ELSE IdleWriter
          /\ \A v \in SegWriters : v # w => writer'[v] = writer[v]
      BY <2>5, NotifyEndWriter
    <3>2. CASE writer[w].at = "answer" /\ keepsTrying
      <4>1. writer'[w] = [at |-> "alloc", seg |-> writer[w].seg, ok |-> writer[w].ok]
        BY <3>1, <3>2
      <4>2. writer'[w].at = "alloc" /\ writer'[w].seg = writer[w].seg
        BY <4>1
      <4> QED
        BY <3>1, <4>2
    <3>3. CASE ~(writer[w].at = "answer" /\ keepsTrying)
      <4>1. writer'[w] = IdleWriter
        BY <3>1, <3>3
      <4>2. writer'[w].at = "idle" /\ writer'[w].seg = 0
        BY <4>1 DEF IdleWriter
      <4> QED
        BY <3>1, <4>2
    <3> QED
      BY <3>2, <3>3
  <2> QED
    BY <2>1, <2>2, <2>3, <2>4, <2>5 DEF SegWrite
<1> QED
  BY <1>1, <1>2, <1>3, QuietWriter

(* When no request of a segment is answered, all of its clients are to     *)
(* come.                                                                   *)
LEMMA AllUnreturned ==
  ASSUME TypeOK, RequestInv, NEW i \in DOMAIN segs, segs[i].answered = 0
  PROVE  Cardinality(Unreturned(i)) = All(i)
<1>1. Len(segs[i].reqList) \in Nat
  BY SegmentType
<1>2. \A n \in Positions(segs[i].reqList) : n > 0 /\ client[segs[i].reqList[n]] = "waiting"
  BY <1>1 DEF RequestInv, AnsweredInOrder, Positions
<1>3. Unreturned(i) = 1 .. Len(segs[i].reqList)
  BY <1>2 DEF Unreturned, Positions
<1> QED
  BY <1>1, <1>3, FS_Interval DEF All

(* The start of a notification keeps the reaper's invariant.               *)
LEMMA NotifyStartReap ==
  ASSUME TypeOK, TypeOK', RequestInv, SegmentInv, ReapInv, NEW w \in SegWriters, NotifyStart(w)
  PROVE  ReapInv'
<1>0. PICK i : i = writer[w].seg
  OBVIOUS
<1>1. /\ SameLists /\ SamePhases
      /\ i \in DOMAIN segs
      /\ \A j \in DOMAIN segs :
            IF j = i
            THEN /\ segs'[j].reqCommited = All(j)
                 /\ segs'[j].delReqList = segs[j].delReqList \o Tombstones(j)
            ELSE segs'[j] = segs[j]
  BY <1>0, NotifyStartEffect DEF RequestInv, SegmentInv
<1>2. /\ UNCHANGED <<client, status, index, reaperWQ, reaping>>
      /\ writer[w].at \in {"notify", "notifyWritten"}
  BY DEF NotifyStart, indexVars
<1>3. /\ writer'[w].seg = i /\ writer'[w].ok = writer[w].ok
      /\ \A v \in SegWriters : v # w => writer'[v] = writer[v]
  BY <1>0, NotifyStartWriter
<1>4. ToldStay /\ ClosedSame /\ DOMAIN segs' = DOMAIN segs /\ PhasesKept /\ SameReturned
  BY <1>1, <1>2, SameListsClosed DEF PhasesKept, SamePhases, SameReturned
<1>5. GoodSame
  BY <1>2, <1>4, GoodStays DEF SegmentInv
<1>6. Busy(w) /\ ToldBy(w)
  BY <1>2 DEF SegmentInv, WriterShape, ReapInv, ToldTheSame
<1>7. ToldTheSame'
  BY <1>2, WriterTold DEF SegWrite, ReapInv, RequestInv, Answer
<1>8. ReaperShape'
  <2>1. \A v \in SegWriters : writer'[v].seg = writer[v].seg
    BY <1>0, <1>3
  <2> QED
    BY <1>2, <1>4, <1>5, <2>1, ReaperStays DEF ReapInv, SegmentInv, ReaperShape
<1>9. TombstonesLeft' /\ NoTombstoneLeft'
  BY <1>2, <1>4, SameIndexNoneBack, TombstonesStay DEF ReapInv, ClosedSame
<1>10. ~Good(i)
  BY <1>0, <1>2, <1>6 DEF Good, ToldBy
<1>11. ASSUME Telling(i)'
       PROVE  segs[i].answered = 0
  <2>1. segs'[i].reqList = segs[i].reqList /\ segs'[i].answered = segs[i].answered
    BY <1>1 DEF SameLists
  <2>2. segs[i].answered < Len(segs[i].reqList)
    BY <1>11, <2>1 DEF Telling, All
  <2>3. Len(segs[i].reqList) \in Nat
    BY <1>1, SegmentType
  <2>4. writer[w].ok
    <3>1. PICK v \in SegWriters : writer'[v].ok /\ writer'[v].seg = i
      BY <1>11 DEF Telling
    <3>2. v = w
      BY <1>0, <1>3, <1>6, <3>1 DEF Busy
    <3> QED
      BY <1>3, <3>1, <3>2
  <2> QED
    BY <1>0, <1>2, <1>6, <2>2, <2>3, <2>4 DEF Busy, Answering, All
<1>12. ASSUME NEW j \in DOMAIN segs, Good(j)' \/ Telling(j)', j # i
       PROVE  Good(j) \/ Telling(j)
  <2>1. CASE Good(j)'
    BY <1>4, <1>5, <2>1 DEF GoodSame
  <2>2. CASE Telling(j)'
    <3>1. PICK v \in SegWriters :
            /\ writer'[v].at = "answerWritten" /\ writer'[v].ok
            /\ writer'[v].seg = j /\ segs'[j].answered < Len(segs'[j].reqList)
      BY <2>2 DEF Telling, All
    <3>2. v # w /\ writer'[v] = writer[v] /\ segs'[j] = segs[j]
      BY <1>1, <1>3, <1>12, <3>1
    <3> QED
      BY <3>1, <3>2 DEF Telling, All
  <2> QED
    BY <1>12, <2>1, <2>2
<1>13. Accounted'
  <2> SUFFICES ASSUME NEW j \in DOMAIN segs', Good(j)' \/ Telling(j)'
               PROVE  /\ segs'[j].reqCommited = Cardinality(Unreturned(j)')
                      /\ \A n \in Positions(segs'[j].reqList) :
                           segs'[j].reqList[n] \in Deletes =>
                             Among(segs'[j].reqList[n], segs'[j].delReqList)
    BY DEF Accounted, Among
  <2>1. j \in DOMAIN segs /\ segs'[j].reqList = segs[j].reqList
    BY <1>1, <1>4 DEF SameLists
  <2>2. Unreturned(j)' = Unreturned(j)
    BY <1>4, <2>1, UnreturnedStays
  <2>3. CASE j # i
    BY <1>1, <1>12, <2>1, <2>2, <2>3 DEF ReapInv, Accounted
  <2>4. CASE j = i
    <3>1. segs[i].answered = 0
      BY <1>4, <1>5, <1>10, <1>11, <2>4 DEF GoodSame
    <3>2. segs'[j].reqCommited = Cardinality(Unreturned(j)')
      BY <1>1, <2>1, <2>2, <2>4, <3>1, AllUnreturned
    <3>3. ASSUME NEW n \in Positions(segs[i].reqList), segs[i].reqList[n] \in Deletes
          PROVE  Among(segs[i].reqList[n], segs'[i].delReqList)
      <4>1. n > segs[i].answered
        BY <3>1, <3>3 DEF Positions
      <4>2. /\ Among(segs[i].reqList[n], Tombstones(i))
            /\ Tombstones(i) \in Seq(Reqs) /\ segs[i].delReqList \in Seq(Reqs)
        BY <1>1, <3>3, <4>1, TombstonesListed, SegmentType DEF RequestInv
      <4>3. Among(segs[i].reqList[n], segs[i].delReqList \o Tombstones(i))
        BY <4>2, AmongBoth
      <4> QED
        BY <1>1, <4>3
    <3> QED
      BY <2>1, <2>4, <3>2, <3>3
  <2> QED
    BY <2>3, <2>4
<1> QED
  BY <1>7, <1>8, <1>9, <1>13 DEF ReapInv

(* One more request is answered: with success only where the account of    *)
(* the segment was settled before.                                         *)
LEMMA AnswerReap ==
  ASSUME TypeOK, TypeOK', RequestInv, SegmentInv, ReapInv, NEW w \in SegWriters, Answer(w)
  PROVE  ReapInv'
<1>0. PICK i, s : i = writer[w].seg /\ s = IF writer[w].ok THEN "SUCCESS" ELSE "FAIL"
  OBVIOUS
<1> DEFINE a == segs[i].answered + 1
<1>1. /\ DOMAIN segs' = DOMAIN segs /\ i \in DOMAIN segs
      /\ \A j \in DOMAIN segs :
           /\ segs'[j].reqList = segs[j].reqList
           /\ segs'[j].answered = IF j = i THEN a ELSE segs[j].answered
      /\ a \in Positions(segs[i].reqList)
      /\ SamePhases /\ SameAccounts
  BY <1>0, AnswerEffect DEF RequestInv, SegmentInv
<1>2. /\ UNCHANGED <<writer, index, reaperWQ, reaping>> /\ writer[w].at \in Answering
      /\ client' = [client EXCEPT ![segs[i].reqList[a]] = "answered"]
  BY <1>0 DEF Answer, indexVars, Answering
<1>3. Busy(w) /\ ToldBy(w)
  BY <1>2 DEF SegmentInv, WriterShape, ReapInv, ToldTheSame, Answering
<1>4. /\ \A n \in 1 .. a : status'[segs[i].reqList[n]] = s
      /\ \A j \in DOMAIN segs : j # i => \A n \in 1 .. segs[j].answered :
           status'[segs[j].reqList[n]] = status[segs[j].reqList[n]]
  BY <1>0, AnswerStatus DEF ReapInv
<1>5. /\ segs[i].answered \in Nat /\ a \in Nat /\ segs[i].reqList[a] \in Reqs
      /\ Len(segs[i].reqList) \in Nat /\ segs[i].answered < Len(segs[i].reqList)
  BY <1>1, SegmentType DEF Positions
<1>6. client[segs[i].reqList[a]] = "waiting"
  BY <1>1, <1>5 DEF RequestInv, AnsweredInOrder
<1>7. SameReturned
  BY <1>2, <1>5, <1>6 DEF SameReturned, TypeOK
<1>8. \A j \in DOMAIN segs : Unreturned(j)' = Unreturned(j)
  BY <1>1, <1>7, UnreturnedStays
<1>9. ToldTheSame'
  BY AnswerTold DEF ReapInv
<1>10. a \in Unreturned(i)
  BY <1>1, <1>6 DEF Unreturned
<1>11. ASSUME InReaper(i) PROVE FALSE
  <2>1. segs[i].answered = Len(segs[i].reqList)
    BY <1>1, <1>11, InReaperDone DEF ReapInv, All
  <2> QED
    BY <1>5, <2>1
<1> HIDE DEF a
<1>12. \A j \in DOMAIN segs : j # i => (Good(j)' <=> Good(j)) /\ (Telling(j)' <=> Telling(j))
  <2> SUFFICES ASSUME NEW j \in DOMAIN segs, j # i
               PROVE  (Good(j)' <=> Good(j)) /\ (Telling(j)' <=> Telling(j))
    OBVIOUS
  <2>1. segs'[j].reqList = segs[j].reqList /\ segs'[j].answered = segs[j].answered
    BY <1>1
  <2>2. Good(j)' <=> Good(j)
    BY <1>4, <2>1 DEF Good
  <2>3. Telling(j)' <=> Telling(j)
    BY <1>2, <2>1 DEF Telling, All
  <2> QED
    BY <2>2, <2>3
<1>13. ASSUME Good(i)' \/ Telling(i)'
       PROVE  Telling(i)
  <2>1. CASE ~writer[w].ok
    <3>1. s = "FAIL" /\ segs'[i].answered = a /\ segs'[i].reqList = segs[i].reqList
      BY <1>0, <1>1, <2>1
    <3>2. ~Good(i)'
      BY <1>4, <3>1 DEF Good
    <3>3. ~Telling(i)'
      BY <1>0, <1>2, <1>3, <2>1 DEF Telling, Busy
    <3> QED
      BY <1>13, <3>2, <3>3
  <2>2. CASE writer[w].ok
    <3>1. writer[w].at = "answerWritten"
      BY <1>2, <1>3, <2>2 DEF Busy, Answering
    <3> QED
      BY <1>0, <1>5, <2>2, <3>1 DEF Telling, All
  <2> QED
    BY <2>1, <2>2
<1>14. Accounted'
  <2> SUFFICES ASSUME NEW j \in DOMAIN segs', Good(j)' \/ Telling(j)'
               PROVE  /\ segs'[j].reqCommited = Cardinality(Unreturned(j)')
                      /\ \A n \in Positions(segs'[j].reqList) :
                           segs'[j].reqList[n] \in Deletes =>
                             Among(segs'[j].reqList[n], segs'[j].delReqList)
    BY DEF Accounted, Among
  <2>1. j \in DOMAIN segs /\ (Good(j) \/ Telling(j))
    BY <1>1, <1>12, <1>13
  <2>2. /\ segs'[j].reqList = segs[j].reqList /\ Unreturned(j)' = Unreturned(j)
        /\ segs'[j].reqCommited = segs[j].reqCommited
        /\ segs'[j].delReqList = segs[j].delReqList
    BY <1>1, <1>8, <2>1 DEF SameAccounts
  <2> QED
    BY <2>1, <2>2 DEF ReapInv, Accounted
<1>15. ReaperShape'
  <2>1. \A j \in DOMAIN segs : InReaper(j)' <=> InReaper(j)
    BY <1>1, <1>2 DEF InReaper, Among, SamePhases
  <2>2. \A j \in DOMAIN segs' : InReaper(j)' => Good(j)'
    BY <1>1, <1>11, <1>12, <2>1 DEF ReapInv, ReaperShape
  <2>3. \A j \in DOMAIN segs' : Good(j)' => (InReaper(j)' <=> Unreturned(j)' = {})
    BY <1>1, <1>8, <1>10, <1>11, <1>12, <2>1 DEF ReapInv, ReaperShape
  <2>4. reaping.seg \in {0} \cup DOMAIN segs
    BY DEF TypeOK
  <2>5. \A n \in Positions(reaperWQ) : reaperWQ[n] \in DOMAIN segs
    BY DEF TypeOK, Positions
  <2> QED
    BY <1>1, <1>2, <2>2, <2>3, <2>4, <2>5 DEF ReapInv, ReaperShape, SamePhases, NotReaping
<1>16. PhasesKept
  BY <1>1 DEF PhasesKept, SamePhases
<1>17. TombstonesLeft' /\ NoTombstoneLeft'
  BY <1>1, <1>2, <1>16, SameIndexNoneBack, TombstonesStay DEF ReapInv
<1> QED
  BY <1>9, <1>14, <1>15, <1>17 DEF ReapInv

(* The queue p is q with e at its end.                                     *)
Appended(p, q, e) == p = Append(q, e)

(* A queue with an element more.                                           *)
LEMMA QueueAppended ==
  ASSUME NEW S, NEW q \in Seq(S), NEW e \in S, NEW p, Appended(p, q, e)
  PROVE  /\ Positions(p) = Positions(q) \cup {Len(q) + 1}
         /\ p[Len(q) + 1] = e /\ \A n \in Positions(q) : p[n] = q[n]
         /\ \A x : Among(x, p) <=> Among(x, q) \/ x = e
<1>1. /\ Positions(p) = Positions(q) \cup {Len(q) + 1}
      /\ p[Len(q) + 1] = e /\ \A n \in Positions(q) : p[n] = q[n]
  <2>1. /\ Positions(Append(q, e)) = Positions(q) \cup {Len(q) + 1}
        /\ Append(q, e)[Len(q) + 1] = e
        /\ \A n \in Positions(q) : Append(q, e)[n] = q[n]
    BY DEF Positions
  <2>2. p = Append(q, e)
    BY DEF Appended
  <2> QED
    BY <2>1, <2>2, Zenon
<1> QED
  BY <1>1 DEF Among

(* Clients that return.                                                    *)
LEMMA OneReturns ==
  ASSUME TypeOK, RequestInv, NEW r \in Reqs, client[r] \in {"answered", "commit"},
         client' = [client EXCEPT ![r] = "returned"], SameLists, NEW i, i = SegOf(r)
  PROVE  /\ i \in DOMAIN segs
         /\ \A j \in DOMAIN segs : j # i => Unreturned(j)' = Unreturned(j)
         /\ \E n \in Unreturned(i) :
              /\ n \in 1 .. segs[i].answered /\ segs[i].reqList[n] = r
              /\ Unreturned(i)' = Unreturned(i) \ {n}
<1>1. /\ i \in DOMAIN segs
      /\ \E n \in 1 .. segs[i].answered : segs[i].reqList[n] = r
      /\ \A j \in DOMAIN segs : Holds(j, r) => j = i
  BY AnsweredHeld
<1>2. PICK n \in 1 .. segs[i].answered : segs[i].reqList[n] = r
  BY <1>1
<1>3. n \in Positions(segs[i].reqList)
  BY <1>1, <1>2, SegmentType DEF RequestInv, Counted, All, Positions
<1>4. /\ client'[r] = "returned" /\ client[r] # "returned"
      /\ \A d \in Reqs : d # r => client'[d] = client[d]
  BY DEF TypeOK
<1>5. \A j \in DOMAIN segs : segs'[j].reqList = segs[j].reqList
  BY DEF SameLists
<1>6. ASSUME NEW j \in DOMAIN segs, j # i PROVE Unreturned(j)' = Unreturned(j)
  <2>1. \A m \in Positions(segs[j].reqList) : segs[j].reqList[m] \in Reqs \ {r}
    BY <1>1, <1>6, SegmentType DEF Holds
  <2> QED
    BY <1>4, <1>5, <2>1 DEF Unreturned
<1>7. \A m \in Positions(segs[i].reqList) :
        segs[i].reqList[m] \in Reqs /\ (m # n => segs[i].reqList[m] # r)
  BY <1>1, <1>2, <1>3, SegmentType DEF RequestInv, HeldOnce
<1>8. Unreturned(i)' = Unreturned(i) \ {n}
  BY <1>1, <1>2, <1>4, <1>5, <1>7 DEF Unreturned
<1>9. n \in Unreturned(i)
  BY <1>2, <1>3, <1>4 DEF Unreturned
<1> QED
  BY <1>1, <1>2, <1>6, <1>8, <1>9

(* A return of failure keeps the reaper's invariant.                       *)
LEMMA ReturnFailureReap ==
  ASSUME TypeOK, TypeOK', RequestInv, SegmentInv, ReapInv, NEW r \in Reqs, ReturnFailure(r)
  PROVE  ReapInv'
<1>1. UNCHANGED <<segs, status, writer, index, reaperWQ, reaping>>
  BY DEF ReturnFailure, pipeVars, indexVars
<1>2. ToldStay /\ ClosedSame /\ SameAccounts /\ PhasesKept /\ SameLists
  BY <1>1, SegmentsAlone, SegsSame
<1>3. ToldTheSame'
  BY <1>1, <1>2, ToldOthers DEF ReapInv, ClosedSame
<1>4. TombstonesLeft' /\ NoTombstoneLeft'
  BY <1>1, <1>2, SameIndexNoneBack, TombstonesStay DEF ReapInv, ClosedSame
<1>5. PICK i : i = SegOf(r)
  OBVIOUS
<1>6. /\ i \in DOMAIN segs
      /\ \A j \in DOMAIN segs : j # i => Unreturned(j)' = Unreturned(j)
      /\ \E n \in 1 .. segs[i].answered : segs[i].reqList[n] = r
  <2>1. client[r] = "answered" /\ client' = [client EXCEPT ![r] = "returned"]
    BY DEF ReturnFailure
  <2> QED
    BY <1>2, <1>5, <2>1, OneReturns
<1>7. \A n \in 1 .. segs[i].answered : status[segs[i].reqList[n]] # "SUCCESS"
  BY <1>6 DEF ReturnFailure, ReapInv, ToldTheSame, ToldAlike
<1>8. ~Good(i)
  BY <1>7 DEF Good
<1>9. ASSUME Telling(i) PROVE FALSE
  <2>1. PICK w \in SegWriters : /\ writer[w].at = "answerWritten" /\ writer[w].ok
                                /\ writer[w].seg = i /\ segs[i].answered < All(i)
    BY <1>9 DEF Telling
  <2>2. ToldBy(w)
    BY <2>1 DEF ReapInv, ToldTheSame
  <2> QED
    BY <1>6, <1>7, <2>1, <2>2 DEF ToldBy
<1>10. \A j \in DOMAIN segs : /\ Good(j)' <=> Good(j)
                              /\ Telling(j)' <=> Telling(j)
                              /\ InReaper(j)' <=> InReaper(j)
  BY <1>1 DEF Good, Telling, All, InReaper, Among
<1>11. Accounted'
  <2> SUFFICES ASSUME NEW j \in DOMAIN segs, Good(j)' \/ Telling(j)'
               PROVE  /\ segs'[j].reqCommited = Cardinality(Unreturned(j)')
                      /\ \A n \in Positions(segs'[j].reqList) :
                           segs'[j].reqList[n] \in Deletes =>
                             Among(segs'[j].reqList[n], segs'[j].delReqList)
    BY <1>1 DEF Accounted, Among
  <2>1. (Good(j) \/ Telling(j)) /\ j # i
    BY <1>8, <1>9, <1>10
  <2>2. Unreturned(j)' = Unreturned(j)
    BY <1>6, <2>1
  <2> QED
    BY <1>1, <2>1, <2>2 DEF ReapInv, Accounted
<1>12. ReaperShape'
  <2>1. \A j \in DOMAIN segs' : InReaper(j)' => Good(j)'
    BY <1>1, <1>10 DEF ReapInv, ReaperShape
  <2>2. \A j \in DOMAIN segs' : Good(j)' => (InReaper(j)' <=> Unreturned(j)' = {})
    BY <1>1, <1>6, <1>8, <1>10 DEF ReapInv, ReaperShape
  <2> QED
    BY <1>1, <2>1, <2>2 DEF ReapInv, ReaperShape, NotReaping
<1> QED
  BY <1>3, <1>4, <1>11, <1>12 DEF ReapInv

(* A client that goes on after its success: the last one, and no other,    *)
(* hands the segment to the reaper.                                        *)
LEMMA CommitReap ==
  ASSUME TypeOK, TypeOK', RequestInv, SegmentInv, ReapInv, Decided, NEW r \in Reqs, Commit(r)
  PROVE  ReapInv'
<1>0. PICK i : i = SegOf(r)
  OBVIOUS
<1>1. /\ SameLists /\ SamePhases /\ i \in DOMAIN segs /\ Good(i)
      /\ segs[i].reqCommited = Cardinality(Unreturned(i))
      /\ \A j \in DOMAIN segs :
           /\ segs'[j].reqCommited =
                IF j = i THEN segs[j].reqCommited - 1 ELSE segs[j].reqCommited
           /\ segs'[j].delReqList = segs[j].delReqList
  BY <1>0, CommitEffect DEF ReapInv
<1>2. /\ UNCHANGED <<status, writer, index, reaping>>
      /\ client[r] = "commit" /\ client' = [client EXCEPT ![r] = "returned"]
      /\ reaperWQ' = IF segs[i].reqCommited = 1 THEN Append(reaperWQ, i) ELSE reaperWQ
  BY <1>0 DEF Commit
<1>3. ToldStay /\ ClosedSame /\ DOMAIN segs' = DOMAIN segs /\ PhasesKept
  BY <1>1, SameListsClosed DEF PhasesKept, SamePhases
<1>4. ToldTheSame'
  BY <1>2, <1>3, ToldOthers DEF ReapInv, ClosedSame
<1>5. TombstonesLeft' /\ NoTombstoneLeft'
  BY <1>2, <1>3, SameIndexNoneBack, TombstonesStay DEF ReapInv, ClosedSame
<1>6. \A j \in DOMAIN segs : j # i => Unreturned(j)' = Unreturned(j)
  BY <1>0, <1>1, <1>2, OneReturns
<1>7. PICK n \in Unreturned(i) :
        n \in 1 .. segs[i].answered /\ Unreturned(i)' = Unreturned(i) \ {n}
  BY <1>0, <1>1, <1>2, OneReturns
<1>8. Cardinality(Unreturned(i)') = segs[i].reqCommited - 1
  BY <1>1, <1>7, UnreturnedFinite, FS_RemoveElement
<1>9. Unreturned(i)' = {} <=> segs[i].reqCommited = 1
  <2>1. segs[i].reqCommited \in Nat
    BY <1>1, SegmentType
  <2>2. IsFiniteSet(Unreturned(i)')
    BY <1>1, <1>7, UnreturnedFinite, FS_RemoveElement
  <2>3. Cardinality(Unreturned(i)') = 0 <=> Unreturned(i)' = {}
    BY <2>2, FS_EmptySet
  <2> QED
    BY <1>8, <2>1, <2>3
<1>10. \A j \in DOMAIN segs : (Good(j)' <=> Good(j)) /\ (Telling(j)' <=> Telling(j))
  BY <1>1, <1>2 DEF SameLists, Good, Telling, All
<1>11. Accounted'
  <2> SUFFICES ASSUME NEW j \in DOMAIN segs, Good(j)' \/ Telling(j)'
               PROVE  /\ segs'[j].reqCommited = Cardinality(Unreturned(j)')
                      /\ \A m \in Positions(segs'[j].reqList) :
                           segs'[j].reqList[m] \in Deletes =>
                             Among(segs'[j].reqList[m], segs'[j].delReqList)
    BY <1>3 DEF Accounted, Among
  <2>1. Good(j) \/ Telling(j)
    BY <1>10
  <2>2. segs'[j].reqList = segs[j].reqList /\ segs'[j].delReqList = segs[j].delReqList
    BY <1>1 DEF SameLists
  <2>3. segs'[j].reqCommited = Cardinality(Unreturned(j)')
    <3>1. CASE j = i
      BY <1>1, <1>8, <3>1
    <3>2. CASE j # i
      BY <1>1, <1>6, <2>1, <3>2 DEF ReapInv, Accounted
    <3> QED
      BY <3>1, <3>2
  <2> QED
    BY <2>1, <2>2, <2>3 DEF ReapInv, Accounted
<1>12. ~InReaper(i) /\ segs[i].phase = "completed"
  <2>1. ~InReaper(i)
    BY <1>1, <1>7 DEF ReapInv, ReaperShape
  <2>2. segs[i].answered # 0
    BY <1>1, <1>7, SegmentType
  <2> QED
    BY <1>1, <2>1, <2>2, SegmentType DEF InReaper, SegmentInv, OpenShape
<1>13. \A j \in DOMAIN segs :
         InReaper(j)' <=> InReaper(j) \/ (j = i /\ segs[i].reqCommited = 1)
  <2>1. CASE segs[i].reqCommited = 1
    <3>1. reaperWQ \in Seq(DOMAIN segs) /\ Appended(reaperWQ', reaperWQ, i)
      BY <1>2, <2>1 DEF TypeOK, Appended
    <3>2. \A j \in DOMAIN segs : Among(j, reaperWQ') <=> Among(j, reaperWQ) \/ j = i
      BY <1>1, <3>1, QueueAppended
    <3> QED
      BY <1>1, <1>2, <2>1, <3>2 DEF InReaper, Among, SamePhases
  <2>2. CASE segs[i].reqCommited # 1
    BY <1>1, <1>2, <2>2 DEF InReaper, Among, SamePhases
  <2> QED
    BY <2>1, <2>2
<1>14. ReaperShape'
  <2>1. /\ \A m, k \in Positions(reaperWQ') : reaperWQ'[m] = reaperWQ'[k] => m = k
        /\ \A m \in Positions(reaperWQ') :
             /\ reaperWQ'[m] \in DOMAIN segs
             /\ segs[reaperWQ'[m]].phase = "completed" /\ reaperWQ'[m] # reaping.seg
    <3>1. /\ \A m, k \in Positions(reaperWQ) : reaperWQ[m] = reaperWQ[k] => m = k
          /\ \A m \in Positions(reaperWQ) :
               /\ reaperWQ[m] \in DOMAIN segs /\ reaperWQ[m] # i
               /\ segs[reaperWQ[m]].phase = "completed" /\ reaperWQ[m] # reaping.seg
      <4>1. \A m \in Positions(reaperWQ) : reaperWQ[m] \in DOMAIN segs
        BY DEF TypeOK, Positions
      <4>2. \A m \in Positions(reaperWQ) : reaperWQ[m] # i
        BY <1>12 DEF InReaper, Among
      <4> QED
        BY <4>1, <4>2 DEF ReapInv, ReaperShape
    <3>2. CASE segs[i].reqCommited = 1
      <4>1. reaperWQ \in Seq(DOMAIN segs) /\ Appended(reaperWQ', reaperWQ, i)
        BY <1>2, <3>2 DEF TypeOK, Appended
      <4>2. /\ Positions(reaperWQ') = Positions(reaperWQ) \cup {Len(reaperWQ) + 1}
            /\ reaperWQ'[Len(reaperWQ) + 1] = i
            /\ \A m \in Positions(reaperWQ) : reaperWQ'[m] = reaperWQ[m]
        BY <1>1, <4>1, QueueAppended
      <4>3. reaping.seg # i
        BY <1>12 DEF InReaper
      <4> HIDE <3>2
      <4> QED
        BY <1>1, <1>12, <3>1, <4>2, <4>3
    <3>3. CASE segs[i].reqCommited # 1
      BY <1>2, <3>1, <3>3
    <3> QED
      BY <3>2, <3>3
  <2>2. \A j \in DOMAIN segs' : InReaper(j)' => Good(j)'
    BY <1>1, <1>3, <1>10, <1>13 DEF ReapInv, ReaperShape
  <2>3. \A j \in DOMAIN segs' : Good(j)' => (InReaper(j)' <=> Unreturned(j)' = {})
    BY <1>3, <1>6, <1>9, <1>10, <1>12, <1>13 DEF ReapInv, ReaperShape
  <2>4. reaping.seg \in {0} \cup DOMAIN segs
    BY DEF TypeOK
  <2> QED
    BY <1>1, <1>2, <2>1, <2>2, <2>3, <2>4 DEF ReapInv, ReaperShape, SamePhases, NotReaping
<1> QED
  BY <1>4, <1>5, <1>11, <1>14 DEF ReapInv

-----------------------------------------------------------------------------
(* The reaper. *)

(* The queue p is q without its oldest task.                               *)
Shifted(p, q) == q # <<>> /\ p = Tail(q)

(* A queue with an element less.                                           *)
LEMMA QueueShifted ==
  ASSUME NEW S, NEW q \in Seq(S), NEW p, Shifted(p, q)
  PROVE  /\ q[1] \in S /\ 1 \in Positions(q) /\ p \in Seq(S)
         /\ \A n \in Positions(p) : n + 1 \in Positions(q) /\ p[n] = q[n + 1]
         /\ \A n \in Positions(q) : n # 1 => n - 1 \in Positions(p)
<1>1. /\ q[1] \in S /\ 1 \in Positions(q) /\ Tail(q) \in Seq(S)
      /\ \A n \in Positions(Tail(q)) : n + 1 \in Positions(q) /\ Tail(q)[n] = q[n + 1]
      /\ \A n \in Positions(q) : n # 1 => n - 1 \in Positions(Tail(q))
  <2>1. q # <<>>
    BY DEF Shifted
  <2> QED
    BY <2>1 DEF Positions
<1>2. p = Tail(q)
  BY DEF Shifted
<1> QED
  BY <1>1, <1>2, Zenon

(* A segment that was handed to the reaper has no writer, unless one has   *)
(* yet to leave Notify.                                                    *)
LEMMA NoWriterLeft ==
  ASSUME TypeOK, RequestInv, SegmentInv, ReapInv, NEW i \in DOMAIN segs, InReaper(i),
         ~Notifying(i)
  PROVE  \A w \in SegWriters : writer[w].seg # i
<1> SUFFICES ASSUME NEW w \in SegWriters, writer[w].seg = i PROVE FALSE
  OBVIOUS
<1>1. i # 0
  BY NumbersPositive
<1>2. writer[w].at # "idle"
  BY <1>1 DEF SegmentInv, WriterShape, IdleWriter
<1>3. writer[w].at \notin Answering
  BY DEF Notifying, Answering
<1>4. ToldBy(w)
  BY <1>2 DEF ReapInv, ToldTheSame
<1>5. Good(i)
  BY DEF ReapInv, ReaperShape
<1>6. writer[w].at # "answerWritten"
  BY <1>3 DEF Answering
<1> QED
  BY <1>4, <1>5, <1>6 DEF ToldBy, Good

(* The reaper's start on a segment keeps its invariant.                    *)
LEMMA ReapStartReap ==
  ASSUME TypeOK, TypeOK', RequestInv, SegmentInv, ReapInv, ReapStart
  PROVE  ReapInv'
<1>0. PICK h : h = Head(reaperWQ)
  OBVIOUS
<1>1. /\ UNCHANGED <<segs, client, status, writer, index>>
      /\ reaping.seg = 0 /\ reaperWQ # <<>> /\ ~Notifying(h)
      /\ reaping' = [seg |-> h, entries |-> segs[h].delReqList]
  BY <1>0 DEF ReapStart, pipeVars
<1>2. /\ h \in DOMAIN segs /\ h = reaperWQ[1] /\ 1 \in Positions(reaperWQ)
      /\ \A n \in Positions(reaperWQ') :
           n + 1 \in Positions(reaperWQ) /\ reaperWQ'[n] = reaperWQ[n + 1]
      /\ \A n \in Positions(reaperWQ) : n # 1 => n - 1 \in Positions(reaperWQ')
  <2>1. reaperWQ \in Seq(DOMAIN segs) /\ Shifted(reaperWQ', reaperWQ)
    BY DEF ReapStart, TypeOK, Shifted
  <2>2. h = reaperWQ[1]
    BY <1>0, <2>1 DEF TypeOK
  <2> QED
    BY <2>1, <2>2, QueueShifted
<1>3. reaping'.seg = h /\ reaping'.entries = segs[h].delReqList /\ h # 0
  BY <1>1, <1>2, NumbersPositive
<1> HIDE <1>1
<1>4. UNCHANGED <<segs, client, status, writer, index>> /\ reaping.seg = 0 /\ ~Notifying(h)
  BY <1>1
<1>5. ToldStay /\ ClosedSame /\ SameAccounts /\ PhasesKept /\ SameReturned
  BY <1>4, SegmentsAlone DEF SameReturned
<1>6. GoodSame
  BY <1>4, <1>5, GoodStays DEF SegmentInv
<1>7. ToldTheSame'
  BY <1>4, <1>5, ToldOthers DEF ReapInv, ClosedSame
<1>8. Accounted'
  BY <1>4, <1>5, <1>6, AccountsStay, TellingStays DEF ReapInv
<1>9. InReaper(h) /\ Good(h)
  BY <1>2 DEF InReaper, Among, ReapInv, ReaperShape
<1>10. \A w \in SegWriters : writer[w].seg # h
  BY <1>2, <1>4, <1>9, NoWriterLeft
<1>11. Positions(reaperWQ) \subseteq Int /\ Positions(reaperWQ') \subseteq Int
  BY DEF Positions
<1>12. /\ \A n, m \in Positions(reaperWQ') : reaperWQ'[n] = reaperWQ'[m] => n = m
       /\ \A n \in Positions(reaperWQ') :
            segs[reaperWQ'[n]].phase = "completed" /\ reaperWQ'[n] # h
  <2>1. ASSUME NEW n \in Positions(reaperWQ'), NEW m \in Positions(reaperWQ'),
               reaperWQ'[n] = reaperWQ'[m]
        PROVE  n = m
    <3>1. /\ n + 1 \in Positions(reaperWQ) /\ m + 1 \in Positions(reaperWQ)
          /\ reaperWQ[n + 1] = reaperWQ[m + 1]
      BY <1>2, <2>1
    <3>2. n + 1 = m + 1
      BY <3>1 DEF ReapInv, ReaperShape
    <3> QED
      BY <1>11, <3>2
  <2>2. ASSUME NEW n \in Positions(reaperWQ')
        PROVE  segs[reaperWQ'[n]].phase = "completed" /\ reaperWQ'[n] # h
    <3>1. n + 1 \in Positions(reaperWQ) /\ reaperWQ'[n] = reaperWQ[n + 1]
      BY <1>2
    <3>2. n + 1 # 1
      BY DEF Positions
    <3>3. reaperWQ[n + 1] # reaperWQ[1]
      BY <1>2, <3>1, <3>2 DEF ReapInv, ReaperShape
    <3> QED
      BY <1>2, <3>1, <3>3 DEF ReapInv, ReaperShape
  <2> QED
    BY <2>1, <2>2
<1>13. \A j \in DOMAIN segs : InReaper(j)' <=> InReaper(j)
  <2> SUFFICES ASSUME NEW j \in DOMAIN segs PROVE InReaper(j)' <=> InReaper(j)
    OBVIOUS
  <2>1. j # 0
    BY NumbersPositive
  <2>2. Among(j, reaperWQ) <=> Among(j, reaperWQ') \/ j = h
    <3>1. ASSUME Among(j, reaperWQ) PROVE Among(j, reaperWQ') \/ j = h
      <4>1. PICK n \in Positions(reaperWQ) : reaperWQ[n] = j
        BY <3>1 DEF Among
      <4>2. CASE n = 1
        BY <1>2, <4>1, <4>2
      <4>3. CASE n # 1
        <5>1. n - 1 \in Positions(reaperWQ')
          BY <1>2, <4>3
        <5>2. reaperWQ'[n - 1] = reaperWQ[(n - 1) + 1]
          BY <1>2, <5>1
        <5>3. (n - 1) + 1 = n
          BY <1>11
        <5> QED
          BY <4>1, <5>1, <5>2, <5>3 DEF Among
      <4> QED
        BY <4>2, <4>3
    <3>2. ASSUME Among(j, reaperWQ') PROVE Among(j, reaperWQ)
      BY <1>2, <3>2 DEF Among
    <3>3. Among(h, reaperWQ)
      BY <1>2 DEF Among
    <3> QED
      BY <3>1, <3>2, <3>3
  <2> QED
    BY <1>3, <1>4, <2>1, <2>2 DEF InReaper, Among
<1>14. segs[h].phase = "completed"
  BY <1>2 DEF ReapInv, ReaperShape
<1>15. ReaperShape'
  <2>1. \A j \in DOMAIN segs' : InReaper(j)' => Good(j)'
    BY <1>4, <1>6, <1>13 DEF ReapInv, ReaperShape, GoodSame
  <2>2. \A j \in DOMAIN segs' : Good(j)' => (InReaper(j)' <=> Unreturned(j)' = {})
    BY <1>4, <1>6, <1>13 DEF ReapInv, ReaperShape, GoodSame
  <2> QED
    BY <1>3, <1>4, <1>10, <1>12, <1>14, <2>1, <2>2 DEF ReaperShape
<1>16. TombstonesLeft'
  <2>1. \A n \in Positions(segs[h].reqList) :
          segs[h].reqList[n] \in Deletes => Among(segs[h].reqList[n], segs[h].delReqList)
    BY <1>2, <1>9 DEF ReapInv, Accounted
  <2> QED
    BY <1>3, <1>4, <2>1 DEF TombstonesLeft, Among
<1>17. NoTombstoneLeft'
  BY <1>4 DEF ReapInv, NoTombstoneLeft
<1> QED
  BY <1>7, <1>8, <1>15, <1>16, <1>17 DEF ReapInv

(* The reaper's look at a tombstone keeps its invariant.                   *)
LEMMA ReapEntryReap ==
  ASSUME TypeOK, TypeOK', RequestInv, SegmentInv, ReapInv, ReapEntry
  PROVE  ReapInv'
<1>0. PICK r : r = Head(reaping.entries)
  OBVIOUS
<1>1. /\ UNCHANGED <<segs, client, status, writer, reaperWQ>>
      /\ reaping.entries # <<>>
      /\ reaping' = [reaping EXCEPT !.entries = Tail(reaping.entries)]
  BY DEF ReapEntry, pipeVars
<1>2. index' = [index EXCEPT ![KeyOf[r]] =
                  IF Removable(r, index[KeyOf[r]]) THEN NoReq ELSE index[KeyOf[r]]]
  BY <1>0 DEF ReapEntry
<1>3. reaping.seg # 0
  BY <1>1 DEF ReapInv, ReaperShape, NotReaping
<1>4. reaping'.seg = reaping.seg /\ Shifted(reaping'.entries, reaping.entries)
  BY <1>1 DEF TypeOK, Shifted
<1>5. reaping.entries \in Seq(Reqs) /\ r = reaping.entries[1] /\ reaping.seg \in DOMAIN segs
  BY <1>0, <1>1, <1>3 DEF TypeOK
<1>6. /\ r \in Reqs
      /\ \A n \in Positions(reaping.entries) :
           n # 1 => n - 1 \in Positions(reaping'.entries)
      /\ \A n \in Positions(reaping'.entries) :
           reaping'.entries[n] = reaping.entries[n + 1]
  BY <1>4, <1>5, QueueShifted
<1> HIDE <1>1
<1>7. UNCHANGED <<segs, client, status, writer, reaperWQ>>
  BY <1>1
<1>8. ToldStay /\ ClosedSame /\ SameAccounts /\ PhasesKept /\ SameReturned
  BY <1>7, SegmentsAlone DEF SameReturned
<1>9. ToldTheSame' /\ Accounted' /\ ReaperShape'
  BY <1>3, <1>4, <1>7, <1>8, ReapCalm DEF ReapInv
<1>10. \A d \in Reqs : index'[KeyOf[d]] = d =>
         index[KeyOf[d]] = d /\ (d \in Deletes => d # r)
  <2> SUFFICES ASSUME NEW d \in Reqs, index'[KeyOf[d]] = d
               PROVE  index[KeyOf[d]] = d /\ (d \in Deletes => d # r)
    OBVIOUS
  <2>1. d # NoReq /\ KeyOf[d] \in Keys /\ KeyOf[r] \in Keys
    BY <1>6, WritePipelineAssumption
  <2>2. index[KeyOf[d]] = d
    BY <1>2, <2>1 DEF TypeOK
  <2>3. ASSUME d \in Deletes, d = r PROVE FALSE
    <3>1. Removable(r, index[KeyOf[r]])
      BY <2>1, <2>2, <2>3 DEF Removable
    <3>2. index'[KeyOf[r]] = NoReq
      BY <1>2, <2>1, <3>1 DEF TypeOK
    <3> QED
      BY <2>1, <2>3, <3>2
  <2> QED
    BY <2>2, <2>3
<1>11. TombstonesLeft'
  <2> SUFFICES ASSUME NEW n \in Positions(segs[reaping.seg].reqList),
                      NEW d, d = segs[reaping.seg].reqList[n],
                      d \in Deletes, index'[KeyOf[d]] = d
               PROVE  Among(d, reaping'.entries)
    BY <1>4, <1>7 DEF TombstonesLeft, Among
  <2>1. d \in Reqs
    BY <1>5, SegmentType
  <2>2. index[KeyOf[d]] = d /\ d # r
    BY <1>10, <2>1
  <2>3. PICK m \in Positions(reaping.entries) : reaping.entries[m] = d
    BY <1>3, <2>2 DEF ReapInv, TombstonesLeft, Among
  <2>4. m # 1 /\ m \in Int
    BY <1>5, <2>2, <2>3 DEF Positions
  <2>5. m - 1 \in Positions(reaping'.entries)
    BY <1>6, <2>4
  <2>6. reaping'.entries[m - 1] = reaping.entries[(m - 1) + 1] /\ (m - 1) + 1 = m
    BY <1>6, <2>4, <2>5
  <2> QED
    BY <2>3, <2>5, <2>6 DEF Among
<1>12. NoTombstoneLeft'
  <2> SUFFICES ASSUME NEW i \in DOMAIN segs, segs[i].phase = "deleted",
                      NEW n \in Positions(segs[i].reqList),
                      NEW d, d = segs[i].reqList[n], d \in Deletes, index'[KeyOf[d]] = d
               PROVE  FALSE
    BY <1>7 DEF NoTombstoneLeft
  <2>1. d \in Reqs
    BY SegmentType
  <2> QED
    BY <1>10, <2>1 DEF ReapInv, NoTombstoneLeft
<1> QED
  BY <1>9, <1>11, <1>12 DEF ReapInv

(* The reaper's end of a segment keeps its invariant.                      *)
LEMMA ReapEndReap ==
  ASSUME TypeOK, TypeOK', RequestInv, SegmentInv, ReapInv, ReapEnd
  PROVE  ReapInv'
<1>0. PICK i : i = reaping.seg
  OBVIOUS
<1>1. /\ SameLists /\ SameAccounts
      /\ i \in DOMAIN segs /\ i # 0
      /\ \A j \in DOMAIN segs : segs'[j].phase = IF j = i THEN "deleted" ELSE segs[j].phase
  BY <1>0, ReapEndEffect DEF ReapEnd
<1>2. /\ UNCHANGED <<client, status, writer, index, reaperWQ>>
      /\ reaping.entries = <<>> /\ reaping' = NotReaping
  BY DEF ReapEnd
<1>3. ToldStay /\ ClosedSame /\ DOMAIN segs' = DOMAIN segs /\ SameReturned
  BY <1>1, <1>2, SameListsClosed DEF SameReturned
<1>4. GoodSame
  BY <1>2, <1>3, GoodStays DEF SegmentInv
<1>5. ToldTheSame'
  BY <1>2, <1>3, ToldOthers DEF ReapInv, ClosedSame
<1>6. Accounted'
  BY <1>1, <1>2, <1>3, <1>4, AccountsStay, TellingStays DEF ReapInv
<1>7. reaping'.seg = 0
  BY <1>2 DEF NotReaping
<1>8. \A j \in DOMAIN segs : InReaper(j)' <=> InReaper(j)
  <2> SUFFICES ASSUME NEW j \in DOMAIN segs PROVE InReaper(j)' <=> InReaper(j)
    OBVIOUS
  <2>1. j # 0
    BY NumbersPositive
  <2> QED
    BY <1>0, <1>1, <1>2, <1>7, <2>1 DEF InReaper, Among
<1>9. \A n \in Positions(reaperWQ) : reaperWQ[n] \in DOMAIN segs /\ reaperWQ[n] # 0
  <2>1. \A n \in Positions(reaperWQ) : reaperWQ[n] \in DOMAIN segs
    BY DEF TypeOK, Positions
  <2> QED
    BY <2>1, NumbersPositive
<1>10. ReaperShape'
  <2>1. \A j \in DOMAIN segs' : InReaper(j)' => Good(j)'
    BY <1>3, <1>4, <1>8 DEF ReapInv, ReaperShape, GoodSame
  <2>2. \A j \in DOMAIN segs' : Good(j)' => (InReaper(j)' <=> Unreturned(j)' = {})
    BY <1>3, <1>4, <1>8 DEF ReapInv, ReaperShape, GoodSame
  <2>3. \A n \in Positions(reaperWQ') :
          segs'[reaperWQ'[n]].phase = "completed" /\ reaperWQ'[n] # reaping'.seg
    BY <1>0, <1>1, <1>2, <1>7, <1>9 DEF ReapInv, ReaperShape
  <2>4. \A n, m \in Positions(reaperWQ') : reaperWQ'[n] = reaperWQ'[m] => n = m
    BY <1>2 DEF ReapInv, ReaperShape
  <2>5. reaping' = NotReaping' /\ reaping'.seg = 0
    BY <1>2, <1>7 DEF NotReaping
  <2> QED
    BY <2>1, <2>2, <2>3, <2>4, <2>5 DEF ReaperShape
<1>11. TombstonesLeft'
  BY <1>7 DEF TombstonesLeft
<1>12. NoTombstoneLeft'
  <2> SUFFICES ASSUME NEW j \in DOMAIN segs', segs'[j].phase = "deleted",
                      NEW n \in Positions(segs'[j].reqList),
                      NEW d, d = segs'[j].reqList[n], d \in Deletes, index'[KeyOf[d]] = d
               PROVE  FALSE
    BY DEF NoTombstoneLeft
  <2>1. /\ j \in DOMAIN segs /\ segs'[j].reqList = segs[j].reqList
        /\ index[KeyOf[d]] = d /\ d = segs[j].reqList[n] /\ n \in Positions(segs[j].reqList)
    BY <1>1, <1>2 DEF SameLists
  <2>2. CASE j = i
    <3>1. Among(d, <<>>)
      BY <1>0, <1>1, <1>2, <2>1, <2>2 DEF ReapInv, TombstonesLeft
    <3> QED
      BY <3>1 DEF Among, Positions
  <2>3. CASE j # i
    BY <1>1, <2>1, <2>3 DEF ReapInv, NoTombstoneLeft
  <2> QED
    BY <2>2, <2>3
<1> QED
  BY <1>5, <1>6, <1>10, <1>11, <1>12 DEF ReapInv

(* No step breaks what the clients and the reaper rely on: the commit      *)
(* counter of a segment, who sends it to the reaper, and the list of its   *)
(* tombstones.                                                             *)
THEOREM ReapStep ==
  ASSUME PipelineInv, TypeOK', [Next]_vars
  PROVE  ReapInv'
<1> USE DEF PipelineInv
<1>1. CASE UNCHANGED vars
  <2>1. UNCHANGED <<segs, client, status, writer, reaperWQ, reaping, index>>
    BY <1>1 DEF vars, indexVars, frame
  <2>2. ToldTheSame' /\ Accounted' /\ ReaperShape'
    BY <2>1, SegmentsAlone, ReapCalm DEF ReapInv, ReaperShape, SameReturned
  <2>3. TombstonesLeft' /\ NoTombstoneLeft'
    BY <2>1, SegmentsAlone, SameIndexNoneBack, TombstonesStay DEF ReapInv, ClosedSame
  <2> QED
    BY <2>2, <2>3 DEF ReapInv
<1>2. ASSUME NEW r \in Reqs, WriteData(r) PROVE ReapInv'
  BY <1>2, WriteDataReap
<1>3. ASSUME NEW r \in Reqs, ClientGoesOn(r) PROVE ReapInv'
  BY <1>3, ReturnFailureReap, UpdateReap, CommitReap DEF ClientGoesOn, VisibleInv
<1>4. ASSUME NEW h \in Shards, ReqMerge(h) \/ SegTimeout(h) PROVE ReapInv'
  BY <1>4, MergeReap
<1>5. ASSUME NEW w \in SegWriters, SegWrite(w) PROVE ReapInv'
  BY <1>5, QuietSteps, NotifyStartReap, AnswerReap
<1>6. CASE SegReaper
  BY <1>6, ReapStartReap, ReapEntryReap, ReapEndReap DEF SegReaper
<1> QED
  BY <1>1, <1>2, <1>3, <1>4, <1>5, <1>6 DEF Next

-----------------------------------------------------------------------------
(* What a read can find. *)

(* The segments that are being answered are those before the step.         *)
AnsweringStays ==
  \A w \in SegWriters : writer'[w].at \in Answering =>
    /\ writer[w].at \in Answering /\ writer'[w].seg = writer[w].seg
    /\ segs'[writer[w].seg].reqList = segs[writer[w].seg].reqList

(* Each request has got as far as before to whoever reads the index.       *)
ProgressHidden ==
  \A r \in Reqs :
    /\ Applied(r)' <=> Applied(r)
    /\ client'[r] = "new" => client[r] = "new"
    /\ client'[r] \in Late => stamp[r][1] > 0
    /\ client[r] = "returned" => client'[r] = "returned"
    /\ client'[r] = "commit" => status'[r] = "SUCCESS"

(* A step that touches neither the index nor a stamp keeps the order of    *)
(* what reads can find.                                                    *)
LEMMA VisibleStays ==
  ASSUME TypeOK, VisibleInv, AnsweringStays, ProgressHidden,
         UNCHANGED <<stamp, clock, before, refused, index>>
  PROVE  VisibleInv'
<1> USE DEF VisibleInv
<1>1. Stamped'
  <2>1. \A r \in Reqs : /\ stamp'[r][1] <= clock'
                        /\ client'[r] = "new" => stamp'[r][1] = 0
                        /\ client'[r] \in {"answered", "commit", "returned"} => stamp'[r][1] > 0
    BY DEF Stamped, ProgressHidden, Late
  <2>2. ASSUME NEW w \in SegWriters, writer'[w].at \in Answering,
               NEW n \in Positions(segs'[writer'[w].seg].reqList)
        PROVE  stamp'[segs'[writer'[w].seg].reqList[n]][1] > 0
    BY <2>2 DEF Stamped, AnsweringStays
  <2> QED
    BY <2>1, <2>2 DEF Stamped
<1>2. BeforeOlder'
  BY DEF BeforeOlder, ProgressHidden, TypeOK
<1>3. Decided'
  BY DEF Decided, ProgressHidden
<1>4. \A r : Latest(r)' <=> Latest(r)
  BY DEF Latest, ProgressHidden
<1>5. refused \subseteq Reqs /\ Deletes \subseteq Reqs /\ index \in [Keys -> Reqs \cup {NoReq}]
  BY WritePipelineAssumption DEF TypeOK
<1>6. IndexLatest'
  BY <1>4, <1>5 DEF IndexLatest, MayStand, ProgressHidden
<1> QED
  BY <1>1, <1>2, <1>3, <1>6

(* Who has not returned was before nobody.                                 *)
LEMMA NotYetBefore ==
  ASSUME BeforeOlder, NEW r, client[r] # "returned"
  PROVE  \A d \in Reqs : r \notin before[d]
BY DEF BeforeOlder

(* A new request keeps that order.                                         *)
LEMMA WriteDataVisible ==
  ASSUME TypeOK, VisibleInv, NEW r \in Reqs, WriteData(r)
  PROVE  VisibleInv'
<1> USE DEF VisibleInv
<1>1. /\ UNCHANGED <<status, stamp, segs, writer, clock, index, refused>>
      /\ client[r] = "new" /\ client' = [client EXCEPT ![r] = "waiting"]
      /\ before' = [before EXCEPT ![r] = Returned]
  BY DEF WriteData, indexVars
<1>2. /\ client'[r] = "waiting" /\ \A d \in Reqs : d # r => client'[d] = client[d]
      /\ before'[r] = Returned /\ \A d \in Reqs : d # r => before'[d] = before[d]
  BY <1>1 DEF TypeOK
<1>3. Stamped'
  BY <1>1, <1>2 DEF Stamped
<1>4. BeforeOlder'
  <2> SUFFICES ASSUME NEW d \in Reqs, NEW e \in before'[d]
               PROVE  /\ client'[e] = "returned"
                      /\ stamp[d][1] > 0 => stamp[e][1] < stamp[d][1]
    BY <1>1 DEF BeforeOlder
  <2>1. CASE d = r
    <3>1. e \in Reqs /\ client[e] = "returned"
      BY <1>2, <2>1 DEF Returned
    <3>2. stamp[d][1] = 0
      BY <1>1, <2>1 DEF Stamped
    <3> QED
      BY <1>1, <1>2, <3>1, <3>2
  <2>2. CASE d # r
    <3>1. e \in Reqs /\ client[e] = "returned" /\ e \in before[d]
      BY <1>2, <2>2 DEF BeforeOlder, TypeOK
    <3> QED
      BY <1>1, <1>2, <3>1 DEF BeforeOlder
  <2> QED
    BY <2>1, <2>2
<1>5. Decided'
  BY <1>1, <1>2 DEF Decided
<1>6. \A d \in Reqs : Applied(d)' <=> Applied(d)
  BY <1>1, <1>2 DEF Applied
<1>7. \A d : Latest(d) => Latest(d)'
  BY <1>1, <1>2, <1>6 DEF Latest, Applied
<1>8. refused \subseteq Reqs /\ Deletes \subseteq Reqs /\ index \in [Keys -> Reqs \cup {NoReq}]
  BY WritePipelineAssumption DEF TypeOK
<1>9. IndexLatest'
  BY <1>1, <1>6, <1>7, <1>8 DEF IndexLatest, MayStand
<1> QED
  BY <1>3, <1>4, <1>5, <1>9

(* A Notify stamps only requests whose clients wait, with a time of its    *)
(* own.                                                                    *)
LEMMA NotifyStartVisible ==
  ASSUME TypeOK, RequestInv, SegmentInv, VisibleInv, NEW w \in SegWriters, NotifyStart(w)
  PROVE  VisibleInv'
<1> USE DEF VisibleInv
<1>0. PICK i : i = writer[w].seg
  OBVIOUS
<1>1. /\ UNCHANGED <<client, status, index, before, refused>>
      /\ clock' = clock + 1 /\ clock \in Nat
  BY DEF NotifyStart, indexVars, frame, TypeOK
<1>2. /\ SameLists /\ i \in DOMAIN segs
      /\ writer'[w].seg = i
      /\ \A v \in SegWriters : v # w => writer'[v] = writer[v]
  BY <1>0, NotifyStartEffect, NotifyStartWriter DEF RequestInv, SegmentInv
<1>3. \A r \in Reqs : IF r \in Unanswered(i) THEN stamp'[r][1] = clock + 1
                                             ELSE stamp'[r] = stamp[r]
  BY <1>0 DEF NotifyStart
<1>4. \A r \in Unanswered(i) : r \in Reqs /\ client[r] = "waiting"
  BY <1>2, SegmentType DEF Unanswered, RequestInv, AnsweredInOrder
<1>5. \A r \in Reqs : stamp[r][1] \in Nat
  BY DEF TypeOK
<1>6. \A n \in Positions(segs[i].reqList) :
        \/ segs[i].reqList[n] \in Unanswered(i)
        \/ segs[i].reqList[n] \in Reqs /\ client[segs[i].reqList[n]] \in Late
  BY <1>2, SegmentType DEF Unanswered, RequestInv, AnsweredInOrder, Late
<1>7. Stamped'
  <2>1. \A r \in Reqs : stamp'[r][1] <= clock' /\ (stamp[r][1] > 0 => stamp'[r][1] > 0)
    BY <1>1, <1>3, <1>5 DEF Stamped
  <2>2. \A r \in Reqs : client[r] # "waiting" => stamp'[r] = stamp[r]
    BY <1>3, <1>4
  <2>3. ASSUME NEW v \in SegWriters, writer'[v].at \in Answering,
               NEW n \in Positions(segs'[writer'[v].seg].reqList)
        PROVE  stamp'[segs'[writer'[v].seg].reqList[n]][1] > 0
    <3>1. CASE v = w
      <4>1. segs'[i].reqList = segs[i].reqList /\ n \in Positions(segs[i].reqList)
        BY <1>2, <2>3, <3>1 DEF SameLists
      <4>2. CASE segs[i].reqList[n] \in Unanswered(i)
        BY <1>1, <1>2, <1>3, <1>4, <3>1, <4>1, <4>2
      <4>3. CASE segs[i].reqList[n] \in Reqs /\ client[segs[i].reqList[n]] \in Late
        <5>1. stamp[segs[i].reqList[n]][1] > 0
          BY <4>3 DEF Stamped, Late
        <5> QED
          BY <1>2, <2>1, <3>1, <4>1, <4>3, <5>1
      <4> QED
        BY <1>6, <4>1, <4>2, <4>3
    <3>2. CASE v # w
      <4>1. writer'[v] = writer[v] /\ writer[v].seg \in DOMAIN segs
        BY <1>2, <2>3, <3>2 DEF SegmentInv, WriterShape, Busy, TypeOK, Writers, Answering
      <4>2. /\ segs'[writer[v].seg].reqList = segs[writer[v].seg].reqList
            /\ n \in Positions(segs[writer[v].seg].reqList)
        BY <1>2, <2>3, <4>1 DEF SameLists
      <4>3. stamp[segs[writer[v].seg].reqList[n]][1] > 0
        BY <2>3, <4>1, <4>2 DEF Stamped
      <4>4. segs[writer[v].seg].reqList[n] \in Reqs
        BY <4>1, <4>2, SegmentType
      <4> QED
        BY <2>1, <4>1, <4>2, <4>3, <4>4
    <3> QED
      BY <3>1, <3>2
  <2> QED
    BY <1>1, <2>1, <2>2, <2>3 DEF Stamped
<1>8. BeforeOlder'
  <2> SUFFICES ASSUME NEW d \in Reqs, NEW e \in before[d], stamp'[d][1] > 0
               PROVE  stamp'[e][1] < stamp'[d][1]
    BY <1>1 DEF BeforeOlder
  <2>1. e \in Reqs /\ client[e] = "returned"
    BY DEF BeforeOlder, TypeOK
  <2>2. stamp'[e] = stamp[e] /\ stamp[e][1] <= clock /\ stamp[e][1] \in Nat
    BY <1>3, <1>4, <1>5, <2>1 DEF Stamped
  <2>3. CASE d \in Unanswered(i)
    BY <1>1, <1>3, <2>2, <2>3
  <2>4. CASE d \notin Unanswered(i)
    BY <1>3, <2>2, <2>4 DEF BeforeOlder
  <2> QED
    BY <2>3, <2>4
<1>9. Decided'
  BY <1>1 DEF Decided
<1>10. IndexLatest'
  BY <1>1 DEF IndexLatest, MayStand, Applied, Latest
<1> QED
  BY <1>7, <1>8, <1>9, <1>10

(* What the clients do to the stamps and the order of the requests when    *)
(* they go to the index: nothing.                                          *)
LEMMA UpdateOrder ==
  ASSUME TypeOK, VisibleInv, NEW a \in Reqs, UpdateIndex(a) \/ UpdateIndexRefused(a)
  PROVE  /\ Stamped' /\ BeforeOlder' /\ Decided'
         /\ \A r \in Reqs : Applied(r)' <=> Applied(r) \/ r = a
         /\ \A r : KeyOf[r] # KeyOf[a] /\ Latest(r) => Latest(r)'
         /\ Latest(a)' /\ Applied(a)'
<1> USE DEF VisibleInv
<1>1. /\ UNCHANGED <<status, stamp, segs, writer, clock, before>>
      /\ client[a] = "answered" /\ status[a] = "SUCCESS"
      /\ client' = [client EXCEPT ![a] = "commit"]
  BY DEF UpdateIndex, UpdateIndexRefused, frame, pipeVars
<1>2. client'[a] = "commit" /\ \A r \in Reqs : r # a => client'[r] = client[r]
  BY <1>1 DEF TypeOK
<1>3. Stamped'
  BY <1>1, <1>2 DEF Stamped
<1>4. \A d \in Reqs : a \notin before[d]
  BY <1>1, NotYetBefore
<1>5. BeforeOlder'
  BY <1>1, <1>2, <1>4 DEF BeforeOlder, TypeOK
<1>6. Decided'
  BY <1>1, <1>2 DEF Decided
<1>7. \A r \in Reqs : Applied(r)' <=> Applied(r) \/ r = a
  BY <1>1, <1>2 DEF Applied
<1>8. \A r : KeyOf[r] # KeyOf[a] /\ Latest(r) => Latest(r)'
  BY <1>1, <1>7 DEF Latest, Applied
<1>9. Latest(a)'
  BY <1>1, <1>4 DEF Latest, Applied
<1> QED
  BY <1>3, <1>5, <1>6, <1>7, <1>8, <1>9

(* An entry stays in the index, or is replaced by one that is not older.   *)
LEMMA UpdateIndexVisible ==
  ASSUME TypeOK, VisibleInv, NEW a \in Reqs, UpdateIndex(a)
  PROVE  VisibleInv'
<1> USE DEF VisibleInv
<1> DEFINE k == KeyOf[a]
           m == index[k]
<1>1. /\ UNCHANGED <<stamp, before, refused>> /\ client[a] = "answered"
      /\ index' = [index EXCEPT ![k] = Updated(a, m)]
  BY DEF UpdateIndex, frame
<1>2. /\ Stamped' /\ BeforeOlder' /\ Decided'
      /\ \A r \in Reqs : Applied(r)' <=> Applied(r) \/ r = a
      /\ \A r : KeyOf[r] # k /\ Latest(r) => Latest(r)'
      /\ Latest(a)' /\ Applied(a)'
  BY UpdateOrder
<1>3. refused \subseteq Reqs /\ Deletes \subseteq Reqs /\ index \in [Keys -> Reqs \cup {NoReq}]
      /\ k \in Keys /\ NoReq \notin Reqs
  BY WritePipelineAssumption DEF TypeOK
<1>4. index'[k] = Updated(a, m) /\ \A g \in Keys : g # k => index'[g] = index[g]
  BY <1>1, <1>3
<1> HIDE DEF k, m
<1>5. ASSUME NEW g \in Keys, NEW x, x = index'[g]
      PROVE  MayStand(x, g)'
  <2>1. CASE g # k
    <3>1. MayStand(x, g) /\ (x # NoReq => x \in Reqs)
      BY <1>3, <1>4, <1>5, <2>1 DEF IndexLatest
    <3> QED
      BY <1>1, <1>2, <1>3, <2>1, <3>1 DEF MayStand, k
  <2>2. CASE g = k /\ m = NoReq
    <3>1. x = IF a \in Deletes THEN NoReq ELSE a
      BY <1>4, <1>5, <2>2 DEF Updated
    <3> QED
      BY <1>2, <1>3, <2>2, <3>1 DEF MayStand, k
  <2>3. CASE g = k /\ m # NoReq /\ ~Older(a, m)
    <3>1. x = a
      BY <1>4, <1>5, <2>3 DEF Updated
    <3> QED
      BY <1>2, <1>3, <2>3, <3>1 DEF MayStand, k
  <2>4. CASE g = k /\ m # NoReq /\ Older(a, m)
    <3>1. x = m /\ x # NoReq /\ x \in Reqs
      BY <1>3, <1>4, <1>5, <2>4 DEF Updated, m
    <3>2. Applied(x) /\ KeyOf[x] = k /\ Latest(x)
      BY <1>3, <3>1 DEF IndexLatest, MayStand, m
    <3>3. x \notin before[a]
      <4>1. stamp[a][1] > 0 /\ stamp[a][1] \in Nat /\ stamp[x][1] \in Nat
        BY <1>1, <3>1 DEF Stamped, TypeOK
      <4>2. stamp[a][1] <= stamp[x][1]
        BY <2>4, <3>1, <4>1 DEF Older
      <4> QED
        BY <4>1, <4>2 DEF BeforeOlder
    <3>4. Latest(x)'
      BY <1>1, <1>2, <3>2, <3>3 DEF Latest
    <3> QED
      BY <1>2, <2>4, <3>1, <3>2, <3>4 DEF MayStand
  <2> QED
    BY <2>1, <2>2, <2>3, <2>4
<1>6. IndexLatest'
  BY <1>5 DEF IndexLatest
<1> QED
  BY <1>2, <1>6

(* A refused update keeps that order.                                      *)
LEMMA UpdateIndexRefusedVisible ==
  ASSUME TypeOK, VisibleInv, NEW a \in Reqs, UpdateIndexRefused(a)
  PROVE  VisibleInv'
<1> USE DEF VisibleInv
<1>1. /\ UNCHANGED index /\ refused' = refused \cup {a}
      /\ index[KeyOf[a]] = NoReq
  BY DEF UpdateIndexRefused, indexVars, NeedsPlace
<1>2. /\ Stamped' /\ BeforeOlder' /\ Decided'
      /\ \A r \in Reqs : Applied(r)' <=> Applied(r) \/ r = a
      /\ \A r : KeyOf[r] # KeyOf[a] /\ Latest(r) => Latest(r)'
      /\ Latest(a)' /\ Applied(a)'
  BY UpdateOrder
<1>3. refused \subseteq Reqs /\ Deletes \subseteq Reqs /\ index \in [Keys -> Reqs \cup {NoReq}]
  BY WritePipelineAssumption DEF TypeOK
<1>4. ASSUME NEW g \in Keys, NEW x, x = index'[g]
      PROVE  MayStand(x, g)'
  <2>1. MayStand(x, g) /\ (x # NoReq => x \in Reqs)
    BY <1>1, <1>3, <1>4 DEF IndexLatest
  <2>2. CASE g # KeyOf[a]
    BY <1>1, <1>2, <1>3, <2>1, <2>2 DEF MayStand
  <2>3. CASE g = KeyOf[a]
    BY <1>1, <1>2, <1>4, <2>3 DEF MayStand
  <2> QED
    BY <2>2, <2>3
<1>5. IndexLatest'
  BY <1>4 DEF IndexLatest
<1> QED
  BY <1>2, <1>5

(* The reaper removes only a delete: nobody sees the difference.           *)
LEMMA ReapEntryVisible ==
  ASSUME TypeOK, VisibleInv, ReapEntry
  PROVE  VisibleInv'
<1> USE DEF VisibleInv
<1> DEFINE r == Head(reaping.entries)
           k == KeyOf[r]
<1>1. /\ UNCHANGED <<client, status, stamp, segs, writer, clock, before, refused>>
      /\ index' = [index EXCEPT ![k] = IF Removable(r, index[k]) THEN NoReq ELSE index[k]]
  BY DEF ReapEntry, pipeVars, frame
<1>2. Stamped' /\ BeforeOlder' /\ Decided'
  BY <1>1 DEF Stamped, BeforeOlder, Decided
<1>3. \A d : (Applied(d)' <=> Applied(d)) /\ (Latest(d)' <=> Latest(d))
  BY <1>1 DEF Applied, Latest
<1>4. index \in [Keys -> Reqs \cup {NoReq}] /\ Deletes \subseteq Reqs
  BY WritePipelineAssumption DEF TypeOK
<1>5. \A g \in Keys : index'[g] = index[g] \/ (index'[g] = NoReq /\ index[g] \in Deletes)
  BY <1>1, <1>4 DEF Removable
<1> HIDE DEF r, k
<1>6. ASSUME NEW g \in Keys, NEW x, x = index'[g]
      PROVE  MayStand(x, g)'
  <2>1. MayStand(index[g], g)
    BY DEF IndexLatest
  <2>2. CASE x = index[g]
    BY <1>1, <1>3, <2>1, <2>2 DEF MayStand
  <2>3. CASE x = NoReq /\ index[g] \in Deletes
    <3>1. index[g] # NoReq
      BY <1>4, <2>3, WritePipelineAssumption
    <3>2. Applied(index[g]) /\ KeyOf[index[g]] = g /\ Latest(index[g])
      BY <2>1, <3>1 DEF MayStand
    <3> QED
      BY <1>1, <1>3, <2>3, <3>2 DEF MayStand
  <2> QED
    BY <1>5, <1>6, <2>2, <2>3
<1>7. IndexLatest'
  BY <1>6 DEF IndexLatest
<1> QED
  BY <1>2, <1>7

(* The segments being answered are the same while no writer begins to      *)
(* answer.                                                                 *)
LEMMA AnsweringKept ==
  ASSUME TypeOK, SegmentInv, \A i \in DOMAIN segs : segs[i].phase # "open" =>
                                     segs'[i].reqList = segs[i].reqList,
         \A w \in SegWriters : writer'[w].at \in Answering => writer'[w] = writer[w]
  PROVE  AnsweringStays
<1> SUFFICES ASSUME NEW w \in SegWriters, writer'[w].at \in Answering
             PROVE  /\ writer[w].at \in Answering /\ writer'[w].seg = writer[w].seg
                    /\ segs'[writer[w].seg].reqList = segs[writer[w].seg].reqList
  BY DEF AnsweringStays
<1>1. writer'[w] = writer[w]
  OBVIOUS
<1>2. writer[w].seg \in DOMAIN segs /\ segs[writer[w].seg].phase # "open"
  BY <1>1 DEF SegmentInv, WriterShape, Busy, TypeOK, Writers, Answering
<1> QED
  BY <1>1, <1>2

(* Where no request and no answer changes, none gets further.              *)
LEMMA SameProgress ==
  ASSUME VisibleInv, UNCHANGED <<client, status>>
  PROVE  ProgressHidden
BY DEF VisibleInv, Stamped, Decided, ProgressHidden, Applied, Late

(* Merging and timeouts keep the order of what reads can find.             *)
LEMMA MergeVisible ==
  ASSUME TypeOK, SegmentInv, VisibleInv, NEW h \in Shards, ReqMerge(h) \/ SegTimeout(h)
  PROVE  VisibleInv'
<1>1. /\ ClosedSame
      /\ UNCHANGED <<client, status, stamp, writer, clock, index, before, refused>>
  BY MergedEffect DEF SegmentInv, indexVars, frame
<1> QED
  BY <1>1, AnsweringKept, SameProgress, VisibleStays DEF ClosedSame

(* A writer's step that tells nobody keeps it.                             *)
LEMMA QuietVisible ==
  ASSUME TypeOK, SegmentInv, VisibleInv, NEW w \in SegWriters,
         SegWrite(w), ~NotifyStart(w), ~Answer(w)
  PROVE  VisibleInv'
<1>1. UNCHANGED <<segs, client, status, stamp, clock, index, before, refused>>
  BY DEF SegWrite, SegWriteStart, Allocated, NotAllocated, Written, NotifyEnd, pipeVars,
         indexVars, frame
<1>2. /\ writer'[w].at \notin Answering
      /\ \A v \in SegWriters : v # w => writer'[v] = writer[v]
  <2> USE DEF Answering
  <2>1. CASE SegWriteStart(w)
    <3> DEFINE j == Head(segWteWQ)
    <3>1. writer' = [writer EXCEPT ![w] = [at |-> "alloc", seg |-> j, ok |-> TRUE]]
      BY <2>1 DEF SegWriteStart
    <3> HIDE DEF j
    <3>2. /\ writer'[w] = [at |-> "alloc", seg |-> j, ok |-> TRUE]
          /\ \A v \in SegWriters : v # w => writer'[v] = writer[v]
      BY <3>1, WriterSet
    <3>3. writer'[w].at = "alloc"
      BY <3>2
    <3> QED
      BY <3>2, <3>3
  <2>2. CASE Allocated(w)
    BY <2>2, AllocatedWriter
  <2>3. CASE NotAllocated(w)
    BY <2>3, NotAllocatedWriter
  <2>4. CASE \E ok \in BOOLEAN : Written(w, ok)
    BY <2>4, WrittenWriter
  <2>5. CASE NotifyEnd(w)
    <3>1. /\ writer'[w] =
              IF writer[w].at = "answer" /\ keepsTrying
              THEN [at |-> "alloc", seg |-> writer[w].seg, ok |-> writer[w].ok] ELSE IdleWriter
          /\ \A v \in SegWriters : v # w => writer'[v] = writer[v]
      BY <2>5, NotifyEndWriter
    <3>2. writer'[w].at \in {"alloc", "idle"}
      <4>1. CASE writer[w].at = "answer" /\ keepsTrying
        <5>1. writer'[w] = [at |-> "alloc", seg |-> writer[w].seg, ok |-> writer[w].ok]
          BY <3>1, <4>1
        <5> QED
          BY <5>1
      <4>2. CASE ~(writer[w].at = "answer" /\ keepsTrying)
        <5>1. writer'[w] = IdleWriter
          BY <3>1, <4>2
        <5> QED
          BY <5>1 DEF IdleWriter
      <4> QED
        BY <4>1, <4>2
    <3> QED
      BY <3>1, <3>2
  <2> QED
    BY <2>1, <2>2, <2>3, <2>4, <2>5 DEF SegWrite
<1>3. AnsweringStays
  BY <1>1, <1>2, AnsweringKept
<1> QED
  BY <1>1, <1>3, SameProgress, VisibleStays

(* An answer keeps it.                                                     *)
LEMMA AnswerVisible ==
  ASSUME TypeOK, RequestInv, SegmentInv, VisibleInv, NEW w \in SegWriters, Answer(w)
  PROVE  VisibleInv'
<1>0. PICK i, r, s : /\ i = writer[w].seg /\ r = segs[i].reqList[segs[i].answered + 1]
                     /\ s = IF writer[w].ok THEN "SUCCESS" ELSE "FAIL"
  OBVIOUS
<1>1. /\ UNCHANGED <<writer, stamp, clock, index, before, refused>>
      /\ client' = [client EXCEPT ![r] = "answered"] /\ status' = [status EXCEPT ![r] = s]
      /\ writer[w].at \in Answering
  BY <1>0 DEF Answer, indexVars, frame, Answering
<1>2. /\ i \in DOMAIN segs /\ segs[i].answered + 1 \in Positions(segs[i].reqList)
      /\ \A j \in DOMAIN segs : segs'[j].reqList = segs[j].reqList
  BY <1>0, AnswerEffect DEF RequestInv, SegmentInv
<1>3. AnsweringStays
  BY <1>1, <1>2, AnsweringKept
<1>4. r \in Reqs /\ client[r] = "waiting"
  <2>1. r \in Reqs /\ segs[i].answered + 1 > segs[i].answered
    BY <1>0, <1>2, SegmentType
  <2> QED
    BY <1>0, <1>2, <2>1 DEF RequestInv, AnsweredInOrder
<1>5. stamp[r][1] > 0
  BY <1>0, <1>1, <1>2 DEF VisibleInv, Stamped
<1>6. /\ client'[r] = "answered"
      /\ \A d \in Reqs : d # r => client'[d] = client[d] /\ status'[d] = status[d]
  BY <1>1, <1>4 DEF TypeOK
<1>7. ProgressHidden
  BY <1>4, <1>5, <1>6 DEF ProgressHidden, Applied, VisibleInv, Stamped, Decided, Late
<1> QED
  BY <1>1, <1>3, <1>7, VisibleStays

(* A return to the client keeps it.                                        *)
LEMMA ReturnVisible ==
  ASSUME TypeOK, RequestInv, SegmentInv, ReapInv, VisibleInv, NEW r \in Reqs,
         ReturnFailure(r) \/ Commit(r)
  PROVE  VisibleInv'
<1>1. /\ UNCHANGED <<status, writer, stamp, clock, index, before, refused>>
      /\ client' = [client EXCEPT ![r] = "returned"]
      /\ (client[r] = "answered" /\ status[r] = "FAIL") \/ client[r] = "commit"
  BY DEF ReturnFailure, Commit, pipeVars, indexVars, frame
<1>2. /\ client'[r] = "returned" /\ \A d \in Reqs : d # r => client'[d] = client[d]
  BY <1>1 DEF TypeOK
<1>3. ProgressHidden
  BY <1>1, <1>2 DEF ProgressHidden, Applied, VisibleInv, Stamped, Decided, Late
<1>4. \A i \in DOMAIN segs : segs'[i].reqList = segs[i].reqList
  <2>1. CASE ReturnFailure(r)
    BY <2>1 DEF ReturnFailure, pipeVars
  <2>2. CASE Commit(r)
    BY <2>2, CommitEffect DEF VisibleInv, ReapInv, SameLists
  <2> QED
    BY <2>1, <2>2
<1>5. AnsweringStays
  BY <1>1, <1>4, AnsweringKept
<1> QED
  BY <1>1, <1>3, <1>5, VisibleStays

(* The start and the end of a reaping keep it.                             *)
LEMMA ReapVisible ==
  ASSUME TypeOK, SegmentInv, VisibleInv, ReapStart \/ ReapEnd
  PROVE  VisibleInv'
<1>1. UNCHANGED <<client, status, writer, stamp, clock, index, before, refused>>
  BY DEF ReapStart, ReapEnd, frame
<1>2. \A i \in DOMAIN segs : segs'[i].reqList = segs[i].reqList
  BY ReapEndEffect DEF ReapStart, pipeVars, SameLists
<1> QED
  BY <1>1, <1>2, AnsweringKept, SameProgress, VisibleStays

(* No step lets the index show a write that was overtaken.                 *)
THEOREM VisibleStep ==
  ASSUME PipelineInv, [Next]_vars
  PROVE  VisibleInv'
<1> USE DEF PipelineInv
<1>1. CASE UNCHANGED vars
  <2>1. UNCHANGED <<segs, client, status, writer, stamp, clock, index, before, refused>>
    BY <1>1 DEF vars, indexVars, frame
  <2> QED
    BY <2>1, AnsweringKept, SameProgress, VisibleStays
<1>2. ASSUME NEW r \in Reqs, WriteData(r) PROVE VisibleInv'
  BY <1>2, WriteDataVisible
<1>3. ASSUME NEW r \in Reqs, ClientGoesOn(r) PROVE VisibleInv'
  BY <1>3, ReturnVisible, UpdateIndexVisible, UpdateIndexRefusedVisible DEF ClientGoesOn
<1>4. ASSUME NEW h \in Shards, ReqMerge(h) \/ SegTimeout(h) PROVE VisibleInv'
  BY <1>4, MergeVisible
<1>5. ASSUME NEW w \in SegWriters, SegWrite(w) PROVE VisibleInv'
  BY <1>5, QuietVisible, NotifyStartVisible, AnswerVisible
<1>6. CASE SegReaper
  BY <1>6, ReapVisible, ReapEntryVisible DEF SegReaper
<1> QED
  BY <1>1, <1>2, <1>3, <1>4, <1>5, <1>6 DEF Next

-----------------------------------------------------------------------------
(* The theorems. *)

(* An empty segment.                                                       *)
LEMMA NewSegType ==
  /\ NewSeg \in SegForReq
  /\ NewSeg.reqList = <<>> /\ NewSeg.answered = 0 /\ NewSeg.phase = "open"
<1>1. SegCap \in Nat
  BY WritePipelineAssumption
<1>2. <<>> \in Seq(Reqs) /\ 0 \in 0 .. SegCap
  BY <1>1
<1> QED
  BY <1>2 DEF NewSeg, SegForReq

(* The opened store is well typed.                                         *)
LEMMA InitType ==
  ASSUME Init
  PROVE  TypeOK
<1>1. SegCap \in Nat /\ MaxNotifies \in Nat /\ Cardinality(Shards) \in Nat
  BY WritePipelineAssumption, FS_CardinalityType
<1>2. client \in [Reqs -> {"new", "waiting", "answered", "commit", "returned"}]
  BY DEF Init
<1>3. status \in [Reqs -> {"INIT", "SUCCESS", "FAIL"}]
  BY DEF Init
<1>4. stamp \in [Reqs -> (0 .. MaxNotifies) \X (0 .. SegCap)]
  <2>1. <<0, 0>> \in (0 .. MaxNotifies) \X (0 .. SegCap)
    BY <1>1
  <2> QED
    BY <2>1 DEF Init
<1>5. reqWQ \in [Shards -> Seq(Reqs)]
  <2>1. <<>> \in Seq(Reqs)
    OBVIOUS
  <2> QED
    BY <2>1 DEF Init
<1>6. segs \in Seq(SegForReq)
  <2>1. segs \in [1 .. Cardinality(Shards) -> SegForReq]
    BY NewSegType DEF Init
  <2> QED
    BY <1>1, <2>1
<1>7. segMap \in [Shards -> DOMAIN segs]
  BY DEF Init
<1>8. segWteWQ \in Seq(DOMAIN segs) /\ reaperWQ \in Seq(DOMAIN segs)
  BY DEF Init
<1>9. writer \in [SegWriters -> Writers]
  <2>1. IdleWriter \in Writers
    BY DEF IdleWriter, Writers
  <2> QED
    BY <2>1 DEF Init
<1>10. clock \in 0 .. MaxNotifies
  BY <1>1 DEF Init
<1>11. index \in [Keys -> Reqs \cup {NoReq}]
  BY DEF Init
<1>12. reaping \in [seg : {0} \cup DOMAIN segs, entries : Seq(Reqs)]
  <2>1. <<>> \in Seq(Reqs)
    OBVIOUS
  <2> QED
    BY <2>1 DEF Init, NotReaping
<1>13. before \in [Reqs -> SUBSET Reqs] /\ refused \subseteq Reqs \ Deletes
  BY DEF Init
<1> QED
  BY <1>2, <1>3, <1>4, <1>5, <1>6, <1>7, <1>8, <1>9, <1>10, <1>11, <1>12, <1>13 DEF TypeOK

(* As many segments as shards, each of them open in one shard.             *)
LEMMA InitOpen ==
  ASSUME Init
  PROVE  OpenShape
<1>1. /\ Cardinality(Shards) \in Nat /\ IsFiniteSet(Shards)
      /\ DOMAIN segs = 1 .. Cardinality(Shards)
      /\ \A i \in DOMAIN segs : segs[i] = NewSeg
  BY WritePipelineAssumption, FS_CardinalityType DEF Init
<1>2. segMap \in [Shards -> DOMAIN segs] /\ \A h, g \in Shards : segMap[h] = segMap[g] => h = g
  BY DEF Init
<1>3. segMap \in Injection(Shards, DOMAIN segs)
  BY <1>2 DEF Injection, IsInjective
<1>4. IsFiniteSet(DOMAIN segs) /\ Cardinality(DOMAIN segs) = Cardinality(Shards)
  BY <1>1, FS_Interval
<1>5. segMap \in Surjection(Shards, DOMAIN segs)
  BY <1>3, <1>4, FS_Injection
<1>6. \A i \in DOMAIN segs : \E h \in Shards : segMap[h] = i
  BY <1>5 DEF Surjection
<1> QED
  BY <1>1, <1>2, <1>6, NewSegType DEF OpenShape

(* The opened store satisfies the invariant.                               *)
LEMMA InitInv ==
  ASSUME Init
  PROVE  PipelineInv
<1>1. TypeOK
  BY InitType
<1>2. /\ \A i \in DOMAIN segs : segs[i] = NewSeg /\ segs[i].reqList = <<>>
                                /\ segs[i].answered = 0 /\ segs[i].phase = "open"
      /\ \A h \in Shards : reqWQ[h] = <<>>
      /\ segWteWQ = <<>> /\ reaperWQ = <<>> /\ reaping = NotReaping
      /\ \A w \in SegWriters : writer[w] = IdleWriter
      /\ \A r \in Reqs : client[r] = "new" /\ stamp[r] = <<0, 0>> /\ before[r] = {}
      /\ \A k \in Keys : index[k] = NoReq
      /\ clock = 0
  BY NewSegType DEF Init
<1>3. Positions(<<>>) = {} /\ Len(<<>>) = 0
  BY DEF Positions
<1>4. SegCap \in Nat
  BY WritePipelineAssumption
<1>5. RequestInv
  BY <1>2, <1>3, <1>4
  DEF RequestInv, Counted, All, QueuedWait, QueuedOnce, AnsweredInOrder, HeldOnce, NoneLost
<1>6. IdleWriter.at = "idle" /\ IdleWriter.seg = 0 /\ NotReaping.seg = 0
  BY DEF IdleWriter, NotReaping
<1>7. SegmentInv
  <2>1. OpenShape
    BY InitOpen
  <2> QED
    BY <1>2, <1>3, <1>6, <2>1 DEF SegmentInv, QueueShape, WriterShape, Finished
<1>8. \A i \in DOMAIN segs : ~Good(i) /\ ~Telling(i) /\ ~InReaper(i)
  <2> SUFFICES ASSUME NEW i \in DOMAIN segs PROVE ~Good(i) /\ ~Telling(i) /\ ~InReaper(i)
    OBVIOUS
  <2>1. ~Good(i)
    BY <1>2 DEF Good
  <2>2. ~Telling(i)
    BY <1>2, <1>6 DEF Telling
  <2>3. ~InReaper(i)
    BY <1>1, <1>2, <1>3, <1>6, NumbersPositive DEF InReaper, Among
  <2> QED
    BY <2>1, <2>2, <2>3
<1>9. ReapInv
  <2>1. ToldTheSame
    BY <1>2, <1>6 DEF ToldTheSame, ToldAlike
  <2>2. Accounted
    BY <1>8 DEF Accounted
  <2>3. ReaperShape
    BY <1>2, <1>3, <1>6, <1>8 DEF ReaperShape
  <2>4. TombstonesLeft /\ NoTombstoneLeft
    BY <1>2, <1>6 DEF TombstonesLeft, NoTombstoneLeft
  <2> QED
    BY <2>1, <2>2, <2>3, <2>4 DEF ReapInv
<1>10. VisibleInv
  <2>1. \A r \in Reqs : stamp[r][1] = 0
    BY <1>2
  <2>2. Stamped
    BY <1>2, <1>6, <2>1 DEF Stamped, Answering
  <2>3. BeforeOlder /\ Decided
    BY <1>2 DEF BeforeOlder, Decided
  <2>4. IndexLatest
    BY <1>2 DEF IndexLatest, MayStand, Applied
  <2> QED
    BY <2>2, <2>3, <2>4 DEF VisibleInv
<1> QED
  BY <1>1, <1>5, <1>7, <1>9, <1>10 DEF PipelineInv

(* The inductive invariant: the parts of the write path agree at every     *)
(* step, whatever the order in which clients, merge threads, segment       *)
(* writers and the reaper run.                                             *)
THEOREM PipelineInvariant == Spec => []PipelineInv
<1>1. Init => PipelineInv
  BY InitInv
<1>2. PipelineInv /\ [Next]_vars => PipelineInv'
  <2> SUFFICES ASSUME PipelineInv, [Next]_vars PROVE PipelineInv'
    OBVIOUS
  <2>1. TypeOK'
    BY TypeStep
  <2> QED
    BY <2>1, RequestStep, SegmentStep, ReapStep, VisibleStep DEF PipelineInv
<1> QED
  BY <1>1, <1>2, PTL DEF Spec

(* A segment object is deleted when nobody uses it any more, and then none *)
(* of its tombstones is left in the index.                                 *)
THEOREM PipelineConsistent == Spec => []Consistent
<1>1. ASSUME PipelineInv PROVE Consistent
  <2> USE <1>1 DEF PipelineInv
  <2>1. DeletedUnused
    <3> SUFFICES ASSUME NEW i \in DOMAIN segs, segs[i].phase = "deleted"
                 PROVE  /\ \A n \in Positions(segs[i].reqList) :
                             client[segs[i].reqList[n]] = "returned"
                        /\ \A w \in SegWriters : writer[w].seg # i
                        /\ \A h \in Shards : segMap[h] # i
                        /\ i \notin {reaperWQ[n] : n \in DOMAIN reaperWQ}
      BY DEF DeletedUnused
    <3>1. InReaper(i) /\ i # 0
      BY NumbersPositive DEF InReaper
    <3>2. \A n \in Positions(segs[i].reqList) : client[segs[i].reqList[n]] = "returned"
      BY <3>1, InReaperDone DEF ReapInv
    <3>3. ASSUME NEW w \in SegWriters PROVE writer[w].seg # i
      BY <3>1 DEF SegmentInv, WriterShape, Busy, IdleWriter
    <3>4. \A h \in Shards : segMap[h] # i
      BY DEF SegmentInv, OpenShape
    <3>5. \A n \in Positions(reaperWQ) : reaperWQ[n] # i
      BY DEF ReapInv, ReaperShape
    <3>6. DOMAIN reaperWQ = Positions(reaperWQ)
      BY DEF TypeOK, Positions
    <3> QED
      BY <3>2, <3>3, <3>4, <3>5, <3>6
  <2> QED
    BY <2>1 DEF Consistent, ReapInv
<1> QED
  BY <1>1, PipelineInvariant, PTL

(* No read finds an overwritten value, and none misses a write that was    *)
(* acknowledged and had room in the index.                                 *)
THEOREM ReadsAreLatest == Spec => []LatestVisible
<1>1. ASSUME PipelineInv PROVE LatestVisible
  <2>1. \A r : Latest(r) => NotOvertaken(r)
    BY DEF Latest, NotOvertaken, Succeeded, Returned, Applied
  <2>2. \A d \in Succeeded : d \in Reqs /\ Applied(d)
    BY DEF Succeeded, Returned, Applied
  <2>3. ASSUME NEW k \in Keys
        PROVE  IF index[k] # NoReq
               THEN NotOvertaken(index[k])
               ELSE \/ \A d \in Succeeded : KeyOf[d] = k => d \in Deletes
                    \/ \E r \in Deletes \cup refused :
                         KeyOf[r] = k /\ Applied(r) /\ NotOvertaken(r)
    <3>1. MayStand(index[k], k)
      BY <1>1 DEF PipelineInv, VisibleInv, IndexLatest
    <3> QED
      BY <2>1, <2>2, <3>1 DEF MayStand
  <2> QED
    BY <2>3 DEF LatestVisible
<1> QED
  BY <1>1, PipelineInvariant, PTL

(* The slices of the requests of a segment are alive while it is written.  *)
THEOREM ClientsStillWait == Spec => []WritesForWaiting
<1>1. ASSUME PipelineInv PROVE WritesForWaiting
  <2> SUFFICES ASSUME NEW w \in SegWriters, writer[w].at \in {"alloc", "write"},
                      keepsTrying => writer[w].ok,
                      NEW n \in Positions(segs[writer[w].seg].reqList)
               PROVE  client[segs[writer[w].seg].reqList[n]] = "waiting"
    BY DEF WritesForWaiting
  <2>1. Busy(w) /\ writer[w].seg \in DOMAIN segs
    BY <1>1 DEF PipelineInv, SegmentInv, WriterShape, Busy, TypeOK, Writers
  <2>2. segs[writer[w].seg].answered = 0
    BY <2>1 DEF Busy
  <2>3. n > 0
    BY DEF Positions
  <2> QED
    BY <1>1, <2>1, <2>2, <2>3 DEF PipelineInv, RequestInv, AnsweredInOrder
<1> QED
  BY <1>1, PipelineInvariant, PTL

(* When the threads have nothing to do no client waits, and the segments   *)
(* of the successful writes have been reaped.                              *)
THEOREM NothingForgotten == Spec => []RestMeansDone
<1>1. ASSUME PipelineInv, AtRest, NEW r \in Reqs
      PROVE  /\ client[r] # "waiting"
             /\ client[r] = "returned" /\ status[r] = "SUCCESS" =>
                  segs[SegOf(r)].phase = "deleted"
  <2> USE <1>1 DEF PipelineInv
  <2>1. /\ \A h \in Shards : Len(reqWQ[h]) = 0 /\ Len(segs[segMap[h]].reqList) = 0
        /\ Len(segWteWQ) = 0 /\ Len(reaperWQ) = 0 /\ reaping.seg = 0
        /\ \A w \in SegWriters : writer[w].seg = 0
        /\ \A d \in Reqs : client[d] \notin {"answered", "commit"}
    <3>1. \A h \in Shards : Len(segs[segMap[h]].reqList) = 0
      <4> SUFFICES ASSUME NEW h \in Shards PROVE Len(segs[segMap[h]].reqList) = 0
        OBVIOUS
      <4>1. Len(segs[segMap[h]].reqList) \in Nat
        BY SegmentType DEF TypeOK
      <4> QED
        BY <4>1 DEF AtRest, HasReq
    <3> QED
      BY <3>1 DEF AtRest, IdleWriter, NotReaping
  <2>2. ASSUME NEW i \in DOMAIN segs, Len(segs[i].reqList) # 0
        PROVE  segs[i].answered = All(i)
    <3>1. segs[i].phase # "open"
      BY <2>1, <2>2 DEF SegmentInv, OpenShape
    <3>2. i # 0
      BY NumbersPositive
    <3> QED
      BY <2>1, <3>1, <3>2, SegmentType DEF SegmentInv, Finished, Positions
  <2>3. ASSUME NEW i \in DOMAIN segs, NEW n \in Positions(segs[i].reqList)
        PROVE  client[segs[i].reqList[n]] = "returned" /\ n <= segs[i].answered
    <3>1. Len(segs[i].reqList) \in Nat /\ segs[i].reqList[n] \in Reqs
      BY SegmentType
    <3>2. n \in 1 .. Len(segs[i].reqList)
      BY DEF Positions
    <3>3. segs[i].answered = Len(segs[i].reqList)
      BY <2>2, <3>1, <3>2 DEF All
    <3> QED
      BY <2>1, <3>1, <3>2, <3>3 DEF RequestInv, AnsweredInOrder
  <2>4. client[r] # "waiting"
    <3> SUFFICES ASSUME client[r] = "waiting" PROVE FALSE
      OBVIOUS
    <3>1. ShardOf[KeyOf[r]] \in Shards
      BY WritePipelineAssumption
    <3>2. Positions(reqWQ[ShardOf[KeyOf[r]]]) = {}
      BY <2>1, <3>1 DEF Positions
    <3>3. PICK i \in DOMAIN segs : Holds(i, r)
      BY <3>2 DEF RequestInv, NoneLost
    <3> QED
      BY <2>3, <3>3 DEF Holds
  <2>5. ASSUME client[r] = "returned", status[r] = "SUCCESS"
        PROVE  segs[SegOf(r)].phase = "deleted"
    <3> DEFINE i == SegOf(r)
    <3>1. i \in DOMAIN segs /\ \E n \in 1 .. segs[i].answered : segs[i].reqList[n] = r
      BY <2>5, AnsweredHeld
    <3> HIDE DEF i
    <3>2. Good(i)
      BY <2>5, <3>1 DEF Good
    <3>3. Unreturned(i) = {}
      BY <2>3, <3>1 DEF Unreturned
    <3>4. InReaper(i)
      BY <3>1, <3>2, <3>3 DEF ReapInv, ReaperShape
    <3>5. i # 0
      BY <3>1, NumbersPositive
    <3> QED
      BY <2>1, <3>4, <3>5 DEF InReaper, Among, Positions, i
  <2> QED
    BY <2>4, <2>5
<1>2. ASSUME PipelineInv PROVE RestMeansDone
  BY <1>1, <1>2 DEF RestMeansDone
<1> QED
  BY <1>2, PipelineInvariant, PTL
=============================================================================
