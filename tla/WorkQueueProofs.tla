--------------------------- MODULE WorkQueueProofs ---------------------------
(***************************************************************************)
(* For any set of tasks and any number of workers: a task is in one place, *)
(* no wake-up is lost, and Stop returns on a drained queue.                *)
(***************************************************************************)
EXTENDS WorkQueue, TLAPS

(* The worker's position agrees with what it holds and with stop_, and a   *)
(* queue that nobody will look at again is empty.                          *)
ControlInv ==
  /\ TypeOK
  /\ \A w \in Workers : (data[w] # NoTask) <=> (pc[w] = "process")
  /\ \A w \in Workers : pc[w] = "exited" => stop
  /\ stop <=> stopper # "running"
  /\ stopper = "stopped" => \A w \in Workers : pc[w] = "exited"

(* The tasks of a queue after a push, and before and after a pop.          *)
LEMMA PushPop ==
  ASSUME NEW q \in Seq(Tasks),
         \A i, j \in DOMAIN q : q[i] = q[j] => i = j
  PROVE  /\ \A t \in Tasks :
              /\ Append(q, t) \in Seq(Tasks)
              /\ {Append(q, t)[i] : i \in DOMAIN Append(q, t)} =
                   {q[i] : i \in DOMAIN q} \cup {t}
              /\ t \notin {q[i] : i \in DOMAIN q} =>
                   \A i, j \in DOMAIN Append(q, t) :
                     Append(q, t)[i] = Append(q, t)[j] => i = j
         /\ q # <<>> =>
              /\ Head(q) \in Tasks
              /\ Tail(q) \in Seq(Tasks)
              /\ {q[i] : i \in DOMAIN q} =
                   {Tail(q)[i] : i \in DOMAIN Tail(q)} \cup {Head(q)}
              /\ Head(q) \notin {Tail(q)[i] : i \in DOMAIN Tail(q)}
              /\ \A i, j \in DOMAIN Tail(q) : Tail(q)[i] = Tail(q)[j] => i = j
<1>1. ASSUME NEW t \in Tasks
      PROVE  /\ Append(q, t) \in Seq(Tasks)
             /\ {Append(q, t)[i] : i \in DOMAIN Append(q, t)} =
                  {q[i] : i \in DOMAIN q} \cup {t}
             /\ t \notin {q[i] : i \in DOMAIN q} =>
                  \A i, j \in DOMAIN Append(q, t) :
                    Append(q, t)[i] = Append(q, t)[j] => i = j
  <2>1. /\ Append(q, t) \in Seq(Tasks)
        /\ Len(Append(q, t)) = Len(q) + 1
        /\ Len(q) \in Nat
        /\ DOMAIN q = 1 .. Len(q)
        /\ DOMAIN Append(q, t) = 1 .. Len(q) + 1
    OBVIOUS
  <2>2. /\ \A i \in 1 .. Len(q) : Append(q, t)[i] = q[i]
        /\ Append(q, t)[Len(q) + 1] = t
    OBVIOUS
  <2> QED BY <2>1, <2>2
<1>2. ASSUME q # <<>>
      PROVE  /\ Head(q) \in Tasks
             /\ Tail(q) \in Seq(Tasks)
             /\ {q[i] : i \in DOMAIN q} =
                  {Tail(q)[i] : i \in DOMAIN Tail(q)} \cup {Head(q)}
             /\ Head(q) \notin {Tail(q)[i] : i \in DOMAIN Tail(q)}
             /\ \A i, j \in DOMAIN Tail(q) : Tail(q)[i] = Tail(q)[j] => i = j
  <2>1. /\ Tail(q) \in Seq(Tasks)
        /\ Len(q) \in Nat
        /\ Len(q) > 0
        /\ DOMAIN q = 1 .. Len(q)
        /\ DOMAIN Tail(q) = 1 .. Len(q) - 1
        /\ Head(q) = q[1]
        /\ Head(q) \in Tasks
    BY <1>2
  <2>2. \A i \in 1 .. Len(q) - 1 : Tail(q)[i] = q[i + 1]
    BY <1>2
  <2>3. \A i \in 1 .. Len(q) : i # 1 => i - 1 \in 1 .. Len(q) - 1 /\ q[i] = Tail(q)[i - 1]
    BY <2>1, <2>2
  <2>4. {q[i] : i \in DOMAIN q} =
          {Tail(q)[i] : i \in DOMAIN Tail(q)} \cup {Head(q)}
    <3>1. ASSUME NEW i \in DOMAIN q
          PROVE  q[i] \in {Tail(q)[k] : k \in DOMAIN Tail(q)} \cup {Head(q)}
      BY <2>1, <2>3
    <3>2. ASSUME NEW i \in DOMAIN Tail(q)
          PROVE  Tail(q)[i] \in {q[k] : k \in DOMAIN q}
      <4>1. i + 1 \in DOMAIN q /\ Tail(q)[i] = q[i + 1]
        BY <2>1, <2>2
      <4> QED BY <4>1, Zenon
    <3>3. Head(q) \in {q[k] : k \in DOMAIN q}
      BY <2>1
    <3> DEFINE Whole == {q[k] : k \in DOMAIN q}
               Rest == {Tail(q)[k] : k \in DOMAIN Tail(q)}
    <3>4. Whole \subseteq Rest \cup {Head(q)}
      BY <3>1
    <3>5. Rest \subseteq Whole
      BY <3>2
    <3>6. Head(q) \in Whole
      BY <3>3
    <3> HIDE DEF Whole, Rest
    <3>7. Whole = Rest \cup {Head(q)}
      BY <3>4, <3>5, <3>6
    <3> QED BY <3>7 DEF Whole, Rest
  <2>5. Head(q) \notin {Tail(q)[i] : i \in DOMAIN Tail(q)}
    BY <2>1, <2>2
  <2>6. \A i, j \in DOMAIN Tail(q) : Tail(q)[i] = Tail(q)[j] => i = j
    BY <2>1, <2>2
  <2> QED BY <2>1, <2>4, <2>5, <2>6
<1> QED BY <1>1, <1>2

-----------------------------------------------------------------------------
(* At the start all workers are about to wait and no task is anywhere.     *)
LEMMA ControlInit == Init => ControlInv
<1> SUFFICES ASSUME Init PROVE ControlInv
  OBVIOUS
<1>1. dataQueue \in Seq(Tasks)
  BY DEF Init
<1> QED BY <1>1, WorkQueueAssumption DEF Init, ControlInv, TypeOK

(* Every step keeps ControlInv.                                            *)
LEMMA ControlStep == ControlInv /\ [Next]_vars => ControlInv'
<1> SUFFICES ASSUME ControlInv, [Next]_vars PROVE ControlInv'
  OBVIOUS
<1> USE WorkQueueAssumption DEF ControlInv, TypeOK
<1>1. ASSUME NEW t \in Tasks, Add_task(t) PROVE ControlInv'
  <2>1. dataQueue' \in Seq(Tasks)
    BY <1>1 DEF Add_task
  <2> QED BY <1>1, <2>1 DEF Add_task, Asleep
<1>2. CASE StopStore
  BY <1>2 DEF StopStore
<1>3. CASE StopNotify
  BY <1>3 DEF StopNotify, Asleep
<1>4. CASE StopJoin
  BY <1>4 DEF StopJoin
<1>5. ASSUME NEW w \in Workers, Take(w) PROVE ControlInv'
  <2>1. dataQueue' \in Seq(Tasks) /\ Head(dataQueue) \in Tasks
    BY <1>5 DEF Take
  <2> QED BY <1>5, <2>1 DEF Take
<1>6. ASSUME NEW w \in Workers, Sleep(w) PROVE ControlInv'
  BY <1>6 DEF Sleep
<1>7. ASSUME NEW w \in Workers, TimeOut(w) PROVE ControlInv'
  BY <1>7 DEF TimeOut
<1>8. ASSUME NEW w \in Workers, Leave(w) PROVE ControlInv'
  BY <1>8 DEF Leave
<1>9. ASSUME NEW w \in Workers, Process(w) PROVE ControlInv'
  BY <1>9 DEF Process
<1>10. CASE UNCHANGED vars
  BY <1>10 DEF vars
<1> QED
  BY <1>1, <1>2, <1>3, <1>4, <1>5, <1>6, <1>7, <1>8, <1>9, <1>10
  DEF Next, Worker, Finished

-----------------------------------------------------------------------------
(* At the start no task has been added.                                    *)
LEMMA PlaceInit == Init => TaskInOnePlace
  BY DEF Init, TaskInOnePlace, InQueue, InHand

(* Push, pop and the end of _process move a task from one place to the     *)
(* next.                                                                   *)
LEMMA PlaceStep == ControlInv /\ TaskInOnePlace /\ [Next]_vars => TaskInOnePlace'
<1> SUFFICES ASSUME ControlInv, TaskInOnePlace, [Next]_vars PROVE TaskInOnePlace'
  OBVIOUS
<1> USE WorkQueueAssumption
<1>1. ASSUME NEW t \in Tasks, Add_task(t) PROVE TaskInOnePlace'
  <2>1. t \notin InQueue /\ t \notin InHand /\ t \notin processed
    BY <1>1 DEF Add_task, TaskInOnePlace
  <2>2. /\ InQueue' = InQueue \cup {t}
        /\ \A i, j \in DOMAIN dataQueue' : dataQueue'[i] = dataQueue'[j] => i = j
    BY <1>1, <2>1, PushPop
    DEF Add_task, TaskInOnePlace, InQueue, ControlInv, TypeOK
  <2>3. InHand' = InHand /\ data' = data
    BY <1>1 DEF Add_task, InHand
  <2> QED BY <1>1, <2>1, <2>2, <2>3 DEF Add_task, TaskInOnePlace
<1>2. ASSUME NEW w \in Workers, Take(w) PROVE TaskInOnePlace'
  <2>1. /\ InQueue = InQueue' \cup {Head(dataQueue)}
        /\ Head(dataQueue) \notin InQueue'
        /\ Head(dataQueue) \in Tasks
        /\ \A i, j \in DOMAIN dataQueue' : dataQueue'[i] = dataQueue'[j] => i = j
    <3>1. /\ dataQueue \in Seq(Tasks)
          /\ \A i, j \in DOMAIN dataQueue : dataQueue[i] = dataQueue[j] => i = j
          /\ dataQueue # <<>>
          /\ dataQueue' = Tail(dataQueue)
      BY <1>2 DEF Take, TaskInOnePlace, ControlInv, TypeOK
    <3>2. /\ Head(dataQueue) \in Tasks
          /\ {dataQueue[i] : i \in DOMAIN dataQueue} =
               {Tail(dataQueue)[i] : i \in DOMAIN Tail(dataQueue)}
                 \cup {Head(dataQueue)}
          /\ Head(dataQueue) \notin {Tail(dataQueue)[i] : i \in DOMAIN Tail(dataQueue)}
          /\ \A i, j \in DOMAIN Tail(dataQueue) :
               Tail(dataQueue)[i] = Tail(dataQueue)[j] => i = j
      BY <3>1, PushPop, Zenon
    <3>3. InQueue' = {Tail(dataQueue)[i] : i \in DOMAIN Tail(dataQueue)}
      BY <3>1 DEF InQueue
    <3> QED BY <3>1, <3>2, <3>3 DEF InQueue
  <2>2. data[w] = NoTask /\ Head(dataQueue) # NoTask
    BY <1>2, <2>1 DEF Take, ControlInv, TypeOK
  <2>3. InHand' = InHand \cup {Head(dataQueue)}
    BY <1>2, <2>2 DEF Take, InHand, ControlInv, TypeOK
  <2>4. Head(dataQueue) \notin InHand /\ Head(dataQueue) \notin processed
    BY <2>1 DEF TaskInOnePlace
  <2>5. \A v, x \in Workers : data'[v] = data'[x] /\ data'[v] # NoTask => v = x
    BY <1>2, <2>4 DEF Take, TaskInOnePlace, InHand, ControlInv, TypeOK
  <2> QED BY <1>2, <2>1, <2>3, <2>4, <2>5 DEF Take, TaskInOnePlace
<1>3. ASSUME NEW w \in Workers, Process(w) PROVE TaskInOnePlace'
  <2>1. data[w] # NoTask /\ data[w] \in InHand
    BY <1>3 DEF Process, ControlInv, TypeOK, InHand
  <2>2. InHand' = InHand \ {data[w]}
    BY <1>3, <2>1 DEF Process, InHand, TaskInOnePlace, ControlInv, TypeOK
  <2>3. InQueue' = InQueue /\ dataQueue' = dataQueue
    BY <1>3 DEF Process, InQueue
  <2>4. \A v, x \in Workers : data'[v] = data'[x] /\ data'[v] # NoTask => v = x
    BY <1>3 DEF Process, TaskInOnePlace, ControlInv, TypeOK
  <2> QED BY <1>3, <2>1, <2>2, <2>3, <2>4 DEF Process, TaskInOnePlace
<1>4. ASSUME UNCHANGED <<dataQueue, data, added, processed>> PROVE TaskInOnePlace'
  BY <1>4 DEF TaskInOnePlace, InQueue, InHand
<1> QED
  BY <1>1, <1>2, <1>3, <1>4
  DEF Next, Worker, Finished, StopStore, StopNotify, StopJoin, Sleep, TimeOut,
      Leave, vars

-----------------------------------------------------------------------------
(* At the start the queue is empty.                                        *)
LEMMA WakeInit == Init => NoLostWakeup
  BY DEF Init, NoLostWakeup, InQueue

(* A worker sleeps or leaves only when the queue is empty, and a push      *)
(* wakes a sleeper.                                                        *)
LEMMA WakeStep == ControlInv /\ NoLostWakeup /\ [Next]_vars => NoLostWakeup'
<1> SUFFICES ASSUME ControlInv, NoLostWakeup, [Next]_vars, InQueue' # {},
                    ~(LateAdds /\ stop')
             PROVE  \E w \in Workers : pc'[w] \notin {"asleep", "exited"}
  BY DEF NoLostWakeup
<1> USE WorkQueueAssumption
<1>1. ASSUME NEW t \in Tasks, Add_task(t)
      PROVE  \E w \in Workers : pc'[w] \notin {"asleep", "exited"}
  <2>1. ~stop /\ stop' = stop
    BY <1>1 DEF Add_task, ControlInv
  <2>2. \A w \in Workers : pc[w] # "exited"
    BY <2>1 DEF ControlInv
  <2>3. CASE Asleep = {}
    BY <1>1, <2>2, <2>3 DEF Add_task, Asleep
  <2>4. CASE Asleep # {}
    BY <1>1, <2>4 DEF Add_task, Asleep, ControlInv, TypeOK
  <2> QED BY <2>3, <2>4
<1>2. ASSUME NEW w \in Workers, Take(w) \/ Process(w) \/ TimeOut(w)
      PROVE  \E v \in Workers : pc'[v] \notin {"asleep", "exited"}
  BY <1>2 DEF Take, Process, TimeOut, ControlInv, TypeOK
<1>3. ASSUME NEW w \in Workers, Sleep(w) \/ Leave(w) PROVE FALSE
  BY <1>3 DEF Sleep, Leave, InQueue
<1>4. ASSUME UNCHANGED <<dataQueue, pc>> \/ StopNotify
      PROVE  \E w \in Workers : pc'[w] \notin {"asleep", "exited"}
  <2>1. InQueue # {}
    BY <1>4 DEF InQueue, StopNotify
  <2>2. ~(LateAdds /\ stop)
    BY DEF Next, Worker, Finished, Add_task, StopStore, StopNotify, StopJoin,
           Take, Sleep, TimeOut, Leave, Process, vars
  <2>3. PICK w \in Workers : pc[w] \notin {"asleep", "exited"}
    BY <2>1, <2>2 DEF NoLostWakeup
  <2>4. pc'[w] = pc[w]
    BY <1>4, <2>3 DEF StopNotify, Asleep
  <2> QED BY <2>3, <2>4
<1> QED
  BY <1>1, <1>2, <1>3, <1>4 DEF Next, Worker, Finished, StopStore, StopJoin, vars

-----------------------------------------------------------------------------
(* When all workers have left, no task is in a hand and none can be left   *)
(* in the queue.                                                           *)
LEMMA StopIsLast ==
  ControlInv /\ TaskInOnePlace /\ NoLostWakeup => StopDrains
<1> SUFFICES ASSUME ControlInv, TaskInOnePlace, NoLostWakeup,
                    stopper = "stopped", ~LateAdds
             PROVE  processed = added
  BY DEF StopDrains
<1>1. \A w \in Workers : pc[w] = "exited" /\ data[w] = NoTask
  BY DEF ControlInv
<1>2. InHand = {}
  BY <1>1 DEF InHand
<1>3. InQueue = {}
  BY <1>1 DEF NoLostWakeup
<1> QED BY <1>2, <1>3 DEF TaskInOnePlace

(* Every variable keeps its type: worker, stopper and queue of WorkQueue.h *)
(* take only the values listed.                                            *)
THEOREM QueueTypeCorrect == Spec => []TypeOK
<1>1. ControlInv => TypeOK
  BY DEF ControlInv
<1> QED BY <1>1, ControlInit, ControlStep, PTL DEF Spec

(* Whatever the interleaving of Add_task, worker and Stop, each task is in *)
(* exactly one of the queue, one worker's hands and the processed set.     *)
THEOREM NoTaskLostOrRepeated == Spec => []TaskInOnePlace
BY ControlInit, ControlStep, PlaceInit, PlaceStep, PTL DEF Spec

(* notify_one and the predicate of wait_for lose no wake-up: while a task  *)
(* waits, some worker is neither asleep nor gone.                          *)
THEOREM WakeupNotLost == Spec => []NoLostWakeup
BY ControlInit, ControlStep, WakeInit, WakeStep, PTL DEF Spec

(* When Stop has joined the workers and nobody added a task after it was   *)
(* called, every task has been processed.                                  *)
THEOREM StopLeavesNothing == Spec => []StopDrains
BY ControlInit, ControlStep, PlaceInit, PlaceStep, WakeInit, WakeStep,
   StopIsLast, PTL DEF Spec
=============================================================================
