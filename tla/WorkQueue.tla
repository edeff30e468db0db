------------------------------ MODULE WorkQueue ------------------------------
(***************************************************************************)
(* dslab::WorkQueue (src/src/include/WorkQueue.h), the queue with its own  *)
(* threads behind every hand-over of the program: requests to the merge    *)
(* thread of a shard, full segments to the segment writers, written        *)
(* segments to the reaper.                                                 *)
(*                                                                         *)
(* The condition variable is modelled as such: a worker whose predicate is *)
(* false goes to sleep and gives the mutex up in one step, notify_one      *)
(* wakes one sleeper if there is one, and a wait may end by its timeout.   *)
(* What a worker does between two acquisitions of mtx_ is one step.        *)
(***************************************************************************)
EXTENDS Naturals, Sequences, FiniteSets

CONSTANTS Tasks,     (* the pointers handed to Add_task, each once         *)
          Workers,   (* threads_                                           *)
          NoTask,    (* a worker holds nothing                             *)
          LateAdds   (* may Add_task be called once Stop has been?         *)

ASSUME WorkQueueAssumption ==
  /\ IsFiniteSet(Workers)
  /\ Workers # {}
  /\ NoTask \notin Tasks
  /\ LateAdds \in BOOLEAN

VARIABLES dataQueue, (* dataQueue_                                         *)
          stop,      (* stop_                                              *)
          pc,        (* where each worker is                               *)
          data,      (* the task each worker processes                     *)
          stopper,   (* where the caller of Stop is                        *)
          added,     (* history: tasks given to Add_task                   *)
          processed  (* history: tasks whose _process has returned         *)

vars == <<dataQueue, stop, pc, data, stopper, added, processed>>

Init ==
  /\ dataQueue = <<>>
  /\ stop = FALSE
  /\ pc = [w \in Workers |-> "enter"]
  /\ data = [w \in Workers |-> NoTask]
  /\ stopper = "running"
  /\ added = {}
  /\ processed = {}

Asleep == {w \in Workers : pc[w] = "asleep"}

(* Push and notify_one, both under the mutex.                              *)
Add_task(t) ==
  /\ t \notin added
  /\ LateAdds \/ stopper = "running"
  /\ dataQueue' = Append(dataQueue, t)
  /\ added' = added \cup {t}
  /\ IF Asleep = {}
     THEN UNCHANGED pc
     ELSE \E w \in Asleep : pc' = [pc EXCEPT ![w] = "awake"]
  /\ UNCHANGED <<stop, data, stopper, processed>>

(* Stop in its three parts: the store to stop_, without the mutex;         *)
(* notify_all; join.                                                       *)
StopStore ==
  /\ stopper = "running"
  /\ stop' = TRUE
  /\ stopper' = "notify"
  /\ UNCHANGED <<dataQueue, pc, data, added, processed>>

StopNotify ==
  /\ stopper = "notify"
  /\ pc' = [w \in Workers |-> IF w \in Asleep THEN "awake" ELSE pc[w]]
  /\ stopper' = "join"
  /\ UNCHANGED <<dataQueue, stop, data, added, processed>>

StopJoin ==
  /\ stopper = "join"
  /\ \A w \in Workers : pc[w] = "exited"
  /\ stopper' = "stopped"
  /\ UNCHANGED <<dataQueue, stop, pc, data, added, processed>>

(* Mutant: the front is read and not popped.                               *)
MutTake(w) ==
  /\ pc[w] \in {"enter", "awake", "timedout"}
  /\ dataQueue # <<>>
  /\ data' = [data EXCEPT ![w] = Head(dataQueue)]
  /\ pc' = [pc EXCEPT ![w] = "process"]
  /\ UNCHANGED <<dataQueue, stop, stopper, added, processed>>

(* wait_for finds or is woken to a non-empty queue: front, pop, unlock.    *)
Take(w) ==
  /\ pc[w] \in {"enter", "awake", "timedout"}
  /\ dataQueue # <<>>
  /\ data' = [data EXCEPT ![w] = Head(dataQueue)]
  /\ dataQueue' = Tail(dataQueue)
  /\ pc' = [pc EXCEPT ![w] = "process"]
  /\ UNCHANGED <<stop, stopper, added, processed>>

(* Mutant: the wait has no predicate, so it sleeps on a non-empty queue.   *)
MutSleep(w) ==
  /\ pc[w] \in {"enter", "awake"}
  /\ pc' = [pc EXCEPT ![w] = "asleep"]
  /\ UNCHANGED <<dataQueue, stop, data, stopper, added, processed>>

(* The predicate looks at the queue only: a worker woken by Stop finds it  *)
(* empty and sleeps again until its timeout.                               *)
Sleep(w) ==
  /\ pc[w] \in {"enter", "awake"}
  /\ dataQueue = <<>>
  /\ pc' = [pc EXCEPT ![w] = "asleep"]
  /\ UNCHANGED <<dataQueue, stop, data, stopper, added, processed>>

(* One second has passed; the mutex is not yet reacquired.                 *)
TimeOut(w) ==
  /\ pc[w] = "asleep"
  /\ pc' = [pc EXCEPT ![w] = "timedout"]
  /\ UNCHANGED <<dataQueue, stop, data, stopper, added, processed>>

(* Mutant: a stopped worker leaves without looking at the queue.           *)
MutLeave(w) ==
  /\ pc[w] = "timedout"
  /\ pc' = [pc EXCEPT ![w] = IF stop THEN "exited" ELSE "enter"]
  /\ UNCHANGED <<dataQueue, stop, data, stopper, added, processed>>

(* Mutant: stop_ is not looked at after a timeout.                         *)
MutLeaveNever(w) ==
  /\ pc[w] = "timedout"
  /\ dataQueue = <<>>
  /\ pc' = [pc EXCEPT ![w] = "enter"]
  /\ UNCHANGED <<dataQueue, stop, data, stopper, added, processed>>

(* wait_for returned on an empty queue: exit when stopped, else loop.      *)
Leave(w) ==
  /\ pc[w] = "timedout"
  /\ dataQueue = <<>>
  /\ pc' = [pc EXCEPT ![w] = IF stop THEN "exited" ELSE "enter"]
  /\ UNCHANGED <<dataQueue, stop, data, stopper, added, processed>>

(* _process, without the mutex.                                            *)
Process(w) ==
  /\ pc[w] = "process"
  /\ processed' = processed \cup {data[w]}
  /\ data' = [data EXCEPT ![w] = NoTask]
  /\ pc' = [pc EXCEPT ![w] = "enter"]
  /\ UNCHANGED <<dataQueue, stop, stopper, added>>

Worker(w) == Take(w) \/ Sleep(w) \/ TimeOut(w) \/ Leave(w) \/ Process(w)

(* After a Stop that has returned, nothing need happen any more.           *)
Finished == stopper = "stopped" /\ UNCHANGED vars

Next ==
  \/ \E t \in Tasks : Add_task(t)
  \/ StopStore \/ StopNotify \/ StopJoin
  \/ \E w \in Workers : Worker(w)
  \/ Finished

(* The scheduler runs every thread that can run, and a bounded wait ends;  *)
(* nobody is obliged to add a task or to stop the queue.                   *)
Spec ==
  /\ Init /\ [][Next]_vars
  /\ \A w \in Workers : WF_vars(Worker(w))
  /\ WF_vars(StopNotify \/ StopJoin)

-----------------------------------------------------------------------------
(* Properties. *)

InQueue == {dataQueue[i] : i \in DOMAIN dataQueue}
InHand == {data[w] : w \in Workers} \ {NoTask}

TypeOK ==
  /\ dataQueue \in Seq(Tasks)
  /\ stop \in BOOLEAN
  /\ pc \in [Workers -> {"enter", "asleep", "awake", "timedout", "process", "exited"}]
  /\ data \in [Workers -> Tasks \cup {NoTask}]
  /\ stopper \in {"running", "notify", "join", "stopped"}
  /\ added \subseteq Tasks
  /\ processed \subseteq Tasks

(* A task is in exactly one place: waiting, in the hands of one worker, or *)
(* processed.  None is lost and none is processed twice, whatever the      *)
(* order of notifications, timeouts and Stop.                              *)
TaskInOnePlace ==
  /\ added = InQueue \cup InHand \cup processed
  /\ InQueue \cap InHand = {}
  /\ InQueue \cap processed = {}
  /\ InHand \cap processed = {}
  /\ \A i, j \in DOMAIN dataQueue : dataQueue[i] = dataQueue[j] => i = j
  /\ \A v, w \in Workers : data[v] = data[w] /\ data[v] # NoTask => v = w

(* While a task waits, some worker is on its way to it: no notification is *)
(* lost between the test of the predicate and the sleep, so the            *)
(* one-second timeout is never what makes a task move.                     *)
NoLostWakeup ==
  InQueue # {} =>
    \/ \E w \in Workers : pc[w] \notin {"asleep", "exited"}
    \/ LateAdds /\ stop

(* When Stop returns, every task added has been processed: a worker leaves *)
(* only when it sees the queue empty.                                      *)
StopDrains == stopper = "stopped" /\ ~LateAdds => processed = added

(* Every task is processed, also when Stop is called meanwhile.            *)
EveryTaskProcessed == \A t \in Tasks : t \in added ~> t \in processed

(* Stop returns: the workers, whose wait does not test stop_, find out by  *)
(* their timeout.                                                          *)
StopReturns == stopper = "notify" ~> stopper = "stopped"
=============================================================================
