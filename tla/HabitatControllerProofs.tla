----------------------- MODULE HabitatControllerProofs -----------------------
(***************************************************************************)
(* Proofs about HabitatController, for any cluster, any workers and any    *)
(* budget of disturbances: mutual exclusion, the refinement of PendingWork *)
(* and type correctness, on which the other proofs about it rest.          *)
(***************************************************************************)
EXTENDS HabitatController, WorkQueueProofs

WorkersOK ==
    /\ wpc \in [Workers -> WorkerStates]
    /\ wkey \in [Workers -> Keys \cup {None}]
    /\ \A w \in Workers : wpc[w] # "Get" => wkey[w] \in Keys

(* What makes OneWorkerPerHabitat inductive, over crashes too: a worker    *)
(* takes a queued key, a queued key is not processed, and what is not      *)
(* processed no worker holds.                                              *)
MutexInv ==
    /\ QInv
    /\ WorkersOK
    /\ ProcessingIsHeld
    /\ OneWorkerPerHabitat

LEMMA InitMutexInv == Init => MutexInv
<1> SUFFICES ASSUME Init PROVE MutexInv
  OBVIOUS
<1>1. QInv
  BY QueueInitQInv DEF Init
<1>2. WorkersOK
  BY DEF Init, WorkersOK, WorkerStates
<1>3. \A w \in Workers, k \in Keys : ~Holds(w, k)
  BY DEF Init, Holds
<1>4. ProcessingIsHeld /\ OneWorkerPerHabitat
  BY <1>3 DEF ProcessingIsHeld, OneWorkerPerHabitat, Init, QueueInit
<1>5. QED
  BY <1>1, <1>2, <1>4 DEF MutexInv

LEMMA SameHolders ==
    ASSUME MutexInv, processing' = processing,
           \A w \in Workers, k \in Keys : Holds(w, k)' <=> Holds(w, k)
    PROVE  ProcessingIsHeld' /\ OneWorkerPerHabitat'
BY DEF MutexInv, ProcessingIsHeld, OneWorkerPerHabitat

(* A worker that has a key goes on to a step at which it still has it. *)
Moves(w) ==
    /\ wpc[w] # "Get"
    /\ \E step \in WorkerStates \ {"Get"} : wpc' = [wpc EXCEPT ![w] = step]
    /\ wkey' = wkey

LEMMA MovesMutexInv ==
    ASSUME MutexInv, NEW w \in Workers, Moves(w),
           QInv', processing' = processing
    PROVE  MutexInv'
<1>1. WorkersOK'
  BY DEF MutexInv, WorkersOK, Moves, WorkerStates, ApiCalls
<1>2. \A v \in Workers, k \in Keys : Holds(v, k)' <=> Holds(v, k)
  BY DEF MutexInv, WorkersOK, Moves, Holds
<1>3. QED
  BY <1>1, <1>2, SameHolders DEF MutexInv

(* A step that no worker takes. *)
LEMMA OthersMutexInv ==
    ASSUME MutexInv, UNCHANGED <<wpc, wkey>>, QInv', processing' = processing
    PROVE  MutexInv'
<1>1. WorkersOK'
  BY DEF MutexInv, WorkersOK
<1>2. \A v \in Workers, k \in Keys : Holds(v, k)' <=> Holds(v, k)
  BY DEF Holds
<1>3. QED
  BY <1>1, <1>2, SameHolders DEF MutexInv

LEMMA TakeItemMutexInv ==
    ASSUME MutexInv, NEW w \in Workers, TakeItem(w)
    PROVE  MutexInv'
<1>1. PICK k \in Keys : Get(k) /\ wkey' = [wkey EXCEPT ![w] = k]
  BY DEF TakeItem
<1>2. wpc[w] = "Get" /\ wpc' = [wpc EXCEPT ![w] = "Lookup"]
  BY DEF TakeItem, Goto
<1>3. /\ QInv' /\ k \notin processing
      /\ processing' = processing \cup {k}
  BY <1>1, GetQInv DEF MutexInv
<1>4. WorkersOK'
  BY <1>1, <1>2 DEF MutexInv, WorkersOK, WorkerStates, ApiCalls
<1>5. \A v \in Workers, l \in Keys :
        Holds(v, l)' <=> IF v = w THEN l = k ELSE Holds(v, l)
  BY <1>1, <1>2 DEF MutexInv, WorkersOK, Holds
<1>6. \A l \in Keys : ~Holds(w, l)
  BY <1>2 DEF Holds
<1>7. \A v \in Workers : ~Holds(v, k)
  BY <1>3 DEF MutexInv, ProcessingIsHeld
<1>8. ProcessingIsHeld'
  BY <1>3, <1>5, <1>6 DEF MutexInv, ProcessingIsHeld
<1>9. OneWorkerPerHabitat'
  BY <1>5, <1>7 DEF MutexInv, OneWorkerPerHabitat
<1>10. QED
  BY <1>3, <1>4, <1>8, <1>9 DEF MutexInv

LEMMA FinishItemMutexInv ==
    ASSUME MutexInv, NEW w \in Workers, FinishItem(w)
    PROVE  MutexInv'
<1>1. PICK k : k = wkey[w]
  OBVIOUS
<1>2. /\ wpc[w] = "Done" /\ wpc' = [wpc EXCEPT ![w] = "Get"]
      /\ Done(k) /\ wkey' = [wkey EXCEPT ![w] = None]
  BY <1>1 DEF FinishItem, Goto
<1>3. k \in Keys /\ Holds(w, k)
  BY <1>1, <1>2 DEF MutexInv, WorkersOK, Holds
<1>4. QInv' /\ processing' = processing \ {k}
  BY <1>2, <1>3, DoneQInv DEF MutexInv, ProcessingIsHeld
<1>5. WorkersOK'
  BY <1>2 DEF MutexInv, WorkersOK, WorkerStates
<1>6. \A v \in Workers, l \in Keys : Holds(v, l)' <=> v # w /\ Holds(v, l)
  BY <1>2 DEF MutexInv, WorkersOK, Holds
<1>7. \A v \in Workers : Holds(v, k) => v = w
  BY <1>3 DEF MutexInv, OneWorkerPerHabitat
<1>8. \A l \in Keys : Holds(w, l) => l = k
  BY <1>1 DEF Holds
<1>9. ProcessingIsHeld'
  BY <1>4, <1>6, <1>7, <1>8 DEF MutexInv, ProcessingIsHeld
<1>10. OneWorkerPerHabitat'
  BY <1>6 DEF MutexInv, OneWorkerPerHabitat
<1>11. QED
  BY <1>4, <1>5, <1>9, <1>10 DEF MutexInv

LEMMA CrashMutexInv ==
    ASSUME MutexInv, Crash
    PROVE  MutexInv'
<1>1. /\ queue' = <<>> /\ dirty' = {} /\ processing' = {}
      /\ waitingForAddCh' = <<>> /\ waitingEntries' = {}
      /\ shuttingDown' = shuttingDown
      /\ wpc' = [w \in Workers |-> "Get"] /\ wkey' = [w \in Workers |-> None]
  BY DEF Crash
<1>2. queue' \in Seq(Keys) /\ waitingForAddCh' \in Seq(Keys)
  BY <1>1
<1>3. 1..Len(queue') = {}
  BY <1>1
<1>4. QueueTypeOK'
  BY <1>1, <1>2 DEF MutexInv, QInv, QueueTypeOK
<1>5. QueuedOnce' /\ \A k \in Keys : ~InQueue(k)'
  BY <1>3 DEF QueuedOnce, InQueue
<1>6. QueuedIsDirtyAndIdle'
  BY <1>1, <1>5 DEF QueuedIsDirtyAndIdle
<1>7. WorkersOK'
  BY <1>1 DEF WorkersOK, WorkerStates
<1>8. \A w \in Workers, k \in Keys : ~Holds(w, k)'
  BY <1>1 DEF Holds
<1>9. ProcessingIsHeld' /\ OneWorkerPerHabitat'
  BY <1>1, <1>8 DEF ProcessingIsHeld, OneWorkerPerHabitat
<1>10. QED
  BY <1>4, <1>5, <1>6, <1>7, <1>9 DEF MutexInv, QInv

(* The steps of a worker between Get and Done: all but Requeue leave the   *)
(* queue alone.                                                            *)
LEMMA WorkerMutexInv ==
    ASSUME MutexInv, NEW w \in Workers, WorkerStep(w) \/ ApiCallFails(w)
    PROVE  MutexInv'
<1> USE DEF WorkerStates, ApiCalls
<1>1. CASE TakeItem(w)
  BY <1>1, TakeItemMutexInv
<1>2. CASE FinishItem(w)
  BY <1>2, FinishItemMutexInv
<1>3. CASE Requeue(w)
  <2>1. PICK k : k = wkey[w]
    OBVIOUS
  <2>2. k \in Keys /\ AddRateLimited(k)
    BY <1>3, <2>1 DEF Requeue, MutexInv, WorkersOK
  <2>3. QInv' /\ processing' = processing
    BY <2>2, AddRateLimitedQInv DEF MutexInv
  <2>4. Moves(w)
    BY <1>3 DEF Requeue, Goto, Moves
  <2>5. QED
    BY <2>3, <2>4, MovesMutexInv
<1>4. ASSUME Moves(w), UNCHANGED queueVars PROVE MutexInv'
  BY <1>4, MovesMutexInv, QueueStutter DEF MutexInv, queueVars
<1>5. CASE LookupHab(w)
  BY <1>4, <1>5 DEF LookupHab, Goto, Moves
<1>6. CASE GetSecrets(w)
  BY <1>4, <1>6 DEF GetSecrets, Goto, Moves
<1>7. CASE CreateSts(w)
  BY <1>4, <1>7 DEF CreateSts, Returns, Goto, Moves
<1>8. CASE GetSts(w)
  BY <1>4, <1>8 DEF GetSts, Goto, Moves
<1>9. CASE UpdateSts(w)
  BY <1>4, <1>9 DEF UpdateSts, Returns, Goto, Moves
<1>10. CASE DeleteStsPods(w)
  BY <1>4, <1>10 DEF DeleteStsPods, Goto, Moves
<1>11. CASE ListRunningPods(w)
  BY <1>4, <1>11 DEF ListRunningPods, Goto, Moves
<1>12. CASE CreateCM(w)
  BY <1>4, <1>12 DEF CreateCM, Returns, Goto, Moves
<1>13. CASE FindCM(w)
  BY <1>4, <1>13 DEF FindCM, Goto, Moves
<1>14. CASE WriteLeader(w)
  BY <1>4, <1>14 DEF WriteLeader, Moves
<1>15. CASE UpdateCM(w)
  BY <1>4, <1>15 DEF UpdateCM, Returns, Goto, Moves
<1>16. CASE ApiCallFails(w)
  BY <1>4, <1>16 DEF ApiCallFails, Goto, Moves
<1>17. QED
  BY <1>1, <1>2, <1>3, <1>5, <1>6, <1>7, <1>8, <1>9, <1>10, <1>11, <1>12,
     <1>13, <1>14, <1>15, <1>16 DEF WorkerStep

(* What the handlers do to the queue. *)
LEMMA EnqueueQInv ==
    ASSUME QInv, NEW k \in Keys,
           \/ UNCHANGED queueVars \/ Add(k)
           \/ enqueueOwner(k)
           \/ \E h : enqueue(k, h)
    PROVE  QInv' /\ processing' = processing
<1>1. UNCHANGED queueVars \/ Add(k)
  BY DEF enqueueOwner, enqueue
<1>2. CASE UNCHANGED queueVars
  BY <1>2, QueueStutter DEF queueVars
<1>3. CASE Add(k)
  BY <1>3, AddQInv
<1>4. QED
  BY <1>1, <1>2, <1>3

LEMMA InformerMutexInv ==
    ASSUME MutexInv, InformerStep
    PROVE  MutexInv'
<1> SUFFICES UNCHANGED <<wpc, wkey>> /\ QInv' /\ processing' = processing
  BY OthersMutexInv
<1> USE DEF MutexInv, workerVars
<1>1. ASSUME NEW k \in Keys, HabEvent(k)
      PROVE  UNCHANGED <<wpc, wkey>> /\ QInv' /\ processing' = processing
  <2>1. UNCHANGED queueVars \/ \E h : enqueue(k, h)
    BY <1>1 DEF HabEvent
  <2>2. QED
    BY <1>1, <2>1, EnqueueQInv DEF HabEvent
<1>2. ASSUME NEW k \in Keys, StsEvent(k) \/ StsStatusEvent(k)
      PROVE  UNCHANGED <<wpc, wkey>> /\ QInv' /\ processing' = processing
  BY <1>2, EnqueueQInv DEF StsEvent, StsStatusEvent
<1>3. ASSUME NEW n \in Namespaces, CMEvent(n) \/ CMResync(n)
      PROVE  UNCHANGED <<wpc, wkey>> /\ QInv' /\ processing' = processing
  BY <1>3, QueueStutter DEF CMEvent, CMResync, queueVars
<1>4. ASSUME NEW n \in Namespaces, NEW k \in Keys, CMEnqueues(n, k)
      PROVE  UNCHANGED <<wpc, wkey>> /\ QInv' /\ processing' = processing
  BY <1>4, AddQInv DEF CMEnqueues
<1>5. ASSUME NEW p \in Pods, PodEvent(p)
      PROVE  UNCHANGED <<wpc, wkey>> /\ QInv' /\ processing' = processing
  <2>1. PICK k \in Keys : k = p[1]
    BY DEF Pods
  <2>2. UNCHANGED queueVars \/ enqueueOwner(k)
    BY <1>5, <2>1 DEF PodEvent
  <2>3. QED
    BY <1>5, <2>2, EnqueueQInv DEF PodEvent
<1>6. ASSUME RelistHabs \/ RelistCMs \/ RelistPods \/ RelistSts
      PROVE  UNCHANGED <<wpc, wkey>> /\ QInv' /\ processing' = processing
  BY <1>6, QueueStutter DEF RelistHabs, RelistCMs, RelistPods, RelistSts, queueVars
<1>7. QED
  BY <1>1, <1>2, <1>3, <1>4, <1>5, <1>6 DEF InformerStep

LEMMA NextMutexInv == MutexInv /\ [Next]_vars => MutexInv'
<1> SUFFICES ASSUME MutexInv, [Next]_vars PROVE MutexInv'
  OBVIOUS
<1>1. ASSUME NEW w \in Workers, WorkerStep(w) \/ ApiCallFails(w)
      PROVE  MutexInv'
  BY <1>1, WorkerMutexInv
<1>2. CASE InformerStep
  BY <1>2, InformerMutexInv
<1>3. CASE WaitingLoopReceives
  BY <1>3, OthersMutexInv, ReceiveWaitingQInv
     DEF WaitingLoopReceives, workerVars, MutexInv
<1>4. ASSUME NEW k \in Keys, WaitingLoopFires(k) PROVE MutexInv'
  BY <1>4, OthersMutexInv, FireWaitingQInv
     DEF WaitingLoopFires, workerVars, MutexInv
<1>5. CASE ClusterStep \/ UNCHANGED vars
  <2>1. UNCHANGED queueVars /\ UNCHANGED <<wpc, wkey>>
    BY <1>5 DEF ClusterStep, ControllerStutters, vars, workerVars
  <2>2. QED
    BY <2>1, OthersMutexInv, QueueStutter DEF MutexInv, queueVars
<1>6. CASE Crash
  BY <1>6, CrashMutexInv
<1>7. QED
  BY <1>1, <1>2, <1>3, <1>4, <1>5, <1>6 DEF Next

THEOREM MutexInvariant == Spec => []MutexInv
BY InitMutexInv, NextMutexInv, PTL DEF Spec

(* Whatever the cluster does, however often the operator crashes: no two   *)
(* workers run conform for one Habitat at the same time.                   *)
THEOREM OneWorkerAtATime == Spec => []OneWorkerPerHabitat
<1>1. MutexInv => OneWorkerPerHabitat
  BY DEF MutexInv
<1>2. QED
  BY <1>1, MutexInvariant, PTL
-----------------------------------------------------------------------------
(* All that handlers, workers and loops do to the queue. *)
QueueStep ==
    \/ UNCHANGED queueVars
    \/ \E k \in Keys :
         \/ Add(k) \/ Get(k) \/ FireWaiting(k)
         \/ k \in processing /\ (Done(k) \/ AddRateLimited(k))
    \/ ReceiveWaiting

LEMMA EnqueueQueueStep ==
    ASSUME NEW k \in Keys,
           \/ UNCHANGED queueVars
           \/ enqueueOwner(k)
           \/ \E h : enqueue(k, h)
    PROVE  QueueStep
BY DEF QueueStep, enqueueOwner, enqueue

LEMMA NextQueueStep == MutexInv /\ [Next]_vars => QueueStep \/ Crash
<1> SUFFICES ASSUME MutexInv, [Next]_vars PROVE QueueStep \/ Crash
  OBVIOUS
<1>1. ASSUME NEW w \in Workers, WorkerStep(w) \/ ApiCallFails(w) PROVE QueueStep
  <2>1. CASE TakeItem(w)
    BY <2>1 DEF TakeItem, QueueStep
  <2>2. CASE FinishItem(w) \/ Requeue(w)
    <3>1. PICK k \in Keys : k = wkey[w] /\ k \in processing
      BY <2>2 DEF FinishItem, Requeue, MutexInv, WorkersOK, ProcessingIsHeld, Holds
    <3>2. Done(k) \/ AddRateLimited(k)
      BY <2>2, <3>1 DEF FinishItem, Requeue
    <3>3. QED
      BY <3>1, <3>2 DEF QueueStep
  <2>3. CASE ~(TakeItem(w) \/ FinishItem(w) \/ Requeue(w))
    <3>1. UNCHANGED queueVars
      BY <1>1, <2>3 DEF WorkerStep, ApiCallFails, LookupHab, GetSecrets, CreateSts, GetSts,
         UpdateSts, DeleteStsPods, ListRunningPods, CreateCM, FindCM, WriteLeader, UpdateCM
    <3>2. QED
      BY <3>1 DEF QueueStep
  <2>4. QED
    BY <2>1, <2>2, <2>3
<1>2. ASSUME NEW k \in Keys, HabEvent(k) \/ StsEvent(k) \/ StsStatusEvent(k) PROVE QueueStep
  <2>1. \/ UNCHANGED queueVars \/ enqueueOwner(k) \/ \E h : enqueue(k, h)
    BY <1>2 DEF HabEvent, StsEvent, StsStatusEvent
  <2>2. QED
    BY <2>1, EnqueueQueueStep
<1>3. ASSUME NEW p \in Pods, PodEvent(p) PROVE QueueStep
  <2>1. PICK k \in Keys : k = p[1]
    BY DEF Pods
  <2>2. UNCHANGED queueVars \/ enqueueOwner(k)
    BY <1>3, <2>1 DEF PodEvent
  <2>3. QED
    BY <2>2, EnqueueQueueStep
<1>4. ASSUME NEW n \in Namespaces, NEW k \in Keys, CMEnqueues(n, k) PROVE QueueStep
  BY <1>4 DEF CMEnqueues, QueueStep
<1>5. ASSUME \/ RelistHabs \/ RelistCMs \/ RelistPods \/ RelistSts
             \/ ClusterStep \/ UNCHANGED vars
             \/ \E n \in Namespaces : CMEvent(n) \/ CMResync(n)
      PROVE  QueueStep
  BY <1>5 DEF RelistHabs, RelistCMs, RelistPods, RelistSts, ClusterStep, ControllerStutters,
     vars, CMEvent, CMResync, QueueStep
<1>6. ASSUME WaitingLoopReceives \/ \E k \in Keys : WaitingLoopFires(k) PROVE QueueStep
  BY <1>6 DEF WaitingLoopReceives, WaitingLoopFires, QueueStep
<1>7. QED
  BY <1>1, <1>2, <1>3, <1>4, <1>5, <1>6 DEF Next, InformerStep

LEMMA CrashRefines == ~shuttingDown /\ Crash => (Work!Init)' /\ ~shuttingDown'
<1> SUFFICES ASSUME ~shuttingDown, Crash PROVE (Work!Init)' /\ ~shuttingDown'
  OBVIOUS
<1>1. /\ dirty' = {} /\ processing' = {} /\ waitingForAddCh' = <<>>
      /\ waitingEntries' = {} /\ shuttingDown' = shuttingDown
  BY DEF Crash
<1>2. 1..Len(waitingForAddCh') = {}
  BY <1>1
<1>3. Delayed' = {}
  BY <1>1, <1>2 DEF Delayed, InChannel
<1>4. QED
  BY <1>1, <1>3 DEF Work!Init

(* The controller implements PendingWork from one crash to the next: no    *)
(* handler, worker or loop loses a mark, hands a key out twice or drops a  *)
(* retry, whatever the informers deliver and the API calls return.         *)
THEOREM ImplementsPendingWork == Spec => Promise
<1>1. Init => Work!Init /\ ~shuttingDown
  BY QueueInitRefines DEF Init, QueueInit
<1>2. MutexInv /\ ~shuttingDown /\ [Next]_vars => ~shuttingDown'
  <2>1. QueueStep => shuttingDown' = shuttingDown
    BY DEF QueueStep, queueVars, Add, AddKey, Get, FireWaiting, Done, AddRateLimited,
       ReceiveWaiting
  <2>2. QED
    BY <2>1, NextQueueStep, CrashRefines
<1>3. MutexInv /\ ~shuttingDown /\ [Next]_vars
        => [Work!Next \/ (Crash /\ (Work!Init)')]_(Work!vars)
  <2>1. MutexInv /\ QueueStep => Work!Next \/ UNCHANGED Work!vars
    BY SameQueueRefines, AddRefines, GetRefines, FireWaitingRefines, DoneRefines,
       AddRateLimitedRefines, ReceiveWaitingRefines DEF QueueStep, MutexInv
  <2>2. QED
    BY <2>1, NextQueueStep, CrashRefines
<1>4. QED
  BY <1>1, <1>2, <1>3, MutexInvariant, PTL DEF Spec, Promise

-----------------------------------------------------------------------------
(* Type correctness: every field the code reads of a Habitat, a StatefulSet *)
(* or a ConfigMap belongs to an object that exists.  First the cluster's    *)
(* actions, of Cluster.                                                     *)

HabOrNone == Habs \cup {None}
StsOrNone == StatefulSets \cup {None}
PodOrNone == PodObjects \cup {None}
CMOrNone == ConfigMaps \cup {None}
Phases == {"None", "Pending", "Running"}

LEMMA AppendType ==
    ASSUME NEW D, NEW T, NEW f \in [D -> Seq(T)], NEW d \in D, NEW t \in T
    PROVE  [f EXCEPT ![d] = Append(@, t)] \in [D -> Seq(T)]
<1>1. f[d] \in Seq(T)
  OBVIOUS
<1>2. Append(f[d], t) \in Seq(T)
  BY <1>1
<1>3. QED
  BY <1>2

LEMMA SpendType ==
    ASSUME NEW kind \in Kinds, budget \in [Kinds -> Nat], Spend(kind)
    PROVE  budget' \in [Kinds -> Nat]
<1>1. budget[kind] - 1 \in Nat
  BY DEF Spend
<1>2. QED
  BY <1>1 DEF Spend

LEMMA StoreHabType ==
    ASSUME ClusterTypeOK, NEW k \in Keys, NEW h \in HabOrNone, StoreHab(k, h)
    PROVE  /\ hab' \in [Keys -> HabOrNone]
           /\ habWatch' \in [Keys -> Seq(HabOrNone)]
<1>1. hab \in [Keys -> HabOrNone] /\ habWatch \in [Keys -> Seq(HabOrNone)]
  BY DEF ClusterTypeOK, HabOrNone
<1>2. hab' \in [Keys -> HabOrNone]
  BY <1>1 DEF StoreHab
<1>3. habWatch' \in [Keys -> Seq(HabOrNone)]
  BY <1>1, AppendType DEF StoreHab
<1>4. QED
  BY <1>2, <1>3

LEMMA StoreCMType ==
    ASSUME ClusterTypeOK, NEW n \in Namespaces, NEW c \in CMOrNone,
           StoreCM(n, c)
    PROVE  /\ cm' \in [Namespaces -> CMOrNone]
           /\ cmWatch' \in [Namespaces -> Seq(CMOrNone)]
<1>1. cm \in [Namespaces -> CMOrNone] /\ cmWatch \in [Namespaces -> Seq(CMOrNone)]
  BY DEF ClusterTypeOK, CMOrNone
<1>2. cm' \in [Namespaces -> CMOrNone]
  BY <1>1 DEF StoreCM
<1>3. cmWatch' \in [Namespaces -> Seq(CMOrNone)]
  BY <1>1, AppendType DEF StoreCM
<1>4. QED
  BY <1>2, <1>3

LEMMA StoreStsType ==
    ASSUME ClusterTypeOK, NEW k \in Keys, NEW s \in StsOrNone, StoreSts(k, s)
    PROVE  /\ sts' \in [Keys -> StsOrNone]
           /\ stsWatch' \in [Keys -> BOOLEAN]
<1>1. sts \in [Keys -> StsOrNone] /\ stsWatch \in [Keys -> BOOLEAN]
  BY DEF ClusterTypeOK, StsOrNone
<1>2. sts' \in [Keys -> StsOrNone]
  BY <1>1 DEF StoreSts
<1>3. (stsWatch[k] \/ s # sts[k]) \in BOOLEAN
  BY <1>1
<1>4. stsWatch' \in [Keys -> BOOLEAN]
  BY <1>1, <1>3 DEF StoreSts
<1>5. QED
  BY <1>2, <1>4

LEMMA DeletePodsType ==
    ASSUME ClusterTypeOK, NEW gone, DeletePods(gone),
           \A p \in gone : p \in Pods /\ pod[p] # None
    PROVE  /\ pod' \in [Pods -> PodOrNone]
           /\ podWatch' \in [Pods -> Seq(Phases)]
<1>1. pod \in [Pods -> PodOrNone] /\ podWatch \in [Pods -> Seq(Phases)]
  BY DEF ClusterTypeOK, PodOrNone, Phases
<1>2. ASSUME NEW p \in gone PROVE [pod[p] EXCEPT !.terminating = TRUE] \in PodObjects
  <2>1. pod[p] \in PodObjects
    BY <1>1, <1>2 DEF PodOrNone
  <2>2. QED
    BY <2>1 DEF PodObjects
<1>3. pod' \in [Pods -> PodOrNone]
  BY <1>1, <1>2 DEF DeletePods, PodOrNone
<1>4. \A p \in Pods : Append(podWatch[p], "None") \in Seq(Phases)
  <2>1. ASSUME NEW p \in Pods PROVE Append(podWatch[p], "None") \in Seq(Phases)
    <3>1. podWatch[p] \in Seq(Phases) /\ "None" \in Phases
      BY <1>1, <2>1 DEF Phases
    <3>2. QED
      BY <3>1
  <2>2. QED
    BY <2>1
<1>5. podWatch' \in [Pods -> Seq(Phases)]
  BY <1>1, <1>4 DEF DeletePods
<1>6. QED
  BY <1>3, <1>5

LEMMA PodsOfExist == \A k : \A p \in PodsOf(k) : p \in Pods /\ pod[p] # None
BY DEF PodsOf

LEMMA RemoveStsType ==
    ASSUME ClusterTypeOK, NEW k \in Keys, RemoveSts(k)
    PROVE  /\ sts' \in [Keys -> StsOrNone]
           /\ stsWatch' \in [Keys -> BOOLEAN]
           /\ pod' \in [Pods -> PodOrNone]
           /\ podWatch' \in [Pods -> Seq(Phases)]
<1>1. None \in StsOrNone
  BY DEF StsOrNone
<1>2. QED
  BY <1>1, StoreStsType, DeletePodsType, PodsOfExist DEF RemoveSts

(* Records that the actions build. *)
LEMMA SpecFields ==
    ASSUME NEW s \in Specs
    PROVE  /\ s.valid \in BOOLEAN /\ s.needsSecret \in BOOLEAN
           /\ s.template \in Templates /\ s.storage \in Storages
           /\ s.count \in 0..MaxCount
BY ClusterAssumption DEF ClusterAssumption

LEMMA UserStepTypeOK ==
    ASSUME ClusterTypeOK, UserStep
    PROVE  ClusterTypeOK'
<1> USE DEF HabOrNone, StsOrNone, PodOrNone, CMOrNone, Phases, watchVars
<1>1. ASSUME NEW k \in Keys, CreateHab(k) PROVE ClusterTypeOK'
  <2>1. PICK s \in Specs : StoreHab(k, [uid |-> habGen[k] + 1, gen |-> habGen[k] + 1,
                                        spec |-> s, custom |-> TRUE])
    BY <1>1 DEF CreateHab
  <2>2. habGen[k] + 1 \in Nat /\ habGen' \in [Keys -> Nat]
    BY <1>1 DEF CreateHab, ClusterTypeOK
  <2>3. [uid |-> habGen[k] + 1, gen |-> habGen[k] + 1, spec |-> s, custom |-> TRUE]
          \in HabOrNone
    BY <2>2 DEF Habs
  <2>4. budget' \in [Kinds -> Nat]
    BY <1>1, SpendType DEF CreateHab, ClusterTypeOK, Kinds
  <2>5. QED
    BY <1>1, <2>1, <2>2, <2>3, <2>4, StoreHabType DEF CreateHab, ClusterTypeOK
<1>2. ASSUME NEW k \in Keys, EditHab(k) PROVE ClusterTypeOK'
  <2>0. hab[k] # None /\ habGen' = [habGen EXCEPT ![k] = @ + 1]
    BY <1>2, Zenon DEF EditHab
  <2>1. hab[k] \in Habs /\ habGen[k] + 1 \in Nat /\ habGen' \in [Keys -> Nat]
    BY <2>0 DEF ClusterTypeOK
  <2>2. PICK h \in HabOrNone : StoreHab(k, h)
    <3>1. \A s \in Specs : [hab[k] EXCEPT !.spec = s, !.gen = habGen[k] + 1] \in Habs
      BY <2>1 DEF Habs
    <3>2. [hab[k] EXCEPT !.custom = ~@, !.gen = habGen[k] + 1] \in Habs
      BY <2>1 DEF Habs
    <3>3. QED
      BY <1>2, <3>1, <3>2 DEF EditHab
  <2>3. budget' \in [Kinds -> Nat]
    BY <1>2, SpendType DEF EditHab, ClusterTypeOK, Kinds
  <2>4. QED
    BY <1>2, <2>1, <2>2, <2>3, StoreHabType DEF EditHab, ClusterTypeOK
<1>3. ASSUME NEW k \in Keys, DeleteHab(k) PROVE ClusterTypeOK'
  <2>1. budget' \in [Kinds -> Nat]
    BY <1>3, SpendType DEF DeleteHab, ClusterTypeOK, Kinds
  <2>2. QED
    BY <1>3, <2>1, StoreHabType DEF DeleteHab, ClusterTypeOK
<1>4. ASSUME NEW k \in Keys, ToggleSecret(k) PROVE ClusterTypeOK'
  <2>1. budget' \in [Kinds -> Nat]
    BY <1>4, SpendType DEF ToggleSecret, ClusterTypeOK, Kinds
  <2>2. QED
    BY <1>4, <2>1 DEF ToggleSecret, ClusterTypeOK
<1>5. ASSUME NEW k \in Keys, TamperSts(k) PROVE ClusterTypeOK'
  <2>1. budget' \in [Kinds -> Nat]
    BY <1>5, SpendType DEF TamperSts, ClusterTypeOK, Kinds
  <2>2. sts[k] \in StatefulSets
    BY <1>5 DEF TamperSts, ClusterTypeOK
  <2>3. CASE RemoveSts(k)
    BY <1>5, <2>1, <2>3, RemoveStsType DEF TamperSts, ClusterTypeOK
  <2>4. CASE (\E s \in StatefulSets : StoreSts(k, s)) /\ UNCHANGED <<pod, podWatch>>
    BY <1>5, <2>1, <2>4, StoreStsType DEF TamperSts, ClusterTypeOK
  <2>5. \A t \in Templates : [sts[k] EXCEPT !.template = t] \in StatefulSets
    BY <2>2 DEF StatefulSets
  <2>6. \A s \in Specs : [sts[k] EXCEPT !.count = s.count] \in StatefulSets
    BY <2>2, SpecFields DEF StatefulSets
  <2>7. QED
    BY <1>5, <2>3, <2>4, <2>5, <2>6 DEF TamperSts
<1>6. ASSUME NEW p \in Pods, KillPod(p) PROVE ClusterTypeOK'
  <2>1. budget' \in [Kinds -> Nat]
    BY <1>6, SpendType DEF KillPod, ClusterTypeOK, Kinds
  <2>2. \A q \in {p} : q \in Pods /\ pod[q] # None
    BY <1>6 DEF KillPod
  <2>3. pod' \in [Pods -> PodOrNone] /\ podWatch' \in [Pods -> Seq(Phases)]
    BY <1>6, <2>2, DeletePodsType DEF KillPod
  <2>4. QED
    BY <1>6, <2>1, <2>3 DEF KillPod, ClusterTypeOK
<1>7. QED
  BY <1>1, <1>2, <1>3, <1>4, <1>5, <1>6 DEF UserStep

LEMMA PodStepTypeOK ==
    ASSUME ClusterTypeOK, NEW p \in Pods, PodStep(p)
    PROVE  ClusterTypeOK'
<1> USE DEF HabOrNone, StsOrNone, PodOrNone, CMOrNone, Phases, watchVars
<1>1. /\ pod \in [Pods -> PodOrNone] /\ podWatch \in [Pods -> Seq(Phases)]
      /\ podGen \in [Pods -> Nat] /\ sts \in [Keys -> StsOrNone] /\ p[1] \in Keys
  BY DEF ClusterTypeOK, Pods
<1>2. CASE StartPod(p)
  <2>1. sts[p[1]] \in StatefulSets
    BY <1>1, <1>2 DEF StartPod
  <2>2. [phase |-> "Pending", terminating |-> FALSE,
         template |-> sts[p[1]].template, ip |-> NoIP] \in PodObjects
    BY <2>1 DEF PodObjects, StatefulSets
  <2>3. pod' \in [Pods -> PodOrNone]
    BY <1>1, <1>2, <2>2 DEF StartPod
  <2>4. podWatch' \in [Pods -> Seq(Phases)]
    BY <1>1, <1>2, AppendType DEF StartPod
  <2>5. QED
    BY <1>2, <2>3, <2>4 DEF StartPod, ClusterTypeOK
<1>3. CASE ScaleDown(p)
  <2>1. \A q \in {p} : q \in Pods /\ pod[q] # None
    BY <1>3 DEF ScaleDown
  <2>2. pod' \in [Pods -> PodOrNone] /\ podWatch' \in [Pods -> Seq(Phases)]
    BY <1>3, <2>1, DeletePodsType DEF ScaleDown
  <2>3. QED
    BY <1>3, <2>2 DEF ScaleDown, ClusterTypeOK
<1>4. CASE PodRuns(p)
  <2>1. pod[p] \in PodObjects /\ podGen[p] + 1 \in Nat \ {0}
    BY <1>1, <1>4 DEF PodRuns
  <2>2. <<p, podGen[p] + 1>> \in PodIPs
    BY <2>1 DEF PodIPs
  <2>3. [pod[p] EXCEPT !.phase = "Running", !.ip = <<p, podGen[p] + 1>>] \in PodObjects
    BY <2>1, <2>2 DEF PodObjects
  <2>4. pod' \in [Pods -> PodOrNone]
    BY <1>1, <1>4, <2>3 DEF PodRuns
  <2>5. podWatch' \in [Pods -> Seq(Phases)]
    BY <1>1, <1>4, AppendType DEF PodRuns
  <2>6. podGen' \in [Pods -> Nat]
    BY <1>1, <1>4 DEF PodRuns
  <2>7. QED
    BY <1>4, <2>4, <2>5, <2>6 DEF PodRuns, ClusterTypeOK
<1>5. CASE PodGone(p)
  <2>1. pod' \in [Pods -> PodOrNone]
    BY <1>1, <1>5 DEF PodGone
  <2>2. podWatch' \in [Pods -> Seq(Phases)]
    BY <1>1, <1>5, AppendType DEF PodGone
  <2>3. QED
    BY <1>5, <2>1, <2>2 DEF PodGone, ClusterTypeOK
<1>6. QED
  BY <1>2, <1>3, <1>4, <1>5 DEF PodStep

LEMMA CollectTypeOK ==
    ASSUME ClusterTypeOK,
           \/ \E k \in Keys : CollectSts(k)
           \/ \E n \in Namespaces : CollectCM(n)
    PROVE  ClusterTypeOK'
<1> USE DEF HabOrNone, StsOrNone, PodOrNone, CMOrNone, Phases
<1>1. ASSUME NEW k, MayCollect(k) PROVE budget' \in [Kinds -> Nat]
  BY <1>1, SpendType DEF MayCollect, ClusterTypeOK, Kinds
<1>2. ASSUME NEW k \in Keys, CollectSts(k) PROVE ClusterTypeOK'
  BY <1>1, <1>2, RemoveStsType DEF CollectSts, ClusterTypeOK
<1>3. ASSUME NEW n \in Namespaces, CollectCM(n) PROVE ClusterTypeOK'
  BY <1>1, <1>3, StoreCMType DEF CollectCM, ClusterTypeOK
<1>4. QED
  BY <1>2, <1>3

-----------------------------------------------------------------------------
(* The controller's.                                                       *)

(* conform uses its Habitat from the validation on, until the ConfigMap    *)
(* turns out to exist, and the cached ConfigMap from then on.              *)
UsesHab == {"Build", "CreateSts", "GetSts", "UpdateSts", "DeletePods",
            "ListPods", "CreateCM"}
UsesCM == {"WriteLeader", "UpdateCM"}

JobOK ==
    \A w \in Workers : /\ wpc[w] \in UsesHab => job[w].hab # None
                       /\ wpc[w] \in UsesCM => job[w].cm # None

InformersOK ==
    /\ habCache \in [Keys -> HabOrNone]
    /\ cmCache \in [Namespaces -> CMOrNone]
    /\ cmCopy \in [Namespaces -> Nat]
    /\ podCache \in [Pods -> Phases]
    /\ cmTodo \in [Namespaces -> SUBSET Keys]
    /\ unsynced \subseteq Keys \cup Namespaces

JobsOK == job \in [Workers -> Jobs] /\ JobOK

TypeInv ==
    /\ MutexInv
    /\ ClusterTypeOK
    /\ InformersOK
    /\ JobsOK
    /\ appliedGen \in [Keys -> Nat]

LEMMA TypeInvTypeOK == TypeInv => TypeOK
BY DEF TypeInv, TypeOK, MutexInv, QInv, WorkersOK, InformersOK, JobsOK,
       HabOrNone, CMOrNone, Phases

LEMMA NoJobOK == NoJob \in Jobs
BY DEF NoJob, Jobs

LEMMA NewStsType == \A h \in Habs : newStatefulSet(h) \in StatefulSets
<1> SUFFICES ASSUME NEW h \in Habs PROVE newStatefulSet(h) \in StatefulSets
  OBVIOUS
<1>1. h.uid \in Nat /\ h.spec \in Specs
  BY DEF Habs
<1>2. QED
  BY <1>1, SpecFields DEF newStatefulSet, StatefulSets

LEMMA RunningIPsType ==
    ASSUME ClusterTypeOK, NEW n PROVE RunningIPs(n) \subseteq PodIPs \cup {NoIP}
BY DEF ClusterTypeOK, RunningIPs, RunningPods, PodObjects

(* A step of one worker that gives it the locals j. *)
LEMMA GotoJobsOK ==
    ASSUME MutexInv, JobsOK, NEW w \in Workers, NEW step, NEW j \in Jobs,
           Goto(w, step, j),
           step \in UsesHab => j.hab # None,
           step \in UsesCM => j.cm # None
    PROVE  JobsOK'
<1>1. wpc \in [Workers -> WorkerStates] /\ job \in [Workers -> Jobs]
  BY DEF MutexInv, WorkersOK, JobsOK
<1>2. PICK l \in Jobs : /\ job' = [job EXCEPT ![w] = l]
                        /\ step \in UsesHab => l.hab # None
                        /\ step \in UsesCM => l.cm # None
  <2>1. CASE step \in {"Requeue", "Done"}
    BY <2>1, NoJobOK DEF Goto, UsesHab, UsesCM
  <2>2. CASE step \notin {"Requeue", "Done"}
    BY <2>2 DEF Goto
  <2>3. QED
    BY <2>1, <2>2
<1>3. job' \in [Workers -> Jobs]
  BY <1>1, <1>2
<1>4. wpc' = [wpc EXCEPT ![w] = step]
  BY DEF Goto
<1>5. \A v \in Workers : /\ wpc'[v] = IF v = w THEN step ELSE wpc[v]
                         /\ job'[v] = IF v = w THEN l ELSE job[v]
  BY <1>1, <1>2, <1>4
<1>6. JobOK'
  BY <1>2, <1>5 DEF JobOK, JobsOK
<1>7. QED
  BY <1>3, <1>6 DEF JobsOK

LEMMA ReturnsJobsOK ==
    ASSUME MutexInv, JobsOK, NEW w \in Workers, NEW step, NEW j \in Jobs,
           Returns(w, step, j),
           step \in UsesHab => j.hab # None,
           step \in UsesCM => j.cm # None
    PROVE  JobsOK'
<1>1. "Requeue" \notin UsesHab \cup UsesCM
  BY DEF UsesHab, UsesCM
<1>2. QED
  BY <1>1, GotoJobsOK DEF Returns

LEMMA ReturnsBudget ==
    ASSUME ClusterTypeOK, NEW w, NEW step, NEW j, Returns(w, step, j)
    PROVE  budget' \in [Kinds -> Nat]
BY SpendType DEF Returns, ClusterTypeOK, Kinds

-----------------------------------------------------------------------------
(* The rest of TypeInv: NextMutexInv is about MutexInv.                    *)
DataOK ==
    /\ ClusterTypeOK
    /\ InformersOK
    /\ JobsOK
    /\ appliedGen \in [Keys -> Nat]

LEMMA ClusterSame ==
    ASSUME ClusterTypeOK, UNCHANGED <<objectVars, watchVars>>,
           budget' \in [Kinds -> Nat]
    PROVE  ClusterTypeOK'
BY DEF ClusterTypeOK, objectVars, watchVars

LEMMA InformersSame == InformersOK /\ UNCHANGED informerVars => InformersOK'
BY DEF InformersOK, informerVars

LEMMA JobsSame == JobsOK /\ UNCHANGED workerVars => JobsOK'
BY DEF JobsOK, JobOK, workerVars

(* A step that only moves worker w. *)
LEMMA LocalDataOK ==
    ASSUME MutexInv, DataOK, UNCHANGED <<clusterVars, informerVars, appliedGen>>,
           NEW w \in Workers, NEW step, NEW j \in Jobs, Goto(w, step, j),
           step \in UsesHab => j.hab # None,
           step \in UsesCM => j.cm # None
    PROVE  DataOK'
<1>1. JobsOK'
  BY GotoJobsOK DEF DataOK
<1>2. ClusterTypeOK'
  BY ClusterSame DEF DataOK, clusterVars, ClusterTypeOK
<1>3. QED
  BY <1>1, <1>2, InformersSame DEF DataOK

LEMMA QuietStepsDataOK ==
    ASSUME TypeInv, NEW w \in Workers,
           \/ TakeItem(w) \/ LookupHab(w) \/ GetSecrets(w) \/ GetSts(w)
           \/ ListRunningPods(w) \/ FindCM(w) \/ Requeue(w) \/ FinishItem(w)
    PROVE  DataOK'
<1> USE DEF UsesHab, UsesCM
<1>1. MutexInv /\ DataOK /\ job[w] \in Jobs /\ NoJob \in Jobs
  BY NoJobOK DEF TypeInv, DataOK, JobsOK
<1>2. /\ wpc[w] \in UsesHab => job[w].hab # None
      /\ wpc[w] # "Get" => wkey[w] \in Keys
  BY <1>1 DEF DataOK, JobsOK, JobOK, MutexInv, WorkersOK
<1>3. CASE TakeItem(w)
  BY <1>1, <1>3, LocalDataOK DEF TakeItem
<1>4. CASE Requeue(w)
  BY <1>1, <1>4, LocalDataOK DEF Requeue
<1>5. CASE FinishItem(w)
  BY <1>1, <1>5, LocalDataOK DEF FinishItem
<1>6. CASE GetSecrets(w)
  <2>1. job[w].hab # None
    BY <1>2, <1>6 DEF GetSecrets
  <2>2. QED
    BY <1>1, <1>6, <2>1, LocalDataOK DEF GetSecrets
<1>7. CASE LookupHab(w)
  <2>1. PICK h : h = habCache[wkey[w]]
    OBVIOUS
  <2>2. h \in HabOrNone
    BY <1>1, <1>2, <1>7, <2>1 DEF DataOK, InformersOK, LookupHab
  <2>3. [NoJob EXCEPT !.hab = h] \in Jobs /\ [NoJob EXCEPT !.hab = h].hab = h
    BY <2>2 DEF NoJob, Jobs, HabOrNone
  <2>4. PICK step : /\ Goto(w, step, [NoJob EXCEPT !.hab = h])
                    /\ h = None => step = "Done"
                    /\ step \notin UsesCM
    <3>1. Goto(w, IF h = None THEN "Done"
                  ELSE IF ~h.spec.valid THEN "Requeue"
                  ELSE IF h.spec.needsSecret THEN "Build"
                  ELSE "CreateSts", [NoJob EXCEPT !.hab = h])
      BY <1>7, <2>1, Zenon DEF LookupHab
    <3>2. QED
      BY <3>1
  <2>5. QED
    BY <1>1, <1>7, <2>3, <2>4, LocalDataOK DEF LookupHab
<1>8. CASE GetSts(w)
  <2>1. PICK s : s = sts[wkey[w]]
    OBVIOUS
  <2>2. s \in StatefulSets \cup {None}
    BY <1>1, <1>2, <1>8, <2>1 DEF DataOK, ClusterTypeOK, GetSts
  <2>3. CASE s = None
    BY <1>1, <1>8, <2>1, <2>3, LocalDataOK DEF GetSts
  <2>4. CASE s # None
    <3>1. PICK j : j = [job[w] EXCEPT !.template = s.template]
      OBVIOUS
    <3>2. j \in Jobs /\ j.hab = job[w].hab
      BY <1>1, <2>2, <2>4, <3>1 DEF Jobs, StatefulSets
    <3>3. Goto(w, "UpdateSts", j) /\ j.hab # None
      BY <1>2, <1>8, <2>1, <2>4, <3>1, <3>2 DEF GetSts
    <3>4. QED
      BY <1>1, <1>8, <3>2, <3>3, LocalDataOK DEF GetSts
  <2>5. QED
    BY <2>3, <2>4
<1>9. CASE ListRunningPods(w)
  <2>1. PICK running, leader :
          /\ running = RunningIPs(NsOf[wkey[w]])
          /\ leader \in (IF running = {} THEN {NoIP} ELSE running)
          /\ Goto(w, "CreateCM", [job[w] EXCEPT !.running = running,
                                                !.leader = leader])
    BY <1>9 DEF ListRunningPods, getRunningPods
  <2>2. running \subseteq PodIPs \cup {NoIP} /\ leader \in PodIPs \cup {NoIP}
    BY <1>1, <2>1, RunningIPsType DEF DataOK
  <2>3. PICK j : j = [job[w] EXCEPT !.running = running, !.leader = leader]
    OBVIOUS
  <2>4. j \in Jobs /\ j.hab = job[w].hab
    BY <1>1, <2>2, <2>3 DEF Jobs
  <2>5. Goto(w, "CreateCM", j) /\ j.hab # None
    BY <1>2, <1>9, <2>1, <2>3, <2>4 DEF ListRunningPods
  <2>6. QED
    BY <1>1, <1>9, <2>4, <2>5, LocalDataOK DEF ListRunningPods
<1>10. CASE FindCM(w)
  <2>1. PICK c : c = cmCache[NsOf[wkey[w]]]
    OBVIOUS
  <2>2. c \in CMOrNone
    BY <1>1, <1>2, <1>10, <2>1, ClusterAssumption
       DEF DataOK, InformersOK, FindCM, ClusterAssumption
  <2>3. PICK j : j = [NoJob EXCEPT !.leader = job[w].leader, !.cm = c,
                                   !.copy = cmCopy[NsOf[wkey[w]]]]
    OBVIOUS
  <2>4. j \in Jobs /\ j.cm = c
    <3>1. cmCopy[NsOf[wkey[w]]] \in Nat
      BY <1>1, <1>2, <1>10, ClusterAssumption
         DEF DataOK, InformersOK, FindCM, ClusterAssumption
    <3>2. QED
      BY <1>1, <2>2, <2>3, <3>1 DEF NoJob, Jobs, CMOrNone
  <2>5. PICK step : Goto(w, step, j) /\ (c = None => step = "Requeue")
                    /\ step \in {"Requeue", "Done", "WriteLeader"}
    <3>1. Goto(w, IF c = None THEN "Requeue"
                  ELSE IF leaderRuns(c, job[w].running) THEN "Done"
                  ELSE "WriteLeader", j)
      BY <1>10, <2>1, <2>3, Zenon DEF FindCM
    <3>2. QED
      BY <3>1
  <2>6. QED
    BY <1>1, <1>10, <2>4, <2>5, LocalDataOK DEF FindCM
<1>11. QED
  BY <1>3, <1>4, <1>5, <1>6, <1>7, <1>8, <1>9, <1>10

LEMMA WriteStsType ==
    ASSUME TypeInv, NEW w \in Workers, wpc[w] \in {"CreateSts", "UpdateSts"},
           WriteSts(w)
    PROVE  /\ sts' \in [Keys -> StsOrNone]
           /\ stsWatch' \in [Keys -> BOOLEAN]
           /\ appliedGen' \in [Keys -> Nat]
<1>1. PICK k : k = wkey[w]
  OBVIOUS
<1>2. PICK h : h = job[w].hab
  OBVIOUS
<1>3. k \in Keys
  BY <1>1 DEF TypeInv, MutexInv, WorkersOK
<1>4. h \in Habs
  BY <1>2 DEF TypeInv, JobsOK, JobOK, Jobs, UsesHab
<1>5. newStatefulSet(h) \in StsOrNone
  BY <1>4, NewStsType DEF StsOrNone
<1>6. StoreSts(k, newStatefulSet(h)) /\ appliedGen' = [appliedGen EXCEPT ![k] = h.gen]
  BY <1>1, <1>2 DEF WriteSts
<1>7. h.gen \in Nat
  BY <1>4 DEF Habs
<1>8. ClusterTypeOK
  BY DEF TypeInv
<1>9. QED
  BY <1>3, <1>5, <1>6, <1>7, <1>8, StoreStsType DEF TypeInv

LEMMA StsStepsDataOK ==
    ASSUME TypeInv, NEW w \in Workers, CreateSts(w) \/ UpdateSts(w)
    PROVE  DataOK'
<1> USE DEF UsesHab, UsesCM
<1>1. /\ MutexInv /\ JobsOK /\ ClusterTypeOK /\ InformersOK
      /\ job[w] \in Jobs /\ NoJob \in Jobs
  BY NoJobOK DEF TypeInv, JobsOK
<1>2. wpc[w] \in {"CreateSts", "UpdateSts"} /\ job[w].hab # None
  BY <1>1 DEF CreateSts, UpdateSts, JobsOK, JobOK
<1>3. /\ sts' \in [Keys -> StsOrNone]
      /\ stsWatch' \in [Keys -> BOOLEAN]
      /\ appliedGen' \in [Keys -> Nat]
  <2>1. WriteSts(w) \/ UNCHANGED <<sts, stsWatch, appliedGen>>
    BY DEF CreateSts, UpdateSts
  <2>2. QED
    BY <1>2, <2>1, WriteStsType DEF TypeInv, ClusterTypeOK, StsOrNone
<1>4. PICK j : j = [job[w] EXCEPT !.template = None]
  OBVIOUS
<1>5. j \in Jobs /\ j.hab = job[w].hab
  BY <1>1, <1>4 DEF Jobs
<1>6. JobsOK' /\ budget' \in [Kinds -> Nat]
  <2>1. CASE CreateSts(w)
    <3>1. \/ Returns(w, "ListPods", job[w])
          \/ Goto(w, "GetSts", job[w]) /\ UNCHANGED budget
      BY <2>1 DEF CreateSts
    <3>2. QED
      BY <1>1, <1>2, <3>1, GotoJobsOK, ReturnsJobsOK, ReturnsBudget
         DEF ClusterTypeOK
  <2>2. CASE UpdateSts(w)
    <3>1. \/ Returns(w, "DeletePods", j) \/ Returns(w, "ListPods", j)
          \/ Goto(w, "Requeue", NoJob) /\ UNCHANGED budget
      BY <1>4, <2>2 DEF UpdateSts
    <3>2. QED
      BY <1>1, <1>2, <1>5, <3>1, GotoJobsOK, ReturnsJobsOK, ReturnsBudget
         DEF ClusterTypeOK
  <2>3. QED
    BY <2>1, <2>2
<1>7. UNCHANGED <<hab, habGen, pod, podGen, cm, cmGen, secrets,
                  habWatch, cmWatch, podWatch, informerVars>>
  BY DEF CreateSts, UpdateSts
<1>8. QED
  BY <1>1, <1>3, <1>6, <1>7, InformersSame DEF DataOK, ClusterTypeOK, StsOrNone

LEMMA DeleteStsPodsDataOK ==
    ASSUME TypeInv, NEW w \in Workers, DeleteStsPods(w)
    PROVE  DataOK'
<1>1. /\ MutexInv /\ JobsOK /\ ClusterTypeOK /\ InformersOK
      /\ job[w] \in Jobs /\ NoJob \in Jobs
  BY NoJobOK DEF TypeInv, JobsOK
<1>2. wpc[w] = "DeletePods" /\ job[w].hab # None
  BY <1>1 DEF DeleteStsPods, JobsOK, JobOK, UsesHab
<1>3. PICK gone : gone \subseteq PodsOf(wkey[w]) /\ DeletePods(gone)
  BY DEF DeleteStsPods
<1>4. pod' \in [Pods -> PodOrNone] /\ podWatch' \in [Pods -> Seq(Phases)]
  BY <1>1, <1>3, PodsOfExist, DeletePodsType
<1>5. budget' \in [Kinds -> Nat]
  BY <1>1, SpendType DEF DeleteStsPods, ClusterTypeOK, Kinds
<1>6. JobsOK'
  <2>1. Goto(w, "ListPods", job[w]) \/ Goto(w, "Requeue", NoJob)
    BY DEF DeleteStsPods
  <2>2. QED
    BY <1>1, <1>2, <2>1, GotoJobsOK DEF UsesHab, UsesCM
<1>7. UNCHANGED <<hab, habGen, sts, podGen, cm, cmGen, secrets, habWatch,
                  cmWatch, stsWatch, informerVars, appliedGen>>
  BY DEF DeleteStsPods
<1>8. QED
  BY <1>1, <1>4, <1>5, <1>6, <1>7, InformersSame
     DEF DataOK, TypeInv, ClusterTypeOK, PodOrNone, Phases

LEMMA CMStepsDataOK ==
    ASSUME TypeInv, NEW w \in Workers, CreateCM(w) \/ UpdateCM(w)
    PROVE  DataOK'
<1> USE DEF UsesHab, UsesCM
<1>1. /\ MutexInv /\ JobsOK /\ ClusterTypeOK /\ InformersOK
      /\ job[w] \in Jobs /\ NoJob \in Jobs
  BY NoJobOK DEF TypeInv, JobsOK
<1>2. PICK k, n : k = wkey[w] /\ n = NsOf[k]
  OBVIOUS
<1>3. k \in Keys /\ n \in Namespaces
  BY <1>1, <1>2, ClusterAssumption
     DEF CreateCM, UpdateCM, MutexInv, WorkersOK, ClusterAssumption
<1>4. cmGen[n] + 1 \in Nat /\ [cmGen EXCEPT ![n] = @ + 1] \in [Namespaces -> Nat]
  BY <1>1, <1>3 DEF ClusterTypeOK
<1>5. /\ cmGen' \in [Namespaces -> Nat]
      /\ \/ \E c \in CMOrNone : StoreCM(n, c)
         \/ UNCHANGED <<cm, cmWatch>>
      /\ JobsOK' /\ budget' \in [Kinds -> Nat]
  <2>1. CASE CreateCM(w) /\ cm[n] = None
    <3>1. job[w].hab \in Habs
      BY <1>1, <2>1 DEF CreateCM, JobsOK, JobOK, Jobs
    <3>2. job[w].leader \in PodIPs \cup {NoIP} /\ job[w].hab.uid \in Nat
      BY <1>1, <3>1 DEF Jobs, Habs
    <3>3. [rv |-> cmGen[n] + 1, ip |-> job[w].leader,
           owner |-> <<k, job[w].hab.uid>>] \in CMOrNone
      BY <1>3, <1>4, <3>2 DEF ConfigMaps, CMOrNone
    <3>4. /\ cmGen' = [cmGen EXCEPT ![n] = @ + 1]
          /\ StoreCM(n, [rv |-> cmGen[n] + 1, ip |-> job[w].leader,
                         owner |-> <<k, job[w].hab.uid>>])
          /\ Returns(w, "Done", NoJob)
      BY <1>2, <2>1 DEF CreateCM
    <3>5. QED
      BY <1>1, <1>4, <3>3, <3>4, ReturnsJobsOK, ReturnsBudget
  <2>2. CASE CreateCM(w) /\ cm[n] # None
    <3>1. Goto(w, "FindCM", job[w]) /\ UNCHANGED <<cm, cmGen, cmWatch, budget>>
      BY <1>2, <2>2 DEF CreateCM
    <3>2. QED
      BY <1>1, <3>1, GotoJobsOK DEF ClusterTypeOK
  <2>3. CASE UpdateCM(w)
    <3>1. PICK c : c = job[w].cm
      OBVIOUS
    <3>2. c \in ConfigMaps
      BY <1>1, <2>3, <3>1 DEF UpdateCM, JobsOK, JobOK, Jobs
    <3>3. [c EXCEPT !.rv = cmGen[n] + 1] \in CMOrNone
      BY <1>4, <3>2 DEF ConfigMaps, CMOrNone
    <3>4. \/ /\ cmGen' = [cmGen EXCEPT ![n] = @ + 1]
             /\ StoreCM(n, [c EXCEPT !.rv = cmGen[n] + 1])
             /\ Returns(w, "Done", NoJob)
          \/ /\ Goto(w, "Done", NoJob) \/ Goto(w, "Requeue", NoJob)
             /\ UNCHANGED <<cm, cmGen, cmWatch, budget>>
      BY <1>2, <2>3, <3>1 DEF UpdateCM
    <3>5. QED
      BY <1>1, <1>4, <3>3, <3>4, GotoJobsOK, ReturnsJobsOK, ReturnsBudget
         DEF ClusterTypeOK
  <2>4. QED
    BY <2>1, <2>2, <2>3
<1>6. cm' \in [Namespaces -> CMOrNone] /\ cmWatch' \in [Namespaces -> Seq(CMOrNone)]
  BY <1>1, <1>3, <1>5, StoreCMType DEF ClusterTypeOK, CMOrNone
<1>7. UNCHANGED <<hab, habGen, sts, pod, podGen, secrets, habWatch, podWatch,
                  stsWatch, informerVars, appliedGen>>
  BY DEF CreateCM, UpdateCM
<1>8. QED
  BY <1>1, <1>5, <1>6, <1>7, InformersSame
     DEF DataOK, TypeInv, ClusterTypeOK, CMOrNone

LEMMA SetIPType ==
    \A c \in ConfigMaps, ip \in PodIPs \cup {NoIP} : [c EXCEPT !.ip = ip] \in ConfigMaps
BY DEF ConfigMaps

LEMMA NoneIsNoConfigMap == None \notin ConfigMaps
BY ClusterAssumption DEF ClusterAssumption

LEMMA WriteLeaderDataOK ==
    ASSUME TypeInv, NEW w \in Workers, WriteLeader(w)
    PROVE  DataOK'
<1>1. /\ wpc \in [Workers -> WorkerStates] /\ job \in [Workers -> Jobs] /\ JobOK
      /\ cmCache \in [Namespaces -> CMOrNone] /\ wkey[w] \in Keys
      /\ wpc[w] = "WriteLeader"
  BY DEF TypeInv, MutexInv, WorkersOK, JobsOK, InformersOK, WriteLeader
<1>2. PICK n \in Namespaces : n = NsOf[wkey[w]]
  BY <1>1, ClusterAssumption DEF ClusterAssumption
<1>3. PICK ip \in PodIPs \cup {NoIP} : ip = job[w].leader
  BY <1>1 DEF Jobs
<1>4. /\ cmCache' = IF CachedCM(w) THEN [cmCache EXCEPT ![n].ip = ip] ELSE cmCache
      /\ job' = [v \in Workers |->
                   IF SameCM(v, w) THEN [job[v] EXCEPT !.cm.ip = ip] ELSE job[v]]
      /\ wpc' = [wpc EXCEPT ![w] = "UpdateCM"]
  BY <1>2, <1>3 DEF WriteLeader
<1>5. cmCache' \in [Namespaces -> CMOrNone]
  <2>1. CASE cmCache[n] # None
    <3>1. [cmCache[n] EXCEPT !.ip = ip] \in ConfigMaps
      BY <1>1, <2>1, SetIPType DEF CMOrNone
    <3>2. QED
      BY <1>1, <1>4, <3>1 DEF CMOrNone
  <2>2. CASE cmCache[n] = None
    BY <1>1, <1>2, <1>4, <2>2 DEF CachedCM
  <2>3. QED
    BY <2>1, <2>2
<1>6. ASSUME NEW v \in Workers
      PROVE  /\ job'[v] \in Jobs
             /\ job'[v].hab = job[v].hab
             /\ job[v].cm # None => job'[v].cm # None
  <2>1. job[v] \in Jobs
    BY <1>1
  <2>2. CASE SameCM(v, w)
    <3>1. job[v].cm \in ConfigMaps
      BY <2>1, <2>2 DEF SameCM, Jobs
    <3>2. PICK c \in ConfigMaps : c = [job[v].cm EXCEPT !.ip = ip]
      BY <3>1, SetIPType
    <3>3. job'[v] = [job[v] EXCEPT !.cm = c]
      BY <1>4, <2>1, <2>2, <3>2 DEF Jobs
    <3>4. QED
      BY <2>1, <3>3, NoneIsNoConfigMap DEF Jobs
  <2>3. CASE ~SameCM(v, w)
    BY <1>4, <2>1, <2>3
  <2>4. QED
    BY <2>2, <2>3
<1>7. JobsOK'
  <2>1. job' \in [Workers -> Jobs]
    BY <1>4, <1>6
  <2>2. ASSUME NEW v \in Workers
        PROVE  /\ wpc'[v] \in UsesHab => wpc[v] \in UsesHab
               /\ wpc'[v] \in UsesCM => wpc[v] \in UsesCM
    BY <1>1, <1>4 DEF UsesHab, UsesCM
  <2>3. JobOK'
    BY <1>1, <1>6, <2>2 DEF JobOK
  <2>4. QED
    BY <2>1, <2>3 DEF JobsOK
<1>8. UNCHANGED <<clusterVars, habCache, cmCopy, podCache, cmTodo, unsynced,
                 appliedGen>>
  BY DEF WriteLeader
<1>9. ClusterTypeOK'
  BY <1>8, ClusterSame DEF TypeInv, clusterVars, ClusterTypeOK
<1>10. QED
  BY <1>5, <1>7, <1>8, <1>9 DEF DataOK, TypeInv, InformersOK

LEMMA WorkerDataOK ==
    ASSUME TypeInv, NEW w \in Workers, WorkerStep(w) \/ ApiCallFails(w)
    PROVE  DataOK'
<1>1. CASE ApiCallFails(w)
  <2>1. JobsOK'
    BY <1>1, GotoJobsOK, NoJobOK DEF ApiCallFails, TypeInv, UsesHab, UsesCM
  <2>2. ClusterTypeOK'
    BY <1>1, ClusterSame, SpendType DEF ApiCallFails, TypeInv, ClusterTypeOK, Kinds
  <2>3. QED
    BY <1>1, <2>1, <2>2, InformersSame DEF ApiCallFails, DataOK, TypeInv
<1>2. QED
  BY <1>1, QuietStepsDataOK, StsStepsDataOK, DeleteStsPodsDataOK, CMStepsDataOK,
     WriteLeaderDataOK DEF WorkerStep

LEMMA HeadTailType ==
    ASSUME NEW T, NEW s \in Seq(T), s # <<>>
    PROVE  Head(s) \in T /\ Tail(s) \in Seq(T)
OBVIOUS

(* What a list of a kind of objects returns. *)
LEMMA ListTypes ==
    ASSUME ClusterTypeOK
    PROVE  /\ ListHabs \in [Keys -> Seq(HabOrNone)]
           /\ ListCMs \in [Namespaces -> Seq(CMOrNone)]
           /\ ListPods \in [Pods -> Seq(Phases)]
           /\ ListSts \in [Keys -> BOOLEAN]
<1>1. \A k \in Keys : hab[k] # None => <<hab[k]>> \in Seq(HabOrNone)
  BY DEF ClusterTypeOK, HabOrNone
<1>2. \A n \in Namespaces : cm[n] # None => <<cm[n]>> \in Seq(CMOrNone)
  BY DEF ClusterTypeOK, CMOrNone
<1>3. \A p \in Pods : PhaseOf(p) \in Phases
  BY DEF ClusterTypeOK, PhaseOf, PodObjects, Phases
<1>4. \A p \in Pods : <<PhaseOf(p)>> \in Seq(Phases)
  BY <1>3
<1>5. QED
  BY <1>1, <1>2, <1>4 DEF ListHabs, ListCMs, ListPods, ListSts

LEMMA InformerDataOK ==
    ASSUME TypeInv, InformerStep
    PROVE  DataOK'
<1> USE DEF TypeInv, HabOrNone, CMOrNone, Phases
<1>1. ASSUME NEW k \in Keys, HabEvent(k) PROVE DataOK'
  <2>1. /\ habWatch[k] # <<>> /\ habWatch[k] \in Seq(HabOrNone)
        /\ habCache' = [habCache EXCEPT ![k] = Head(habWatch[k])]
        /\ habWatch' = [habWatch EXCEPT ![k] = Tail(@)]
        /\ unsynced' = unsynced \ {k}
    BY <1>1 DEF HabEvent, ClusterTypeOK
  <2>2. Head(habWatch[k]) \in HabOrNone /\ Tail(habWatch[k]) \in Seq(HabOrNone)
    BY <2>1, HeadTailType
  <2>3. habCache' \in [Keys -> HabOrNone] /\ unsynced' \subseteq Keys \cup Namespaces
    BY <2>1, <2>2 DEF InformersOK
  <2>4. habWatch' \in [Keys -> Seq(HabOrNone)]
    BY <2>1, <2>2 DEF ClusterTypeOK
  <2>5. UNCHANGED <<objectVars, cmWatch, podWatch, stsWatch, budget,
                    cmCache, cmCopy, podCache, cmTodo, workerVars>>
    BY <1>1 DEF HabEvent
  <2>6. QED
    BY <2>3, <2>4, <2>5, JobsSame
       DEF DataOK, ClusterTypeOK, InformersOK, objectVars, workerVars
<1>2. ASSUME NEW k \in Keys, StsEvent(k) PROVE DataOK'
  <2>1. stsWatch' = [stsWatch EXCEPT ![k] = FALSE]
    BY <1>2 DEF StsEvent
  <2>2. stsWatch' \in [Keys -> BOOLEAN]
    BY <2>1 DEF ClusterTypeOK
  <2>3. UNCHANGED <<objectVars, habWatch, cmWatch, podWatch, budget,
                    informerVars, workerVars>>
    BY <1>2 DEF StsEvent
  <2>4. QED
    BY <2>2, <2>3, JobsSame, InformersSame
       DEF DataOK, ClusterTypeOK, objectVars, workerVars
<1>3. ASSUME NEW k \in Keys, StsStatusEvent(k) PROVE DataOK'
  <2>1. budget' \in [Kinds -> Nat]
    BY <1>3, SpendType DEF StsStatusEvent, ClusterTypeOK, Kinds
  <2>2. QED
    BY <1>3, <2>1, ClusterSame, JobsSame, InformersSame
       DEF StsStatusEvent, DataOK, workerVars
<1>4. ASSUME NEW n \in Namespaces, CMEvent(n) PROVE DataOK'
  <2>1. /\ cmWatch[n] # <<>> /\ cmWatch[n] \in Seq(CMOrNone)
        /\ cmCache' = [cmCache EXCEPT ![n] = Head(cmWatch[n])]
        /\ cmWatch' = [cmWatch EXCEPT ![n] = Tail(@)]
        /\ cmTodo' = [cmTodo EXCEPT ![n] = @ \cup HabitatsIn(n)]
        /\ unsynced' = unsynced \ {n}
        /\ cmCopied(n)
    BY <1>4 DEF CMEvent, ClusterTypeOK
  <2>2. Head(cmWatch[n]) \in CMOrNone /\ Tail(cmWatch[n]) \in Seq(CMOrNone)
    BY <2>1, HeadTailType
  <2>3. HabitatsIn(n) \subseteq Keys
    BY DEF HabitatsIn
  <2>4. InformersOK'
    <3>1. cmCopy' \in [Namespaces -> Nat]
      BY <2>1 DEF cmCopied, InformersOK
    <3>2. QED
      BY <1>4, <2>1, <2>2, <2>3, <3>1 DEF InformersOK, CMEvent
  <2>5. cmWatch' \in [Namespaces -> Seq(CMOrNone)]
    BY <2>1, <2>2 DEF ClusterTypeOK
  <2>6. UNCHANGED <<objectVars, habWatch, podWatch, stsWatch, budget, workerVars>>
    BY <1>4 DEF CMEvent
  <2>7. QED
    BY <2>4, <2>5, <2>6, JobsSame DEF DataOK, ClusterTypeOK, objectVars, workerVars
<1>5. ASSUME NEW n \in Namespaces, CMResync(n) PROVE DataOK'
  <2>1. HabitatsIn(n) \subseteq Keys
    BY DEF HabitatsIn
  <2>2. InformersOK'
    BY <1>5, <2>1 DEF InformersOK, CMResync
  <2>3. budget' \in [Kinds -> Nat]
    BY <1>5, SpendType DEF CMResync, ClusterTypeOK, Kinds
  <2>4. UNCHANGED <<objectVars, watchVars, workerVars>>
    BY <1>5 DEF CMResync
  <2>5. QED
    BY <2>2, <2>3, <2>4, ClusterSame, JobsSame DEF DataOK, workerVars
<1>6. ASSUME NEW n \in Namespaces, NEW k \in Keys, CMEnqueues(n, k) PROVE DataOK'
  <2>1. InformersOK'
    BY <1>6 DEF InformersOK, CMEnqueues
  <2>2. UNCHANGED <<clusterVars, workerVars>>
    BY <1>6 DEF CMEnqueues
  <2>3. QED
    BY <2>1, <2>2, ClusterSame, JobsSame
       DEF DataOK, workerVars, clusterVars, ClusterTypeOK
<1>7. ASSUME NEW p \in Pods, PodEvent(p) PROVE DataOK'
  <2>1. /\ podWatch[p] # <<>> /\ podWatch[p] \in Seq(Phases)
        /\ podCache' = [podCache EXCEPT ![p] = Head(podWatch[p])]
        /\ podWatch' = [podWatch EXCEPT ![p] = Tail(@)]
    BY <1>7 DEF PodEvent, ClusterTypeOK
  <2>2. Head(podWatch[p]) \in Phases /\ Tail(podWatch[p]) \in Seq(Phases)
    BY <2>1, HeadTailType
  <2>3. podCache' \in [Pods -> Phases]
    BY <2>1, <2>2 DEF InformersOK
  <2>4. podWatch' \in [Pods -> Seq(Phases)]
    BY <2>1, <2>2 DEF ClusterTypeOK
  <2>5. UNCHANGED <<objectVars, habWatch, cmWatch, stsWatch, budget,
                    habCache, cmCache, cmCopy, cmTodo, unsynced, workerVars>>
    BY <1>7 DEF PodEvent
  <2>6. QED
    BY <2>3, <2>4, <2>5, JobsSame
       DEF DataOK, ClusterTypeOK, InformersOK, objectVars, workerVars
<1>8. CASE RelistHabs
  <2>1. habWatch' = ListHabs /\ habCache' = [k \in Keys |->
          IF hab[k] = None THEN None ELSE habCache[k]]
    BY <1>8 DEF RelistHabs
  <2>2. habWatch' \in [Keys -> Seq(HabOrNone)]
    BY <2>1, ListTypes
  <2>3. habCache' \in [Keys -> HabOrNone]
    BY <2>1 DEF InformersOK
  <2>4. budget' \in [Kinds -> Nat]
    BY <1>8, SpendType DEF RelistHabs, ClusterTypeOK, Kinds
  <2>5. /\ unsynced' \subseteq unsynced
        /\ UNCHANGED <<objectVars, cmWatch, podWatch, stsWatch,
                       cmCache, cmCopy, podCache, cmTodo, workerVars>>
    BY <1>8 DEF RelistHabs
  <2>6. QED
    BY <2>2, <2>3, <2>4, <2>5, JobsSame
       DEF DataOK, ClusterTypeOK, InformersOK, objectVars, workerVars
<1>9. CASE RelistPods
  <2>1. podWatch' = ListPods /\ podCache' = [p \in Pods |->
          IF pod[p] = None THEN "None" ELSE podCache[p]]
    BY <1>9 DEF RelistPods
  <2>2. podWatch' \in [Pods -> Seq(Phases)]
    BY <2>1, ListTypes
  <2>3. podCache' \in [Pods -> Phases]
    BY <2>1 DEF InformersOK
  <2>4. budget' \in [Kinds -> Nat]
    BY <1>9, SpendType DEF RelistPods, ClusterTypeOK, Kinds
  <2>5. UNCHANGED <<objectVars, habWatch, cmWatch, stsWatch,
                    habCache, cmCache, cmCopy, cmTodo, unsynced, workerVars>>
    BY <1>9 DEF RelistPods
  <2>6. QED
    BY <2>2, <2>3, <2>4, <2>5, JobsSame
       DEF DataOK, ClusterTypeOK, InformersOK, objectVars, workerVars
<1>10. CASE RelistCMs
  <2>1. cmWatch' = ListCMs /\ cmCache' = [n \in Namespaces |->
          IF cm[n] = None THEN None ELSE cmCache[n]]
    BY <1>10 DEF RelistCMs
  <2>2. cmWatch' \in [Namespaces -> Seq(CMOrNone)]
    BY <2>1, ListTypes
  <2>3. cmCache' \in [Namespaces -> CMOrNone]
    BY <2>1 DEF InformersOK
  <2>4. budget' \in [Kinds -> Nat]
    BY <1>10, SpendType DEF RelistCMs, ClusterTypeOK, Kinds
  <2>5. /\ unsynced' \subseteq unsynced
        /\ UNCHANGED <<objectVars, habWatch, podWatch, stsWatch,
                       habCache, cmCopy, podCache, cmTodo, workerVars>>
    BY <1>10 DEF RelistCMs
  <2>6. QED
    BY <2>2, <2>3, <2>4, <2>5, JobsSame
       DEF DataOK, ClusterTypeOK, InformersOK, objectVars, workerVars
<1>11. CASE RelistSts
  <2>1. stsWatch' = [k \in Keys |-> stsWatch[k] /\ sts[k] # None]
    BY <1>11 DEF RelistSts
  <2>2. stsWatch' \in [Keys -> BOOLEAN]
    BY <2>1
  <2>3. budget' \in [Kinds -> Nat]
    BY <1>11, SpendType DEF RelistSts, ClusterTypeOK, Kinds
  <2>4. UNCHANGED <<objectVars, habWatch, cmWatch, podWatch, informerVars, workerVars>>
    BY <1>11 DEF RelistSts
  <2>5. QED
    BY <2>2, <2>3, <2>4, JobsSame, InformersSame
       DEF DataOK, ClusterTypeOK, objectVars, workerVars
<1>12. QED
  BY <1>1, <1>2, <1>3, <1>4, <1>5, <1>6, <1>7, <1>8, <1>9, <1>10, <1>11 DEF InformerStep

LEMMA CrashDataOK ==
    ASSUME TypeInv, Crash
    PROVE  DataOK'
<1> USE DEF TypeInv, HabOrNone, CMOrNone, Phases
<1>1. budget' \in [Kinds -> Nat]
  BY SpendType DEF Crash, ClusterTypeOK, Kinds
<1>2. UNCHANGED <<objectVars, appliedGen>>
  BY DEF Crash
<1>3. /\ habWatch' = ListHabs /\ cmWatch' = ListCMs
      /\ podWatch' = ListPods /\ stsWatch' = ListSts
  BY DEF Crash
<1>4. ClusterTypeOK'
  BY <1>1, <1>2, <1>3, ListTypes DEF ClusterTypeOK, objectVars
<1>5. InformersOK'
  BY DEF Crash, InformersOK
<1>6. JobsOK'
  <2>1. job' = [w \in Workers |-> NoJob] /\ wpc' = [w \in Workers |-> "Get"]
    BY DEF Crash
  <2>2. QED
    BY <2>1, NoJobOK DEF JobsOK, JobOK, UsesHab, UsesCM
<1>7. QED
  BY <1>2, <1>4, <1>5, <1>6 DEF DataOK

LEMMA NextTypeInv == TypeInv /\ [Next]_vars => TypeInv'
<1> SUFFICES ASSUME TypeInv, [Next]_vars PROVE TypeInv'
  OBVIOUS
<1>1. SUFFICES DataOK'
  BY NextMutexInv DEF TypeInv, DataOK
<1>2. ASSUME NEW w \in Workers, WorkerStep(w) \/ ApiCallFails(w)
      PROVE  DataOK'
  BY <1>2, WorkerDataOK
<1>3. CASE InformerStep
  BY <1>3, InformerDataOK
<1>4. ASSUME UNCHANGED <<clusterVars, informerVars, workerVars>> PROVE DataOK'
  BY <1>4, ClusterSame, InformersSame, JobsSame
     DEF TypeInv, DataOK, clusterVars, workerVars, ClusterTypeOK
<1>5. CASE WaitingLoopReceives \/ (\E k \in Keys : WaitingLoopFires(k))
           \/ UNCHANGED vars
  BY <1>4, <1>5 DEF WaitingLoopReceives, WaitingLoopFires, vars
<1>6. CASE ClusterStep
  <2>1. ClusterTypeOK'
    BY <1>6, UserStepTypeOK, PodStepTypeOK, CollectTypeOK DEF ClusterStep, TypeInv
  <2>2. UNCHANGED <<informerVars, workerVars>>
    BY <1>6 DEF ClusterStep, ControllerStutters
  <2>3. QED
    BY <2>1, <2>2, InformersSame, JobsSame DEF TypeInv, DataOK, workerVars
<1>7. CASE Crash
  BY <1>7, CrashDataOK
<1>8. QED
  BY <1>2, <1>3, <1>5, <1>6, <1>7 DEF Next

LEMMA InitTypeInv == Init => TypeInv
<1> SUFFICES ASSUME Init PROVE TypeInv
  OBVIOUS
<1> USE DEF HabOrNone, CMOrNone, StsOrNone, PodOrNone, Phases
<1>1. MutexInv
  BY InitMutexInv
<1>0. PICK s \in Scenarios : /\ ClusterInit(s)
                             /\ IF s.deployed THEN DeployedInit ELSE StartInit
  BY DEF Init
<1>2. /\ hab \in [Keys -> HabOrNone]
      /\ budget \in [Kinds -> Nat]
      /\ \A k \in Keys : hab[k] # None => hab[k].uid = 1 /\ hab[k].gen = 1
  BY <1>0, ClusterAssumption DEF ClusterInit, ClusterAssumption
<1>3. /\ habGen \in [Keys -> Nat] /\ secrets \subseteq Keys
      /\ cmWatch \in [Namespaces -> Seq(CMOrNone)]
      /\ podWatch \in [Pods -> Seq(Phases)]
      /\ stsWatch \in [Keys -> BOOLEAN]
  BY <1>0 DEF ClusterInit
<1>4. /\ JobsOK /\ cmTodo \in [Namespaces -> SUBSET Keys]
      /\ cmCopy \in [Namespaces -> Nat]
  BY NoJobOK DEF Init, JobsOK, JobOK, UsesHab, UsesCM
<1>5. CASE StartInit
  <2>1. /\ sts \in [Keys -> StsOrNone] /\ pod \in [Pods -> PodOrNone]
        /\ podGen \in [Pods -> Nat] /\ cm \in [Namespaces -> CMOrNone]
        /\ cmGen \in [Namespaces -> Nat] /\ appliedGen \in [Keys -> Nat]
        /\ habWatch = ListHabs
    BY <1>5 DEF StartInit
  <2>2. habWatch \in [Keys -> Seq(HabOrNone)]
    <3> HIDE DEF HabOrNone
    <3>1. \A k \in Keys : hab[k] # None => <<hab[k]>> \in Seq(HabOrNone)
      BY <1>2
    <3>2. QED
      BY <2>1, <3>1 DEF ListHabs
  <2>3. InformersOK
    BY <1>4, <1>5 DEF StartInit, InformersOK
  <2>4. QED
    BY <1>1, <1>2, <1>3, <1>4, <2>1, <2>2, <2>3 DEF TypeInv, ClusterTypeOK
<1>6. CASE DeployedInit
  <2>1. sts \in [Keys -> StsOrNone]
    <3>1. \A k \in Keys : hab[k] # None => newStatefulSet(hab[k]) \in StatefulSets
      BY <1>2, NewStsType
    <3>2. QED
      BY <1>6, <3>1 DEF DeployedInit
  <2>2. pod \in [Pods -> PodOrNone] /\ podGen \in [Pods -> Nat]
    <3>1. ASSUME NEW p \in Pods, sts[p[1]] # None
          PROVE  [phase |-> "Running", terminating |-> FALSE,
                  template |-> sts[p[1]].template, ip |-> <<p, 1>>] \in PodObjects
      <4>1. sts[p[1]] \in StatefulSets
        BY <2>1, <3>1 DEF Pods
      <4>2. <<p, 1>> \in PodIPs
        BY <3>1 DEF PodIPs
      <4>3. QED
        BY <4>1, <4>2 DEF PodObjects, StatefulSets
    <3>2. pod = [p \in Pods |->
                 IF sts[p[1]] = None \/ p[2] >= sts[p[1]].count THEN None
                 ELSE [phase |-> "Running", terminating |-> FALSE,
                       template |-> sts[p[1]].template, ip |-> <<p, 1>>]]
      BY <1>6 DEF DeployedInit
    <3>3. pod \in [Pods -> PodOrNone]
      BY <3>1, <3>2
    <3>4. podGen \in [Pods -> Nat]
      BY <1>6 DEF DeployedInit
    <3>5. QED
      BY <3>3, <3>4
  <2>3. cm \in [Namespaces -> CMOrNone] /\ cmGen \in [Namespaces -> Nat]
    <3>1. PICK owner \in [Namespaces -> {k \in Keys : hab[k] # None}],
               leader \in [Namespaces -> (Pods \X {1}) \cup {NoIP}] :
            cm = [n \in Namespaces |->
                    [rv |-> 1, ip |-> leader[n], owner |-> <<owner[n], 1>>]]
      BY <1>6 DEF DeployedInit
    <3>2. \A n \in Namespaces : leader[n] \in PodIPs \cup {NoIP}
                                 /\ <<owner[n], 1>> \in Keys \X Nat
      BY <3>1 DEF PodIPs
    <3>3. cm \in [Namespaces -> CMOrNone]
      BY <3>1, <3>2 DEF ConfigMaps
    <3>4. QED
      BY <1>6, <3>3 DEF DeployedInit
  <2>4. InformersOK
    <3>1. /\ habCache = hab /\ cmCache = cm /\ unsynced = {}
          /\ podCache = [p \in Pods |-> PhaseOf(p)]
      BY <1>6 DEF DeployedInit
    <3>2. \A p \in Pods : PhaseOf(p) \in Phases
      BY <2>2 DEF PhaseOf, PodObjects
    <3>3. podCache \in [Pods -> Phases]
      BY <3>1, <3>2
    <3>4. QED
      BY <1>2, <1>4, <2>3, <3>1, <3>3 DEF InformersOK
  <2>5. habWatch \in [Keys -> Seq(HabOrNone)] /\ appliedGen \in [Keys -> Nat]
    <3> HIDE DEF HabOrNone
    <3>1. /\ habWatch = [k \in Keys |-> <<>>]
          /\ appliedGen = [k \in Keys |-> IF hab[k] = None THEN 0 ELSE 1]
      BY <1>6 DEF DeployedInit
    <3>2. QED
      BY <3>1
  <2>6. QED
    BY <1>1, <1>2, <1>3, <1>4, <2>1, <2>2, <2>3, <2>4, <2>5
       DEF TypeInv, ClusterTypeOK
<1>7. QED
  BY <1>0, <1>5, <1>6

THEOREM TypeInvariant == Spec => []TypeInv
BY InitTypeInv, NextTypeInv, PTL DEF Spec

(* Every variable has its type in every reachable state; a worker that     *)
(* reads a field of its Habitat or of its ConfigMap has one.               *)
THEOREM TypeCorrect == Spec => []TypeOK
BY TypeInvariant, TypeInvTypeOK, PTL
=============================================================================
