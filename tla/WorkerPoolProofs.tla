-------------------------- MODULE WorkerPoolProofs --------------------------
(***************************************************************************)
(* Proofs about WorkerPool, for any sets of keys and workers and any       *)
(* channel capacity.  The conjunction of the invariants is inductive: what *)
(* Get removes must be queued only once for QueuedIsDirtyAndIdle to stay   *)
(* true, it must be idle for OneWorkerPerKey, and Done must find its own   *)
(* key in processing, held by nobody else, for ProcessingIsHeld.           *)
(***************************************************************************)
EXTENDS WorkerPool, WorkQueueProofs

PoolTypeOK ==
    /\ wpc \in [Workers -> WorkerStates]
    /\ wkey \in [Workers -> Keys]
    /\ ctxDone \in BOOLEAN

IInv ==
    /\ QInv
    /\ PoolTypeOK
    /\ ProcessingIsHeld
    /\ OneWorkerPerKey

LEMMA InitIInv == Init => IInv
<1> SUFFICES ASSUME Init PROVE IInv
  OBVIOUS
<1>1. QInv
  BY QueueInitQInv DEF Init
<1>2. PoolTypeOK
  BY DEF Init, PoolTypeOK, WorkerStates
<1>3. \A w \in Workers, k \in Keys : ~Holds(w, k)
  BY DEF Init, Holds
<1>4. ProcessingIsHeld
  BY <1>3 DEF ProcessingIsHeld, Init, QueueInit
<1>5. OneWorkerPerKey
  BY <1>3 DEF OneWorkerPerKey
<1>6. QED
  BY <1>1, <1>2, <1>4, <1>5 DEF IInv

(* A step of a worker that neither takes nor returns a key leaves what is  *)
(* held alone.                                                             *)
LEMMA SameHolders ==
    ASSUME IInv, processing' = processing,
           \A w \in Workers, k \in Keys : Holds(w, k)' <=> Holds(w, k)
    PROVE  ProcessingIsHeld' /\ OneWorkerPerKey'
BY DEF IInv, ProcessingIsHeld, OneWorkerPerKey

LEMMA TakeItemIInv ==
    ASSUME IInv, NEW w \in Workers, TakeItem(w)
    PROVE  IInv'
<1>1. PICK k \in Keys : Get(k) /\ wkey' = [wkey EXCEPT ![w] = k]
  BY DEF TakeItem
<1>2. /\ QInv' /\ k \notin processing
      /\ processing' = processing \cup {k}
  BY <1>1, GetQInv DEF IInv
<1>3. PoolTypeOK'
  BY <1>1 DEF TakeItem, IInv, PoolTypeOK, WorkerStates
<1>4. \A v \in Workers, l \in Keys :
        Holds(v, l)' <=> IF v = w THEN l = k ELSE Holds(v, l)
  BY <1>1 DEF TakeItem, IInv, PoolTypeOK, Holds
<1>5. \A l \in Keys : ~Holds(w, l)
  BY DEF TakeItem, Holds
<1>6. \A v \in Workers : ~Holds(v, k)
  BY <1>2 DEF IInv, ProcessingIsHeld
<1>7. ProcessingIsHeld'
  BY <1>2, <1>4, <1>5 DEF IInv, ProcessingIsHeld
<1>8. OneWorkerPerKey'
  BY <1>4, <1>6 DEF IInv, OneWorkerPerKey
<1>9. QED
  BY <1>2, <1>3, <1>7, <1>8 DEF IInv

LEMMA FinishItemIInv ==
    ASSUME IInv, NEW w \in Workers, FinishItem(w)
    PROVE  IInv'
<1> DEFINE k == wkey[w]
<1>1. k \in Keys /\ Holds(w, k)
  BY DEF FinishItem, IInv, PoolTypeOK, Holds
<1>2. k \in processing
  BY <1>1 DEF IInv, ProcessingIsHeld
<1>3. QInv' /\ processing' = processing \ {k}
  BY <1>1, <1>2, DoneQInv DEF FinishItem, IInv
<1>4. PoolTypeOK'
  BY DEF FinishItem, IInv, PoolTypeOK, WorkerStates
<1>5. \A v \in Workers, l \in Keys : Holds(v, l)' <=> v # w /\ Holds(v, l)
  BY DEF FinishItem, IInv, PoolTypeOK, Holds
<1>6. \A v \in Workers : Holds(v, k) => v = w
  BY <1>1 DEF IInv, OneWorkerPerKey
<1>7. \A l \in Keys : Holds(w, l) => l = k
  BY DEF Holds
<1>8. ProcessingIsHeld'
  BY <1>3, <1>5, <1>6, <1>7 DEF IInv, ProcessingIsHeld
<1>9. OneWorkerPerKey'
  BY <1>5 DEF IInv, OneWorkerPerKey
<1>10. QED
  BY <1>3, <1>4, <1>8, <1>9 DEF IInv

LEMMA NextIInv == IInv /\ [Next]_vars => IInv'
<1> SUFFICES ASSUME IInv, [Next]_vars PROVE IInv'
  OBVIOUS
<1> USE DEF WorkerStates
<1>1. ASSUME NEW w \in Workers, StartWorker(w) PROVE IInv'
  <2>1. QInv' /\ processing' = processing
    BY <1>1, QueueStutter DEF StartWorker, IInv, queueVars
  <2>2. PoolTypeOK'
    BY <1>1 DEF StartWorker, IInv, PoolTypeOK
  <2>3. \A v \in Workers, k \in Keys : Holds(v, k)' <=> Holds(v, k)
    BY <1>1 DEF StartWorker, IInv, PoolTypeOK, Holds
  <2>4. QED
    BY <2>1, <2>2, <2>3, SameHolders DEF IInv
<1>2. ASSUME NEW w \in Workers, TakeItem(w) PROVE IInv'
  BY <1>2, TakeItemIInv
<1>3. ASSUME NEW w \in Workers, Quit(w) PROVE IInv'
  <2>1. QInv' /\ processing' = processing
    BY <1>3, QueueStutter DEF Quit, IInv, queueVars
  <2>2. PoolTypeOK'
    BY <1>3 DEF Quit, IInv, PoolTypeOK
  <2>3. \A v \in Workers, k \in Keys : Holds(v, k)' <=> Holds(v, k)
    BY <1>3 DEF Quit, IInv, PoolTypeOK, Holds
  <2>4. QED
    BY <2>1, <2>2, <2>3, SameHolders DEF IInv
<1>4. ASSUME NEW w \in Workers, ConformReturns(w) PROVE IInv'
  <2>1. QInv' /\ processing' = processing
    BY <1>4, QueueStutter DEF ConformReturns, IInv, queueVars
  <2>2. PoolTypeOK'
    BY <1>4 DEF ConformReturns, IInv, PoolTypeOK
  <2>3. \A v \in Workers, k \in Keys : Holds(v, k)' <=> Holds(v, k)
    BY <1>4 DEF ConformReturns, IInv, PoolTypeOK, Holds
  <2>4. QED
    BY <2>1, <2>2, <2>3, SameHolders DEF IInv
<1>5. ASSUME NEW w \in Workers, Requeue(w) PROVE IInv'
  <2>1. wkey[w] \in Keys
    BY DEF IInv, PoolTypeOK
  <2>2. QInv' /\ processing' = processing
    BY <1>5, <2>1, AddRateLimitedQInv DEF Requeue, IInv
  <2>3. PoolTypeOK'
    BY <1>5 DEF Requeue, IInv, PoolTypeOK
  <2>4. \A v \in Workers, k \in Keys : Holds(v, k)' <=> Holds(v, k)
    BY <1>5 DEF Requeue, IInv, PoolTypeOK, Holds
  <2>5. QED
    BY <2>2, <2>3, <2>4, SameHolders DEF IInv
<1>6. ASSUME NEW w \in Workers, FinishItem(w) PROVE IInv'
  BY <1>6, FinishItemIInv
<1>7. ASSUME QInv' /\ processing' = processing, UNCHANGED <<wpc, wkey>>,
             ctxDone' \in BOOLEAN
      PROVE  IInv'
  <2>1. PoolTypeOK'
    BY <1>7 DEF IInv, PoolTypeOK
  <2>2. \A v \in Workers, k \in Keys : Holds(v, k)' <=> Holds(v, k)
    BY <1>7 DEF Holds
  <2>3. QED
    BY <1>7, <2>1, <2>2, SameHolders DEF IInv
<1>8. ASSUME NEW k \in Keys, Produce(k) PROVE IInv'
  BY <1>7, <1>8, AddQInv DEF Produce, IInv, PoolTypeOK
<1>9. ASSUME NEW k \in Keys, WaitingLoopFires(k) PROVE IInv'
  BY <1>7, <1>9, FireWaitingQInv DEF WaitingLoopFires, IInv, PoolTypeOK
<1>10. ASSUME WaitingLoopReceives PROVE IInv'
  BY <1>7, <1>10, ReceiveWaitingQInv DEF WaitingLoopReceives, IInv, PoolTypeOK
<1>11. ASSUME Cancel PROVE IInv'
  BY <1>7, <1>11, QueueStutter DEF Cancel, IInv, queueVars
<1>12. ASSUME StopQueue PROVE IInv'
  BY <1>7, <1>12, ShutDownQInv DEF StopQueue, IInv, PoolTypeOK
<1>13. ASSUME UNCHANGED vars PROVE IInv'
  BY <1>7, <1>13, QueueStutter DEF vars, queueVars, IInv, PoolTypeOK
<1>14. QED
  BY <1>1, <1>2, <1>3, <1>4, <1>5, <1>6, <1>8, <1>9, <1>10, <1>11, <1>12,
     <1>13 DEF Next, WorkerStep

THEOREM InductiveInvariant == Spec => []IInv
BY InitIInv, NextIInv, PTL DEF Spec

(* Type correctness of the queue and of the worker pool. *)
THEOREM TypeCorrect == Spec => []TypeOK
<1>1. IInv => TypeOK
  BY DEF IInv, QInv, PoolTypeOK, TypeOK
<1>2. QED
  BY <1>1, InductiveInvariant, PTL

(* The work queue's documented invariant (queue.go:48-50), as an equality. *)
THEOREM QueueIsDirtyAndIdle == Spec => []QueuedIsDirtyAndIdle
<1>1. IInv => QueuedIsDirtyAndIdle
  BY DEF IInv, QInv
<1>2. QED
  BY <1>1, InductiveInvariant, PTL

(* A key is queued at most once, so that Get can hand it out only once,    *)
(* however often it was marked (queue.go:86-106).                          *)
THEOREM NoDuplicates == Spec => []QueuedOnce
<1>1. IInv => QueuedOnce
  BY DEF IInv, QInv
<1>2. QED
  BY <1>1, InductiveInvariant, PTL

(* A key is being processed exactly while a worker holds it: none is left  *)
(* there by a worker that has gone on (controller.go:570).                 *)
THEOREM NothingStranded == Spec => []ProcessingIsHeld
<1>1. IInv => ProcessingIsHeld
  BY DEF IInv
<1>2. QED
  BY <1>1, InductiveInvariant, PTL


(* However many workers run, no two of them reconcile one Habitat at the   *)
(* same time.                                                              *)
THEOREM MutualExclusion == Spec => []OneWorkerPerKey
<1>1. IInv => OneWorkerPerKey
  BY DEF IInv
<1>2. QED
  BY <1>1, InductiveInvariant, PTL
-----------------------------------------------------------------------------
LEMMA StepRefines ==
    ASSUME IInv, [Next]_vars
    PROVE  [Work!Next]_(Work!vars)
<1>1. ASSUME NEW w \in Workers, WorkerStep(w) PROVE [Work!Next]_(Work!vars)
  <2>1. CASE StartWorker(w) \/ Quit(w) \/ ConformReturns(w)
    BY <2>1, SameQueueRefines DEF StartWorker, Quit, ConformReturns
  <2>2. CASE TakeItem(w)
    BY <2>2, GetRefines DEF TakeItem, IInv
  <2>3. CASE FinishItem(w) \/ Requeue(w)
    <3>1. PICK k \in Keys : k = wkey[w] /\ k \in processing
      BY <2>3 DEF FinishItem, Requeue, IInv, PoolTypeOK, ProcessingIsHeld, Holds
    <3>2. Done(k) \/ AddRateLimited(k)
      BY <2>3, <3>1 DEF FinishItem, Requeue
    <3>3. QED
      BY <3>1, <3>2, DoneRefines, AddRateLimitedRefines DEF IInv
  <2>4. QED
    BY <1>1, <2>1, <2>2, <2>3 DEF WorkerStep
<1>2. ASSUME NEW k \in Keys, Produce(k) \/ WaitingLoopFires(k)
      PROVE  [Work!Next]_(Work!vars)
  BY <1>2, AddRefines, FireWaitingRefines DEF Produce, WaitingLoopFires
<1>3. CASE WaitingLoopReceives \/ StopQueue
  BY <1>3, ReceiveWaitingRefines, ShutDownRefines DEF WaitingLoopReceives, StopQueue, IInv
<1>4. CASE Cancel \/ UNCHANGED vars
  BY <1>4, SameQueueRefines DEF Cancel, vars
<1>5. QED
  BY <1>1, <1>2, <1>3, <1>4 DEF Next

(* The queue and its workers implement PendingWork: no mark and no retry   *)
(* is lost, for any number of keys, workers and any channel capacity.      *)
THEOREM ImplementsPendingWork == Spec => Promise
<1>1. Init => Work!Init
  BY QueueInitRefines DEF Init
<1>2. IInv /\ [Next]_vars => [Work!Next]_(Work!vars)
  BY StepRefines
<1>3. QED
  BY <1>1, <1>2, InductiveInvariant, PTL DEF Spec, Promise, Work!Spec
=============================================================================
