----------------------------- MODULE WorkerPool -----------------------------
(***************************************************************************)
(* The consumers of the work queue: the worker goroutines that             *)
(* HabitatController.Run starts and processNextItem's use of the queue.    *)
(* Producers (the informers' event handlers) may add any key at any time   *)
(* and conform may succeed or fail; HabitatController refines both.        *)
(***************************************************************************)
EXTENDS WorkQueue

CONSTANT Workers    \* the worker goroutines, runtime.NumCPU() of them

VARIABLES
    wpc,      \* where each worker is
    wkey,     \* the key it took last
    ctxDone   \* the context was cancelled

vars == <<queueVars, wpc, wkey, ctxDone>>

WorkerStates == {"Start", "Get", "Conform", "Requeue", "Done", "Exited"}

(* The states in which a worker holds its key: Get returned it and Done    *)
(* was not called yet.                                                     *)
Holds(w, k) == wpc[w] \in {"Conform", "Requeue", "Done"} /\ wkey[w] = k

(* Before its first Get a worker holds nothing, whatever wkey says. *)
Init ==
    /\ QueueInit
    /\ wpc = [w \in Workers |-> "Start"]
    /\ wkey \in [Workers -> Keys]
    /\ ctxDone = FALSE

(* wait.Until runs the worker loop unless the context is done already. *)
StartWorker(w) ==
    /\ wpc[w] = "Start"
    /\ wpc' = [wpc EXCEPT ![w] = IF ctxDone THEN "Exited" ELSE "Get"]
    /\ UNCHANGED <<queueVars, wkey, ctxDone>>

TakeItem(w) ==
    /\ wpc[w] = "Get"
    /\ \E k \in Keys :
         /\ Get(k)
         /\ wkey' = [wkey EXCEPT ![w] = k]
    /\ wpc' = [wpc EXCEPT ![w] = "Conform"]
    /\ UNCHANGED ctxDone

Quit(w) ==
    /\ wpc[w] = "Get"
    /\ GetQuits
    /\ wpc' = [wpc EXCEPT ![w] = "Exited"]
    /\ UNCHANGED <<queueVars, wkey, ctxDone>>

(* conform returns: nil leads to Forget, which only resets the back-off,   *)
(* and to the deferred Done; an error first to AddRateLimited.             *)
ConformReturns(w) ==
    /\ wpc[w] = "Conform"
    /\ \E next \in {"Done", "Requeue"} : wpc' = [wpc EXCEPT ![w] = next]
    /\ UNCHANGED <<queueVars, wkey, ctxDone>>

Requeue(w) ==
    /\ wpc[w] = "Requeue"
    /\ AddRateLimited(wkey[w])
    /\ wpc' = [wpc EXCEPT ![w] = "Done"]
    /\ UNCHANGED <<wkey, ctxDone>>

(* Mutant of FinishItem: Done is not called. *)
FinishItemKeeps(w) ==
    /\ wpc[w] = "Done"
    /\ wpc' = [wpc EXCEPT ![w] = "Get"]
    /\ UNCHANGED <<queueVars, wkey, ctxDone>>

FinishItem(w) ==
    /\ wpc[w] = "Done"
    /\ Done(wkey[w])
    /\ wpc' = [wpc EXCEPT ![w] = "Get"]
    /\ UNCHANGED <<wkey, ctxDone>>

WorkerStep(w) ==
    \/ StartWorker(w) \/ TakeItem(w) \/ Quit(w)
    \/ ConformReturns(w) \/ Requeue(w) \/ FinishItem(w)

(* Mutant of Produce: the object is enqueued instead of its key. *)
ProduceObject(k) == Add(<<k>>) /\ UNCHANGED <<wpc, wkey, ctxDone>>

(* An event handler enqueues a Habitat. *)
Produce(k) == Add(k) /\ UNCHANGED <<wpc, wkey, ctxDone>>

WaitingLoopReceives == ReceiveWaiting /\ UNCHANGED <<wpc, wkey, ctxDone>>

WaitingLoopFires(k) == FireWaiting(k) /\ UNCHANGED <<wpc, wkey, ctxDone>>

Cancel ==
    /\ ~ctxDone
    /\ ctxDone' = TRUE
    /\ UNCHANGED <<queueVars, wpc, wkey>>

(* Run shuts the queue down when the context is done. *)
StopQueue ==
    /\ ctxDone /\ ~shuttingDown
    /\ ShutDown
    /\ UNCHANGED <<wpc, wkey, ctxDone>>

Next ==
    \/ \E w \in Workers : WorkerStep(w)
    \/ \E k \in Keys : Produce(k) \/ WaitingLoopFires(k)
    \/ WaitingLoopReceives
    \/ Cancel
    \/ StopQueue

(* Goroutines that can run do run, and every entry of the heap gets its    *)
(* turn because the heap is ordered by time; nothing obliges a producer to *)
(* add or anyone to cancel the context.                                    *)
Fairness ==
    /\ \A w \in Workers : WF_vars(WorkerStep(w))
    /\ WF_vars(WaitingLoopReceives)
    /\ \A k \in Keys : WF_vars(WaitingLoopFires(k))
    /\ WF_vars(StopQueue)

Spec == Init /\ [][Next]_vars

FairSpec == Spec /\ Fairness
-----------------------------------------------------------------------------
TypeOK ==
    /\ QueueTypeOK
    /\ wpc \in [Workers -> WorkerStates]
    /\ wkey \in [Workers -> Keys]
    /\ ctxDone \in BOOLEAN

(* processing is exactly what the workers hold: nothing is held forever    *)
(* after its worker moved on, and nothing is worked on unregistered.       *)
ProcessingIsHeld ==
    \A k \in Keys : k \in processing <=> \E w \in Workers : Holds(w, k)

(* Two workers never reconcile the same Habitat at the same time, which    *)
(* conform's unguarded read-modify-write sequences rely on.                *)
OneWorkerPerKey ==
    \A v, w \in Workers :
        \A k \in Keys : Holds(v, k) /\ Holds(w, k) => v = w

(* The pool does what PendingWork promises. *)
Promise == Work!Spec

(* Once a worker entered its loop, a marked key is taken: also when the    *)
(* mark arrived during processing, and also during shutdown (workqueue     *)
(* drains before Get returns shutdown).                                    *)
EveryMarkIsServed ==
    \A k \in Keys :
        (k \in dirty /\ \E w \in Workers : wpc[w] \notin {"Start", "Exited"})
            ~> (k \in processing)

(* A key whose conform failed becomes dirty again, unless the queue is     *)
(* shut down meanwhile.                                                    *)
FailuresAreRetried ==
    \A k \in Keys :
        (InChannel(k) \/ k \in waitingEntries) ~> (k \in dirty \/ shuttingDown)

(* After cancellation every worker returns, so that Run's wg.Wait on them  *)
(* ends, whatever was queued or delayed.                                   *)
WorkersReturn == ctxDone ~> \A w \in Workers : wpc[w] = "Exited"
=============================================================================
