----------------------------- MODULE WorkQueue -----------------------------
(***************************************************************************)
(* The rate-limited work queue the controller takes its keys from          *)
(* (k8s.io/client-go/util/workqueue).  Every operation that the code runs  *)
(* under the queue's lock is one action; modules that use the queue        *)
(* conjoin these actions with their own.                                   *)
(*                                                                         *)
(* The duration of a delay (the rate limiters' When) is abstracted: an     *)
(* entry that waits may become ready at any moment.  The limiters never    *)
(* return a delay <= 0, so AddAfter's immediate branch is never taken.     *)
(***************************************************************************)
EXTENDS HabitatKeys, Naturals, Sequences

CONSTANT
    ChanCap     \* capacity of waitingForAddCh (1000 in the code)

ASSUME ChanCapAssumption == ChanCap \in Nat \ {0}

VARIABLES
    queue,           \* order in which keys are handed to workers
    dirty,           \* keys that need processing
    processing,      \* keys handed to a worker that has not called Done
    waitingForAddCh, \* channel from AddAfter to the waiting loop
    waitingEntries,  \* keys in the waiting loop's heap
    shuttingDown

queueVars == <<queue, dirty, processing, waitingForAddCh, waitingEntries,
               shuttingDown>>

delayVars == <<waitingForAddCh, waitingEntries>>

InQueue(k) == \E i \in 1..Len(queue) : queue[i] = k

InChannel(k) == \E i \in 1..Len(waitingForAddCh) : waitingForAddCh[i] = k

QueueInit ==
    /\ queue = <<>>
    /\ dirty = {}
    /\ processing = {}
    /\ waitingForAddCh = <<>>
    /\ waitingEntries = {}
    /\ shuttingDown = FALSE

(* Mutant of AddKey: a key is handed out while a worker has it. *)
AddKeyWhileProcessing(k) ==
    /\ UNCHANGED <<processing, shuttingDown>>
    /\ IF shuttingDown \/ k \in dirty
         THEN UNCHANGED <<queue, dirty>>
         ELSE /\ dirty' = dirty \cup {k}
              /\ queue' = Append(queue, k)

(* Mutant of AddKey: a key that is dirty already is queued again. *)
AddKeyTwice(k) ==
    /\ UNCHANGED <<processing, shuttingDown>>
    /\ IF shuttingDown
         THEN UNCHANGED <<queue, dirty>>
         ELSE /\ dirty' = dirty \cup {k}
              /\ queue' = IF k \in processing THEN queue ELSE Append(queue, k)

(* Mark k dirty; hand it out now unless a worker has it already. *)
AddKey(k) ==
    /\ UNCHANGED <<processing, shuttingDown>>
    /\ IF shuttingDown \/ k \in dirty
         THEN UNCHANGED <<queue, dirty>>
         ELSE /\ dirty' = dirty \cup {k}
              /\ queue' = IF k \in processing THEN queue ELSE Append(queue, k)

Add(k) == AddKey(k) /\ UNCHANGED delayVars

(* The successful return of Get, with the key at the head of the queue. *)
Get(k) ==
    /\ queue # <<>>
    /\ k = Head(queue)
    /\ queue' = Tail(queue)
    /\ processing' = processing \cup {k}
    /\ dirty' = dirty \ {k}
    /\ UNCHANGED <<waitingForAddCh, waitingEntries, shuttingDown>>

(* Get returns shutdown = true only once the queue is drained. *)
GetQuits == queue = <<>> /\ shuttingDown

(* Mutant of Done: a key marked dirty meanwhile is not queued again. *)
DoneStrands(k) ==
    /\ processing' = processing \ {k}
    /\ UNCHANGED <<queue, dirty, waitingForAddCh, waitingEntries, shuttingDown>>

(* Mutant of Done: the marks that arrived meanwhile are cleared. *)
DoneClears(k) ==
    /\ processing' = processing \ {k}
    /\ dirty' = dirty \ {k}
    /\ UNCHANGED <<queue, waitingForAddCh, waitingEntries, shuttingDown>>

(* Finish k; a key marked dirty meanwhile goes back to the queue, also     *)
(* while the queue is shutting down.                                       *)
Done(k) ==
    /\ processing' = processing \ {k}
    /\ queue' = IF k \in dirty THEN Append(queue, k) ELSE queue
    /\ UNCHANGED <<dirty, waitingForAddCh, waitingEntries, shuttingDown>>

(* Mutant of AddRateLimited: it blocks also when the queue shuts down. *)
AddRateLimitedBlocks(k) ==
    /\ UNCHANGED <<queue, dirty, processing, waitingEntries, shuttingDown>>
    /\ Len(waitingForAddCh) < ChanCap
    /\ waitingForAddCh' = Append(waitingForAddCh, k)

(* AddAfter with a positive delay: it blocks while the channel is full,    *)
(* unless the queue shuts down.                                            *)
AddRateLimited(k) ==
    /\ UNCHANGED <<queue, dirty, processing, waitingEntries, shuttingDown>>
    /\ \/ shuttingDown /\ UNCHANGED waitingForAddCh
       \/ /\ ~shuttingDown
          /\ Len(waitingForAddCh) < ChanCap
          /\ waitingForAddCh' = Append(waitingForAddCh, k)

(* waitingLoop takes an entry off the channel: it is added at once when    *)
(* its time has come, else kept, one entry per key.                        *)
ReceiveWaiting ==
    /\ ~shuttingDown
    /\ waitingForAddCh # <<>>
    /\ waitingForAddCh' = Tail(waitingForAddCh)
    /\ \/ /\ AddKey(Head(waitingForAddCh))
          /\ UNCHANGED waitingEntries
       \/ /\ waitingEntries' = waitingEntries \cup {Head(waitingForAddCh)}
          /\ UNCHANGED <<queue, dirty, processing, shuttingDown>>

(* Mutant of FireWaiting: an entry is dropped while its key is processed. *)
FireWaitingDrops(k) ==
    /\ ~shuttingDown
    /\ k \in waitingEntries
    /\ waitingEntries' = waitingEntries \ {k}
    /\ IF k \in processing THEN UNCHANGED <<queue, dirty, processing, shuttingDown>>
                            ELSE AddKey(k)
    /\ UNCHANGED waitingForAddCh

(* waitingLoop adds an entry whose time has come. *)
FireWaiting(k) ==
    /\ ~shuttingDown
    /\ k \in waitingEntries
    /\ waitingEntries' = waitingEntries \ {k}
    /\ AddKey(k)
    /\ UNCHANGED waitingForAddCh

ShutDown ==
    /\ shuttingDown' = TRUE
    /\ UNCHANGED <<queue, dirty, processing, waitingForAddCh, waitingEntries>>
-----------------------------------------------------------------------------
QueueTypeOK ==
    /\ queue \in Seq(Keys)
    /\ dirty \subseteq Keys
    /\ processing \subseteq Keys
    /\ waitingForAddCh \in Seq(Keys)
    /\ waitingEntries \subseteq Keys
    /\ shuttingDown \in BOOLEAN

(* queue.go:48-50, strengthened to an equality: exactly the dirty keys     *)
(* that nobody processes are queued, so no mark is ever stranded.          *)
QueuedIsDirtyAndIdle ==
    \A k \in Keys : InQueue(k) <=> k \in dirty \ processing

(* A key is queued at most once, so two Gets cannot return it twice. *)
QueuedOnce ==
    \A i, j \in 1..Len(queue) : queue[i] = queue[j] => i = j

(* The keys whose retry is on its way to the queue or waits for its time. *)
Delayed == {k \in Keys : InChannel(k) \/ k \in waitingEntries}

(* What PendingWork promises, of this queue. *)
Work == INSTANCE PendingWork WITH
    pending <- dirty,
    running <- processing,
    delayed <- Delayed,
    closed <- shuttingDown
=============================================================================
