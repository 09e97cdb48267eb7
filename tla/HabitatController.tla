------------------------- MODULE HabitatController -------------------------
(***************************************************************************)
(* The Habitat operator's controller (pkg/controller/v1beta2): the caches  *)
(* its informers keep, the event handlers that fill the work queue, and    *)
(* the workers that run conform.                                           *)
(*                                                                         *)
(* Every API call of conform is a step of its own, so whatever the cluster *)
(* and the other workers do can happen between two calls.  A call can fail *)
(* without an effect, or take effect and have its answer lost.  An         *)
(* informer's cache update and the handler it triggers are one step,       *)
(* except for ConfigMap events, whose handler enqueues one Habitat after   *)
(* the other.                                                              *)
(***************************************************************************)
EXTENDS WorkQueue, Cluster

CONSTANTS
    Workers,
    IdleResync \* whether resyncs of an idle controller are unbounded

VARIABLES
    habCache,  \* the Habitat informer's store
    cmCache,   \* the ConfigMap informer's store; its objects are shared
    cmCopy,    \* which object of the cached version that is, from 0 on
    podCache,  \* the phase the pod informer's store holds, "None" if absent
    cmTodo,    \* Habitats that running calls of handleCM still enqueue
    unsynced,  \* initial list items the Habitat and ConfigMap informers owe
    wpc,       \* the API call or other step each worker is at
    wkey,      \* the key it took from the queue, None between two items
    job,       \* the locals of its call of conform
    appliedGen \* history: the generation last written to each StatefulSet

informerVars == <<habCache, cmCache, cmCopy, podCache, cmTodo, unsynced>>
workerVars == <<wpc, wkey, job, appliedGen>>
vars == <<queueVars, clusterVars, informerVars, workerVars>>

ApiCalls == {"Build", "CreateSts", "GetSts", "UpdateSts", "DeletePods",
             "ListPods", "CreateCM", "UpdateCM"}
WorkerStates == ApiCalls \cup {"Get", "Lookup", "FindCM", "WriteLeader",
                               "Requeue", "Done"}

(* conform's locals: the Habitat h, the old template, the IPs of the       *)
(* running pods with the first of them, and the cached ConfigMap, a        *)
(* pointer: two of them are the same object if version and copy agree.     *)
NoJob == [hab |-> None, template |-> None, running |-> {},
          leader |-> NoIP, cm |-> None, copy |-> 0]

Jobs == [hab : Habs \cup {None}, template : Templates \cup {None},
         running : SUBSET (PodIPs \cup {NoIP}),
         leader : PodIPs \cup {NoIP}, cm : ConfigMaps \cup {None},
         copy : Nat]

Holds(w, k) == wpc[w] # "Get" /\ wkey[w] = k

(* Mutant of newStatefulSet: one replica too many. *)
newStatefulSetOneMore(h) ==
    [owner |-> h.uid, template |-> h.spec.template,
     storage |-> h.spec.storage, count |-> h.spec.count + 1]

(* Mutant of newStatefulSet: it carries no owner reference. *)
newStatefulSetUnowned(h) ==
    [owner |-> NoUID, template |-> h.spec.template,
     storage |-> h.spec.storage, count |-> h.spec.count]

(* What newStatefulSet derives from a Habitat. *)
newStatefulSet(h) ==
    [owner |-> h.uid, template |-> h.spec.template,
     storage |-> h.spec.storage, count |-> h.spec.count]

(* handleCM's listing of the Habitat cache, with enqueue's version check. *)
HabitatsIn(n) ==
    {k \in Keys : NsOf[k] = n /\ habCache[k] # None /\ habCache[k].custom}

(* Mutant of habitatNeedsUpdate: only the replicas are compared. *)
countNeedsUpdate(old, new) == old.spec.count # new.spec.count

(* The specs are compared, neither customVersion nor the metadata. *)
habitatNeedsUpdate(old, new) == old.spec # new.spec

(* Mutant of podNeedsUpdate: deletions are no news. *)
podDeleteIsNoNews(old, new) == new # "None" /\ old # new

(* Pods that come, go or change their phase concern the controller. *)
podNeedsUpdate(old, new) == old # new

(* Mutant of podsOutdated: the new StatefulSet is compared with itself. *)
podsNeverOutdated(new, old) == new.template # new.template

(* conform compares the template it wrote with the one it had read before. *)
podsOutdated(new, old) == new.template # old

(* Mutant of leaderRuns: no leader is kept. *)
leaderNeverRuns(c, running) == FALSE

(* conform keeps a leader whose IP is that of a running pod. *)
leaderRuns(c, running) == c.ip \in running

getRunningPods(n) == RunningIPs(n)

(* enqueue ignores a Habitat of another customVersion. *)
enqueue(k, h) == IF h.custom THEN Add(k) ELSE UNCHANGED queueVars

(* The handlers that get a pod or a StatefulSet look its Habitat up in the *)
(* cache and give up when it is not there.                                 *)
enqueueOwner(k) ==
    IF habCache[k] = None THEN UNCHANGED queueVars ELSE enqueue(k, habCache[k])

-----------------------------------------------------------------------------
(* Informers and event handlers.                                           *)

(* handleHabAdd, handleHabUpdate with habitatNeedsUpdate, handleHabDelete. *)
HabEvent(k) ==
    /\ habWatch[k] # <<>>
    /\ LET new == Head(habWatch[k])
           old == habCache[k]
       IN  /\ habCache' = [habCache EXCEPT ![k] = new]
           /\ IF new = None
                THEN IF old = None THEN UNCHANGED queueVars
                                   ELSE enqueue(k, old)
                ELSE IF old = None \/ habitatNeedsUpdate(old, new)
                       THEN enqueue(k, new)
                       ELSE UNCHANGED queueVars
    /\ habWatch' = [habWatch EXCEPT ![k] = Tail(@)]
    /\ unsynced' = unsynced \ {k}
    /\ UNCHANGED <<objectVars, cmWatch, podWatch, stsWatch, budget,
                   cmCache, cmCopy, podCache, cmTodo, workerVars>>

(* A re-list delivers what has not changed as another object.              *)
cmCopied(n) ==
    cmCopy' = [cmCopy EXCEPT ![n] =
                 IF /\ cmCache[n] # None /\ Head(cmWatch[n]) # None
                    /\ Head(cmWatch[n]).rv = cmCache[n].rv
                   THEN @ + 1 ELSE 0]

(* Mutant of CMEvent: there is no handler for deletions. *)
CMEventIgnoresDeletes(n) ==
    /\ cmWatch[n] # <<>>
    /\ cmCache' = [cmCache EXCEPT ![n] = Head(cmWatch[n])]
    /\ cmCopied(n)
    /\ cmWatch' = [cmWatch EXCEPT ![n] = Tail(@)]
    /\ cmTodo' = IF Head(cmWatch[n]) = None THEN cmTodo
                  ELSE [cmTodo EXCEPT ![n] = @ \cup HabitatsIn(n)]
    /\ unsynced' = unsynced \ {n}
    /\ UNCHANGED <<queueVars, objectVars, habWatch, podWatch, stsWatch, budget,
                   habCache, podCache, workerVars>>

(* handleCMAdd, handleCMUpdate and handleCMDelete all start handleCM. *)
CMEvent(n) ==
    /\ cmWatch[n] # <<>>
    /\ cmCache' = [cmCache EXCEPT ![n] = Head(cmWatch[n])]
    /\ cmCopied(n)
    /\ cmWatch' = [cmWatch EXCEPT ![n] = Tail(@)]
    /\ cmTodo' = [cmTodo EXCEPT ![n] = @ \cup HabitatsIn(n)]
    /\ unsynced' = unsynced \ {n}
    /\ UNCHANGED <<queueVars, objectVars, habWatch, podWatch, stsWatch, budget,
                   habCache, podCache, workerVars>>

(* Nothing is queued, delayed, being processed or on its way. *)
Idle ==
    /\ dirty = {} /\ processing = {}
    /\ waitingForAddCh = <<>> /\ waitingEntries = {}
    /\ \A k \in Keys : habWatch[k] = <<>> /\ ~stsWatch[k]
    /\ \A n \in Namespaces : cmWatch[n] = <<>> /\ cmTodo[n] = {}
    /\ \A p \in Pods : podWatch[p] = <<>>

(* Mutant of CMResync: handleCMUpdate drops updates between equal objects, *)
(* as handleHabUpdate and handlePodUpdate do.                              *)
CMResyncDropsEqual(n) ==
    /\ cmCache[n] # None
    /\ (IdleResync /\ Idle /\ UNCHANGED budget) \/ Spend("resync")
    /\ UNCHANGED <<cmTodo, queueVars, objectVars, watchVars, habCache, cmCache,
                   cmCopy, podCache, unsynced, workerVars>>

(* The periodic resync presents every cached ConfigMap to handleCMUpdate.  *)
(* The resyncs of the other informers enqueue nothing: their handlers drop *)
(* updates between equal objects.  With IdleResync it comes as often as the *)
(* clock wants while the controller is idle; else its number is bounded.   *)
CMResync(n) ==
    /\ cmCache[n] # None
    /\ (IdleResync /\ Idle /\ UNCHANGED budget) \/ Spend("resync")
    /\ cmTodo' = [cmTodo EXCEPT ![n] = @ \cup HabitatsIn(n)]
    /\ UNCHANGED <<queueVars, objectVars, watchVars, habCache, cmCache,
                   cmCopy, podCache, unsynced, workerVars>>

(* One iteration of handleCM's loop. *)
CMEnqueues(n, k) ==
    /\ k \in cmTodo[n]
    /\ cmTodo' = [cmTodo EXCEPT ![n] = @ \ {k}]
    /\ Add(k)
    /\ UNCHANGED <<clusterVars, habCache, cmCache, cmCopy, podCache,
                   unsynced, workerVars>>

(* handlePodAdd, handlePodUpdate with podNeedsUpdate, handlePodDelete. *)
PodEvent(p) ==
    /\ podWatch[p] # <<>>
    /\ podCache' = [podCache EXCEPT ![p] = Head(podWatch[p])]
    /\ IF podNeedsUpdate(podCache[p], Head(podWatch[p]))
         THEN enqueueOwner(p[1]) ELSE UNCHANGED queueVars
    /\ podWatch' = [podWatch EXCEPT ![p] = Tail(@)]
    /\ UNCHANGED <<objectVars, habWatch, cmWatch, stsWatch, budget,
                   habCache, cmCache, cmCopy, cmTodo, unsynced, workerVars>>

(* Mutant of StsEvent: the operator does not watch its StatefulSets. *)
StsEventUnwatched(k) ==
    /\ stsWatch[k]
    /\ stsWatch' = [stsWatch EXCEPT ![k] = FALSE]
    /\ UNCHANGED <<queueVars, objectVars, habWatch, cmWatch, podWatch, budget,
                   informerVars, workerVars>>

(* handleStsAdd, handleStsUpdate and handleStsDelete. *)
StsEvent(k) ==
    /\ stsWatch[k]
    /\ stsWatch' = [stsWatch EXCEPT ![k] = FALSE]
    /\ enqueueOwner(k)
    /\ UNCHANGED <<objectVars, habWatch, cmWatch, podWatch, budget,
                   informerVars, workerVars>>

(* handleStsUpdate also sees the status updates of the StatefulSet         *)
(* controller, which may come at any time.                                 *)
StsStatusEvent(k) ==
    /\ sts[k] # None
    /\ Spend("status")
    /\ enqueueOwner(k)
    /\ UNCHANGED <<objectVars, watchVars, informerVars, workerVars>>

(* A watch breaks and the reflector lists again.  The events in between    *)
(* are lost.  What has gone leaves the store and reaches the handlers as a  *)
(* DeletedFinalStateUnknown, which none of them recognises; what was        *)
(* replaced is an update; handleStsUpdate drops what has not changed.       *)
RelistHabs ==
    /\ Spend("relist")
    /\ habWatch' = ListHabs
    /\ habCache' = [k \in Keys |-> IF hab[k] = None THEN None ELSE habCache[k]]
    /\ unsynced' = unsynced \ {k \in Keys : hab[k] = None}
    /\ UNCHANGED <<queueVars, objectVars, cmWatch, podWatch, stsWatch,
                   cmCache, cmCopy, podCache, cmTodo, workerVars>>

RelistCMs ==
    /\ Spend("relist")
    /\ cmWatch' = ListCMs
    /\ cmCache' = [n \in Namespaces |-> IF cm[n] = None THEN None ELSE cmCache[n]]
    /\ unsynced' = unsynced \ {n \in Namespaces : cm[n] = None}
    /\ UNCHANGED <<queueVars, objectVars, habWatch, podWatch, stsWatch,
                   habCache, cmCopy, podCache, cmTodo, workerVars>>

RelistPods ==
    /\ Spend("relist")
    /\ podWatch' = ListPods
    /\ podCache' = [p \in Pods |-> IF pod[p] = None THEN "None" ELSE podCache[p]]
    /\ UNCHANGED <<queueVars, objectVars, habWatch, cmWatch, stsWatch,
                   habCache, cmCache, cmCopy, cmTodo, unsynced, workerVars>>

RelistSts ==
    /\ Spend("relist")
    /\ stsWatch' = [k \in Keys |-> stsWatch[k] /\ sts[k] # None]
    /\ UNCHANGED <<queueVars, objectVars, habWatch, cmWatch, podWatch,
                   informerVars, workerVars>>

-----------------------------------------------------------------------------
(* Workers.                                                                *)

(* Worker w goes on to its next step with the locals j; conform's locals   *)
(* end with it.                                                            *)
Goto(w, step, j) ==
    /\ wpc' = [wpc EXCEPT ![w] = step]
    /\ job' = [job EXCEPT ![w] = IF step \in {"Requeue", "Done"} THEN NoJob ELSE j]

(* A call that took effect returns, or its answer is lost and conform      *)
(* returns the error.                                                      *)
Returns(w, step, j) ==
    \/ Goto(w, step, j) /\ UNCHANGED budget
    \/ Goto(w, "Requeue", j) /\ Spend("fault")

(* A call fails without an effect. *)
ApiCallFails(w) ==
    /\ wpc[w] \in ApiCalls
    /\ Goto(w, "Requeue", NoJob)
    /\ Spend("fault")
    /\ UNCHANGED <<queueVars, objectVars, watchVars, informerVars,
                   wkey, appliedGen>>

(* processNextItem takes a key; Run starts the workers once the caches are *)
(* synced.                                                                 *)
TakeItem(w) ==
    /\ unsynced = {}
    /\ wpc[w] = "Get"
    /\ \E k \in Keys :
         /\ Get(k)
         /\ wkey' = [wkey EXCEPT ![w] = k]
    /\ Goto(w, "Lookup", NoJob)
    /\ UNCHANGED <<clusterVars, informerVars, appliedGen>>

(* conform reads the cache and validates what it finds. *)
LookupHab(w) ==
    /\ wpc[w] = "Lookup"
    /\ LET h == habCache[wkey[w]]
       IN  Goto(w, IF h = None THEN "Done"
                   ELSE IF ~h.spec.valid THEN "Requeue"
                   ELSE IF h.spec.needsSecret THEN "Build"
                   ELSE "CreateSts",
                [NoJob EXCEPT !.hab = h])
    /\ UNCHANGED <<queueVars, clusterVars, informerVars, wkey, appliedGen>>

(* newStatefulSet gets the secrets the Habitat refers to. *)
GetSecrets(w) ==
    /\ wpc[w] = "Build"
    /\ Goto(w, IF wkey[w] \in secrets THEN "CreateSts" ELSE "Requeue", job[w])
    /\ UNCHANGED <<queueVars, clusterVars, informerVars, wkey, appliedGen>>

WriteSts(w) ==
    /\ StoreSts(wkey[w], newStatefulSet(job[w].hab))
    /\ appliedGen' = [appliedGen EXCEPT ![wkey[w]] = job[w].hab.gen]

(* Mutant of CreateSts: a StatefulSet that exists is left as it is. *)
CreateStsKeepsExisting(w) ==
    /\ wpc[w] = "CreateSts"
    /\ \/ /\ sts[wkey[w]] = None
          /\ WriteSts(w)
          /\ Returns(w, "ListPods", job[w])
       \/ /\ sts[wkey[w]] # None
          /\ Goto(w, "ListPods", job[w])
          /\ UNCHANGED <<sts, stsWatch, appliedGen, budget>>
    /\ UNCHANGED <<queueVars, hab, habGen, pod, podGen, cm, cmGen, secrets,
                   habWatch, cmWatch, podWatch, informerVars, wkey>>

CreateSts(w) ==
    /\ wpc[w] = "CreateSts"
    /\ \/ /\ sts[wkey[w]] = None
          /\ WriteSts(w)
          /\ Returns(w, "ListPods", job[w])
       \/ /\ sts[wkey[w]] # None    \* AlreadyExists
          /\ Goto(w, "GetSts", job[w])
          /\ UNCHANGED <<sts, stsWatch, appliedGen, budget>>
    /\ UNCHANGED <<queueVars, hab, habGen, pod, podGen, cm, cmGen, secrets,
                   habWatch, cmWatch, podWatch, informerVars, wkey>>

GetSts(w) ==
    /\ wpc[w] = "GetSts"
    /\ LET s == sts[wkey[w]]
       IN  IF s = None
             THEN Goto(w, "Requeue", NoJob)
             ELSE Goto(w, "UpdateSts", [job[w] EXCEPT !.template = s.template])
    /\ UNCHANGED <<queueVars, clusterVars, informerVars, wkey, appliedGen>>

(* The update carries no resource version, so it overwrites whatever is    *)
(* there; the API server refuses a change of the volume claims.            *)
UpdateSts(w) ==
    /\ wpc[w] = "UpdateSts"
    /\ LET s == sts[wkey[w]]
           new == newStatefulSet(job[w].hab)
       IN  IF s # None /\ s.storage = new.storage
             THEN /\ WriteSts(w)
                  /\ Returns(w, IF podsOutdated(new, job[w].template)
                                  THEN "DeletePods" ELSE "ListPods",
                             [job[w] EXCEPT !.template = None])
             ELSE /\ Goto(w, "Requeue", NoJob)    \* NotFound, Invalid
                  /\ UNCHANGED <<sts, stsWatch, appliedGen, budget>>
    /\ UNCHANGED <<queueVars, hab, habGen, pod, podGen, cm, cmGen, secrets,
                   habWatch, cmWatch, podWatch, informerVars, wkey>>

(* deleteStatefulSetPods; a collection delete that fails may have deleted  *)
(* some of the pods.                                                       *)
DeleteStsPods(w) ==
    /\ wpc[w] = "DeletePods"
    /\ \/ /\ DeletePods(PodsOf(wkey[w]))
          /\ Goto(w, "ListPods", job[w]) /\ UNCHANGED budget
       \/ /\ \E some \in SUBSET PodsOf(wkey[w]) : DeletePods(some)
          /\ Goto(w, "Requeue", NoJob) /\ Spend("fault")
    /\ UNCHANGED <<queueVars, hab, habGen, sts, podGen, cm, cmGen, secrets,
                   habWatch, cmWatch, stsWatch, informerVars, wkey,
                   appliedGen>>

(* getRunningPods, whose first pod may become the leader. *)
ListRunningPods(w) ==
    /\ wpc[w] = "ListPods"
    /\ LET running == getRunningPods(NsOf[wkey[w]])
       IN  \E leader \in (IF running = {} THEN {NoIP} ELSE running) :
             Goto(w, "CreateCM", [job[w] EXCEPT !.running = running,
                                                !.leader = leader])
    /\ UNCHANGED <<queueVars, clusterVars, informerVars, wkey, appliedGen>>

CreateCM(w) ==
    LET k == wkey[w]
        n == NsOf[k]
    IN  /\ wpc[w] = "CreateCM"
        /\ \/ /\ cm[n] = None
              /\ cmGen' = [cmGen EXCEPT ![n] = @ + 1]
              /\ StoreCM(n, [rv |-> cmGen[n] + 1, ip |-> job[w].leader,
                             owner |-> <<k, job[w].hab.uid>>])
              /\ Returns(w, "Done", NoJob)
           \/ /\ cm[n] # None       \* AlreadyExists
              /\ Goto(w, "FindCM", job[w])
              /\ UNCHANGED <<cm, cmGen, cmWatch, budget>>
        /\ UNCHANGED <<queueVars, hab, habGen, sts, pod, podGen, secrets,
                       habWatch, podWatch, stsWatch, informerVars,
                       wkey, appliedGen>>

(* findConfigMapInCache returns the cached object itself; a leader that is *)
(* among the running pods is kept.                                         *)
FindCM(w) ==
    /\ wpc[w] = "FindCM"
    /\ LET c == cmCache[NsOf[wkey[w]]]
       IN  Goto(w, IF c = None THEN "Requeue"
                   ELSE IF leaderRuns(c, job[w].running) THEN "Done"
                   ELSE "WriteLeader",
                [NoJob EXCEPT !.leader = job[w].leader, !.cm = c,
                              !.copy = cmCopy[NsOf[wkey[w]]]])
    /\ UNCHANGED <<queueVars, clusterVars, informerVars, wkey, appliedGen>>

(* Whether worker v holds the ConfigMap object that w holds. *)
SameCM(v, w) ==
    /\ job[v].cm # None    \* hence v has a key
    /\ NsOf[wkey[v]] = NsOf[wkey[w]]
    /\ job[v].cm.rv = job[w].cm.rv /\ job[v].copy = job[w].copy

(* Whether it is still the one in the informer's store. *)
CachedCM(w) ==
    LET c == cmCache[NsOf[wkey[w]]]
    IN  c # None /\ c.rv = job[w].cm.rv /\ cmCopy[NsOf[wkey[w]]] = job[w].copy

(* Mutant of WriteLeader: an empty IP is assigned but not sent. *)
WriteLeaderInCache(w) ==
    LET n == NsOf[wkey[w]]
        ip == job[w].leader
    IN  /\ wpc[w] = "WriteLeader"
        /\ cmCache' = IF CachedCM(w) THEN [cmCache EXCEPT ![n].ip = ip]
                                     ELSE cmCache
        /\ job' = [v \in Workers |->
                     IF SameCM(v, w) THEN [job[v] EXCEPT !.cm.ip = ip]
                                     ELSE job[v]]
        /\ wpc' = [wpc EXCEPT ![w] = IF ip = NoIP THEN "Done" ELSE "UpdateCM"]
        /\ UNCHANGED <<queueVars, clusterVars, habCache, cmCopy, podCache,
                       cmTodo, unsynced, wkey, appliedGen>>

(* writeLeaderIP assigns to the object's data, seen by the informer's      *)
(* store and by every worker that holds the same object.                   *)
WriteLeader(w) ==
    LET n == NsOf[wkey[w]]
        ip == job[w].leader
    IN  /\ wpc[w] = "WriteLeader"
        /\ cmCache' = IF CachedCM(w) THEN [cmCache EXCEPT ![n].ip = ip]
                                     ELSE cmCache
        /\ job' = [v \in Workers |->
                     IF SameCM(v, w) THEN [job[v] EXCEPT !.cm.ip = ip]
                                     ELSE job[v]]
        /\ wpc' = [wpc EXCEPT ![w] = "UpdateCM"]
        /\ UNCHANGED <<queueVars, clusterVars, habCache, cmCopy, podCache,
                       cmTodo, unsynced, wkey, appliedGen>>

(* writeLeaderIP sends the object as it is now; the API server checks its  *)
(* resource version and does not store what changes nothing.               *)
UpdateCM(w) ==
    LET n == NsOf[wkey[w]]
        c == job[w].cm
    IN  /\ wpc[w] = "UpdateCM"
        /\ IF cm[n] # None /\ cm[n].rv = c.rv /\ cm[n] # c
             THEN /\ cmGen' = [cmGen EXCEPT ![n] = @ + 1]
                  /\ StoreCM(n, [c EXCEPT !.rv = cmGen[n] + 1])
                  /\ Returns(w, "Done", NoJob)
             ELSE /\ Goto(w, IF cm[n] = c THEN "Done"
                             ELSE "Requeue",    \* NotFound, Conflict
                          NoJob)
                  /\ UNCHANGED <<cm, cmGen, cmWatch, budget>>
        /\ UNCHANGED <<queueVars, hab, habGen, sts, pod, podGen, secrets,
                       habWatch, podWatch, stsWatch, informerVars,
                       wkey, appliedGen>>

(* Mutant of Requeue: the error is logged and forgotten. *)
RequeueForgets(w) ==
    /\ wpc[w] = "Requeue"
    /\ Goto(w, "Done", NoJob)
    /\ UNCHANGED <<queueVars, clusterVars, informerVars, wkey, appliedGen>>

(* conform failed: AddRateLimited before the deferred Done. *)
Requeue(w) ==
    /\ wpc[w] = "Requeue"
    /\ AddRateLimited(wkey[w])
    /\ Goto(w, "Done", NoJob)
    /\ UNCHANGED <<clusterVars, informerVars, wkey, appliedGen>>

FinishItem(w) ==
    /\ wpc[w] = "Done"
    /\ Done(wkey[w])
    /\ Goto(w, "Get", NoJob)
    /\ wkey' = [wkey EXCEPT ![w] = None]
    /\ UNCHANGED <<clusterVars, informerVars, appliedGen>>

(* The queue's waiting loop. *)
WaitingLoopReceives ==
    ReceiveWaiting /\ UNCHANGED <<clusterVars, informerVars, workerVars>>

WaitingLoopFires(k) ==
    FireWaiting(k) /\ UNCHANGED <<clusterVars, informerVars, workerVars>>

-----------------------------------------------------------------------------
(* A controller that starts in a cluster where nothing was deployed: empty *)
(* caches, and everything still to be listed.                              *)
StartInit ==
    /\ sts = [k \in Keys |-> None]
    /\ pod = [p \in Pods |-> None]
    /\ podGen = [p \in Pods |-> 0]
    /\ cm = [n \in Namespaces |-> None]
    /\ cmGen = [n \in Namespaces |-> 0]
    /\ habWatch = ListHabs
    /\ habCache = [k \in Keys |-> None]
    /\ cmCache = [n \in Namespaces |-> None]
    /\ podCache = [p \in Pods |-> "None"]
    /\ unsynced = {k \in Keys : hab[k] # None}
    /\ appliedGen = [k \in Keys |-> 0]

(* A controller that deployed all initial Habitats and came to rest.       *)
DeployedInit ==
    /\ sts = [k \in Keys |-> IF hab[k] = None THEN None
                              ELSE newStatefulSet(hab[k])]
    /\ pod = [p \in Pods |->
                 IF sts[p[1]] = None \/ p[2] >= sts[p[1]].count THEN None
                 ELSE [phase |-> "Running", terminating |-> FALSE,
                       template |-> sts[p[1]].template, ip |-> <<p, 1>>]]
    /\ podGen = [p \in Pods |-> IF pod[p] = None THEN 0 ELSE 1]
    /\ \E owner \in [Namespaces -> {k \in Keys : hab[k] # None}],
          leader \in [Namespaces -> (Pods \X {1}) \cup {NoIP}] :
         /\ \A n \in Namespaces :
              /\ NsOf[owner[n]] = n
              /\ IF RunningIPs(n) = {} THEN leader[n] = NoIP
                                       ELSE leader[n] \in RunningIPs(n)
         /\ cm = [n \in Namespaces |->
                     [rv |-> 1, ip |-> leader[n], owner |-> <<owner[n], 1>>]]
    /\ cmGen = [n \in Namespaces |-> 1]
    /\ habWatch = [k \in Keys |-> <<>>]
    /\ habCache = hab
    /\ cmCache = cm
    /\ podCache = [p \in Pods |-> PhaseOf(p)]
    /\ unsynced = {}
    /\ appliedGen = [k \in Keys |-> IF hab[k] = None THEN 0 ELSE 1]

Init ==
    /\ \E s \in Scenarios :
         /\ ClusterInit(s)
         /\ IF s.deployed THEN DeployedInit ELSE StartInit
    /\ QueueInit
    /\ cmCopy = [n \in Namespaces |-> 0]
    /\ cmTodo = [n \in Namespaces |-> {}]
    /\ wpc = [w \in Workers |-> "Get"]
    /\ wkey = [w \in Workers |-> None]
    /\ job = [w \in Workers |-> NoJob]

(* The operator dies between any two steps and is started again. *)
Crash ==
    /\ Spend("crash")
    /\ queue' = <<>> /\ dirty' = {} /\ processing' = {}
    /\ waitingForAddCh' = <<>> /\ waitingEntries' = {}
    /\ habCache' = [k \in Keys |-> None] /\ habWatch' = ListHabs
    /\ cmCache' = [n \in Namespaces |-> None] /\ cmWatch' = ListCMs
    /\ cmCopy' = [n \in Namespaces |-> 0]
    /\ podCache' = [p \in Pods |-> "None"] /\ podWatch' = ListPods
    /\ stsWatch' = ListSts
    /\ cmTodo' = [n \in Namespaces |-> {}]
    /\ unsynced' = {k \in Keys : hab[k] # None}
                     \cup {n \in Namespaces : cm[n] # None}
    /\ wpc' = [w \in Workers |-> "Get"]
    /\ wkey' = [w \in Workers |-> None]
    /\ job' = [w \in Workers |-> NoJob]
    /\ UNCHANGED <<shuttingDown, objectVars, appliedGen>>

WorkerStep(w) ==
    \/ TakeItem(w) \/ LookupHab(w) \/ GetSecrets(w)
    \/ CreateSts(w) \/ GetSts(w) \/ UpdateSts(w) \/ DeleteStsPods(w)
    \/ ListRunningPods(w) \/ CreateCM(w) \/ FindCM(w) \/ WriteLeader(w)
    \/ UpdateCM(w) \/ Requeue(w) \/ FinishItem(w)

ControllerStutters ==
    UNCHANGED <<queueVars, informerVars, workerVars>>

ClusterStep ==
    /\ \/ UserStep
       \/ \E p \in Pods : PodStep(p)
       \/ \E k \in Keys : CollectSts(k)
       \/ \E n \in Namespaces : CollectCM(n)
    /\ ControllerStutters

InformerStep ==
    \/ \E k \in Keys : HabEvent(k) \/ StsEvent(k) \/ StsStatusEvent(k)
    \/ \E n \in Namespaces : \/ CMEvent(n) \/ CMResync(n)
                             \/ \E k \in Keys : CMEnqueues(n, k)
    \/ \E p \in Pods : PodEvent(p)
    \/ RelistHabs \/ RelistCMs \/ RelistPods \/ RelistSts

Next ==
    \/ \E w \in Workers : WorkerStep(w) \/ ApiCallFails(w)
    \/ InformerStep
    \/ WaitingLoopReceives
    \/ \E k \in Keys : WaitingLoopFires(k)
    \/ ClusterStep
    \/ Crash

Spec == Init /\ [][Next]_vars

(* Goroutines run, events are delivered, delays expire, the ConfigMap      *)
(* resync is periodic, and the cluster's own controllers do their work.    *)
(* No user, failure or status update is obliged to happen.                 *)
Fairness ==
    /\ \A w \in Workers : WF_vars(WorkerStep(w))
    /\ WF_vars(WaitingLoopReceives)
    /\ \A k \in Keys : /\ WF_vars(WaitingLoopFires(k))
                       /\ WF_vars(HabEvent(k)) /\ WF_vars(StsEvent(k))
                       /\ WF_vars(CollectSts(k) /\ ControllerStutters)
    /\ \A n \in Namespaces : /\ WF_vars(CMEvent(n)) /\ WF_vars(CMResync(n))
                             /\ WF_vars(CollectCM(n) /\ ControllerStutters)
                             /\ \A k \in Keys : WF_vars(CMEnqueues(n, k))
    /\ \A p \in Pods : /\ WF_vars(PodEvent(p))
                       /\ WF_vars(PodStep(p) /\ ControllerStutters)

FairSpec == Spec /\ Fairness
-----------------------------------------------------------------------------
TypeOK ==
    /\ QueueTypeOK
    /\ ClusterTypeOK
    /\ habCache \in [Keys -> Habs \cup {None}]
    /\ cmCache \in [Namespaces -> ConfigMaps \cup {None}]
    /\ cmCopy \in [Namespaces -> Nat]
    /\ podCache \in [Pods -> {"None", "Pending", "Running"}]
    /\ cmTodo \in [Namespaces -> SUBSET Keys]
    /\ unsynced \subseteq Keys \cup Namespaces
    /\ wpc \in [Workers -> WorkerStates]
    /\ wkey \in [Workers -> Keys \cup {None}]
    /\ job \in [Workers -> Jobs]
    /\ appliedGen \in [Keys -> Nat]

(* processing is exactly what the workers hold, over crashes too. *)
ProcessingIsHeld ==
    \A k \in Keys : k \in processing <=> \E w \in Workers : Holds(w, k)

(* The controller does what PendingWork promises, whatever its handlers and *)
(* workers make of it; only a crash forgets the marks and starts afresh.   *)
Promise ==
    Work!Init /\ [][Work!Next \/ (Crash /\ (Work!Init)')]_(Work!vars)

(* conform reads and writes a Habitat's StatefulSet in several calls and   *)
(* relies on nobody else doing the same for that Habitat.                  *)
OneWorkerPerHabitat ==
    \A v, w \in Workers :
        \A k \in Keys : Holds(v, k) /\ Holds(w, k) => v = w

(* conform deploys no Habitat of another customVersion: the controllers    *)
(* decide by that field which objects to operate on (design.md:70-72).     *)
OnlyOwnVersion ==
    \A w \in Workers : wpc[w] = "CreateSts" => job[w].hab.custom

(* A StatefulSet never goes back to an older version of its Habitat: the   *)
(* update in UpdateSts carries no resource version, so only the order of   *)
(* the snapshots protects it.                                              *)
NoRollback == [][\A k \in Keys : appliedGen[k] <= appliedGen'[k]]_vars

(* The IP of a running pod is not taken out of the ConfigMap: the comment  *)
(* at controller.go:459-460 and design.md:46-47 replace only the IP of a   *)
(* pod that is not running.                                                *)
LeaderNotEvicted ==
    [][\A n \in Namespaces :
          cm[n] # None /\ cm'[n] # None /\ cm[n].ip # cm'[n].ip
              => cm[n].ip \notin RunningIPs(n)]_vars

(* Between two writes of its own the operator's cached ConfigMap is what   *)
(* the API server stores under the same version: the assignment in         *)
(* writeLeaderIP to the shared object is made good by the update it sends. *)
CachedCMIsStored ==
    \A n \in Namespaces :
        /\ cmCache[n] # None /\ cm[n] # None
        /\ cmCache[n].rv = cm[n].rv
        /\ \A w \in Workers : wpc[w] # "UpdateCM"
        => cmCache[n] = cm[n]

(* The Habitats the controller has to deploy, and a StatefulSet as it has  *)
(* to be.                                                                  *)
Desired(k) ==
    /\ hab[k] # None /\ hab[k].custom /\ hab[k].spec.valid
    /\ hab[k].spec.needsSecret => k \in secrets

Conforms(k) == sts[k] = newStatefulSet(hab[k])

PeerValid(n) ==
    /\ cm[n] # None
    /\ IF RunningIPs(n) = {} THEN cm[n].ip = NoIP
                             ELSE cm[n].ip \in RunningIPs(n)

PodCurrent(p) ==
    \/ pod[p] = None \/ sts[p[1]] = None
    \/ pod[p].template = sts[p[1]].template \/ pod[p].terminating

(* The controller has come to rest and the garbage collector too. *)
AtRest ==
    /\ Idle /\ unsynced = {}
    /\ \A k \in Keys : sts[k] # None => Live(<<k, sts[k].owner>>)
    /\ \A n \in Namespaces : cm[n] # None => Live(cm[n].owner)

(* No wakeup is lost: a controller that has nothing left to do has         *)
(* deployed every Habitat as its latest version says.                      *)
RestMeansDeployed ==
    AtRest => \A k \in Keys : Desired(k) => Conforms(k)

(* ... and all pods were created from the current template; the update     *)
(* strategy OnDelete leaves that to conform (stateful_sets.go:152-158).    *)
RestMeansPodsCurrent ==
    AtRest => \A p \in Pods : Desired(p[1]) => PodCurrent(p)

(* ... and each namespace's peer IP is that of a running pod, or empty     *)
(* when no pod runs.                                                       *)
RestMeansPeerValid ==
    AtRest => \A n \in Namespaces :
        (\E k \in Keys : NsOf[k] = n /\ Desired(k)) => PeerValid(n)

(* What the users ask for is deployed in the end, whatever came between.   *)
EventuallyDeployed == \A k \in Keys : <>[](Desired(k) => Conforms(k))

(* In the end the peer IP is right (design.md:43-47), also after events    *)
(* that reached no handler: the ConfigMap resync repairs what they miss.   *)
EventuallyPeerValid ==
    \A n \in Namespaces :
        <>[]((\E k \in Keys : NsOf[k] = n /\ Desired(k)) => PeerValid(n))

(* Nothing of a deleted Habitat stays (design.md:13-14), not even what a   *)
(* worker creates from the snapshot of a Habitat that is gone.             *)
EventuallyCollected ==
    \A k \in Keys : <>[](hab[k] = None => sts[k] = None /\ PodsOf(k) = {})
=============================================================================
