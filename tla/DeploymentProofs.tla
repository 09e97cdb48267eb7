-------------------------- MODULE DeploymentProofs --------------------------
(***************************************************************************)
(* What is deployed when the controller comes to rest, for any cluster,    *)
(* any workers and any disturbances: no wakeup is lost, and no pod of an   *)
(* old template is forgotten.  And what is never deployed: a Habitat of    *)
(* another version of the controller, and no version of a Habitat after a  *)
(* newer one.                                                              *)
(***************************************************************************)
EXTENDS HabitatControllerProofs

(* Somebody will take k from the queue. *)
Marked(k) == k \in dirty \/ k \in waitingEntries \/ InChannel(k)

Reads(w, k) == wpc[w] \in {"Lookup", "Requeue"} /\ wkey[w] = k

(* Worker w has the spec of k that the cache has, and will write it, or    *)
(* come back to k.                                                         *)
Writes(w, k) ==
    /\ wpc[w] \in {"Build", "CreateSts", "GetSts", "UpdateSts"} /\ wkey[w] = k
    /\ job[w].hab.spec = habCache[k].spec

WillDeploy(k) == \E w \in Workers : Reads(w, k) \/ Writes(w, k)

(* The StatefulSet is as the cached Habitat wants it, but for its owner.   *)
SpecOfSts(s) == [template |-> s.template, storage |-> s.storage, count |-> s.count]

AsCached(k) ==
    /\ sts[k] # None
    /\ SpecOfSts(sts[k]) = SpecOfSts(newStatefulSet(habCache[k]))

Remembered(k) == Marked(k) \/ stsWatch[k] \/ WillDeploy(k) \/ AsCached(k)

(* No wakeup is lost: what is cached is deployed, or will be.  A change of *)
(* the StatefulSet counts as a wakeup, whoever makes it: that of a worker  *)
(* with an old snapshot is found out like a user's.                        *)
Accounted(k) == habCache[k] # None /\ habCache[k].custom => Remembered(k)

(* The watch ends with what is stored, and an empty one has delivered it.  *)
UpToDate(k) ==
    IF habWatch[k] = <<>> THEN habCache[k] = hab[k]
    ELSE habWatch[k][Len(habWatch[k])] = hab[k]

(* No Habitat, on none of its stations, has the UID that stands for none.  *)
Identified(h) == h # None => h.uid # NoUID

StreamIdentified(k) ==
    /\ Identified(hab[k]) /\ Identified(habCache[k])
    /\ \A i \in 1..Len(habWatch[k]) : Identified(habWatch[k][i])

OwnersKnown ==
    /\ \A k \in Keys :
         StreamIdentified(k) /\ (sts[k] # None => sts[k].owner # NoUID)
    /\ \A w \in Workers : Identified(job[w].hab)

WakeupInv ==
    /\ shuttingDown = FALSE
    /\ OwnersKnown
    /\ \A k \in Keys : UpToDate(k) /\ Accounted(k)

-----------------------------------------------------------------------------
(* The queue forgets a key only when a worker takes it.                    *)
LEMMA AddMarks ==
    ASSUME shuttingDown = FALSE, NEW j, Add(j), NEW k
    PROVE  /\ Marked(k) => Marked(k)'
           /\ Marked(j)'
BY DEF Add, AddKey, delayVars, Marked, InChannel

LEMMA AppendFinds ==
    ASSUME QInv, NEW j \in Keys, NEW k,
           waitingForAddCh' = Append(waitingForAddCh, j)
    PROVE  /\ InChannel(k) => InChannel(k)'
           /\ InChannel(j)'
<1>1. PICK n \in Nat : n = Len(waitingForAddCh)
  BY DEF QInv, QueueTypeOK
<1>2. /\ Len(waitingForAddCh') = n + 1 /\ waitingForAddCh'[n + 1] = j
      /\ \A i \in 1..n : waitingForAddCh'[i] = waitingForAddCh[i]
  BY <1>1 DEF QInv, QueueTypeOK
<1>3. InChannel(j)'
  BY <1>1, <1>2 DEF InChannel
<1>4. InChannel(k) => InChannel(k)'
  BY <1>1, <1>2 DEF InChannel
<1>5. QED
  BY <1>3, <1>4

LEMMA AddRateLimitedMarks ==
    ASSUME QInv, shuttingDown = FALSE, NEW j \in Keys, AddRateLimited(j), NEW k
    PROVE  /\ Marked(k) => Marked(k)'
           /\ Marked(j)'
BY AppendFinds DEF AddRateLimited, Marked

LEMMA ReceiveWaitingMarks ==
    ASSUME QInv, shuttingDown = FALSE, ReceiveWaiting, NEW k, Marked(k)
    PROVE  Marked(k)'
<1>1. CASE InChannel(k)
  <2>1. PICK i \in 1..Len(waitingForAddCh) : waitingForAddCh[i] = k
    BY <1>1 DEF InChannel
  <2>2. CASE i = 1
    BY <2>1, <2>2 DEF ReceiveWaiting, AddKey, Marked
  <2>3. CASE i # 1
    <3>1. /\ waitingForAddCh \in Seq(Keys) /\ waitingForAddCh # <<>>
          /\ waitingForAddCh' = Tail(waitingForAddCh)
      BY DEF ReceiveWaiting, QInv, QueueTypeOK
    <3>2. /\ i - 1 \in 1..Len(waitingForAddCh')
          /\ waitingForAddCh'[i - 1] = k
      BY <2>1, <2>3, <3>1
    <3>3. QED
      BY <3>2 DEF Marked, InChannel
  <2>4. QED
    BY <2>2, <2>3
<1>2. CASE k \in dirty \/ k \in waitingEntries
  BY <1>2 DEF ReceiveWaiting, AddKey, Marked
<1>3. QED
  BY <1>1, <1>2 DEF Marked

LEMMA FireWaitingMarks ==
    ASSUME shuttingDown = FALSE, NEW j, FireWaiting(j), NEW k, Marked(k)
    PROVE  Marked(k)'
BY DEF FireWaiting, AddKey, Marked, InChannel

LEMMA DoneMarks ==
    ASSUME NEW j, Done(j), NEW k, Marked(k)
    PROVE  Marked(k)'
BY DEF Done, Marked, InChannel

LEMMA GetMarks ==
    ASSUME NEW j, Get(j), NEW k, k # j, Marked(k)
    PROVE  Marked(k)'
BY DEF Get, Marked, InChannel

LEMMA SameQueueMarks ==
    ASSUME UNCHANGED queueVars, NEW k
    PROVE  Marked(k)' <=> Marked(k)
BY DEF queueVars, Marked, InChannel

(* A Habitat of the operator's own version that a handler enqueues is      *)
(* marked, and every other mark is kept.                                   *)
LEMMA EnqueueMarks ==
    ASSUME shuttingDown = FALSE, NEW j, NEW k,
           \/ UNCHANGED queueVars \/ Add(j)
           \/ enqueueOwner(j)
           \/ \E h : enqueue(j, h)
    PROVE  Marked(k) => Marked(k)'
<1>1. UNCHANGED queueVars \/ Add(j)
  BY DEF enqueueOwner, enqueue
<1>2. QED
  BY <1>1, AddMarks, SameQueueMarks

-----------------------------------------------------------------------------
(* Workers.                                                                *)

(* The other workers stay where they are, with what they read.             *)
Stays(v) ==
    /\ wpc'[v] = wpc[v] /\ wkey'[v] = wkey[v]
    /\ job'[v].hab = job[v].hab /\ job'[v].template = job[v].template

LEMMA StaysDeploys ==
    ASSUME NEW v, NEW k, Stays(v), habCache'[k] = habCache[k]
    PROVE  /\ Reads(v, k) => Reads(v, k)'
           /\ Writes(v, k) => Writes(v, k)'
BY DEF Stays, Reads, Writes

(* Worker w goes on with the Habitat of j. *)
LEMMA GotoStays ==
    ASSUME TypeInv, NEW w \in Workers, NEW step, NEW j, Goto(w, step, j),
           wkey' = wkey \/ \E x : wkey' = [wkey EXCEPT ![w] = x]
    PROVE  /\ \A v \in Workers \ {w} : Stays(v)
           /\ wpc'[w] = step
           /\ job'[w].hab = None \/ job'[w].hab = j.hab
           /\ step \notin {"Requeue", "Done"} => job'[w].hab = j.hab
<1>1. /\ job \in [Workers -> Jobs] /\ wpc \in [Workers -> WorkerStates]
      /\ wkey \in [Workers -> Keys \cup {None}]
  BY DEF TypeInv, JobsOK, MutexInv, WorkersOK
<1>2. PICK l : /\ job' = [job EXCEPT ![w] = l]
               /\ l.hab = None \/ l.hab = j.hab
               /\ step \notin {"Requeue", "Done"} => l.hab = j.hab
  <2>1. CASE step \in {"Requeue", "Done"}
    BY <2>1 DEF Goto, NoJob
  <2>2. CASE step \notin {"Requeue", "Done"}
    BY <2>2 DEF Goto
  <2>3. QED
    BY <2>1, <2>2
<1>3. wpc' = [wpc EXCEPT ![w] = step]
  BY DEF Goto
<1>4. QED
  BY <1>1, <1>2, <1>3 DEF Stays

LEMMA ReturnsStays ==
    ASSUME TypeInv, NEW w \in Workers, NEW step, NEW j, Returns(w, step, j),
           wkey' = wkey
    PROVE  /\ \A v \in Workers \ {w} : Stays(v)
           /\ wpc'[w] \in {step, "Requeue"}
           /\ job'[w].hab = None \/ job'[w].hab = j.hab
BY GotoStays DEF Returns

(* What a step of worker w means for k: the others stay, and what w had to *)
(* do for k is done, or is still to be done.                               *)
Relays(w, k) ==
    /\ \A v \in Workers \ {w} : Stays(v)
    /\ Marked(k) => Marked(k)' \/ Reads(w, k)'
    /\ stsWatch[k] => stsWatch'[k]
    /\ sts'[k] = sts[k] \/ stsWatch'[k]
    /\ Reads(w, k) \/ Writes(w, k) => Remembered(k)'

LEMMA RelaysAccounted ==
    ASSUME NEW w \in Workers, NEW k \in Keys, habCache' = habCache,
           habCache[k] # None => Relays(w, k), Accounted(k)
    PROVE  Accounted(k)'
<1> SUFFICES ASSUME habCache[k] # None, Remembered(k) PROVE Remembered(k)'
  BY DEF Accounted
<1>1. Relays(w, k)
  OBVIOUS
<1>2. CASE Marked(k)
  BY <1>1, <1>2 DEF Relays, Remembered, WillDeploy
<1>3. CASE stsWatch[k]
  BY <1>1, <1>3 DEF Relays, Remembered
<1>4. CASE WillDeploy(k)
  <2>1. PICK v \in Workers : Reads(v, k) \/ Writes(v, k)
    BY <1>4 DEF WillDeploy
  <2>2. CASE v = w
    BY <1>1, <2>1, <2>2 DEF Relays
  <2>3. CASE v # w
    <3>1. Reads(v, k)' \/ Writes(v, k)'
      BY <1>1, <2>1, <2>3, StaysDeploys DEF Relays
    <3>2. QED
      BY <3>1 DEF Remembered, WillDeploy
  <2>4. QED
    BY <2>2, <2>3
<1>5. CASE AsCached(k)
  BY <1>1, <1>5 DEF Relays, Remembered, AsCached
<1>6. QED
  BY <1>2, <1>3, <1>4, <1>5 DEF Remembered

(* A step that leaves queue and StatefulSets alone. *)
LEMMA QuietRelays ==
    ASSUME NEW w \in Workers, NEW k, UNCHANGED <<queueVars, sts, stsWatch>>,
           \A v \in Workers \ {w} : Stays(v),
           Reads(w, k) \/ Writes(w, k) => Reads(w, k)' \/ Writes(w, k)'
    PROVE  Relays(w, k)
<1>1. Marked(k) => Marked(k)'
  BY SameQueueMarks
<1>2. Reads(w, k) \/ Writes(w, k) => Remembered(k)'
  BY DEF Remembered, WillDeploy
<1>3. QED
  BY <1>1, <1>2 DEF Relays

LEMMA TakeItemRelays ==
    ASSUME TypeInv, NEW w \in Workers, TakeItem(w), NEW k
    PROVE  Relays(w, k)
<1>1. PICK j \in Keys : Get(j) /\ wkey' = [wkey EXCEPT ![w] = j]
  BY DEF TakeItem
<1>2. (\A v \in Workers \ {w} : Stays(v)) /\ wpc'[w] = "Lookup"
  BY <1>1, GotoStays DEF TakeItem
<1>3. wkey'[w] = j /\ wpc[w] = "Get"
  BY <1>1 DEF TypeInv, MutexInv, WorkersOK, TakeItem
<1>4. Marked(k) => Marked(k)' \/ Reads(w, k)'
  BY <1>1, <1>2, <1>3, GetMarks DEF Reads
<1>5. UNCHANGED <<sts, stsWatch>>
  BY DEF TakeItem, clusterVars, objectVars, watchVars
<1>6. QED
  BY <1>2, <1>3, <1>4, <1>5 DEF Relays, Reads, Writes

LEMMA LookupHabRelays ==
    ASSUME TypeInv, NEW w \in Workers, LookupHab(w), NEW k, habCache[k] # None
    PROVE  Relays(w, k)
<1>1. PICK j : j = [NoJob EXCEPT !.hab = habCache[wkey[w]]]
  OBVIOUS
<1>2. /\ wpc[w] = "Lookup" /\ wkey' = wkey
      /\ UNCHANGED <<queueVars, sts, stsWatch, habCache>>
  BY DEF LookupHab, clusterVars, objectVars, watchVars, informerVars
<1>3. PICK step :
        /\ Goto(w, step, j)
        /\ habCache[wkey[w]] # None => step \in {"Requeue", "Build", "CreateSts"}
  <2>1. Goto(w, IF habCache[wkey[w]] = None THEN "Done"
                ELSE IF ~habCache[wkey[w]].spec.valid THEN "Requeue"
                ELSE IF habCache[wkey[w]].spec.needsSecret THEN "Build"
                ELSE "CreateSts", j)
    BY <1>1, Zenon DEF LookupHab
  <2>2. QED
    BY <2>1
<1>4. /\ \A v \in Workers \ {w} : Stays(v)
      /\ wpc'[w] = step
      /\ step # "Requeue" /\ step # "Done" => job'[w].hab = j.hab
  BY <1>2, <1>3, GotoStays
<1>5. j.hab = habCache[wkey[w]]
  BY <1>1 DEF NoJob
<1>6. ASSUME Reads(w, k) \/ Writes(w, k) PROVE Reads(w, k)' \/ Writes(w, k)'
  BY <1>2, <1>3, <1>4, <1>5, <1>6 DEF Reads, Writes
<1>7. QED
  BY <1>2, <1>4, <1>6, QuietRelays

(* Between the lookup and the write. *)
LEMMA CallsRelay ==
    ASSUME TypeInv, NEW w \in Workers,
           GetSecrets(w) \/ GetSts(w) \/ ApiCallFails(w), NEW k
    PROVE  Relays(w, k)
<1>1. /\ wpc[w] \in ApiCalls /\ wkey' = wkey
      /\ UNCHANGED <<queueVars, sts, stsWatch, habCache>>
  BY DEF GetSecrets, GetSts, ApiCallFails, clusterVars, objectVars, watchVars,
         informerVars, ApiCalls
<1>2. PICK step, j : /\ Goto(w, step, j)
                     /\ \/ step = "Requeue"
                        \/ /\ step \in {"CreateSts", "UpdateSts"}
                           /\ j.hab = job[w].hab
  <2>1. job[w] \in Jobs
    BY DEF TypeInv, JobsOK
  <2>2. \A t : [job[w] EXCEPT !.template = t].hab = job[w].hab
    BY <2>1 DEF Jobs
  <2>3. CASE GetSts(w)
    BY <2>2, <2>3 DEF GetSts
  <2>4. CASE GetSecrets(w) \/ ApiCallFails(w)
    BY <2>4 DEF GetSecrets, ApiCallFails
  <2>5. QED
    BY <2>3, <2>4
<1>3. /\ \A v \in Workers \ {w} : Stays(v)
      /\ wpc'[w] = step
      /\ step # "Requeue" => job'[w].hab = job[w].hab
  BY <1>1, <1>2, GotoStays
<1>4. ASSUME Reads(w, k) \/ Writes(w, k) PROVE Reads(w, k)' \/ Writes(w, k)'
  BY <1>1, <1>2, <1>3, <1>4 DEF Reads, Writes, ApiCalls
<1>5. QED
  BY <1>1, <1>3, <1>4, QuietRelays

(* The steps behind the write. *)
LEMMA LaterStepsRelay ==
    ASSUME TypeInv, NEW w \in Workers, NEW k,
           \/ DeleteStsPods(w) \/ ListRunningPods(w) \/ CreateCM(w) \/ FindCM(w)
           \/ WriteLeader(w) \/ UpdateCM(w)
    PROVE  Relays(w, k)
<1>1. /\ UNCHANGED <<queueVars, sts, stsWatch>> /\ wkey' = wkey
      /\ wpc[w] \in {"DeletePods", "ListPods", "CreateCM", "FindCM",
                      "WriteLeader", "UpdateCM"}
  BY DEF DeleteStsPods, ListRunningPods, CreateCM, FindCM, WriteLeader, UpdateCM,
         clusterVars, objectVars, watchVars
<1>2. \A v \in Workers \ {w} : Stays(v)
  <2>1. CASE WriteLeader(w)
    <3>1. /\ job \in [Workers -> Jobs] /\ wpc \in [Workers -> WorkerStates]
          /\ wpc' = [wpc EXCEPT ![w] = "UpdateCM"]
      BY <2>1 DEF TypeInv, JobsOK, MutexInv, WorkersOK, WriteLeader
    <3>2. PICK ip : job' = [v \in Workers |->
                      IF SameCM(v, w) THEN [job[v] EXCEPT !.cm.ip = ip] ELSE job[v]]
      BY <2>1 DEF WriteLeader
    <3>3. \A v \in Workers : /\ [job[v] EXCEPT !.cm.ip = ip].hab = job[v].hab
                             /\ [job[v] EXCEPT !.cm.ip = ip].template = job[v].template
      BY <3>1 DEF Jobs
    <3>4. \A v \in Workers : /\ job'[v].hab = job[v].hab
                             /\ job'[v].template = job[v].template
      BY <3>2, <3>3
    <3>5. QED
      BY <1>1, <3>1, <3>4 DEF Stays
  <2>2. CASE ~WriteLeader(w)
    <3>1. \E step, j : Goto(w, step, j)
      BY <2>2 DEF DeleteStsPods, ListRunningPods, CreateCM, FindCM, UpdateCM, Returns
    <3>2. QED
      BY <1>1, <3>1, GotoStays
  <2>3. QED
    BY <2>1, <2>2
<1>3. ~Reads(w, k) /\ ~Writes(w, k)
  BY <1>1 DEF Reads, Writes
<1>4. QED
  BY <1>1, <1>2, <1>3, QuietRelays

LEMMA RequeueRelays ==
    ASSUME TypeInv, shuttingDown = FALSE, NEW w \in Workers,
           Requeue(w) \/ FinishItem(w), NEW k
    PROVE  Relays(w, k)
<1>1. UNCHANGED <<sts, stsWatch>> /\ wpc[w] \in {"Requeue", "Done"}
  BY DEF Requeue, FinishItem, clusterVars, objectVars, watchVars
<1>2. \A v \in Workers \ {w} : Stays(v)
  BY GotoStays DEF Requeue, FinishItem
<1>3. wkey[w] \in Keys /\ QInv
  BY <1>1 DEF TypeInv, MutexInv, WorkersOK
<1>4. CASE Requeue(w)
  <2>1. (Marked(k) => Marked(k)') /\ Marked(wkey[w])'
    <3>1. PICK j \in Keys : j = wkey[w] /\ AddRateLimited(j)
      BY <1>3, <1>4 DEF Requeue
    <3>2. (Marked(k) => Marked(k)') /\ Marked(j)'
      BY <1>3, <3>1, AddRateLimitedMarks
    <3>3. wkey' = wkey
      BY <1>4 DEF Requeue
    <3>4. Marked(wkey[w])' <=> Marked(j)'
      BY <3>1, <3>3 DEF Marked, InChannel
    <3>5. QED
      BY <3>2, <3>4
  <2>2. Reads(w, k) \/ Writes(w, k) => Marked(k)'
    BY <1>4, <2>1 DEF Reads, Writes, Requeue, Marked, InChannel
  <2>3. QED
    BY <1>1, <1>2, <2>1, <2>2 DEF Relays, Remembered
<1>5. CASE FinishItem(w)
  <2>1. Marked(k) => Marked(k)'
    BY <1>5, DoneMarks DEF FinishItem
  <2>2. ~Reads(w, k) /\ ~Writes(w, k)
    BY <1>5 DEF FinishItem, Reads, Writes
  <2>3. QED
    BY <1>1, <1>2, <2>1, <2>2 DEF Relays
<1>6. QED
  BY <1>4, <1>5

LEMMA WriteStsShows ==
    ASSUME TypeInv, NEW w \in Workers, wpc[w] \in {"CreateSts", "UpdateSts"},
           WriteSts(w)
    PROVE  /\ job[w].hab \in Habs
           /\ newStatefulSet(job[w].hab) # None
           /\ sts'[wkey[w]] = newStatefulSet(job[w].hab)
           /\ sts[wkey[w]] = None => stsWatch'[wkey[w]]
           /\ \A k \in Keys : /\ stsWatch[k] => stsWatch'[k]
                              /\ sts'[k] = sts[k] \/ stsWatch'[k]
           /\ \A k \in Keys \ {wkey[w]} : sts'[k] = sts[k]
<1>1. PICK h, s, j : h = job[w].hab /\ s = newStatefulSet(h) /\ j = wkey[w]
  OBVIOUS
<1>2. h \in Habs
  BY <1>1 DEF TypeInv, JobsOK, JobOK, Jobs, UsesHab
<1>3. s \in StatefulSets /\ s # None
  BY <1>1, <1>2, NewStsType, ClusterAssumption DEF ClusterAssumption
<1>4. /\ sts' = [sts EXCEPT ![j] = s]
      /\ stsWatch' = [stsWatch EXCEPT ![j] = @ \/ s # sts[j]]
  BY <1>1 DEF WriteSts, StoreSts
<1>5. /\ sts \in [Keys -> StsOrNone] /\ stsWatch \in [Keys -> BOOLEAN] /\ j \in Keys
  BY <1>1 DEF TypeInv, ClusterTypeOK, StsOrNone, MutexInv, WorkersOK
<1>6. sts'[j] = s /\ \A k \in Keys \ {j} : sts'[k] = sts[k] /\ stsWatch'[k] = stsWatch[k]
  BY <1>4, <1>5
<1>7. stsWatch'[j] = (stsWatch[j] \/ s # sts[j])
  BY <1>4, <1>5
<1>8. \A k \in Keys : /\ stsWatch[k] => stsWatch'[k]
                      /\ sts'[k] = sts[k] \/ stsWatch'[k]
  BY <1>6, <1>7
<1>9. QED
  BY <1>1, <1>2, <1>3, <1>6, <1>7, <1>8

LEMMA CreateStsRelays ==
    ASSUME TypeInv, NEW w \in Workers, CreateSts(w), NEW k \in Keys
    PROVE  Relays(w, k)
<1>1. /\ UNCHANGED <<queueVars, habCache>> /\ wkey' = wkey
      /\ wpc[w] = "CreateSts" /\ ~Reads(w, k)
  BY DEF CreateSts, informerVars, Reads
<1>2. CASE sts[wkey[w]] = None
  <2>1. WriteSts(w) /\ Returns(w, "ListPods", job[w])
    BY <1>2 DEF CreateSts
  <2>2. \A v \in Workers \ {w} : Stays(v)
    BY <1>1, <2>1, ReturnsStays
  <2>3. Writes(w, k) => stsWatch'[k]
    BY <1>1, <1>2, <2>1, WriteStsShows DEF Writes
  <2>4. stsWatch[k] => stsWatch'[k]
    BY <1>1, <2>1, WriteStsShows
  <2>5. sts'[k] = sts[k] \/ stsWatch'[k]
    BY <1>1, <2>1, WriteStsShows
  <2>6. QED
    BY <1>1, <2>2, <2>3, <2>4, <2>5, SameQueueMarks DEF Relays, Remembered
<1>3. CASE sts[wkey[w]] # None
  <2>1. Goto(w, "GetSts", job[w]) /\ UNCHANGED <<sts, stsWatch>>
    BY <1>3 DEF CreateSts
  <2>2. /\ \A v \in Workers \ {w} : Stays(v)
        /\ wpc'[w] = "GetSts" /\ job'[w].hab = job[w].hab
    BY <1>1, <2>1, GotoStays
  <2>3. Writes(w, k) => Writes(w, k)'
    BY <1>1, <2>2 DEF Writes
  <2>4. QED
    BY <1>1, <2>1, <2>2, <2>3, QuietRelays
<1>4. QED
  BY <1>2, <1>3

LEMMA UpdateStsRelays ==
    ASSUME TypeInv, NEW w \in Workers, UpdateSts(w), NEW k \in Keys
    PROVE  Relays(w, k)
<1>1. /\ UNCHANGED <<queueVars, habCache>> /\ wkey' = wkey
      /\ wpc[w] = "UpdateSts" /\ ~Reads(w, k)
  BY DEF UpdateSts, informerVars, Reads
<1>2. CASE WriteSts(w) /\ \E step, j : Returns(w, step, j)
  <2>1. \A v \in Workers \ {w} : Stays(v)
    BY <1>1, <1>2, ReturnsStays
  <2>2. ASSUME Writes(w, k) PROVE AsCached(k)'
    <3>1. PICK h : h = job[w].hab
      OBVIOUS
    <3>2. /\ sts'[k] = newStatefulSet(h) /\ sts'[k] # None
          /\ h.spec = habCache'[k].spec
      BY <1>1, <1>2, <2>2, <3>1, WriteStsShows DEF Writes
    <3>3. SpecOfSts(newStatefulSet(h)) = SpecOfSts(newStatefulSet(habCache'[k]))
      BY <3>2 DEF SpecOfSts, newStatefulSet
    <3>4. QED
      BY <3>2, <3>3, Zenon DEF AsCached, newStatefulSet, SpecOfSts
  <2>3. stsWatch[k] => stsWatch'[k]
    BY <1>1, <1>2, WriteStsShows
  <2>4. sts'[k] = sts[k] \/ stsWatch'[k]
    BY <1>1, <1>2, WriteStsShows
  <2>5. QED
    BY <1>1, <2>1, <2>2, <2>3, <2>4, SameQueueMarks DEF Relays, Remembered
<1>3. CASE Goto(w, "Requeue", NoJob) /\ UNCHANGED <<sts, stsWatch>>
  <2>1. (\A v \in Workers \ {w} : Stays(v)) /\ wpc'[w] = "Requeue"
    BY <1>1, <1>3, GotoStays
  <2>2. Writes(w, k) => Reads(w, k)'
    BY <1>1, <2>1 DEF Writes, Reads
  <2>3. QED
    BY <1>1, <1>3, <2>1, <2>2, QuietRelays
<1>4. QED
  BY <1>2, <1>3 DEF UpdateSts

LEMMA WorkerAccounted ==
    ASSUME TypeInv, shuttingDown = FALSE, NEW w \in Workers,
           WorkerStep(w) \/ ApiCallFails(w), NEW k \in Keys, Accounted(k)
    PROVE  Accounted(k)'
<1>1. habCache' = habCache
  BY DEF WorkerStep, ApiCallFails, TakeItem, LookupHab, GetSecrets, CreateSts,
         GetSts, UpdateSts, DeleteStsPods, ListRunningPods, CreateCM, FindCM,
         WriteLeader, UpdateCM, Requeue, FinishItem, informerVars
<1>2. habCache[k] # None => Relays(w, k)
  BY TakeItemRelays, LookupHabRelays, CallsRelay, CreateStsRelays,
     UpdateStsRelays, LaterStepsRelay, RequeueRelays DEF WorkerStep
<1>3. QED
  BY <1>1, <1>2, RelaysAccounted

(* A worker gets the Habitat it works with from the cache.                 *)
LEMMA JobHabitats ==
    ASSUME TypeInv, NEW w \in Workers, WorkerStep(w) \/ ApiCallFails(w),
           NEW v \in Workers
    PROVE  \/ job'[v].hab = None \/ job'[v].hab = job[v].hab
           \/ v = w /\ LookupHab(w) /\ job'[v].hab = habCache[wkey[w]]
<1>1. ASSUME NEW step, NEW j, Goto(w, step, j), j.hab = None \/ j.hab = job[w].hab,
             wkey' = wkey \/ \E x : wkey' = [wkey EXCEPT ![w] = x]
      PROVE  job'[v].hab = None \/ job'[v].hab = job[v].hab
  <2>1. job'[w].hab = None \/ job'[w].hab = j.hab
    BY <1>1, GotoStays
  <2>2. v # w => Stays(v)
    BY <1>1, GotoStays
  <2>3. QED
    BY <1>1, <2>1, <2>2 DEF Stays
<1>2. NoJob.hab = None /\ job[w] \in Jobs
  BY DEF NoJob, TypeInv, JobsOK
<1>3. \A t : [job[w] EXCEPT !.template = t].hab = job[w].hab
  BY <1>2 DEF Jobs
<1>4. CASE WriteLeader(w)
  <2>1. v # w => Stays(v)
    BY <1>4, LaterStepsRelay DEF Relays
  <2>2. PICK ip : job' = [u \in Workers |->
                    IF SameCM(u, w) THEN [job[u] EXCEPT !.cm.ip = ip] ELSE job[u]]
    BY <1>4 DEF WriteLeader
  <2>3. [job[w] EXCEPT !.cm.ip = ip].hab = job[w].hab
    BY <1>2 DEF Jobs
  <2>4. job'[w].hab = job[w].hab
    BY <2>2, <2>3
  <2>5. QED
    BY <2>1, <2>4 DEF Stays
<1>5. CASE LookupHab(w)
  <2>1. PICK j : j = [NoJob EXCEPT !.hab = habCache[wkey[w]]]
    OBVIOUS
  <2>2. j.hab = habCache[wkey[w]]
    BY <2>1 DEF NoJob
  <2>3. \E step : Goto(w, step, j)
    BY <1>5, <2>1, Zenon DEF LookupHab
  <2>4. wkey' = wkey
    BY <1>5 DEF LookupHab
  <2>5. job'[w].hab \in {None, habCache[wkey[w]]} /\ (v # w => Stays(v))
    BY <2>2, <2>3, <2>4, GotoStays
  <2>6. QED
    BY <1>5, <2>5 DEF Stays
<1>6. CASE GetSts(w) \/ UpdateSts(w)
  <2>1. wkey' = wkey
    BY <1>6 DEF GetSts, UpdateSts
  <2>2. \E step, t : \/ Goto(w, step, NoJob)
                    \/ Goto(w, step, [job[w] EXCEPT !.template = t])
    BY <1>6, Zenon DEF GetSts, UpdateSts, Returns
  <2>3. QED
    BY <1>1, <1>2, <1>3, <2>1, <2>2
<1>7. CASE ListRunningPods(w)
  <2>1. PICK r, l : Goto(w, "CreateCM", [job[w] EXCEPT !.running = r, !.leader = l])
    BY <1>7 DEF ListRunningPods
  <2>2. [job[w] EXCEPT !.running = r, !.leader = l].hab = job[w].hab
    BY <1>2 DEF Jobs
  <2>3. QED
    BY <1>1, <1>7, <2>1, <2>2 DEF ListRunningPods
<1>8. CASE FindCM(w)
  <2>1. PICK step, l, c, i :
          Goto(w, step, [NoJob EXCEPT !.leader = l, !.cm = c, !.copy = i])
    BY <1>8 DEF FindCM
  <2>2. [NoJob EXCEPT !.leader = l, !.cm = c, !.copy = i].hab = None
    BY DEF NoJob
  <2>3. QED
    BY <1>1, <1>8, <2>1, <2>2 DEF FindCM
<1>9. CASE \/ TakeItem(w) \/ GetSecrets(w) \/ CreateSts(w) \/ DeleteStsPods(w)
            \/ CreateCM(w) \/ UpdateCM(w) \/ Requeue(w) \/ FinishItem(w)
            \/ ApiCallFails(w)
  <2>1. /\ wkey' = wkey \/ \E x : wkey' = [wkey EXCEPT ![w] = x]
        /\ \E step : Goto(w, step, NoJob) \/ Goto(w, step, job[w])
    BY <1>9 DEF TakeItem, GetSecrets, CreateSts, DeleteStsPods, CreateCM,
                 UpdateCM, Requeue, FinishItem, ApiCallFails, Returns
  <2>2. QED
    BY <1>1, <1>2, <2>1
<1>10. QED
  BY <1>4, <1>5, <1>6, <1>7, <1>8, <1>9 DEF WorkerStep

(* Where the Habitats come from that own the StatefulSets.                 *)
LEMMA WorkerOwnersKnown ==
    ASSUME TypeInv, OwnersKnown, NEW w \in Workers,
           WorkerStep(w) \/ ApiCallFails(w)
    PROVE  /\ \A v \in Workers : Identified(job'[v].hab)
           /\ \A k \in Keys : sts'[k] # None => sts'[k].owner # NoUID
<1>1. LookupHab(w) => wkey[w] \in Keys
  BY DEF LookupHab, TypeInv, MutexInv, WorkersOK
<1>2. Identified(job[w].hab)
  BY DEF OwnersKnown
<1>3. \A v \in Workers : Identified(job'[v].hab)
  BY <1>1, JobHabitats DEF OwnersKnown, StreamIdentified, Identified
<1>4. CASE WriteSts(w) /\ wpc[w] \in {"CreateSts", "UpdateSts"}
  <2>1. newStatefulSet(job[w].hab).owner # NoUID
    <3>1. job[w].hab # None
      BY <1>4 DEF TypeInv, JobsOK, JobOK, UsesHab
    <3>2. QED
      BY <1>2, <3>1 DEF Identified, newStatefulSet
  <2>2. /\ sts'[wkey[w]] = newStatefulSet(job[w].hab)
        /\ \A k \in Keys \ {wkey[w]} : sts'[k] = sts[k]
    BY <1>4, WriteStsShows
  <2>3. QED
    BY <1>3, <2>1, <2>2 DEF OwnersKnown
<1>5. CASE sts' = sts
  BY <1>3, <1>5 DEF OwnersKnown
<1>6. \/ WriteSts(w) /\ wpc[w] \in {"CreateSts", "UpdateSts"}
      \/ sts' = sts
  BY DEF WorkerStep, ApiCallFails, TakeItem, LookupHab, GetSecrets, CreateSts,
         GetSts, UpdateSts, DeleteStsPods, ListRunningPods, CreateCM, FindCM,
         WriteLeader, UpdateCM, Requeue, FinishItem, clusterVars, objectVars
<1>7. QED
  BY <1>4, <1>5, <1>6

-----------------------------------------------------------------------------
(* What a step does to the versions of one Habitat that are on their way.  *)
Flows(k) ==
    \/ /\ hab'[k] = hab[k] /\ habWatch'[k] = habWatch[k]
       /\ habCache'[k] = habCache[k]
    \/ /\ habWatch'[k] = Append(habWatch[k], hab'[k])
       /\ hab'[k] \in HabOrNone /\ Identified(hab'[k])
       /\ habCache'[k] = habCache[k]
    \/ /\ habWatch[k] # <<>> /\ habWatch'[k] = Tail(habWatch[k])
       /\ hab'[k] = hab[k] /\ habCache'[k] = Head(habWatch[k])
    \/ /\ habWatch'[k] = IF hab[k] = None THEN <<>> ELSE <<hab[k]>>
       /\ hab'[k] = hab[k]
       /\ \/ habCache'[k] = None
          \/ hab[k] # None /\ habCache'[k] = habCache[k]

LEMMA FlowsUpToDate ==
    ASSUME TypeInv, NEW k \in Keys, Flows(k), UpToDate(k), StreamIdentified(k)
    PROVE  UpToDate(k)' /\ StreamIdentified(k)'
<1>1. /\ hab[k] \in HabOrNone /\ habWatch[k] \in Seq(HabOrNone)
      /\ Len(habWatch[k]) \in Nat
  BY DEF TypeInv, ClusterTypeOK, HabOrNone
<1>2. CASE /\ hab'[k] = hab[k] /\ habWatch'[k] = habWatch[k]
           /\ habCache'[k] = habCache[k]
  BY <1>2 DEF UpToDate, StreamIdentified
<1>3. CASE /\ habWatch'[k] = Append(habWatch[k], hab'[k])
           /\ hab'[k] \in HabOrNone /\ Identified(hab'[k])
           /\ habCache'[k] = habCache[k]
  <2>1. PICK n \in Nat : n = Len(habWatch[k])
    BY <1>1
  <2>2. /\ Len(habWatch'[k]) = n + 1 /\ habWatch'[k][n + 1] = hab'[k]
        /\ \A i \in 1..n : habWatch'[k][i] = habWatch[k][i]
        /\ habWatch'[k] # <<>>
    BY <1>1, <1>3, <2>1
  <2>3. UpToDate(k)'
    BY <2>2 DEF UpToDate
  <2>4. StreamIdentified(k)'
    BY <1>3, <2>1, <2>2 DEF StreamIdentified
  <2>5. QED
    BY <2>3, <2>4
<1>4. CASE /\ habWatch[k] # <<>> /\ habWatch'[k] = Tail(habWatch[k])
           /\ hab'[k] = hab[k] /\ habCache'[k] = Head(habWatch[k])
  <2>1. PICK n \in Nat : n = Len(habWatch[k]) /\ n > 0
    BY <1>1, <1>4
  <2>2. /\ Len(habWatch'[k]) = n - 1 /\ habCache'[k] = habWatch[k][1]
        /\ \A i \in 1..(n - 1) : habWatch'[k][i] = habWatch[k][i + 1]
    BY <1>1, <1>4, <2>1
  <2>6. habWatch'[k] = <<>> <=> n = 1
    <3>1. PICK q \in Seq(HabOrNone) : q = habWatch'[k]
      BY <1>1, <1>4, HeadTailType
    <3>2. q = <<>> <=> Len(q) = 0
      OBVIOUS
    <3>3. Len(q) = n - 1
      BY <2>2, <3>1
    <3>4. q = <<>> <=> n = 1
      BY <2>1, <3>2, <3>3
    <3>5. QED
      BY <3>1, <3>4
  <2>3. habWatch[k][n] = hab[k]
    BY <1>4, <2>1 DEF UpToDate
  <2>4. UpToDate(k)'
    BY <1>4, <2>1, <2>2, <2>3, <2>6 DEF UpToDate
  <2>5. StreamIdentified(k)'
    BY <1>4, <2>1, <2>2 DEF StreamIdentified
  <2>7. QED
    BY <2>4, <2>5
<1>5. CASE /\ habWatch'[k] = IF hab[k] = None THEN <<>> ELSE <<hab[k]>>
           /\ hab'[k] = hab[k]
           /\ \/ habCache'[k] = None
              \/ hab[k] # None /\ habCache'[k] = habCache[k]
  <2>1. CASE hab[k] = None
    <3>1. habWatch'[k] = <<>> /\ habCache'[k] = None /\ hab'[k] = None
      BY <1>5, <2>1
    <3>2. UpToDate(k)'
      BY <3>1 DEF UpToDate
    <3>3. StreamIdentified(k)'
      BY <3>1 DEF StreamIdentified, Identified
    <3>4. QED
      BY <3>2, <3>3
  <2>2. CASE hab[k] # None
    <3>1. /\ Len(habWatch'[k]) = 1 /\ habWatch'[k][1] = hab[k] /\ hab'[k] = hab[k]
          /\ habWatch'[k] # <<>>
      BY <1>5, <2>2
    <3>2. UpToDate(k)'
      BY <3>1 DEF UpToDate
    <3>3. StreamIdentified(k)'
      BY <1>5, <3>1 DEF StreamIdentified, Identified
    <3>4. QED
      BY <3>2, <3>3
  <2>3. QED
    BY <2>1, <2>2
<1>6. QED
  BY <1>2, <1>3, <1>4, <1>5 DEF Flows

(* A step that no worker takes and that leaves the cached Habitat alone.   *)
LEMMA OthersAccounted ==
    ASSUME NEW k \in Keys, Accounted(k), UNCHANGED <<wpc, wkey, job>>,
           habCache'[k] = habCache[k], Marked(k) => Marked(k)',
           stsWatch[k] => stsWatch'[k], sts'[k] = sts[k] \/ stsWatch'[k]
    PROVE  Accounted(k)'
<1> SUFFICES ASSUME Remembered(k) PROVE Remembered(k)'
  BY DEF Accounted
<1>1. WillDeploy(k) => WillDeploy(k)'
  BY DEF WillDeploy, Reads, Writes
<1>2. AsCached(k) => AsCached(k)' \/ stsWatch'[k]
  BY DEF AsCached
<1>3. QED
  BY <1>1, <1>2 DEF Remembered

(* The StatefulSet of k changes only with an event.  *)
LEMMA StoreStsShows ==
    ASSUME ClusterTypeOK, NEW j \in Keys, NEW s, StoreSts(j, s), NEW k \in Keys
    PROVE  /\ stsWatch[k] => stsWatch'[k]
           /\ sts'[k] = sts[k] \/ stsWatch'[k]
           /\ sts'[k] = sts[k] \/ sts'[k] = s
<1>1. /\ stsWatch'[j] = (stsWatch[j] \/ s # sts[j]) /\ sts'[j] = s
      /\ k # j => stsWatch'[k] = stsWatch[k] /\ sts'[k] = sts[k]
  BY DEF StoreSts, ClusterTypeOK
<1>2. QED
  BY <1>1

LEMMA WakeupFrom ==
    ASSUME TypeInv, WakeupInv, shuttingDown' = FALSE,
           \A k \in Keys : Flows(k) /\ Accounted(k)',
           \A k \in Keys : sts'[k] # None => sts'[k].owner # NoUID,
           \A w \in Workers : Identified(job'[w].hab)
    PROVE  WakeupInv'
<1>1. \A k \in Keys : UpToDate(k)' /\ StreamIdentified(k)'
  BY FlowsUpToDate DEF WakeupInv, OwnersKnown
<1>2. OwnersKnown'
  BY <1>1 DEF OwnersKnown
<1>3. QED
  BY <1>1, <1>2 DEF WakeupInv

(* The one event that gives nobody a reason to deploy: a Habitat becomes   *)
(* the operator's own and nothing else of it changes, so that              *)
(* habitatNeedsUpdate finds no news.                                       *)
HandedOver(k) ==
    /\ habCache[k] # None /\ habCache'[k] # None
    /\ habCache[k].spec = habCache'[k].spec
    /\ ~habCache[k].custom /\ habCache'[k].custom

LEMMA HabEventAccounted ==
    ASSUME TypeInv, WakeupInv, NEW k \in Keys, HabEvent(k), ~HandedOver(k),
           NEW l \in Keys
    PROVE  Accounted(l)' /\ Flows(l)
<1>1. PICK old, new : old = habCache[k] /\ new = Head(habWatch[k])
  OBVIOUS
<1>2. /\ habWatch[k] # <<>>
      /\ habCache' = [habCache EXCEPT ![k] = new]
      /\ habWatch' = [habWatch EXCEPT ![k] = Tail(@)]
      /\ UNCHANGED <<hab, sts, stsWatch, wpc, wkey, job>>
      /\ IF new = None
           THEN IF old = None THEN UNCHANGED queueVars ELSE enqueue(k, old)
           ELSE IF old = None \/ habitatNeedsUpdate(old, new)
                  THEN enqueue(k, new)
                  ELSE UNCHANGED queueVars
  BY <1>1 DEF HabEvent, objectVars, workerVars
<1>3. /\ habCache'[k] = new /\ habWatch'[k] = Tail(habWatch[k])
      /\ l # k => habCache'[l] = habCache[l] /\ habWatch'[l] = habWatch[l]
  BY <1>2 DEF TypeInv, ClusterTypeOK, InformersOK
<1>4. Marked(l) => Marked(l)'
  BY <1>2, EnqueueMarks DEF WakeupInv
<1>5. Flows(l)
  <2>1. CASE l = k
    BY <1>1, <1>2, <1>3, <2>1 DEF Flows
  <2>2. CASE l # k
    BY <1>2, <1>3, <2>2 DEF Flows
  <2>3. QED
    BY <2>1, <2>2
<1>6. CASE l # k
  BY <1>2, <1>3, <1>4, <1>5, <1>6, OthersAccounted DEF WakeupInv
<1>7. CASE l = k
  <2> SUFFICES ASSUME new # None, new.custom PROVE Remembered(k)'
    BY <1>3, <1>5, <1>7 DEF Accounted
  <2>1. CASE old = None \/ habitatNeedsUpdate(old, new)
    <3>1. Add(k)
      BY <1>2, <2>1 DEF enqueue
    <3>2. QED
      BY <3>1, AddMarks DEF WakeupInv, Remembered
  <2>2. CASE old # None /\ ~habitatNeedsUpdate(old, new)
    <3>1. old.spec = new.spec /\ old.custom
      BY <1>1, <1>3, <2>2 DEF habitatNeedsUpdate, HandedOver
    <3>2. Remembered(k)
      BY <1>1, <2>2, <3>1 DEF WakeupInv, Accounted
    <3>3. habCache[k].spec = habCache'[k].spec
      BY <1>1, <1>3, <3>1
    <3>4. WillDeploy(k) => WillDeploy(k)'
      BY <1>2, <3>3 DEF WillDeploy, Reads, Writes
    <3>5. AsCached(k) => AsCached(k)'
      BY <1>2, <3>3 DEF AsCached, SpecOfSts, newStatefulSet
    <3>6. QED
      BY <1>2, <1>4, <1>7, <3>2, <3>4, <3>5 DEF Remembered
  <2>3. QED
    BY <2>1, <2>2
<1>8. QED
  BY <1>5, <1>6, <1>7

LEMMA StsEventAccounted ==
    ASSUME TypeInv, WakeupInv, NEW k \in Keys, StsEvent(k), NEW l \in Keys
    PROVE  Accounted(l)'
<1>1. /\ stsWatch' = [stsWatch EXCEPT ![k] = FALSE]
      /\ enqueueOwner(k)
      /\ UNCHANGED <<habCache, sts, wpc, wkey, job>>
  BY DEF StsEvent, objectVars, informerVars, workerVars
<1>2. Marked(l) => Marked(l)'
  BY <1>1, EnqueueMarks DEF WakeupInv
<1>3. CASE l # k
  BY <1>1, <1>2, <1>3, OthersAccounted DEF WakeupInv, TypeInv, ClusterTypeOK
<1>4. CASE l = k
  <2> SUFFICES ASSUME habCache[k] # None, habCache[k].custom PROVE Remembered(k)'
    BY <1>1, <1>4 DEF Accounted
  <2>1. Add(k)
    BY <1>1 DEF enqueueOwner, enqueue
  <2>2. QED
    BY <2>1, AddMarks DEF WakeupInv, Remembered
<1>5. QED
  BY <1>3, <1>4

LEMMA RelistAccounted ==
    ASSUME TypeInv, WakeupInv, RelistHabs, NEW k \in Keys
    PROVE  Accounted(k)' /\ Flows(k)
<1>1. /\ habWatch'[k] = IF hab[k] = None THEN <<>> ELSE <<hab[k]>>
      /\ habCache'[k] = IF hab[k] = None THEN None ELSE habCache[k]
      /\ UNCHANGED <<queueVars, hab, sts, stsWatch, wpc, wkey, job>>
  BY DEF RelistHabs, ListHabs, objectVars, workerVars
<1>2. Flows(k)
  BY <1>1 DEF Flows
<1>3. CASE habCache'[k] = None
  BY <1>2, <1>3 DEF Accounted
<1>4. CASE habCache'[k] = habCache[k]
  BY <1>1, <1>2, <1>4, SameQueueMarks, OthersAccounted DEF WakeupInv
<1>5. QED
  BY <1>1, <1>2, <1>3, <1>4

(* The handlers that leave Habitats and StatefulSets alone. *)
LEMMA QuietInformers ==
    ASSUME TypeInv, WakeupInv,
           \/ \E k \in Keys : StsStatusEvent(k)
           \/ \E n \in Namespaces : \/ CMEvent(n) \/ CMResync(n)
                                    \/ \E k \in Keys : CMEnqueues(n, k)
           \/ \E p \in Pods : PodEvent(p)
           \/ RelistCMs \/ RelistPods,
           NEW k \in Keys
    PROVE  Accounted(k)'
<1>1. UNCHANGED <<habCache, sts, stsWatch, wpc, wkey, job>>
  BY DEF StsStatusEvent, CMEvent, CMResync, CMEnqueues, PodEvent, RelistCMs,
         RelistPods, objectVars, watchVars, informerVars, workerVars, clusterVars
<1>2. \/ UNCHANGED queueVars
      \/ \E j : Add(j) \/ enqueueOwner(j)
  BY DEF StsStatusEvent, CMEvent, CMResync, CMEnqueues, PodEvent, RelistCMs, RelistPods
<1>3. Marked(k) => Marked(k)'
  BY <1>2, EnqueueMarks, SameQueueMarks DEF WakeupInv
<1>4. QED
  BY <1>1, <1>3, OthersAccounted DEF WakeupInv

(* The informer of the StatefulSets lists them anew and finds that one has *)
(* gone: handleStsDelete does not know the DeletedFinalStateUnknown that   *)
(* it is told of this with.                                                *)
StsDeletionLost == RelistSts /\ \E k \in Keys : stsWatch[k] /\ sts[k] = None

(* Any other new list of the StatefulSets tells of all that is news.       *)
LEMMA RelistStsAccounted ==
    ASSUME TypeInv, WakeupInv, RelistSts, ~StsDeletionLost, NEW k \in Keys
    PROVE  Accounted(k)'
<1>1. /\ UNCHANGED <<queueVars, habCache, sts, wpc, wkey, job>>
      /\ stsWatch'[k] = (stsWatch[k] /\ sts[k] # None)
  BY DEF RelistSts, objectVars, informerVars, workerVars
<1>2. stsWatch[k] => stsWatch'[k]
  BY <1>1 DEF StsDeletionLost
<1>3. Marked(k) => Marked(k)'
  BY <1>1, SameQueueMarks
<1>4. QED
  BY <1>1, <1>2, <1>3, OthersAccounted DEF WakeupInv

LEMMA InformerWakeup ==
    ASSUME TypeInv, WakeupInv, InformerStep, ~StsDeletionLost,
           \A k \in Keys : ~HandedOver(k)
    PROVE  WakeupInv'
<1>1. UNCHANGED <<hab, sts, job>> /\ shuttingDown' = FALSE
  <2>1. UNCHANGED <<hab, sts, job>>
    BY DEF InformerStep, HabEvent, StsEvent, StsStatusEvent, CMEvent, CMResync,
           CMEnqueues, PodEvent, RelistHabs, RelistCMs, RelistPods, RelistSts,
           objectVars, workerVars, clusterVars
  <2>2. \/ UNCHANGED queueVars
        \/ \E j : Add(j) \/ enqueueOwner(j) \/ \E h : enqueue(j, h)
    BY DEF InformerStep, HabEvent, StsEvent, StsStatusEvent, CMEvent, CMResync,
           CMEnqueues, PodEvent, RelistHabs, RelistCMs, RelistPods, RelistSts
  <2>3. QED
    BY <2>1, <2>2 DEF WakeupInv, enqueueOwner, enqueue, Add, AddKey, queueVars
<1>2. SUFFICES \A k \in Keys : Flows(k) /\ Accounted(k)'
  BY <1>1, WakeupFrom DEF WakeupInv, OwnersKnown
<1>3. ASSUME NEW j \in Keys, HabEvent(j), NEW k \in Keys
      PROVE  Flows(k) /\ Accounted(k)'
  BY <1>3, HabEventAccounted
<1>4. ASSUME RelistHabs, NEW k \in Keys
      PROVE  Flows(k) /\ Accounted(k)'
  BY <1>4, RelistAccounted
<1>5. ASSUME NEW j \in Keys, StsEvent(j), NEW k \in Keys
      PROVE  Flows(k) /\ Accounted(k)'
  <2>1. UNCHANGED <<hab, habWatch, habCache>>
    BY <1>5 DEF StsEvent, objectVars, informerVars
  <2>2. QED
    BY <1>5, <2>1, StsEventAccounted DEF Flows
<1>6. ASSUME \/ \E k \in Keys : StsStatusEvent(k)
             \/ \E n \in Namespaces : \/ CMEvent(n) \/ CMResync(n)
                                      \/ \E k \in Keys : CMEnqueues(n, k)
             \/ \E p \in Pods : PodEvent(p)
             \/ RelistCMs \/ RelistPods,
             NEW k \in Keys
      PROVE  Flows(k) /\ Accounted(k)'
  <2>1. UNCHANGED <<hab, habWatch, habCache>>
    BY <1>6 DEF StsStatusEvent, CMEvent, CMResync, CMEnqueues, PodEvent,
                RelistCMs, RelistPods, objectVars, watchVars, informerVars, clusterVars
  <2>2. QED
    BY <1>6, <2>1, QuietInformers DEF Flows
<1>7. ASSUME RelistSts, NEW k \in Keys
      PROVE  Flows(k) /\ Accounted(k)'
  <2>1. UNCHANGED <<hab, habWatch, habCache>>
    BY <1>7 DEF RelistSts, objectVars, informerVars
  <2>2. QED
    BY <1>7, <2>1, RelistStsAccounted DEF Flows
<1>8. QED
  BY <1>3, <1>4, <1>5, <1>6, <1>7 DEF InformerStep

(* What the users do, and the StatefulSet controller and the garbage       *)
(* collector: no Habitat they store is without a UID, and a StatefulSet    *)
(* changes only with an event.                                             *)
LEMMA ClusterShows ==
    ASSUME TypeInv, OwnersKnown, ClusterStep, NEW k \in Keys
    PROVE  /\ \/ hab'[k] = hab[k] /\ habWatch'[k] = habWatch[k]
              \/ /\ habWatch'[k] = Append(habWatch[k], hab'[k])
                 /\ hab'[k] \in HabOrNone /\ Identified(hab'[k])
           /\ stsWatch[k] => stsWatch'[k]
           /\ sts'[k] = sts[k] \/ stsWatch'[k]
           /\ sts'[k] # None => sts'[k].owner # NoUID
<1>1. /\ hab \in [Keys -> HabOrNone] /\ habWatch \in [Keys -> Seq(HabOrNone)]
      /\ habGen \in [Keys -> Nat] /\ sts \in [Keys -> StsOrNone]
      /\ ClusterTypeOK /\ StreamIdentified(k) /\ (sts[k] # None => sts[k].owner # NoUID)
  BY DEF TypeInv, ClusterTypeOK, HabOrNone, StsOrNone, OwnersKnown
<1>2. ASSUME UNCHANGED <<hab, habWatch, sts, stsWatch>>
      PROVE  /\ hab'[k] = hab[k] /\ habWatch'[k] = habWatch[k]
             /\ stsWatch[k] => stsWatch'[k]
             /\ sts'[k] = sts[k] /\ (sts'[k] # None => sts'[k].owner # NoUID)
  BY <1>1, <1>2
<1>3. ASSUME NEW j \in Keys, NEW h \in HabOrNone, Identified(h), StoreHab(j, h)
      PROVE  \/ hab'[k] = hab[k] /\ habWatch'[k] = habWatch[k]
             \/ /\ habWatch'[k] = Append(habWatch[k], hab'[k])
                /\ hab'[k] \in HabOrNone /\ Identified(hab'[k])
  BY <1>1, <1>3 DEF StoreHab
<1>4. ASSUME NEW j \in Keys, NEW s, StoreSts(j, s), s # None => s.owner # NoUID
      PROVE  /\ stsWatch[k] => stsWatch'[k]
             /\ sts'[k] = sts[k] \/ stsWatch'[k]
             /\ sts'[k] # None => sts'[k].owner # NoUID
  BY <1>1, <1>4, StoreStsShows
<1>5. ASSUME NEW j \in Keys, CreateHab(j) \/ EditHab(j) \/ DeleteHab(j)
      PROVE  /\ UNCHANGED <<sts, stsWatch>>
             /\ \E h \in HabOrNone : Identified(h) /\ StoreHab(j, h)
  <2>1. UNCHANGED <<sts, stsWatch>>
    BY <1>5 DEF CreateHab, EditHab, DeleteHab
  <2>2. CASE CreateHab(j)
    <3>1. PICK s \in Specs : StoreHab(j, [uid |-> habGen[j] + 1, gen |-> habGen[j] + 1,
                                          spec |-> s, custom |-> TRUE])
      BY <2>2 DEF CreateHab
    <3>2. habGen[j] + 1 \in Nat /\ habGen[j] + 1 # NoUID
      BY <1>1 DEF NoUID
    <3>3. PICK h : h = [uid |-> habGen[j] + 1, gen |-> habGen[j] + 1,
                        spec |-> s, custom |-> TRUE]
      OBVIOUS
    <3>4. h \in HabOrNone /\ Identified(h)
      BY <3>2, <3>3 DEF HabOrNone, Habs, Identified
    <3>5. StoreHab(j, h)
      BY <3>1, <3>3, Zenon
    <3>6. QED
      BY <2>1, <3>4, <3>5
  <2>3. CASE EditHab(j)
    <3>0. hab[j] # None
      BY <2>3, Zenon DEF EditHab
    <3>1. hab[j] \in Habs /\ habGen[j] + 1 \in Nat
      BY <1>1, <3>0 DEF HabOrNone
    <3>2. Identified(hab[j]) /\ hab[j] # None
      BY <3>0 DEF OwnersKnown, StreamIdentified
    <3>3. PICK h : StoreHab(j, h) /\ h \in Habs /\ h.uid = hab[j].uid
      <4>1. CASE \E s \in Specs :
                   StoreHab(j, [hab[j] EXCEPT !.spec = s, !.gen = habGen[j] + 1])
        <5>1. \A s \in Specs :
                LET h == [hab[j] EXCEPT !.spec = s, !.gen = habGen[j] + 1]
                IN  h \in Habs /\ h.uid = hab[j].uid
          BY <3>1 DEF Habs
        <5>2. QED
          BY <4>1, <5>1
      <4>2. CASE StoreHab(j, [hab[j] EXCEPT !.custom = ~@, !.gen = habGen[j] + 1])
        <5>1. LET h == [hab[j] EXCEPT !.custom = ~@, !.gen = habGen[j] + 1]
              IN  h \in Habs /\ h.uid = hab[j].uid
          BY <3>1 DEF Habs
        <5>2. QED
          BY <4>2, <5>1
      <4>3. QED
        BY <2>3, <4>1, <4>2 DEF EditHab
    <3>4. QED
      BY <2>1, <3>2, <3>3 DEF Identified, HabOrNone
  <2>4. CASE DeleteHab(j)
    <3>1. StoreHab(j, None) /\ None \in HabOrNone /\ Identified(None)
      BY <2>4 DEF DeleteHab, HabOrNone, Identified
    <3>2. QED
      BY <2>1, <3>1
  <2>5. QED
    BY <1>5, <2>2, <2>3, <2>4
<1>6. ASSUME NEW j \in Keys, TamperSts(j)
      PROVE  /\ UNCHANGED <<hab, habWatch>>
             /\ \E s : StoreSts(j, s) /\ (s # None => s.owner # NoUID)
  <2>1. sts[j] \in StatefulSets /\ sts[j] # None /\ sts[j].owner # NoUID
    BY <1>1, <1>6 DEF TamperSts, StsOrNone, OwnersKnown
  <2>2. \A x : /\ [sts[j] EXCEPT !.template = x].owner = sts[j].owner
               /\ [sts[j] EXCEPT !.count = x].owner = sts[j].owner
    BY <2>1 DEF StatefulSets
  <2>3. \E s : StoreSts(j, s) /\ (s # None => s.owner # NoUID)
    <3>1. CASE RemoveSts(j)
      BY <3>1 DEF RemoveSts
    <3>2. CASE \E t : StoreSts(j, [sts[j] EXCEPT !.template = t])
      BY <2>1, <2>2, <3>2
    <3>3. CASE \E c : StoreSts(j, [sts[j] EXCEPT !.count = c])
      BY <2>1, <2>2, <3>3
    <3>4. QED
      BY <1>6, <3>1, <3>2, <3>3 DEF TamperSts
  <2>4. QED
    BY <1>6, <2>3 DEF TamperSts
<1>7. ASSUME NEW j \in Keys, CollectSts(j)
      PROVE  UNCHANGED <<hab, habWatch>> /\ StoreSts(j, None)
  BY <1>7 DEF CollectSts, RemoveSts
<1>8. CASE \E j \in Keys : CreateHab(j) \/ EditHab(j) \/ DeleteHab(j)
  BY <1>1, <1>3, <1>5, <1>8
<1>9. CASE \E j \in Keys : TamperSts(j)
  BY <1>4, <1>6, <1>9
<1>10. CASE \E j \in Keys : CollectSts(j)
  BY <1>4, <1>7, <1>10
<1>11. CASE \/ \E j \in Keys : ToggleSecret(j)
            \/ \E p \in Pods : KillPod(p) \/ PodStep(p)
            \/ \E n \in Namespaces : CollectCM(n)
  <2>1. UNCHANGED <<hab, habWatch, sts, stsWatch>>
    BY <1>11 DEF ToggleSecret, KillPod, PodStep, StartPod, ScaleDown, PodRuns,
                 PodGone, CollectCM, watchVars
  <2>2. QED
    BY <1>2, <2>1
<1>12. QED
  BY <1>8, <1>9, <1>10, <1>11 DEF ClusterStep, UserStep

LEMMA ClusterWakeup ==
    ASSUME TypeInv, WakeupInv, ClusterStep
    PROVE  WakeupInv'
<1>1. UNCHANGED <<queueVars, habCache, wpc, wkey, job>>
  BY DEF ClusterStep, ControllerStutters, informerVars, workerVars
<1>2. ASSUME NEW k \in Keys
      PROVE  /\ Flows(k) /\ Accounted(k)'
             /\ sts'[k] # None => sts'[k].owner # NoUID
  <2>1. Flows(k)
    BY <1>1, ClusterShows DEF Flows, WakeupInv
  <2>2. Accounted(k)'
    <3>1. /\ stsWatch[k] => stsWatch'[k]
          /\ sts'[k] = sts[k] \/ stsWatch'[k]
      BY ClusterShows DEF WakeupInv
    <3>2. QED
      BY <1>1, <3>1, SameQueueMarks, OthersAccounted DEF WakeupInv
  <2>3. QED
    BY <2>1, <2>2, ClusterShows DEF WakeupInv
<1>3. shuttingDown' = FALSE /\ \A w \in Workers : Identified(job'[w].hab)
  BY <1>1 DEF queueVars, WakeupInv, OwnersKnown
<1>4. QED
  BY <1>2, <1>3, WakeupFrom

LEMMA CrashWakeup ==
    ASSUME TypeInv, WakeupInv, Crash
    PROVE  WakeupInv'
<1>1. /\ UNCHANGED <<shuttingDown, hab, sts>>
      /\ habCache' = [k \in Keys |-> None] /\ habWatch' = ListHabs
      /\ job' = [w \in Workers |-> NoJob]
  BY DEF Crash, objectVars
<1>2. ASSUME NEW k \in Keys PROVE Flows(k) /\ Accounted(k)'
  BY <1>1 DEF Flows, Accounted, ListHabs
<1>3. \A w \in Workers : Identified(job'[w].hab)
  BY <1>1 DEF NoJob, Identified
<1>4. QED
  BY <1>1, <1>2, <1>3, WakeupFrom DEF WakeupInv, OwnersKnown

LEMMA WorkerWakeup ==
    ASSUME TypeInv, WakeupInv, NEW w \in Workers,
           WorkerStep(w) \/ ApiCallFails(w)
    PROVE  WakeupInv'
<1>1. UNCHANGED <<hab, habWatch, habCache, shuttingDown>>
  BY DEF WorkerStep, ApiCallFails, TakeItem, LookupHab, GetSecrets, CreateSts,
         GetSts, UpdateSts, DeleteStsPods, ListRunningPods, CreateCM, FindCM,
         WriteLeader, UpdateCM, Requeue, FinishItem, informerVars, clusterVars,
         objectVars, watchVars, queueVars, Get, AddRateLimited, Done
<1>2. ASSUME NEW k \in Keys PROVE Flows(k) /\ Accounted(k)'
  BY <1>1, WorkerAccounted DEF WakeupInv, Flows
<1>3. QED
  BY <1>1, <1>2, WorkerOwnersKnown, WakeupFrom DEF WakeupInv

LEMMA NextWakeup ==
    ASSUME TypeInv, WakeupInv, [Next]_vars, ~StsDeletionLost,
           \A k \in Keys : ~HandedOver(k)
    PROVE  WakeupInv'
<1>1. ASSUME NEW w \in Workers, WorkerStep(w) \/ ApiCallFails(w)
      PROVE  WakeupInv'
  BY <1>1, WorkerWakeup
<1>2. CASE InformerStep
  BY <1>2, InformerWakeup
<1>3. ASSUME UNCHANGED <<clusterVars, informerVars, workerVars>>,
             \A k : Marked(k) => Marked(k)', shuttingDown' = FALSE
      PROVE  WakeupInv'
  <2>1. UNCHANGED <<hab, habWatch, habCache, sts, stsWatch, wpc, wkey, job>>
    BY <1>3 DEF clusterVars, objectVars, watchVars, informerVars, workerVars
  <2>2. \A k \in Keys : Flows(k) /\ Accounted(k)'
    BY <1>3, <2>1, OthersAccounted DEF Flows, WakeupInv
  <2>3. QED
    BY <1>3, <2>1, <2>2, WakeupFrom DEF WakeupInv, OwnersKnown
<1>4. CASE WaitingLoopReceives
  <2>1. shuttingDown' = FALSE
    BY <1>4 DEF WaitingLoopReceives, ReceiveWaiting, AddKey, WakeupInv
  <2>2. QED
    BY <1>3, <1>4, <2>1, ReceiveWaitingMarks
       DEF WaitingLoopReceives, WakeupInv, TypeInv, MutexInv
<1>5. ASSUME NEW k \in Keys, WaitingLoopFires(k) PROVE WakeupInv'
  <2>1. shuttingDown' = FALSE
    BY <1>5 DEF WaitingLoopFires, FireWaiting, AddKey, WakeupInv
  <2>2. QED
    BY <1>3, <1>5, <2>1, FireWaitingMarks DEF WaitingLoopFires, WakeupInv
<1>6. CASE ClusterStep
  BY <1>6, ClusterWakeup
<1>7. CASE Crash
  BY <1>7, CrashWakeup
<1>8. CASE UNCHANGED vars
  BY <1>3, <1>8, SameQueueMarks DEF vars, WakeupInv, queueVars
<1>9. QED
  BY <1>1, <1>2, <1>4, <1>5, <1>6, <1>7, <1>8 DEF Next

LEMMA InitWakeup == Init => WakeupInv
<1> SUFFICES ASSUME Init PROVE WakeupInv
  OBVIOUS
<1>1. TypeInv /\ shuttingDown = FALSE /\ job = [w \in Workers |-> NoJob]
  BY InitTypeInv DEF Init, QueueInit
<1>2. PICK s \in Scenarios : /\ ClusterInit(s)
                             /\ IF s.deployed THEN DeployedInit ELSE StartInit
  BY DEF Init
<1>3. /\ \A k \in Keys : Identified(hab[k])
      /\ \A w \in Workers : Identified(job[w].hab)
  BY <1>1, <1>2, ClusterAssumption
     DEF ClusterInit, ClusterAssumption, Identified, NoUID, NoJob
<1>4. CASE StartInit
  <2>1. ASSUME NEW k \in Keys
        PROVE  /\ sts[k] = None /\ habCache[k] = None
               /\ habWatch[k] = IF hab[k] = None THEN <<>> ELSE <<hab[k]>>
    BY <1>4 DEF StartInit, ListHabs
  <2>2. ASSUME NEW k \in Keys PROVE UpToDate(k) /\ Accounted(k) /\ StreamIdentified(k)
    <3>1. Accounted(k)
      BY <2>1 DEF Accounted
    <3>0. /\ habCache[k] = None /\ Identified(hab[k])
          /\ habWatch[k] = IF hab[k] = None THEN <<>> ELSE <<hab[k]>>
      BY <1>3, <2>1, <2>2
    <3>2. CASE hab[k] = None
      <4>1. habWatch[k] = <<>> /\ Len(habWatch[k]) = 0
        BY <3>0, <3>2
      <4>2. QED
        BY <3>0, <3>1, <3>2, <4>1 DEF UpToDate, StreamIdentified, Identified
    <3>3. CASE hab[k] # None
      <4>1. habWatch[k] # <<>> /\ Len(habWatch[k]) = 1 /\ habWatch[k][1] = hab[k]
        BY <3>0, <3>3
      <4>2. QED
        BY <3>0, <3>1, <4>1 DEF UpToDate, StreamIdentified, Identified
    <3>4. QED
      BY <3>2, <3>3
  <2>3. QED
    BY <1>1, <1>3, <2>1, <2>2 DEF WakeupInv, OwnersKnown
<1>5. CASE DeployedInit
  <2>1. ASSUME NEW k \in Keys
        PROVE  /\ sts[k] = IF hab[k] = None THEN None ELSE newStatefulSet(hab[k])
               /\ habCache[k] = hab[k] /\ habWatch[k] = <<>>
    BY <1>5 DEF DeployedInit
  <2>2. ASSUME NEW k \in Keys, hab[k] # None
        PROVE  newStatefulSet(hab[k]) # None /\ newStatefulSet(hab[k]).owner # NoUID
    <3>1. hab[k] \in Habs
      BY <1>1, <2>2 DEF TypeInv, ClusterTypeOK
    <3>2. newStatefulSet(hab[k]) # None
      BY <3>1, NewStsType, ClusterAssumption DEF ClusterAssumption
    <3>3. QED
      BY <1>3, <2>2, <3>2 DEF newStatefulSet, Identified
  <2>3. ASSUME NEW k \in Keys PROVE UpToDate(k) /\ StreamIdentified(k)
    <3>1. habWatch[k] = <<>> /\ Len(habWatch[k]) = 0
      BY <2>1
    <3>2. QED
      BY <1>3, <2>1, <3>1 DEF UpToDate, StreamIdentified
  <2>4. \A k \in Keys : Accounted(k)
    BY <2>1, <2>2 DEF Accounted, Remembered, AsCached
  <2>5. QED
    BY <1>1, <1>3, <2>1, <2>2, <2>3, <2>4 DEF WakeupInv, OwnersKnown
<1>6. QED
  BY <1>2, <1>4, <1>5

(* Of this, what does not depend on wakeups: the Habitats that are stored  *)
(* are cached or on their way to the cache, however many are handed over   *)
(* and whatever the new lists leave out.                                   *)
HeardInv ==
    /\ shuttingDown = FALSE
    /\ OwnersKnown
    /\ \A k \in Keys : UpToDate(k)

LEMMA NextHeard ==
    ASSUME TypeInv, HeardInv, [Next]_vars PROVE HeardInv'
<1>1. shuttingDown' = FALSE
  <2>1. QueueStep => shuttingDown' = shuttingDown
    BY DEF QueueStep, queueVars, Add, AddKey, Get, FireWaiting, Done, AddRateLimited,
       ReceiveWaiting
  <2>2. QED
    BY <2>1, NextQueueStep DEF TypeInv, HeardInv, Crash
<1>2. SUFFICES /\ \A k \in Keys : Flows(k) /\ (sts'[k] # None => sts'[k].owner # NoUID)
               /\ \A w \in Workers : Identified(job'[w].hab)
  BY <1>1, FlowsUpToDate DEF HeardInv, OwnersKnown
<1>3. ASSUME UNCHANGED <<hab, habWatch, habCache>> PROVE \A k \in Keys : Flows(k)
  BY <1>3 DEF Flows
<1>4. /\ \A k \in Keys : sts[k] # None => sts[k].owner # NoUID
      /\ \A w \in Workers : Identified(job[w].hab)
  BY DEF HeardInv, OwnersKnown
<1>5. ASSUME NEW w \in Workers, WorkerStep(w) \/ ApiCallFails(w)
      PROVE  /\ \A k \in Keys : Flows(k) /\ (sts'[k] # None => sts'[k].owner # NoUID)
             /\ \A v \in Workers : Identified(job'[v].hab)
  <2>1. UNCHANGED <<hab, habWatch, habCache>>
    BY <1>5 DEF WorkerStep, ApiCallFails, TakeItem, LookupHab, GetSecrets, CreateSts,
       GetSts, UpdateSts, DeleteStsPods, ListRunningPods, CreateCM, FindCM,
       WriteLeader, UpdateCM, Requeue, FinishItem, informerVars, clusterVars,
       objectVars, watchVars
  <2>2. QED
    BY <1>3, <1>5, <2>1, WorkerOwnersKnown DEF HeardInv
<1>6. CASE InformerStep
  <2>1. UNCHANGED <<hab, sts, job>>
    BY <1>6 DEF InformerStep, HabEvent, StsEvent, StsStatusEvent, CMEvent, CMResync,
       CMEnqueues, PodEvent, RelistHabs, RelistCMs, RelistPods, RelistSts,
       objectVars, workerVars, clusterVars
  <2>2. ASSUME NEW k \in Keys, HabEvent(k), NEW l \in Keys PROVE Flows(l)
    <3>1. /\ habWatch[k] # <<>>
          /\ habCache' = [habCache EXCEPT ![k] = Head(habWatch[k])]
          /\ habWatch' = [habWatch EXCEPT ![k] = Tail(@)]
      BY <2>2 DEF HabEvent
    <3>2. QED
      BY <2>1, <3>1 DEF Flows, TypeInv, ClusterTypeOK, InformersOK
  <2>3. ASSUME RelistHabs, NEW l \in Keys PROVE Flows(l)
    BY <2>1, <2>3 DEF RelistHabs, ListHabs, Flows
  <2>4. ASSUME ~RelistHabs, ~\E k \in Keys : HabEvent(k)
        PROVE  UNCHANGED <<hab, habWatch, habCache>>
    BY <1>6, <2>1, <2>4 DEF InformerStep, StsEvent, StsStatusEvent, CMEvent, CMResync,
       CMEnqueues, PodEvent, RelistCMs, RelistPods, RelistSts, watchVars, informerVars,
       clusterVars
  <2>5. QED
    BY <1>3, <1>4, <2>1, <2>2, <2>3, <2>4
<1>7. CASE ClusterStep
  <2>1. UNCHANGED <<habCache, job>>
    BY <1>7 DEF ClusterStep, ControllerStutters, informerVars, workerVars
  <2>2. QED
    BY <1>4, <1>7, <2>1, ClusterShows DEF Flows, HeardInv
<1>8. CASE Crash
  <2>1. /\ UNCHANGED <<hab, sts>> /\ habCache' = [k \in Keys |-> None]
        /\ habWatch' = ListHabs /\ job' = [w \in Workers |-> NoJob]
    BY <1>8 DEF Crash, objectVars
  <2>2. QED
    BY <1>4, <2>1 DEF Flows, ListHabs, NoJob, Identified
<1>9. CASE WaitingLoopReceives \/ (\E k \in Keys : WaitingLoopFires(k)) \/ UNCHANGED vars
  <2>1. UNCHANGED <<hab, habWatch, habCache, sts, job>>
    BY <1>9 DEF WaitingLoopReceives, WaitingLoopFires, vars, clusterVars, objectVars,
       watchVars, informerVars, workerVars
  <2>2. QED
    BY <1>3, <1>4, <2>1
<1>10. QED
  BY <1>5, <1>6, <1>7, <1>8, <1>9 DEF Next

LEMMA WakeupDeployed == TypeInv /\ WakeupInv => RestMeansDeployed
<1> SUFFICES ASSUME TypeInv, WakeupInv, AtRest, NEW k \in Keys, Desired(k)
             PROVE  Conforms(k)
  BY DEF RestMeansDeployed
<1>1. /\ dirty = {} /\ processing = {} /\ waitingForAddCh = <<>>
      /\ waitingEntries = {} /\ habWatch[k] = <<>> /\ ~stsWatch[k]
      /\ sts[k] # None => Live(<<k, sts[k].owner>>)
  BY DEF AtRest, Idle
<1>2. habCache[k] = hab[k] /\ hab[k] # None /\ hab[k].custom
  BY <1>1 DEF WakeupInv, UpToDate, Desired
<1>3. ~Marked(k)
  BY <1>1 DEF Marked, InChannel
<1>4. ~WillDeploy(k)
  <2>1. \A w \in Workers : ~Holds(w, k)
    BY <1>1 DEF TypeInv, MutexInv, ProcessingIsHeld
  <2>2. QED
    BY <2>1 DEF WillDeploy, Reads, Writes, Holds
<1>5. AsCached(k)
  BY <1>1, <1>2, <1>3, <1>4 DEF WakeupInv, Accounted, Remembered
<1>6. sts[k] \in StatefulSets /\ sts[k].owner = hab[k].uid
  <2>1. sts[k] # None /\ sts[k].owner # NoUID
    BY <1>5 DEF AsCached, WakeupInv, OwnersKnown
  <2>2. sts[k] \in StatefulSets
    BY <2>1 DEF TypeInv, ClusterTypeOK
  <2>3. QED
    BY <1>1, <2>1, <2>2 DEF Live
<1>7. SpecOfSts(sts[k]) = SpecOfSts(newStatefulSet(hab[k]))
  BY <1>2, <1>5 DEF AsCached
<1>8. /\ sts[k].template = hab[k].spec.template
      /\ sts[k].storage = hab[k].spec.storage
      /\ sts[k].count = hab[k].spec.count
  BY <1>7 DEF SpecOfSts, newStatefulSet
<1>9. QED
  BY <1>6, <1>8 DEF Conforms, newStatefulSet, StatefulSets

(* The two steps that make the operator forget a StatefulSet. *)
Forgets == StsDeletionLost \/ \E k \in Keys : HandedOver(k)

LEMMA ForgetsChanges == Forgets => ~UNCHANGED vars
<1> SUFFICES ASSUME Forgets, UNCHANGED vars PROVE FALSE
  OBVIOUS
<1>1. UNCHANGED <<stsWatch, habCache>>
  BY DEF vars, clusterVars, watchVars, informerVars
<1>2. ~\E k \in Keys : HandedOver(k)
  BY <1>1 DEF HandedOver
<1>3. PICK k \in Keys : stsWatch[k] /\ sts[k] = None /\ RelistSts
  BY <1>2 DEF Forgets, StsDeletionLost
<1>4. stsWatch'[k] = FALSE
  BY <1>3 DEF RelistSts
<1>5. QED
  BY <1>1, <1>3, <1>4

(* As long as no Habitat is handed over to the operator with nothing but   *)
(* its customVersion changed, and no deletion of a StatefulSet is lost     *)
(* with a broken watch: whatever else fails, is lost, changes meanwhile or *)
(* crashes, an operator that has nothing left to do has deployed every     *)
(* Habitat it is responsible for as its latest version says.               *)
THEOREM DeployedAtRest ==
    Spec /\ [][~Forgets]_vars => []RestMeansDeployed
<1>1. TypeInv /\ WakeupInv /\ [Next]_vars /\ [~Forgets]_vars => WakeupInv'
  <2> SUFFICES ASSUME TypeInv, WakeupInv, [Next]_vars, [~Forgets]_vars
               PROVE  WakeupInv'
    OBVIOUS
  <2>1. ~Forgets
    BY ForgetsChanges
  <2>2. QED
    BY <2>1, NextWakeup DEF Forgets
<1>2. QED
  BY <1>1, InitWakeup, WakeupDeployed, TypeInvariant, PTL DEF Spec

-----------------------------------------------------------------------------
(* Pods of an old template.                                                *)

(* A rollout that is broken off: the update of the StatefulSet went        *)
(* through, but the pods with the old template are not deleted.  The next  *)
(* call of conform finds the StatefulSet up to date and leaves them.       *)
RolloutBroken ==
    \E w \in Workers :
        \/ wpc[w] = "UpdateSts" /\ wpc'[w] = "Requeue" /\ sts' # sts
        \/ wpc[w] = "DeletePods" /\ wpc'[w] \notin {"DeletePods", "ListPods"}

(* A user changes the template of a StatefulSet that the operator owns. *)
TemplateTampered ==
    \E k \in Keys : TamperSts(k) /\ sts'[k] # None
                     /\ sts'[k].template # sts[k].template

Replaces(w, k) == wpc[w] = "DeletePods" /\ wkey[w] = k

(* A pod of an old template terminates, or a worker is about to delete it. *)
PodAccounted(p) ==
    pod[p] # None /\ ~pod[p].terminating =>
        /\ sts[p[1]] # None
        /\ \/ pod[p].template = sts[p[1]].template
           \/ \E w \in Workers : Replaces(w, p[1])

(* The template a worker compares with is that of the StatefulSet it       *)
(* overwrites, unless the StatefulSet went away.                           *)
Compares(w) ==
    wpc[w] = "UpdateSts" /\ sts[wkey[w]] # None =>
        sts[wkey[w]].template = job[w].template

RolloutInv == (\A p \in Pods : PodAccounted(p)) /\ (\A w \in Workers : Compares(w))

LEMMA OthersStay ==
    ASSUME TypeInv, NEW w \in Workers, WorkerStep(w) \/ ApiCallFails(w)
    PROVE  \A v \in Workers \ {w} : Stays(v)
<1>1. CASE WriteLeader(w)
  BY <1>1, LaterStepsRelay DEF Relays
<1>2. CASE ~WriteLeader(w)
  <2>1. /\ \E step, j : Goto(w, step, j)
        /\ wkey' = wkey \/ \E x : wkey' = [wkey EXCEPT ![w] = x]
    BY <1>2 DEF WorkerStep, ApiCallFails, TakeItem, LookupHab, GetSecrets,
                CreateSts, GetSts, UpdateSts, DeleteStsPods, ListRunningPods,
                CreateCM, FindCM, UpdateCM, Requeue, FinishItem, Returns
  <2>2. QED
    BY <2>1, GotoStays
<1>3. QED
  BY <1>1, <1>2

(* A pod that lives on, and does not terminate, is the one that was there. *)
KeepsPod(p) ==
    pod'[p] # None /\ ~pod'[p].terminating =>
        /\ pod[p] # None /\ ~pod[p].terminating
        /\ pod'[p].template = pod[p].template

KeepsTemplate(k) ==
    /\ sts'[k] = None <=> sts[k] = None
    /\ sts[k] # None => sts'[k].template = sts[k].template

LEMMA PodAccountedStable ==
    ASSUME NEW p, PodAccounted(p), KeepsPod(p), KeepsTemplate(p[1]),
           \A w \in Workers : Replaces(w, p[1]) => Replaces(w, p[1])'
    PROVE  PodAccounted(p)'
BY DEF PodAccounted, KeepsPod, KeepsTemplate

LEMMA DeletedPods ==
    ASSUME ClusterTypeOK, NEW gone, DeletePods(gone),
           \A q \in gone : pod[q] # None, NEW p \in Pods
    PROVE  /\ KeepsPod(p)
           /\ p \in gone => pod'[p] = None \/ pod'[p].terminating
<1>1. pod'[p] = IF p \notin gone THEN pod[p]
                ELSE IF pod[p].phase = "Pending" THEN None
                ELSE [pod[p] EXCEPT !.terminating = TRUE]
  BY DEF DeletePods
<1>2. CASE p \notin gone \/ pod'[p] = None
  BY <1>1, <1>2 DEF KeepsPod
<1>3. CASE p \in gone /\ pod'[p] = [pod[p] EXCEPT !.terminating = TRUE]
  <2>1. pod[p] \in PodObjects
    BY <1>3 DEF ClusterTypeOK
  <2>2. pod'[p].terminating
    BY <1>3, <2>1 DEF PodObjects
  <2>3. QED
    BY <1>3, <2>2 DEF KeepsPod
<1>4. QED
  BY <1>1, <1>2, <1>3

(* What is deleted together with its pods leaves no pod that lives on.     *)
LEMMA RemovedSts ==
    ASSUME ClusterTypeOK, NEW k \in Keys, RemoveSts(k), NEW p \in Pods,
           PodAccounted(p), UNCHANGED <<wpc, wkey>>
    PROVE  PodAccounted(p)'
<1>1. /\ \A j \in Keys : sts'[j] = IF j = k THEN None ELSE sts[j]
      /\ DeletePods(PodsOf(k)) /\ p[1] \in Keys
  BY DEF RemoveSts, StoreSts, ClusterTypeOK, Pods
<1>2. /\ KeepsPod(p)
      /\ p \in PodsOf(k) => pod'[p] = None \/ pod'[p].terminating
  BY <1>1, PodsOfExist, DeletedPods
<1>3. CASE p[1] = k
  <2>1. pod[p] # None => p \in PodsOf(k)
    BY <1>3 DEF PodsOf
  <2>2. QED
    BY <1>2, <2>1 DEF PodAccounted, KeepsPod
<1>4. CASE p[1] # k
  BY <1>1, <1>2, <1>4, PodAccountedStable DEF KeepsTemplate, Replaces
<1>5. QED
  BY <1>3, <1>4

LEMMA ClusterPods ==
    ASSUME TypeInv, RolloutInv, ClusterStep, ~TemplateTampered, NEW p \in Pods
    PROVE  PodAccounted(p)'
<1>1. UNCHANGED <<wpc, wkey>> /\ ClusterTypeOK /\ PodAccounted(p) /\ p[1] \in Keys
  BY DEF ClusterStep, ControllerStutters, workerVars, TypeInv, RolloutInv, Pods
<1>2. ASSUME KeepsPod(p), KeepsTemplate(p[1]) PROVE PodAccounted(p)'
  BY <1>1, <1>2, PodAccountedStable DEF Replaces
<1>3. ASSUME sts' = sts, NEW gone, DeletePods(gone), \A q \in gone : pod[q] # None
      PROVE  PodAccounted(p)'
  BY <1>1, <1>2, <1>3, DeletedPods DEF KeepsTemplate
<1>4. CASE \E k \in Keys : CreateHab(k) \/ EditHab(k) \/ DeleteHab(k) \/ ToggleSecret(k)
  <2>1. UNCHANGED <<pod, sts>>
    BY <1>4 DEF CreateHab, EditHab, DeleteHab, ToggleSecret
  <2>2. QED
    BY <1>2, <2>1 DEF KeepsPod, KeepsTemplate
<1>5. ASSUME NEW k \in Keys, TamperSts(k) PROVE PodAccounted(p)'
  <2>1. CASE RemoveSts(k)
    BY <1>1, <2>1, RemovedSts
  <2>2. CASE ~RemoveSts(k)
    <3>1. /\ sts[k] \in StatefulSets /\ sts[k] # None /\ pod' = pod
          /\ \E s : StoreSts(k, s) /\ s \in StatefulSets
      <4>1. sts[k] \in StatefulSets /\ sts[k] # None
        BY <1>1, <1>5 DEF TamperSts, ClusterTypeOK
      <4>2. \A t \in Templates : [sts[k] EXCEPT !.template = t] \in StatefulSets
        BY <4>1 DEF StatefulSets
      <4>3. \A s \in Specs : [sts[k] EXCEPT !.count = s.count] \in StatefulSets
        BY <4>1, SpecFields DEF StatefulSets
      <4>4. QED
        BY <1>5, <2>2, <4>1, <4>2, <4>3 DEF TamperSts
    <3>2. sts'[k] # None /\ \A j \in Keys \ {k} : sts'[j] = sts[j]
      BY <1>1, <3>1, ClusterAssumption DEF StoreSts, ClusterTypeOK, ClusterAssumption
    <3>3. sts'[k].template = sts[k].template
      BY <1>5, <3>2 DEF TemplateTampered
    <3>4. QED
      BY <1>1, <1>2, <3>1, <3>2, <3>3 DEF KeepsPod, KeepsTemplate
  <2>3. QED
    BY <2>1, <2>2
<1>6. ASSUME NEW q \in Pods, KillPod(q) \/ ScaleDown(q) PROVE PodAccounted(p)'
  <2>1. sts' = sts /\ DeletePods({q}) /\ \A r \in {q} : pod[r] # None
    BY <1>6 DEF KillPod, ScaleDown
  <2>2. QED
    BY <1>3, <2>1
<1>7. ASSUME NEW q \in Pods, StartPod(q) PROVE PodAccounted(p)'
  <2>1. /\ sts' = sts /\ sts[q[1]] # None
        /\ pod' = [pod EXCEPT ![q] = [phase |-> "Pending", terminating |-> FALSE,
                                      template |-> sts[q[1]].template, ip |-> NoIP]]
    BY <1>7 DEF StartPod
  <2>2. CASE p = q
    <3>1. pod'[p].template = sts'[p[1]].template /\ sts'[p[1]] # None
      BY <1>1, <2>1, <2>2 DEF ClusterTypeOK
    <3>2. QED
      BY <3>1 DEF PodAccounted
  <2>3. CASE p # q
    BY <1>1, <1>2, <2>1, <2>3 DEF KeepsPod, KeepsTemplate, ClusterTypeOK
  <2>4. QED
    BY <2>2, <2>3
<1>8. ASSUME NEW q \in Pods, PodRuns(q) \/ PodGone(q) PROVE PodAccounted(p)'
  <2>1. sts' = sts /\ pod \in [Pods -> PodOrNone]
    BY <1>1, <1>8 DEF PodRuns, PodGone, ClusterTypeOK, PodOrNone
  <2>2. KeepsPod(p)
    <3>1. CASE PodGone(q)
      BY <2>1, <3>1 DEF PodGone, KeepsPod
    <3>2. CASE PodRuns(q)
      <4>1. pod[q] \in PodObjects /\ pod[q] # None
        BY <2>1, <3>2 DEF PodRuns, PodOrNone
      <4>2. PICK i : pod' = [pod EXCEPT ![q].phase = "Running", ![q].ip = i]
        BY <3>2 DEF PodRuns
      <4>3. /\ pod'[q] = [pod[q] EXCEPT !.phase = "Running", !.ip = i]
            /\ p # q => pod'[p] = pod[p]
        BY <2>1, <4>2
      <4>4. pod'[q].template = pod[q].template /\ pod'[q].terminating = pod[q].terminating
        BY <4>1, <4>3 DEF PodObjects
      <4>5. QED
        BY <4>1, <4>3, <4>4 DEF KeepsPod
    <3>3. QED
      BY <1>8, <3>1, <3>2
  <2>3. QED
    BY <1>2, <2>1, <2>2 DEF KeepsTemplate
<1>9. ASSUME NEW k \in Keys, CollectSts(k) PROVE PodAccounted(p)'
  BY <1>1, <1>9, RemovedSts DEF CollectSts
<1>10. ASSUME NEW n \in Namespaces, CollectCM(n) PROVE PodAccounted(p)'
  BY <1>2, <1>10 DEF CollectCM, KeepsPod, KeepsTemplate
<1>11. QED
  BY <1>4, <1>5, <1>6, <1>7, <1>8, <1>9, <1>10 DEF ClusterStep, UserStep, PodStep

(* The cluster takes a StatefulSet away or leaves its template. *)
LEMMA ClusterCompares ==
    ASSUME TypeInv, RolloutInv, ClusterStep, ~TemplateTampered, NEW w \in Workers
    PROVE  Compares(w)'
<1>1. UNCHANGED <<wpc, wkey, job>> /\ sts \in [Keys -> StsOrNone] /\ Compares(w)
  BY DEF ClusterStep, ControllerStutters, workerVars, TypeInv, ClusterTypeOK,
         StsOrNone, RolloutInv
<1>2. wpc[w] = "UpdateSts" => wkey[w] \in Keys
  BY DEF TypeInv, MutexInv, WorkersOK
<1>3. \A k \in Keys : sts'[k] # None =>
        sts[k] # None /\ sts'[k].template = sts[k].template
  <2>1. ASSUME NEW k \in Keys, StoreSts(k, None), NEW j \in Keys, sts'[j] # None
        PROVE  sts'[j] = sts[j]
    BY <1>1, <2>1 DEF StoreSts
  <2>2. ASSUME NEW k \in Keys, TamperSts(k), NEW j \in Keys, sts'[j] # None
        PROVE  sts[j] # None /\ sts'[j].template = sts[j].template
    <3>1. sts[k] # None /\ \E s : StoreSts(k, s)
      BY <2>2 DEF TamperSts, RemoveSts
    <3>2. j # k => sts'[j] = sts[j]
      BY <1>1, <3>1 DEF StoreSts
    <3>3. QED
      BY <2>2, <3>1, <3>2 DEF TemplateTampered
  <2>3. \/ sts' = sts
        \/ \E k \in Keys : StoreSts(k, None) \/ TamperSts(k)
    BY DEF ClusterStep, UserStep, CreateHab, EditHab, DeleteHab, ToggleSecret,
           KillPod, PodStep, StartPod, ScaleDown, PodRuns, PodGone, CollectSts,
           CollectCM, RemoveSts
  <2>4. QED
    BY <2>1, <2>2, <2>3
<1>4. QED
  BY <1>1, <1>2, <1>3 DEF Compares

(* A step of worker w that leaves the pods and the template of its         *)
(* StatefulSet alone, and is not the one that deletes the pods.            *)
LEMMA QuietRollout ==
    ASSUME TypeInv, RolloutInv, NEW w \in Workers,
           WorkerStep(w) \/ ApiCallFails(w), UNCHANGED pod,
           \A k \in Keys : KeepsTemplate(k), wpc[w] # "DeletePods", Compares(w)'
    PROVE  RolloutInv'
<1>1. \A v \in Workers \ {w} : Stays(v)
  BY OthersStay
<1>2. ASSUME NEW p \in Pods PROVE PodAccounted(p)'
  <2>1. KeepsPod(p) /\ KeepsTemplate(p[1])
    BY DEF KeepsPod, Pods
  <2>2. \A v \in Workers : Replaces(v, p[1]) => Replaces(v, p[1])'
    BY <1>1 DEF Replaces, Stays
  <2>3. QED
    BY <2>1, <2>2, PodAccountedStable DEF RolloutInv
<1>3. ASSUME NEW v \in Workers, v # w PROVE Compares(v)'
  <2>1. wpc[v] = "UpdateSts" => wkey[v] \in Keys
    BY DEF TypeInv, MutexInv, WorkersOK
  <2>2. QED
    BY <1>1, <1>3, <2>1 DEF RolloutInv, Compares, Stays, KeepsTemplate
<1>4. QED
  BY <1>2, <1>3 DEF RolloutInv

LEMMA LocalRollout ==
    ASSUME TypeInv, RolloutInv, NEW w \in Workers, ~RolloutBroken,
           \/ TakeItem(w) \/ LookupHab(w) \/ GetSecrets(w) \/ GetSts(w)
           \/ ListRunningPods(w) \/ CreateCM(w) \/ FindCM(w) \/ WriteLeader(w)
           \/ UpdateCM(w) \/ Requeue(w) \/ FinishItem(w) \/ ApiCallFails(w)
    PROVE  RolloutInv'
<1>1. UNCHANGED <<pod, sts>>
  BY DEF TakeItem, LookupHab, GetSecrets, GetSts, ListRunningPods, CreateCM,
         FindCM, WriteLeader, UpdateCM, Requeue, FinishItem, ApiCallFails,
         clusterVars, objectVars
<1>2. /\ wpc \in [Workers -> WorkerStates] /\ job \in [Workers -> Jobs]
      /\ wpc[w] = "DeletePods" => ApiCallFails(w)
  BY DEF TakeItem, LookupHab, GetSecrets, GetSts, ListRunningPods, CreateCM,
         FindCM, WriteLeader, UpdateCM, Requeue, FinishItem,
         TypeInv, MutexInv, WorkersOK, JobsOK
<1>3. ApiCallFails(w) => wpc'[w] = "Requeue"
  BY <1>2 DEF ApiCallFails, Goto
<1>4. wpc[w] # "DeletePods"
  BY <1>2, <1>3 DEF RolloutBroken
<1>5. Compares(w)'
  <2>1. CASE GetSts(w)
    <3>1. PICK s, k : k = wkey[w] /\ s = sts[k]
      OBVIOUS
    <3>2. CASE s = None
      BY <1>1, <2>1, <3>1, <3>2 DEF GetSts, Compares
    <3>3. CASE s # None
      <4>1. job' = [job EXCEPT ![w] = [job[w] EXCEPT !.template = s.template]]
        BY <2>1, <3>1, <3>3 DEF GetSts, Goto
      <4>2. job'[w].template = s.template
        BY <1>2, <4>1 DEF Jobs
      <4>3. wkey' = wkey
        BY <2>1 DEF GetSts
      <4>4. QED
        BY <1>1, <3>1, <4>2, <4>3 DEF Compares
    <3>4. QED
      BY <3>2, <3>3
  <2>2. CASE ~GetSts(w)
    <3>1. wpc'[w] # "UpdateSts"
      <4>1. CASE LookupHab(w) \/ GetSecrets(w)
        BY <1>2, <4>1 DEF LookupHab, GetSecrets, Goto
      <4>2. CASE CreateCM(w) \/ UpdateCM(w) \/ FindCM(w) \/ WriteLeader(w)
        BY <1>2, <4>2 DEF CreateCM, UpdateCM, FindCM, WriteLeader, Returns, Goto
      <4>3. CASE \/ TakeItem(w) \/ ListRunningPods(w) \/ Requeue(w)
                 \/ FinishItem(w) \/ ApiCallFails(w)
        BY <1>2, <4>3 DEF TakeItem, ListRunningPods, Requeue, FinishItem,
                          ApiCallFails, Goto
      <4>4. QED
        BY <2>2, <4>1, <4>2, <4>3
    <3>2. QED
      BY <3>1 DEF Compares
  <2>3. QED
    BY <2>1, <2>2
<1>6. \A k \in Keys : KeepsTemplate(k)
  BY <1>1 DEF KeepsTemplate
<1>7. QED
  BY <1>1, <1>4, <1>5, <1>6, QuietRollout DEF WorkerStep

(* Only w works on the StatefulSet it writes. *)
LEMMA WriteStsOthers ==
    ASSUME TypeInv, RolloutInv, NEW w \in Workers, CreateSts(w) \/ UpdateSts(w),
           WriteSts(w), NEW v \in Workers, v # w
    PROVE  Compares(v)'
<1>1. Stays(v)
  BY OthersStay DEF WorkerStep
<1>2. wpc[w] \in {"CreateSts", "UpdateSts"}
  BY DEF CreateSts, UpdateSts
<1>3. SUFFICES ASSUME wpc[v] = "UpdateSts" PROVE sts'[wkey[v]] = sts[wkey[v]]
  BY <1>1 DEF Compares, Stays, RolloutInv
<1>4. wkey[v] \in Keys /\ wkey[w] \in Keys /\ wkey[v] # wkey[w]
  <2>1. wkey[v] \in Keys /\ Holds(v, wkey[v]) /\ wkey[w] \in Keys /\ Holds(w, wkey[w])
    BY <1>2, <1>3 DEF TypeInv, MutexInv, WorkersOK, Holds
  <2>2. QED
    BY <2>1 DEF TypeInv, MutexInv, OneWorkerPerHabitat
<1>5. QED
  BY <1>2, <1>4, WriteStsShows

LEMMA CreateStsRollout ==
    ASSUME TypeInv, RolloutInv, NEW w \in Workers, CreateSts(w)
    PROVE  RolloutInv'
<1>1. /\ pod' = pod /\ wpc[w] = "CreateSts"
      /\ wpc'[w] \in {"ListPods", "GetSts", "Requeue"}
  BY DEF CreateSts, Returns, Goto, TypeInv, MutexInv, WorkersOK
<1>2. Compares(w)'
  BY <1>1 DEF Compares
<1>3. CASE sts[wkey[w]] # None
  <2>1. sts' = sts
    BY <1>3 DEF CreateSts
  <2>2. QED
    BY <1>1, <1>2, <2>1, QuietRollout DEF KeepsTemplate, WorkerStep
<1>4. CASE sts[wkey[w]] = None
  <2>1. WriteSts(w)
    BY <1>4 DEF CreateSts
  <2>2. \A v \in Workers : Compares(v)'
    BY <1>2, <2>1, WriteStsOthers
  <2>3. ASSUME NEW p \in Pods PROVE PodAccounted(p)'
    <3>1. CASE p[1] = wkey[w]
      BY <1>1, <1>4, <3>1 DEF RolloutInv, PodAccounted
    <3>2. CASE p[1] # wkey[w]
      <4>1. sts'[p[1]] = sts[p[1]]
        BY <1>1, <2>1, <3>2, WriteStsShows DEF Pods
      <4>2. \A v \in Workers : Replaces(v, p[1]) => Replaces(v, p[1])'
        BY <1>1, OthersStay DEF Replaces, Stays, WorkerStep
      <4>3. QED
        BY <1>1, <4>1, <4>2, PodAccountedStable
           DEF RolloutInv, KeepsPod, KeepsTemplate
    <3>3. QED
      BY <3>1, <3>2
  <2>4. QED
    BY <2>2, <2>3 DEF RolloutInv
<1>5. QED
  BY <1>3, <1>4

LEMMA UpdateStsRollout ==
    ASSUME TypeInv, RolloutInv, NEW w \in Workers, UpdateSts(w), ~RolloutBroken
    PROVE  RolloutInv'
<1>1. pod' = pod /\ wpc[w] = "UpdateSts" /\ wkey' = wkey
  BY DEF UpdateSts
<1>2. wpc'[w] \in {"DeletePods", "ListPods", "Requeue"}
  BY DEF UpdateSts, Returns, Goto, TypeInv, MutexInv, WorkersOK
<1>3. Compares(w)'
  BY <1>2 DEF Compares
<1>4. CASE sts' = sts
  BY <1>1, <1>3, <1>4, QuietRollout DEF KeepsTemplate, WorkerStep
<1>5. CASE sts' # sts
  <2>1. PICK k, new : k = wkey[w] /\ new = newStatefulSet(job[w].hab)
    OBVIOUS
  <2>2. sts[k] # None /\ WriteSts(w)
    BY <1>5, <2>1 DEF UpdateSts
  <2>3. wpc'[w] # "Requeue"
    BY <1>1, <1>5 DEF RolloutBroken
  <2>4. podsOutdated(new, job[w].template) => wpc'[w] = "DeletePods"
    BY <1>5, <2>1, <2>3 DEF UpdateSts, Returns, Goto, TypeInv, MutexInv, WorkersOK
  <2>5. sts'[k] = new /\ new # None /\ \A j \in Keys \ {k} : sts'[j] = sts[j]
    BY <1>1, <2>1, <2>2, WriteStsShows
  <2>6. sts[k].template = job[w].template
    BY <1>1, <2>1, <2>2 DEF RolloutInv, Compares
  <2>7. \A v \in Workers : \A j : Replaces(v, j) => Replaces(v, j)'
    BY <1>1, OthersStay DEF Replaces, Stays, WorkerStep
  <2>8. ASSUME NEW p \in Pods PROVE PodAccounted(p)'
    <3>1. CASE p[1] # k \/ ~podsOutdated(new, job[w].template)
      <4>1. KeepsTemplate(p[1])
        BY <2>2, <2>5, <2>6, <3>1 DEF KeepsTemplate, podsOutdated, Pods
      <4>2. QED
        BY <1>1, <2>7, <4>1, PodAccountedStable DEF RolloutInv, KeepsPod
    <3>2. CASE p[1] = k /\ podsOutdated(new, job[w].template)
      <4>1. Replaces(w, p[1])'
        BY <1>1, <2>1, <2>4, <3>2 DEF Replaces
      <4>2. QED
        BY <2>5, <3>2, <4>1 DEF PodAccounted
    <3>3. QED
      BY <3>1, <3>2
  <2>9. \A v \in Workers : Compares(v)'
    BY <1>3, <2>2, WriteStsOthers
  <2>10. QED
    BY <2>8, <2>9 DEF RolloutInv
<1>6. QED
  BY <1>4, <1>5

LEMMA DeleteStsPodsRollout ==
    ASSUME TypeInv, RolloutInv, NEW w \in Workers, DeleteStsPods(w), ~RolloutBroken
    PROVE  RolloutInv'
<1>1. sts' = sts /\ wpc[w] = "DeletePods" /\ wpc'[w] # "Requeue"
  BY DEF DeleteStsPods, RolloutBroken
<1>2. DeletePods(PodsOf(wkey[w])) /\ wpc'[w] = "ListPods"
  BY <1>1 DEF DeleteStsPods, Goto, TypeInv, MutexInv, WorkersOK
<1>3. \A v \in Workers \ {w} : Stays(v)
  BY OthersStay DEF WorkerStep
<1>4. ASSUME NEW p \in Pods PROVE PodAccounted(p)'
  <2>1. /\ KeepsPod(p)
        /\ p \in PodsOf(wkey[w]) => pod'[p] = None \/ pod'[p].terminating
    BY <1>2, PodsOfExist, DeletedPods DEF TypeInv
  <2>2. CASE p[1] = wkey[w]
    <3>1. pod[p] # None => p \in PodsOf(wkey[w])
      BY <2>2 DEF PodsOf
    <3>2. QED
      BY <2>1, <3>1 DEF PodAccounted, KeepsPod
  <2>3. CASE p[1] # wkey[w]
    <3>1. \A v \in Workers : Replaces(v, p[1]) => Replaces(v, p[1])'
      BY <1>3, <2>3 DEF Replaces, Stays
    <3>2. QED
      BY <1>1, <2>1, <3>1, PodAccountedStable DEF RolloutInv, KeepsTemplate
  <2>4. QED
    BY <2>2, <2>3
<1>5. \A v \in Workers : Compares(v)'
  BY <1>1, <1>2, <1>3 DEF RolloutInv, Compares, Stays
<1>6. QED
  BY <1>4, <1>5 DEF RolloutInv

LEMMA NextRollout ==
    ASSUME TypeInv, RolloutInv, [Next]_vars, ~RolloutBroken, ~TemplateTampered
    PROVE  RolloutInv'
<1>1. ASSUME NEW w \in Workers, WorkerStep(w) \/ ApiCallFails(w)
      PROVE  RolloutInv'
  BY <1>1, LocalRollout, CreateStsRollout, UpdateStsRollout, DeleteStsPodsRollout
     DEF WorkerStep
<1>2. ASSUME UNCHANGED <<pod, sts, wpc, wkey, job>> PROVE RolloutInv'
  BY <1>2 DEF RolloutInv, PodAccounted, Compares, Replaces
<1>3. CASE \/ InformerStep \/ WaitingLoopReceives \/ UNCHANGED vars
           \/ \E k \in Keys : WaitingLoopFires(k)
  BY <1>2, <1>3 DEF InformerStep, HabEvent, StsEvent, StsStatusEvent, CMEvent,
         CMResync, CMEnqueues, PodEvent, RelistHabs, RelistCMs, RelistPods, RelistSts,
         WaitingLoopReceives, WaitingLoopFires, vars, clusterVars, objectVars,
         workerVars
<1>4. CASE ClusterStep
  BY <1>4, ClusterPods, ClusterCompares DEF RolloutInv
<1>5. CASE Crash
  <2>1. UNCHANGED <<pod, sts>> /\ wpc' = [w \in Workers |-> "Get"]
    BY <1>5 DEF Crash, objectVars
  <2>2. \A w \in Workers : wpc[w] # "DeletePods" /\ wpc'[w] # "UpdateSts"
    BY <2>1 DEF RolloutBroken
  <2>3. QED
    BY <2>1, <2>2 DEF RolloutInv, PodAccounted, Compares, Replaces
<1>6. QED
  BY <1>1, <1>3, <1>4, <1>5 DEF Next

LEMMA InitRollout == Init => RolloutInv
<1> SUFFICES ASSUME Init PROVE RolloutInv
  OBVIOUS
<1>1. TypeInv /\ wpc = [w \in Workers |-> "Get"]
  BY InitTypeInv DEF Init
<1>2. ASSUME NEW p \in Pods PROVE PodAccounted(p)
  <2>1. CASE StartInit
    BY <2>1 DEF StartInit, PodAccounted
  <2>2. CASE DeployedInit
    BY <2>2 DEF DeployedInit, PodAccounted
  <2>3. QED
    BY <2>1, <2>2 DEF Init
<1>3. QED
  BY <1>1, <1>2 DEF RolloutInv, Compares

LEMMA RolloutPodsCurrent == TypeInv /\ RolloutInv => RestMeansPodsCurrent
<1> SUFFICES ASSUME TypeInv, RolloutInv, AtRest, NEW p \in Pods
             PROVE  PodCurrent(p)
  BY DEF RestMeansPodsCurrent
<1>1. \A w \in Workers : ~Replaces(w, p[1])
  <2>1. processing = {} /\ p[1] \in Keys
    BY DEF AtRest, Idle, Pods
  <2>2. \A w \in Workers : ~Holds(w, p[1])
    BY <2>1 DEF TypeInv, MutexInv, ProcessingIsHeld
  <2>3. QED
    BY <2>2 DEF Replaces, Holds
<1>2. QED
  BY <1>1 DEF RolloutInv, PodAccounted, PodCurrent

(* Unless a rollout is broken off between the update of the StatefulSet    *)
(* and the deletion of its pods, or a user rewrites the template: an       *)
(* operator at rest has left no pod with the template of an old version.   *)
THEOREM PodsCurrentAtRest ==
    Spec /\ [][~RolloutBroken /\ ~TemplateTampered]_vars => []RestMeansPodsCurrent
<1>1. TypeInv /\ RolloutInv /\ [Next]_vars /\ [~RolloutBroken /\ ~TemplateTampered]_vars
        => RolloutInv'
  <2> SUFFICES ASSUME TypeInv, RolloutInv, [Next]_vars,
                      [~RolloutBroken /\ ~TemplateTampered]_vars
               PROVE  RolloutInv'
    OBVIOUS
  <2>1. CASE ~RolloutBroken /\ ~TemplateTampered
    BY <2>1, NextRollout
  <2>2. CASE UNCHANGED vars
    BY <2>2 DEF vars, clusterVars, objectVars, workerVars, RolloutInv,
                PodAccounted, Compares, Replaces
  <2>3. QED
    BY <2>1, <2>2
<1>2. QED
  BY <1>1, InitRollout, RolloutPodsCurrent, TypeInvariant, PTL DEF Spec
-----------------------------------------------------------------------------
(* Habitats of other versions of the controller.                           *)

Own(h) == h # None /\ h.custom
Foreign(h) == h # None /\ ~h.custom

(* A Habitat is handed to another version of the controller.               *)
HandedAway(k) == Own(hab[k]) /\ Foreign(hab'[k])

(* No version of k that is stored, on its way or cached is another's.      *)
NoneForeign(k) ==
    /\ ~Foreign(hab[k]) /\ ~Foreign(habCache[k])
    /\ \A i \in 1..Len(habWatch[k]) : ~Foreign(habWatch[k][i])

(* The work queue knows k, wherever it has it; or a handler will add it.   *)
InQueues(k) ==
    k \in dirty \/ k \in processing \/ k \in waitingEntries \/ InChannel(k)

Asked(k) == InQueues(k) \/ \E n \in Namespaces : k \in cmTodo[n]

(* Keys are added for Habitats of the operator's own version, and what     *)
(* once is the operator's own stays so: from there on every version that   *)
(* conform may find is its own.                                            *)
OwnKept(k) ==
    /\ Asked(k) \/ Own(habCache[k]) => NoneForeign(k)
    /\ \A i \in 1..Len(habWatch[k]) : Own(habWatch[k][i]) =>
         /\ ~Foreign(hab[k])
         /\ \A j \in i..Len(habWatch[k]) : ~Foreign(habWatch[k][j])

OwnJobs == \A w \in Workers : ~Foreign(job[w].hab)

OwnVersionInv == (\A k \in Keys : OwnKept(k)) /\ OwnJobs

(* No operation of the queue but Add makes it know a key.                  *)
LEMMA AddAsks ==
    ASSUME NEW j, Add(j), NEW k, InQueues(k)'
    PROVE  InQueues(k) \/ k = j
BY DEF Add, AddKey, delayVars, InQueues, InChannel

LEMMA QueueAsks ==
    ASSUME QInv, NEW j \in Keys, NEW k, InQueues(k)',
           \/ Get(j) \/ Done(j) \/ FireWaiting(j) \/ ReceiveWaiting
           \/ AddRateLimited(j) /\ j \in processing
           \/ UNCHANGED queueVars
    PROVE  InQueues(k)
<1>1. waitingForAddCh \in Seq(Keys)
  BY DEF QInv, QueueTypeOK
<1>2. CASE Get(j)
  BY <1>2, GetQInv DEF Get, InQueues, InChannel
<1>3. CASE Done(j)
  BY <1>3 DEF Done, InQueues, InChannel
<1>4. CASE FireWaiting(j)
  BY <1>4 DEF FireWaiting, AddKey, InQueues, InChannel
<1>5. CASE ReceiveWaiting
  <2>1. /\ waitingForAddCh # <<>> /\ waitingForAddCh' = Tail(waitingForAddCh)
        /\ processing' = processing
    BY <1>5, ReceiveWaitingQInv DEF ReceiveWaiting
  <2>2. \A y : InChannel(y) <=> (y = Head(waitingForAddCh) \/ InChannel(y)')
    BY <1>1, <2>1, TailContents DEF InChannel, Contains
  <2>3. /\ k \in dirty' => k \in dirty \/ k = Head(waitingForAddCh)
        /\ k \in waitingEntries' => k \in waitingEntries \/ k = Head(waitingForAddCh)
    BY <1>5 DEF ReceiveWaiting, AddKey
  <2>4. QED
    BY <2>1, <2>2, <2>3 DEF InQueues
<1>6. CASE AddRateLimited(j) /\ j \in processing
  <2>1. /\ UNCHANGED <<dirty, processing, waitingEntries>>
        /\ waitingForAddCh' = Append(waitingForAddCh, j) \/ waitingForAddCh' = waitingForAddCh
    BY <1>6 DEF AddRateLimited
  <2>2. InChannel(k)' => InChannel(k) \/ k = j
    BY <1>1, <2>1, AppendContents DEF InChannel, Contains
  <2>3. QED
    BY <1>6, <2>1, <2>2 DEF InQueues
<1>7. CASE UNCHANGED queueVars
  BY <1>7 DEF queueVars, InQueues, InChannel
<1>8. QED
  BY <1>2, <1>3, <1>4, <1>5, <1>6, <1>7

(* What a step may do to the versions of one Habitat.  What arrives in the *)
(* cache is asked for only when it, or what it replaces, is the operator's *)
(* own, or when it was asked for before.                                   *)
OwnStep(k) ==
    \/ /\ hab'[k] = hab[k] /\ habWatch'[k] = habWatch[k]
       /\ habCache'[k] = habCache[k]
       /\ Asked(k)' => Asked(k) \/ Own(habCache[k])
    \/ /\ habWatch'[k] = Append(habWatch[k], hab'[k])
       /\ Foreign(hab'[k]) => Foreign(hab[k])
       /\ habCache'[k] = habCache[k]
       /\ Asked(k)' => Asked(k)
    \/ /\ habWatch[k] # <<>> /\ habWatch'[k] = Tail(habWatch[k])
       /\ hab'[k] = hab[k] /\ habCache'[k] = Head(habWatch[k])
       /\ Asked(k)' => Asked(k) \/ Own(habCache[k]) \/ Own(habCache'[k])
    \/ /\ habWatch'[k] = IF hab[k] = None THEN <<>> ELSE <<hab[k]>>
       /\ hab'[k] = hab[k]
       /\ \/ habCache'[k] = None /\ ~Asked(k)'
          \/ (Asked(k)' => Asked(k)) /\ habCache'[k] \in {None, habCache[k]}

LEMMA OwnStepKeeps ==
    ASSUME TypeInv, NEW k \in Keys, OwnKept(k), OwnStep(k)
    PROVE  OwnKept(k)'
<1>1. PICK q \in Seq(HabOrNone) : q = habWatch[k]
  BY DEF TypeInv, ClusterTypeOK, HabOrNone
<1>2. PICK m \in Nat : m = Len(q)
  BY <1>1
<1>3. CASE /\ hab'[k] = hab[k] /\ habWatch'[k] = habWatch[k]
           /\ habCache'[k] = habCache[k]
           /\ Asked(k)' => Asked(k) \/ Own(habCache[k])
  BY <1>3 DEF OwnKept, NoneForeign
<1>4. CASE /\ habWatch'[k] = Append(habWatch[k], hab'[k])
           /\ Foreign(hab'[k]) => Foreign(hab[k])
           /\ habCache'[k] = habCache[k]
           /\ Asked(k)' => Asked(k)
  <2>1. /\ Len(habWatch'[k]) = m + 1 /\ habWatch'[k][m + 1] = hab'[k]
        /\ \A i \in 1..m : habWatch'[k][i] = q[i]
    BY <1>1, <1>2, <1>4
  <2>2. Asked(k)' \/ Own(habCache'[k]) => NoneForeign(k)'
    BY <1>1, <1>2, <1>4, <2>1 DEF OwnKept, NoneForeign
  <2>3. ASSUME NEW i \in 1..(m + 1), Own(habWatch'[k][i])
        PROVE  ~Foreign(hab'[k]) /\ \A j \in i..(m + 1) : ~Foreign(habWatch'[k][j])
    <3>1. CASE i = m + 1
      BY <2>1, <2>3, <3>1 DEF Own, Foreign
    <3>2. CASE i \in 1..m
      <4>1. ~Foreign(hab[k]) /\ \A j \in i..m : ~Foreign(q[j])
        BY <1>1, <1>2, <2>1, <2>3, <3>2 DEF OwnKept
      <4>2. \A j \in i..(m + 1) : j = m + 1 \/ (j \in i..m /\ j \in 1..m)
        BY <3>2
      <4>3. QED
        BY <1>4, <2>1, <4>1, <4>2
    <3>3. QED
      BY <3>1, <3>2
  <2>4. QED
    BY <2>1, <2>2, <2>3 DEF OwnKept
<1>5. CASE /\ habWatch[k] # <<>> /\ habWatch'[k] = Tail(habWatch[k])
           /\ hab'[k] = hab[k] /\ habCache'[k] = Head(habWatch[k])
           /\ Asked(k)' => Asked(k) \/ Own(habCache[k]) \/ Own(habCache'[k])
  <2>1. /\ m > 0 /\ Len(habWatch'[k]) = m - 1 /\ habCache'[k] = q[1]
        /\ \A i \in 1..(m - 1) : i + 1 \in 1..m /\ habWatch'[k][i] = q[i + 1]
        /\ 1 \in 1..m
    BY <1>1, <1>2, <1>5
  <2>2. NoneForeign(k) => NoneForeign(k)'
    BY <1>1, <1>2, <1>5, <2>1 DEF NoneForeign
  <2>3. Own(q[1]) => NoneForeign(k)'
    <3>1. SUFFICES ASSUME Own(q[1]) PROVE NoneForeign(k)'
      OBVIOUS
    <3>2. ~Foreign(hab[k]) /\ \A j \in 1..m : ~Foreign(q[j])
      BY <1>1, <1>2, <2>1, <3>1 DEF OwnKept
    <3>3. QED
      BY <1>5, <2>1, <3>2 DEF NoneForeign
  <2>4. ASSUME NEW i \in 1..(m - 1), Own(habWatch'[k][i])
        PROVE  ~Foreign(hab'[k]) /\ \A j \in i..(m - 1) : ~Foreign(habWatch'[k][j])
    <3>1. Own(q[i + 1]) /\ i + 1 \in 1..m
      BY <2>1, <2>4
    <3>2. ~Foreign(hab[k]) /\ \A j \in (i + 1)..m : ~Foreign(q[j])
      BY <1>1, <1>2, <3>1 DEF OwnKept
    <3>3. \A j \in i..(m - 1) : j \in 1..(m - 1) /\ j + 1 \in (i + 1)..m
      OBVIOUS
    <3>4. QED
      BY <1>5, <2>1, <3>2, <3>3
  <2>5. Asked(k)' \/ Own(habCache'[k]) => NoneForeign(k)'
    BY <1>5, <2>1, <2>2, <2>3 DEF OwnKept
  <2>6. QED
    BY <2>1, <2>4, <2>5 DEF OwnKept
<1>6. CASE /\ habWatch'[k] = IF hab[k] = None THEN <<>> ELSE <<hab[k]>>
           /\ hab'[k] = hab[k]
           /\ \/ habCache'[k] = None /\ ~Asked(k)'
              \/ (Asked(k)' => Asked(k)) /\ habCache'[k] \in {None, habCache[k]}
  <2>1. \A i \in 1..Len(habWatch'[k]) : i = 1 /\ habWatch'[k][i] = hab[k]
    <3>1. CASE hab[k] = None
      BY <1>6, <3>1
    <3>2. CASE hab[k] # None
      BY <1>6, <3>2
    <3>3. QED
      BY <3>1, <3>2
  <2>2. ASSUME NEW i \in 1..Len(habWatch'[k]), Own(habWatch'[k][i])
        PROVE  /\ ~Foreign(hab'[k])
               /\ \A j \in i..Len(habWatch'[k]) : ~Foreign(habWatch'[k][j])
    <3>1. \A j \in i..Len(habWatch'[k]) : j \in 1..Len(habWatch'[k])
      BY <2>1
    <3>2. QED
      BY <1>6, <2>1, <2>2, <3>1 DEF Own, Foreign
  <2>3. Asked(k)' \/ Own(habCache'[k]) => NoneForeign(k)'
    BY <1>6, <2>1 DEF OwnKept, NoneForeign, Own, Foreign
  <2>4. QED
    BY <2>2, <2>3 DEF OwnKept
<1>7. QED
  BY <1>3, <1>4, <1>5, <1>6 DEF OwnStep

(* The handlers enqueue what the cache says is the operator's own.         *)
LEMMA OwnerAsks ==
    ASSUME NEW j \in Keys, enqueueOwner(j), cmTodo' = cmTodo, NEW k \in Keys, Asked(k)'
    PROVE  Asked(k) \/ Own(habCache[k])
<1>1. CASE UNCHANGED queueVars
  BY <1>1 DEF Asked, InQueues, InChannel, queueVars
<1>2. CASE Add(j) /\ Own(habCache[j])
  BY <1>2, AddAsks DEF Asked
<1>3. QED
  BY <1>1, <1>2 DEF enqueueOwner, enqueue, Own

LEMMA InformerOwnStep ==
    ASSUME TypeInv, InformerStep, NEW k \in Keys
    PROVE  OwnStep(k)
<1>1. cmTodo \in [Namespaces -> SUBSET Keys] /\ habCache \in [Keys -> HabOrNone]
      /\ habWatch \in [Keys -> Seq(HabOrNone)]
  BY DEF TypeInv, InformersOK, ClusterTypeOK, HabOrNone
<1>2. ASSUME NEW j \in Keys, HabEvent(j) PROVE OwnStep(k)
  <2>1. /\ hab' = hab /\ cmTodo' = cmTodo /\ habWatch[j] # <<>>
        /\ habCache' = [habCache EXCEPT ![j] = Head(habWatch[j])]
        /\ habWatch' = [habWatch EXCEPT ![j] = Tail(@)]
    BY <1>2 DEF HabEvent, objectVars
  <2>2. CASE k # j
    <3>1. UNCHANGED queueVars \/ Add(j)
      BY <1>2 DEF HabEvent, enqueue
    <3>2. Asked(k)' => Asked(k)
      BY <2>1, <2>2, <3>1, AddAsks DEF Asked, InQueues, InChannel, queueVars
    <3>3. QED
      BY <1>1, <2>1, <2>2, <3>2 DEF OwnStep
  <2>3. CASE k = j
    <3>1. habCache'[k] = Head(habWatch[k]) /\ habWatch'[k] = Tail(habWatch[k])
      BY <1>1, <2>1, <2>3
    <3>2. UNCHANGED queueVars \/ Own(habCache[k]) \/ Own(habCache'[k])
      BY <1>2, <2>3, <3>1 DEF HabEvent, enqueue, Own
    <3>3. Asked(k)' => Asked(k) \/ Own(habCache[k]) \/ Own(habCache'[k])
      BY <2>1, <3>2 DEF Asked, InQueues, InChannel, queueVars
    <3>4. QED
      BY <2>1, <2>3, <3>1, <3>3 DEF OwnStep
  <2>4. QED
    BY <2>2, <2>3
<1>3. ASSUME NEW j \in Keys, StsEvent(j) \/ StsStatusEvent(j) PROVE OwnStep(k)
  <2>1. UNCHANGED <<hab, habWatch, habCache, cmTodo>> /\ enqueueOwner(j)
    BY <1>3 DEF StsEvent, StsStatusEvent, objectVars, watchVars, informerVars
  <2>2. QED
    BY <2>1, OwnerAsks DEF OwnStep
<1>4. ASSUME NEW n \in Namespaces, CMEvent(n) \/ CMResync(n) PROVE OwnStep(k)
  <2>1. /\ UNCHANGED <<hab, habWatch, habCache>> /\ UNCHANGED queueVars
        /\ cmTodo' = [cmTodo EXCEPT ![n] = @ \cup HabitatsIn(n)]
    BY <1>4 DEF CMEvent, CMResync, objectVars, watchVars
  <2>2. Asked(k)' => Asked(k) \/ Own(habCache[k])
    BY <1>1, <2>1 DEF Asked, InQueues, InChannel, queueVars, HabitatsIn, Own
  <2>3. QED
    BY <2>1, <2>2 DEF OwnStep
<1>5. ASSUME NEW n \in Namespaces, NEW j \in Keys, CMEnqueues(n, j) PROVE OwnStep(k)
  <2>1. /\ UNCHANGED <<hab, habWatch, habCache>> /\ Add(j) /\ j \in cmTodo[n]
        /\ cmTodo' = [cmTodo EXCEPT ![n] = @ \ {j}]
    BY <1>5 DEF CMEnqueues, clusterVars, objectVars, watchVars
  <2>2. Asked(k)' => Asked(k)
    BY <1>1, <2>1, AddAsks DEF Asked
  <2>3. QED
    BY <2>1, <2>2 DEF OwnStep
<1>6. ASSUME NEW p \in Pods, PodEvent(p) PROVE OwnStep(k)
  <2>1. UNCHANGED <<hab, habWatch, habCache, cmTodo>>
    BY <1>6 DEF PodEvent, objectVars
  <2>2. PICK j \in Keys : j = p[1]
    BY DEF Pods
  <2>3. UNCHANGED queueVars \/ enqueueOwner(j)
    BY <1>6, <2>2 DEF PodEvent
  <2>4. Asked(k)' => Asked(k) \/ Own(habCache[k])
    BY <2>1, <2>3, OwnerAsks DEF Asked, InQueues, InChannel, queueVars
  <2>5. QED
    BY <2>1, <2>4 DEF OwnStep
<1>7. CASE RelistHabs
  <2>1. /\ habWatch'[k] = IF hab[k] = None THEN <<>> ELSE <<hab[k]>>
        /\ habCache'[k] = IF hab[k] = None THEN None ELSE habCache[k]
        /\ UNCHANGED queueVars /\ UNCHANGED <<hab, cmTodo>>
    BY <1>7 DEF RelistHabs, ListHabs, objectVars
  <2>2. Asked(k)' => Asked(k)
    BY <2>1 DEF Asked, InQueues, InChannel, queueVars
  <2>3. QED
    BY <2>1, <2>2 DEF OwnStep
<1>8. CASE RelistCMs \/ RelistPods \/ RelistSts
  <2>1. UNCHANGED <<hab, habWatch, habCache, cmTodo>> /\ UNCHANGED queueVars
    BY <1>8 DEF RelistCMs, RelistPods, RelistSts, objectVars, informerVars
  <2>2. Asked(k)' => Asked(k)
    BY <2>1 DEF Asked, InQueues, InChannel, queueVars
  <2>3. QED
    BY <2>1, <2>2 DEF OwnStep
<1>9. QED
  BY <1>2, <1>3, <1>4, <1>5, <1>6, <1>7, <1>8 DEF InformerStep

(* What a user stores is another version's only if what was stored before  *)
(* is, or is handed away.                                                  *)
LEMMA ClusterOwnStep ==
    ASSUME TypeInv, ClusterStep, NEW k \in Keys, ~HandedAway(k)
    PROVE  OwnStep(k)
<1>1. hab \in [Keys -> HabOrNone] /\ habWatch \in [Keys -> Seq(HabOrNone)]
  BY DEF TypeInv, ClusterTypeOK, HabOrNone
<1>2. habCache' = habCache /\ (Asked(k)' => Asked(k))
  BY DEF ClusterStep, ControllerStutters, informerVars, Asked, InQueues, InChannel, queueVars
<1>3. CASE UNCHANGED <<hab, habWatch>>
  BY <1>2, <1>3 DEF OwnStep
<1>4. ASSUME NEW j \in Keys, NEW h, StoreHab(j, h), hab[j] = None => ~Foreign(h)
      PROVE  OwnStep(k)
  <2>1. CASE k # j
    BY <1>1, <1>2, <1>4, <2>1 DEF StoreHab, OwnStep
  <2>2. CASE k = j
    <3>1. habWatch'[k] = Append(habWatch[k], hab'[k]) /\ hab'[k] = h
      BY <1>1, <1>4, <2>2 DEF StoreHab
    <3>2. Foreign(hab'[k]) => Foreign(hab[k])
      BY <1>4, <2>2, <3>1 DEF HandedAway, Own, Foreign
    <3>3. QED
      BY <1>2, <3>1, <3>2 DEF OwnStep
  <2>3. QED
    BY <2>1, <2>2
<1>5. CASE \E j \in Keys : CreateHab(j)
  <2>1. PICK j \in Keys, s \in Specs :
          StoreHab(j, [uid |-> habGen[j] + 1, gen |-> habGen[j] + 1,
                       spec |-> s, custom |-> TRUE])
    BY <1>5 DEF CreateHab
  <2>2. PICK h : h = [uid |-> habGen[j] + 1, gen |-> habGen[j] + 1,
                      spec |-> s, custom |-> TRUE]
    OBVIOUS
  <2>3. StoreHab(j, h) /\ ~Foreign(h)
    BY <2>1, <2>2 DEF Foreign
  <2>4. QED
    BY <1>4, <2>3
<1>6. CASE \E j \in Keys : EditHab(j)
  <2>1. \E j \in Keys : hab[j] # None /\ \E h : StoreHab(j, h)
    BY <1>6, Zenon DEF EditHab
  <2>2. QED
    BY <1>4, <2>1
<1>7. CASE \E j \in Keys : DeleteHab(j)
  <2>1. ~Foreign(None)
    BY DEF Foreign
  <2>2. QED
    BY <1>4, <1>7, <2>1 DEF DeleteHab
<1>8. CASE \/ \E j \in Keys : ToggleSecret(j) \/ TamperSts(j) \/ CollectSts(j)
           \/ \E p \in Pods : KillPod(p) \/ PodStep(p)
           \/ \E n \in Namespaces : CollectCM(n)
  BY <1>3, <1>8 DEF ToggleSecret, TamperSts, KillPod, PodStep, StartPod, ScaleDown,
     PodRuns, PodGone, CollectSts, CollectCM, RemoveSts, watchVars
<1>9. QED
  BY <1>5, <1>6, <1>7, <1>8 DEF ClusterStep, UserStep

LEMMA WorkerOwnVersion ==
    ASSUME TypeInv, OwnVersionInv, NEW w \in Workers, WorkerStep(w) \/ ApiCallFails(w)
    PROVE  OwnVersionInv'
<1>1. UNCHANGED <<hab, habWatch, habCache, cmTodo>>
  BY DEF WorkerStep, ApiCallFails, TakeItem, LookupHab, GetSecrets, CreateSts,
         GetSts, UpdateSts, DeleteStsPods, ListRunningPods, CreateCM, FindCM,
         WriteLeader, UpdateCM, Requeue, FinishItem, informerVars, clusterVars,
         objectVars, watchVars
<1>2. wpc[w] # "Get" => wkey[w] \in Keys /\ wkey[w] \in processing
  BY DEF TypeInv, MutexInv, WorkersOK, ProcessingIsHeld, Holds
<1>3. \/ UNCHANGED queueVars
      \/ \E j \in Keys : \/ Get(j) \/ Done(j)
                         \/ AddRateLimited(j) /\ j \in processing
  BY <1>2 DEF WorkerStep, ApiCallFails, TakeItem, LookupHab, GetSecrets, CreateSts,
         GetSts, UpdateSts, DeleteStsPods, ListRunningPods, CreateCM, FindCM,
         WriteLeader, UpdateCM, Requeue, FinishItem
<1>4. \A k \in Keys : InQueues(k)' => InQueues(k)
  BY <1>3, QueueAsks DEF TypeInv, MutexInv
<1>5. \A k \in Keys : OwnStep(k)
  BY <1>1, <1>4 DEF OwnStep, Asked
<1>6. ASSUME LookupHab(w) PROVE ~Foreign(habCache[wkey[w]])
  BY <1>2, <1>6 DEF LookupHab, OwnVersionInv, OwnKept, Asked, InQueues, NoneForeign
<1>7. OwnJobs'
  BY <1>6, JobHabitats DEF OwnVersionInv, OwnJobs, Foreign
<1>8. QED
  BY <1>5, <1>7, OwnStepKeeps DEF OwnVersionInv

LEMMA NextOwnVersion ==
    ASSUME TypeInv, OwnVersionInv, [Next]_vars, \A k \in Keys : ~HandedAway(k)
    PROVE  OwnVersionInv'
<1>1. ASSUME job' = job, \A k \in Keys : OwnStep(k) PROVE OwnVersionInv'
  BY <1>1, OwnStepKeeps DEF OwnVersionInv, OwnJobs
<1>2. CASE InformerStep
  <2>1. job' = job
    BY <1>2 DEF InformerStep, HabEvent, StsEvent, StsStatusEvent, CMEvent, CMResync,
           CMEnqueues, PodEvent, RelistHabs, RelistCMs, RelistPods, RelistSts, workerVars
  <2>2. QED
    BY <1>1, <1>2, <2>1, InformerOwnStep
<1>3. CASE ClusterStep
  BY <1>1, <1>3, ClusterOwnStep DEF ClusterStep, ControllerStutters, workerVars
<1>4. CASE WaitingLoopReceives \/ (\E j \in Keys : WaitingLoopFires(j)) \/ UNCHANGED vars
  <2>1. UNCHANGED <<hab, habWatch, habCache, cmTodo, job>>
    BY <1>4 DEF WaitingLoopReceives, WaitingLoopFires, vars, clusterVars, objectVars,
           watchVars, informerVars, workerVars
  <2>2. ASSUME NEW k \in Keys PROVE InQueues(k)' => InQueues(k)
    BY <1>4, QueueAsks DEF WaitingLoopReceives, WaitingLoopFires, vars, TypeInv, MutexInv
  <2>3. \A k \in Keys : OwnStep(k)
    BY <2>1, <2>2 DEF OwnStep, Asked
  <2>4. QED
    BY <1>1, <2>1, <2>3
<1>5. CASE Crash
  <2>1. /\ hab' = hab /\ habWatch' = ListHabs /\ habCache' = [k \in Keys |-> None]
        /\ dirty' = {} /\ processing' = {} /\ waitingEntries' = {} /\ waitingForAddCh' = <<>>
        /\ cmTodo' = [n \in Namespaces |-> {}] /\ job' = [w \in Workers |-> NoJob]
    BY <1>5 DEF Crash, objectVars
  <2>2. 1..Len(waitingForAddCh') = {}
    BY <2>1
  <2>3. \A k \in Keys : ~Asked(k)'
    BY <2>1, <2>2 DEF Asked, InQueues, InChannel
  <2>4. \A k \in Keys : OwnStep(k)
    BY <2>1, <2>3 DEF OwnStep, ListHabs
  <2>5. OwnJobs'
    BY <2>1 DEF OwnJobs, NoJob, Foreign
  <2>6. QED
    BY <2>4, <2>5, OwnStepKeeps DEF OwnVersionInv
<1>6. QED
  BY <1>2, <1>3, <1>4, <1>5, WorkerOwnVersion DEF Next

LEMMA InitOwnVersion == Init => OwnVersionInv
<1> SUFFICES ASSUME Init PROVE OwnVersionInv
  OBVIOUS
<1>1. /\ dirty = {} /\ processing = {} /\ waitingEntries = {} /\ waitingForAddCh = <<>>
      /\ cmTodo = [n \in Namespaces |-> {}] /\ job = [w \in Workers |-> NoJob]
  BY DEF Init, QueueInit
<1>2. 1..Len(waitingForAddCh) = {}
  BY <1>1
<1>3. \A k \in Keys : ~Asked(k)
  BY <1>1, <1>2 DEF Asked, InQueues, InChannel
<1>4. CASE StartInit
  <2>1. habCache = [k \in Keys |-> None] /\ habWatch = ListHabs
    BY <1>4 DEF StartInit
  <2>2. ASSUME NEW k \in Keys PROVE OwnKept(k)
    <3>1. ASSUME NEW i \in 1..Len(habWatch[k]) PROVE i = 1 /\ habWatch[k][i] = hab[k]
      <4>1. CASE hab[k] = None
        BY <2>1, <4>1 DEF ListHabs
      <4>2. CASE hab[k] # None
        BY <2>1, <4>2 DEF ListHabs
      <4>3. QED
        BY <4>1, <4>2
    <3>2. \A i \in 1..Len(habWatch[k]) : \A j \in i..Len(habWatch[k]) : j \in 1..Len(habWatch[k])
      BY <3>1
    <3>3. QED
      BY <1>3, <2>1, <3>1, <3>2 DEF OwnKept, Own, Foreign
  <2>3. QED
    BY <1>1, <2>2 DEF OwnVersionInv, OwnJobs, NoJob, Foreign
<1>5. CASE DeployedInit
  <2>1. habCache = hab /\ habWatch = [k \in Keys |-> <<>>]
    BY <1>5 DEF DeployedInit
  <2>2. \A k \in Keys : habWatch[k] = <<>>
    BY <2>1
  <2>5. 1..Len(<<>>) = {}
    OBVIOUS
  <2>3. \A k \in Keys : OwnKept(k)
    BY <1>3, <2>1, <2>2, <2>5 DEF OwnKept, NoneForeign, Own, Foreign
  <2>4. QED
    BY <1>1, <2>3 DEF OwnVersionInv, OwnJobs, NoJob, Foreign
<1>6. QED
  BY <1>4, <1>5 DEF Init

(* As long as no Habitat is handed to another version of the controller,   *)
(* the operator deploys none but its own, although conform does not look   *)
(* at customVersion (controller.go:590): nobody asks for another's.  The   *)
(* condition is needed: a Habitat that is handed away while its key waits  *)
(* is what the run ForeignVersion finds.                                   *)
THEOREM DeploysOnlyOwn ==
    Spec /\ [][\A k \in Keys : ~HandedAway(k)]_vars => []OnlyOwnVersion
<1>1. TypeInv /\ OwnVersionInv /\ [Next]_vars /\ [\A k \in Keys : ~HandedAway(k)]_vars
        => OwnVersionInv'
  <2>1. UNCHANGED vars => \A k \in Keys : ~HandedAway(k)
    BY DEF HandedAway, Own, Foreign, vars, clusterVars, objectVars
  <2>2. QED
    BY <2>1, NextOwnVersion
<1>2. TypeInv /\ OwnVersionInv => OnlyOwnVersion
  BY DEF TypeInv, JobsOK, JobOK, UsesHab, OwnVersionInv, OwnJobs, Foreign, OnlyOwnVersion
<1>3. QED
  BY <1>1, <1>2, InitOwnVersion, TypeInvariant, PTL DEF Spec
-----------------------------------------------------------------------------
(* The versions of a Habitat reach its StatefulSet in the order in which   *)
(* they were stored.  A version travels from the API server through the    *)
(* watch and the informer's cache into the locals of a worker; nothing     *)
(* that is upstream of a version is older than it, and because one worker  *)
(* at a time works on a Habitat, none overtakes another at the last stage. *)

(* Nothing of generation less than g is stored or on its way. *)
StreamFrom(k, g) ==
    /\ \A i \in 1..Len(habWatch[k]) :
         habWatch[k][i] # None => g <= habWatch[k][i].gen
    /\ hab[k] # None => g <= hab[k].gen
    /\ g <= habGen[k]

(* ... and the cache holds nothing older either. *)
KnownFrom(k, g) ==
    /\ StreamFrom(k, g)
    /\ habCache[k] # None => g <= habCache[k].gen

(* The watch delivers the versions in order. *)
StreamOrdered(k) ==
    /\ hab[k] # None => hab[k].gen <= habGen[k]
    /\ \A i \in 1..Len(habWatch[k]) : habWatch[k][i] # None =>
         /\ habWatch[k][i].gen <= habGen[k]
         /\ hab[k] # None => habWatch[k][i].gen <= hab[k].gen
         /\ \A j \in i..Len(habWatch[k]) : habWatch[k][j] # None =>
              habWatch[k][i].gen <= habWatch[k][j].gen

(* Worker w runs conform for k with a Habitat it has looked up. *)
Deploys(w, k) == Holds(w, k) /\ job[w].hab # None

OrderInv ==
    \A k \in Keys :
        /\ StreamOrdered(k)
        /\ habCache[k] # None => StreamFrom(k, habCache[k].gen)
        /\ KnownFrom(k, appliedGen[k])
        /\ \A w \in Workers : Deploys(w, k) =>
             /\ KnownFrom(k, job[w].hab.gen)
             /\ appliedGen[k] <= job[w].hab.gen

-----------------------------------------------------------------------------
(* What a step does to the stream of versions of one Habitat.              *)
Undisturbed(k) ==
    hab'[k] = hab[k] /\ habGen'[k] = habGen[k] /\ habWatch'[k] = habWatch[k]

Stored(k) ==
    /\ habWatch'[k] = Append(habWatch[k], hab'[k])
    /\ \/ hab'[k] = None /\ habGen'[k] = habGen[k]
       \/ /\ hab'[k] \in Habs
          /\ hab'[k].gen = habGen[k] + 1 /\ habGen'[k] = habGen[k] + 1

Delivered(k) ==
    /\ hab'[k] = hab[k] /\ habGen'[k] = habGen[k]
    /\ habWatch[k] # <<>> /\ habWatch'[k] = Tail(habWatch[k])

Listed(k) ==
    /\ hab'[k] = hab[k] /\ habGen'[k] = habGen[k]
    /\ habWatch'[k] = IF hab[k] = None THEN <<>> ELSE <<hab[k]>>

StreamStep(k) == Undisturbed(k) \/ Stored(k) \/ Delivered(k) \/ Listed(k)

LEMMA StreamTypes ==
    ASSUME TypeInv, NEW k \in Keys
    PROVE  /\ hab[k] \in HabOrNone /\ habGen[k] \in Nat
           /\ habWatch[k] \in Seq(HabOrNone) /\ habCache[k] \in HabOrNone
           /\ appliedGen[k] \in Nat
           /\ \A w \in Workers : job[w].hab \in HabOrNone
           /\ \A h \in HabOrNone : h # None => h.gen \in Nat
<1>1. \A h \in HabOrNone : h # None => h.gen \in Nat
  BY DEF HabOrNone, Habs
<1>2. \A w \in Workers : job[w].hab \in HabOrNone
  BY DEF TypeInv, JobsOK, Jobs, HabOrNone
<1>3. QED
  BY <1>1, <1>2 DEF TypeInv, ClusterTypeOK, InformersOK, HabOrNone

LEMMA NoneIsNoHab == None \notin Habs
BY ClusterAssumption DEF ClusterAssumption

(* Generations only grow: what is stored or on its way, or will be, stays  *)
(* at or above any generation that it is at or above now.                  *)
LEMMA StreamFromStable ==
    ASSUME TypeInv, NEW k \in Keys, NEW g \in Nat,
           StreamStep(k), StreamFrom(k, g)
    PROVE  StreamFrom(k, g)'
<1>1. /\ hab[k] \in HabOrNone /\ habGen[k] \in Nat
      /\ habWatch[k] \in Seq(HabOrNone)
      /\ \A h \in HabOrNone : h # None => h.gen \in Nat
  BY StreamTypes
<1>2. CASE Undisturbed(k)
  BY <1>2 DEF Undisturbed, StreamFrom
<1>3. CASE Stored(k)
  <2>1. /\ g <= habGen'[k]
        /\ hab'[k] \in HabOrNone
        /\ hab'[k] # None => g <= hab'[k].gen
    BY <1>1, <1>3 DEF Stored, StreamFrom, HabOrNone
  <2>2. /\ habWatch'[k] = Append(habWatch[k], hab'[k])
        /\ Len(habWatch[k]) \in Nat
        /\ \A i \in 1..Len(habWatch[k]) :
             habWatch[k][i] # None => g <= habWatch[k][i].gen
    BY <1>1, <1>3 DEF Stored, StreamFrom
  <2>3. ASSUME NEW i \in 1..Len(habWatch'[k]), habWatch'[k][i] # None
        PROVE  g <= habWatch'[k][i].gen
    <3>1. CASE i = Len(habWatch[k]) + 1
      BY <1>1, <2>1, <2>2, <2>3, <3>1
    <3>2. CASE i # Len(habWatch[k]) + 1
      <4>1. i \in 1..Len(habWatch[k]) /\ habWatch'[k][i] = habWatch[k][i]
        BY <1>1, <2>1, <2>2, <2>3, <3>2
      <4>2. QED
        BY <2>2, <2>3, <4>1
    <3>3. QED
      BY <3>1, <3>2
  <2>4. QED
    BY <2>1, <2>3 DEF StreamFrom
<1>4. CASE Delivered(k)
  <2>1. ASSUME NEW i \in 1..Len(habWatch'[k])
        PROVE  i + 1 \in 1..Len(habWatch[k]) /\ habWatch'[k][i] = habWatch[k][i + 1]
    BY <1>1, <1>4, <2>1 DEF Delivered
  <2>2. QED
    BY <1>4, <2>1 DEF Delivered, StreamFrom
<1>5. CASE Listed(k)
  <2>1. ASSUME NEW i \in 1..Len(habWatch'[k])
        PROVE  hab[k] # None /\ habWatch'[k][i] = hab[k]
    BY <1>5, <2>1 DEF Listed
  <2>2. QED
    BY <1>5, <2>1 DEF Listed, StreamFrom
<1>6. QED
  BY <1>2, <1>3, <1>4, <1>5 DEF StreamStep

LEMMA StreamOrderedStable ==
    ASSUME TypeInv, NEW k \in Keys, StreamStep(k), StreamOrdered(k)
    PROVE  StreamOrdered(k)'
<1>1. /\ hab[k] \in HabOrNone /\ habGen[k] \in Nat
      /\ habWatch[k] \in Seq(HabOrNone)
      /\ \A h \in HabOrNone : h # None => h.gen \in Nat
  BY StreamTypes
<1>2. CASE Undisturbed(k)
  BY <1>2 DEF Undisturbed, StreamOrdered
<1>3. CASE Stored(k)
  <2>1. PICK n \in Nat : n = Len(habWatch[k])
    BY <1>1
  <2>2. /\ hab'[k] \in HabOrNone /\ habGen[k] <= habGen'[k] /\ habGen'[k] \in Nat
        /\ hab'[k] # None => hab'[k].gen = habGen'[k] /\ hab'[k].gen = habGen[k] + 1
    BY <1>1, <1>3, NoneIsNoHab DEF Stored, HabOrNone
  <2>3. /\ Len(habWatch'[k]) = n + 1 /\ habWatch'[k][n + 1] = hab'[k]
        /\ \A i \in 1..n : habWatch'[k][i] = habWatch[k][i]
                           /\ habWatch[k][i] \in HabOrNone
    BY <1>1, <1>3, <2>1, <2>2 DEF Stored
  <2>4. ASSUME NEW i \in 1..(n + 1), habWatch'[k][i] # None
        PROVE  /\ habWatch'[k][i].gen \in Nat
               /\ habWatch'[k][i].gen <= habGen'[k]
               /\ hab'[k] # None => habWatch'[k][i].gen <= hab'[k].gen
               /\ \A j \in i..(n + 1) : habWatch'[k][j] # None =>
                    habWatch'[k][i].gen <= habWatch'[k][j].gen
    <3>1. CASE i = n + 1
      BY <1>1, <2>2, <2>3, <2>4, <3>1
    <3>2. CASE i \in 1..n
      <4>1. PICK g \in Nat : g = habWatch[k][i].gen /\ g = habWatch'[k][i].gen
        BY <1>1, <2>3, <2>4, <3>2
      <4>2. g <= habGen[k] /\ \A j \in i..n : habWatch[k][j] # None =>
                                             g <= habWatch[k][j].gen
        BY <2>1, <2>3, <2>4, <3>2, <4>1 DEF StreamOrdered
      <4>3. g <= habGen'[k] /\ (hab'[k] # None => g <= hab'[k].gen)
        BY <1>1, <2>2, <4>2
      <4>4. ASSUME NEW j \in i..(n + 1), habWatch'[k][j] # None
            PROVE  g <= habWatch'[k][j].gen
        <5>1. j \in i..n \/ j = n + 1
          BY <3>2
        <5>2. CASE j \in i..n
          <6>1. j \in 1..n /\ habWatch'[k][j] = habWatch[k][j]
            BY <2>3, <3>2, <5>2
          <6>2. QED
            BY <4>2, <4>4, <5>2, <6>1
        <5>3. QED
          BY <2>3, <4>3, <4>4, <5>1, <5>2
      <4>5. QED
        BY <4>1, <4>3, <4>4
    <3>3. QED
      BY <3>1, <3>2
  <2>5. QED
    <3>1. hab'[k] # None => hab'[k].gen <= habGen'[k]
      BY <2>2
    <3>2. \A i \in 1..Len(habWatch'[k]) : habWatch'[k][i] # None =>
             /\ habWatch'[k][i].gen <= habGen'[k]
             /\ hab'[k] # None => habWatch'[k][i].gen <= hab'[k].gen
             /\ \A j \in i..Len(habWatch'[k]) : habWatch'[k][j] # None =>
                  habWatch'[k][i].gen <= habWatch'[k][j].gen
      BY <2>3, <2>4
    <3>3. QED
      BY <3>1, <3>2, Zenon DEF StreamOrdered
<1>4. CASE Delivered(k)
  <2>1. /\ Len(habWatch[k]) \in Nat
        /\ Len(habWatch'[k]) = Len(habWatch[k]) - 1
        /\ \A i \in 1..Len(habWatch'[k]) : habWatch'[k][i] = habWatch[k][i + 1]
    BY <1>1, <1>4 DEF Delivered
  <2>2. ASSUME NEW i \in 1..Len(habWatch'[k]), NEW j \in i..Len(habWatch'[k])
        PROVE  /\ i + 1 \in 1..Len(habWatch[k]) /\ j + 1 \in (i + 1)..Len(habWatch[k])
               /\ habWatch'[k][i] = habWatch[k][i + 1]
               /\ habWatch'[k][j] = habWatch[k][j + 1]
    BY <2>1
  <2>3. ASSUME NEW i \in 1..Len(habWatch'[k])
        PROVE  /\ i + 1 \in 1..Len(habWatch[k])
               /\ habWatch'[k][i] = habWatch[k][i + 1]
    BY <2>1
  <2>4. QED
    BY <1>4, <2>2, <2>3 DEF Delivered, StreamOrdered
<1>5. CASE Listed(k)
  <2>1. \A i \in 1..Len(habWatch'[k]) : hab[k] # None /\ habWatch'[k][i] = hab[k]
    BY <1>5 DEF Listed
  <2>2. \A i \in 1..Len(habWatch'[k]) : \A j \in i..Len(habWatch'[k]) :
          j \in 1..Len(habWatch'[k])
    BY <1>5 DEF Listed
  <2>3. hab[k] # None => hab[k].gen \in Nat
    BY <1>1
  <2>4. QED
    BY <1>1, <1>5, <2>1, <2>2, <2>3 DEF Listed, StreamOrdered
<1>6. QED
  BY <1>2, <1>3, <1>4, <1>5 DEF StreamStep

-----------------------------------------------------------------------------
(* What a step does downstream: the cache takes the next version of the    *)
(* stream, a worker looks the cached version up, a worker writes its own.  *)
CacheStep(k) ==
    \/ habCache'[k] \in {habCache[k], None}
    \/ Delivered(k) /\ habCache'[k] = Head(habWatch[k])

KeepsJob(w, k) == Deploys(w, k) /\ job'[w].hab = job[w].hab

JobStep(k) ==
    \A w \in Workers :
        Deploys(w, k)' => KeepsJob(w, k) \/ job'[w].hab = habCache[k]

AppliedStep(k) ==
    \/ appliedGen'[k] = appliedGen[k]
    \/ \E w \in Workers : Deploys(w, k) /\ appliedGen'[k] = job[w].hab.gen

VersionStep(k) ==
    StreamStep(k) /\ CacheStep(k) /\ JobStep(k) /\ AppliedStep(k)

LEMMA QuietVersionStep ==
    ASSUME UNCHANGED <<hab, habGen, habWatch, habCache, appliedGen>>,
           NEW k, JobStep(k)
    PROVE  VersionStep(k)
BY DEF VersionStep, StreamStep, Undisturbed, CacheStep, AppliedStep

LEMMA SameJobs ==
    ASSUME UNCHANGED workerVars, NEW k
    PROVE  JobStep(k) /\ AppliedStep(k)
BY DEF workerVars, JobStep, KeepsJob, AppliedStep, Deploys, Holds

(* Worker w goes on with the Habitat it has, or without one. *)
LEMMA LocalJobStep ==
    ASSUME TypeInv, NEW w \in Workers, NEW step, NEW j, Goto(w, step, j),
           j.hab = None \/ (j.hab = job[w].hab /\ wpc[w] # "Get"),
           wkey' = wkey \/ (j.hab = None /\ \E x : wkey' = [wkey EXCEPT ![w] = x]),
           NEW k
    PROVE  JobStep(k)
<1>1. PICK l : /\ job' = [job EXCEPT ![w] = l]
               /\ l.hab # None => l.hab = j.hab
  <2>1. job' = [job EXCEPT ![w] = NoJob] \/ job' = [job EXCEPT ![w] = j]
    BY DEF Goto
  <2>2. NoJob.hab = None
    BY DEF NoJob
  <2>3. QED
    BY <2>1, <2>2
<1>2. wpc' = [wpc EXCEPT ![w] = step]
  BY DEF Goto
<1>3. job \in [Workers -> Jobs] /\ wpc \in [Workers -> WorkerStates]
      /\ wkey \in [Workers -> Keys \cup {None}]
  BY DEF TypeInv, JobsOK, MutexInv, WorkersOK
<1>4. ASSUME NEW v \in Workers, Deploys(v, k)' PROVE KeepsJob(v, k)
  <2>1. CASE v = w
    BY <1>1, <1>2, <1>3, <1>4, <2>1 DEF Deploys, Holds, KeepsJob
  <2>2. CASE v # w
    BY <1>1, <1>2, <1>3, <1>4, <2>2 DEF Deploys, Holds, KeepsJob
  <2>3. QED
    BY <2>1, <2>2
<1>5. QED
  BY <1>4 DEF JobStep

LEMMA ReturnsJobStep ==
    ASSUME TypeInv, NEW w \in Workers, NEW step, NEW j, Returns(w, step, j),
           j.hab = None \/ (j.hab = job[w].hab /\ wpc[w] # "Get"),
           wkey' = wkey, NEW k
    PROVE  JobStep(k)
BY LocalJobStep DEF Returns

LEMMA LookupJobStep ==
    ASSUME TypeInv, NEW w \in Workers, LookupHab(w), NEW k
    PROVE  JobStep(k)
<1>1. PICK l, step : /\ job' = [job EXCEPT ![w] = l] /\ wkey' = wkey
                     /\ wpc' = [wpc EXCEPT ![w] = step] /\ wpc[w] = "Lookup"
                     /\ l.hab # None => l.hab = habCache[wkey[w]]
  <2>1. PICK step : /\ Goto(w, step, [NoJob EXCEPT !.hab = habCache[wkey[w]]])
                    /\ wkey' = wkey /\ wpc[w] = "Lookup"
    BY Zenon DEF LookupHab
  <2>2. PICK j : j = [NoJob EXCEPT !.hab = habCache[wkey[w]]]
    OBVIOUS
  <2>3. NoJob.hab = None /\ j.hab = habCache[wkey[w]]
    BY <2>2 DEF NoJob
  <2>4. job' = [job EXCEPT ![w] = NoJob] \/ job' = [job EXCEPT ![w] = j]
    BY <2>1, <2>2 DEF Goto
  <2>5. wpc' = [wpc EXCEPT ![w] = step]
    BY <2>1 DEF Goto
  <2>6. QED
    BY <2>1, <2>3, <2>4, <2>5
<1>2. job \in [Workers -> Jobs] /\ wpc \in [Workers -> WorkerStates]
  BY DEF TypeInv, JobsOK, MutexInv, WorkersOK
<1>3. ASSUME NEW v \in Workers, Deploys(v, k)'
      PROVE  KeepsJob(v, k) \/ job'[v].hab = habCache[k]
  <2>1. CASE v = w
    BY <1>1, <1>2, <1>3, <2>1 DEF Deploys, Holds
  <2>2. CASE v # w
    BY <1>1, <1>2, <1>3, <2>2 DEF Deploys, Holds, KeepsJob
  <2>3. QED
    BY <2>1, <2>2
<1>4. QED
  BY <1>3 DEF JobStep

LEMMA WriteLeaderJobStep ==
    ASSUME TypeInv, NEW w \in Workers, WriteLeader(w), NEW k
    PROVE  JobStep(k)
<1>1. /\ job \in [Workers -> Jobs] /\ wpc \in [Workers -> WorkerStates]
      /\ wpc[w] = "WriteLeader" /\ wpc' = [wpc EXCEPT ![w] = "UpdateCM"]
      /\ wkey' = wkey
  BY DEF TypeInv, JobsOK, MutexInv, WorkersOK, WriteLeader
<1>2. PICK ip : job' = [v \in Workers |->
                  IF SameCM(v, w) THEN [job[v] EXCEPT !.cm.ip = ip] ELSE job[v]]
  BY DEF WriteLeader
<1>3. ASSUME NEW v \in Workers, Deploys(v, k)' PROVE KeepsJob(v, k)
  <2>1. job[v] \in Jobs
    BY <1>1
  <2>2. job'[v].hab = job[v].hab
    BY <1>2, <2>1 DEF Jobs
  <2>3. Holds(v, k)
    BY <1>1, <1>3 DEF Deploys, Holds
  <2>4. QED
    BY <1>3, <2>2, <2>3 DEF Deploys, KeepsJob
<1>4. QED
  BY <1>3 DEF JobStep

LEMMA WriteStsAppliedStep ==
    ASSUME TypeInv, NEW w \in Workers, wpc[w] \in {"CreateSts", "UpdateSts"},
           WriteSts(w) \/ UNCHANGED appliedGen, NEW k \in Keys
    PROVE  AppliedStep(k)
<1>1. wkey[w] \in Keys /\ appliedGen \in [Keys -> Nat] /\ job[w].hab # None
  BY DEF TypeInv, MutexInv, WorkersOK, JobsOK, JobOK, UsesHab
<1>2. CASE UNCHANGED appliedGen
  BY <1>2 DEF AppliedStep
<1>3. CASE WriteSts(w)
  <2>1. appliedGen' = [appliedGen EXCEPT ![wkey[w]] = job[w].hab.gen]
    BY <1>3 DEF WriteSts
  <2>2. CASE k = wkey[w]
    BY <1>1, <2>1, <2>2 DEF AppliedStep, Deploys, Holds
  <2>3. CASE k # wkey[w]
    BY <1>1, <2>1, <2>3 DEF AppliedStep
  <2>4. QED
    BY <2>2, <2>3
<1>4. QED
  BY <1>2, <1>3

LEMMA WorkerVersionStep ==
    ASSUME TypeInv, NEW w \in Workers, WorkerStep(w) \/ ApiCallFails(w),
           NEW k \in Keys
    PROVE  VersionStep(k)
<1> USE DEF informerVars, clusterVars, objectVars, watchVars
<1>1. NoJob.hab = None
  BY DEF NoJob
<1>2. CASE TakeItem(w)
  <2>1. Goto(w, "Lookup", NoJob) /\ \E x : wkey' = [wkey EXCEPT ![w] = x]
    BY <1>2 DEF TakeItem
  <2>2. JobStep(k)
    BY <1>1, <2>1, LocalJobStep
  <2>3. QED
    BY <1>2, <2>2, QuietVersionStep DEF TakeItem
<1>3. CASE FinishItem(w)
  <2>1. Goto(w, "Get", NoJob) /\ \E x : wkey' = [wkey EXCEPT ![w] = x]
    BY <1>3 DEF FinishItem
  <2>2. JobStep(k)
    BY <1>1, <2>1, LocalJobStep
  <2>3. QED
    BY <1>3, <2>2, QuietVersionStep DEF FinishItem
<1>4. CASE LookupHab(w)
  BY <1>4, LookupJobStep, QuietVersionStep DEF LookupHab
<1>5. CASE WriteLeader(w)
  BY <1>5, WriteLeaderJobStep, QuietVersionStep DEF WriteLeader
<1>6. CASE Requeue(w)
  BY <1>1, <1>6, LocalJobStep, QuietVersionStep DEF Requeue
<1>7. CASE ApiCallFails(w)
  BY <1>1, <1>7, LocalJobStep, QuietVersionStep DEF ApiCallFails
<1>8. CASE GetSecrets(w)
  <2>1. PICK step : Goto(w, step, job[w]) /\ wpc[w] = "Build"
    BY <1>8 DEF GetSecrets
  <2>2. QED
    BY <1>8, <2>1, LocalJobStep, QuietVersionStep DEF GetSecrets
<1>9. CASE DeleteStsPods(w)
  <2>1. /\ wpc[w] = "DeletePods" /\ wkey' = wkey
        /\ Goto(w, "ListPods", job[w]) \/ Goto(w, "Requeue", NoJob)
    BY <1>9 DEF DeleteStsPods
  <2>2. JobStep(k)
    BY <1>1, <2>1, LocalJobStep
  <2>3. QED
    BY <1>9, <2>2, QuietVersionStep DEF DeleteStsPods
<1>10. job[w] \in Jobs
  BY DEF TypeInv, JobsOK
<1>11. CASE GetSts(w)
  <2>1. PICK t : t = [job[w] EXCEPT !.template = sts[wkey[w]].template]
    OBVIOUS
  <2>2. t.hab = job[w].hab
    BY <1>10, <2>1 DEF Jobs
  <2>3. /\ wpc[w] = "GetSts" /\ wkey' = wkey
        /\ Goto(w, "Requeue", NoJob) \/ Goto(w, "UpdateSts", t)
    BY <1>11, <2>1 DEF GetSts
  <2>4. JobStep(k)
    BY <1>1, <2>2, <2>3, LocalJobStep
  <2>5. QED
    BY <1>11, <2>4, QuietVersionStep DEF GetSts
<1>12. CASE ListRunningPods(w)
  <2>1. PICK running, leader :
          Goto(w, "CreateCM", [job[w] EXCEPT !.running = running,
                                             !.leader = leader])
    BY <1>12 DEF ListRunningPods
  <2>2. PICK j : j = [job[w] EXCEPT !.running = running, !.leader = leader]
    OBVIOUS
  <2>3. j.hab = job[w].hab
    BY <1>10, <2>2 DEF Jobs
  <2>4. wpc[w] = "ListPods" /\ wkey' = wkey /\ Goto(w, "CreateCM", j)
    BY <1>12, <2>1, <2>2 DEF ListRunningPods
  <2>5. JobStep(k)
    BY <2>3, <2>4, LocalJobStep
  <2>6. QED
    BY <1>12, <2>5, QuietVersionStep DEF ListRunningPods
<1>13. CASE FindCM(w)
  <2>1. PICK step, j : /\ Goto(w, step, j) /\ wkey' = wkey
                       /\ j = [NoJob EXCEPT !.leader = job[w].leader,
                                            !.cm = cmCache[NsOf[wkey[w]]],
                                            !.copy = cmCopy[NsOf[wkey[w]]]]
    BY <1>13, Zenon DEF FindCM
  <2>2. j.hab = None
    BY <2>1 DEF NoJob
  <2>3. JobStep(k)
    BY <2>1, <2>2, LocalJobStep
  <2>4. QED
    BY <1>13, <2>3, QuietVersionStep DEF FindCM
<1>14. CASE CreateCM(w)
  <2>1. /\ wpc[w] = "CreateCM" /\ wkey' = wkey
        /\ Returns(w, "Done", NoJob) \/ Goto(w, "FindCM", job[w])
    BY <1>14 DEF CreateCM
  <2>2. JobStep(k)
    BY <1>1, <2>1, LocalJobStep, ReturnsJobStep
  <2>3. QED
    BY <1>14, <2>2, QuietVersionStep DEF CreateCM, StoreCM
<1>15. CASE UpdateCM(w)
  <2>1. /\ wkey' = wkey
        /\ \/ Returns(w, "Done", NoJob)
           \/ \E step : Goto(w, step, NoJob)
    BY <1>15 DEF UpdateCM
  <2>2. JobStep(k)
    BY <1>1, <2>1, LocalJobStep, ReturnsJobStep
  <2>3. QED
    BY <1>15, <2>2, QuietVersionStep DEF UpdateCM, StoreCM
<1>16. CASE CreateSts(w) \/ UpdateSts(w)
  <2>1. PICK t : t = [job[w] EXCEPT !.template = None]
    OBVIOUS
  <2>2. t.hab = job[w].hab
    BY <1>10, <2>1 DEF Jobs
  <2>3. /\ wpc[w] \in {"CreateSts", "UpdateSts"} /\ wkey' = wkey
        /\ \E j \in {t, job[w], NoJob} : \E step :
             Returns(w, step, j) \/ Goto(w, step, j)
    BY <1>16, <2>1 DEF CreateSts, UpdateSts
  <2>4. JobStep(k)
    BY <1>1, <2>2, <2>3, LocalJobStep, ReturnsJobStep
  <2>5. WriteSts(w) \/ UNCHANGED appliedGen
    BY <1>16 DEF CreateSts, UpdateSts
  <2>6. AppliedStep(k)
    BY <2>3, <2>5, WriteStsAppliedStep
  <2>7. UNCHANGED <<hab, habGen, habWatch, habCache>>
    BY <1>16 DEF CreateSts, UpdateSts
  <2>8. QED
    BY <2>4, <2>6, <2>7 DEF VersionStep, StreamStep, Undisturbed, CacheStep
<1>17. QED
  BY <1>2, <1>3, <1>4, <1>5, <1>6, <1>7, <1>8, <1>9, <1>11, <1>12, <1>13,
     <1>14, <1>15, <1>16 DEF WorkerStep

(* Users store versions; nothing else in the cluster does. *)
LEMMA ClusterVersionStep ==
    ASSUME TypeInv, ClusterStep, NEW k \in Keys
    PROVE  VersionStep(k)
<1>1. /\ hab \in [Keys -> HabOrNone] /\ habGen \in [Keys -> Nat]
      /\ habWatch \in [Keys -> Seq(HabOrNone)]
  BY DEF TypeInv, ClusterTypeOK, HabOrNone
<1>2. UNCHANGED <<habCache, appliedGen>> /\ JobStep(k) /\ AppliedStep(k)
  BY SameJobs DEF ClusterStep, ControllerStutters, informerVars, workerVars
<1>3. StreamStep(k)
  <2>1. ASSUME NEW l \in Keys, NEW h \in HabOrNone, StoreHab(l, h),
               \/ h = None /\ habGen' = habGen
               \/ h \in Habs /\ h.gen = habGen[l] + 1
                  /\ habGen' = [habGen EXCEPT ![l] = @ + 1]
        PROVE  StreamStep(k)
    <3>1. CASE k = l
      BY <1>1, <2>1, <3>1 DEF StoreHab, Stored, StreamStep
    <3>2. CASE k # l
      BY <1>1, <2>1, <3>2 DEF StoreHab, Undisturbed, StreamStep
    <3>3. QED
      BY <3>1, <3>2
  <2>2. ASSUME UNCHANGED <<hab, habGen, habWatch>> PROVE StreamStep(k)
    BY <2>2 DEF Undisturbed, StreamStep
  <2>3. ASSUME NEW l \in Keys, CreateHab(l) PROVE StreamStep(k)
    <3>1. PICK s \in Specs : StoreHab(l, [uid |-> habGen[l] + 1, gen |-> habGen[l] + 1,
                                          spec |-> s, custom |-> TRUE])
      BY <2>3 DEF CreateHab
    <3>2. PICK h : h = [uid |-> habGen[l] + 1, gen |-> habGen[l] + 1,
                        spec |-> s, custom |-> TRUE]
      OBVIOUS
    <3>3. h \in Habs /\ h.gen = habGen[l] + 1
      BY <1>1, <3>2 DEF Habs
    <3>4. QED
      BY <2>1, <2>3, <3>1, <3>2, <3>3 DEF CreateHab, HabOrNone
  <2>4. ASSUME NEW l \in Keys, EditHab(l) PROVE StreamStep(k)
    <3>1. hab[l] # None /\ habGen' = [habGen EXCEPT ![l] = @ + 1]
      BY <2>4, Zenon DEF EditHab
    <3>2. hab[l] \in Habs /\ habGen[l] + 1 \in Nat
      BY <1>1, <3>1 DEF HabOrNone
    <3>3. PICK h \in Habs : StoreHab(l, h) /\ h.gen = habGen[l] + 1
      <4>1. ASSUME NEW s \in Specs,
                   NEW h, h = [hab[l] EXCEPT !.spec = s, !.gen = habGen[l] + 1]
            PROVE  h \in Habs /\ h.gen = habGen[l] + 1
        BY <3>2, <4>1 DEF Habs
      <4>2. ASSUME NEW h, h = [hab[l] EXCEPT !.custom = ~@, !.gen = habGen[l] + 1]
            PROVE  h \in Habs /\ h.gen = habGen[l] + 1
        BY <3>2, <4>2 DEF Habs
      <4>3. QED
        BY <2>4, <4>1, <4>2, Zenon DEF EditHab
    <3>4. QED
      BY <2>1, <3>1, <3>3 DEF HabOrNone
  <2>5. ASSUME NEW l \in Keys, DeleteHab(l) PROVE StreamStep(k)
    BY <2>1, <2>5 DEF DeleteHab, HabOrNone
  <2>6. ASSUME NEW l \in Keys, ToggleSecret(l) \/ TamperSts(l) PROVE StreamStep(k)
    BY <2>2, <2>6 DEF ToggleSecret, TamperSts, watchVars
  <2>7. ASSUME NEW p \in Pods, KillPod(p) \/ PodStep(p) PROVE StreamStep(k)
    BY <2>2, <2>7 DEF KillPod, PodStep, StartPod, ScaleDown, PodRuns, PodGone
  <2>8. ASSUME NEW l \in Keys, CollectSts(l) PROVE StreamStep(k)
    BY <2>2, <2>8 DEF CollectSts
  <2>9. ASSUME NEW n \in Namespaces, CollectCM(n) PROVE StreamStep(k)
    BY <2>2, <2>9 DEF CollectCM
  <2>10. QED
    BY <2>3, <2>4, <2>5, <2>6, <2>7, <2>8, <2>9 DEF ClusterStep, UserStep
<1>4. QED
  BY <1>2, <1>3 DEF VersionStep, CacheStep

LEMMA InformerVersionStep ==
    ASSUME TypeInv, InformerStep, NEW k \in Keys
    PROVE  VersionStep(k)
<1> USE DEF workerVars, informerVars, clusterVars, objectVars, watchVars
<1>1. /\ habCache \in [Keys -> HabOrNone] /\ habWatch \in [Keys -> Seq(HabOrNone)]
  BY DEF TypeInv, ClusterTypeOK, InformersOK, HabOrNone
<1>2. UNCHANGED workerVars
  BY DEF InformerStep, HabEvent, StsEvent, StsStatusEvent, CMEvent, CMResync,
         CMEnqueues, PodEvent, RelistHabs, RelistCMs, RelistPods, RelistSts
<1>3. JobStep(k) /\ AppliedStep(k)
  BY <1>2, SameJobs
<1>4. ASSUME NEW l \in Keys, HabEvent(l) PROVE VersionStep(k)
  <2>1. /\ hab' = hab /\ habGen' = habGen /\ habWatch[l] # <<>>
        /\ habCache' = [habCache EXCEPT ![l] = Head(habWatch[l])]
        /\ habWatch' = [habWatch EXCEPT ![l] = Tail(@)]
    BY <1>4 DEF HabEvent
  <2>2. CASE k = l
    <3>1. Delivered(k) /\ habCache'[k] = Head(habWatch[k])
      BY <1>1, <2>1, <2>2 DEF Delivered
    <3>2. QED
      BY <1>3, <3>1 DEF VersionStep, StreamStep, CacheStep
  <2>3. CASE k # l
    <3>1. Undisturbed(k) /\ habCache'[k] = habCache[k]
      BY <1>1, <2>1, <2>3 DEF Undisturbed
    <3>2. QED
      BY <1>3, <3>1 DEF VersionStep, StreamStep, CacheStep
  <2>4. QED
    BY <2>2, <2>3
<1>5. CASE RelistHabs
  <2>1. hab' = hab /\ habGen' = habGen /\ habWatch' = ListHabs
    BY <1>5 DEF RelistHabs
  <2>2. habCache'[k] \in {habCache[k], None}
    BY <1>5 DEF RelistHabs
  <2>3. Listed(k)
    BY <2>1 DEF ListHabs, Listed
  <2>4. QED
    BY <1>3, <2>2, <2>3 DEF VersionStep, StreamStep, CacheStep
<1>6. ASSUME NEW l \in Keys, StsEvent(l) \/ StsStatusEvent(l) PROVE VersionStep(k)
  BY <1>3, <1>6, QuietVersionStep DEF StsEvent, StsStatusEvent
<1>7. ASSUME NEW n \in Namespaces, CMEvent(n) \/ CMResync(n) PROVE VersionStep(k)
  BY <1>3, <1>7, QuietVersionStep DEF CMEvent, CMResync
<1>8. ASSUME NEW n \in Namespaces, NEW l \in Keys, CMEnqueues(n, l)
      PROVE  VersionStep(k)
  BY <1>3, <1>8, QuietVersionStep DEF CMEnqueues
<1>9. ASSUME NEW p \in Pods, PodEvent(p) PROVE VersionStep(k)
  BY <1>3, <1>9, QuietVersionStep DEF PodEvent
<1>10. CASE RelistCMs \/ RelistPods \/ RelistSts
  BY <1>3, <1>10, QuietVersionStep
     DEF RelistCMs, RelistPods, RelistSts, objectVars, informerVars
<1>11. QED
  BY <1>4, <1>5, <1>6, <1>7, <1>8, <1>9, <1>10 DEF InformerStep

LEMMA CrashVersionStep ==
    ASSUME TypeInv, Crash, NEW k \in Keys
    PROVE  VersionStep(k)
<1>1. /\ hab' = hab /\ habGen' = habGen /\ habWatch' = ListHabs
      /\ habCache' = [l \in Keys |-> None] /\ appliedGen' = appliedGen
      /\ wpc' = [w \in Workers |-> "Get"]
  BY DEF Crash, objectVars
<1>2. Listed(k) /\ habCache'[k] = None /\ AppliedStep(k)
  BY <1>1 DEF ListHabs, Listed, AppliedStep
<1>3. JobStep(k)
  BY <1>1 DEF JobStep, Deploys, Holds
<1>4. QED
  BY <1>2, <1>3 DEF VersionStep, StreamStep, CacheStep

LEMMA NextVersionStep ==
    ASSUME TypeInv, [Next]_vars, NEW k \in Keys
    PROVE  VersionStep(k)
<1>1. ASSUME UNCHANGED <<clusterVars, informerVars, workerVars>>
      PROVE  VersionStep(k)
  BY <1>1, QuietVersionStep, SameJobs
     DEF clusterVars, objectVars, watchVars, informerVars, workerVars
<1>2. CASE WaitingLoopReceives \/ (\E l \in Keys : WaitingLoopFires(l))
           \/ UNCHANGED vars
  BY <1>1, <1>2 DEF WaitingLoopReceives, WaitingLoopFires, vars
<1>3. QED
  BY <1>2, WorkerVersionStep, ClusterVersionStep, InformerVersionStep,
     CrashVersionStep DEF Next

-----------------------------------------------------------------------------
LEMMA KnownFromStable ==
    ASSUME TypeInv, NEW k \in Keys, NEW g \in Nat, VersionStep(k), KnownFrom(k, g)
    PROVE  KnownFrom(k, g)'
<1>1. StreamFrom(k, g)'
  BY StreamFromStable DEF VersionStep, KnownFrom
<1>2. ASSUME habCache'[k] # None PROVE g <= habCache'[k].gen
  <2>1. CASE habCache'[k] \in {habCache[k], None}
    BY <1>2, <2>1 DEF KnownFrom
  <2>2. CASE Delivered(k) /\ habCache'[k] = Head(habWatch[k])
    <3>1. habWatch[k] \in Seq(HabOrNone)
      BY StreamTypes
    <3>2. 1 \in 1..Len(habWatch[k]) /\ habCache'[k] = habWatch[k][1]
      BY <2>2, <3>1 DEF Delivered
    <3>3. QED
      BY <1>2, <3>2 DEF KnownFrom, StreamFrom
  <2>3. QED
    BY <2>1, <2>2 DEF VersionStep, CacheStep
<1>3. QED
  BY <1>1, <1>2 DEF KnownFrom

(* What becomes the cached version is no newer than the rest. *)
LEMMA HeadStreamFrom ==
    ASSUME TypeInv, NEW k \in Keys, StreamOrdered(k),
           habWatch[k] # <<>>, Head(habWatch[k]) # None
    PROVE  StreamFrom(k, Head(habWatch[k]).gen)
<1>1. habWatch[k] \in Seq(HabOrNone)
  BY StreamTypes
<1>2. 1 \in 1..Len(habWatch[k]) /\ Head(habWatch[k]) = habWatch[k][1]
  BY <1>1
<1>3. QED
  BY <1>2 DEF StreamOrdered, StreamFrom

LEMMA CacheOrderStable ==
    ASSUME TypeInv, OrderInv, NEW k \in Keys, VersionStep(k), habCache'[k] # None
    PROVE  StreamFrom(k, habCache[k].gen)'
<1>1. StreamStep(k)
  BY DEF VersionStep
<1>2. PICK h \in HabOrNone : h # None /\ habCache'[k] = h /\ StreamFrom(k, h.gen)
  <2>1. CASE habCache'[k] = habCache[k]
    BY <2>1, StreamTypes DEF OrderInv
  <2>2. CASE Delivered(k) /\ habCache'[k] = Head(habWatch[k])
    <3>1. habWatch[k] # <<>> /\ habWatch[k] \in Seq(HabOrNone)
      BY <2>2, StreamTypes DEF Delivered
    <3>2. Head(habWatch[k]) \in HabOrNone
      BY <3>1, HeadTailType
    <3>3. QED
      BY <2>2, <3>1, <3>2, HeadStreamFrom DEF OrderInv
  <2>3. QED
    BY <2>1, <2>2 DEF VersionStep, CacheStep
<1>3. PICK g \in Nat : g = h.gen
  BY <1>2, StreamTypes
<1>4. StreamFrom(k, g)'
  BY <1>1, <1>2, <1>3, StreamFromStable
<1>5. QED
  BY <1>2, <1>3, <1>4 DEF StreamFrom

(* What is applied next is not older than what was applied, and nothing    *)
(* older than it is left.                                                  *)
LEMMA AppliedForward ==
    ASSUME TypeInv, OrderInv, NEW k \in Keys, VersionStep(k)
    PROVE  /\ appliedGen[k] <= appliedGen'[k]
           /\ appliedGen'[k] \in Nat
           /\ KnownFrom(k, appliedGen'[k])
<1>1. appliedGen[k] \in Nat
  BY StreamTypes
<1>2. CASE appliedGen'[k] = appliedGen[k]
  BY <1>1, <1>2 DEF OrderInv
<1>3. ASSUME NEW w \in Workers, Deploys(w, k), appliedGen'[k] = job[w].hab.gen
      PROVE  /\ appliedGen[k] <= appliedGen'[k]
             /\ appliedGen'[k] \in Nat
             /\ KnownFrom(k, appliedGen'[k])
  <2>1. job[w].hab.gen \in Nat
    BY <1>3, StreamTypes DEF Deploys
  <2>2. QED
    BY <1>3, <2>1 DEF OrderInv
<1>4. QED
  BY <1>2, <1>3 DEF VersionStep, AppliedStep

LEMMA JobOrderStable ==
    ASSUME TypeInv, OrderInv, NEW k \in Keys, VersionStep(k),
           NEW v \in Workers, Deploys(v, k)'
    PROVE  /\ KnownFrom(k, job[v].hab.gen)'
           /\ appliedGen'[k] <= job'[v].hab.gen
<1>1. PICK h \in HabOrNone : /\ h # None /\ job'[v].hab = h
                             /\ KnownFrom(k, h.gen)
                             /\ appliedGen'[k] <= h.gen
  <2>1. CASE KeepsJob(v, k)
    <3>1. Deploys(v, k) /\ job'[v].hab = job[v].hab
      BY <2>1 DEF KeepsJob
    <3>2. KnownFrom(k, job[v].hab.gen) /\ appliedGen[k] <= job[v].hab.gen
      BY <3>1 DEF OrderInv
    <3>3. appliedGen'[k] <= job[v].hab.gen
      <4>1. CASE appliedGen'[k] = appliedGen[k]
        BY <3>2, <4>1
      <4>2. ASSUME NEW w \in Workers, Deploys(w, k),
                   appliedGen'[k] = job[w].hab.gen
            PROVE  appliedGen'[k] <= job[v].hab.gen
        <5>1. v = w
          BY <3>1, <4>2 DEF TypeInv, MutexInv, OneWorkerPerHabitat, Deploys
        <5>2. job[w].hab.gen \in Nat
          BY <4>2, StreamTypes DEF Deploys
        <5>3. QED
          BY <4>2, <5>1, <5>2
      <4>3. QED
        BY <4>1, <4>2 DEF VersionStep, AppliedStep
    <3>4. job[v].hab \in HabOrNone /\ job[v].hab # None
      BY <3>1, StreamTypes DEF Deploys
    <3>5. QED
      BY <3>1, <3>2, <3>3, <3>4
  <2>2. CASE job'[v].hab = habCache[k]
    <3>1. habCache[k] \in HabOrNone /\ habCache[k] # None
      BY <2>2, StreamTypes DEF Deploys
    <3>2. habCache[k].gen \in Nat
      BY <3>1, StreamTypes
    <3>3. KnownFrom(k, habCache[k].gen)
      BY <3>1, <3>2 DEF OrderInv, KnownFrom
    <3>4. appliedGen'[k] <= habCache[k].gen
      BY <3>1, AppliedForward DEF KnownFrom
    <3>5. QED
      BY <2>2, <3>1, <3>3, <3>4
  <2>3. QED
    BY <2>1, <2>2 DEF VersionStep, JobStep
<1>2. PICK g \in Nat : g = h.gen
  BY <1>1, StreamTypes
<1>3. KnownFrom(k, g)'
  BY <1>1, <1>2, KnownFromStable
<1>4. QED
  BY <1>1, <1>2, <1>3 DEF KnownFrom, StreamFrom

LEMMA NextOrderInv == TypeInv /\ OrderInv /\ [Next]_vars => OrderInv'
<1> SUFFICES ASSUME TypeInv, OrderInv, [Next]_vars, NEW k \in Keys
             PROVE  /\ StreamOrdered(k)'
                    /\ habCache'[k] # None => StreamFrom(k, habCache[k].gen)'
                    /\ KnownFrom(k, appliedGen[k])'
                    /\ \A w \in Workers : Deploys(w, k)' =>
                         /\ KnownFrom(k, job[w].hab.gen)'
                         /\ appliedGen'[k] <= job'[w].hab.gen
  BY DEF OrderInv
<1>1. VersionStep(k)
  BY NextVersionStep
<1>2. StreamOrdered(k)'
  BY <1>1, StreamOrderedStable DEF OrderInv, VersionStep
<1>3. habCache'[k] # None => StreamFrom(k, habCache[k].gen)'
  BY <1>1, CacheOrderStable
<1>4. KnownFrom(k, appliedGen[k])'
  <2>1. PICK g \in Nat : g = appliedGen'[k] /\ KnownFrom(k, g)
    BY <1>1, AppliedForward
  <2>2. KnownFrom(k, g)'
    BY <1>1, <2>1, KnownFromStable
  <2>3. QED
    BY <2>1, <2>2 DEF KnownFrom, StreamFrom
<1>5. QED
  BY <1>1, <1>2, <1>3, <1>4, JobOrderStable

LEMMA InitOrderInv == Init => OrderInv
<1> SUFFICES ASSUME Init, NEW k \in Keys
             PROVE  /\ StreamOrdered(k)
                    /\ habCache[k] # None => StreamFrom(k, habCache[k].gen)
                    /\ KnownFrom(k, appliedGen[k])
                    /\ \A w \in Workers : ~Deploys(w, k)
  BY DEF OrderInv
<1>1. \A w \in Workers : ~Deploys(w, k)
  BY DEF Init, Deploys, Holds
<1>0. PICK s \in Scenarios : /\ ClusterInit(s)
                             /\ IF s.deployed THEN DeployedInit ELSE StartInit
  BY DEF Init
<1>2. /\ hab[k] # None => hab[k].gen = 1
      /\ habGen[k] = IF hab[k] = None THEN 0 ELSE 1
  BY <1>0, ClusterAssumption DEF ClusterInit, ClusterAssumption
<1>3. /\ habWatch[k] = <<>> \/ (hab[k] # None /\ habWatch[k] = <<hab[k]>>)
      /\ habCache[k] \in {hab[k], None}
      /\ appliedGen[k] = 0 \/ (hab[k] # None /\ appliedGen[k] = 1)
  <2>1. CASE StartInit
    BY <2>1 DEF StartInit, ListHabs
  <2>2. CASE DeployedInit
    <3>1. /\ habWatch = [l \in Keys |-> <<>>] /\ habCache = hab
          /\ appliedGen = [l \in Keys |-> IF hab[l] = None THEN 0 ELSE 1]
      BY <2>2 DEF DeployedInit
    <3>2. QED
      BY <3>1
  <2>3. QED
    BY <1>0, <2>1, <2>2
<1>4. \A i \in 1..Len(habWatch[k]) : hab[k] # None /\ habWatch[k][i] = hab[k]
  BY <1>3
<1>5. StreamOrdered(k)
  <2>1. Len(habWatch[k]) \in Nat
    BY <1>3
  <2>2. \A i \in 1..Len(habWatch[k]) : \A j \in i..Len(habWatch[k]) :
          j \in 1..Len(habWatch[k])
    BY <2>1
  <2>3. QED
    BY <1>2, <1>4, <2>2 DEF StreamOrdered
<1>6. \A g : g = 0 \/ (hab[k] # None /\ g = 1) => StreamFrom(k, g)
  BY <1>2, <1>4 DEF StreamFrom
<1>7. QED
  BY <1>1, <1>2, <1>3, <1>5, <1>6 DEF KnownFrom

THEOREM OrderInvariant == Spec => []OrderInv
<1>1. TypeInv /\ OrderInv /\ [Next]_vars => OrderInv'
  BY NextOrderInv
<1>2. QED
  BY <1>1, InitOrderInv, TypeInvariant, PTL DEF Spec

(* Although an update of a StatefulSet carries no resource version, none   *)
(* replaces it by what an older version of its Habitat says: not after     *)
(* retries, relists, crashes, or a Habitat deleted and created anew.  Each *)
(* informer is run once here, with one stream in the API server's order.   *)
THEOREM NeverRollsBack == Spec => NoRollback
<1>1. TypeInv /\ OrderInv /\ [Next]_vars =>
        [\A k \in Keys : appliedGen[k] <= appliedGen'[k]]_vars
  <2>1. SUFFICES ASSUME TypeInv, OrderInv, [Next]_vars, NEW k \in Keys
                 PROVE  appliedGen[k] <= appliedGen'[k]
    OBVIOUS
  <2>2. QED
    BY <2>1, NextVersionStep, AppliedForward
<1>2. QED
  BY <1>1, TypeInvariant, OrderInvariant, PTL DEF Spec, NoRollback
=============================================================================
