-------------------------- MODULE WorkQueueProofs --------------------------
(***************************************************************************)
(* What each operation of the work queue preserves, for every user of the  *)
(* queue, and which step of PendingWork it is: the lemmas that             *)
(* WorkerPoolProofs, HabitatControllerProofs and DeploymentProofs cite.    *)
(***************************************************************************)
EXTENDS WorkQueue, TLAPS

QInv ==
    /\ QueueTypeOK
    /\ QueuedIsDirtyAndIdle
    /\ QueuedOnce

Contains(s, y) == \E i \in 1..Len(s) : s[i] = y

(* Queue operations on sequences without duplicates. *)
LEMMA AppendOnce ==
    ASSUME NEW S, NEW s \in Seq(S), NEW x \in S,
           \A i \in 1..Len(s) : s[i] # x,
           \A i, j \in 1..Len(s) : s[i] = s[j] => i = j
    PROVE  LET t == Append(s, x)
           IN  /\ t \in Seq(S)
               /\ \A i, j \in 1..Len(t) : t[i] = t[j] => i = j
               /\ \A y : (\E i \in 1..Len(t) : t[i] = y)
                            <=> (y = x \/ \E i \in 1..Len(s) : s[i] = y)
<1> DEFINE t == Append(s, x)
<1>1. t \in Seq(S) /\ Len(t) = Len(s) + 1 /\ Len(s) \in Nat
  OBVIOUS
<1>2. t[Len(t)] = x /\ \A i \in 1..Len(s) : t[i] = s[i]
  OBVIOUS
<1>3. \A i, j \in 1..Len(t) : t[i] = t[j] => i = j
  BY <1>1, <1>2
<1>4. \A y : (\E i \in 1..Len(t) : t[i] = y)
               <=> (y = x \/ \E i \in 1..Len(s) : s[i] = y)
  BY <1>1, <1>2
<1>5. QED
  BY <1>1, <1>3, <1>4

LEMMA TailOnce ==
    ASSUME NEW S, NEW s \in Seq(S), s # <<>>,
           \A i, j \in 1..Len(s) : s[i] = s[j] => i = j,
           NEW t, t = Tail(s)
    PROVE  /\ Head(s) \in S
           /\ t \in Seq(S)
           /\ \A i, j \in 1..Len(t) : t[i] = t[j] => i = j
           /\ \A y : Contains(t, y) <=> y # Head(s) /\ Contains(s, y)
<1>1. Len(s) \in Nat \ {0} /\ t \in Seq(S) /\ Len(t) = Len(s) - 1
  OBVIOUS
<1>2. Head(s) = s[1] /\ Head(s) \in S /\ \A i \in 1..Len(t) : t[i] = s[i+1]
  BY <1>1
<1>3. \A i, j \in 1..Len(t) : t[i] = t[j] => i = j
  BY <1>1, <1>2
<1>4. ASSUME NEW y
      PROVE  (\E i \in 1..Len(t) : t[i] = y)
               <=> (y # Head(s) /\ \E i \in 1..Len(s) : s[i] = y)
  <2>1. ASSUME NEW i \in 1..Len(t), t[i] = y
        PROVE  y # Head(s) /\ \E j \in 1..Len(s) : s[j] = y
    <3>1. i + 1 \in 1..Len(s) /\ s[i+1] = y
      BY <1>1, <1>2, <2>1
    <3>2. 1 \in 1..Len(s) /\ i + 1 # 1
      BY <1>1
    <3>3. s[i+1] # s[1]
      BY <3>1, <3>2
    <3>4. QED
      BY <1>2, <3>1, <3>3
  <2>2. ASSUME NEW i \in 1..Len(s), s[i] = y, y # Head(s)
        PROVE  \E j \in 1..Len(t) : t[j] = y
    <3>1. i # 1
      BY <1>2, <2>2
    <3>2. i - 1 \in 1..Len(t) /\ t[i-1] = s[i]
      BY <1>1, <1>2, <3>1
    <3>3. QED
      BY <2>2, <3>2
  <2>3. QED
    BY <2>1, <2>2
<1>5. QED
  BY <1>1, <1>2, <1>3, <1>4 DEF Contains

LEMMA QueueInitQInv == QueueInit => QInv
<1> SUFFICES ASSUME QueueInit PROVE QInv
  OBVIOUS
<1>1. QueueTypeOK
  <2>1. queue = <<>> /\ waitingForAddCh = <<>>
    BY DEF QueueInit
  <2>2. <<>> \in Seq(Keys)
    OBVIOUS
  <2>3. queue \in Seq(Keys) /\ waitingForAddCh \in Seq(Keys)
    BY <2>1, <2>2
  <2>4. QED
    BY <2>3 DEF QueueInit, QueueTypeOK
<1>2. 1..Len(queue) = {}
  BY DEF QueueInit
<1>3. QueuedOnce /\ \A k \in Keys : ~InQueue(k)
  BY <1>2 DEF QueuedOnce, InQueue
<1>4. QueuedIsDirtyAndIdle
  BY <1>3 DEF QueuedIsDirtyAndIdle, QueueInit
<1>5. QED
  BY <1>1, <1>3, <1>4 DEF QInv

LEMMA QueueStutter ==
    QInv /\ UNCHANGED queueVars => QInv'
BY DEF QInv, QueueTypeOK, QueuedIsDirtyAndIdle, QueuedOnce, InQueue, queueVars

(* AddKey adds at most k, and never touches what is being processed. *)
LEMMA AddKeyQInv ==
    ASSUME QInv, NEW k \in Keys, AddKey(k),
           waitingForAddCh' \in Seq(Keys), waitingEntries' \subseteq Keys
    PROVE  QInv'
<1>1. CASE UNCHANGED <<queue, dirty>>
  BY <1>1 DEF AddKey, QInv, QueueTypeOK, QueuedIsDirtyAndIdle, QueuedOnce,
              InQueue
<1>2. CASE /\ k \notin dirty
           /\ dirty' = dirty \cup {k}
           /\ queue' = IF k \in processing THEN queue ELSE Append(queue, k)
  <2>1. CASE k \in processing
    BY <1>2, <2>1 DEF AddKey, QInv, QueueTypeOK, QueuedIsDirtyAndIdle,
                      QueuedOnce, InQueue
  <2>2. CASE k \notin processing
    <3>1. \A i \in 1..Len(queue) : queue[i] # k
      BY <1>2 DEF QInv, QueuedIsDirtyAndIdle, InQueue
    <3>2. queue' = Append(queue, k)
      BY <1>2, <2>2
    <3>3. /\ queue' \in Seq(Keys)
          /\ \A i, j \in 1..Len(queue') : queue'[i] = queue'[j] => i = j
          /\ \A y : InQueue(y)' <=> (y = k \/ InQueue(y))
      BY <3>1, <3>2, AppendOnce DEF QInv, QueueTypeOK, QueuedOnce, InQueue
    <3>4. QED
      BY <1>2, <2>2, <3>3 DEF AddKey, QInv, QueueTypeOK, QueuedIsDirtyAndIdle,
                              QueuedOnce
  <2>3. QED
    BY <2>1, <2>2
<1>3. QED
  BY <1>1, <1>2 DEF AddKey

LEMMA AddQInv ==
    ASSUME QInv, NEW k \in Keys, Add(k)
    PROVE  QInv' /\ processing' = processing
<1>1. waitingForAddCh' \in Seq(Keys) /\ waitingEntries' \subseteq Keys
  BY DEF Add, delayVars, QInv, QueueTypeOK
<1>2. QED
  BY <1>1, AddKeyQInv DEF Add, AddKey

(* Get hands out a key nobody processes. *)
LEMMA GetQInv ==
    ASSUME QInv, NEW k \in Keys, Get(k)
    PROVE  /\ QInv'
           /\ k \notin processing
           /\ k \in dirty
           /\ processing' = processing \cup {k}
<1>1. /\ queue' \in Seq(Keys)
      /\ \A i, j \in 1..Len(queue') : queue'[i] = queue'[j] => i = j
      /\ \A y : InQueue(y)' <=> (y # k /\ InQueue(y))
  <2>1. PICK q \in Seq(Keys) : q = queue
    BY DEF QInv, QueueTypeOK
  <2>2. /\ q # <<>> /\ queue' = Tail(q) /\ k = Head(q)
        /\ \A i, j \in 1..Len(q) : q[i] = q[j] => i = j
    BY <2>1 DEF Get, QInv, QueuedOnce
  <2>3. PICK t : t = Tail(q)
    OBVIOUS
  <2>4. t \in Seq(Keys) /\ \A i, j \in 1..Len(t) : t[i] = t[j] => i = j
    BY <2>2, <2>3, TailOnce
  <2>5. ASSUME NEW y
        PROVE  Contains(t, y) <=> y # Head(q) /\ Contains(q, y)
    BY <2>2, <2>3, TailOnce
  <2>6. QED
    BY <2>1, <2>2, <2>3, <2>4, <2>5 DEF InQueue, Contains
<1>2. InQueue(k)
  BY DEF Get, QInv, QueueTypeOK, InQueue
<1>3. k \in dirty \ processing
  BY <1>2 DEF QInv, QueuedIsDirtyAndIdle
<1>4. QED
  BY <1>1, <1>3 DEF Get, QInv, QueueTypeOK, QueuedIsDirtyAndIdle, QueuedOnce

(* Done requeues a key that was marked during its processing. *)
LEMMA DoneQInv ==
    ASSUME QInv, NEW k \in Keys, k \in processing, Done(k)
    PROVE  QInv' /\ processing' = processing \ {k}
<1>1. \A i \in 1..Len(queue) : queue[i] # k
  BY DEF QInv, QueuedIsDirtyAndIdle, InQueue
<1>2. CASE k \in dirty
  <2>1. queue' = Append(queue, k)
    BY <1>2 DEF Done
  <2>2. /\ queue' \in Seq(Keys)
        /\ \A i, j \in 1..Len(queue') : queue'[i] = queue'[j] => i = j
        /\ \A y : InQueue(y)' <=> (y = k \/ InQueue(y))
    BY <1>1, <2>1, AppendOnce DEF QInv, QueueTypeOK, QueuedOnce, InQueue
  <2>3. QED
    BY <1>2, <2>2 DEF Done, QInv, QueueTypeOK, QueuedIsDirtyAndIdle, QueuedOnce
<1>3. CASE k \notin dirty
  BY <1>3 DEF Done, QInv, QueueTypeOK, QueuedIsDirtyAndIdle, QueuedOnce, InQueue
<1>4. QED
  BY <1>2, <1>3

LEMMA AddRateLimitedQInv ==
    ASSUME QInv, NEW k \in Keys, AddRateLimited(k)
    PROVE  QInv' /\ processing' = processing
BY DEF AddRateLimited, QInv, QueueTypeOK, QueuedIsDirtyAndIdle, QueuedOnce,
       InQueue

LEMMA ReceiveWaitingQInv ==
    ASSUME QInv, ReceiveWaiting
    PROVE  QInv' /\ processing' = processing
<1>1. /\ Head(waitingForAddCh) \in Keys
      /\ waitingForAddCh' \in Seq(Keys)
  BY DEF ReceiveWaiting, QInv, QueueTypeOK
<1>2. CASE AddKey(Head(waitingForAddCh)) /\ UNCHANGED waitingEntries
  <2>1. waitingEntries' \subseteq Keys
    BY <1>2 DEF QInv, QueueTypeOK
  <2>2. QED
    BY <1>1, <1>2, <2>1, AddKeyQInv DEF AddKey
<1>3. CASE /\ waitingEntries' = waitingEntries \cup {Head(waitingForAddCh)}
           /\ UNCHANGED <<queue, dirty, processing, shuttingDown>>
  BY <1>1, <1>3 DEF QInv, QueueTypeOK, QueuedIsDirtyAndIdle, QueuedOnce, InQueue
<1>4. QED
  BY <1>2, <1>3 DEF ReceiveWaiting

LEMMA FireWaitingQInv ==
    ASSUME QInv, NEW k \in Keys, FireWaiting(k)
    PROVE  QInv' /\ processing' = processing
<1>1. waitingForAddCh' \in Seq(Keys) /\ waitingEntries' \subseteq Keys
  BY DEF FireWaiting, QInv, QueueTypeOK
<1>2. QED
  BY <1>1, AddKeyQInv DEF FireWaiting, AddKey

LEMMA ShutDownQInv ==
    QInv /\ ShutDown => QInv' /\ processing' = processing
BY DEF ShutDown, QInv, QueueTypeOK, QueuedIsDirtyAndIdle, QueuedOnce, InQueue
-----------------------------------------------------------------------------
(***************************************************************************)
(* Each operation of the queue is a step of PendingWork, or changes        *)
(* nothing that PendingWork sees.                                          *)
(***************************************************************************)
(* Which keys wait in the channel after an append or a receive. *)
LEMMA AppendContents ==
    ASSUME NEW S, NEW s \in Seq(S), NEW x \in S
    PROVE  \A y : Contains(Append(s, x), y) <=> y = x \/ Contains(s, y)
<1>1. /\ Len(Append(s, x)) = Len(s) + 1 /\ Len(s) \in Nat
      /\ Append(s, x)[Len(s) + 1] = x
      /\ \A i \in 1..Len(s) : Append(s, x)[i] = s[i]
  OBVIOUS
<1>2. QED
  BY <1>1 DEF Contains

LEMMA TailContents ==
    ASSUME NEW S, NEW s \in Seq(S), s # <<>>
    PROVE  \A y : Contains(s, y) <=> y = Head(s) \/ Contains(Tail(s), y)
<1>1. /\ Len(s) \in Nat \ {0} /\ Len(Tail(s)) = Len(s) - 1
      /\ Head(s) = s[1]
      /\ \A i \in 1..Len(Tail(s)) : Tail(s)[i] = s[i+1]
  OBVIOUS
<1>2. ASSUME NEW y, NEW i \in 1..Len(s), s[i] = y, y # Head(s)
      PROVE  \E j \in 1..Len(Tail(s)) : Tail(s)[j] = y
  <2>1. i # 1
    BY <1>1, <1>2
  <2>2. i - 1 \in 1..Len(Tail(s)) /\ Tail(s)[i-1] = s[i]
    BY <1>1, <2>1
  <2>3. QED
    BY <1>2, <2>2
<1>3. ASSUME NEW j \in 1..Len(Tail(s))
      PROVE  \E i \in 1..Len(s) : s[i] = Tail(s)[j]
  <2>1. j + 1 \in 1..Len(s) /\ s[j+1] = Tail(s)[j]
    BY <1>1
  <2>2. QED
    BY <2>1
<1>4. 1 \in 1..Len(s) /\ s[1] = Head(s)
  BY <1>1
<1>5. QED
  BY <1>2, <1>3, <1>4 DEF Contains

LEMMA QueueInitRefines == QueueInit => Work!Init
<1> SUFFICES ASSUME QueueInit PROVE Work!Init
  OBVIOUS
<1>1. 1..Len(waitingForAddCh) = {}
  BY DEF QueueInit
<1>2. \A k : ~InChannel(k)
  BY <1>1 DEF InChannel
<1>3. QED
  BY <1>2 DEF QueueInit, Delayed, Work!Init

LEMMA SameQueueRefines == UNCHANGED queueVars => UNCHANGED Work!vars
BY DEF queueVars, Work!vars, Delayed, InChannel

(* Adding is marking, and adding again or after ShutDown changes nothing. *)
LEMMA AddKeyMarks ==
    ASSUME NEW k \in Keys, AddKey(k)
    PROVE  /\ processing' = processing /\ shuttingDown' = shuttingDown
           /\ ~shuttingDown => dirty' = dirty \cup {k}
           /\ shuttingDown => dirty' = dirty
BY DEF AddKey

LEMMA AddRefines ==
    ASSUME NEW k \in Keys, Add(k) PROVE Work!Next \/ UNCHANGED Work!vars
<1>1. AddKey(k) /\ Delayed' = Delayed
  BY DEF Add, delayVars, Delayed, InChannel
<1>2. CASE shuttingDown
  BY <1>1, <1>2, AddKeyMarks DEF Work!vars
<1>3. CASE ~shuttingDown
  <2>1. Work!Mark(k)
    BY <1>1, <1>3, AddKeyMarks DEF Work!Mark
  <2>2. QED
    BY <2>1 DEF Work!Next
<1>4. QED
  BY <1>2, <1>3

LEMMA GetRefines ==
    ASSUME QInv, NEW k \in Keys, Get(k) PROVE Work!Next
<1>1. k \in dirty \ processing
  BY GetQInv
<1>2. Work!Start(k)
  BY <1>1 DEF Get, Work!Start, Delayed, InChannel
<1>3. QED
  BY <1>2 DEF Work!Next

LEMMA DoneRefines ==
    ASSUME NEW k \in Keys, k \in processing, Done(k) PROVE Work!Next
<1>1. Work!Finish(k)
  BY DEF Done, Work!Finish, Delayed, InChannel
<1>2. QED
  BY <1>1 DEF Work!Next

LEMMA AddRateLimitedRefines ==
    ASSUME QInv, NEW k \in Keys, k \in processing, AddRateLimited(k)
    PROVE  Work!Next \/ UNCHANGED Work!vars
<1>1. CASE shuttingDown
  BY <1>1 DEF AddRateLimited, Work!vars, Delayed, InChannel
<1>2. CASE ~shuttingDown
  <2>1. waitingForAddCh' = Append(waitingForAddCh, k)
    BY <1>2 DEF AddRateLimited
  <2>2. \A y \in Keys : InChannel(y)' <=> (y = k \/ InChannel(y))
    BY <2>1, AppendContents DEF InChannel, Contains, QInv, QueueTypeOK
  <2>3. Delayed' = Delayed \cup {k}
    BY <2>2 DEF AddRateLimited, Delayed
  <2>4. Work!Delay(k)
    BY <1>2, <2>3 DEF AddRateLimited, Work!Delay
  <2>5. QED
    BY <2>4 DEF Work!Next
<1>3. QED
  BY <1>1, <1>2

LEMMA FireWaitingRefines ==
    ASSUME NEW k \in Keys, FireWaiting(k) PROVE Work!Next
<1>1. /\ AddKey(k) /\ ~shuttingDown /\ k \in waitingEntries
      /\ waitingEntries' = waitingEntries \ {k}
      /\ UNCHANGED waitingForAddCh
  BY DEF FireWaiting
<1>2. k \in Delayed /\ Delayed' \in {Delayed, Delayed \ {k}}
  BY <1>1 DEF Delayed, InChannel
<1>3. Work!Expire(k)
  BY <1>1, <1>2, AddKeyMarks DEF Work!Expire
<1>4. QED
  BY <1>3 DEF Work!Next

LEMMA ReceiveWaitingRefines ==
    ASSUME QInv, ReceiveWaiting PROVE Work!Next \/ UNCHANGED Work!vars
<1>1. /\ ~shuttingDown /\ waitingForAddCh # <<>>
      /\ waitingForAddCh' = Tail(waitingForAddCh)
      /\ waitingForAddCh \in Seq(Keys)
  BY DEF ReceiveWaiting, QInv, QueueTypeOK
<1>2. PICK x \in Keys : x = Head(waitingForAddCh)
  BY <1>1
<1>3. \A y : InChannel(y) <=> (y = x \/ InChannel(y)')
  BY <1>1, <1>2, TailContents DEF InChannel, Contains
<1>4. CASE AddKey(x) /\ UNCHANGED waitingEntries
  <2>1. x \in Delayed /\ Delayed' \in {Delayed, Delayed \ {x}}
    BY <1>2, <1>3, <1>4 DEF Delayed
  <2>2. Work!Expire(x)
    BY <1>1, <1>2, <1>4, <2>1, AddKeyMarks DEF Work!Expire
  <2>3. QED
    BY <1>2, <2>2 DEF Work!Next
<1>5. CASE /\ waitingEntries' = waitingEntries \cup {x}
           /\ UNCHANGED <<queue, dirty, processing, shuttingDown>>
  BY <1>2, <1>3, <1>5 DEF Work!vars, Delayed
<1>6. QED
  BY <1>2, <1>4, <1>5 DEF ReceiveWaiting

LEMMA ShutDownRefines == ShutDown => Work!Next
BY DEF ShutDown, Work!Next, Work!Close, Delayed, InChannel
=============================================================================
