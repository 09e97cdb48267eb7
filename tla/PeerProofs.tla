------------------------------ MODULE PeerProofs ----------------------------
(***************************************************************************)
(* The peer ConfigMap of a namespace, for any cluster, any workers and any *)
(* disturbances: when the operator's cache of it is what the API server    *)
(* stores, when no worker takes the IP of a running pod out of it, and     *)
(* when its IP is that of a running pod once the controller has come to    *)
(* rest.                                                                   *)
(***************************************************************************)
EXTENDS DeploymentProofs

(* The peer ConfigMap.  Its versions too travel from the API server through *)
(* the watch into the cache and from there into the locals of the workers;  *)
(* but the object in the cache is shared, and writeLeaderIP assigns to it   *)
(* before it sends it.                                                      *)

(* The workers that run conform in namespace n, and the ConfigMap objects   *)
(* of n that the operator holds: the cached one, and those its workers took *)
(* from the cache.                                                          *)
WorkersIn(n) == {w \in Workers : wpc[w] # "Get" /\ NsOf[wkey[w]] = n}

Copies(n) ==
    {p \in {[cm |-> cmCache[n], copy |-> cmCopy[n]]}
            \cup {[cm |-> job[w].cm, copy |-> job[w].copy] : w \in WorkersIn(n)} :
     p.cm # None}

Held(n) == {p.cm : p \in Copies(n)}

(* A version of the ConfigMap has one content on its way to the cache, and *)
(* the API server's is the last of them.                                   *)
CMStream(n) ==
    /\ cm[n] # None => cm[n].rv = cmGen[n]
    /\ \A i \in 1..Len(cmWatch[n]) : cmWatch[n][i] # None =>
         /\ cmWatch[n][i].rv <= cmGen[n]
         /\ cm[n] # None /\ cmWatch[n][i].rv = cm[n].rv =>
              cmWatch[n][i] = cm[n] /\ i = Len(cmWatch[n])
         /\ \A j \in 1..Len(cmWatch[n]) : i < j /\ cmWatch[n][j] # None =>
              cmWatch[n][i].rv < cmWatch[n][j].rv

(* Two holders of one object see the same content, and nothing on its way  *)
(* is older; only what a re-list delivers may be another copy of what is   *)
(* cached.                                                                 *)
HeldOnce(n) ==
    /\ \A p, d \in Copies(n) : p.cm.rv = d.cm.rv /\ p.copy = d.copy => p.cm = d.cm
    /\ \A p \in Copies(n) :
         /\ p.cm.rv <= cmGen[n]
         /\ cmCache[n] # None =>
              \/ p.cm.rv < cmCache[n].rv
              \/ p.cm.rv = cmCache[n].rv /\ p.copy <= cmCopy[n]
         /\ \A i \in 1..Len(cmWatch[n]) : cmWatch[n][i] # None =>
              \/ p.cm.rv < cmWatch[n][i].rv
              \/ /\ p.cm.rv = cmWatch[n][i].rv /\ i = 1
                 /\ cmCache[n] # None /\ cmCache[n].rv = p.cm.rv
         /\ cm[n] # None /\ p.cm.rv = cm[n].rv =>
              /\ cmCache[n] # None /\ cmCache[n].rv = cm[n].rv
              /\ \A i \in 1..Len(cmWatch[n]) : cmWatch[n][i] = cm[n]

SharedCMInv == \A n \in Namespaces : CMStream(n) /\ HeldOnce(n)

(* What was assigned to a held object is sent. *)
Sending(n, rv, copy) ==
    \E w \in WorkersIn(n) :
        wpc[w] = "UpdateCM" /\ job[w].cm.rv = rv /\ job[w].copy = copy

SentCMInv ==
    \A n \in Namespaces : \A p \in Copies(n) :
        cm[n] # None /\ p.cm.rv = cm[n].rv =>
          p.cm = cm[n] \/ Sending(n, p.cm.rv, p.copy)

(***************************************************************************)
(* What a step does to the ConfigMap of one namespace.                     *)
(***************************************************************************)
CMSame(n) ==
    /\ cm'[n] = cm[n] /\ cmGen'[n] = cmGen[n] /\ cmWatch'[n] = cmWatch[n]
    /\ cmCopy'[n] = cmCopy[n]

(* No object comes to be held. *)
NoNewCopy(n) ==
    /\ cmCache'[n] = cmCache[n] /\ cmCopy'[n] = cmCopy[n]
    /\ Copies(n)' \subseteq Copies(n)

CMKept(n) == CMSame(n) /\ NoNewCopy(n)

CMStored(n) ==
    /\ cmWatch'[n] = Append(cmWatch[n], cm'[n])
    /\ \/ cm'[n] = None /\ cmGen'[n] = cmGen[n]
       \/ /\ cm'[n] \in ConfigMaps
          /\ cm'[n].rv = cmGen[n] + 1 /\ cmGen'[n] = cmGen[n] + 1
    /\ NoNewCopy(n)

CMDelivered(n) ==
    /\ cm'[n] = cm[n] /\ cmGen'[n] = cmGen[n]
    /\ cmWatch[n] # <<>> /\ cmWatch'[n] = Tail(cmWatch[n])
    /\ cmCache'[n] = Head(cmWatch[n])
    /\ cmCopy'[n] = IF /\ cmCache[n] # None /\ Head(cmWatch[n]) # None
                       /\ Head(cmWatch[n]).rv = cmCache[n].rv
                      THEN cmCopy[n] + 1 ELSE 0
    /\ \A p \in Copies(n)' :
         p \in Copies(n) \/ (p.cm # None /\ p.cm = Head(cmWatch[n]) /\ p.copy = cmCopy'[n])

(* The IP is assigned to one object, by whomever it is held. *)
Assigned(p, rv, copy, ip) ==
    IF p.cm.rv = rv /\ p.copy = copy
      THEN [cm |-> [p.cm EXCEPT !.ip = ip], copy |-> copy] ELSE p

CMAssigned(n) ==
    /\ CMSame(n)
    /\ \/ cmCache'[n] = cmCache[n]
       \/ cmCache[n] # None /\ cmCache'[n] # None /\ cmCache'[n].rv = cmCache[n].rv
    /\ \E w \in WorkersIn(n) : \E rv, copy, ip :
         /\ wpc[w] = "WriteLeader" /\ ip = job[w].leader
         /\ rv = job[w].cm.rv /\ copy = job[w].copy
         /\ Sending(n, rv, copy)'
         /\ \A p \in Copies(n)' : \E d \in Copies(n) : p = Assigned(d, rv, copy, ip)

CMListed(n) ==
    /\ cm'[n] = cm[n] /\ cmGen'[n] = cmGen[n]
    /\ cmWatch'[n] = IF cm[n] = None THEN <<>> ELSE <<cm[n]>>
    /\ \/ Copies(n)' = {}
       \/ /\ cmCache'[n] = IF cm[n] = None THEN None ELSE cmCache[n]
          /\ cmCopy'[n] = cmCopy[n] /\ Copies(n)' \subseteq Copies(n)

CMStep(n) ==
    CMKept(n) \/ CMStored(n) \/ CMDelivered(n) \/ CMAssigned(n) \/ CMListed(n)

LEMMA HeldCopies ==
    ASSUME NEW n
    PROVE  /\ \A p \in Copies(n) : p.cm # None /\ p.cm \in Held(n)
           /\ \A c \in Held(n) : \E p \in Copies(n) : p.cm = c
           /\ cmCache[n] # None => /\ [cm |-> cmCache[n], copy |-> cmCopy[n]] \in Copies(n)
                                  /\ cmCache[n] \in Held(n)
           /\ \A w \in WorkersIn(n) : job[w].cm # None =>
                /\ [cm |-> job[w].cm, copy |-> job[w].copy] \in Copies(n)
                /\ job[w].cm \in Held(n)
BY DEF Copies, Held

LEMMA CMTypes ==
    ASSUME TypeInv, NEW n \in Namespaces
    PROVE  /\ cm[n] \in CMOrNone /\ cmGen[n] \in Nat
           /\ cmWatch[n] \in Seq(CMOrNone)
           /\ \A i \in 1..Len(cmWatch[n]) : cmWatch[n][i] \in CMOrNone
           /\ cmCache[n] \in CMOrNone /\ cmCopy[n] \in Nat
           /\ Copies(n) \subseteq [cm : ConfigMaps, copy : Nat]
           /\ Held(n) \subseteq ConfigMaps
           /\ \A c \in CMOrNone : c # None => c \in ConfigMaps
           /\ \A c \in ConfigMaps : c # None /\ c.rv \in Nat
<1>1. \A c \in ConfigMaps : c # None /\ c.rv \in Nat
  BY NoneIsNoConfigMap DEF ConfigMaps
<1>2. \A c \in CMOrNone : c # None => c \in ConfigMaps
  BY DEF CMOrNone
<1>3. /\ cmCache[n] \in CMOrNone /\ cmCopy[n] \in Nat
      /\ \A w \in Workers : job[w].cm \in CMOrNone /\ job[w].copy \in Nat
  BY DEF TypeInv, InformersOK, JobsOK, Jobs, CMOrNone
<1>4. Copies(n) \subseteq [cm : ConfigMaps, copy : Nat]
  <2>1. ASSUME NEW p \in Copies(n) PROVE p \in [cm : ConfigMaps, copy : Nat]
    <3>1. PICK c \in CMOrNone, i \in Nat : p = [cm |-> c, copy |-> i]
      BY <1>3 DEF Copies, WorkersIn
    <3>2. c # None
      BY <3>1 DEF Copies
    <3>3. QED
      BY <1>2, <3>1, <3>2
  <2>2. QED
    BY <2>1
<1>5. cmWatch[n] \in Seq(CMOrNone)
  BY DEF TypeInv, ClusterTypeOK, CMOrNone
<1>6. Held(n) \subseteq ConfigMaps
  BY <1>4 DEF Held
<1>7. QED
  BY <1>1, <1>2, <1>3, <1>4, <1>5, <1>6 DEF TypeInv, ClusterTypeOK, CMOrNone

LEMMA CMStreamStable ==
    ASSUME TypeInv, NEW n \in Namespaces, CMStep(n), CMStream(n)
    PROVE  CMStream(n)'
<1>1. PICK q \in Seq(CMOrNone) : q = cmWatch[n]
  BY CMTypes
<1>2. /\ cm[n] \in CMOrNone /\ cmGen[n] \in Nat
      /\ \A c \in CMOrNone : c # None => c \in ConfigMaps
      /\ \A c \in ConfigMaps : c # None /\ c.rv \in Nat
  BY CMTypes
<1>3. CASE CMKept(n) \/ CMAssigned(n)
  BY <1>3 DEF CMKept, CMAssigned, CMSame, CMStream
<1>4. CASE CMStored(n)
  <2>1. PICK m \in Nat : m = Len(q)
    BY <1>1
  <2>2. /\ cm'[n] \in CMOrNone /\ cmGen[n] <= cmGen'[n] /\ cmGen'[n] \in Nat
        /\ cm'[n] # None => cm'[n].rv = cmGen'[n] /\ cm'[n].rv = cmGen[n] + 1
    BY <1>2, <1>4, NoneIsNoConfigMap DEF CMStored, CMOrNone
  <2>3. /\ Len(cmWatch'[n]) = m + 1 /\ cmWatch'[n][m + 1] = cm'[n]
        /\ \A i \in 1..m : cmWatch'[n][i] = q[i] /\ q[i] \in CMOrNone
    BY <1>1, <1>4, <2>1, <2>2 DEF CMStored
  <2>4. \A i \in 1..m : q[i] # None =>
          /\ q[i].rv \in Nat /\ q[i].rv <= cmGen[n]
          /\ \A j \in 1..m : i < j /\ q[j] # None => q[i].rv < q[j].rv
    BY <1>1, <1>2, <2>1, <2>3 DEF CMStream
  <2>5. ASSUME NEW i \in 1..(m + 1), cmWatch'[n][i] # None
        PROVE  /\ cmWatch'[n][i].rv <= cmGen'[n]
               /\ cm'[n] # None /\ cmWatch'[n][i].rv = cm'[n].rv =>
                    cmWatch'[n][i] = cm'[n] /\ i = m + 1
               /\ \A j \in 1..(m + 1) : i < j /\ cmWatch'[n][j] # None =>
                    cmWatch'[n][i].rv < cmWatch'[n][j].rv
    <3>1. CASE i = m + 1
      BY <2>2, <2>3, <2>5, <3>1
    <3>2. CASE i \in 1..m
      <4>1. cmWatch'[n][i] = q[i] /\ q[i].rv \in Nat /\ q[i].rv <= cmGen[n]
        BY <2>3, <2>4, <2>5, <3>2
      <4>2. ASSUME NEW j \in 1..(m + 1), i < j, cmWatch'[n][j] # None
            PROVE  q[i].rv < cmWatch'[n][j].rv
        <5>1. CASE j = m + 1
          <6>1. cmWatch'[n][j].rv = cmGen[n] + 1
            BY <2>2, <2>3, <4>2, <5>1
          <6>2. \A g, r \in Nat : r <= g => r < g + 1
            OBVIOUS
          <6>3. QED
            BY <1>2, <4>1, <6>1, <6>2
        <5>2. CASE j \in 1..m
          BY <2>3, <2>4, <2>5, <3>2, <4>1, <4>2, <5>2
        <5>3. QED
          BY <5>1, <5>2
      <4>3. QED
        BY <1>2, <2>2, <4>1, <4>2
    <3>3. QED
      BY <3>1, <3>2
  <2>6. cm'[n] # None => cm'[n].rv = cmGen'[n]
    BY <2>2
  <2>7. Len(cmWatch'[n]) = m + 1
    BY <2>3
  <2>8. QED
    BY <2>5, <2>6, <2>7 DEF CMStream
<1>5. CASE CMDelivered(n)
  <2>1. PICK m \in Nat : m = Len(q) /\ m > 0
    BY <1>1, <1>5 DEF CMDelivered
  <2>2. /\ Len(cmWatch'[n]) = m - 1
        /\ \A i \in 1..(m - 1) : i + 1 \in 1..m /\ cmWatch'[n][i] = q[i + 1]
    BY <1>1, <1>5, <2>1 DEF CMDelivered
  <2>3. \A i \in 1..m : q[i] # None =>
          /\ q[i].rv <= cmGen[n]
          /\ cm[n] # None /\ q[i].rv = cm[n].rv => q[i] = cm[n] /\ i = m
          /\ \A j \in 1..m : i < j /\ q[j] # None => q[i].rv < q[j].rv
    BY <1>1, <2>1 DEF CMStream
  <2>4. ASSUME NEW i \in 1..(m - 1), cmWatch'[n][i] # None
        PROVE  /\ cmWatch'[n][i].rv <= cmGen[n]
               /\ cm[n] # None /\ cmWatch'[n][i].rv = cm[n].rv =>
                    cmWatch'[n][i] = cm[n] /\ i = m - 1
               /\ \A j \in 1..(m - 1) : i < j /\ cmWatch'[n][j] # None =>
                    cmWatch'[n][i].rv < cmWatch'[n][j].rv
    <3>1. i + 1 \in 1..m /\ cmWatch'[n][i] = q[i + 1]
      BY <2>2
    <3>2. \A j \in 1..(m - 1) : i < j => i + 1 < j + 1 /\ j + 1 \in 1..m /\ cmWatch'[n][j] = q[j + 1]
      BY <2>2
    <3>3. QED
      BY <2>3, <2>4, <3>1, <3>2
  <2>5. cm'[n] = cm[n] /\ cmGen'[n] = cmGen[n]
    BY <1>5 DEF CMDelivered
  <2>6. QED
    BY <2>2, <2>4, <2>5 DEF CMStream
<1>6. CASE CMListed(n)
  <2>1. cm'[n] = cm[n] /\ cmGen'[n] = cmGen[n]
    BY <1>6 DEF CMListed
  <2>2. \A i \in 1..Len(cmWatch'[n]) :
          /\ cmWatch'[n][i] = cm[n] /\ i = Len(cmWatch'[n])
          /\ \A j \in 1..Len(cmWatch'[n]) : ~(i < j)
    BY <1>6 DEF CMListed
  <2>3. cm[n] # None => cm[n].rv = cmGen[n] /\ cm[n].rv <= cmGen[n]
    BY <1>2 DEF CMStream
  <2>4. QED
    BY <2>1, <2>2, <2>3 DEF CMStream
<1>7. QED
  BY <1>3, <1>4, <1>5, <1>6 DEF CMStep

LEMMA HeldOnceStable ==
    ASSUME TypeInv, NEW n \in Namespaces, CMStep(n), CMStream(n), HeldOnce(n)
    PROVE  HeldOnce(n)'
<1>1. PICK q \in Seq(CMOrNone) : q = cmWatch[n]
  BY CMTypes
<1>2. PICK m \in Nat : m = Len(q)
  BY <1>1
<1>3. /\ cm[n] \in CMOrNone /\ cmGen[n] \in Nat /\ cmCache[n] \in CMOrNone /\ cmCopy[n] \in Nat
      /\ \A i \in 1..m : q[i] \in CMOrNone
      /\ \A c \in CMOrNone : c # None => c \in ConfigMaps /\ c.rv \in Nat
      /\ \A p \in Copies(n) : p.cm \in ConfigMaps /\ p.cm # None /\ p.cm.rv \in Nat /\ p.copy \in Nat
  BY <1>1, <1>2, CMTypes
<1>4. /\ \A p, d \in Copies(n) : p.cm.rv = d.cm.rv /\ p.copy = d.copy => p.cm = d.cm
      /\ \A p \in Copies(n) :
           /\ p.cm.rv <= cmGen[n]
           /\ cmCache[n] # None =>
                \/ p.cm.rv < cmCache[n].rv
                \/ p.cm.rv = cmCache[n].rv /\ p.copy <= cmCopy[n]
           /\ \A i \in 1..m : q[i] # None =>
                \/ p.cm.rv < q[i].rv
                \/ /\ p.cm.rv = q[i].rv /\ i = 1
                   /\ cmCache[n] # None /\ cmCache[n].rv = p.cm.rv
           /\ cm[n] # None /\ p.cm.rv = cm[n].rv =>
                /\ cmCache[n] # None /\ cmCache[n].rv = cm[n].rv
                /\ \A i \in 1..m : q[i] = cm[n]
  BY <1>1, <1>2 DEF HeldOnce
<1>5. CASE CMKept(n)
  BY <1>5 DEF CMKept, CMSame, NoNewCopy, HeldOnce
<1>6. CASE CMStored(n)
  <2>1. PICK g \in Nat : g = cmGen[n]
    BY <1>3
  <2>2. /\ cmGen'[n] \in {g, g + 1} /\ (cm'[n] # None => cm'[n].rv = g + 1)
        /\ cmCache'[n] = cmCache[n] /\ cmCopy'[n] = cmCopy[n]
        /\ Copies(n)' \subseteq Copies(n) /\ cm'[n] \in CMOrNone
    BY <1>6, <2>1 DEF CMStored, NoNewCopy, CMOrNone
  <2>3. /\ Len(cmWatch'[n]) = m + 1 /\ cmWatch'[n][m + 1] = cm'[n]
        /\ \A i \in 1..m : cmWatch'[n][i] = q[i]
    BY <1>1, <1>2, <1>6, <2>2 DEF CMStored
  <2>4. ASSUME NEW p \in Copies(n)'
        PROVE  /\ p.cm.rv <= cmGen'[n]
               /\ cm'[n] # None => p.cm.rv # cm'[n].rv /\ p.cm.rv < cm'[n].rv
    <3>1. PICK r \in Nat : r = p.cm.rv /\ r <= g
      BY <1>3, <1>4, <2>1, <2>2
    <3>2. r <= g + 1 /\ r < g + 1 /\ r # g + 1
      BY <3>1
    <3>3. QED
      BY <2>2, <3>1, <3>2
  <2>5. ASSUME NEW p \in Copies(n)', NEW i \in 1..(m + 1), cmWatch'[n][i] # None
        PROVE  \/ p.cm.rv < cmWatch'[n][i].rv
               \/ /\ p.cm.rv = cmWatch'[n][i].rv /\ i = 1
                  /\ cmCache'[n] # None /\ cmCache'[n].rv = p.cm.rv
    <3>1. CASE i = m + 1
      BY <2>3, <2>4, <2>5, <3>1
    <3>2. CASE i \in 1..m
      BY <1>4, <2>2, <2>3, <2>5, <3>2
    <3>3. QED
      BY <3>1, <3>2
  <2>6. QED
    BY <1>4, <2>2, <2>3, <2>4, <2>5 DEF HeldOnce
<1>7. CASE CMDelivered(n)
  <2>1. m > 0 /\ 1 \in 1..m
    BY <1>1, <1>2, <1>7 DEF CMDelivered
  <2>2. /\ Len(cmWatch'[n]) = m - 1 /\ cmGen'[n] = cmGen[n] /\ cm'[n] = cm[n]
        /\ \A i \in 1..(m - 1) : i + 1 \in 1..m /\ 1 < i + 1 /\ cmWatch'[n][i] = q[i + 1]
        /\ Head(q) = q[1]
    BY <1>1, <1>2, <1>7, <2>1 DEF CMDelivered
  <2>3. PICK head \in CMOrNone : head = q[1]
    BY <1>3, <2>1
  <2>4. /\ cmCache'[n] = head
        /\ cmCopy'[n] = IF cmCache[n] # None /\ head # None /\ head.rv = cmCache[n].rv
                          THEN cmCopy[n] + 1 ELSE 0
        /\ \A p \in Copies(n)' :
             p \in Copies(n) \/ (p.cm # None /\ p.cm = head /\ p.copy = cmCopy'[n])
    BY <1>1, <1>7, <2>2, <2>3 DEF CMDelivered
  <2>5. head # None =>
          /\ head.rv \in Nat /\ head.rv <= cmGen[n]
          /\ cm[n] # None /\ head.rv = cm[n].rv => head = cm[n] /\ m = 1
          /\ \A j \in 1..m : 1 < j /\ q[j] # None => head.rv < q[j].rv
    BY <1>1, <1>2, <1>3, <2>1, <2>3 DEF CMStream
  (* What was held is older than what is delivered, or the cached version. *)
  <2>6. ASSUME NEW p \in Copies(n), head # None
        PROVE  \/ p.cm.rv < head.rv
               \/ p.cm.rv = head.rv /\ p.copy < cmCopy'[n]
    <3>1. CASE p.cm.rv < head.rv
      BY <3>1
    <3>2. CASE p.cm.rv = head.rv /\ cmCache[n] # None /\ cmCache[n].rv = p.cm.rv
      <4>1. ~(p.cm.rv < cmCache[n].rv) /\ cmCopy'[n] = cmCopy[n] + 1
        BY <1>3, <2>4, <2>6, <3>2
      <4>2. p.copy <= cmCopy[n] /\ p.copy \in Nat /\ cmCopy[n] \in Nat
        BY <1>3, <1>4, <3>2, <4>1
      <4>3. QED
        BY <3>2, <4>1, <4>2
    <3>3. QED
      BY <1>4, <2>1, <2>3, <2>6, <3>1, <3>2
  <2>7. cmCopy'[n] \in Nat
    BY <1>3, <2>4
  <2>8. ASSUME NEW p \in Copies(n)', NEW d \in Copies(n)',
               p.cm.rv = d.cm.rv, p.copy = d.copy
        PROVE  p.cm = d.cm
    <3>1. CASE p \in Copies(n) /\ d \in Copies(n)
      BY <1>4, <2>8, <3>1
    <3>2. ASSUME NEW x \in Copies(n), head # None, x.cm.rv = head.rv, x.copy = cmCopy'[n]
          PROVE  FALSE
      BY <1>3, <2>5, <2>6, <2>7, <3>2
    <3>3. CASE p \notin Copies(n)
      BY <2>4, <2>8, <3>2, <3>3
    <3>4. CASE d \notin Copies(n)
      BY <2>4, <2>8, <3>2, <3>4
    <3>5. QED
      BY <3>1, <3>3, <3>4
  <2>9. ASSUME NEW p \in Copies(n)'
        PROVE  /\ p.cm.rv <= cmGen'[n]
               /\ head # None =>
                    \/ p.cm.rv < head.rv
                    \/ p.cm.rv = head.rv /\ p.copy <= cmCopy'[n]
    <3>1. CASE p \in Copies(n)
      <4>1. p.copy \in Nat /\ (p.copy < cmCopy'[n] => p.copy <= cmCopy'[n])
        BY <1>3, <2>7, <3>1
      <4>2. QED
        BY <1>4, <2>2, <2>6, <3>1, <4>1
    <3>2. CASE p.cm # None /\ p.cm = head /\ p.copy = cmCopy'[n]
      BY <2>2, <2>5, <2>7, <3>2
    <3>3. QED
      BY <2>4, <3>1, <3>2
  <2>10. ASSUME NEW p \in Copies(n)', NEW i \in 1..(m - 1), cmWatch'[n][i] # None
         PROVE  p.cm.rv < cmWatch'[n][i].rv
    <3>1. i + 1 \in 1..m /\ 1 < i + 1 /\ i + 1 # 1 /\ cmWatch'[n][i] = q[i + 1]
      BY <2>2
    <3>2. CASE p \in Copies(n)
      BY <1>4, <2>10, <3>1, <3>2
    <3>3. CASE p.cm # None /\ p.cm = head
      BY <2>5, <2>10, <3>1, <3>3
    <3>4. QED
      BY <2>4, <3>2, <3>3
  <2>11. ASSUME NEW p \in Copies(n)', cm'[n] # None, p.cm.rv = cm'[n].rv
         PROVE  /\ cmCache'[n] # None /\ cmCache'[n].rv = cm'[n].rv
                /\ \A i \in 1..(m - 1) : cmWatch'[n][i] = cm'[n]
    <3>1. CASE p \in Copies(n)
      BY <1>4, <2>1, <2>2, <2>3, <2>4, <2>11, <3>1
    <3>2. CASE p.cm # None /\ p.cm = head
      <4>1. m = 1
        BY <2>2, <2>5, <2>11, <3>2
      <4>2. QED
        BY <2>4, <2>11, <3>2, <4>1
    <3>3. QED
      BY <2>4, <3>1, <3>2
  <2>12. QED
    BY <2>2, <2>4, <2>8, <2>9, <2>10, <2>11 DEF HeldOnce
<1>8. CASE CMAssigned(n)
  <2>1. PICK r, i, ip : \A p \in Copies(n)' : \E d \in Copies(n) : p = Assigned(d, r, i, ip)
    BY <1>8 DEF CMAssigned
  <2>2. \A d \in Copies(n) : /\ Assigned(d, r, i, ip).cm.rv = d.cm.rv
                             /\ Assigned(d, r, i, ip).copy = d.copy
    BY <1>3 DEF Assigned, ConfigMaps
  <2>3. \A p, d \in Copies(n) : p.cm.rv = d.cm.rv /\ p.copy = d.copy =>
          Assigned(p, r, i, ip).cm = Assigned(d, r, i, ip).cm
    BY <1>4 DEF Assigned
  <2>4. \A p, d \in Copies(n)' : p.cm.rv = d.cm.rv /\ p.copy = d.copy => p.cm = d.cm
    BY <2>1, <2>2, <2>3
  <2>5. \A p \in Copies(n)' : \E d \in Copies(n) : p.cm.rv = d.cm.rv /\ p.copy = d.copy
    BY <2>1, <2>2
  <2>6. /\ cmGen'[n] = cmGen[n] /\ cm'[n] = cm[n] /\ cmWatch'[n] = q /\ cmCopy'[n] = cmCopy[n]
        /\ cmCache'[n] # None <=> cmCache[n] # None
        /\ cmCache[n] # None => cmCache'[n].rv = cmCache[n].rv
    BY <1>1, <1>8 DEF CMAssigned, CMSame
  <2>7. ASSUME NEW p \in Copies(n)'
        PROVE  /\ p.cm.rv <= cmGen'[n]
               /\ cmCache'[n] # None =>
                    \/ p.cm.rv < cmCache'[n].rv
                    \/ p.cm.rv = cmCache'[n].rv /\ p.copy <= cmCopy'[n]
               /\ \A j \in 1..m : cmWatch'[n][j] # None =>
                    \/ p.cm.rv < cmWatch'[n][j].rv
                    \/ /\ p.cm.rv = cmWatch'[n][j].rv /\ j = 1
                       /\ cmCache'[n] # None /\ cmCache'[n].rv = p.cm.rv
               /\ cm'[n] # None /\ p.cm.rv = cm'[n].rv =>
                    /\ cmCache'[n] # None /\ cmCache'[n].rv = cm'[n].rv
                    /\ \A j \in 1..m : cmWatch'[n][j] = cm'[n]
    <3>1. PICK d \in Copies(n) : p.cm.rv = d.cm.rv /\ p.copy = d.copy
      BY <2>5
    <3>2. QED
      BY <1>4, <2>6, <3>1
  <2>8. Len(cmWatch'[n]) = m
    BY <1>2, <2>6
  <2>9. QED
    BY <2>4, <2>7, <2>8 DEF HeldOnce
<1>9. CASE CMListed(n)
  <2>1. CASE Copies(n)' = {}
    BY <2>1 DEF HeldOnce
  <2>2. CASE /\ cmCache'[n] = IF cm[n] = None THEN None ELSE cmCache[n]
             /\ cmCopy'[n] = cmCopy[n] /\ Copies(n)' \subseteq Copies(n)
    <3>1. /\ cm'[n] = cm[n] /\ cmGen'[n] = cmGen[n]
          /\ \A i \in 1..Len(cmWatch'[n]) : i = 1 /\ cmWatch'[n][i] = cm[n] /\ cm[n] # None
      BY <1>9 DEF CMListed
    <3>2. cm[n] # None => cm[n].rv = cmGen[n]
      BY DEF CMStream
    <3>3. ASSUME NEW p \in Copies(n)', NEW i \in 1..Len(cmWatch'[n])
          PROVE  \/ p.cm.rv < cmWatch'[n][i].rv
                 \/ /\ p.cm.rv = cmWatch'[n][i].rv /\ i = 1
                    /\ cmCache'[n] # None /\ cmCache'[n].rv = p.cm.rv
      <4>1. PICK r \in Nat : r = p.cm.rv /\ r <= cmGen[n]
        BY <1>3, <1>4, <2>2
      <4>2. cmWatch'[n][i].rv = cmGen[n] /\ (r < cmGen[n] \/ r = cmGen[n])
        BY <1>3, <3>1, <3>2, <4>1
      <4>3. r = cmGen[n] => cmCache'[n] # None /\ cmCache'[n].rv = r
        BY <1>4, <2>2, <3>1, <3>2, <4>1
      <4>4. QED
        BY <3>1, <4>1, <4>2, <4>3
    <3>4. QED
      BY <1>4, <2>2, <3>1, <3>3 DEF HeldOnce
  <2>3. QED
    BY <1>9, <2>1, <2>2 DEF CMListed
<1>10. QED
  BY <1>5, <1>6, <1>7, <1>8, <1>9 DEF CMStep

(* A worker that has assigned goes on to send, and is done with what it     *)
(* holds only when the API server stores that or another version.           *)
Settles(n) ==
    \A p \in Copies(n) :
        Sending(n, p.cm.rv, p.copy) /\ p \in Copies(n)' /\ cm'[n] # None /\ p.cm.rv = cm'[n].rv
            => p.cm = cm'[n] \/ Sending(n, p.cm.rv, p.copy)'

FailedWrite == \E w \in Workers : wpc[w] = "UpdateCM" /\ ApiCallFails(w)

LEMMA KeepsSending ==
    ASSUME NEW n, \A r, i : Sending(n, r, i) => Sending(n, r, i)'
    PROVE  Settles(n)
BY DEF Settles

(* The locals j hold the ConfigMap worker w has, the cached one, or none. *)
NoNewCM(w, j) ==
    \/ j.cm = None
    \/ j.cm = job[w].cm /\ j.copy = job[w].copy
    \/ j.cm = cmCache[NsOf[wkey[w]]] /\ j.copy = cmCopy[NsOf[wkey[w]]]

LEMMA LocalHeldStep ==
    ASSUME TypeInv, NEW w \in Workers, NEW step, NEW j, Goto(w, step, j),
           UNCHANGED <<cmCache, cmCopy>>,
           \/ wkey' = wkey /\ wpc[w] # "Get" /\ NoNewCM(w, j)
           \/ j.cm = None /\ \E x : wkey' = [wkey EXCEPT ![w] = x],
           NEW n \in Namespaces
    PROVE  /\ NoNewCopy(n)
           /\ wpc[w] # "UpdateCM" => Settles(n)
<1>1. PICK l : /\ job' = [job EXCEPT ![w] = l]
               /\ l.cm = None \/ (l.cm = j.cm /\ l.copy = j.copy)
  <2>1. job' = [job EXCEPT ![w] = NoJob] \/ job' = [job EXCEPT ![w] = j]
    BY DEF Goto
  <2>2. NoJob.cm = None
    BY DEF NoJob
  <2>3. QED
    BY <2>1, <2>2
<1>2. wpc' = [wpc EXCEPT ![w] = step]
  BY DEF Goto
<1>3. job \in [Workers -> Jobs] /\ wpc \in [Workers -> WorkerStates]
      /\ wkey \in [Workers -> Keys \cup {None}]
  BY DEF TypeInv, JobsOK, MutexInv, WorkersOK
<1>4. \A v \in Workers : v # w =>
        wpc'[v] = wpc[v] /\ wkey'[v] = wkey[v] /\ job'[v] = job[v]
  BY <1>1, <1>2, <1>3
<1>5. job'[w].cm = None \/ (job'[w].cm = j.cm /\ job'[w].copy = j.copy)
  BY <1>1, <1>3
<1>6. ASSUME NEW v \in WorkersIn(n)', job'[v].cm # None
      PROVE  [cm |-> job'[v].cm, copy |-> job'[v].copy] \in Copies(n)
  <2>1. v \in Workers /\ wpc'[v] # "Get" /\ NsOf[wkey'[v]] = n
    BY DEF WorkersIn
  <2>2. CASE v # w
    <3>1. v \in WorkersIn(n) /\ job'[v] = job[v]
      BY <1>4, <2>1, <2>2 DEF WorkersIn
    <3>2. QED
      BY <1>6, <3>1, HeldCopies
  <2>3. CASE v = w
    <3>1. /\ wkey' = wkey /\ wpc[w] # "Get"
          /\ \/ job'[w].cm = job[w].cm /\ job'[w].copy = job[w].copy
             \/ /\ job'[w].cm = cmCache[NsOf[wkey[w]]]
                /\ job'[w].copy = cmCopy[NsOf[wkey[w]]]
      BY <1>5, <1>6, <2>3 DEF NoNewCM
    <3>2. NsOf[wkey[w]] = n /\ w \in WorkersIn(n)
      BY <2>1, <2>3, <3>1 DEF WorkersIn
    <3>3. QED
      BY <1>6, <2>3, <3>1, <3>2, HeldCopies
  <2>4. QED
    BY <2>2, <2>3
<1>7. NoNewCopy(n)
  <2> SUFFICES ASSUME NEW p \in Copies(n)' PROVE p \in Copies(n)
    BY DEF NoNewCopy
  <2>1. /\ p.cm # None
        /\ \/ p = [cm |-> cmCache'[n], copy |-> cmCopy'[n]]
           \/ \E v \in WorkersIn(n)' : p = [cm |-> job'[v].cm, copy |-> job'[v].copy]
    BY DEF Copies
  <2>2. CASE p = [cm |-> cmCache'[n], copy |-> cmCopy'[n]]
    BY <2>1, <2>2, HeldCopies
  <2>3. ASSUME NEW v \in WorkersIn(n)', p = [cm |-> job'[v].cm, copy |-> job'[v].copy]
        PROVE  p \in Copies(n)
    BY <1>6, <2>1, <2>3
  <2>4. QED
    BY <2>1, <2>2, <2>3
<1>8. ASSUME wpc[w] # "UpdateCM", NEW r, NEW i, Sending(n, r, i) PROVE Sending(n, r, i)'
  <2>1. PICK v \in Workers : /\ wpc[v] = "UpdateCM" /\ job[v].cm.rv = r /\ job[v].copy = i
                             /\ NsOf[wkey[v]] = n
    BY <1>8 DEF Sending, WorkersIn
  <2>2. v # w
    BY <1>8, <2>1
  <2>3. QED
    BY <1>4, <2>1, <2>2 DEF Sending, WorkersIn
<1>9. QED
  BY <1>7, <1>8, KeepsSending

(* A step that touches neither the ConfigMap nor its watch. *)
LEMMA QuietCMStep ==
    ASSUME UNCHANGED <<cm, cmGen, cmWatch>>, NEW n, NoNewCopy(n)
    PROVE  CMStep(n)
BY DEF CMStep, CMKept, CMSame, NoNewCopy

LEMMA SameHeld ==
    ASSUME UNCHANGED <<cmCache, cmCopy, workerVars>>, NEW n
    PROVE  NoNewCopy(n) /\ Settles(n)
<1>1. WorkersIn(n)' = WorkersIn(n) /\ Copies(n)' = Copies(n)
  BY DEF workerVars, WorkersIn, Copies
<1>2. \A r, i : Sending(n, r, i) => Sending(n, r, i)'
  BY <1>1 DEF workerVars, Sending
<1>3. QED
  BY <1>1, <1>2, KeepsSending DEF NoNewCopy

LEMMA WriteLeaderHeldStep ==
    ASSUME TypeInv, NEW w \in Workers, WriteLeader(w), NEW n \in Namespaces
    PROVE  CMStep(n) /\ Settles(n)
<1>1. /\ wpc \in [Workers -> WorkerStates] /\ job \in [Workers -> Jobs]
      /\ cmCache \in [Namespaces -> CMOrNone] /\ wkey[w] \in Keys
      /\ wpc[w] = "WriteLeader" /\ job[w].cm # None
  BY DEF TypeInv, MutexInv, WorkersOK, JobsOK, JobOK, UsesCM, InformersOK, WriteLeader
<1>2. PICK m \in Namespaces : m = NsOf[wkey[w]]
  BY <1>1, ClusterAssumption DEF ClusterAssumption
<1>3. PICK r, i, ip : r = job[w].cm.rv /\ i = job[w].copy /\ ip = job[w].leader
  OBVIOUS
<1>4. /\ cmCache' = IF cmCache[m] # None /\ cmCache[m].rv = r /\ cmCopy[m] = i
                      THEN [cmCache EXCEPT ![m].ip = ip] ELSE cmCache
      /\ job' = [v \in Workers |->
                   IF SameCM(v, w) THEN [job[v] EXCEPT !.cm.ip = ip] ELSE job[v]]
      /\ wpc' = [wpc EXCEPT ![w] = "UpdateCM"] /\ wkey' = wkey
      /\ UNCHANGED <<cm, cmGen, cmWatch, cmCopy>>
  BY <1>2, <1>3 DEF WriteLeader, CachedCM, clusterVars, objectVars, watchVars
<1>5. /\ WorkersIn(n)' = WorkersIn(n)
      /\ \A v \in Workers : wpc[v] = "UpdateCM" => wpc'[v] = "UpdateCM"
  BY <1>1, <1>4 DEF WorkersIn
<1>6. ASSUME NEW v \in Workers
      PROVE  /\ SameCM(v, w) => job'[v].cm = [job[v].cm EXCEPT !.ip = ip]
             /\ ~SameCM(v, w) => job'[v].cm = job[v].cm
             /\ job'[v].copy = job[v].copy
  <2>1. job[v] \in Jobs
    BY <1>1
  <2>2. QED
    BY <1>4, <2>1 DEF Jobs
<1>7. ASSUME NEW v \in Workers, job[v].cm # None
      PROVE  job'[v].cm.rv = job[v].cm.rv
  <2>1. job[v].cm \in ConfigMaps
    BY <1>1, <1>7 DEF Jobs
  <2>2. QED
    BY <1>6, <2>1 DEF ConfigMaps
<1>8. /\ SameCM(w, w) /\ wpc'[w] = "UpdateCM"
      /\ job'[w].cm.rv = r /\ job'[w].copy = i
  BY <1>1, <1>3, <1>4, <1>6, <1>7 DEF SameCM
<1>9. Settles(n)
  <2>1. \A v \in Workers : wpc[v] = "UpdateCM" => job[v].cm # None
    BY DEF TypeInv, JobsOK, JobOK, UsesCM
  <2>2. ASSUME NEW x, NEW y, Sending(n, x, y) PROVE Sending(n, x, y)'
    <3>1. PICK v \in WorkersIn(n) :
            wpc[v] = "UpdateCM" /\ job[v].cm.rv = x /\ job[v].copy = y
      BY <2>2 DEF Sending
    <3>2. v \in Workers /\ v \in WorkersIn(n)' /\ wpc'[v] = "UpdateCM"
      BY <1>5, <3>1 DEF WorkersIn
    <3>3. job'[v].cm.rv = x /\ job'[v].copy = y
      BY <1>6, <1>7, <2>1, <3>1, <3>2
    <3>4. QED
      BY <3>2, <3>3 DEF Sending
  <2>3. QED
    BY <2>2, KeepsSending
<1>10. CASE n = m
  <2>1. w \in WorkersIn(n) /\ Sending(n, r, i)'
    BY <1>1, <1>2, <1>5, <1>8, <1>10 DEF WorkersIn, Sending
  <2>2. ASSUME cmCache[n] # None, cmCache[n].rv = r, cmCopy[n] = i
        PROVE  cmCache'[n] # None /\ cmCache'[n].rv = cmCache[n].rv
    <3>1. cmCache[n] \in ConfigMaps /\ cmCache'[n] = [cmCache[n] EXCEPT !.ip = ip]
      BY <1>1, <1>4, <1>10, <2>2 DEF CMOrNone
    <3>2. ip \in PodIPs \cup {NoIP}
      BY <1>1, <1>3 DEF Jobs
    <3>3. PICK c : c = [cmCache[n] EXCEPT !.ip = ip]
      OBVIOUS
    <3>4. c \in ConfigMaps /\ c.rv = cmCache[n].rv
      BY <3>1, <3>2, <3>3 DEF ConfigMaps
    <3>5. QED
      BY <3>1, <3>3, <3>4, NoneIsNoConfigMap
  <2>3. ~(cmCache[n] # None /\ cmCache[n].rv = r /\ cmCopy[n] = i) => cmCache'[n] = cmCache[n]
    BY <1>4, <1>10
  <2>4. ASSUME NEW p \in Copies(n)' PROVE \E d \in Copies(n) : p = Assigned(d, r, i, ip)
    <3>1. /\ p.cm # None
          /\ \/ p = [cm |-> cmCache'[n], copy |-> cmCopy[n]]
             \/ \E v \in WorkersIn(n) : p = [cm |-> job'[v].cm, copy |-> job[v].copy]
      BY <1>4, <1>5, <1>6 DEF Copies, WorkersIn
    <3>2. CASE p = [cm |-> cmCache'[n], copy |-> cmCopy[n]]
      <4>1. CASE cmCache[n] # None /\ cmCache[n].rv = r /\ cmCopy[n] = i
        <5>1. cmCache'[n] = [cmCache[n] EXCEPT !.ip = ip]
          BY <1>1, <1>4, <1>10, <4>1
        <5>2. PICK d \in Copies(n) : d = [cm |-> cmCache[n], copy |-> cmCopy[n]]
          BY <4>1, HeldCopies
        <5>3. p = Assigned(d, r, i, ip)
          BY <3>2, <4>1, <5>1, <5>2 DEF Assigned
        <5>4. QED
          BY <5>3
      <4>2. CASE ~(cmCache[n] # None /\ cmCache[n].rv = r /\ cmCopy[n] = i)
        <5>1. p = [cm |-> cmCache[n], copy |-> cmCopy[n]] /\ cmCache[n] # None
          BY <1>4, <1>10, <3>1, <3>2, <4>2
        <5>2. p \in Copies(n) /\ p = Assigned(p, r, i, ip)
          BY <4>2, <5>1, HeldCopies DEF Assigned
        <5>3. QED
          BY <5>2
      <4>3. QED
        BY <4>1, <4>2
    <3>3. ASSUME NEW v \in WorkersIn(n), p = [cm |-> job'[v].cm, copy |-> job[v].copy]
          PROVE  \E d \in Copies(n) : p = Assigned(d, r, i, ip)
      <4>1. v \in Workers /\ NsOf[wkey[v]] = n
        BY DEF WorkersIn
      <4>2. CASE SameCM(v, w)
        <5>1. /\ job'[v].cm = [job[v].cm EXCEPT !.ip = ip]
              /\ job[v].cm # None /\ job[v].cm.rv = r /\ job[v].copy = i
          BY <1>3, <1>6, <4>1, <4>2 DEF SameCM
        <5>2. PICK d \in Copies(n) : d = [cm |-> job[v].cm, copy |-> job[v].copy]
          BY <5>1, HeldCopies
        <5>3. p = Assigned(d, r, i, ip)
          BY <3>3, <5>1, <5>2 DEF Assigned
        <5>4. QED
          BY <5>3
      <4>3. CASE ~SameCM(v, w)
        <5>1. /\ p = [cm |-> job[v].cm, copy |-> job[v].copy] /\ job[v].cm # None
              /\ ~(job[v].cm.rv = r /\ job[v].copy = i)
          BY <1>2, <1>3, <1>6, <1>10, <3>1, <3>3, <4>1, <4>3 DEF SameCM
        <5>2. p \in Copies(n) /\ p = Assigned(p, r, i, ip)
          BY <5>1, HeldCopies DEF Assigned
        <5>3. QED
          BY <5>2
      <4>4. QED
        BY <4>2, <4>3
    <3>4. QED
      BY <3>1, <3>2, <3>3
  <2>5. CMSame(n)
    BY <1>4 DEF CMSame
  <2>6. \/ cmCache'[n] = cmCache[n]
        \/ cmCache[n] # None /\ cmCache'[n] # None /\ cmCache'[n].rv = cmCache[n].rv
    BY <2>2, <2>3
  <2>7. CMAssigned(n)
    BY <1>1, <1>3, <2>1, <2>4, <2>5, <2>6 DEF CMAssigned
  <2>8. QED
    BY <1>9, <2>7 DEF CMStep
<1>11. CASE n # m
  <2>1. cmCache'[n] = cmCache[n] /\ cmCopy'[n] = cmCopy[n]
    BY <1>1, <1>4, <1>11
  <2>2. \A v \in WorkersIn(n) : job'[v].cm = job[v].cm /\ job'[v].copy = job[v].copy
    BY <1>2, <1>6, <1>11 DEF WorkersIn, SameCM
  <2>3. Copies(n)' = Copies(n)
    BY <1>5, <2>1, <2>2 DEF Copies
  <2>4. QED
    BY <1>4, <1>9, <2>1, <2>3, QuietCMStep DEF NoNewCopy
<1>12. QED
  BY <1>10, <1>11

(* Storing a ConfigMap, or nothing, in one namespace. *)
LEMMA StoreCMStep ==
    ASSUME TypeInv, NEW m \in Namespaces, NEW c \in CMOrNone, StoreCM(m, c),
           \/ c = None /\ cmGen' = cmGen
           \/ c \in ConfigMaps /\ c.rv = cmGen[m] + 1
              /\ cmGen' = [cmGen EXCEPT ![m] = @ + 1],
           NEW n \in Namespaces, NoNewCopy(n)
    PROVE  CMStep(n)
<1>1. cm \in [Namespaces -> CMOrNone] /\ cmGen \in [Namespaces -> Nat]
      /\ cmWatch \in [Namespaces -> Seq(CMOrNone)]
  BY DEF TypeInv, ClusterTypeOK, CMOrNone
<1>2. CASE n = m
  <2>1. cm'[n] = c /\ cmWatch'[n] = Append(cmWatch[n], c)
    BY <1>1, <1>2 DEF StoreCM
  <2>2. \/ c = None /\ cmGen'[n] = cmGen[n]
        \/ c \in ConfigMaps /\ c.rv = cmGen[n] + 1 /\ cmGen'[n] = cmGen[n] + 1
    BY <1>1, <1>2
  <2>3. CMStored(n)
    BY <2>1, <2>2 DEF CMStored
  <2>4. QED
    BY <2>3 DEF CMStep
<1>3. CASE n # m
  BY <1>1, <1>3 DEF StoreCM, CMStep, CMKept, CMSame, NoNewCopy
<1>4. QED
  BY <1>2, <1>3

LEMMA UpdateCMStep ==
    ASSUME TypeInv, NEW w \in Workers, UpdateCM(w), NEW n \in Namespaces, HeldOnce(n)
    PROVE  CMStep(n) /\ Settles(n)
<1>1. PICK k \in Keys, m \in Namespaces, c \in ConfigMaps :
        k = wkey[w] /\ m = NsOf[k] /\ c = job[w].cm /\ wpc[w] = "UpdateCM"
  <2>1. wkey[w] \in Keys /\ job[w].cm \in ConfigMaps /\ wpc[w] = "UpdateCM"
    BY DEF TypeInv, MutexInv, WorkersOK, JobsOK, JobOK, Jobs, UsesCM, UpdateCM
  <2>2. QED
    BY <2>1, ClusterAssumption DEF ClusterAssumption
<1>2. \/ /\ cm[m] # None /\ cm[m].rv = c.rv /\ cm[m] # c
         /\ cmGen' = [cmGen EXCEPT ![m] = @ + 1]
         /\ StoreCM(m, [c EXCEPT !.rv = cmGen[m] + 1])
         /\ Returns(w, "Done", NoJob)
      \/ /\ ~(cm[m] # None /\ cm[m].rv = c.rv /\ cm[m] # c)
         /\ UNCHANGED <<cm, cmGen, cmWatch>>
         /\ Goto(w, "Done", NoJob) \/ Goto(w, "Requeue", NoJob)
  BY <1>1 DEF UpdateCM
<1>3. \E step : Goto(w, step, NoJob)
  BY <1>2 DEF Returns
<1>4. wkey' = wkey /\ UNCHANGED <<cmCache, cmCopy>> /\ NoJob.cm = None
  BY DEF UpdateCM, informerVars, NoJob
<1>5. NoNewCopy(n)
  BY <1>1, <1>3, <1>4, LocalHeldStep DEF NoNewCM
<1>6. cmGen[m] \in Nat /\ cmGen[n] \in Nat /\ c.rv \in Nat
  BY CMTypes
<1>7. CMStep(n)
  <2>1. CASE UNCHANGED <<cm, cmGen, cmWatch>>
    BY <1>5, <2>1, QuietCMStep
  <2>2. PICK d : d = [c EXCEPT !.rv = cmGen[m] + 1]
    OBVIOUS
  <2>3. d \in ConfigMaps /\ d.rv = cmGen[m] + 1
    BY <1>6, <2>2 DEF ConfigMaps
  <2>4. QED
    BY <1>2, <1>5, <2>1, <2>2, <2>3, StoreCMStep DEF CMOrNone
<1>8. Settles(n)
  <2> SUFFICES ASSUME NEW p \in Copies(n), Sending(n, p.cm.rv, p.copy),
                      ~Sending(n, p.cm.rv, p.copy)', cm'[n] # None, p.cm.rv = cm'[n].rv
               PROVE  p.cm = cm'[n]
    BY DEF Settles
  <2>1. PICK v \in WorkersIn(n) :
          wpc[v] = "UpdateCM" /\ job[v].cm.rv = p.cm.rv /\ job[v].copy = p.copy
    BY DEF Sending
  <2>2. v = w
    <3>1. PICK step, j : /\ wpc' = [wpc EXCEPT ![w] = step]
                         /\ job' = [job EXCEPT ![w] = j]
      BY <1>3 DEF Goto
    <3>2. wpc \in [Workers -> WorkerStates] /\ job \in [Workers -> Jobs] /\ v \in Workers
      BY <2>1 DEF TypeInv, JobsOK, MutexInv, WorkersOK, WorkersIn
    <3>3. v # w => /\ wpc'[v] = "UpdateCM" /\ v \in WorkersIn(n)'
                   /\ job'[v].cm.rv = p.cm.rv /\ job'[v].copy = p.copy
      BY <1>4, <2>1, <3>1, <3>2 DEF WorkersIn
    <3>4. QED
      BY <3>3 DEF Sending
  <2>3. n = m /\ c.rv = p.cm.rv
    BY <1>1, <2>1, <2>2 DEF WorkersIn
  <2>4. p.cm = c
    <3>1. PICK d \in Copies(n) : d = [cm |-> c, copy |-> p.copy]
      BY <1>1, <2>1, <2>2, NoneIsNoConfigMap, HeldCopies
    <3>2. QED
      BY <2>3, <3>1 DEF HeldOnce
  <2>5. CASE UNCHANGED <<cm, cmGen, cmWatch>>
    <3>1. cm[m] = c
      <4>1. cm[m] # None /\ cm[m].rv = c.rv
        BY <2>3, <2>5
      <4>2. CASE ~(cm[m] # None /\ cm[m].rv = c.rv /\ cm[m] # c)
        BY <4>1, <4>2
      <4>3. CASE cmGen' = [cmGen EXCEPT ![m] = @ + 1]
        BY <1>6, <2>5, <4>3 DEF TypeInv, ClusterTypeOK
      <4>4. QED
        BY <1>2, <4>2, <4>3
    <3>2. QED
      BY <2>3, <2>4, <2>5, <3>1
  <2>6. CASE StoreCM(m, [c EXCEPT !.rv = cmGen[m] + 1])
    <3>1. cm'[n] = [c EXCEPT !.rv = cmGen[m] + 1]
      BY <2>3, <2>6 DEF StoreCM, TypeInv, ClusterTypeOK
    <3>2. cm'[n].rv = cmGen[n] + 1
      BY <2>3, <3>1 DEF ConfigMaps
    <3>3. p.cm.rv <= cmGen[n]
      BY DEF HeldOnce
    <3>4. QED
      BY <1>6, <2>3, <3>2, <3>3
  <2>7. QED
    BY <1>2, <2>5, <2>6
<1>9. QED
  BY <1>7, <1>8

LEMMA CreateCMStep ==
    ASSUME TypeInv, NEW w \in Workers, CreateCM(w), NEW n \in Namespaces
    PROVE  CMStep(n) /\ Settles(n)
<1>1. PICK k \in Keys, m \in Namespaces : k = wkey[w] /\ m = NsOf[k]
  <2>1. wkey[w] \in Keys
    BY DEF TypeInv, MutexInv, WorkersOK, CreateCM
  <2>2. QED
    BY <2>1, ClusterAssumption DEF ClusterAssumption
<1>2. PICK c : c = [rv |-> cmGen[m] + 1, ip |-> job[w].leader,
                    owner |-> <<k, job[w].hab.uid>>]
  OBVIOUS
<1>3. c \in ConfigMaps /\ c.rv = cmGen[m] + 1
  <2>1. job[w].hab \in Habs /\ job[w].leader \in PodIPs \cup {NoIP}
    BY DEF TypeInv, JobsOK, JobOK, Jobs, UsesHab, CreateCM
  <2>2. job[w].hab.uid \in Nat /\ cmGen[m] \in Nat
    BY <2>1, CMTypes DEF Habs
  <2>3. QED
    BY <1>1, <1>2, <2>1, <2>2 DEF ConfigMaps
<1>4. /\ wpc[w] = "CreateCM" /\ wkey' = wkey /\ UNCHANGED <<cmCache, cmCopy>>
      /\ \/ /\ cmGen' = [cmGen EXCEPT ![m] = @ + 1]
            /\ StoreCM(m, c) /\ Returns(w, "Done", NoJob)
         \/ /\ UNCHANGED <<cm, cmGen, cmWatch>>
            /\ Goto(w, "FindCM", job[w])
  BY <1>1, <1>2 DEF CreateCM, informerVars
<1>5. NoNewCopy(n) /\ Settles(n)
  <2>1. NoNewCM(w, NoJob) /\ NoNewCM(w, job[w])
    BY DEF NoJob, NoNewCM
  <2>2. QED
    BY <1>4, <2>1, LocalHeldStep DEF Returns
<1>6. QED
  BY <1>3, <1>4, <1>5, StoreCMStep, QuietCMStep DEF CMOrNone

LEMMA WorkerCMStep ==
    ASSUME TypeInv, NEW w \in Workers, WorkerStep(w) \/ ApiCallFails(w),
           NEW n \in Namespaces, HeldOnce(n)
    PROVE  CMStep(n) /\ (~FailedWrite => Settles(n))
<1> USE DEF informerVars, clusterVars, objectVars, watchVars
<1>1. NoJob.cm = None /\ NoNewCM(w, NoJob) /\ NoNewCM(w, job[w])
  BY DEF NoJob, NoNewCM
<1>2. job[w] \in Jobs
  BY DEF TypeInv, JobsOK
<1>3. CASE CreateCM(w)
  BY <1>3, CreateCMStep
<1>4. CASE UpdateCM(w)
  BY <1>4, UpdateCMStep
<1>5. CASE WriteLeader(w)
  BY <1>5, WriteLeaderHeldStep
<1>6. ASSUME NEW step, NEW j, Goto(w, step, j), UNCHANGED <<cm, cmGen, cmWatch, cmCache, cmCopy>>,
             wpc[w] # "UpdateCM",
             \/ wkey' = wkey /\ wpc[w] # "Get" /\ NoNewCM(w, j)
             \/ j.cm = None /\ \E x : wkey' = [wkey EXCEPT ![w] = x]
      PROVE  CMStep(n) /\ Settles(n)
  BY <1>6, LocalHeldStep, QuietCMStep
<1>7. CASE TakeItem(w)
  <2>1. Goto(w, "Lookup", NoJob) /\ \E x : wkey' = [wkey EXCEPT ![w] = x]
    BY <1>7 DEF TakeItem
  <2>2. QED
    BY <1>1, <1>6, <1>7, <2>1 DEF TakeItem
<1>8. CASE FinishItem(w)
  <2>1. Goto(w, "Get", NoJob) /\ \E x : wkey' = [wkey EXCEPT ![w] = x]
    BY <1>8 DEF FinishItem
  <2>2. QED
    BY <1>1, <1>6, <1>8, <2>1 DEF FinishItem
<1>9. CASE LookupHab(w)
  <2>1. PICK step : /\ Goto(w, step, [NoJob EXCEPT !.hab = habCache[wkey[w]]])
                    /\ wkey' = wkey /\ wpc[w] = "Lookup"
    BY <1>9, Zenon DEF LookupHab
  <2>2. PICK j : j = [NoJob EXCEPT !.hab = habCache[wkey[w]]]
    OBVIOUS
  <2>3. NoNewCM(w, j)
    BY <2>2 DEF NoJob, NoNewCM
  <2>4. QED
    BY <1>6, <1>9, <2>1, <2>2, <2>3 DEF LookupHab
<1>10. CASE Requeue(w)
  <2>1. Goto(w, "Done", NoJob) /\ wkey' = wkey /\ wpc[w] = "Requeue"
    BY <1>10 DEF Requeue
  <2>2. QED
    BY <1>1, <1>6, <1>10, <2>1 DEF Requeue
<1>11. CASE ApiCallFails(w)
  <2>1. /\ wpc[w] # "Get" /\ wkey' = wkey /\ Goto(w, "Requeue", NoJob)
        /\ UNCHANGED <<cm, cmGen, cmWatch, cmCache, cmCopy>>
    BY <1>11 DEF ApiCallFails, ApiCalls
  <2>2. CMStep(n)
    BY <1>1, <2>1, LocalHeldStep, QuietCMStep
  <2>3. ~FailedWrite => wpc[w] # "UpdateCM"
    BY <1>11 DEF FailedWrite
  <2>4. QED
    BY <1>1, <1>6, <2>1, <2>2, <2>3
<1>12. CASE GetSecrets(w)
  <2>1. PICK step : Goto(w, step, job[w]) /\ wpc[w] = "Build"
    BY <1>12 DEF GetSecrets
  <2>2. QED
    BY <1>1, <1>6, <1>12, <2>1 DEF GetSecrets
<1>13. CASE DeleteStsPods(w)
  <2>1. /\ wpc[w] = "DeletePods" /\ wkey' = wkey
        /\ Goto(w, "ListPods", job[w]) \/ Goto(w, "Requeue", NoJob)
    BY <1>13 DEF DeleteStsPods
  <2>2. QED
    BY <1>1, <1>6, <1>13, <2>1 DEF DeleteStsPods
<1>14. CASE GetSts(w)
  <2>1. PICK t : t = [job[w] EXCEPT !.template = sts[wkey[w]].template]
    OBVIOUS
  <2>2. NoNewCM(w, t)
    BY <1>2, <2>1 DEF Jobs, NoNewCM
  <2>3. /\ wpc[w] = "GetSts" /\ wkey' = wkey
        /\ Goto(w, "Requeue", NoJob) \/ Goto(w, "UpdateSts", t)
    BY <1>14, <2>1 DEF GetSts
  <2>4. QED
    BY <1>1, <1>6, <1>14, <2>2, <2>3 DEF GetSts
<1>15. CASE ListRunningPods(w)
  <2>1. PICK running, leader :
          Goto(w, "CreateCM", [job[w] EXCEPT !.running = running,
                                             !.leader = leader])
    BY <1>15 DEF ListRunningPods
  <2>2. PICK j : j = [job[w] EXCEPT !.running = running, !.leader = leader]
    OBVIOUS
  <2>3. NoNewCM(w, j)
    BY <1>2, <2>2 DEF Jobs, NoNewCM
  <2>4. wpc[w] = "ListPods" /\ wkey' = wkey /\ Goto(w, "CreateCM", j)
    BY <1>15, <2>1, <2>2 DEF ListRunningPods
  <2>5. QED
    BY <1>6, <1>15, <2>3, <2>4 DEF ListRunningPods
<1>16. CASE FindCM(w)
  <2>1. PICK step, j : /\ Goto(w, step, j) /\ wkey' = wkey /\ wpc[w] = "FindCM"
                       /\ j = [NoJob EXCEPT !.leader = job[w].leader,
                                            !.cm = cmCache[NsOf[wkey[w]]],
                                            !.copy = cmCopy[NsOf[wkey[w]]]]
    BY <1>16, Zenon DEF FindCM
  <2>2. NoNewCM(w, j)
    BY <2>1 DEF NoJob, NoNewCM
  <2>3. QED
    BY <1>6, <1>16, <2>1, <2>2 DEF FindCM
<1>17. CASE CreateSts(w) \/ UpdateSts(w)
  <2>1. PICK t : t = [job[w] EXCEPT !.template = None]
    OBVIOUS
  <2>2. NoNewCM(w, t)
    BY <1>2, <2>1 DEF Jobs, NoNewCM
  <2>3. /\ wpc[w] \in {"CreateSts", "UpdateSts"} /\ wkey' = wkey
        /\ \E j \in {t, job[w], NoJob} : \E step : Goto(w, step, j)
    BY <1>17, <2>1 DEF CreateSts, UpdateSts, Returns
  <2>4. UNCHANGED <<cm, cmGen, cmWatch, cmCache, cmCopy>>
    BY <1>17 DEF CreateSts, UpdateSts
  <2>5. QED
    BY <1>1, <1>6, <2>2, <2>3, <2>4
<1>18. QED
  BY <1>3, <1>4, <1>5, <1>7, <1>8, <1>9, <1>10, <1>11, <1>12, <1>13,
     <1>14, <1>15, <1>16, <1>17 DEF WorkerStep

(* Of what happens in the cluster only a collection changes a ConfigMap. *)
LEMMA ClusterCMStep ==
    ASSUME TypeInv, ClusterStep, NEW n \in Namespaces
    PROVE  CMStep(n) /\ Settles(n)
<1>1. NoNewCopy(n) /\ Settles(n)
  BY SameHeld DEF ClusterStep, ControllerStutters, informerVars
<1>2. CASE UNCHANGED <<cm, cmGen, cmWatch>>
  BY <1>1, <1>2, QuietCMStep
<1>3. ASSUME NEW m \in Namespaces, CollectCM(m) PROVE CMStep(n)
  <2>1. StoreCM(m, None) /\ cmGen' = cmGen /\ None \in CMOrNone
    BY <1>3 DEF CollectCM, CMOrNone
  <2>2. QED
    BY <1>1, <2>1, StoreCMStep
<1>4. ASSUME ~\E m \in Namespaces : CollectCM(m)
      PROVE  UNCHANGED <<cm, cmGen, cmWatch>>
  BY <1>4 DEF ClusterStep, UserStep, PodStep, CreateHab, EditHab, DeleteHab, ToggleSecret,
     TamperSts, KillPod, StartPod, ScaleDown, PodRuns, PodGone, CollectSts, watchVars
<1>5. QED
  BY <1>1, <1>2, <1>3, <1>4

LEMMA InformerCMStep ==
    ASSUME TypeInv, InformerStep, NEW n \in Namespaces
    PROVE  CMStep(n) /\ Settles(n)
<1> USE DEF informerVars, clusterVars, objectVars, watchVars
<1>1. UNCHANGED workerVars
  BY DEF InformerStep, HabEvent, StsEvent, StsStatusEvent, CMEvent, CMResync,
         CMEnqueues, PodEvent, RelistHabs, RelistCMs, RelistPods, RelistSts, workerVars
<1>2. UNCHANGED <<wpc, wkey, job>> /\ WorkersIn(n)' = WorkersIn(n)
  BY <1>1 DEF workerVars, WorkersIn
<1>3. Settles(n)
  <2>1. \A r, i : Sending(n, r, i) => Sending(n, r, i)'
    BY <1>2 DEF Sending
  <2>2. QED
    BY <2>1, KeepsSending
<1>4. \A p \in Copies(n)' :
        \/ p \in Copies(n)
        \/ p.cm # None /\ p = [cm |-> cmCache'[n], copy |-> cmCopy'[n]]
  BY <1>2 DEF Copies
<1>5. cmCache \in [Namespaces -> CMOrNone] /\ cmCopy \in [Namespaces -> Nat]
      /\ cmWatch \in [Namespaces -> Seq(CMOrNone)]
  BY DEF TypeInv, InformersOK, ClusterTypeOK, CMOrNone
<1>6. ASSUME NEW m \in Namespaces, CMEvent(m) PROVE CMStep(n)
  <2>1. /\ cm' = cm /\ cmGen' = cmGen /\ cmWatch[m] # <<>>
        /\ cmCache' = [cmCache EXCEPT ![m] = Head(cmWatch[m])]
        /\ cmCopy' = [cmCopy EXCEPT ![m] =
                        IF /\ cmCache[m] # None /\ Head(cmWatch[m]) # None
                           /\ Head(cmWatch[m]).rv = cmCache[m].rv
                          THEN cmCopy[m] + 1 ELSE 0]
        /\ cmWatch' = [cmWatch EXCEPT ![m] = Tail(@)]
    BY <1>6 DEF CMEvent, cmCopied
  <2>2. CASE n = m
    <3>1. /\ cmCache'[n] = Head(cmWatch[n]) /\ cmWatch'[n] = Tail(cmWatch[n])
          /\ cmCopy'[n] = IF /\ cmCache[n] # None /\ Head(cmWatch[n]) # None
                             /\ Head(cmWatch[n]).rv = cmCache[n].rv
                            THEN cmCopy[n] + 1 ELSE 0
      BY <1>5, <2>1, <2>2
    <3>2. CMDelivered(n)
      BY <1>4, <2>1, <2>2, <3>1 DEF CMDelivered
    <3>3. QED
      BY <3>2 DEF CMStep
  <2>3. CASE n # m
    <3>1. cmCache'[n] = cmCache[n] /\ cmCopy'[n] = cmCopy[n] /\ cmWatch'[n] = cmWatch[n]
      BY <1>5, <2>1, <2>3
    <3>2. Copies(n)' = Copies(n)
      BY <1>2, <3>1 DEF Copies
    <3>3. QED
      BY <2>1, <3>1, <3>2 DEF CMStep, CMKept, CMSame, NoNewCopy
  <2>4. QED
    BY <2>2, <2>3
<1>7. CASE RelistCMs
  <2>1. /\ cm' = cm /\ cmGen' = cmGen /\ cmCopy' = cmCopy
        /\ cmWatch'[n] = IF cm[n] = None THEN <<>> ELSE <<cm[n]>>
        /\ cmCache'[n] = IF cm[n] = None THEN None ELSE cmCache[n]
    BY <1>7 DEF RelistCMs, ListCMs
  <2>2. Copies(n)' \subseteq Copies(n)
    BY <1>4, <2>1, HeldCopies
  <2>3. CMListed(n)
    BY <2>1, <2>2 DEF CMListed
  <2>4. QED
    BY <1>3, <2>3 DEF CMStep
<1>8. ASSUME ~RelistCMs, ~\E m \in Namespaces : CMEvent(m) PROVE CMStep(n)
  <2>1. UNCHANGED <<cm, cmGen, cmWatch, cmCache, cmCopy>>
    BY <1>8 DEF InformerStep, HabEvent, StsEvent, StsStatusEvent, CMResync,
       CMEnqueues, PodEvent, RelistHabs, RelistPods, RelistSts
  <2>2. QED
    BY <1>1, <2>1, SameHeld, QuietCMStep
<1>9. QED
  BY <1>3, <1>6, <1>7, <1>8

LEMMA CrashCMStep ==
    ASSUME TypeInv, Crash, NEW n \in Namespaces
    PROVE  CMStep(n) /\ Settles(n)
<1>1. /\ cm' = cm /\ cmGen' = cmGen /\ cmWatch' = ListCMs
      /\ cmCache' = [m \in Namespaces |-> None]
      /\ wpc' = [w \in Workers |-> "Get"]
  BY DEF Crash, objectVars
<1>2. Copies(n)' = {}
  BY <1>1 DEF Copies, WorkersIn
<1>3. CMListed(n)
  BY <1>1, <1>2 DEF CMListed, ListCMs
<1>4. QED
  BY <1>2, <1>3 DEF CMStep, Settles

LEMMA NextCMStep ==
    ASSUME TypeInv, SharedCMInv, [Next]_vars, NEW n \in Namespaces
    PROVE  CMStep(n) /\ (~FailedWrite => Settles(n))
<1>1. HeldOnce(n)
  BY DEF SharedCMInv
<1>2. CASE WaitingLoopReceives \/ (\E k \in Keys : WaitingLoopFires(k)) \/ UNCHANGED vars
  <2>1. UNCHANGED <<clusterVars, informerVars, workerVars>>
    BY <1>2 DEF WaitingLoopReceives, WaitingLoopFires, vars
  <2>2. UNCHANGED <<cm, cmGen, cmWatch, cmCache, cmCopy, workerVars>>
    BY <2>1 DEF clusterVars, objectVars, watchVars, informerVars
  <2>3. QED
    BY <2>2, SameHeld, QuietCMStep
<1>3. QED
  BY <1>1, <1>2, WorkerCMStep, ClusterCMStep, InformerCMStep, CrashCMStep DEF Next

LEMMA NextSharedCMInv == TypeInv /\ SharedCMInv /\ [Next]_vars => SharedCMInv'
BY NextCMStep, CMStreamStable, HeldOnceStable DEF SharedCMInv

LEMMA NextSentCMInv ==
    TypeInv /\ SharedCMInv /\ SentCMInv /\ [Next]_vars /\ ~FailedWrite => SentCMInv'
<1> SUFFICES ASSUME TypeInv, SharedCMInv, SentCMInv, [Next]_vars, ~FailedWrite,
                    NEW n \in Namespaces, NEW p \in Copies(n)',
                    cm'[n] # None, p.cm.rv = cm'[n].rv
             PROVE  p.cm = cm'[n] \/ Sending(n, p.cm.rv, p.copy)'
  BY DEF SentCMInv
<1>1. CMStep(n) /\ Settles(n) /\ CMStream(n) /\ HeldOnce(n)
  BY NextCMStep DEF SharedCMInv
<1>2. cmGen[n] \in Nat /\ cmWatch[n] \in Seq(CMOrNone)
      /\ \A d \in Copies(n) : d.cm \in ConfigMaps /\ d.cm.rv \in Nat
  BY CMTypes
<1>3. ASSUME p \in Copies(n), cm'[n] = cm[n]
      PROVE  p.cm = cm'[n] \/ Sending(n, p.cm.rv, p.copy)'
  BY <1>1, <1>3 DEF SentCMInv, Settles
<1>4. CASE CMKept(n)
  BY <1>3, <1>4 DEF CMKept, CMSame, NoNewCopy
<1>5. CASE CMStored(n)
  <2>1. cm'[n].rv = cmGen[n] + 1 /\ p \in Copies(n)
    BY <1>5 DEF CMStored, NoNewCopy
  <2>2. p.cm.rv <= cmGen[n] /\ p.cm.rv \in Nat
    BY <1>1, <1>2, <2>1 DEF HeldOnce
  <2>3. QED
    BY <1>2, <2>1, <2>2
<1>6. CASE CMDelivered(n)
  <2>1. CASE p \in Copies(n)
    BY <1>3, <1>6, <2>1 DEF CMDelivered
  <2>2. CASE p.cm = Head(cmWatch[n]) /\ p.cm # None
    <3>1. p.cm = cmWatch[n][1] /\ 1 \in 1..Len(cmWatch[n])
      BY <1>2, <1>6, <2>2 DEF CMDelivered
    <3>2. cm'[n] = cm[n]
      BY <1>6 DEF CMDelivered
    <3>3. QED
      BY <1>1, <2>2, <3>1, <3>2 DEF CMStream
  <2>3. QED
    BY <1>6, <2>1, <2>2 DEF CMDelivered
<1>7. CASE CMAssigned(n)
  <2>1. PICK rv, i, ip : /\ Sending(n, rv, i)'
                         /\ \A b \in Copies(n)' : \E d \in Copies(n) : b = Assigned(d, rv, i, ip)
    BY <1>7 DEF CMAssigned
  <2>2. PICK d \in Copies(n) : p = Assigned(d, rv, i, ip)
    BY <2>1
  <2>3. CASE d.cm.rv = rv /\ d.copy = i
    <3>1. p.cm.rv = rv /\ p.copy = i
      BY <1>2, <2>2, <2>3 DEF Assigned, ConfigMaps
    <3>2. QED
      BY <2>1, <3>1
  <2>4. CASE ~(d.cm.rv = rv /\ d.copy = i)
    BY <1>3, <1>7, <2>2, <2>4 DEF Assigned, CMAssigned, CMSame
  <2>5. QED
    BY <2>3, <2>4
<1>8. CASE CMListed(n)
  BY <1>3, <1>8 DEF CMListed
<1>9. QED
  BY <1>1, <1>4, <1>5, <1>6, <1>7, <1>8 DEF CMStep

LEMMA InitSharedCMInv == Init => SharedCMInv /\ SentCMInv
<1> SUFFICES ASSUME Init, NEW n \in Namespaces
             PROVE  /\ CMStream(n) /\ HeldOnce(n)
                    /\ \A p \in Copies(n) : cm[n] # None /\ p.cm.rv = cm[n].rv => p.cm = cm[n]
  BY DEF SharedCMInv, SentCMInv
<1>1. WorkersIn(n) = {} /\ cmCopy[n] = 0
  BY DEF Init, WorkersIn
<1>2. \A p \in Copies(n) : p.cm # None /\ p = [cm |-> cmCache[n], copy |-> 0]
  BY <1>1 DEF Copies
<1>3. cmWatch[n] = <<>>
  BY DEF Init, ClusterInit
<1>4. 1..Len(cmWatch[n]) = {}
  BY <1>3
<1>5. CASE StartInit
  <2>1. cm[n] = None /\ cmCache[n] = None /\ cmGen[n] = 0
    BY <1>5 DEF StartInit
  <2>2. Copies(n) = {}
    BY <1>2, <2>1
  <2>3. QED
    BY <1>4, <2>1, <2>2 DEF CMStream, HeldOnce
<1>6. CASE DeployedInit
  <2>1. PICK owner \in [Namespaces -> {k \in Keys : hab[k] # None}],
             leader \in [Namespaces -> (Pods \X {1}) \cup {NoIP}] :
          cm = [m \in Namespaces |->
                  [rv |-> 1, ip |-> leader[m], owner |-> <<owner[m], 1>>]]
    BY <1>6 DEF DeployedInit
  <2>2. cmCache[n] = cm[n] /\ cm[n].rv = 1 /\ cmGen[n] = 1
    BY <1>6, <2>1 DEF DeployedInit
  <2>3. \A p \in Copies(n) : p.cm = cm[n] /\ p.copy = 0 /\ cmCache[n] # None
    BY <1>2, <2>2
  <2>4. QED
    BY <1>1, <1>4, <2>2, <2>3 DEF CMStream, HeldOnce
<1>7. QED
  BY <1>5, <1>6 DEF Init

LEMMA SpendChanges ==
    ASSUME TypeInv, NEW kind \in Kinds, Spend(kind) PROVE budget' # budget
<1>1. budget[kind] \in Nat /\ budget'[kind] = budget[kind] - 1
  BY DEF TypeInv, ClusterTypeOK, Spend
<1>2. QED
  BY <1>1

(* A version of the ConfigMap that the operator holds has one content, and *)
(* nothing on its way is older.                                            *)
THEOREM SharedCMInvariant == Spec => []SharedCMInv
<1>1. Init => SharedCMInv
  BY InitSharedCMInv
<1>2. TypeInv /\ SharedCMInv /\ [Next]_vars => SharedCMInv'
  BY NextSharedCMInv
<1>3. QED
  BY <1>1, <1>2, TypeInvariant, PTL DEF Spec

(* As long as no update of the ConfigMap fails, what the operator has      *)
(* cached of it is what the API server stores, but for an assignment that  *)
(* is about to be sent (controller.go:432-440).  The condition is needed:  *)
(* a failed write is what the run FailedWrite finds.                       *)
THEOREM CacheIsTrue == Spec /\ [][~FailedWrite]_vars => []CachedCMIsStored
<1>1. Init => SentCMInv
  BY InitSharedCMInv
<1>2. TypeInv /\ SharedCMInv /\ SentCMInv /\ [Next]_vars /\ [~FailedWrite]_vars => SentCMInv'
  <2>1. TypeInv /\ FailedWrite => ~UNCHANGED vars
    BY SpendChanges DEF FailedWrite, ApiCallFails, Kinds, vars, clusterVars
  <2>2. QED
    BY <2>1, NextSentCMInv
<1>3. SentCMInv => CachedCMIsStored
  <2> SUFFICES ASSUME SentCMInv, NEW n \in Namespaces, cmCache[n] # None, cm[n] # None,
                      cmCache[n].rv = cm[n].rv, \A w \in Workers : wpc[w] # "UpdateCM"
               PROVE  cmCache[n] = cm[n]
    BY DEF CachedCMIsStored
  <2>1. PICK p \in Copies(n) : p = [cm |-> cmCache[n], copy |-> cmCopy[n]]
    BY HeldCopies
  <2>2. ~Sending(n, p.cm.rv, p.copy)
    BY DEF Sending, WorkersIn
  <2>3. QED
    BY <2>1, <2>2 DEF SentCMInv
<1>4. QED
  BY <1>1, <1>2, <1>3, TypeInvariant, SharedCMInvariant, PTL DEF Spec

-----------------------------------------------------------------------------
(* The leader.  A worker replaces the IP in the ConfigMap when it was not   *)
(* among those of the pods that ran when it listed them.  It runs neither   *)
(* later, since pods get new IPs; what the worker finds in the cache, and   *)
(* what the API server stores under the same version, is older than the     *)
(* list, as long as no other worker writes in this namespace meanwhile.     *)
PastIPs == {x \in PodIPs : x[2] <= podGen[x[1]]} \cup {NoIP}

Objects(n) ==
    {c \in {cm[n]} \cup Held(n) \cup {cmWatch[n][i] : i \in 1..Len(cmWatch[n])} : c # None}

Known(n) == {c.ip : c \in Objects(n)}

PastInv ==
    /\ \A p \in Pods : pod[p] # None => pod[p].ip \in PastIPs
    /\ \A n \in Namespaces : Known(n) \subseteq PastIPs
    /\ \A w \in Workers : job[w].leader \in PastIPs

Lists == {"CreateCM", "FindCM"}

LeaderInv ==
    \A n \in Namespaces :
        /\ \A c \in Held(n) : cm[n] # None /\ c.rv = cm[n].rv =>
             c = cm[n] \/ cm[n].ip \notin RunningIPs(n)
        /\ \A w \in WorkersIn(n) :
             /\ wpc[w] \in Lists => Known(n) \cap RunningIPs(n) \subseteq job[w].running
             /\ wpc[w] \in UsesCM /\ cm[n] # None /\ cm[n].rv = job[w].cm.rv =>
                  cm[n].ip \notin RunningIPs(n)

(* No two workers run conform in one namespace at the same time. *)
AloneInNamespace ==
    \A n \in Namespaces : \A v, w \in WorkersIn(n) : v = w

(* Pods come without an IP, get a new one, keep it and go. *)
PodIPStep ==
    /\ \A p \in Pods : podGen[p] <= podGen'[p]
    /\ \A p \in Pods : pod'[p] # None =>
         \/ pod[p] # None /\ pod'[p].ip = pod[p].ip /\ pod'[p].phase = pod[p].phase
         \/ pod'[p].ip = NoIP /\ pod'[p].phase = "Pending"
         \/ pod'[p].ip = <<p, podGen[p] + 1>> /\ podGen'[p] = podGen[p] + 1

LEMMA SamePodIPs ==
    ASSUME TypeInv, UNCHANGED <<pod, podGen>> PROVE PodIPStep
BY DEF PodIPStep, TypeInv, ClusterTypeOK

LEMMA DeletePodsIPStep ==
    ASSUME TypeInv, NEW gone, \A p \in gone : pod[p] # None,
           DeletePods(gone), podGen' = podGen
    PROVE  PodIPStep
<1>1. podGen \in [Pods -> Nat] /\ pod \in [Pods -> PodOrNone]
  BY DEF TypeInv, ClusterTypeOK, PodOrNone
<1>2. ASSUME NEW p \in Pods, pod'[p] # None
      PROVE  pod[p] # None /\ pod'[p].ip = pod[p].ip /\ pod'[p].phase = pod[p].phase
  <2>1. pod'[p] = IF p \notin gone THEN pod[p]
                  ELSE IF pod[p].phase = "Pending" THEN None
                  ELSE [pod[p] EXCEPT !.terminating = TRUE]
    BY DEF DeletePods
  <2>2. CASE pod[p] \in PodObjects
    <3>1. pod[p] # None
      BY <2>2, ClusterAssumption DEF ClusterAssumption
    <3>2. QED
      BY <1>2, <2>1, <2>2, <3>1 DEF PodObjects
  <2>3. CASE pod[p] = None
    BY <1>1, <1>2, <2>1, <2>3, ClusterAssumption DEF ClusterAssumption
  <2>4. QED
    BY <1>1, <2>2, <2>3 DEF PodOrNone
<1>3. QED
  BY <1>1, <1>2 DEF PodIPStep

LEMMA NextPodIPStep ==
    ASSUME TypeInv, [Next]_vars PROVE PodIPStep
<1>1. ASSUME NEW k, \E gone \in SUBSET PodsOf(k) : DeletePods(gone), podGen' = podGen
      PROVE  PodIPStep
  BY <1>1, DeletePodsIPStep DEF PodsOf
<1>2. ASSUME NEW p \in Pods, pod[p] # None, DeletePods({p}), podGen' = podGen
      PROVE  PodIPStep
  BY <1>2, DeletePodsIPStep
<1>3. pod \in [Pods -> PodOrNone] /\ podGen \in [Pods -> Nat]
  BY DEF TypeInv, ClusterTypeOK, PodOrNone
<1>4. ASSUME NEW p \in Pods, StartPod(p) PROVE PodIPStep
  <2>1. PICK x : /\ x = [phase |-> "Pending", terminating |-> FALSE,
                         template |-> sts[p[1]].template, ip |-> NoIP]
                 /\ pod' = [pod EXCEPT ![p] = x]
    BY <1>4 DEF StartPod
  <2>2. podGen' = podGen
    BY <1>4 DEF StartPod
  <2>3. \A q \in Pods : q # p => pod'[q] = pod[q]
    BY <1>3, <2>1
  <2>4. pod'[p].ip = NoIP /\ pod'[p].phase = "Pending"
    BY <1>3, <2>1
  <2>5. QED
    BY <1>3, <2>2, <2>3, <2>4 DEF PodIPStep
<1>5. ASSUME NEW p \in Pods, PodRuns(p) PROVE PodIPStep
  <2>1. /\ pod[p] # None /\ podGen' = [podGen EXCEPT ![p] = @ + 1]
        /\ pod' = [pod EXCEPT ![p] = [pod[p] EXCEPT !.phase = "Running",
                                                    !.ip = <<p, podGen[p] + 1>>]]
    BY <1>3, <1>5 DEF PodRuns
  <2>2. pod[p] \in PodObjects
    BY <1>3, <2>1 DEF PodOrNone
  <2>3. PICK x : /\ x = [pod[p] EXCEPT !.phase = "Running", !.ip = <<p, podGen[p] + 1>>]
                 /\ pod' = [pod EXCEPT ![p] = x]
    BY <2>1
  <2>4. x.ip = <<p, podGen[p] + 1>>
    BY <2>2, <2>3 DEF PodObjects
  <2>5. pod'[p].ip = <<p, podGen[p] + 1>> /\ podGen'[p] = podGen[p] + 1
    BY <1>3, <2>1, <2>3, <2>4
  <2>6. \A q \in Pods : q # p => pod'[q] = pod[q] /\ podGen'[q] = podGen[q]
    BY <1>3, <2>1, <2>3
  <2>7. \A q \in Pods : podGen[q] <= podGen'[q]
    BY <1>3, <2>5, <2>6
  <2>8. QED
    BY <2>5, <2>6, <2>7 DEF PodIPStep
<1>6. ASSUME NEW p \in Pods, PodGone(p) PROVE PodIPStep
  BY <1>3, <1>6 DEF PodGone, PodIPStep
<1>7. ASSUME NEW k \in Keys, RemoveSts(k), podGen' = podGen PROVE PodIPStep
  BY <1>1, <1>7 DEF RemoveSts
<1>8. CASE ClusterStep
  <2>1. CASE UNCHANGED <<pod, podGen>>
    BY <2>1, SamePodIPs
  <2>2. ASSUME NEW k \in Keys, TamperSts(k) PROVE PodIPStep
    BY <1>7, <2>1, <2>2 DEF TamperSts
  <2>3. ASSUME NEW k \in Keys, CreateHab(k) \/ EditHab(k) \/ DeleteHab(k) \/ ToggleSecret(k)
        PROVE  PodIPStep
    BY <2>1, <2>3 DEF CreateHab, EditHab, DeleteHab, ToggleSecret
  <2>4. ASSUME NEW p \in Pods, KillPod(p) PROVE PodIPStep
    BY <1>2, <2>4 DEF KillPod
  <2>5. ASSUME NEW p \in Pods, PodStep(p) PROVE PodIPStep
    <3>1. ASSUME ScaleDown(p) PROVE PodIPStep
      BY <1>2, <3>1 DEF ScaleDown
    <3>2. QED
      BY <1>4, <1>5, <1>6, <2>5, <3>1 DEF PodStep
  <2>6. ASSUME NEW k \in Keys, CollectSts(k) PROVE PodIPStep
    BY <1>7, <2>6 DEF CollectSts
  <2>7. ASSUME NEW n \in Namespaces, CollectCM(n) PROVE PodIPStep
    BY <2>1, <2>7 DEF CollectCM
  <2>8. QED
    BY <1>8, <2>2, <2>3, <2>4, <2>5, <2>6, <2>7 DEF ClusterStep, UserStep
<1>9. ASSUME NEW w \in Workers, DeleteStsPods(w) PROVE PodIPStep
  <2>1. \E gone \in SUBSET PodsOf(wkey[w]) : DeletePods(gone)
    <3>1. PodsOf(wkey[w]) \in SUBSET PodsOf(wkey[w])
      OBVIOUS
    <3>2. QED
      BY <1>9, <3>1 DEF DeleteStsPods
  <2>2. QED
    BY <1>1, <1>9, <2>1 DEF DeleteStsPods
<1>10. ASSUME NEW w \in Workers, WorkerStep(w) \/ ApiCallFails(w), ~DeleteStsPods(w)
       PROVE  UNCHANGED <<pod, podGen>>
  BY <1>10 DEF WorkerStep, ApiCallFails, TakeItem, LookupHab, GetSecrets, CreateSts, GetSts,
     UpdateSts, ListRunningPods, CreateCM, FindCM, WriteLeader, UpdateCM, Requeue, FinishItem,
     clusterVars, objectVars
<1>11. CASE InformerStep \/ Crash \/ WaitingLoopReceives
            \/ (\E k \in Keys : WaitingLoopFires(k)) \/ UNCHANGED vars
  <2>1. UNCHANGED <<pod, podGen>>
    BY <1>11 DEF InformerStep, HabEvent, StsEvent, StsStatusEvent, CMEvent, CMResync, CMEnqueues,
       PodEvent, RelistHabs, RelistCMs, RelistPods, RelistSts, Crash, WaitingLoopReceives, WaitingLoopFires,
       clusterVars, objectVars, vars
  <2>2. QED
    BY <2>1, SamePodIPs
<1>12. QED
  BY <1>8, <1>9, <1>10, <1>11, SamePodIPs DEF Next

(* An IP that was ever given is given to no pod again. *)
LEMMA PastIPsStep ==
    ASSUME TypeInv, TypeInv', PastInv, PodIPStep
    PROVE  /\ PastIPs \subseteq PastIPs'
           /\ \A p \in Pods : pod'[p] # None => pod'[p].ip \in PastIPs'
           /\ \A n : \A x \in PastIPs : x \in RunningIPs(n)' => x \in RunningIPs(n)
<1>1. \A p \in Pods : podGen[p] \in Nat /\ podGen'[p] \in Nat /\ podGen[p] <= podGen'[p]
  BY DEF TypeInv, ClusterTypeOK, PodIPStep
<1>2. PastIPs \subseteq PastIPs'
  <2>1. ASSUME NEW x \in PodIPs, x[2] <= podGen[x[1]] PROVE x[2] <= podGen'[x[1]]
    <3>1. x[1] \in Pods /\ x[2] \in Nat
      BY DEF PodIPs
    <3>2. QED
      BY <1>1, <2>1, <3>1
  <2>2. QED
    BY <2>1 DEF PastIPs
<1>3. ASSUME NEW p \in Pods
      PROVE  /\ <<p, podGen[p] + 1>> \in PodIPs
             /\ <<p, podGen[p] + 1>> \notin PastIPs
             /\ podGen'[p] = podGen[p] + 1 => <<p, podGen[p] + 1>> \in PastIPs'
  <2>1. PICK g \in Nat : g = podGen[p]
    BY <1>1
  <2>2. <<p, g + 1>> \in PodIPs /\ ~(g + 1 <= g) /\ <<p, g + 1>> # NoIP
    BY ClusterAssumption DEF PodIPs, ClusterAssumption
  <2>3. <<p, g + 1>>[1] = p /\ <<p, g + 1>>[2] = g + 1
    OBVIOUS
  <2>4. QED
    BY <1>1, <2>1, <2>2, <2>3 DEF PastIPs
<1>4. \A p \in Pods : pod'[p] # None => pod'[p].ip \in PastIPs'
  <2>1. NoIP \in PastIPs'
    BY DEF PastIPs
  <2>2. QED
    BY <1>2, <1>3, <2>1 DEF PodIPStep, PastInv
<1>5. ASSUME NEW n, NEW x \in PastIPs, x \in RunningIPs(n)' PROVE x \in RunningIPs(n)
  <2>1. PICK p \in Pods : /\ NsOf[p[1]] = n /\ pod'[p] # None
                          /\ pod'[p].phase = "Running" /\ pod'[p].ip = x
    BY <1>5 DEF RunningIPs, RunningPods
  <2>2. pod[p] # None /\ pod'[p].ip = pod[p].ip /\ pod'[p].phase = pod[p].phase
    BY <1>3, <2>1 DEF PodIPStep
  <2>3. QED
    BY <2>1, <2>2 DEF RunningIPs, RunningPods
<1>6. QED
  BY <1>2, <1>4, <1>5

(***************************************************************************)
(* What a step does to the leaders: who writes the ConfigMap, and what its *)
(* workers remember.                                                       *)
(***************************************************************************)
LeaderWrite(n) ==
    cm'[n] # cm[n] /\ cm'[n] # None =>
      \E w \in WorkersIn(n) :
        \/ /\ wpc[w] = "CreateCM" /\ cm[n] = None /\ cm'[n].ip = job[w].leader
           /\ w \in WorkersIn(n)' /\ wpc'[w] \notin Lists
        \/ /\ wpc[w] = "UpdateCM" /\ cm[n] # None /\ job[w].cm # None
           /\ cm[n].rv = job[w].cm.rv /\ cm'[n].ip = job[w].cm.ip

(* The locals of worker w that matter here. *)
LeaderJob(w) ==
    /\ job'[w].leader \in {job[w].leader, NoIP} \cup RunningIPs(NsOf[wkey[w]])
    /\ wpc'[w] \in Lists =>
         /\ wpc[w] # "Get" /\ wkey'[w] = wkey[w]
         /\ \/ wpc[w] \in Lists /\ job'[w].running = job[w].running
            \/ job'[w].running = RunningIPs(NsOf[wkey[w]])
    /\ wpc'[w] \in UsesCM =>
         /\ wpc[w] # "Get" /\ wkey'[w] = wkey[w]
         /\ \/ wpc[w] \in UsesCM /\ job'[w].cm.rv = job[w].cm.rv
            \/ /\ wpc[w] = "FindCM" /\ job'[w].cm = cmCache[NsOf[wkey[w]]]
               /\ job'[w].cm.ip \notin job[w].running

LeaderStep ==
    /\ \A n \in Namespaces : LeaderWrite(n)
    /\ \A w \in Workers : LeaderJob(w)

LEMMA SameLeaderJobs ==
    ASSUME UNCHANGED <<wpc, wkey, job>>, NEW w \in Workers PROVE LeaderJob(w)
BY DEF LeaderJob, Lists, UsesCM

LEMMA GotoLeaderJobs ==
    ASSUME TypeInv, NEW w \in Workers, NEW step, NEW j, Goto(w, step, j),
           \E x : wkey' = [wkey EXCEPT ![w] = x],
           j.leader \in {job[w].leader, NoIP} \cup RunningIPs(NsOf[wkey[w]]),
           step \in Lists =>
             /\ wpc[w] # "Get" /\ wkey' = wkey
             /\ \/ wpc[w] \in Lists /\ j.running = job[w].running
                \/ j.running = RunningIPs(NsOf[wkey[w]]),
           step \in UsesCM =>
             /\ wpc[w] = "FindCM" /\ wkey' = wkey
             /\ j.cm = cmCache[NsOf[wkey[w]]] /\ j.cm.ip \notin job[w].running,
           NEW v \in Workers
    PROVE  LeaderJob(v)
<1>1. PICK l : /\ job' = [job EXCEPT ![w] = l]
               /\ l.leader \in {j.leader, NoIP}
               /\ step \in Lists \cup UsesCM => l = j
  <2>1. NoJob.leader = NoIP
    BY DEF NoJob
  <2>2. {"Requeue", "Done"} \cap (Lists \cup UsesCM) = {}
    BY DEF Lists, UsesCM
  <2>3. QED
    BY <2>1, <2>2 DEF Goto
<1>2. wpc' = [wpc EXCEPT ![w] = step]
  BY DEF Goto
<1>3. job \in [Workers -> Jobs] /\ wpc \in [Workers -> WorkerStates]
      /\ wkey \in [Workers -> Keys \cup {None}]
  BY DEF TypeInv, JobsOK, MutexInv, WorkersOK
<1>4. CASE v # w
  <2>1. wpc'[v] = wpc[v] /\ wkey'[v] = wkey[v] /\ job'[v] = job[v]
    BY <1>1, <1>2, <1>3, <1>4
  <2>2. QED
    BY <2>1 DEF LeaderJob, Lists, UsesCM
<1>5. CASE v = w
  <2>1. wpc'[w] = step /\ job'[w] = l
    BY <1>1, <1>2, <1>3
  <2>2. l.leader \in {job[w].leader, NoIP} \cup RunningIPs(NsOf[wkey[w]])
    BY <1>1
  <2>3. step \in UsesCM => wpc[w] # "Get"
    OBVIOUS
  <2>4. QED
    BY <1>1, <1>5, <2>1, <2>2, <2>3 DEF LeaderJob
<1>6. QED
  BY <1>4, <1>5

LEMMA SameLeaderWrite == ASSUME NEW n, cm' = cm PROVE LeaderWrite(n)
BY DEF LeaderWrite

LEMMA WriteLeaderLeaderStep ==
    ASSUME TypeInv, NEW w \in Workers, WriteLeader(w) PROVE LeaderStep
<1>1. job \in [Workers -> Jobs] /\ wpc \in [Workers -> WorkerStates]
  BY DEF TypeInv, JobsOK, MutexInv, WorkersOK
<1>2. PICK ip : ip = job[w].leader
  OBVIOUS
<1>3. /\ job' = [v \in Workers |->
                   IF SameCM(v, w) THEN [job[v] EXCEPT !.cm.ip = ip] ELSE job[v]]
      /\ wpc' = [wpc EXCEPT ![w] = "UpdateCM"] /\ wpc[w] = "WriteLeader"
      /\ wkey' = wkey /\ cm' = cm
  BY <1>2 DEF WriteLeader, clusterVars, objectVars
<1>4. ASSUME NEW v \in Workers PROVE LeaderJob(v)
  <2>1. job'[v].leader = job[v].leader /\ job'[v].running = job[v].running
    BY <1>1, <1>3 DEF Jobs
  <2>2. ASSUME wpc[v] \in UsesCM PROVE job'[v].cm.rv = job[v].cm.rv
    <3>1. job[v].cm \in ConfigMaps
      BY <1>1, <2>2 DEF TypeInv, JobsOK, JobOK, Jobs
    <3>2. QED
      BY <1>1, <1>3, <3>1 DEF Jobs, ConfigMaps
  <2>3. wpc'[v] \in Lists => wpc[v] \in Lists
    BY <1>1, <1>3 DEF Lists
  <2>4. wpc'[v] \in UsesCM => wpc[v] \in UsesCM
    BY <1>1, <1>3 DEF UsesCM
  <2>5. wpc[v] \in Lists \cup UsesCM => wpc[v] # "Get"
    BY DEF Lists, UsesCM
  <2>6. wkey'[v] = wkey[v]
    BY <1>3
  <2>7. QED
    BY <2>1, <2>2, <2>3, <2>4, <2>5, <2>6 DEF LeaderJob
<1>5. QED
  BY <1>3, <1>4, SameLeaderWrite DEF LeaderStep

(* Worker w leaves the call it is at, which ends conform. *)
LEMMA EndsLeaderJobs ==
    ASSUME TypeInv, NEW w \in Workers, NEW step, NEW j, Goto(w, step, j),
           step \in {"Requeue", "Done"}, wkey' = wkey, wpc[w] # "Get"
    PROVE  /\ \A v \in Workers : LeaderJob(v)
           /\ wpc'[w] \notin Lists
           /\ \A n : w \in WorkersIn(n) => w \in WorkersIn(n)'
<1>1. NoJob.leader = NoIP /\ Goto(w, step, NoJob)
  BY DEF NoJob, Goto
<1>2. step \notin Lists \cup UsesCM /\ step # "Get"
  BY DEF Lists, UsesCM
<1>3. wkey \in [Workers -> Keys \cup {None}] /\ wpc \in [Workers -> WorkerStates]
  BY DEF TypeInv, MutexInv, WorkersOK
<1>4. wpc'[w] = step /\ \E x : wkey' = [wkey EXCEPT ![w] = x]
  <2>1. wkey' = [wkey EXCEPT ![w] = wkey[w]]
    BY <1>3
  <2>2. QED
    BY <1>3, <2>1 DEF Goto
<1>5. QED
  BY <1>1, <1>2, <1>4, GotoLeaderJobs DEF WorkersIn

LEMMA CreateCMLeaderStep ==
    ASSUME TypeInv, NEW w \in Workers, CreateCM(w) PROVE LeaderStep
<1>1. PICK k \in Keys, m \in Namespaces : k = wkey[w] /\ m = NsOf[k]
  <2>1. wkey[w] \in Keys
    BY DEF TypeInv, MutexInv, WorkersOK, CreateCM
  <2>2. QED
    BY <2>1, ClusterAssumption DEF ClusterAssumption
<1>2. wpc[w] = "CreateCM" /\ wkey' = wkey /\ w \in WorkersIn(m)
  BY <1>1 DEF CreateCM, WorkersIn
<1>3. PICK c : c = [rv |-> cmGen[m] + 1, ip |-> job[w].leader,
                    owner |-> <<k, job[w].hab.uid>>]
  OBVIOUS
<1>4. \/ cm[m] = None /\ StoreCM(m, c) /\ Returns(w, "Done", NoJob)
      \/ UNCHANGED cm /\ Goto(w, "FindCM", job[w])
  BY <1>1, <1>3 DEF CreateCM
<1>5. CASE UNCHANGED cm /\ Goto(w, "FindCM", job[w])
  <2>1. "FindCM" \notin UsesCM /\ wpc[w] \in Lists
    BY <1>2 DEF UsesCM, Lists
  <2>2. \E x : wkey' = [wkey EXCEPT ![w] = x]
    <3>1. wkey' = [wkey EXCEPT ![w] = wkey[w]]
      BY <1>2 DEF TypeInv, MutexInv, WorkersOK
    <3>2. QED
      BY <3>1
  <2>3. \A v \in Workers : LeaderJob(v)
    BY <1>2, <1>5, <2>1, <2>2, GotoLeaderJobs
  <2>4. QED
    BY <1>5, <2>3, SameLeaderWrite DEF LeaderStep
<1>6. CASE cm[m] = None /\ StoreCM(m, c) /\ Returns(w, "Done", NoJob)
  <2>1. PICK step \in {"Requeue", "Done"} : Goto(w, step, NoJob)
    BY <1>6 DEF Returns
  <2>2. /\ \A v \in Workers : LeaderJob(v)
        /\ wpc'[w] \notin Lists /\ w \in WorkersIn(m)'
    BY <1>2, <2>1, EndsLeaderJobs
  <2>3. ASSUME NEW n \in Namespaces PROVE LeaderWrite(n)
    <3>1. cm \in [Namespaces -> CMOrNone] /\ cm' = [cm EXCEPT ![m] = c]
      BY <1>6 DEF StoreCM, TypeInv, ClusterTypeOK, CMOrNone
    <3>2. CASE n # m
      BY <3>1, <3>2 DEF LeaderWrite
    <3>3. CASE n = m
      <4>1. cm'[n].ip = job[w].leader
        BY <1>3, <3>1, <3>3
      <4>2. QED
        BY <1>2, <1>6, <2>2, <3>3, <4>1 DEF LeaderWrite
    <3>4. QED
      BY <3>2, <3>3
  <2>4. QED
    BY <2>2, <2>3 DEF LeaderStep
<1>7. QED
  BY <1>4, <1>5, <1>6

LEMMA UpdateCMLeaderStep ==
    ASSUME TypeInv, NEW w \in Workers, UpdateCM(w) PROVE LeaderStep
<1>1. PICK k \in Keys, m \in Namespaces, c \in ConfigMaps :
        k = wkey[w] /\ m = NsOf[k] /\ c = job[w].cm /\ wpc[w] = "UpdateCM"
  <2>1. wkey[w] \in Keys /\ job[w].cm \in ConfigMaps /\ wpc[w] = "UpdateCM"
    BY DEF TypeInv, MutexInv, WorkersOK, JobsOK, JobOK, Jobs, UsesCM, UpdateCM
  <2>2. QED
    BY <2>1, ClusterAssumption DEF ClusterAssumption
<1>2. wkey' = wkey /\ w \in WorkersIn(m)
  BY <1>1 DEF UpdateCM, WorkersIn
<1>3. \/ /\ cm[m] # None /\ cm[m].rv = c.rv
         /\ StoreCM(m, [c EXCEPT !.rv = cmGen[m] + 1])
         /\ Returns(w, "Done", NoJob)
      \/ /\ UNCHANGED cm
         /\ Goto(w, "Done", NoJob) \/ Goto(w, "Requeue", NoJob)
  BY <1>1 DEF UpdateCM
<1>4. \A v \in Workers : LeaderJob(v)
  <2>1. PICK step \in {"Requeue", "Done"} : Goto(w, step, NoJob)
    BY <1>3 DEF Returns
  <2>2. QED
    BY <1>1, <1>2, <2>1, EndsLeaderJobs
<1>5. ASSUME NEW n \in Namespaces PROVE LeaderWrite(n)
  <2>1. CASE UNCHANGED cm
    BY <2>1, SameLeaderWrite
  <2>2. ASSUME cm[m] # None, cm[m].rv = c.rv,
               StoreCM(m, [c EXCEPT !.rv = cmGen[m] + 1])
        PROVE  LeaderWrite(n)
    <3>1. PICK d : d = [c EXCEPT !.rv = cmGen[m] + 1]
      OBVIOUS
    <3>2. d.ip = c.ip
      BY <3>1 DEF ConfigMaps
    <3>3. cm \in [Namespaces -> CMOrNone] /\ cm' = [cm EXCEPT ![m] = d]
      BY <2>2, <3>1 DEF StoreCM, TypeInv, ClusterTypeOK, CMOrNone
    <3>4. CASE n # m
      BY <3>3, <3>4 DEF LeaderWrite
    <3>5. CASE n = m
      <4>1. cm'[n] = d /\ job[w].cm # None
        BY <1>1, <3>3, <3>5, NoneIsNoConfigMap
      <4>2. QED
        BY <1>1, <1>2, <2>2, <3>2, <3>5, <4>1 DEF LeaderWrite
    <3>6. QED
      BY <3>4, <3>5
  <2>3. QED
    BY <1>3, <2>1, <2>2
<1>6. QED
  BY <1>4, <1>5 DEF LeaderStep

LEMMA WorkerLeaderStep ==
    ASSUME TypeInv, NEW w \in Workers, WorkerStep(w) \/ ApiCallFails(w) PROVE LeaderStep
<1> USE DEF informerVars, clusterVars, objectVars, watchVars
<1>1. NoJob.leader = NoIP
  BY DEF NoJob
<1>2. job[w] \in Jobs
  BY DEF TypeInv, JobsOK
<1>3. ASSUME wkey' = wkey PROVE \E x : wkey' = [wkey EXCEPT ![w] = x]
  <2>1. wkey' = [wkey EXCEPT ![w] = wkey[w]]
    BY <1>3 DEF TypeInv, MutexInv, WorkersOK
  <2>2. QED
    BY <2>1
<1>4. CASE CreateCM(w) \/ UpdateCM(w) \/ WriteLeader(w)
  BY <1>4, CreateCMLeaderStep, UpdateCMLeaderStep, WriteLeaderLeaderStep
<1>5. ASSUME NEW step, NEW j, Goto(w, step, j), UNCHANGED cm,
             step \notin Lists \cup UsesCM, \E x : wkey' = [wkey EXCEPT ![w] = x],
             j.leader \in {job[w].leader, NoIP} \cup RunningIPs(NsOf[wkey[w]])
      PROVE  LeaderStep
  BY <1>5, GotoLeaderJobs, SameLeaderWrite DEF LeaderStep
<1>6. CASE TakeItem(w)
  <2>1. Goto(w, "Lookup", NoJob) /\ \E x : wkey' = [wkey EXCEPT ![w] = x]
    BY <1>6 DEF TakeItem
  <2>2. QED
    BY <1>1, <1>5, <1>6, <2>1 DEF TakeItem, Lists, UsesCM
<1>7. CASE FinishItem(w)
  <2>1. Goto(w, "Get", NoJob) /\ \E x : wkey' = [wkey EXCEPT ![w] = x]
    BY <1>7 DEF FinishItem
  <2>2. QED
    BY <1>1, <1>5, <1>7, <2>1 DEF FinishItem, Lists, UsesCM
<1>8. CASE LookupHab(w)
  <2>1. PICK step \in {"Done", "Requeue", "Build", "CreateSts"} :
          /\ Goto(w, step, [NoJob EXCEPT !.hab = habCache[wkey[w]]]) /\ wkey' = wkey
    BY <1>8, Zenon DEF LookupHab
  <2>2. PICK j : j = [NoJob EXCEPT !.hab = habCache[wkey[w]]]
    OBVIOUS
  <2>3. j.leader = NoIP
    BY <2>2 DEF NoJob
  <2>4. step \notin Lists \cup UsesCM /\ UNCHANGED cm
    BY <1>8 DEF Lists, UsesCM, LookupHab
  <2>5. QED
    BY <1>3, <1>5, <2>1, <2>2, <2>3, <2>4
<1>9. CASE Requeue(w) \/ ApiCallFails(w)
  <2>1. PICK step \in {"Done", "Requeue"} : Goto(w, step, NoJob) /\ wkey' = wkey
    BY <1>9 DEF Requeue, ApiCallFails
  <2>2. step \notin Lists \cup UsesCM /\ UNCHANGED cm
    BY <1>9 DEF Lists, UsesCM, Requeue, ApiCallFails
  <2>3. QED
    BY <1>1, <1>3, <1>5, <2>1, <2>2
<1>10. CASE GetSecrets(w)
  <2>1. PICK step \in {"CreateSts", "Requeue"} : Goto(w, step, job[w]) /\ wkey' = wkey
    BY <1>10 DEF GetSecrets
  <2>2. step \notin Lists \cup UsesCM /\ UNCHANGED cm
    BY <1>10 DEF Lists, UsesCM, GetSecrets
  <2>3. QED
    BY <1>3, <1>5, <2>1, <2>2
<1>11. CASE DeleteStsPods(w)
  <2>1. PICK step \in {"ListPods", "Requeue"}, j \in {job[w], NoJob} :
          Goto(w, step, j) /\ wkey' = wkey
    BY <1>11 DEF DeleteStsPods
  <2>2. step \notin Lists \cup UsesCM /\ UNCHANGED cm
    BY <1>11 DEF Lists, UsesCM, DeleteStsPods
  <2>3. QED
    BY <1>1, <1>3, <1>5, <2>1, <2>2
<1>12. CASE GetSts(w)
  <2>1. PICK t : t = [job[w] EXCEPT !.template = sts[wkey[w]].template]
    OBVIOUS
  <2>2. t.leader = job[w].leader
    BY <1>2, <2>1 DEF Jobs
  <2>3. PICK step \in {"UpdateSts", "Requeue"}, j \in {t, NoJob} :
          Goto(w, step, j) /\ wkey' = wkey
    BY <1>12, <2>1 DEF GetSts
  <2>4. step \notin Lists \cup UsesCM /\ UNCHANGED cm
    BY <1>12 DEF Lists, UsesCM, GetSts
  <2>5. QED
    BY <1>1, <1>3, <1>5, <2>2, <2>3, <2>4
<1>13. CASE CreateSts(w) \/ UpdateSts(w)
  <2>1. PICK t : t = [job[w] EXCEPT !.template = None]
    OBVIOUS
  <2>2. t.leader = job[w].leader
    BY <1>2, <2>1 DEF Jobs
  <2>3. PICK step \in {"ListPods", "Requeue", "GetSts", "DeletePods"}, j \in {t, job[w], NoJob} :
          Goto(w, step, j) /\ wkey' = wkey
    BY <1>13, <2>1 DEF CreateSts, UpdateSts, Returns
  <2>4. step \notin Lists \cup UsesCM /\ UNCHANGED cm
    BY <1>13 DEF Lists, UsesCM, CreateSts, UpdateSts
  <2>5. QED
    BY <1>1, <1>3, <1>5, <2>2, <2>3, <2>4
<1>14. CASE ListRunningPods(w)
  <2>1. PICK running, leader :
          /\ running = RunningIPs(NsOf[wkey[w]])
          /\ leader \in {NoIP} \cup running
          /\ Goto(w, "CreateCM", [job[w] EXCEPT !.running = running, !.leader = leader])
    BY <1>14 DEF ListRunningPods, getRunningPods
  <2>2. PICK j : j = [job[w] EXCEPT !.running = running, !.leader = leader]
    OBVIOUS
  <2>3. j.leader = leader /\ j.running = running
    BY <1>2, <2>2 DEF Jobs
  <2>4. /\ wpc[w] = "ListPods" /\ wkey' = wkey /\ Goto(w, "CreateCM", j) /\ UNCHANGED cm
        /\ "CreateCM" \notin UsesCM /\ wpc[w] # "Get"
    BY <1>14, <2>1, <2>2 DEF ListRunningPods, UsesCM
  <2>5. \A v \in Workers : LeaderJob(v)
    BY <1>3, <2>1, <2>3, <2>4, GotoLeaderJobs
  <2>6. QED
    BY <2>4, <2>5, SameLeaderWrite DEF LeaderStep
<1>15. CASE FindCM(w)
  <2>1. PICK c, j : /\ c = cmCache[NsOf[wkey[w]]]
                    /\ j = [NoJob EXCEPT !.leader = job[w].leader, !.cm = c,
                                         !.copy = cmCopy[NsOf[wkey[w]]]]
    OBVIOUS
  <2>2. j.leader = job[w].leader /\ j.cm = c
    BY <2>1 DEF NoJob
  <2>3. PICK step \in {"Requeue", "Done", "WriteLeader"} :
          /\ Goto(w, step, j)
          /\ step = "WriteLeader" => ~leaderRuns(c, job[w].running)
    BY <1>15, <2>1, Zenon DEF FindCM
  <2>4. /\ step \notin Lists /\ (step \in UsesCM => j.cm.ip \notin job[w].running)
        /\ wpc[w] = "FindCM" /\ wkey' = wkey /\ UNCHANGED cm
    BY <1>15, <2>2, <2>3 DEF FindCM, Lists, UsesCM, leaderRuns
  <2>5. \A v \in Workers : LeaderJob(v)
    BY <1>3, <2>1, <2>2, <2>3, <2>4, GotoLeaderJobs
  <2>6. QED
    BY <2>4, <2>5, SameLeaderWrite DEF LeaderStep
<1>16. QED
  BY <1>4, <1>6, <1>7, <1>8, <1>9, <1>10, <1>11, <1>12, <1>13, <1>14, <1>15 DEF WorkerStep

LEMMA NextLeaderStep ==
    ASSUME TypeInv, [Next]_vars PROVE LeaderStep
<1> USE DEF informerVars, clusterVars, objectVars, watchVars, workerVars
<1>1. ASSUME UNCHANGED workerVars, \A n \in Namespaces : cm'[n] \in {cm[n], None}
      PROVE  LeaderStep
  BY <1>1, SameLeaderJobs DEF LeaderStep, LeaderWrite
<1>2. CASE ClusterStep
  <2>1. UNCHANGED workerVars
    BY <1>2 DEF ClusterStep, ControllerStutters
  <2>2. ASSUME NEW m \in Namespaces, CollectCM(m) PROVE LeaderStep
    <3>1. cm' = [cm EXCEPT ![m] = None] /\ cm \in [Namespaces -> CMOrNone]
      BY <2>2 DEF CollectCM, StoreCM, TypeInv, ClusterTypeOK, CMOrNone
    <3>2. QED
      BY <1>1, <2>1, <3>1
  <2>3. ASSUME ~\E m \in Namespaces : CollectCM(m) PROVE UNCHANGED cm
    BY <1>2, <2>3 DEF ClusterStep, UserStep, PodStep, CreateHab, EditHab, DeleteHab, ToggleSecret,
       TamperSts, KillPod, StartPod, ScaleDown, PodRuns, PodGone, CollectSts
  <2>4. QED
    BY <1>1, <2>1, <2>2, <2>3
<1>3. CASE Crash
  <2>1. /\ cm' = cm /\ job' = [w \in Workers |-> NoJob]
        /\ wpc' = [w \in Workers |-> "Get"]
    BY <1>3 DEF Crash
  <2>2. NoJob.leader = NoIP
    BY DEF NoJob
  <2>3. \A w \in Workers : LeaderJob(w)
    BY <2>1, <2>2 DEF LeaderJob, Lists, UsesCM
  <2>4. QED
    BY <2>1, <2>3, SameLeaderWrite DEF LeaderStep
<1>4. CASE InformerStep \/ WaitingLoopReceives
           \/ (\E k \in Keys : WaitingLoopFires(k)) \/ UNCHANGED vars
  <2>1. UNCHANGED workerVars /\ UNCHANGED cm
    BY <1>4 DEF InformerStep, HabEvent, StsEvent, StsStatusEvent, CMEvent, CMResync, CMEnqueues,
       PodEvent, RelistHabs, RelistCMs, RelistPods, RelistSts, WaitingLoopReceives, WaitingLoopFires, vars
  <2>2. QED
    BY <1>1, <2>1
<1>5. QED
  BY <1>2, <1>3, <1>4, WorkerLeaderStep DEF Next

(* Where a new IP comes from: a worker that is past its list of the pods. *)
KnownStep(n) ==
    \/ Known(n)' \subseteq Known(n)
    \/ \E w \in WorkersIn(n) : \E v \in WorkersIn(n)' :
         wpc'[v] \notin Lists /\ \A x \in Known(n)' : x \in Known(n) \/ x = job[w].leader

LEMMA HeldStep ==
    ASSUME NEW n
    PROVE  /\ Copies(n)' \subseteq Copies(n) => Held(n)' \subseteq Held(n)
           /\ CMKept(n) \/ CMStored(n) => Held(n)' \subseteq Held(n)
           /\ CMDelivered(n) => \A c \in Held(n)' :
                                  c \in Held(n) \/ (c # None /\ c = Head(cmWatch[n]))
           /\ CMListed(n) => Held(n)' \subseteq Held(n)
<1>1. Copies(n)' \subseteq Copies(n) => Held(n)' \subseteq Held(n)
  BY DEF Held
<1>2. CMDelivered(n) => \A c \in Held(n)' :
                          c \in Held(n) \/ (c # None /\ c = Head(cmWatch[n]))
  BY DEF CMDelivered, Held
<1>3. QED
  BY <1>1, <1>2 DEF CMKept, CMStored, CMListed, NoNewCopy

(* What an assignment leaves of what a worker or the cache holds. *)
LEMMA AssignedHeld ==
    ASSUME TypeInv, NEW n \in Namespaces, CMAssigned(n)
    PROVE  \E w \in WorkersIn(n) : \E r, i :
             /\ wpc[w] = "WriteLeader" /\ r = job[w].cm.rv
             /\ Sending(n, r, i)'
             /\ \A c \in Held(n)' : \/ c \in Held(n)
                                    \/ c.rv = r /\ c.ip = job[w].leader
<1>1. PICK w \in WorkersIn(n) : \E r, i, ip :
        /\ wpc[w] = "WriteLeader" /\ ip = job[w].leader /\ r = job[w].cm.rv
        /\ Sending(n, r, i)'
        /\ \A p \in Copies(n)' : \E d \in Copies(n) : p = Assigned(d, r, i, ip)
  BY DEF CMAssigned
<1>2. PICK r, i, ip :
        /\ wpc[w] = "WriteLeader" /\ ip = job[w].leader /\ r = job[w].cm.rv
        /\ Sending(n, r, i)'
        /\ \A p \in Copies(n)' : \E d \in Copies(n) : p = Assigned(d, r, i, ip)
  BY <1>1
<1>3. ASSUME NEW c \in Held(n)' PROVE c \in Held(n) \/ (c.rv = r /\ c.ip = ip)
  <2>1. PICK p \in Copies(n)' : p.cm = c
    BY DEF Held
  <2>2. PICK d \in Copies(n) : p = Assigned(d, r, i, ip)
    BY <1>2
  <2>3. d.cm \in ConfigMaps /\ d.cm \in Held(n)
    BY CMTypes, HeldCopies
  <2>4. CASE d.cm.rv = r /\ d.copy = i
    BY <2>1, <2>2, <2>3, <2>4 DEF Assigned, ConfigMaps
  <2>5. CASE ~(d.cm.rv = r /\ d.copy = i)
    BY <2>1, <2>2, <2>3, <2>5 DEF Assigned
  <2>6. QED
    BY <2>4, <2>5
<1>4. QED
  BY <1>2, <1>3

LEMMA CMKnownStep ==
    ASSUME TypeInv, NEW n \in Namespaces, CMStep(n), LeaderWrite(n) PROVE KnownStep(n)
<1>1. PICK q \in Seq(CMOrNone) : q = cmWatch[n]
  BY CMTypes
<1>2. /\ cm[n] # None => cm[n].ip \in Known(n)
      /\ \A c \in Held(n) : c # None /\ c.ip \in Known(n)
      /\ \A i \in 1..Len(q) : q[i] # None => q[i].ip \in Known(n)
  BY <1>1, HeldCopies DEF Known, Objects
<1>3. ASSUME NEW S,
             cm'[n] # None => cm'[n].ip \in S,
             \A c \in Held(n)' : c.ip \in S,
             \A i \in 1..Len(cmWatch'[n]) : cmWatch'[n][i] # None => cmWatch'[n][i].ip \in S
      PROVE  Known(n)' \subseteq S
  BY <1>3 DEF Known, Objects
<1>4. CASE CMKept(n)
  <2>1. /\ cm'[n] # None => cm'[n].ip \in Known(n)
        /\ \A c \in Held(n)' : c.ip \in Known(n)
        /\ \A i \in 1..Len(cmWatch'[n]) : cmWatch'[n][i] # None => cmWatch'[n][i].ip \in Known(n)
    BY <1>1, <1>2, <1>4, HeldStep DEF CMKept, CMSame
  <2>2. QED
    BY <1>3, <2>1 DEF KnownStep
<1>5. CASE CMStored(n)
  <2>1. PICK m \in Nat : m = Len(q)
    BY <1>1
  <2>2. cm'[n] \in CMOrNone /\ \A c \in Held(n)' : c \in Held(n)
    BY <1>5, HeldStep DEF CMStored, CMOrNone
  <2>3. /\ Len(cmWatch'[n]) = m + 1 /\ cmWatch'[n][m + 1] = cm'[n]
        /\ \A i \in 1..m : cmWatch'[n][i] = q[i]
    BY <1>1, <1>5, <2>1, <2>2 DEF CMStored
  <2>4. ASSUME NEW S, Known(n) \subseteq S, cm'[n] # None => cm'[n].ip \in S
        PROVE  Known(n)' \subseteq S
    <3>1. \A c \in Held(n)' : c.ip \in S
      BY <1>2, <2>2, <2>4
    <3>2. ASSUME NEW i \in 1..(m + 1), cmWatch'[n][i] # None PROVE cmWatch'[n][i].ip \in S
      <4>1. CASE i = m + 1
        BY <2>3, <2>4, <3>2, <4>1
      <4>2. CASE i \in 1..m
        BY <1>2, <2>1, <2>3, <2>4, <3>2, <4>2
      <4>3. QED
        BY <2>1, <4>1, <4>2
    <3>3. QED
      BY <1>3, <2>3, <2>4, <3>1, <3>2
  <2>5. CASE cm'[n] = cm[n] \/ cm'[n] = None
    BY <1>2, <2>4, <2>5 DEF KnownStep
  <2>6. CASE ~(cm'[n] = cm[n] \/ cm'[n] = None)
    <3>1. PICK w \in WorkersIn(n) :
            \/ cm'[n].ip = job[w].leader /\ w \in WorkersIn(n)' /\ wpc'[w] \notin Lists
            \/ job[w].cm # None /\ cm'[n].ip = job[w].cm.ip
      BY <2>6 DEF LeaderWrite
    <3>2. CASE cm'[n].ip = job[w].leader /\ w \in WorkersIn(n)' /\ wpc'[w] \notin Lists
      <4>1. Known(n)' \subseteq Known(n) \cup {job[w].leader}
        BY <2>4, <3>2
      <4>2. QED
        BY <3>2, <4>1 DEF KnownStep
    <3>3. CASE job[w].cm # None /\ cm'[n].ip = job[w].cm.ip
      <4>1. cm'[n].ip \in Known(n)
        BY <1>2, <3>3, HeldCopies
      <4>2. QED
        BY <2>4, <4>1 DEF KnownStep
    <3>4. QED
      BY <3>1, <3>2, <3>3
  <2>7. QED
    BY <2>5, <2>6
<1>6. CASE CMDelivered(n)
  <2>1. PICK m \in Nat : m = Len(q) /\ m > 0
    BY <1>1, <1>6 DEF CMDelivered
  <2>2. /\ Len(cmWatch'[n]) = m - 1
        /\ \A i \in 1..(m - 1) : i + 1 \in 1..m /\ cmWatch'[n][i] = q[i + 1]
        /\ Head(q) = q[1] /\ 1 \in 1..m
    BY <1>1, <1>6, <2>1 DEF CMDelivered
  <2>3. \A c \in Held(n)' : c \in Held(n) \/ (c # None /\ c = q[1])
    BY <1>1, <1>6, <2>2, HeldStep DEF CMDelivered
  <2>4. /\ cm'[n] # None => cm'[n].ip \in Known(n)
        /\ \A c \in Held(n)' : c.ip \in Known(n)
        /\ \A i \in 1..Len(cmWatch'[n]) : cmWatch'[n][i] # None => cmWatch'[n][i].ip \in Known(n)
    BY <1>2, <1>6, <2>1, <2>2, <2>3 DEF CMDelivered
  <2>5. QED
    BY <1>3, <2>4 DEF KnownStep
<1>7. CASE CMAssigned(n)
  <2>1. PICK w \in WorkersIn(n) : \E r, i :
          /\ Sending(n, r, i)'
          /\ \A c \in Held(n)' : c \in Held(n) \/ (c.rv = r /\ c.ip = job[w].leader)
    BY <1>7, AssignedHeld
  <2>2. PICK v \in WorkersIn(n)' : wpc'[v] \notin Lists
    BY <2>1 DEF Sending, Lists
  <2>3. \A c \in Held(n)' : c.ip \in Known(n) \cup {job[w].leader}
    BY <1>2, <2>1
  <2>4. /\ cm'[n] # None => cm'[n].ip \in Known(n)
        /\ \A i \in 1..Len(cmWatch'[n]) : cmWatch'[n][i] # None => cmWatch'[n][i].ip \in Known(n)
    BY <1>1, <1>2, <1>7 DEF CMAssigned, CMSame
  <2>5. Known(n)' \subseteq Known(n) \cup {job[w].leader}
    BY <1>3, <2>3, <2>4
  <2>6. QED
    BY <2>2, <2>5 DEF KnownStep
<1>8. CASE CMListed(n)
  <2>1. /\ cm'[n] = cm[n] /\ Held(n)' \subseteq Held(n)
        /\ \A i \in 1..Len(cmWatch'[n]) : cmWatch'[n][i] = cm[n]
    BY <1>8, HeldStep DEF CMListed
  <2>2. QED
    BY <1>2, <1>3, <2>1 DEF KnownStep
<1>9. QED
  BY <1>4, <1>5, <1>6, <1>7, <1>8 DEF CMStep

LEMMA NextPastInv ==
    ASSUME TypeInv, TypeInv', SharedCMInv, PastInv, [Next]_vars PROVE PastInv'
<1>1. LeaderStep /\ PodIPStep /\ \A n \in Namespaces : CMStep(n)
  BY NextLeaderStep, NextPodIPStep, NextCMStep
<1>2. /\ PastIPs \subseteq PastIPs'
      /\ \A p \in Pods : pod'[p] # None => pod'[p].ip \in PastIPs'
  BY <1>1, PastIPsStep
<1>3. ASSUME NEW n \in Namespaces PROVE Known(n)' \subseteq PastIPs'
  <2>1. KnownStep(n)
    BY <1>1, CMKnownStep DEF LeaderStep
  <2>2. \A w \in WorkersIn(n) : job[w].leader \in PastIPs
    BY DEF PastInv, WorkersIn
  <2>3. QED
    BY <1>2, <2>1, <2>2 DEF KnownStep, PastInv
<1>4. ASSUME NEW w \in Workers PROVE job'[w].leader \in PastIPs'
  <2>1. RunningIPs(NsOf[wkey[w]]) \subseteq PastIPs
    BY DEF RunningIPs, RunningPods, PastInv
  <2>2. NoIP \in PastIPs /\ job[w].leader \in PastIPs
    BY DEF PastIPs, PastInv
  <2>3. QED
    BY <1>1, <1>2, <2>1, <2>2 DEF LeaderStep, LeaderJob
<1>5. QED
  BY <1>2, <1>3, <1>4 DEF PastInv

LEMMA NextLeaderInv ==
    ASSUME TypeInv, TypeInv', SharedCMInv, PastInv, LeaderInv, AloneInNamespace', [Next]_vars
    PROVE  LeaderInv'
<1> SUFFICES ASSUME NEW n \in Namespaces
             PROVE  /\ \A c \in Held(n)' : cm'[n] # None /\ c.rv = cm'[n].rv =>
                         c = cm'[n] \/ cm'[n].ip \notin RunningIPs(n)'
                    /\ \A v \in WorkersIn(n)' :
                         /\ wpc'[v] \in Lists =>
                              Known(n)' \cap RunningIPs(n)' \subseteq job'[v].running
                         /\ wpc'[v] \in UsesCM /\ cm'[n] # None /\ cm'[n].rv = job'[v].cm.rv =>
                              cm'[n].ip \notin RunningIPs(n)'
  BY DEF LeaderInv
<1>1. LeaderStep /\ CMStep(n) /\ KnownStep(n) /\ CMStream(n) /\ HeldOnce(n)
  BY NextLeaderStep, NextCMStep, CMKnownStep DEF LeaderStep, SharedCMInv
<1>2. \A x \in Known(n) : x \in RunningIPs(n)' => x \in RunningIPs(n)
  BY NextPodIPStep, PastIPsStep DEF PastInv
<1>3. /\ cm[n] \in CMOrNone /\ cmGen[n] \in Nat /\ cmWatch[n] \in Seq(CMOrNone)
      /\ \A c \in Held(n) : c # None /\ c.rv \in Nat /\ c.rv <= cmGen[n]
      /\ Held(n) \subseteq ConfigMaps
  BY <1>1, CMTypes, HeldCopies DEF HeldOnce
<1>4. cm[n] # None => cm[n].ip \in Known(n)
  BY DEF Known, Objects
<1>5. \A v \in WorkersIn(n)' : v \in Workers /\ wpc'[v] # "Get" /\ NsOf[wkey'[v]] = n
  BY DEF WorkersIn
(* Only a new version is stored, which nobody holds yet. *)
<1>6. \A c \in Held(n)' : cm'[n] # None /\ c.rv = cm'[n].rv => cm'[n] = cm[n]
  <2>1. CASE CMStored(n)
    <3>1. cm'[n] # None => cm'[n].rv = cmGen[n] + 1
      BY <2>1 DEF CMStored
    <3>2. \A c \in Held(n)' : c.rv \in Nat /\ c.rv <= cmGen[n]
      BY <1>3, <2>1, HeldStep
    <3>3. \A g, r \in Nat : r <= g => r # g + 1
      OBVIOUS
    <3>4. QED
      BY <1>3, <3>1, <3>2, <3>3
  <2>2. CASE ~CMStored(n)
    BY <1>1, <2>2 DEF CMStep, CMKept, CMDelivered, CMAssigned, CMListed, CMSame
  <2>3. QED
    BY <2>1, <2>2
<1>7. ASSUME NEW c \in Held(n)', cm'[n] # None, c.rv = cm'[n].rv,
             cm[n].ip \in RunningIPs(n)'
      PROVE  c = cm[n]
  <2>1. cm'[n] = cm[n] /\ cm[n] # None /\ c.rv = cm[n].rv /\ cm[n].ip \in RunningIPs(n)
    BY <1>2, <1>4, <1>6, <1>7
  <2>2. c \in Held(n) => c = cm[n]
    BY <2>1 DEF LeaderInv
  <2>3. CASE CMKept(n) \/ CMStored(n) \/ CMListed(n)
    BY <1>7, <2>2, <2>3, HeldStep
  <2>4. CASE CMDelivered(n)
    <3>1. Head(cmWatch[n]) = cmWatch[n][1] /\ 1 \in 1..Len(cmWatch[n])
      BY <1>3, <2>4 DEF CMDelivered
    <3>2. c \in Held(n) \/ (c # None /\ c = cmWatch[n][1])
      BY <2>4, <3>1, HeldStep
    <3>3. c # None /\ c = cmWatch[n][1] => c = cm[n]
      BY <1>1, <2>1, <3>1 DEF CMStream
    <3>4. QED
      BY <2>2, <3>2, <3>3
  <2>5. CASE CMAssigned(n)
    <3>1. PICK w \in WorkersIn(n) : \E r :
            /\ wpc[w] = "WriteLeader" /\ r = job[w].cm.rv
            /\ \A b \in Held(n)' : b \in Held(n) \/ b.rv = r
      BY <2>5, AssignedHeld
    <3>2. cm[n].rv # job[w].cm.rv
      BY <2>1, <3>1 DEF LeaderInv, UsesCM
    <3>3. QED
      BY <1>7, <2>1, <2>2, <3>1, <3>2
  <2>6. QED
    BY <1>1, <2>3, <2>4, <2>5 DEF CMStep
<1>8. ASSUME NEW v \in WorkersIn(n)', wpc'[v] \in Lists,
             NEW x \in Known(n)', x \in RunningIPs(n)'
      PROVE  x \in job'[v].running
  <2>1. x \in Known(n)
    <3>1. CASE Known(n)' \subseteq Known(n)
      BY <3>1
    <3>2. CASE ~(Known(n)' \subseteq Known(n))
      <4>1. PICK u \in WorkersIn(n)' : wpc'[u] \notin Lists
        BY <1>1, <3>2 DEF KnownStep
      <4>2. u = v
        BY DEF AloneInNamespace
      <4>3. QED
        BY <1>8, <4>1, <4>2
    <3>3. QED
      BY <3>1, <3>2
  <2>2. x \in RunningIPs(n)
    BY <1>2, <1>8, <2>1
  <2>3. /\ v \in Workers /\ wpc[v] # "Get" /\ NsOf[wkey[v]] = n
        /\ \/ wpc[v] \in Lists /\ job'[v].running = job[v].running
           \/ job'[v].running = RunningIPs(n)
    BY <1>1, <1>5, <1>8 DEF LeaderStep, LeaderJob
  <2>4. QED
    BY <2>1, <2>2, <2>3 DEF LeaderInv, WorkersIn
<1>9. ASSUME NEW v \in WorkersIn(n)', wpc'[v] \in UsesCM, cm'[n] # None,
             cm'[n].rv = job'[v].cm.rv
      PROVE  cm'[n].ip \notin RunningIPs(n)'
  <2>1. job'[v].cm # None
    BY <1>5, <1>9 DEF TypeInv, JobsOK, JobOK
  <2>2. cm'[n] = cm[n]
    <3>1. [cm |-> job'[v].cm, copy |-> job'[v].copy] \in Copies(n)'
      BY <1>9, <2>1 DEF Copies, UsesCM, WorkersIn
    <3>2. job'[v].cm \in Held(n)'
      BY <3>1 DEF Held
    <3>3. QED
      BY <1>6, <1>9, <3>2
  <2>3. /\ v \in Workers /\ wpc[v] # "Get" /\ NsOf[wkey[v]] = n
        /\ \/ wpc[v] \in UsesCM /\ job'[v].cm.rv = job[v].cm.rv
           \/ /\ wpc[v] = "FindCM" /\ job'[v].cm = cmCache[n]
              /\ job'[v].cm.ip \notin job[v].running
    BY <1>1, <1>5, <1>9 DEF LeaderStep, LeaderJob
  <2>4. v \in WorkersIn(n)
    BY <2>3 DEF WorkersIn
  <2>5. cm[n].ip \notin RunningIPs(n)
    <3>1. CASE wpc[v] \in UsesCM /\ job'[v].cm.rv = job[v].cm.rv
      BY <1>9, <2>2, <2>4, <3>1 DEF LeaderInv
    <3>2. CASE /\ wpc[v] = "FindCM" /\ job'[v].cm = cmCache[n]
               /\ job'[v].cm.ip \notin job[v].running
      <4>1. cmCache[n] \in Held(n) /\ cmCache[n].rv = cm[n].rv
        BY <1>9, <2>1, <2>2, <3>2, HeldCopies
      <4>2. cmCache[n] = cm[n] \/ cm[n].ip \notin RunningIPs(n)
        BY <1>9, <2>2, <4>1 DEF LeaderInv
      <4>3. wpc[v] \in Lists
        BY <3>2 DEF Lists
      <4>4. Known(n) \cap RunningIPs(n) \subseteq job[v].running
        BY <2>4, <4>3 DEF LeaderInv
      <4>5. QED
        BY <1>4, <1>9, <2>2, <3>2, <4>2, <4>4
    <3>3. QED
      BY <2>3, <3>1, <3>2
  <2>6. QED
    BY <1>2, <1>4, <1>9, <2>2, <2>5
<1>10. QED
  BY <1>6, <1>7, <1>8, <1>9

LEMMA InitPastInv == Init => PastInv
<1> SUFFICES ASSUME Init PROVE PastInv
  OBVIOUS
<1>1. \A n \in Namespaces : WorkersIn(n) = {} /\ cmWatch[n] = <<>>
  BY DEF Init, ClusterInit, WorkersIn
<1>2. \A n \in Namespaces : Held(n) \subseteq {cmCache[n]} /\ 1..Len(cmWatch[n]) = {}
  BY <1>1 DEF Held, Copies
<1>3. ASSUME NEW w \in Workers PROVE job[w].leader \in PastIPs
  BY DEF Init, NoJob, PastIPs
<1>4. CASE StartInit
  <2>1. \A p \in Pods : pod[p] = None
    BY <1>4 DEF StartInit
  <2>2. \A n \in Namespaces : cm[n] = None /\ cmCache[n] = None
    BY <1>4 DEF StartInit
  <2>3. \A n \in Namespaces : Known(n) = {}
    BY <1>2, <2>2 DEF Known, Objects
  <2>4. QED
    BY <1>3, <2>1, <2>3 DEF PastInv
<1>5. CASE DeployedInit
  <2>1. ASSUME NEW p \in Pods, pod[p] # None PROVE pod[p].ip \in PastIPs
    <3>1. pod[p] = IF sts[p[1]] = None \/ p[2] >= sts[p[1]].count THEN None
                   ELSE [phase |-> "Running", terminating |-> FALSE,
                         template |-> sts[p[1]].template, ip |-> <<p, 1>>]
      BY <1>5 DEF DeployedInit
    <3>2. podGen[p] = 1
      BY <1>5, <2>1 DEF DeployedInit
    <3>3. pod[p].ip = <<p, 1>>
      BY <2>1, <3>1
    <3>4. <<p, 1>> \in PodIPs /\ <<p, 1>>[2] <= podGen[<<p, 1>>[1]]
      BY <3>2 DEF PodIPs
    <3>5. QED
      BY <3>3, <3>4 DEF PastIPs
  <2>2. ASSUME NEW n \in Namespaces PROVE cmCache[n] = cm[n] /\ cm[n].ip \in PastIPs
    <3>1. PICK owner \in [Namespaces -> {k \in Keys : hab[k] # None}],
               leader \in [Namespaces -> (Pods \X {1}) \cup {NoIP}] :
            /\ \A m \in Namespaces :
                 IF RunningIPs(m) = {} THEN leader[m] = NoIP
                                       ELSE leader[m] \in RunningIPs(m)
            /\ cm = [m \in Namespaces |->
                       [rv |-> 1, ip |-> leader[m], owner |-> <<owner[m], 1>>]]
      BY <1>5 DEF DeployedInit
    <3>2. cmCache[n] = cm[n] /\ cm[n].ip = leader[n]
      BY <1>5, <3>1 DEF DeployedInit
    <3>3. NoIP \in PastIPs /\ RunningIPs(n) \subseteq PastIPs
      BY <2>1 DEF PastIPs, RunningIPs, RunningPods
    <3>4. QED
      BY <3>1, <3>2, <3>3
  <2>3. \A n \in Namespaces : Known(n) \subseteq PastIPs
    BY <1>2, <2>2 DEF Known, Objects
  <2>4. QED
    BY <1>3, <2>1, <2>3 DEF PastInv
<1>6. QED
  BY <1>4, <1>5 DEF Init

LEMMA InitLeaderInv == Init => LeaderInv
<1> SUFFICES ASSUME Init PROVE LeaderInv
  OBVIOUS
<1>1. \A n \in Namespaces : WorkersIn(n) = {}
  BY DEF Init, WorkersIn
<1>2. ASSUME NEW n \in Namespaces, NEW c \in Held(n), cm[n] # None, c.rv = cm[n].rv
      PROVE  c = cm[n]
  <2>1. PICK p \in Copies(n) : p.cm = c
    BY HeldCopies
  <2>2. QED
    BY <1>1, <1>2, <2>1, InitSharedCMInv DEF SentCMInv, Sending
<1>3. QED
  BY <1>1, <1>2 DEF LeaderInv

LEMMA OnlyDeadLeaderReplaced ==
    ASSUME TypeInv, LeaderInv, [Next]_vars, NEW n \in Namespaces,
           cm[n] # None, cm'[n] # None, cm[n].ip # cm'[n].ip
    PROVE  cm[n].ip \notin RunningIPs(n)
<1>1. PICK w \in WorkersIn(n) : wpc[w] = "UpdateCM" /\ cm[n].rv = job[w].cm.rv
  BY NextLeaderStep DEF LeaderStep, LeaderWrite
<1>2. QED
  BY <1>1 DEF LeaderInv, UsesCM

(* The IP of a running pod is not taken out of the ConfigMap, whatever      *)
(* fails, crashes or is late, as long as no two workers run conform in one *)
(* namespace at the same time (controller.go:432-487).  The condition is   *)
(* needed: two workers with two Habitats of a namespace is what the run    *)
(* LeaderRace finds.                                                       *)
THEOREM AloneKeepsLeader == Spec /\ []AloneInNamespace => LeaderNotEvicted
<1> DEFINE Keeps ==
      \A n \in Namespaces :
          cm[n] # None /\ cm'[n] # None /\ cm[n].ip # cm'[n].ip
              => cm[n].ip \notin RunningIPs(n)
<1>1. Init => PastInv /\ LeaderInv
  BY InitPastInv, InitLeaderInv
<1>2. TypeInv /\ TypeInv' /\ SharedCMInv /\ PastInv /\ LeaderInv /\ AloneInNamespace' /\ [Next]_vars
        => PastInv' /\ LeaderInv'
  BY NextPastInv, NextLeaderInv
<1>3. TypeInv /\ LeaderInv /\ [Next]_vars => [Keeps]_vars
  BY OnlyDeadLeaderReplaced
<1>4. QED
  BY <1>1, <1>2, <1>3, TypeInvariant, SharedCMInvariant, PTL DEF Spec, LeaderNotEvicted

(* A single worker runs conform in no namespace twice, so it takes out no  *)
(* running pod's IP, on every cluster: the case of the run Failures.       *)
COROLLARY OneWorkerKeepsLeader ==
    ASSUME \A v, w \in Workers : v = w PROVE Spec => LeaderNotEvicted
<1>1. AloneInNamespace
  BY DEF AloneInNamespace, WorkersIn
<1>2. QED
  BY <1>1, AloneKeepsLeader, PTL

(* Nor do any number of workers when no two Habitats share a namespace,    *)
(* since no two workers run conform for one Habitat.                       *)
COROLLARY OneHabitatKeepsLeader ==
    ASSUME \A k, l \in Keys : NsOf[k] = NsOf[l] => k = l PROVE Spec => LeaderNotEvicted
<1>1. TypeInv => AloneInNamespace
  BY DEF TypeInv, MutexInv, WorkersOK, OneWorkerPerHabitat, Holds, AloneInNamespace, WorkersIn
<1>2. QED
  BY <1>1, AloneKeepsLeader, TypeInvariant, PTL

-----------------------------------------------------------------------------
(* The peer IP when the controller has come to rest.  Each change of the    *)
(* pods that run, and each change of the ConfigMap, calls for one more run  *)
(* of conform, unless it is dismissed; and a run that changes nothing any   *)
(* more has found the ConfigMap right.                                      *)

ValidIP(ip, n) ==
    IF RunningIPs(n) = {} THEN ip = NoIP ELSE ip \in RunningIPs(n)

(* What is on its way to a store that has c: it ends with last, each item   *)
(* differs from the one before, and some item is news.                      *)
Ends(q, c, last) == IF q = <<>> THEN c = last ELSE q[Len(q)] = last
Changes(q) == \A i \in 1..(Len(q) - 1) : q[i] # q[i + 1]
News(q, c) == q # <<>> /\ (Len(q) > 1 \/ Head(q) # c)

PodNews(p) == News(podWatch[p], podCache[p])

PodStream(p) == Ends(podWatch[p], podCache[p], PhaseOf(p)) /\ Changes(podWatch[p])

LEMMA AppendStream ==
    ASSUME NEW T, NEW q \in Seq(T), NEW c, NEW old, NEW new \in T,
           Ends(q, c, old), Changes(q), new # old
    PROVE  /\ Ends(Append(q, new), c, new) /\ Changes(Append(q, new))
           /\ News(Append(q, new), c)
<1>1. PICK m \in Nat : m = Len(q)
  OBVIOUS
<1>2. PICK r \in Seq(T) : r = Append(q, new)
  <2>1. Append(q, new) \in Seq(T)
    OBVIOUS
  <2>2. QED
    BY <2>1
<1>3. /\ Len(r) = m + 1 /\ r[m + 1] = new /\ r # <<>>
      /\ \A i \in 1..m : r[i] = q[i]
  BY <1>1, <1>2
<1>4. m = 0 => q = <<>> /\ Head(r) = new
  BY <1>1, <1>2, <1>3
<1>5. m > 0 => q # <<>>
  BY <1>1
<1>6. Ends(r, c, new)
  BY <1>3 DEF Ends
<1>7. Changes(r)
  <2>1. ASSUME NEW i \in 1..(m + 1 - 1) PROVE r[i] # r[i + 1]
    <3>1. CASE i = m
      <4>1. q[m] = old
        BY <1>1, <1>5, <3>1 DEF Ends
      <4>2. QED
        BY <1>3, <3>1, <4>1
    <3>2. CASE i \in 1..(m - 1)
      <4>1. q[i] # q[i + 1] /\ i \in 1..m /\ i + 1 \in 1..m
        BY <1>1, <3>2 DEF Changes
      <4>2. QED
        BY <1>3, <4>1
    <3>3. QED
      BY <3>1, <3>2
  <2>2. QED
    BY <1>3, <2>1 DEF Changes
<1>8. News(r, c)
  BY <1>1, <1>3, <1>4 DEF News, Ends
<1>9. QED
  BY <1>2, <1>6, <1>7, <1>8

LEMMA TailStream ==
    ASSUME NEW T, NEW q \in Seq(T), q # <<>>, NEW c, NEW last,
           Ends(q, c, last), Changes(q)
    PROVE  /\ Ends(Tail(q), Head(q), last) /\ Changes(Tail(q))
           /\ News(q, c) => News(Tail(q), Head(q)) \/ Head(q) # c
<1>1. PICK m \in Nat : m = Len(q) /\ m > 0
  OBVIOUS
<1>2. PICK r \in Seq(T) : r = Tail(q)
  BY HeadTailType
<1>3. /\ Len(r) = m - 1 /\ Head(q) = q[1]
      /\ \A i \in 1..(m - 1) : r[i] = q[i + 1]
  BY <1>1, <1>2
<1>4. r = <<>> <=> m = 1
  BY <1>1, <1>3
<1>5. q[m] = last
  BY <1>1 DEF Ends
<1>6. Ends(r, Head(q), last)
  BY <1>1, <1>3, <1>4, <1>5 DEF Ends
<1>7. Changes(r)
  <2>1. ASSUME NEW i \in 1..(m - 1 - 1) PROVE r[i] # r[i + 1]
    <3>1. i + 1 \in 1..(m - 1) /\ i \in 1..(m - 1)
      BY <1>1, <2>1
    <3>2. q[i + 1] # q[i + 1 + 1]
      BY <1>1, <3>1 DEF Changes
    <3>3. QED
      BY <1>3, <3>1, <3>2
  <2>2. QED
    BY <1>3, <2>1 DEF Changes
<1>8. ASSUME m > 1 PROVE News(r, Head(q))
  <2>1. q[1] # q[1 + 1] /\ r[1] = q[1 + 1]
    BY <1>1, <1>3, <1>8 DEF Changes
  <2>2. r # <<>> /\ Head(r) = r[1]
    BY <1>4, <1>8
  <2>3. QED
    BY <1>3, <2>1, <2>2 DEF News
<1>9. News(q, c) => m > 1 \/ Head(q) # c
  BY <1>1 DEF News
<1>10. QED
  BY <1>2, <1>6, <1>7, <1>8, <1>9

(* What a step does to pod p and to the news of it.                         *)
SamePod(p) ==
    /\ PhaseOf(p)' = PhaseOf(p)
    /\ pod'[p] # None => pod[p] # None /\ pod'[p].ip = pod[p].ip

PodMoves(p) ==
    /\ podCache'[p] = podCache[p]
    /\ \/ SamePod(p) /\ podWatch'[p] = podWatch[p]
       \/ /\ PhaseOf(p)' # PhaseOf(p) /\ PhaseOf(p)' \in Phases
          /\ podWatch'[p] = Append(podWatch[p], PhaseOf(p)')

PodDelivered(p) ==
    /\ SamePod(p) /\ podWatch[p] # <<>>
    /\ podWatch'[p] = Tail(podWatch[p]) /\ podCache'[p] = Head(podWatch[p])

PodListed(p) ==
    /\ SamePod(p)
    /\ podWatch'[p] = IF pod[p] = None THEN <<>> ELSE <<PhaseOf(p)>>
    /\ podCache'[p] = "None" \/ (pod[p] # None /\ podCache'[p] = podCache[p])

PodFlow(p) == PodMoves(p) \/ PodDelivered(p) \/ PodListed(p)

LEMMA PodMovesNews ==
    ASSUME TypeInv, NEW p \in Pods, PodMoves(p), PodStream(p)
    PROVE  /\ PodStream(p)' /\ (SamePod(p) \/ PodNews(p)')
           /\ PodNews(p) => PodNews(p)'
<1>1. podWatch[p] \in Seq(Phases)
  BY DEF TypeInv, ClusterTypeOK, Phases
<1>2. CASE SamePod(p) /\ podWatch'[p] = podWatch[p]
  BY <1>2 DEF PodMoves, SamePod, PodStream, PodNews
<1>3. CASE /\ PhaseOf(p)' # PhaseOf(p) /\ PhaseOf(p)' \in Phases
           /\ podWatch'[p] = Append(podWatch[p], PhaseOf(p)')
  <2>1. PICK new \in Phases : new = PhaseOf(p)' /\ new # PhaseOf(p)
    BY <1>3
  <2>2. /\ Ends(Append(podWatch[p], new), podCache[p], new)
        /\ Changes(Append(podWatch[p], new)) /\ News(Append(podWatch[p], new), podCache[p])
    BY <1>1, <2>1, AppendStream DEF PodStream
  <2>3. podWatch'[p] = Append(podWatch[p], new) /\ podCache'[p] = podCache[p]
    BY <1>3, <2>1 DEF PodMoves
  <2>4. QED
    BY <2>1, <2>2, <2>3 DEF PodStream, PodNews
<1>4. QED
  BY <1>2, <1>3 DEF PodMoves

LEMMA PodFlowStream ==
    ASSUME TypeInv, NEW p \in Pods, PodFlow(p), PodStream(p)
    PROVE  PodStream(p)' /\ (SamePod(p) \/ PodNews(p)')
<1>1. podWatch[p] \in Seq(Phases)
  BY DEF TypeInv, ClusterTypeOK, Phases
<1>2. CASE PodDelivered(p)
  <2>1. /\ Ends(Tail(podWatch[p]), Head(podWatch[p]), PhaseOf(p))
        /\ Changes(Tail(podWatch[p]))
    BY <1>1, <1>2, TailStream DEF PodDelivered, PodStream
  <2>2. QED
    BY <1>2, <2>1 DEF PodDelivered, SamePod, PodStream
<1>3. CASE PodListed(p)
  <2>1. PICK x : x = PhaseOf(p) /\ x = PhaseOf(p)'
    BY <1>3 DEF PodListed, SamePod
  <2>2. CASE pod[p] = None
    <3>1. podWatch'[p] = <<>> /\ podCache'[p] = "None" /\ x = "None"
      BY <1>3, <2>1, <2>2 DEF PodListed, PhaseOf
    <3>2. Len(<<>>) = 0
      OBVIOUS
    <3>3. Ends(<<>>, x, x) /\ Changes(<<>>)
      BY <3>2 DEF Ends, Changes
    <3>4. QED
      BY <1>3, <2>1, <3>1, <3>3 DEF PodListed, PodStream
  <2>3. CASE pod[p] # None
    <3>1. podWatch'[p] = <<x>>
      BY <1>3, <2>1, <2>3 DEF PodListed
    <3>2. Len(<<x>>) = 1 /\ <<x>>[1] = x /\ <<x>> # <<>>
      OBVIOUS
    <3>3. Ends(<<x>>, podCache'[p], x) /\ Changes(<<x>>)
      BY <3>2 DEF Ends, Changes
    <3>4. QED
      BY <1>3, <2>1, <3>1, <3>3 DEF PodListed, PodStream
  <2>4. QED
    BY <2>2, <2>3
<1>4. QED
  BY <1>2, <1>3, PodMovesNews DEF PodFlow

LEMMA SamePodMoves ==
    ASSUME UNCHANGED <<pod, podWatch, podCache>>, NEW p PROVE PodMoves(p)
BY DEF PodMoves, SamePod, PhaseOf

LEMMA DeletedPodsMove ==
    ASSUME TypeInv, NEW gone, \A q \in gone : pod[q] # None, DeletePods(gone),
           podCache' = podCache, NEW p \in Pods
    PROVE  PodMoves(p)
<1>1. pod \in [Pods -> PodOrNone] /\ None \notin PodObjects
  BY ClusterAssumption DEF TypeInv, ClusterTypeOK, PodOrNone, ClusterAssumption
<1>2. CASE p \notin gone
  BY <1>1, <1>2 DEF DeletePods, PodMoves, SamePod, PhaseOf
<1>3. CASE p \in gone /\ pod[p].phase = "Pending"
  <2>1. pod'[p] = None /\ podWatch'[p] = Append(podWatch[p], "None") /\ pod[p] # None
    BY <1>3 DEF DeletePods
  <2>2. PhaseOf(p)' = "None" /\ PhaseOf(p) = "Pending"
    BY <1>3, <2>1 DEF PhaseOf
  <2>3. QED
    BY <2>1, <2>2 DEF PodMoves, Phases
<1>4. CASE p \in gone /\ pod[p].phase # "Pending"
  <2>1. /\ pod'[p] = [pod[p] EXCEPT !.terminating = TRUE] /\ podWatch'[p] = podWatch[p]
        /\ pod[p] \in PodObjects
    BY <1>1, <1>4 DEF DeletePods, PodOrNone
  <2>2. pod'[p] \in PodObjects /\ pod'[p].phase = pod[p].phase /\ pod'[p].ip = pod[p].ip
    BY <2>1 DEF PodObjects
  <2>3. QED
    BY <1>1, <2>1, <2>2 DEF PodMoves, SamePod, PhaseOf
<1>5. QED
  BY <1>2, <1>3, <1>4

LEMMA PodStepMoves ==
    ASSUME TypeInv, NEW q \in Pods, StartPod(q) \/ PodRuns(q) \/ PodGone(q),
           podCache' = podCache, NEW p \in Pods
    PROVE  PodMoves(p)
<1>1. /\ pod \in [Pods -> PodOrNone] /\ None \notin PodObjects
      /\ podWatch \in [Pods -> Seq(Phases)]
  BY ClusterAssumption DEF TypeInv, ClusterTypeOK, PodOrNone, ClusterAssumption, Phases
<1>2. \E phase \in Phases : \E x :
        /\ pod' = [pod EXCEPT ![q] = x] /\ podWatch' = [podWatch EXCEPT ![q] = Append(@, phase)]
        /\ phase = IF x = None THEN "None" ELSE x.phase
        /\ phase # PhaseOf(q)
  <2>1. CASE StartPod(q)
    <3>1. PICK x : /\ x = [phase |-> "Pending", terminating |-> FALSE,
                           template |-> sts[q[1]].template, ip |-> NoIP]
                   /\ pod' = [pod EXCEPT ![q] = x]
      BY <2>1 DEF StartPod
    <3>2. /\ podWatch' = [podWatch EXCEPT ![q] = Append(@, "Pending")]
          /\ PhaseOf(q) = "None"
      BY <2>1 DEF StartPod, PhaseOf
    <3>3. x # None
      <4>1. sts[q[1]] \in StatefulSets
        <5>1. q[1] \in Keys /\ sts[q[1]] # None
          BY <2>1 DEF StartPod, Pods
        <5>2. QED
          BY <5>1 DEF TypeInv, ClusterTypeOK
      <4>2. x \in PodObjects
        BY <3>1, <4>1 DEF PodObjects, StatefulSets
      <4>3. QED
        BY <1>1, <4>2
    <3>4. x.phase = "Pending" /\ "Pending" \in Phases
      BY <3>1 DEF Phases
    <3>5. QED
      BY <3>1, <3>2, <3>3, <3>4
  <2>2. CASE PodRuns(q)
    <3>1. /\ pod[q] # None /\ pod[q].phase = "Pending"
          /\ pod' = [pod EXCEPT ![q] = [pod[q] EXCEPT !.phase = "Running",
                                                      !.ip = <<q, podGen[q] + 1>>]]
          /\ podWatch' = [podWatch EXCEPT ![q] = Append(@, "Running")]
      BY <1>1, <2>2 DEF PodRuns
    <3>2. pod[q] \in PodObjects /\ podGen[q] \in Nat
      BY <1>1, <3>1 DEF PodOrNone, TypeInv, ClusterTypeOK
    <3>3. <<q, podGen[q] + 1>> \in PodIPs
      BY <3>2 DEF PodIPs
    <3>4. PICK x : /\ x = [pod[q] EXCEPT !.phase = "Running", !.ip = <<q, podGen[q] + 1>>]
                   /\ pod' = [pod EXCEPT ![q] = x]
      BY <3>1
    <3>5. x \in PodObjects /\ x.phase = "Running"
      BY <3>2, <3>3, <3>4 DEF PodObjects
    <3>6. PhaseOf(q) = "Pending" /\ x # None /\ "Running" \in Phases
      BY <1>1, <3>1, <3>5 DEF PhaseOf, Phases
    <3>7. QED
      BY <3>1, <3>4, <3>5, <3>6
  <2>3. CASE PodGone(q)
    <3>1. /\ pod[q] # None /\ pod' = [pod EXCEPT ![q] = None]
          /\ podWatch' = [podWatch EXCEPT ![q] = Append(@, "None")]
      BY <2>3 DEF PodGone
    <3>2. pod[q] \in PodObjects
      BY <1>1, <3>1 DEF PodOrNone
    <3>3. PhaseOf(q) # "None" /\ "None" \in Phases
      BY <3>1, <3>2 DEF PhaseOf, PodObjects, Phases
    <3>4. QED
      BY <3>1, <3>3
  <2>4. QED
    BY <2>1, <2>2, <2>3
<1>3. CASE p # q
  BY <1>1, <1>2, <1>3 DEF PodMoves, SamePod, PhaseOf
<1>4. CASE p = q
  <2>1. PICK phase \in Phases : \E x :
          /\ pod' = [pod EXCEPT ![q] = x] /\ podWatch' = [podWatch EXCEPT ![q] = Append(@, phase)]
          /\ phase = IF x = None THEN "None" ELSE x.phase
          /\ phase # PhaseOf(q)
    BY <1>2
  <2>2. podWatch'[p] = Append(podWatch[p], phase) /\ PhaseOf(p)' = phase /\ phase # PhaseOf(p)
    BY <1>1, <1>4, <2>1 DEF PhaseOf
  <2>3. podWatch'[p] = Append(podWatch[p], PhaseOf(p)') /\ PhaseOf(p)' \in Phases
    BY <2>2
  <2>4. QED
    BY <2>2, <2>3 DEF PodMoves
<1>5. QED
  BY <1>3, <1>4

LEMMA PodEventFlow ==
    ASSUME TypeInv, NEW q \in Pods, PodEvent(q), NEW p \in Pods
    PROVE  IF p = q THEN PodDelivered(p) ELSE PodMoves(p)
<1>1. /\ podCache \in [Pods -> Phases] /\ podWatch \in [Pods -> Seq(Phases)]
  BY DEF TypeInv, ClusterTypeOK, InformersOK, Phases
<1>2. /\ pod' = pod /\ podWatch[q] # <<>>
      /\ podCache' = [podCache EXCEPT ![q] = Head(podWatch[q])]
      /\ podWatch' = [podWatch EXCEPT ![q] = Tail(@)]
  BY DEF PodEvent, objectVars
<1>3. CASE p # q
  BY <1>1, <1>2, <1>3 DEF PodMoves, SamePod, PhaseOf
<1>4. CASE p = q
  BY <1>1, <1>2, <1>4 DEF PodDelivered, SamePod, PhaseOf
<1>5. QED
  BY <1>3, <1>4

(* How the pods and the news of them change in a step.                      *)
LEMMA NextPodFlow ==
    ASSUME TypeInv, [Next]_vars, NEW p \in Pods
    PROVE  \/ PodMoves(p)
           \/ PodEvent(p) /\ PodDelivered(p)
           \/ (RelistPods \/ Crash) /\ PodListed(p)
<1> USE DEF informerVars, clusterVars, objectVars, watchVars
<1>1. ASSUME NEW k, RemoveSts(k), podCache' = podCache PROVE PodMoves(p)
  BY <1>1, DeletedPodsMove DEF RemoveSts, PodsOf
<1>2. ASSUME NEW q \in Pods, pod[q] # None, DeletePods({q}), podCache' = podCache
      PROVE  PodMoves(p)
  BY <1>2, DeletedPodsMove
<1>3. CASE ClusterStep
  <2>1. podCache' = podCache
    BY <1>3 DEF ClusterStep, ControllerStutters
  <2>2. ASSUME NEW k \in Keys, TamperSts(k) PROVE PodMoves(p)
    BY <1>1, <2>1, <2>2, SamePodMoves DEF TamperSts
  <2>3. ASSUME NEW k \in Keys, CreateHab(k) \/ EditHab(k) \/ DeleteHab(k) \/ ToggleSecret(k)
        PROVE  PodMoves(p)
    <3>1. UNCHANGED <<pod, podWatch>>
      BY <2>3, Zenon DEF CreateHab, EditHab, DeleteHab, ToggleSecret
    <3>2. QED
      BY <2>1, <3>1, SamePodMoves
  <2>4. ASSUME NEW q \in Pods, KillPod(q) \/ ScaleDown(q) PROVE PodMoves(p)
    BY <1>2, <2>1, <2>4 DEF KillPod, ScaleDown
  <2>5. ASSUME NEW q \in Pods, PodStep(q) PROVE PodMoves(p)
    BY <2>1, <2>4, <2>5, PodStepMoves DEF PodStep
  <2>6. ASSUME NEW k \in Keys, CollectSts(k) PROVE PodMoves(p)
    BY <1>1, <2>1, <2>6 DEF CollectSts
  <2>7. ASSUME NEW n \in Namespaces, CollectCM(n) PROVE PodMoves(p)
    BY <2>1, <2>7, SamePodMoves DEF CollectCM
  <2>8. QED
    BY <1>3, <2>2, <2>3, <2>4, <2>5, <2>6, <2>7 DEF ClusterStep, UserStep
<1>4. ASSUME NEW w \in Workers, DeleteStsPods(w) PROVE PodMoves(p)
  <2>1. podCache' = podCache /\ \E gone \in SUBSET PodsOf(wkey[w]) : DeletePods(gone)
    <3>1. PodsOf(wkey[w]) \in SUBSET PodsOf(wkey[w])
      OBVIOUS
    <3>2. QED
      BY <1>4, <3>1 DEF DeleteStsPods
  <2>2. QED
    BY <2>1, DeletedPodsMove DEF PodsOf
<1>5. ASSUME NEW w \in Workers, WorkerStep(w) \/ ApiCallFails(w), ~DeleteStsPods(w)
      PROVE  PodMoves(p)
  <2>1. UNCHANGED <<pod, podWatch, podCache>>
    BY <1>5 DEF WorkerStep, ApiCallFails, TakeItem, LookupHab, GetSecrets, CreateSts, GetSts,
       UpdateSts, ListRunningPods, CreateCM, FindCM, WriteLeader, UpdateCM, Requeue, FinishItem
  <2>2. QED
    BY <2>1, SamePodMoves
<1>6. CASE RelistPods \/ Crash
  <2>1. PodListed(p)
    BY <1>6 DEF RelistPods, Crash, ListPods, PodListed, SamePod, PhaseOf
  <2>2. QED
    BY <1>6, <2>1
<1>7. ASSUME NEW q \in Pods, PodEvent(q)
      PROVE  PodMoves(p) \/ (PodEvent(p) /\ PodDelivered(p))
  BY <1>7, PodEventFlow
<1>8. CASE \/ \E k \in Keys : HabEvent(k) \/ StsEvent(k) \/ StsStatusEvent(k) \/ WaitingLoopFires(k)
           \/ \E n \in Namespaces : \/ CMEvent(n) \/ CMResync(n)
                                    \/ \E k \in Keys : CMEnqueues(n, k)
           \/ RelistHabs \/ RelistCMs \/ RelistSts \/ WaitingLoopReceives \/ UNCHANGED vars
  <2>1. UNCHANGED <<pod, podWatch, podCache>>
    BY <1>8 DEF HabEvent, StsEvent, StsStatusEvent, CMEvent, CMResync, CMEnqueues,
       RelistHabs, RelistCMs, RelistSts, WaitingLoopReceives, WaitingLoopFires, vars
  <2>2. QED
    BY <2>1, SamePodMoves
<1>9. QED
  BY <1>3, <1>4, <1>5, <1>6, <1>7, <1>8 DEF Next, InformerStep

LEMMA NextPodStream ==
    ASSUME TypeInv, [Next]_vars, NEW p \in Pods, PodStream(p)
    PROVE  PodStream(p)' /\ (SamePod(p) \/ PodNews(p)')
BY NextPodFlow, PodFlowStream DEF PodFlow

(* Pods that stay as they are have the same IPs.                            *)
LEMMA SameRunning ==
    ASSUME TypeInv, TypeInv', NEW n, \A p \in Pods : NsOf[p[1]] = n => SamePod(p)
    PROVE  RunningIPs(n)' = RunningIPs(n)
<1>1. /\ pod \in [Pods -> PodOrNone] /\ pod' \in [Pods -> PodOrNone]
      /\ \A x \in PodObjects : x # None /\ x.phase # "None"
  BY ClusterAssumption DEF TypeInv, ClusterTypeOK, PodOrNone, ClusterAssumption, PodObjects
<1>2. ASSUME NEW p \in Pods, NsOf[p[1]] = n
      PROVE  /\ pod'[p] = None <=> pod[p] = None
             /\ pod[p] # None => pod'[p].ip = pod[p].ip /\ pod'[p].phase = pod[p].phase
  <2>1. PhaseOf(p)' = PhaseOf(p) /\ (pod'[p] # None => pod[p] # None /\ pod'[p].ip = pod[p].ip)
    BY <1>2 DEF SamePod
  <2>2. /\ pod[p] # None => pod[p].phase # "None"
        /\ pod'[p] # None => pod'[p].phase # "None"
    BY <1>1 DEF PodOrNone
  <2>3. QED
    BY <2>1, <2>2 DEF PhaseOf
<1>3. RunningPods(n)' = RunningPods(n)
  BY <1>2 DEF RunningPods
<1>4. \A p \in RunningPods(n) : pod'[p].ip = pod[p].ip
  BY <1>2 DEF RunningPods
<1>5. QED
  BY <1>3, <1>4 DEF RunningIPs

-----------------------------------------------------------------------------
(* A namespace calls for a run of conform as long as a Habitat of it is     *)
(* marked or is about to be, or news of a pod is on its way.  It calls too  *)
(* when it has no Habitat of the operator's own: the first will be marked.  *)
Alerted(k) == Marked(k) \/ \E m \in Namespaces : k \in cmTodo[m]

Called(n) ==
    \/ \A k \in Keys : NsOf[k] = n => ~Own(habCache[k])
    \/ \E k \in Keys : NsOf[k] = n /\ Alerted(k)
    \/ \E p \in Pods : NsOf[p[1]] = n /\ PodNews(p)

(* News of pods that reaches no handler. *)
PodEventsLost == RelistPods /\ \E p \in Pods : podWatch[p] # <<>>

(* A wakeup is dismissed because the Habitat it is about is gone, or not    *)
(* the operator's, although another Habitat of the namespace shares its     *)
(* ConfigMap.                                                               *)
Dismissed(k) ==
    /\ \/ \E w \in Workers : LookupHab(w) /\ wkey[w] = k /\ habCache[k] = None
       \/ \E p \in Pods : PodEvent(p) /\ p[1] = k /\ PodNews(p) /\ ~Own(habCache[k])
    /\ \E j \in Keys \ {k} : NsOf[j] = NsOf[k] /\ Own(habCache[j])

(* Worker w takes a Habitat of namespace n. *)
Takes(w, n) == TakeItem(w) /\ wkey'[w] \in Keys /\ NsOf[wkey'[w]] = n

(* Workers touch no cache but that of the ConfigMaps. *)
LEMMA WorkersLeaveCaches ==
    ASSUME NEW w, WorkerStep(w) \/ ApiCallFails(w)
    PROVE  UNCHANGED <<habCache, podCache, cmTodo>>
BY Zenon DEF WorkerStep, ApiCallFails, TakeItem, LookupHab, GetSecrets, CreateSts, GetSts,
       UpdateSts, DeleteStsPods, ListRunningPods, CreateCM, FindCM, WriteLeader, UpdateCM,
       Requeue, FinishItem, informerVars

LEMMA WorkersLeaveQueue ==
    ASSUME NEW w, WorkerStep(w) \/ ApiCallFails(w),
           ~TakeItem(w), ~Requeue(w), ~FinishItem(w)
    PROVE  UNCHANGED queueVars
BY Zenon DEF WorkerStep, ApiCallFails, LookupHab, GetSecrets, CreateSts, GetSts,
       UpdateSts, DeleteStsPods, ListRunningPods, CreateCM, FindCM, WriteLeader, UpdateCM

LEMMA WorkerMarks ==
    ASSUME TypeInv, shuttingDown = FALSE, NEW w \in Workers,
           WorkerStep(w) \/ ApiCallFails(w), NEW k \in Keys, Marked(k)
    PROVE  Marked(k)' \/ Takes(w, NsOf[k])
<1>1. QInv
  BY DEF TypeInv, MutexInv
<1>2. CASE TakeItem(w)
  <2>1. PICK j \in Keys : Get(j) /\ wkey' = [wkey EXCEPT ![w] = j]
    BY <1>2 DEF TakeItem
  <2>2. wkey'[w] = j
    BY <2>1 DEF TypeInv, MutexInv, WorkersOK
  <2>3. QED
    BY <1>2, <2>1, <2>2, GetMarks DEF Takes
<1>3. CASE Requeue(w)
  <2>1. wkey[w] \in Keys /\ AddRateLimited(wkey[w])
    BY <1>3 DEF Requeue, TypeInv, MutexInv, WorkersOK
  <2>2. QED
    BY <1>1, <2>1, AddRateLimitedMarks
<1>4. CASE FinishItem(w)
  BY <1>4, DoneMarks DEF FinishItem
<1>5. CASE ~(TakeItem(w) \/ Requeue(w) \/ FinishItem(w))
  BY <1>5, WorkersLeaveQueue, SameQueueMarks
<1>6. QED
  BY <1>2, <1>3, <1>4, <1>5

(* Only a worker that takes a Habitat ends its being called for, and a      *)
(* crash, after which everything is called for.                             *)
LEMMA NextAlerts ==
    ASSUME TypeInv, shuttingDown = FALSE, [Next]_vars, ~Crash, NEW k \in Keys, Alerted(k)
    PROVE  Alerted(k)' \/ \E w \in Workers : Takes(w, NsOf[k])
<1> USE DEF informerVars, clusterVars
<1>1. cmTodo \in [Namespaces -> SUBSET Keys] /\ QInv
  BY DEF TypeInv, InformersOK, MutexInv
<1>2. ASSUME cmTodo' = cmTodo, UNCHANGED queueVars PROVE Alerted(k)'
  BY <1>2, SameQueueMarks DEF Alerted
<1>3. ASSUME cmTodo' = cmTodo, \/ UNCHANGED queueVars
                               \/ \E j \in Keys : Add(j) \/ enqueueOwner(j) \/ \E h : enqueue(j, h)
      PROVE  Alerted(k)'
  BY <1>2, <1>3, EnqueueMarks DEF Alerted
<1>4. ASSUME NEW w \in Workers, WorkerStep(w) \/ ApiCallFails(w)
      PROVE  Alerted(k)' \/ Takes(w, NsOf[k])
  <2>1. cmTodo' = cmTodo
    BY <1>4, WorkersLeaveCaches
  <2>2. Marked(k) => Marked(k)' \/ Takes(w, NsOf[k])
    BY <1>4, WorkerMarks
  <2>3. QED
    BY <2>1, <2>2 DEF Alerted
<1>5. ASSUME NEW j \in Keys, HabEvent(j) \/ StsEvent(j) \/ StsStatusEvent(j) PROVE Alerted(k)'
  <2>1. cmTodo' = cmTodo
    BY <1>5 DEF HabEvent, StsEvent, StsStatusEvent
  <2>2. \/ UNCHANGED queueVars \/ enqueueOwner(j) \/ \E h : enqueue(j, h)
    BY <1>5 DEF HabEvent, StsEvent, StsStatusEvent
  <2>3. QED
    BY <1>3, <2>1, <2>2
<1>6. ASSUME NEW p \in Pods, PodEvent(p) PROVE Alerted(k)'
  <2>1. PICK j \in Keys : j = p[1]
    BY DEF Pods
  <2>2. cmTodo' = cmTodo /\ (UNCHANGED queueVars \/ enqueueOwner(j))
    BY <1>6, <2>1 DEF PodEvent
  <2>3. QED
    BY <1>3, <2>2
<1>7. ASSUME NEW m \in Namespaces, CMEvent(m) \/ CMResync(m) PROVE Alerted(k)'
  <2>1. UNCHANGED queueVars /\ cmTodo' = [cmTodo EXCEPT ![m] = @ \cup HabitatsIn(m)]
    BY <1>7 DEF CMEvent, CMResync
  <2>2. \A l \in Namespaces : k \in cmTodo[l] => k \in cmTodo'[l]
    BY <1>1, <2>1
  <2>3. QED
    BY <2>1, <2>2, SameQueueMarks DEF Alerted
<1>8. ASSUME NEW m \in Namespaces, NEW j \in Keys, CMEnqueues(m, j) PROVE Alerted(k)'
  <2>1. Add(j) /\ cmTodo' = [cmTodo EXCEPT ![m] = @ \ {j}]
    BY <1>8 DEF CMEnqueues
  <2>2. k # j => \A l \in Namespaces : k \in cmTodo[l] => k \in cmTodo'[l]
    BY <1>1, <2>1
  <2>3. QED
    BY <2>1, <2>2, AddMarks DEF Alerted
<1>9. CASE RelistHabs \/ RelistCMs \/ RelistPods \/ RelistSts \/ ClusterStep \/ UNCHANGED vars
  BY <1>2, <1>9 DEF RelistHabs, RelistCMs, RelistPods, RelistSts, ClusterStep, ControllerStutters, vars
<1>10. CASE WaitingLoopReceives
  BY <1>1, <1>10, ReceiveWaitingMarks DEF WaitingLoopReceives, Alerted
<1>11. ASSUME NEW j \in Keys, WaitingLoopFires(j) PROVE Alerted(k)'
  BY <1>11, FireWaitingMarks DEF WaitingLoopFires, Alerted
<1>12. QED
  BY <1>4, <1>5, <1>6, <1>7, <1>8, <1>9, <1>10, <1>11 DEF Next, InformerStep

(* A Habitat that becomes the operator's own is marked. *)
LEMMA NextOwn ==
    ASSUME TypeInv, shuttingDown = FALSE, [Next]_vars, NEW k \in Keys, ~HandedOver(k),
           Own(habCache'[k])
    PROVE  Own(habCache[k]) \/ Alerted(k)'
<1> USE DEF informerVars, clusterVars
<1>1. ASSUME NEW j \in Keys, HabEvent(j) PROVE Own(habCache[k]) \/ Alerted(k)'
  <2>1. PICK old, new : old = habCache[j] /\ new = Head(habWatch[j])
    OBVIOUS
  <2>2. /\ habCache' = [habCache EXCEPT ![j] = new]
        /\ IF new = None
             THEN IF old = None THEN UNCHANGED queueVars ELSE enqueue(j, old)
             ELSE IF old = None \/ habitatNeedsUpdate(old, new)
                    THEN enqueue(j, new)
                    ELSE UNCHANGED queueVars
    BY <1>1, <2>1 DEF HabEvent
  <2>3. k # j => habCache'[k] = habCache[k]
    BY <2>2 DEF TypeInv, InformersOK
  <2>4. ASSUME k = j, ~Own(old) PROVE Alerted(k)'
    <3>1. habCache'[k] = new /\ new # None /\ new.custom
      BY <2>2, <2>4 DEF TypeInv, InformersOK, Own
    <3>2. old = None \/ habitatNeedsUpdate(old, new)
      BY <2>1, <2>4, <3>1 DEF habitatNeedsUpdate, HandedOver, Own
    <3>3. Add(k)
      BY <2>2, <2>4, <3>1, <3>2 DEF enqueue
    <3>4. QED
      BY <3>3, AddMarks DEF Alerted
  <2>5. QED
    BY <2>1, <2>3, <2>4
<1>2. CASE RelistHabs
  BY <1>2 DEF RelistHabs, Own
<1>3. CASE Crash
  BY <1>3 DEF Crash, Own
<1>4. ASSUME ~RelistHabs, ~Crash, ~\E j \in Keys : HabEvent(j) PROVE habCache' = habCache
  BY <1>4, WorkersLeaveCaches DEF Next, InformerStep, StsEvent, StsStatusEvent, CMEvent,
     CMResync, CMEnqueues, PodEvent, RelistCMs, RelistPods, RelistSts, WaitingLoopReceives, WaitingLoopFires,
     ClusterStep, ControllerStutters, vars
<1>5. QED
  BY <1>1, <1>2, <1>3, <1>4

(* News of a pod is passed on, or dismissed. *)
LEMMA NextNews ==
    ASSUME TypeInv, shuttingDown = FALSE, [Next]_vars, ~Crash, ~PodEventsLost,
           NEW p \in Pods, ~Dismissed(p[1]), PodStream(p), PodNews(p)
    PROVE  Called(NsOf[p[1]])'
<1>1. PICK k \in Keys : k = p[1]
  BY DEF Pods
<1>2. CASE PodMoves(p)
  BY <1>2, PodMovesNews DEF Called
<1>3. CASE PodEvent(p) /\ PodDelivered(p)
  <2>1. podWatch[p] \in Seq(Phases) /\ podWatch[p] # <<>>
    BY <1>3 DEF TypeInv, ClusterTypeOK, Phases, PodDelivered
  <2>2. News(Tail(podWatch[p]), Head(podWatch[p])) \/ Head(podWatch[p]) # podCache[p]
    BY <2>1, TailStream DEF PodStream, PodNews
  <2>3. CASE News(Tail(podWatch[p]), Head(podWatch[p]))
    BY <1>3, <2>3 DEF PodDelivered, PodNews, Called
  <2>4. CASE Head(podWatch[p]) # podCache[p]
    <3>1. enqueueOwner(k) /\ habCache' = habCache
      BY <1>1, <1>3, <2>4 DEF PodEvent, podNeedsUpdate
    <3>2. CASE Own(habCache[k])
      <4>1. Add(k)
        BY <3>1, <3>2 DEF enqueueOwner, enqueue, Own
      <4>2. QED
        BY <1>1, <4>1, AddMarks DEF Called, Alerted
    <3>3. CASE ~Own(habCache[k])
      <4>1. \A j \in Keys : NsOf[j] = NsOf[k] => ~Own(habCache[j])
        BY <1>1, <1>3, <3>3 DEF Dismissed
      <4>2. QED
        BY <1>1, <3>1, <4>1 DEF Called
    <3>4. QED
      BY <3>2, <3>3
  <2>5. QED
    BY <2>2, <2>3, <2>4
<1>4. CASE RelistPods
  BY <1>4 DEF PodEventsLost, PodNews, News
<1>5. QED
  BY <1>2, <1>3, <1>4, NextPodFlow

LEMMA NextCalled ==
    ASSUME TypeInv, shuttingDown = FALSE, [Next]_vars, ~PodEventsLost,
           \A k \in Keys : ~HandedOver(k) /\ ~Dismissed(k),
           \A p \in Pods : PodStream(p), NEW n \in Namespaces, Called(n)
    PROVE  Called(n)' \/ \E w \in Workers : Takes(w, n)
<1>1. CASE Crash
  BY <1>1 DEF Crash, Called, Own
<1>2. CASE ~Crash
  <2>1. CASE \A k \in Keys : NsOf[k] = n => ~Own(habCache[k])
    BY <2>1, NextOwn DEF Called
  <2>2. ASSUME NEW k \in Keys, NsOf[k] = n, Alerted(k)
        PROVE  Called(n)' \/ \E w \in Workers : Takes(w, n)
    BY <1>2, <2>2, NextAlerts DEF Called
  <2>3. ASSUME NEW p \in Pods, NsOf[p[1]] = n, PodNews(p) PROVE Called(n)'
    <3>1. p[1] \in Keys
      BY DEF Pods
    <3>2. QED
      BY <1>2, <2>3, <3>1, NextNews
  <2>4. QED
    BY <2>1, <2>2, <2>3 DEF Called
<1>3. QED
  BY <1>1, <1>2

-----------------------------------------------------------------------------
(* The informer's store ends up with the stored version of the ConfigMap,   *)
(* and an event of it calls for a run of conform.                           *)
SameVersion(c, d) ==
    /\ c = None <=> d = None
    /\ c # None => c.rv = d.rv

CMUpToDate(n) ==
    IF cmWatch[n] = <<>> THEN SameVersion(cmCache[n], cm[n])
                         ELSE cmWatch[n][Len(cmWatch[n])] = cm[n]

CMFlow(n) ==
    \/ /\ cm'[n] = cm[n] /\ cmWatch'[n] = cmWatch[n]
       /\ SameVersion(cmCache'[n], cmCache[n])
    \/ cmWatch'[n] = Append(cmWatch[n], cm'[n]) /\ cm'[n] \in CMOrNone
    \/ /\ CMEvent(n) /\ cm'[n] = cm[n] /\ cmWatch[n] # <<>>
       /\ cmWatch'[n] = Tail(cmWatch[n]) /\ cmCache'[n] = Head(cmWatch[n])
    \/ /\ Crash /\ cm'[n] = cm[n] /\ cmCache'[n] = None
       /\ cmWatch'[n] = IF cm[n] = None THEN <<>> ELSE <<cm[n]>>
    \/ /\ RelistCMs /\ cm'[n] = cm[n]
       /\ cmCache'[n] = IF cm[n] = None THEN None ELSE cmCache[n]
       /\ cmWatch'[n] = IF cm[n] = None THEN <<>> ELSE <<cm[n]>>

(* The deletion of a ConfigMap that reaches no handler. *)
CMDeletionLost ==
    RelistCMs /\ \E n \in Namespaces : cmWatch[n] # <<>> /\ cm[n] = None

LEMMA SameCMFlow ==
    ASSUME UNCHANGED <<cm, cmWatch, cmCache>>, NEW n PROVE CMFlow(n)
BY DEF CMFlow, SameVersion

LEMMA StoreCMFlow ==
    ASSUME TypeInv, NEW m \in Namespaces, NEW c \in CMOrNone, StoreCM(m, c),
           cmCache' = cmCache, NEW n \in Namespaces
    PROVE  CMFlow(n)
BY DEF StoreCM, CMFlow, SameVersion, TypeInv, ClusterTypeOK

LEMMA WriteLeaderFlow ==
    ASSUME TypeInv, NEW w \in Workers, WriteLeader(w), NEW n \in Namespaces
    PROVE  CMFlow(n)
<1>1. PICK m, r, i, ip : /\ m = NsOf[wkey[w]] /\ r = job[w].cm.rv
                         /\ i = job[w].copy /\ ip = job[w].leader
  OBVIOUS
<1>2. /\ cmCache' = IF cmCache[m] # None /\ cmCache[m].rv = r /\ cmCopy[m] = i
                      THEN [cmCache EXCEPT ![m].ip = ip] ELSE cmCache
      /\ UNCHANGED <<cm, cmWatch>>
  BY <1>1 DEF WriteLeader, CachedCM, clusterVars, objectVars, watchVars
<1>3. cmCache \in [Namespaces -> CMOrNone]
  BY DEF TypeInv, InformersOK
<1>4. CASE cmCache[n] = None \/ cmCache' = cmCache \/ n # m
  <2>1. cmCache'[n] = cmCache[n]
    BY <1>2, <1>3, <1>4
  <2>2. QED
    BY <1>2, <2>1 DEF CMFlow, SameVersion
<1>5. CASE cmCache[n] # None /\ cmCache' # cmCache /\ n = m
  <2>1. cmCache[n] \in ConfigMaps /\ cmCache'[n] = [cmCache[n] EXCEPT !.ip = ip]
    BY <1>2, <1>3, <1>5 DEF CMOrNone
  <2>2. PICK c : c = [cmCache[n] EXCEPT !.ip = ip]
    OBVIOUS
  <2>3. c.rv = cmCache[n].rv
    BY <2>1, <2>2 DEF ConfigMaps
  <2>4. c # None
    <3>1. ip \in PodIPs \cup {NoIP}
      BY <1>1 DEF TypeInv, JobsOK, Jobs
    <3>2. c \in ConfigMaps
      BY <2>1, <2>2, <3>1 DEF ConfigMaps
    <3>3. QED
      BY <3>2, NoneIsNoConfigMap
  <2>5. QED
    BY <1>2, <1>5, <2>1, <2>2, <2>3, <2>4 DEF CMFlow, SameVersion
<1>6. QED
  BY <1>4, <1>5

LEMMA CMEventFlow ==
    ASSUME TypeInv, NEW m \in Namespaces, CMEvent(m), NEW n \in Namespaces
    PROVE  CMFlow(n)
<1>1. /\ UNCHANGED cm /\ cmWatch[m] # <<>>
      /\ cmCache' = [cmCache EXCEPT ![m] = Head(cmWatch[m])]
      /\ cmWatch' = [cmWatch EXCEPT ![m] = Tail(@)]
  BY DEF CMEvent, objectVars
<1>2. /\ cmCache \in [Namespaces -> CMOrNone]
      /\ cmWatch \in [Namespaces -> Seq(CMOrNone)]
  BY DEF TypeInv, InformersOK, ClusterTypeOK, CMOrNone
<1>3. CASE n = m
  BY <1>1, <1>2, <1>3 DEF CMFlow
<1>4. CASE n # m
  <2>1. cmCache'[n] = cmCache[n] /\ cmWatch'[n] = cmWatch[n]
    BY <1>1, <1>2, <1>4
  <2>2. QED
    BY <1>1, <2>1 DEF CMFlow, SameVersion
<1>5. QED
  BY <1>3, <1>4

LEMMA WorkerCMFlow ==
    ASSUME TypeInv, NEW w \in Workers, WorkerStep(w) \/ ApiCallFails(w), NEW n \in Namespaces
    PROVE  CMFlow(n)
<1> USE DEF informerVars, clusterVars, objectVars, watchVars
<1>1. CASE CreateCM(w) \/ UpdateCM(w)
  <2>1. cmCache' = cmCache
    BY <1>1 DEF CreateCM, UpdateCM
  <2>2. wkey[w] \in Keys /\ NsOf[wkey[w]] \in Namespaces
    BY <1>1, ClusterAssumption DEF TypeInv, MutexInv, WorkersOK, CreateCM, UpdateCM, ClusterAssumption
  <2>3. PICK m \in Namespaces : m = NsOf[wkey[w]] /\ cmGen[m] \in Nat
    BY <2>2, CMTypes
  <2>4. CASE CreateCM(w)
    <3>1. PICK c : c = [rv |-> cmGen[m] + 1, ip |-> job[w].leader,
                        owner |-> <<wkey[w], job[w].hab.uid>>]
      OBVIOUS
    <3>2. UNCHANGED <<cm, cmWatch>> \/ StoreCM(m, c)
      BY <2>3, <2>4, <3>1 DEF CreateCM
    <3>3. job[w].hab \in Habs /\ job[w].leader \in PodIPs \cup {NoIP}
      BY <2>4 DEF TypeInv, JobsOK, JobOK, Jobs, UsesHab, CreateCM
    <3>4. c \in CMOrNone
      BY <2>2, <2>3, <3>1, <3>3 DEF ConfigMaps, CMOrNone, Habs
    <3>5. QED
      BY <2>1, <3>2, <3>4, StoreCMFlow, SameCMFlow
  <2>5. CASE UpdateCM(w)
    <3>1. PICK c : c = [job[w].cm EXCEPT !.rv = cmGen[m] + 1]
      OBVIOUS
    <3>2. UNCHANGED <<cm, cmWatch>> \/ StoreCM(m, c)
      BY <2>3, <2>5, <3>1 DEF UpdateCM
    <3>3. job[w].cm \in ConfigMaps
      BY <2>5 DEF TypeInv, JobsOK, JobOK, Jobs, UsesCM, UpdateCM
    <3>4. c \in CMOrNone
      BY <2>3, <3>1, <3>3 DEF ConfigMaps, CMOrNone
    <3>5. QED
      BY <2>1, <3>2, <3>4, StoreCMFlow, SameCMFlow
  <2>6. QED
    BY <1>1, <2>4, <2>5
<1>2. CASE WriteLeader(w)
  BY <1>2, WriteLeaderFlow
<1>3. CASE ~(CreateCM(w) \/ UpdateCM(w) \/ WriteLeader(w))
  <2>1. UNCHANGED <<cm, cmWatch, cmCache>>
    BY <1>3, Zenon DEF WorkerStep, ApiCallFails, TakeItem, LookupHab, GetSecrets, CreateSts, GetSts,
       UpdateSts, DeleteStsPods, ListRunningPods, FindCM, Requeue, FinishItem
  <2>2. QED
    BY <2>1, SameCMFlow
<1>4. QED
  BY <1>1, <1>2, <1>3

LEMMA NextCMFlow ==
    ASSUME TypeInv, [Next]_vars, NEW n \in Namespaces PROVE CMFlow(n)
<1> USE DEF informerVars, clusterVars, objectVars, watchVars
<1>1. CASE ClusterStep
  <2>1. cmCache' = cmCache
    BY <1>1 DEF ClusterStep, ControllerStutters
  <2>2. ASSUME NEW m \in Namespaces, CollectCM(m) PROVE CMFlow(n)
    BY <2>1, <2>2, StoreCMFlow DEF CollectCM, CMOrNone
  <2>3. ASSUME ~\E m \in Namespaces : CollectCM(m) PROVE UNCHANGED <<cm, cmWatch>>
    BY <1>1, <2>3 DEF ClusterStep, UserStep, PodStep, CreateHab, EditHab, DeleteHab, ToggleSecret,
       TamperSts, KillPod, StartPod, ScaleDown, PodRuns, PodGone, CollectSts
  <2>4. QED
    BY <2>1, <2>2, <2>3, SameCMFlow
<1>2. CASE Crash
  BY <1>2 DEF Crash, ListCMs, CMFlow
<1>3. CASE \/ \E k \in Keys : HabEvent(k) \/ StsEvent(k) \/ StsStatusEvent(k) \/ WaitingLoopFires(k)
           \/ \E m \in Namespaces : CMResync(m) \/ \E k \in Keys : CMEnqueues(m, k)
           \/ \E p \in Pods : PodEvent(p)
           \/ RelistHabs \/ RelistPods \/ RelistSts \/ WaitingLoopReceives \/ UNCHANGED vars
  <2>1. UNCHANGED <<cm, cmWatch, cmCache>>
    BY <1>3 DEF HabEvent, StsEvent, StsStatusEvent, CMResync, CMEnqueues, PodEvent,
       RelistHabs, RelistPods, RelistSts, WaitingLoopReceives, WaitingLoopFires, vars
  <2>2. QED
    BY <2>1, SameCMFlow
<1>4. CASE RelistCMs
  BY <1>4 DEF RelistCMs, ListCMs, CMFlow
<1>5. QED
  BY <1>1, <1>2, <1>3, <1>4, WorkerCMFlow, CMEventFlow DEF Next, InformerStep

LEMMA CMFlowUpToDate ==
    ASSUME TypeInv, NEW n \in Namespaces, CMFlow(n), CMUpToDate(n)
    PROVE  CMUpToDate(n)'
<1>1. PICK q \in Seq(CMOrNone) : q = cmWatch[n]
  BY CMTypes
<1>2. PICK l \in Nat : l = Len(q)
  BY <1>1
<1>3. CASE /\ cm'[n] = cm[n] /\ cmWatch'[n] = cmWatch[n]
           /\ SameVersion(cmCache'[n], cmCache[n])
  BY <1>3 DEF CMUpToDate, SameVersion
<1>4. CASE cmWatch'[n] = Append(cmWatch[n], cm'[n]) /\ cm'[n] \in CMOrNone
  <2>1. Len(cmWatch'[n]) = l + 1 /\ cmWatch'[n][l + 1] = cm'[n] /\ cmWatch'[n] # <<>>
    BY <1>1, <1>2, <1>4
  <2>2. QED
    BY <2>1 DEF CMUpToDate
<1>5. CASE /\ cm'[n] = cm[n] /\ cmWatch[n] # <<>>
           /\ cmWatch'[n] = Tail(cmWatch[n]) /\ cmCache'[n] = Head(cmWatch[n])
  <2>1. l > 0 /\ q[l] = cm[n]
    BY <1>1, <1>2, <1>5 DEF CMUpToDate
  <2>2. PICK r \in Seq(CMOrNone) : r = Tail(q)
    BY <1>1, <1>5, HeadTailType
  <2>3. /\ Len(r) = l - 1 /\ Head(q) = q[1]
        /\ \A i \in 1..(l - 1) : r[i] = q[i + 1]
    BY <1>1, <1>2, <2>1, <2>2
  <2>4. r = <<>> <=> l = 1
    BY <1>2, <2>1, <2>3
  <2>5. cmWatch'[n] = r /\ cmCache'[n] = Head(q) /\ cm'[n] = cm[n]
    BY <1>1, <1>5, <2>2
  <2>6. CASE l = 1
    <3>1. cmWatch'[n] = <<>> /\ cmCache'[n] = cm'[n]
      BY <2>1, <2>6, <2>3, <2>4, <2>5
    <3>2. QED
      BY <3>1 DEF CMUpToDate, SameVersion
  <2>7. CASE l > 1
    <3>1. /\ cmWatch'[n] # <<>> /\ Len(cmWatch'[n]) = l - 1
          /\ cmWatch'[n][l - 1] = q[l]
      BY <2>1, <2>7, <2>3, <2>4, <2>5
    <3>2. QED
      BY <1>5, <2>1, <3>1 DEF CMUpToDate
  <2>8. QED
    BY <2>1, <2>6, <2>7
<1>6. CASE /\ cm'[n] = cm[n] /\ (cm[n] = None => cmCache'[n] = None)
           /\ cmWatch'[n] = IF cm[n] = None THEN <<>> ELSE <<cm[n]>>
  <2>1. CASE cm[n] = None
    BY <1>6, <2>1 DEF CMUpToDate, SameVersion
  <2>2. CASE cm[n] # None
    <3>1. Len(cmWatch'[n]) = 1 /\ cmWatch'[n] # <<>> /\ cmWatch'[n][1] = cm[n]
      BY <1>6, <2>2
    <3>2. QED
      BY <1>6, <3>1 DEF CMUpToDate
  <2>3. QED
    BY <2>1, <2>2
<1>7. QED
  BY <1>3, <1>4, <1>5, <1>6 DEF CMFlow

(* A namespace that does not call has neither got nor lost an event of its  *)
(* ConfigMap; and without one on its way the ConfigMap has not changed.     *)
LEMMA CMFlowQuiet ==
    ASSUME TypeInv, NEW n \in Namespaces, CMFlow(n), ~CMDeletionLost,
           ~Called(n)', cmWatch'[n] = <<>>
    PROVE  cm'[n] = cm[n] /\ cmWatch[n] = <<>>
<1>1. ~Crash
  BY DEF Crash, Called, Own
<1>2. ~CMEvent(n)
  <2> SUFFICES ASSUME CMEvent(n) PROVE FALSE
    OBVIOUS
  <2>1. /\ cmTodo' = [cmTodo EXCEPT ![n] = @ \cup HabitatsIn(n)]
        /\ habCache' = habCache
    BY DEF CMEvent
  <2>2. PICK k \in Keys : NsOf[k] = n /\ Own(habCache[k])
    BY <2>1 DEF Called
  <2>3. k \in cmTodo'[n]
    BY <2>1, <2>2 DEF HabitatsIn, Own, TypeInv, InformersOK
  <2>4. QED
    BY <2>2, <2>3 DEF Called, Alerted
<1>3. ASSUME cm'[n] \in CMOrNone PROVE cmWatch'[n] # Append(cmWatch[n], cm'[n])
  <2>1. PICK q \in Seq(CMOrNone) : q = cmWatch[n]
    BY CMTypes
  <2>2. Append(q, cm'[n]) # <<>>
    BY <1>3
  <2>3. QED
    BY <2>1, <2>2
<1>4. CASE /\ RelistCMs /\ cm'[n] = cm[n]
           /\ cmWatch'[n] = IF cm[n] = None THEN <<>> ELSE <<cm[n]>>
  <2>1. CASE cm[n] # None
    <3>1. Len(cmWatch'[n]) = 1 /\ cmWatch'[n] # <<>>
      BY <1>4, <2>1
    <3>2. QED
      BY <3>1
  <2>2. CASE cm[n] = None
    BY <1>4, <2>2 DEF CMDeletionLost
  <2>3. QED
    BY <2>1, <2>2
<1>5. QED
  BY <1>1, <1>2, <1>3, <1>4 DEF CMFlow

-----------------------------------------------------------------------------
(* What a step does to a worker's run of conform, as far as the peer IP     *)
(* goes.  A worker that is done has found the ConfigMap right, or has set   *)
(* off another run, or has found that its Habitat is gone.                  *)
InConform(w) == wpc[w] \notin {"Get", "Done"}

Finishes(w) ==
    \/ LookupHab(w) /\ habCache[wkey[w]] = None
    \/ \E k \in Keys : k = wkey[w] /\ Marked(k)'
    \/ cmWatch'[NsOf[wkey[w]]] # <<>>
    \/ /\ wpc[w] = "FindCM" /\ cmCache[NsOf[wkey[w]]] # None
       /\ cmCache[NsOf[wkey[w]]].ip \in job[w].running
    \/ wpc[w] = "UpdateCM" /\ cm[NsOf[wkey[w]]] = job[w].cm

PeerJob(w) ==
    /\ InConform(w) => wkey'[w] = wkey[w] /\ wpc'[w] # "Get"
    /\ InConform(w) /\ wpc'[w] = "Done" => Finishes(w)
    /\ wpc'[w] \in Lists \cup UsesCM => InConform(w)
    /\ wpc'[w] \in Lists =>
         \/ /\ wpc[w] \in Lists /\ job'[w].running = job[w].running
            /\ job'[w].leader = job[w].leader
         \/ /\ job'[w].running = RunningIPs(NsOf[wkey[w]])
            /\ ValidIP(job'[w].leader, NsOf[wkey[w]])
    /\ wpc'[w] = "WriteLeader" =>
         wpc[w] \in {"FindCM", "WriteLeader"} /\ job'[w].leader = job[w].leader
    /\ wpc'[w] = "UpdateCM" =>
         \/ wpc[w] = "UpdateCM" /\ job'[w].cm = job[w].cm
         \/ wpc[w] = "WriteLeader" /\ job'[w].cm.ip = job[w].leader

LEMMA SamePeerJob ==
    ASSUME NEW w, wpc'[w] = wpc[w], wkey'[w] = wkey[w], job'[w] = job[w]
    PROVE  PeerJob(w)
BY DEF PeerJob, InConform, Lists, UsesCM

(* Worker w goes on with the key it has. *)
LEMMA GotoPeerJobs ==
    ASSUME TypeInv, NEW w \in Workers, NEW step, NEW j, Goto(w, step, j),
           wkey' = wkey, InConform(w), step \notin {"Get", "UpdateCM"},
           step = "Done" => Finishes(w),
           step \in Lists =>
             \/ /\ wpc[w] \in Lists /\ j.running = job[w].running
                /\ j.leader = job[w].leader
             \/ /\ j.running = RunningIPs(NsOf[wkey[w]])
                /\ ValidIP(j.leader, NsOf[wkey[w]]),
           step = "WriteLeader" => wpc[w] = "FindCM" /\ j.leader = job[w].leader,
           NEW v \in Workers
    PROVE  PeerJob(v)
<1>1. PICK l : job' = [job EXCEPT ![w] = l] /\ (step \notin {"Requeue", "Done"} => l = j)
  BY DEF Goto
<1>2. wpc' = [wpc EXCEPT ![w] = step]
  BY DEF Goto
<1>3. job \in [Workers -> Jobs] /\ wpc \in [Workers -> WorkerStates]
  BY DEF TypeInv, JobsOK, MutexInv, WorkersOK
<1>4. CASE v # w
  <2>1. wpc'[v] = wpc[v] /\ wkey'[v] = wkey[v] /\ job'[v] = job[v]
    BY <1>1, <1>2, <1>3, <1>4
  <2>2. QED
    BY <2>1, SamePeerJob
<1>5. CASE v = w
  <2>1. wpc'[w] = step /\ job'[w] = l /\ wkey'[w] = wkey[w]
    BY <1>1, <1>2, <1>3
  <2>2. step \in Lists \cup {"WriteLeader"} => l = j
    BY <1>1 DEF Lists
  <2>3. QED
    BY <1>5, <2>1, <2>2 DEF PeerJob
<1>6. QED
  BY <1>4, <1>5

(* A worker takes a key or hands it back. *)
LEMMA KeyPeerJobs ==
    ASSUME TypeInv, NEW w \in Workers, TakeItem(w) \/ FinishItem(w), NEW v \in Workers
    PROVE  PeerJob(v)
<1>1. PICK step, x :
        /\ step \in {"Lookup", "Get"}
        /\ Goto(w, step, NoJob) /\ wkey' = [wkey EXCEPT ![w] = x]
        /\ ~InConform(w)
  BY DEF TakeItem, FinishItem, InConform
<1>2. /\ job' = [job EXCEPT ![w] = NoJob] /\ wpc' = [wpc EXCEPT ![w] = step]
  BY <1>1 DEF Goto
<1>3. /\ job \in [Workers -> Jobs] /\ wpc \in [Workers -> WorkerStates]
      /\ wkey \in [Workers -> Keys \cup {None}]
  BY DEF TypeInv, JobsOK, MutexInv, WorkersOK
<1>4. CASE v # w
  <2>1. wpc'[v] = wpc[v] /\ wkey'[v] = wkey[v] /\ job'[v] = job[v]
    BY <1>1, <1>2, <1>3, <1>4
  <2>2. QED
    BY <2>1, SamePeerJob
<1>5. CASE v = w
  <2>1. wpc'[w] = step /\ step \notin Lists \cup UsesCM
    BY <1>1, <1>2, <1>3 DEF Lists, UsesCM
  <2>2. QED
    BY <1>1, <1>5, <2>1 DEF PeerJob, Lists, UsesCM
<1>6. QED
  BY <1>4, <1>5

LEMMA WriteLeaderPeerJobs ==
    ASSUME TypeInv, AloneInNamespace, NEW w \in Workers, WriteLeader(w), NEW v \in Workers
    PROVE  PeerJob(v)
<1>1. job \in [Workers -> Jobs] /\ wpc \in [Workers -> WorkerStates]
  BY DEF TypeInv, JobsOK, MutexInv, WorkersOK
<1>2. PICK ip : ip = job[w].leader
  OBVIOUS
<1>3. /\ job' = [u \in Workers |->
                   IF SameCM(u, w) THEN [job[u] EXCEPT !.cm.ip = ip] ELSE job[u]]
      /\ wpc' = [wpc EXCEPT ![w] = "UpdateCM"] /\ wpc[w] = "WriteLeader"
      /\ wkey' = wkey
  BY <1>2 DEF WriteLeader
<1>4. job'[v].leader = job[v].leader /\ job'[v].running = job[v].running
  BY <1>1, <1>3 DEF Jobs
<1>5. CASE v = w
  <2>1. job[w].cm # None /\ job[w].cm \in ConfigMaps
    BY <1>1, <1>3 DEF TypeInv, JobsOK, JobOK, Jobs, UsesCM
  <2>2. SameCM(w, w)
    BY <2>1 DEF SameCM
  <2>3. job'[w] = [job[w] EXCEPT !.cm.ip = ip]
    BY <1>3, <2>2
  <2>4. PICK j \in Jobs : j = job[w]
    BY <1>1
  <2>5. j.cm \in ConfigMaps
    BY <2>1, <2>4
  <2>6. [j EXCEPT !.cm.ip = ip].cm.ip = ip
    BY <2>5 DEF Jobs, ConfigMaps
  <2>7. job'[w].cm.ip = job[w].leader /\ wpc'[w] = "UpdateCM"
    BY <1>1, <1>2, <1>3, <2>3, <2>4, <2>6
  <2>8. QED
    BY <1>3, <1>5, <2>7 DEF PeerJob, InConform, Lists, UsesCM
<1>6. CASE v # w
  <2>1. wpc'[v] = wpc[v] /\ wkey'[v] = wkey[v]
    BY <1>1, <1>3, <1>6
  <2>2. ASSUME wpc[v] = "UpdateCM" PROVE job'[v].cm = job[v].cm
    <3>1. /\ wkey[v] \in Keys /\ wkey[w] \in Keys
          /\ wpc[v] # "Get" /\ wpc[w] # "Get"
      BY <1>3, <2>2 DEF TypeInv, MutexInv, WorkersOK
    <3>2. ~SameCM(v, w)
      BY <1>6, <3>1, ClusterAssumption DEF SameCM, AloneInNamespace, WorkersIn, ClusterAssumption
    <3>3. QED
      BY <1>3, <3>2
  <2>3. QED
    BY <1>4, <2>1, <2>2 DEF PeerJob, InConform, Lists, UsesCM
<1>7. QED
  BY <1>5, <1>6

LEMMA CMWorkerPeerJobs ==
    ASSUME TypeInv, NEW w \in Workers, CreateCM(w) \/ UpdateCM(w), NEW v \in Workers
    PROVE  PeerJob(v)
<1>1. PICK m \in Namespaces : m = NsOf[wkey[w]]
  <2>1. wkey[w] \in Keys
    BY DEF TypeInv, MutexInv, WorkersOK, CreateCM, UpdateCM
  <2>2. QED
    BY <2>1, ClusterAssumption DEF ClusterAssumption
<1>2. wkey' = wkey /\ InConform(w)
  BY DEF CreateCM, UpdateCM, InConform
<1>3. ASSUME NEW c, StoreCM(m, c) PROVE cmWatch'[m] # <<>>
  <2>1. PICK q \in Seq(CMOrNone) : q = cmWatch[m]
    BY CMTypes
  <2>2. cmWatch'[m] = Append(q, c)
    BY <1>3, <2>1 DEF StoreCM, TypeInv, ClusterTypeOK
  <2>3. PICK l \in Nat : l = Len(q)
    BY <2>1
  <2>4. Len(cmWatch'[m]) = l + 1
    BY <2>1, <2>2, <2>3
  <2>5. QED
    BY <2>3, <2>4
<1>4. CASE CreateCM(w)
  <2>1. \/ /\ \E c : StoreCM(m, c)
           /\ Goto(w, "Done", NoJob) \/ Goto(w, "Requeue", NoJob)
        \/ Goto(w, "FindCM", job[w])
    BY <1>1, <1>4 DEF CreateCM, Returns
  <2>2. wpc[w] \in Lists
    BY <1>4 DEF CreateCM, Lists
  <2>3. ASSUME NEW step \in {"Done", "Requeue"}, Goto(w, step, NoJob),
               NEW c, StoreCM(m, c)
        PROVE  PeerJob(v)
    <3>1. Finishes(w)
      BY <1>1, <1>3, <2>3 DEF Finishes
    <3>2. step \notin Lists \cup {"WriteLeader", "UpdateCM", "Get"}
      BY <2>3 DEF Lists
    <3>3. QED
      BY <1>2, <2>3, <3>1, <3>2, GotoPeerJobs
  <2>4. CASE Goto(w, "FindCM", job[w])
    BY <1>2, <2>2, <2>4, GotoPeerJobs
  <2>5. QED
    BY <2>1, <2>3, <2>4
<1>5. CASE UpdateCM(w)
  <2>1. PICK step \in {"Done", "Requeue"} :
          /\ Goto(w, step, NoJob)
          /\ step = "Done" => (\E c : StoreCM(m, c)) \/ cm[m] = job[w].cm
    BY <1>1, <1>5 DEF UpdateCM, Returns
  <2>2. wpc[w] = "UpdateCM"
    BY <1>5 DEF UpdateCM
  <2>3. step = "Done" => Finishes(w)
    BY <1>1, <1>3, <2>1, <2>2 DEF Finishes
  <2>4. step \notin Lists \cup {"WriteLeader", "UpdateCM", "Get"}
    BY DEF Lists
  <2>5. QED
    BY <1>2, <2>1, <2>3, <2>4, GotoPeerJobs
<1>6. QED
  BY <1>4, <1>5

LEMMA WorkerPeerJobs ==
    ASSUME TypeInv, shuttingDown = FALSE, AloneInNamespace,
           NEW w \in Workers, WorkerStep(w) \/ ApiCallFails(w), NEW v \in Workers
    PROVE  PeerJob(v)
<1>1. QInv /\ job[w] \in Jobs
  BY DEF TypeInv, MutexInv, JobsOK
<1>2. CASE TakeItem(w) \/ FinishItem(w) \/ WriteLeader(w) \/ CreateCM(w) \/ UpdateCM(w)
  BY <1>2, KeyPeerJobs, WriteLeaderPeerJobs, CMWorkerPeerJobs
<1>3. ASSUME NEW step, NEW j, Goto(w, step, j), wkey' = wkey, InConform(w),
             step \notin Lists \cup UsesCM \cup {"Get", "Done"}
      PROVE  PeerJob(v)
  BY <1>3, GotoPeerJobs DEF UsesCM
<1>4. CASE Requeue(w)
  <2>1. /\ Goto(w, "Done", NoJob) /\ wkey' = wkey /\ InConform(w)
        /\ AddRateLimited(wkey[w]) /\ wkey[w] \in Keys
    BY <1>4 DEF Requeue, InConform, TypeInv, MutexInv, WorkersOK
  <2>2. Finishes(w)
    BY <1>1, <2>1, AddRateLimitedMarks DEF Finishes
  <2>3. "Done" \notin Lists
    BY DEF Lists
  <2>4. QED
    BY <2>1, <2>2, <2>3, GotoPeerJobs
<1>5. CASE LookupHab(w)
  <2>1. PICK h, step, j :
          /\ h = habCache[wkey[w]] /\ j = [NoJob EXCEPT !.hab = h]
          /\ step = IF h = None THEN "Done"
                    ELSE IF ~h.spec.valid THEN "Requeue"
                    ELSE IF h.spec.needsSecret THEN "Build"
                    ELSE "CreateSts"
    OBVIOUS
  <2>2. Goto(w, step, j) /\ wkey' = wkey /\ InConform(w)
    BY <1>5, <2>1 DEF LookupHab, InConform
  <2>3. step = "Done" => Finishes(w)
    BY <1>5, <2>1 DEF Finishes
  <2>4. step \notin Lists \cup UsesCM \cup {"Get"}
    BY <2>1 DEF Lists, UsesCM
  <2>5. QED
    BY <2>2, <2>3, <2>4, GotoPeerJobs DEF UsesCM
<1>6. CASE ApiCallFails(w)
  <2>1. Goto(w, "Requeue", NoJob) /\ wkey' = wkey /\ InConform(w)
    BY <1>6 DEF ApiCallFails, ApiCalls, InConform
  <2>2. QED
    BY <1>3, <2>1 DEF Lists, UsesCM
<1>7. CASE GetSecrets(w) \/ CreateSts(w) \/ GetSts(w) \/ UpdateSts(w) \/ DeleteStsPods(w)
  <2>1. wkey' = wkey /\ InConform(w)
    BY <1>7 DEF GetSecrets, CreateSts, GetSts, UpdateSts, DeleteStsPods, InConform
  <2>2. \E step \in {"CreateSts", "Requeue", "ListPods", "GetSts", "UpdateSts", "DeletePods"} :
          \E j : Goto(w, step, j)
    BY <1>7 DEF GetSecrets, CreateSts, GetSts, UpdateSts, DeleteStsPods, Returns
  <2>3. QED
    BY <1>3, <2>1, <2>2 DEF Lists, UsesCM
<1>8. CASE ListRunningPods(w)
  <2>1. PICK running, leader :
          /\ running = RunningIPs(NsOf[wkey[w]])
          /\ leader \in (IF running = {} THEN {NoIP} ELSE running)
          /\ Goto(w, "CreateCM", [job[w] EXCEPT !.running = running, !.leader = leader])
    BY <1>8 DEF ListRunningPods, getRunningPods
  <2>2. PICK j : j = [job[w] EXCEPT !.running = running, !.leader = leader]
    OBVIOUS
  <2>3. j.leader = leader /\ j.running = running
    BY <1>1, <2>2 DEF Jobs
  <2>4. Goto(w, "CreateCM", j) /\ wkey' = wkey /\ InConform(w)
    BY <1>8, <2>1, <2>2 DEF ListRunningPods, InConform
  <2>5. ValidIP(j.leader, NsOf[wkey[w]])
    BY <2>1, <2>3 DEF ValidIP
  <2>6. QED
    BY <2>1, <2>3, <2>4, <2>5, GotoPeerJobs
<1>9. CASE FindCM(w)
  <2>1. PICK c, j : /\ c = cmCache[NsOf[wkey[w]]]
                    /\ j = [NoJob EXCEPT !.leader = job[w].leader, !.cm = c,
                                         !.copy = cmCopy[NsOf[wkey[w]]]]
    OBVIOUS
  <2>2. j.leader = job[w].leader
    BY <2>1 DEF NoJob
  <2>3. PICK step \in {"Requeue", "Done", "WriteLeader"} :
          /\ Goto(w, step, j)
          /\ step = "Done" => c # None /\ leaderRuns(c, job[w].running)
    BY <1>9, <2>1, Zenon DEF FindCM
  <2>4. wkey' = wkey /\ InConform(w) /\ wpc[w] = "FindCM"
    BY <1>9 DEF FindCM, InConform
  <2>5. step = "Done" => Finishes(w)
    BY <2>1, <2>3, <2>4 DEF Finishes, leaderRuns
  <2>6. step \notin Lists
    BY DEF Lists
  <2>7. QED
    BY <2>2, <2>3, <2>4, <2>5, <2>6, GotoPeerJobs
<1>10. QED
  BY <1>2, <1>4, <1>5, <1>6, <1>7, <1>8, <1>9 DEF WorkerStep

LEMMA NextPeerJobs ==
    ASSUME TypeInv, shuttingDown = FALSE, AloneInNamespace, [Next]_vars, ~Crash,
           NEW v \in Workers
    PROVE  PeerJob(v)
<1>1. ASSUME UNCHANGED workerVars PROVE PeerJob(v)
  BY <1>1, SamePeerJob DEF workerVars
<1>2. CASE \E w \in Workers : WorkerStep(w) \/ ApiCallFails(w)
  BY <1>2, WorkerPeerJobs
<1>3. ASSUME ~\E w \in Workers : WorkerStep(w) \/ ApiCallFails(w)
      PROVE  UNCHANGED workerVars
  BY <1>3 DEF Next, InformerStep, HabEvent, StsEvent, StsStatusEvent, CMEvent,
     CMResync, CMEnqueues, PodEvent, RelistHabs, RelistCMs, RelistPods, RelistSts, WaitingLoopReceives,
     WaitingLoopFires, ClusterStep, ControllerStutters, workerVars, vars
<1>4. QED
  BY <1>1, <1>2, <1>3

-----------------------------------------------------------------------------
(* What a worker has read and what it will write is right, unless another   *)
(* run is called for.                                                       *)
Knows(w) ==
    /\ wpc[w] \in Lists =>
         \/ Called(NsOf[wkey[w]])
         \/ /\ job[w].running = RunningIPs(NsOf[wkey[w]])
            /\ ValidIP(job[w].leader, NsOf[wkey[w]])
    /\ wpc[w] = "WriteLeader" =>
         Called(NsOf[wkey[w]]) \/ ValidIP(job[w].leader, NsOf[wkey[w]])
    /\ wpc[w] = "UpdateCM" =>
         Called(NsOf[wkey[w]]) \/ ValidIP(job[w].cm.ip, NsOf[wkey[w]])

(* A wrong peer IP does not stay: the ConfigMap is on its way to the store, *)
(* or a run is called for or under way.                                     *)
Settled(n) ==
    \/ PeerValid(n)
    \/ cmWatch[n] # <<>>
    \/ Called(n)
    \/ \E w \in WorkersIn(n) : wpc[w] # "Done"

PeerInv ==
    /\ \A p \in Pods : PodStream(p)
    /\ \A n \in Namespaces : CMUpToDate(n) /\ Settled(n)
    /\ \A w \in Workers : Knows(w)

(* The disturbances after which nobody is told that the peer IP is wrong,   *)
(* or the worker that is told takes it for right.                           *)
PeerMisled ==
    \/ FailedWrite \/ PodEventsLost \/ CMDeletionLost
    \/ \E k \in Keys : HandedOver(k) \/ Dismissed(k)

(* Where no run is called for after a step, no pod has come or gone, and    *)
(* either none was called for before or a worker sets off on it.            *)
LEMMA QuietStep ==
    ASSUME TypeInv, TypeInv', shuttingDown = FALSE, [Next]_vars, ~PeerMisled,
           \A p \in Pods : PodStream(p), NEW n \in Namespaces, ~Called(n)'
    PROVE  /\ ~Crash
           /\ RunningIPs(n)' = RunningIPs(n)
           /\ ~Called(n) \/ \E w \in Workers : Takes(w, n)
<1>1. ~Crash
  BY DEF Crash, Called, Own
<1>2. \A p \in Pods : NsOf[p[1]] = n => SamePod(p)
  BY NextPodStream DEF Called
<1>3. RunningIPs(n)' = RunningIPs(n)
  BY <1>2, SameRunning
<1>4. ~Called(n) \/ \E w \in Workers : Takes(w, n)
  BY NextCalled DEF PeerMisled
<1>5. QED
  BY <1>1, <1>3, <1>4

LEMMA TakesWorker ==
    ASSUME TypeInv, NEW w \in Workers, NEW n, Takes(w, n)
    PROVE  /\ wpc[w] = "Get" /\ wpc'[w] = "Lookup"
           /\ w \in WorkersIn(n)'
BY DEF Takes, TakeItem, Goto, WorkersIn, TypeInv, MutexInv, WorkersOK

LEMMA NextKnows ==
    ASSUME TypeInv, TypeInv', shuttingDown = FALSE, [Next]_vars, ~PeerMisled,
           AloneInNamespace, AloneInNamespace',
           \A p \in Pods : PodStream(p), NEW w \in Workers, Knows(w)
    PROVE  Knows(w)'
<1> SUFFICES ASSUME wpc'[w] \in Lists \cup UsesCM, ~Called(NsOf[wkey[w]])'
             PROVE  Knows(w)'
  BY DEF Knows, UsesCM
<1>1. PICK n \in Namespaces : n = NsOf[wkey'[w]]
  <2>1. wkey'[w] \in Keys
    BY DEF TypeInv, MutexInv, WorkersOK, Lists, UsesCM
  <2>2. QED
    BY <2>1, ClusterAssumption DEF ClusterAssumption
<1>2. /\ ~Crash /\ RunningIPs(n)' = RunningIPs(n)
      /\ ~Called(n) \/ \E v \in Workers : Takes(v, n)
  BY <1>1, QuietStep
<1>3. PeerJob(w)
  BY <1>2, NextPeerJobs
<1>4. InConform(w) /\ wkey'[w] = wkey[w]
  BY <1>3 DEF PeerJob
<1>5. ~\E v \in Workers : Takes(v, n)
  <2> SUFFICES ASSUME NEW v \in Workers, Takes(v, n) PROVE FALSE
    OBVIOUS
  <2>1. v \in WorkersIn(n)' /\ wpc[v] = "Get"
    BY TakesWorker
  <2>2. w \in WorkersIn(n)'
    BY <1>1 DEF WorkersIn, Lists, UsesCM
  <2>3. v = w
    BY <1>1, <2>1, <2>2 DEF AloneInNamespace
  <2>4. QED
    BY <1>4, <2>1, <2>3 DEF InConform
<1>6. ~Called(n) /\ NsOf[wkey[w]] = n
  BY <1>1, <1>2, <1>4, <1>5
<1>7. wpc'[w] \in Lists => job'[w].running = RunningIPs(n)' /\ ValidIP(job[w].leader, n)'
  <2>1. wpc'[w] \in Lists => job'[w].running = RunningIPs(n) /\ ValidIP(job'[w].leader, n)
    BY <1>3, <1>6 DEF PeerJob, Knows
  <2>2. QED
    BY <1>2, <2>1 DEF ValidIP
<1>8. wpc'[w] = "WriteLeader" => ValidIP(job[w].leader, n)'
  <2>1. wpc'[w] = "WriteLeader" => ValidIP(job'[w].leader, n)
    BY <1>3, <1>6 DEF PeerJob, Knows, Lists
  <2>2. QED
    BY <1>2, <2>1 DEF ValidIP
<1>9. wpc'[w] = "UpdateCM" => ValidIP(job[w].cm.ip, n)'
  <2>1. wpc'[w] = "UpdateCM" => ValidIP(job'[w].cm.ip, n)
    BY <1>3, <1>6 DEF PeerJob, Knows
  <2>2. QED
    BY <1>2, <2>1 DEF ValidIP
<1>10. QED
  BY <1>1, <1>7, <1>8, <1>9 DEF Knows

(* A worker that is done, with nothing called for and nothing on its way,   *)
(* leaves a ConfigMap that is right.                                        *)
LEMMA FinishSettles ==
    ASSUME TypeInv, SentCMInv, AloneInNamespace, NEW n \in Namespaces,
           CMUpToDate(n), cmWatch[n] = <<>>, cmWatch'[n] = <<>>,
           ~Called(n), ~Called(n)', \A k \in Keys : ~Dismissed(k),
           NEW w \in WorkersIn(n), Knows(w), Finishes(w)
    PROVE  PeerValid(n)
<1>1. PICK k \in Keys : k = wkey[w] /\ NsOf[k] = n
  BY DEF WorkersIn, TypeInv, MutexInv, WorkersOK
<1>2. ~(LookupHab(w) /\ habCache[wkey[w]] = None)
  <2> SUFFICES ASSUME LookupHab(w), habCache[k] = None PROVE FALSE
    BY <1>1
  <2>1. w \in Workers
    BY DEF WorkersIn
  <2>2. \A j \in Keys \ {k} : NsOf[j] = n => ~Own(habCache[j])
    BY <1>1, <2>1 DEF Dismissed
  <2>3. QED
    BY <1>1, <2>2 DEF Called, Own
<1>3. ~Marked(k)'
  BY <1>1 DEF Called, Alerted
<1>4. CASE /\ wpc[w] = "FindCM" /\ cmCache[n] # None
           /\ cmCache[n].ip \in job[w].running
  <2>1. cm[n] # None /\ cmCache[n].rv = cm[n].rv
    BY <1>4 DEF CMUpToDate, SameVersion
  <2>2. cmCache[n] = cm[n] \/ Sending(n, cmCache[n].rv, cmCopy[n])
    <3>1. [cm |-> cmCache[n], copy |-> cmCopy[n]] \in Copies(n)
      BY <1>4 DEF Copies
    <3>2. QED
      BY <2>1, <3>1 DEF SentCMInv
  <2>3. ~Sending(n, cmCache[n].rv, cmCopy[n])
    BY <1>4 DEF Sending, AloneInNamespace
  <2>4. job[w].running = RunningIPs(n)
    BY <1>1, <1>4 DEF Knows, Lists
  <2>5. QED
    BY <1>4, <2>1, <2>2, <2>3, <2>4 DEF PeerValid
<1>5. CASE wpc[w] = "UpdateCM" /\ cm[n] = job[w].cm
  <2>1. ValidIP(cm[n].ip, n)
    BY <1>1, <1>5 DEF Knows
  <2>2. cm[n] # None
    BY <1>5 DEF TypeInv, JobsOK, JobOK, UsesCM, WorkersIn
  <2>3. QED
    BY <2>1, <2>2 DEF PeerValid, ValidIP
<1>6. QED
  BY <1>1, <1>2, <1>3, <1>4, <1>5 DEF Finishes

LEMMA NextSettled ==
    ASSUME TypeInv, TypeInv', shuttingDown = FALSE, SentCMInv, [Next]_vars, ~PeerMisled,
           AloneInNamespace, PeerInv, NEW n \in Namespaces
    PROVE  Settled(n)'
<1> SUFFICES ASSUME ~Called(n)', cmWatch'[n] = <<>> PROVE Settled(n)'
  BY DEF Settled
<1>1. /\ ~Crash /\ RunningIPs(n)' = RunningIPs(n)
      /\ ~Called(n) \/ \E w \in Workers : Takes(w, n)
  BY QuietStep DEF PeerInv
<1>2. cm'[n] = cm[n] /\ cmWatch[n] = <<>>
  BY NextCMFlow, CMFlowQuiet DEF PeerMisled
<1>3. CASE PeerValid(n)
  BY <1>1, <1>2, <1>3 DEF PeerValid, Settled
<1>4. CASE \E w \in Workers : Takes(w, n)
  BY <1>4, TakesWorker DEF Settled
<1>5. CASE ~PeerValid(n) /\ ~Called(n)
  <2>1. PICK w \in WorkersIn(n) : wpc[w] # "Done"
    BY <1>2, <1>5 DEF PeerInv, Settled
  <2>2. PeerJob(w) /\ InConform(w) /\ w \in Workers
    BY <1>1, <2>1, NextPeerJobs DEF WorkersIn, InConform
  <2>3. ~Finishes(w)
    BY <1>2, <1>5, <2>2, FinishSettles DEF PeerInv, PeerMisled
  <2>4. wkey'[w] = wkey[w] /\ wpc'[w] \notin {"Get", "Done"}
    BY <2>2, <2>3 DEF PeerJob
  <2>5. QED
    BY <2>2, <2>4 DEF Settled, WorkersIn
<1>6. QED
  BY <1>1, <1>3, <1>4, <1>5

LEMMA NextPeerInv ==
    ASSUME TypeInv, TypeInv', HeardInv, SentCMInv, PeerInv, [Next]_vars, ~PeerMisled,
           AloneInNamespace, AloneInNamespace'
    PROVE  PeerInv'
<1>1. shuttingDown = FALSE
  BY DEF HeardInv
<1>2. \A p \in Pods : PodStream(p)'
  BY NextPodStream DEF PeerInv
<1>3. \A n \in Namespaces : CMUpToDate(n)'
  BY NextCMFlow, CMFlowUpToDate DEF PeerInv
<1>4. \A n \in Namespaces : Settled(n)'
  BY <1>1, NextSettled
<1>5. \A w \in Workers : Knows(w)'
  BY <1>1, NextKnows DEF PeerInv
<1>6. QED
  BY <1>2, <1>3, <1>4, <1>5 DEF PeerInv

LEMMA InitPeerInv == Init => PeerInv
<1> SUFFICES ASSUME Init PROVE PeerInv
  OBVIOUS
<1>1. PICK s \in Scenarios : /\ ClusterInit(s)
                             /\ IF s.deployed THEN DeployedInit ELSE StartInit
  BY DEF Init
<1>2. \A w \in Workers : Knows(w)
  BY DEF Init, Knows, Lists
<1>3. ASSUME NEW p \in Pods PROVE PodStream(p)
  <2>1. podWatch[p] = <<>>
    BY <1>1 DEF ClusterInit
  <2>2. podCache[p] = PhaseOf(p)
    BY <1>1 DEF StartInit, DeployedInit, PhaseOf
  <2>3. Len(<<>>) = 0
    OBVIOUS
  <2>4. QED
    BY <2>1, <2>2, <2>3 DEF PodStream, Ends, Changes
<1>4. ASSUME NEW n \in Namespaces PROVE CMUpToDate(n)
  <2>1. cmWatch[n] = <<>>
    BY <1>1 DEF ClusterInit
  <2>2. cmCache[n] = cm[n]
    BY <1>1 DEF StartInit, DeployedInit
  <2>3. QED
    BY <2>1, <2>2 DEF CMUpToDate, SameVersion
<1>5. ASSUME NEW n \in Namespaces PROVE Settled(n)
  <2>1. CASE StartInit
    BY <2>1 DEF StartInit, Settled, Called, Own
  <2>2. CASE DeployedInit
    <3>1. PICK owner \in [Namespaces -> {k \in Keys : hab[k] # None}],
               leader \in [Namespaces -> (Pods \X {1}) \cup {NoIP}] :
            /\ \A m \in Namespaces :
                 IF RunningIPs(m) = {} THEN leader[m] = NoIP ELSE leader[m] \in RunningIPs(m)
            /\ cm = [m \in Namespaces |->
                       [rv |-> 1, ip |-> leader[m], owner |-> <<owner[m], 1>>]]
      BY <2>2 DEF DeployedInit
    <3>2. PICK c : c = [rv |-> 1, ip |-> leader[n], owner |-> <<owner[n], 1>>] /\ cm[n] = c
      BY <3>1
    <3>3. c.ip = leader[n]
      BY <3>2
    <3>4. cm[n] # None
      <4>1. TypeInv
        BY InitTypeInv
      <4>2. leader[n] \in PodIPs \cup {NoIP} /\ owner[n] \in Keys
        BY ClusterAssumption DEF PodIPs, Pods, ClusterAssumption
      <4>3. c \in ConfigMaps
        BY <3>2, <4>2 DEF ConfigMaps
      <4>4. QED
        BY <3>2, <4>3, NoneIsNoConfigMap
    <3>5. QED
      BY <3>1, <3>2, <3>3, <3>4 DEF PeerValid, Settled
  <2>3. QED
    BY <1>1, <2>1, <2>2
<1>6. QED
  BY <1>2, <1>3, <1>4, <1>5 DEF PeerInv

LEMMA PeerInvAtRest == TypeInv /\ HeardInv /\ PeerInv => RestMeansPeerValid
<1> SUFFICES ASSUME TypeInv, HeardInv, PeerInv, AtRest, NEW n \in Namespaces,
                    NEW k \in Keys, NsOf[k] = n, Desired(k)
             PROVE  PeerValid(n)
  BY DEF RestMeansPeerValid
<1>1. /\ dirty = {} /\ processing = {} /\ waitingForAddCh = <<>>
      /\ waitingEntries = {} /\ habWatch[k] = <<>> /\ cmWatch[n] = <<>>
      /\ \A m \in Namespaces : cmTodo[m] = {}
      /\ \A p \in Pods : podWatch[p] = <<>>
  BY DEF AtRest, Idle
<1>2. Own(habCache[k])
  BY <1>1 DEF HeardInv, UpToDate, Desired, Own
<1>3. \A j \in Keys : ~Alerted(j)
  BY <1>1 DEF Alerted, Marked, InChannel
<1>4. \A p \in Pods : ~PodNews(p)
  BY <1>1 DEF PodNews, News
<1>5. WorkersIn(n) = {}
  BY <1>1 DEF WorkersIn, TypeInv, MutexInv, WorkersOK, ProcessingIsHeld, Holds
<1>6. QED
  BY <1>1, <1>2, <1>3, <1>4, <1>5 DEF PeerInv, Settled, Called

(* None of the disturbances leaves everything as it is. *)
LEMMA MisledChanges ==
    ASSUME TypeInv, PeerMisled PROVE ~UNCHANGED vars
<1> SUFFICES ASSUME UNCHANGED vars PROVE FALSE
  OBVIOUS
<1>1. UNCHANGED <<budget, wpc, podWatch, habCache>>
  BY DEF vars, clusterVars, watchVars, workerVars, informerVars
<1>2. ~FailedWrite
  BY <1>1, SpendChanges DEF FailedWrite, ApiCallFails, Kinds
<1>3. ~PodEventsLost
  BY <1>1, SpendChanges DEF PodEventsLost, RelistPods, Kinds
<1>4. (~\E k \in Keys : HandedOver(k)) /\ ~CMDeletionLost
  BY <1>1, SpendChanges DEF HandedOver, CMDeletionLost, RelistCMs, Kinds
<1>5. ~\E w \in Workers : LookupHab(w)
  <2> SUFFICES ASSUME NEW w \in Workers, LookupHab(w) PROVE FALSE
    OBVIOUS
  <2>1. PICK step, j : /\ Goto(w, step, j) /\ wpc[w] = "Lookup"
                       /\ step \in {"Done", "Requeue", "Build", "CreateSts"}
    BY DEF LookupHab
  <2>2. wpc'[w] = step
    BY <2>1 DEF Goto, TypeInv, MutexInv, WorkersOK
  <2>3. QED
    BY <1>1, <2>1, <2>2
<1>6. ~\E p \in Pods : PodEvent(p)
  <2> SUFFICES ASSUME NEW p \in Pods, PodEvent(p) PROVE FALSE
    OBVIOUS
  <2>1. PICK q \in Seq(Phases) : q = podWatch[p] /\ q # <<>>
    BY DEF PodEvent, TypeInv, ClusterTypeOK, Phases
  <2>2. Tail(q) = q
    BY <1>1, <2>1 DEF PodEvent, TypeInv, ClusterTypeOK
  <2>3. Len(Tail(q)) = Len(q) - 1 /\ Len(q) \in Nat
    BY <2>1
  <2>4. QED
    BY <2>2, <2>3
<1>7. QED
  BY <1>2, <1>3, <1>4, <1>5, <1>6 DEF PeerMisled, Dismissed

(* When no two workers run conform in one namespace and nobody is misled:   *)
(* an operator that has come to rest leaves the IP of a running pod in the  *)
(* peer ConfigMap of each namespace it deploys to, or none when no pod runs *)
(* (design.md:43-47).  An update of the ConfigMap that fails, events of     *)
(* pods lost when the watch breaks, a Habitat handed over with its          *)
(* customVersion only, and a wakeup dismissed with the Habitat it is about  *)
(* each leave a wrong IP to the ConfigMap's resync; a deletion of the       *)
(* ConfigMap lost when the watch breaks (controller.go:302-307) leaves none *)
(* that could be resynced.                                                  *)
THEOREM PeerValidAtRest ==
    Spec /\ []AloneInNamespace /\ [][~PeerMisled]_vars => []RestMeansPeerValid
<1>1. Init => HeardInv /\ SharedCMInv /\ SentCMInv /\ PeerInv
  BY InitWakeup, InitSharedCMInv, InitPeerInv DEF WakeupInv, HeardInv
<1>2. TypeInv /\ TypeInv' /\ SharedCMInv /\ HeardInv /\ SentCMInv /\ PeerInv
        /\ AloneInNamespace /\ AloneInNamespace' /\ [Next]_vars /\ [~PeerMisled]_vars
        => HeardInv' /\ SentCMInv' /\ PeerInv'
  <2>1. TypeInv /\ [~PeerMisled]_vars => ~PeerMisled
    BY MisledChanges
  <2>2. TypeInv /\ HeardInv /\ [Next]_vars => HeardInv'
    BY NextHeard
  <2>3. ~PeerMisled => ~FailedWrite
    BY DEF PeerMisled
  <2>4. QED
    BY <2>1, <2>2, <2>3, NextSentCMInv, NextPeerInv
<1>3. TypeInv /\ HeardInv /\ PeerInv => RestMeansPeerValid
  BY PeerInvAtRest
<1>4. QED
  BY <1>1, <1>2, <1>3, TypeInvariant, SharedCMInvariant, PTL DEF Spec

(* One worker is never in another's way. *)
COROLLARY OneWorkerPeerValid ==
    ASSUME \A v, w \in Workers : v = w
    PROVE  Spec /\ [][~PeerMisled]_vars => []RestMeansPeerValid
<1>1. AloneInNamespace
  BY DEF AloneInNamespace, WorkersIn
<1>2. QED
  BY <1>1, PeerValidAtRest, PTL

(* Nor are any number of workers when no two Habitats share a namespace;   *)
(* and then no wakeup is dismissed that another Habitat needs.              *)
COROLLARY OneHabitatPeerValid ==
    ASSUME \A k, l \in Keys : NsOf[k] = NsOf[l] => k = l
    PROVE  Spec /\ [][/\ ~FailedWrite /\ ~PodEventsLost /\ ~CMDeletionLost
                      /\ \A k \in Keys : ~HandedOver(k)]_vars
             => []RestMeansPeerValid
<1>1. TypeInv => AloneInNamespace
  BY DEF TypeInv, MutexInv, WorkersOK, OneWorkerPerHabitat, Holds, AloneInNamespace, WorkersIn
<1>2. [/\ ~FailedWrite /\ ~PodEventsLost /\ ~CMDeletionLost
       /\ \A k \in Keys : ~HandedOver(k)]_vars
        => [~PeerMisled]_vars
  BY DEF PeerMisled, Dismissed
<1>3. QED
  BY <1>1, <1>2, PeerValidAtRest, TypeInvariant, PTL
=============================================================================
