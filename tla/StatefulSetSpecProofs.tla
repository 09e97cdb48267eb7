------------------------ MODULE StatefulSetSpecProofs ------------------------
(***************************************************************************)
(* What holds of the StatefulSet of every Habitat that passes validation,  *)
(* whatever the strings in its spec.                                       *)
(***************************************************************************)
EXTENDS StatefulSetSpec, TLAPS

\* The name of the ring's volume is none of the others.
LEMMA RingIsNotOwn ==
    ASSUME NEW s, validateCustomObject({s}), NEW x \in s.ringSecret
    PROVE  x \notin OwnVolumes
BY RingAssumption DEF validateCustomObject

\* Where a volume comes from, and that each of these is one.
LEMMA VolumeKinds ==
    ASSUME NEW s, NEW v \in volumes(s)
    PROVE  \/ v = [name |-> "config", from |-> "peer ConfigMap"]
           \/ \E x \in s.configSecret : v = [name |-> "user-config", from |-> x]
           \/ \E x \in s.filesSecret : \/ v = [name |-> "files-secrets", from |-> x]
                                       \/ v = [name |-> "files", from |-> "emptyDir"]
           \/ \E x \in s.ringSecret : v = [name |-> x, from |-> x]
BY DEF volumes

\* A volume by its name and its source.
LEMMA VolumeFields ==
    ASSUME NEW s, NEW v \in volumes(s)
    PROVE  /\ v = [name |-> v.name, from |-> v.from]
           /\ \/ v.name = "config" /\ v.from = "peer ConfigMap"
              \/ v.name = "user-config" /\ v.from \in s.configSecret
              \/ v.name = "files-secrets" /\ v.from \in s.filesSecret
              \/ v.name = "files" /\ v.from = "emptyDir"
              \/ v.name \in s.ringSecret /\ v.from = v.name
<1>1. CASE v = [name |-> "config", from |-> "peer ConfigMap"]
  BY <1>1
<1>2. CASE \E x \in s.configSecret : v = [name |-> "user-config", from |-> x]
  <2>1. PICK x \in s.configSecret : v = [name |-> "user-config", from |-> x]
    BY <1>2
  <2>2. v.name = "user-config" /\ v.from = x
    BY <2>1
  <2> QED
    BY <2>1, <2>2
<1>3. CASE \E x \in s.filesSecret : \/ v = [name |-> "files-secrets", from |-> x]
                                    \/ v = [name |-> "files", from |-> "emptyDir"]
  <2>1. CASE \E x \in s.filesSecret : v = [name |-> "files-secrets", from |-> x]
    <3>1. PICK x \in s.filesSecret : v = [name |-> "files-secrets", from |-> x]
      BY <2>1
    <3>2. v.name = "files-secrets" /\ v.from = x
      BY <3>1
    <3> QED
      BY <3>1, <3>2
  <2>2. CASE v = [name |-> "files", from |-> "emptyDir"]
    BY <2>2
  <2> QED
    BY <1>3, <2>1, <2>2
<1>4. CASE \E x \in s.ringSecret : v = [name |-> x, from |-> x]
  <2>1. PICK x \in s.ringSecret : v = [name |-> x, from |-> x]
    BY <1>4
  <2>2. v.name = x /\ v.from = x
    BY <2>1
  <2> QED
    BY <2>1, <2>2
<1> QED
  BY <1>1, <1>2, <1>3, <1>4, VolumeKinds

\* Each of the names the mounts refer to is the name of a volume.
LEMMA NamedVolumes ==
    ASSUME NEW s
    PROVE  /\ "config" \in volumeNames(s)
           /\ s.configSecret # {} => "user-config" \in volumeNames(s)
           /\ s.filesSecret # {} => {"files-secrets", "files"} \subseteq volumeNames(s)
           /\ s.ringSecret \subseteq volumeNames(s)
<1>1. ASSUME NEW n, NEW f, [name |-> n, from |-> f] \in volumes(s)
      PROVE  n \in volumeNames(s)
  <2>1. [name |-> n, from |-> f].name = n
    OBVIOUS
  <2> QED
    BY <1>1, <2>1 DEF volumeNames
<1>2. [name |-> "config", from |-> "peer ConfigMap"] \in volumes(s)
  BY DEF volumes
<1>3. ASSUME NEW x \in s.configSecret PROVE [name |-> "user-config", from |-> x] \in volumes(s)
  BY DEF volumes
<1>4. ASSUME NEW x \in s.filesSecret
      PROVE  /\ [name |-> "files-secrets", from |-> x] \in volumes(s)
             /\ [name |-> "files", from |-> "emptyDir"] \in volumes(s)
  BY DEF volumes
<1>5. ASSUME NEW x \in s.ringSecret PROVE [name |-> x, from |-> x] \in volumes(s)
  BY DEF volumes
<1> QED
  BY <1>1, <1>2, <1>3, <1>4, <1>5

\* What a mount refers to.
LEMMA MountedNames ==
    ASSUME NEW s, NEW n \in mountedNames(s)
    PROVE  \/ n = "config"
           \/ n = "user-config" /\ s.configSecret # {}
           \/ n \in {"files-secrets", "files"} /\ s.filesSecret # {}
           \/ n = "persistent" /\ s.storage # {}
           \/ n \in s.ringSecret
<1>1. PICK m \in volumeMounts(s) \union initMounts(s) : n = m.name
  BY DEF mountedNames
<1>2. CASE m = [name |-> "config", path |-> <<"/habitat-operator">>]
  BY <1>1, <1>2
<1>3. CASE \E x \in s.configSecret : m = [name |-> "user-config", path |-> <<"/hab/user", s.name>>]
  BY <1>1, <1>3
<1>4. CASE \E x \in s.filesSecret : \/ m = [name |-> "files-secrets", path |-> <<"/mnt/files">>]
                                    \/ m = [name |-> "files", path |-> <<"/hab/svc", s.name>>]
  BY <1>1, <1>4
<1>5. CASE \E p \in s.storage : m = [name |-> "persistent", path |-> <<p.path>>]
  BY <1>1, <1>5
<1>6. CASE \E x \in s.ringSecret : m = [name |-> x, path |-> <<"/hab/cache/keys">>]
  BY <1>1, <1>6
<1>7. CASE m \in volumeMounts(s)
  BY <1>2, <1>3, <1>4, <1>5, <1>6, <1>7 DEF volumeMounts
<1>8. CASE m \in initMounts(s)
  BY <1>4, <1>8 DEF initMounts
<1> QED
  BY <1>1, <1>7, <1>8

\* The claim is for the persistent storage.
LEMMA ClaimNames ==
    ASSUME NEW s, NEW namespace
    PROVE  /\ claimNames(s, namespace) \subseteq {"persistent"}
           /\ s.storage # {} => "persistent" \in claimNames(s, namespace)
<1> DEFINE Claim(p) == [name |-> "persistent", namespace |-> namespace,
                        size |-> p.size, class |-> p.class]
<1>1. volumeClaimTemplates(s, namespace) = {Claim(p) : p \in s.storage}
  BY DEF volumeClaimTemplates
<1>2. \A p \in s.storage : Claim(p).name = "persistent"
  OBVIOUS
<1> HIDE DEF Claim
<1> QED
  BY <1>1, <1>2 DEF claimNames

\* Every mount of a pod has a volume or a claim it comes from, and never both:
\* the API server would refuse the StatefulSet or the pods would not start
\* (stateful_sets.go:163-351).
THEOREM MountsResolve ==
    ASSUME NEW s, NEW namespace, validateCustomObject({s})
    PROVE  /\ mountedNames(s) \subseteq volumeNames(s) \union claimNames(s, namespace)
           /\ volumeNames(s) \cap claimNames(s, namespace) = {}
<1>1. ASSUME NEW n \in mountedNames(s)
      PROVE  n \in volumeNames(s) \union claimNames(s, namespace)
  BY MountedNames, NamedVolumes, ClaimNames
<1>2. ASSUME NEW n \in volumeNames(s) PROVE n # "persistent"
  <2>1. PICK v \in volumes(s) : n = v.name
    BY DEF volumeNames
  <2>2. "persistent" \notin s.ringSecret
    BY RingIsNotOwn DEF OwnVolumes
  <2> QED
    BY <2>1, <2>2, VolumeFields
<1> QED
  BY <1>1, <1>2, ClaimNames

\* No two volumes of a pod share a name (stateful_sets.go:163-345).
THEOREM VolumesAreDistinct ==
    ASSUME NEW s, validateCustomObject({s}),
           \A x, y \in s.configSecret : x = y,
           \A x, y \in s.filesSecret : x = y,
           NEW v \in volumes(s), NEW w \in volumes(s), v.name = w.name
    PROVE  v = w
<1>1. \A x \in s.ringSecret : x \notin OwnVolumes
  BY RingIsNotOwn
<1>2. v.from = w.from
  BY <1>1, VolumeFields DEF OwnVolumes
<1> QED
  BY <1>2, VolumeFields

\* An edit of the count alone leaves the pod template as it is, so that conform
\* deletes no pod for it (controller.go:644).
THEOREM CountKeepsTemplate ==
    ASSUME NEW Strings, NEW s \in HabitatSpecs(Strings), NEW n \in Int
    PROVE  podTemplate([s EXCEPT !.count = n]) = podTemplate(s)
<1> DEFINE t == [s EXCEPT !.count = n]
<1>1. /\ t.image = s.image /\ t.env = s.env /\ t.name = s.name
      /\ t.group = s.group /\ t.channel = s.channel /\ t.topology = s.topology
      /\ t.bind = s.bind /\ t.configSecret = s.configSecret
      /\ t.filesSecret = s.filesSecret /\ t.ringSecret = s.ringSecret
      /\ t.storage = s.storage
  BY DEF HabitatSpecs
<1>2. topology(t) = topology(s)
  BY <1>1 DEF topology
<1>3. habArgs(t) = habArgs(s)
  BY <1>1, <1>2 DEF habArgs
<1>4. volumes(t) = volumes(s) /\ volumeMounts(t) = volumeMounts(s) /\ initMounts(t) = initMounts(s)
  BY <1>1 DEF volumes, volumeMounts, initMounts
<1> HIDE DEF t
<1> QED
  BY <1>1, <1>2, <1>3, <1>4 DEF podTemplate, t

\* The replicas are the count as long as it fits into 32 bits, and a larger one
\* comes out negative first (stateful_sets.go:37).
THEOREM ReplicasWrap ==
    ASSUME NEW n \in Int, -Span <= n, n < 2 * Span
    PROVE  int32(n) = IF n <= MaxInt32 THEN n ELSE n - 2 * Span
<1>1. Span \in Int /\ Span > 0 /\ MaxInt32 = Span - 1
  BY WidthAssumption DEF Span
<1>2. ASSUME NEW x \in Int, NEW w \in Int, w > 0, x >= 0, x < w PROVE x % w = x
  BY <1>2, SMT
<1>3. ASSUME NEW x \in Int, NEW w \in Int, w > 0, x >= w, x < 2 * w PROVE x % w = x - w
  BY <1>3, SMT
<1>4. CASE n < Span
  <2>1. (n + Span) % (2 * Span) = n + Span
    BY <1>1, <1>2, <1>4
  <2> QED
    BY <1>1, <1>4, <2>1 DEF int32
<1>5. CASE n >= Span
  <2>1. (n + Span) % (2 * Span) = n - Span
    BY <1>1, <1>3, <1>5
  <2> QED
    BY <1>1, <1>5, <2>1 DEF int32
<1> QED
  BY <1>1, <1>4, <1>5

\* A StatefulSet is built only when the secrets that fill its pods' volumes were
\* found.  Kubernetes takes them from the pods' namespace, and so does the code
\* of the ones with configuration and with files (stateful_sets.go:168, 203); the
\* ring key's it looks for in the namespace "default" (stateful_sets.go:306), so
\* that it may be missing where the pods are.
THEOREM SecretsAreChecked ==
    ASSUME NEW s, validateCustomObject({s}),
           NEW namespace, NEW secrets, Buildable(s, namespace, secrets),
           NEW v \in volumes(s), v.name \notin {"config", "files"}
    PROVE  IF v.name \in s.ringSecret THEN <<"default", v.from>> \in secrets
                                      ELSE <<namespace, v.from>> \in secrets
<1>1. CASE v.name \in {"user-config", "files-secrets"}
  <2>1. v.name \notin s.ringSecret
    BY <1>1, RingIsNotOwn DEF OwnVolumes
  <2>2. v.from \in s.configSecret \union s.filesSecret
    BY <1>1, <2>1, VolumeFields
  <2> QED
    BY <2>1, <2>2 DEF Buildable, secretsRead
<1>2. CASE v.name \in s.ringSecret /\ v.from = v.name
  BY <1>2 DEF Buildable, secretsRead
<1> QED
  BY <1>1, <1>2, VolumeFields
=============================================================================
