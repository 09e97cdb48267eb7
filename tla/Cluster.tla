------------------------------ MODULE Cluster ------------------------------
(***************************************************************************)
(* The Kubernetes cluster as the controller uses it: the objects the API   *)
(* server stores, the watch streams that carry their changes to the        *)
(* informers, and the actors that change them without the operator: users, *)
(* the StatefulSet controller, the kubelets and the garbage collector.     *)
(* Every action here is external to the repository.                        *)
(*                                                                         *)
(* A Habitat key stands for its name in its namespace; the StatefulSet it  *)
(* gets has the same key, its pods are numbered by Slots.  A spec is       *)
(* abstracted to what the controller's decisions depend on.                *)
(***************************************************************************)
EXTENDS HabitatKeys, Naturals, Sequences

CONSTANTS
    Namespaces,
    NsOf,        \* the namespace of each key
    MaxCount,    \* the largest replica count
    Specs,       \* [valid, needsSecret, template, storage, count] records
    Scenarios,   \* [habs, deployed, budget] records: the Habitats that exist
                 \* when the operator starts, whether it deployed them in an
                 \* earlier life, how often each disturbance may happen
    None,        \* no object
    NoIP         \* the empty peer IP

Templates == {s.template : s \in Specs}
Storages == {s.storage : s \in Specs}

(* "create" to "tamper" are the users' ("createIdle" wants no pods,        *)
(* "respec" is an edit that keeps the count, "scale" one that changes      *)
(* nothing else), "kill" deletes a pod, "fault" makes an API call fail,    *)
(* "relist" breaks a watch, "crash" kills the operator, "status" is a      *)
(* status update of a StatefulSet, "resync" a resync of the ConfigMap      *)
(* informer while the operator is busy, "collect" a garbage collection     *)
(* that is faster than the news of the Habitat's deletion.                 *)
Kinds == {"create", "createIdle", "edit", "respec", "scale", "custom", "delete",
          "secret", "tamper", "kill", "fault", "relist", "crash", "status",
          "resync", "collect"}

Slots == 0..(MaxCount - 1)
Pods == Keys \X Slots
PodIPs == Pods \X (Nat \ {0})

Habs == [uid : Nat, gen : Nat, spec : Specs, custom : BOOLEAN]
StatefulSets == [owner : Nat, template : Templates, storage : Storages,
                 count : 0..MaxCount]
PodObjects == [phase : {"Pending", "Running"}, terminating : BOOLEAN,
               template : Templates, ip : PodIPs \cup {NoIP}]
ConfigMaps == [rv : Nat, ip : PodIPs \cup {NoIP}, owner : Keys \X Nat]

ASSUME ClusterAssumption ==
    /\ NsOf \in [Keys -> Namespaces]
    /\ MaxCount \in Nat
    /\ Specs \subseteq [valid : BOOLEAN, needsSecret : BOOLEAN,
                        template : Templates, storage : Storages,
                        count : 0..MaxCount]
    /\ Scenarios \subseteq [habs : [Keys -> Habs \cup {None}],
                            deployed : BOOLEAN, budget : [Kinds -> Nat]]
    /\ None \notin Habs \cup StatefulSets \cup PodObjects \cup ConfigMaps
    /\ NoIP \notin PodIPs
    /\ \A s \in Scenarios, k \in Keys :
           s.habs[k] # None => s.habs[k].uid = 1 /\ s.habs[k].gen = 1

VARIABLES
    hab,       \* the Habitats stored
    habGen,    \* the last generation used for each Habitat, over all its lives
    sts,       \* the StatefulSets stored
    pod,       \* the pods stored
    podGen,    \* how many IPs each pod name had
    cm,        \* the peer ConfigMap of each namespace
    cmGen,     \* the last resource version used for it
    secrets,   \* Habitats the secrets of which exist
    habWatch,  \* Habitat versions on their way to the informer
    cmWatch,   \* ConfigMap versions on their way
    podWatch,  \* pod phases on their way; "None" for a deletion
    stsWatch,  \* whether a StatefulSet event is on its way
    budget

objectVars == <<hab, habGen, sts, pod, podGen, cm, cmGen, secrets>>
watchVars == <<habWatch, cmWatch, podWatch, stsWatch>>
clusterVars == <<objectVars, watchVars, budget>>

Spend(kind) ==
    /\ budget[kind] > 0
    /\ budget' = [budget EXCEPT ![kind] = @ - 1]

PhaseOf(p) == IF pod[p] = None THEN "None" ELSE pod[p].phase

PodsOf(k) == {p \in Pods : p[1] = k /\ pod[p] # None}

(* What listing a namespace's pods with status.phase=Running returns; a    *)
(* pod that terminates is Running until its containers have stopped.       *)
RunningPods(n) ==
    {p \in Pods : NsOf[p[1]] = n /\ pod[p] # None /\ pod[p].phase = "Running"}

RunningIPs(n) == {pod[p].ip : p \in RunningPods(n)}

(* The garbage collector leaves an object without an owner reference alone. *)
NoUID == 0

Live(owner) ==
    \/ owner[2] = NoUID
    \/ hab[owner[1]] # None /\ hab[owner[1]].uid = owner[2]

(* The initial list of every informer. *)
ListHabs == [k \in Keys |-> IF hab[k] = None THEN <<>> ELSE <<hab[k]>>]
ListCMs == [n \in Namespaces |-> IF cm[n] = None THEN <<>> ELSE <<cm[n]>>]
ListPods == [p \in Pods |-> IF pod[p] = None THEN <<>> ELSE <<PhaseOf(p)>>]
ListSts == [k \in Keys |-> sts[k] # None]

ClusterInit(s) ==
    /\ hab = s.habs
    /\ habGen = [k \in Keys |-> IF hab[k] = None THEN 0 ELSE 1]
    /\ secrets = {}
    /\ cmWatch = [n \in Namespaces |-> <<>>]
    /\ podWatch = [p \in Pods |-> <<>>]
    /\ stsWatch = [k \in Keys |-> FALSE]
    /\ budget = s.budget

-----------------------------------------------------------------------------
(* Writes of the API server.                                               *)

StoreHab(k, h) ==
    /\ hab' = [hab EXCEPT ![k] = h]
    /\ habWatch' = [habWatch EXCEPT ![k] = Append(@, h)]

StoreCM(n, c) ==
    /\ cm' = [cm EXCEPT ![n] = c]
    /\ cmWatch' = [cmWatch EXCEPT ![n] = Append(@, c)]

StoreSts(k, s) ==
    /\ sts' = [sts EXCEPT ![k] = s]
    /\ stsWatch' = [stsWatch EXCEPT ![k] = @ \/ s # sts[k]]

(* Delete the pods in gone: a pending one disappears, a running one        *)
(* terminates, which does not change its phase.                            *)
DeletePods(gone) ==
    /\ pod' = [p \in Pods |->
                  IF p \notin gone THEN pod[p]
                  ELSE IF pod[p].phase = "Pending" THEN None
                  ELSE [pod[p] EXCEPT !.terminating = TRUE]]
    /\ podWatch' = [p \in Pods |->
                  IF p \in gone /\ pod[p].phase = "Pending"
                    THEN Append(podWatch[p], "None") ELSE podWatch[p]]

(* A StatefulSet is deleted together with its pods. *)
RemoveSts(k) == StoreSts(k, None) /\ DeletePods(PodsOf(k))

-----------------------------------------------------------------------------
(* Users.                                                                  *)

CreateHab(k) ==
    /\ hab[k] = None
    /\ habGen' = [habGen EXCEPT ![k] = @ + 1]
    /\ \E s \in Specs :
         /\ \/ Spend("create")
            \/ s.count = 0 /\ Spend("createIdle")
         /\ StoreHab(k, [uid |-> habGen[k] + 1, gen |-> habGen[k] + 1,
                         spec |-> s, custom |-> TRUE])
    /\ UNCHANGED <<sts, pod, podGen, cm, cmGen, secrets,
                   cmWatch, podWatch, stsWatch>>

EditHab(k) ==
    /\ hab[k] # None
    /\ habGen' = [habGen EXCEPT ![k] = @ + 1]
    /\ \/ \E s \in Specs \ {hab[k].spec} :
            /\ \/ Spend("edit")
               \/ s.count = hab[k].spec.count /\ Spend("respec")
               \/ s = [hab[k].spec EXCEPT !.count = s.count] /\ Spend("scale")
            /\ StoreHab(k, [hab[k] EXCEPT !.spec = s, !.gen = habGen[k] + 1])
       \/ /\ Spend("custom")
          /\ StoreHab(k, [hab[k] EXCEPT !.custom = ~@, !.gen = habGen[k] + 1])
    /\ UNCHANGED <<sts, pod, podGen, cm, cmGen, secrets,
                   cmWatch, podWatch, stsWatch>>

DeleteHab(k) ==
    /\ hab[k] # None
    /\ Spend("delete")
    /\ StoreHab(k, None)
    /\ UNCHANGED <<habGen, sts, pod, podGen, cm, cmGen, secrets,
                   cmWatch, podWatch, stsWatch>>

(* A user creates or deletes the secret a Habitat refers to. *)
ToggleSecret(k) ==
    /\ Spend("secret")
    /\ secrets' = IF k \in secrets THEN secrets \ {k} ELSE secrets \cup {k}
    /\ UNCHANGED <<hab, habGen, sts, pod, podGen, cm, cmGen, watchVars>>

(* A user changes or deletes a StatefulSet behind the operator's back. *)
TamperSts(k) ==
    /\ sts[k] # None
    /\ Spend("tamper")
    /\ \/ /\ \E t \in Templates \ {sts[k].template} :
               StoreSts(k, [sts[k] EXCEPT !.template = t])
          /\ UNCHANGED <<pod, podWatch>>
       \/ /\ \E c \in {s.count : s \in Specs} \ {sts[k].count} :
               StoreSts(k, [sts[k] EXCEPT !.count = c])
          /\ UNCHANGED <<pod, podWatch>>
       \/ RemoveSts(k)
    /\ UNCHANGED <<hab, habGen, podGen, cm, cmGen, secrets,
                   habWatch, cmWatch>>

KillPod(p) ==
    /\ pod[p] # None /\ ~pod[p].terminating
    /\ Spend("kill")
    /\ DeletePods({p})
    /\ UNCHANGED <<hab, habGen, sts, podGen, cm, cmGen, secrets,
                   habWatch, cmWatch, stsWatch>>

-----------------------------------------------------------------------------
(* The StatefulSet controller (update strategy OnDelete, pods managed in   *)
(* parallel), the kubelets and the garbage collector.                      *)

StartPod(p) ==
    /\ sts[p[1]] # None /\ p[2] < sts[p[1]].count
    /\ pod[p] = None
    /\ pod' = [pod EXCEPT ![p] = [phase |-> "Pending", terminating |-> FALSE,
                                  template |-> sts[p[1]].template,
                                  ip |-> NoIP]]
    /\ podWatch' = [podWatch EXCEPT ![p] = Append(@, "Pending")]
    /\ UNCHANGED <<hab, habGen, sts, podGen, cm, cmGen, secrets,
                   habWatch, cmWatch, stsWatch, budget>>

ScaleDown(p) ==
    /\ sts[p[1]] # None /\ p[2] >= sts[p[1]].count
    /\ pod[p] # None /\ ~pod[p].terminating
    /\ DeletePods({p})
    /\ UNCHANGED <<hab, habGen, sts, podGen, cm, cmGen, secrets,
                   habWatch, cmWatch, stsWatch, budget>>

PodRuns(p) ==
    /\ pod[p] # None /\ pod[p].phase = "Pending"
    /\ podGen' = [podGen EXCEPT ![p] = @ + 1]
    /\ pod' = [pod EXCEPT ![p].phase = "Running",
                          ![p].ip = <<p, podGen[p] + 1>>]
    /\ podWatch' = [podWatch EXCEPT ![p] = Append(@, "Running")]
    /\ UNCHANGED <<hab, habGen, sts, cm, cmGen, secrets,
                   habWatch, cmWatch, stsWatch, budget>>

PodGone(p) ==
    /\ pod[p] # None /\ pod[p].terminating
    /\ pod' = [pod EXCEPT ![p] = None]
    /\ podWatch' = [podWatch EXCEPT ![p] = Append(@, "None")]
    /\ UNCHANGED <<hab, habGen, sts, podGen, cm, cmGen, secrets,
                   habWatch, cmWatch, stsWatch, budget>>

(* Until the informer knows of the deletion the operator recreates what is *)
(* collected, round after round: these rounds are bounded.                 *)
MayCollect(k) == IF habWatch[k] = <<>> THEN UNCHANGED budget ELSE Spend("collect")

CollectSts(k) ==
    /\ sts[k] # None /\ ~Live(<<k, sts[k].owner>>)
    /\ MayCollect(k)
    /\ RemoveSts(k)
    /\ UNCHANGED <<hab, habGen, podGen, cm, cmGen, secrets,
                   habWatch, cmWatch>>

CollectCM(n) ==
    /\ cm[n] # None /\ ~Live(cm[n].owner)
    /\ MayCollect(cm[n].owner[1])
    /\ StoreCM(n, None)
    /\ UNCHANGED <<hab, habGen, sts, pod, podGen, cmGen, secrets,
                   habWatch, podWatch, stsWatch>>

UserStep ==
    \/ \E k \in Keys : \/ CreateHab(k) \/ EditHab(k) \/ DeleteHab(k)
                       \/ ToggleSecret(k) \/ TamperSts(k)
    \/ \E p \in Pods : KillPod(p)

PodStep(p) == StartPod(p) \/ ScaleDown(p) \/ PodRuns(p) \/ PodGone(p)

ClusterTypeOK ==
    /\ hab \in [Keys -> Habs \cup {None}]
    /\ habGen \in [Keys -> Nat]
    /\ sts \in [Keys -> StatefulSets \cup {None}]
    /\ pod \in [Pods -> PodObjects \cup {None}]
    /\ podGen \in [Pods -> Nat]
    /\ cm \in [Namespaces -> ConfigMaps \cup {None}]
    /\ cmGen \in [Namespaces -> Nat]
    /\ secrets \subseteq Keys
    /\ habWatch \in [Keys -> Seq(Habs \cup {None})]
    /\ cmWatch \in [Namespaces -> Seq(ConfigMaps \cup {None})]
    /\ podWatch \in [Pods -> Seq({"None", "Pending", "Running"})]
    /\ stsWatch \in [Keys -> BOOLEAN]
    /\ budget \in [Kinds -> Nat]
=============================================================================
