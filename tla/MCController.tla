---------------------------- MODULE MCController ----------------------------
(***************************************************************************)
(* Instances of HabitatController for TLC: one or two Habitats, one or two *)
(* workers, up to two pods each, and the disturbances a run looks at.      *)
(***************************************************************************)
EXTENDS HabitatController, StatefulSetSpec, TLC

CONSTANTS h1, h2, n1

(* Specs: the template, storage and count of a Habitat. *)
SpecOf(template, storage, count) ==
    [valid |-> TRUE, needsSecret |-> FALSE, template |-> template,
     storage |-> storage, count |-> count]

OnePod == SpecOf(1, 0, 1)
NoPod == SpecOf(1, 0, 0)
TwoPods == SpecOf(1, 0, 2)
NewTemplate == SpecOf(2, 0, 1)

Few == {OnePod, NoPod}
Templates2 == {OnePod, NewTemplate, NoPod}
(* Pods are only scaled, and only what has no pods meets with failures:    *)
(* what a failure does to the peer IP is the run FailedWrite.              *)
Unused == SpecOf(3, 0, 0)
Various == {TwoPods, OnePod, Unused, SpecOf(2, 0, 0), SpecOf(3, 1, 0),
            [Unused EXCEPT !.valid = FALSE],
            [SpecOf(4, 0, 0) EXCEPT !.needsSecret = TRUE]}

(* The specs in full, as they are in the API server.  HabitatController may *)
(* tell them apart by their five fields only if these say what the code    *)
(* makes of the full spec: whether it is valid, which secrets are looked   *)
(* up, which pods and claims it asks for, and how many.                    *)
RingNames == ("ring-20190101000000" :> "ring")
Sizes == {"1Gi", "2Gi"}

Image == <<"app:1", "app:2", "app:3", "app:3">>
Full(s) ==
    [count |-> s.count, image |-> Image[s.template], env |-> {}, name |-> "app",
     group |-> {}, channel |-> {}, topology |-> "leader", bind |-> {},
     configSecret |-> IF s.needsSecret THEN {"settings"} ELSE {}, filesSecret |-> {},
     ringSecret |-> IF s.valid THEN {} ELSE {"malformed"},
     storage |-> {[size |-> IF s.storage = 0 THEN "1Gi" ELSE "2Gi",
                   path |-> "/data", class |-> "standard"]}]

Built(s) == StatefulSetOf([name |-> "h1", uid |-> 1, namespace |-> "n1", spec |-> Full(s)])

ASSUME SpecsAssumption ==
    \A s, t \in Specs :
        /\ s.valid <=> validateCustomObject({Full(s)})
        /\ s.valid /\ t.valid =>
             /\ s.needsSecret <=> ~Buildable(Full(s), "n1", {})
             /\ s.count = Built(s).replicas
             /\ s.template = t.template <=> Built(s).template = Built(t).template
             /\ s.storage = t.storage <=> Built(s).claims = Built(t).claims

(* Habitats at the start. *)
Existing(spec) == [uid |-> 1, gen |-> 1, spec |-> spec, custom |-> TRUE]

Each(spec) == [k \in Keys |-> Existing(spec)]
PodAndNone == [k \in Keys |-> Existing(IF k = h1 THEN OnePod ELSE NoPod)]
OnlyH1 == [k \in Keys |-> IF k = h1 THEN Existing(OnePod) ELSE None]

(* Namespaces. *)
OneNamespace == [k \in Keys |-> n1]

(* Scenarios: each of some kinds of disturbance may happen once. *)
Once(kinds) == [kind \in Kinds |-> IF kind \in kinds THEN 1 ELSE 0]

Running(habs, kinds) == [habs |-> habs, deployed |-> TRUE, budget |-> Once(kinds)]
Starting(habs, kinds) == [habs |-> habs, deployed |-> FALSE, budget |-> Once(kinds)]

DyingPod == Running(PodAndNone, {"kill"})
Rollout == Starting(OnlyH1, {"edit"})
Scaling == Running(Each(TwoPods), {"scale", "kill", "resync"})
Misfortune ==
    [Running(Each(Unused), {"secret", "crash", "relist"})
         EXCEPT !.budget["respec"] = 2, !.budget["fault"] = 2]
Rebirth == Running(Each(OnePod), {"delete", "create", "custom"})
Overtaken ==
    [Running(Each(NoPod), {"delete", "createIdle"}) EXCEPT !.budget["collect"] = 2]
Tampering == Running(Each(OnePod), {"tamper", "status", "kill"})
Recovery == Running(OnlyH1, {"edit", "crash"})
BrokenWatch == Running(OnlyH1, {"edit", "relist"})
Deletion == Running(Each(NoPod), {"delete"})
EditCrash == Running(Each(OnePod), {"edit", "crash"})
KillFault == Running(Each(OnePod), {"kill", "fault"})
(* A Habitat is handed to another version of the controller and back, with *)
(* an edit in between.                                                     *)
Handover ==
    [Running(OnlyH1, {"edit"}) EXCEPT !.budget["custom"] = 2]

TwoAtOnce == {DyingPod, Rollout}
Scaled == {Scaling, Misfortune}
Replaced == {Rebirth, Overtaken, Tampering}
InTheEnd == {Recovery, BrokenWatch, Deletion, Handover}
Racing == {DyingPod}
HalfWay == {EditCrash}
LostWrite == {KillFault}
Handing == {Handover}

WorkerSymmetry == Permutations(Workers)
=============================================================================
