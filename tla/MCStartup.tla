------------------------------ MODULE MCStartup ------------------------------
(***************************************************************************)
(* Instances of Startup for TLC: one informer that is awaited and comes    *)
(* from a factory, as those of the Habitats, StatefulSets and ConfigMaps   *)
(* do, alone and with the informer of the pods, which does neither.        *)
(***************************************************************************)
EXTENDS Startup

CONSTANTS cm, pod

OnlyCm == <<cm>>
CmAndPod == <<cm, pod>>

Factory == [i \in Informers |-> IF i = pod THEN NoFactory ELSE "kube"]
=============================================================================
