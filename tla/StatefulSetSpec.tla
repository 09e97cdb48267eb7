--------------------------- MODULE StatefulSetSpec ---------------------------
(***************************************************************************)
(* The StatefulSet that newStatefulSet derives from the spec of a Habitat  *)
(* (stateful_sets.go), and the validation that comes before it (utils.go). *)
(* HabitatController tells specs apart only by validity, need of secrets,  *)
(* template, storage and count; here is what these stand for.              *)
(*                                                                         *)
(* A field that is a pointer is a set of at most one value.  Names are     *)
(* strings; of the parts of an object those are kept that depend on the    *)
(* spec, or that other parts refer to by name.                             *)
(***************************************************************************)
EXTENDS Integers

CONSTANTS RingOf,     \* for each name ringRegexp matches, the name of the ring
          Quantities, \* the sizes resource.ParseQuantity accepts
          MaxInt32    \* the largest int32; an instance may make do with less

\* The names newStatefulSet gives to volumes of its own.
OwnVolumes == {"config", "user-config", "files-secrets", "files", "persistent"}

\* ringRegexp wants a revision at the end of a name, which none of these has.
ASSUME RingAssumption == DOMAIN RingOf \cap OwnVolumes = {}
ASSUME WidthAssumption == MaxInt32 \in Nat

Pointers(S) == {{}} \union {{x} : x \in S}

\* The type V1beta2, given the strings that occur in it.
HabitatSpecs(Strings) ==
    [count : Int, image : Strings, env : SUBSET Strings, name : Strings,
     group : Pointers(Strings), channel : Pointers(Strings), topology : Strings,
     bind : SUBSET [name : Strings, service : Strings, group : Strings],
     configSecret : Pointers(Strings), filesSecret : Pointers(Strings),
     ringSecret : Pointers(Strings),
     storage : Pointers([size : Strings, path : Strings, class : Strings])]

\* validateCustomObject, of a Habitat whose field spec.v1beta2 is a pointer.
validateCustomObject(v1beta2) ==
    /\ v1beta2 # {}
    /\ \A s \in v1beta2 : /\ s.topology \in {"standalone", "leader"}
                          /\ s.ringSecret \subseteq DOMAIN RingOf

\* int32(hs.Count), where an int is wider: two's complement.
Span == MaxInt32 + 1
int32(n) == ((n + Span) % (2 * Span)) - Span

\* The topology of the labels and of the argument: standalone is the default.
topology(s) == IF s.topology = "leader" THEN "leader" ELSE "standalone"

habArgs(s) ==
    {<<"--topology", topology(s)>>, <<"--peer-watch-file", "/habitat-operator/peer-ip">>}
    \union {<<"--group", g>> : g \in s.group}
    \union {<<"--channel", c>> : c \in s.channel}
    \union {<<"--bind", b.name, b.service, b.group>> : b \in s.bind}
    \union {<<"--ring", RingOf[r]>> : r \in s.ringSecret}

\* The volumes of the pods and what each is filled from.
volumes(s) ==
    {[name |-> "config", from |-> "peer ConfigMap"]}
    \union {[name |-> "user-config", from |-> x] : x \in s.configSecret}
    \union {[name |-> "files-secrets", from |-> x] : x \in s.filesSecret}
    \union {[name |-> "files", from |-> "emptyDir"] : x \in s.filesSecret}
    \union {[name |-> x, from |-> x] : x \in s.ringSecret}

\* The mounts of the container habitat-service.
volumeMounts(s) ==
    {[name |-> "config", path |-> <<"/habitat-operator">>]}
    \union {[name |-> "user-config", path |-> <<"/hab/user", s.name>>] : x \in s.configSecret}
    \union {[name |-> "files", path |-> <<"/hab/svc", s.name>>] : x \in s.filesSecret}
    \union {[name |-> "persistent", path |-> <<p.path>>] : p \in s.storage}
    \union {[name |-> x, path |-> <<"/hab/cache/keys">>] : x \in s.ringSecret}

\* Those of the init container, which copies the files.
initMounts(s) ==
    UNION {{[name |-> "files-secrets", path |-> <<"/mnt/files">>],
            [name |-> "files", path |-> <<"/hab/svc", s.name>>]} : x \in s.filesSecret}

volumeClaimTemplates(s, namespace) ==
    {[name |-> "persistent", namespace |-> namespace, size |-> p.size, class |-> p.class] :
        p \in s.storage}

\* The secrets that are looked up: the one of the ring in another namespace.
secretsRead(s, namespace) ==
    {<<namespace, x>> : x \in s.configSecret \union s.filesSecret}
    \union {<<"default", x>> : x \in s.ringSecret}

\* newStatefulSet fails on a secret that it does not find, and on a size that
\* it cannot parse.
Buildable(s, namespace, secrets) ==
    /\ secretsRead(s, namespace) \subseteq secrets
    /\ \A p \in s.storage : p.size \in Quantities

\* The pod template, which conform compares to see if pods are outdated.
podTemplate(s) ==
    [image |-> s.image, env |-> s.env, args |-> habArgs(s), topologyLabel |-> topology(s),
     volumes |-> volumes(s), mounts |-> volumeMounts(s), initMounts |-> initMounts(s)]

StatefulSetOf(h) ==
    [name |-> h.name, owner |-> h.uid, replicas |-> int32(h.spec.count),
     template |-> podTemplate(h.spec),
     claims |-> volumeClaimTemplates(h.spec, h.namespace)]

\* What the pods mount, and where it may come from.
mountedNames(s) == {m.name : m \in volumeMounts(s) \union initMounts(s)}
volumeNames(s) == {v.name : v \in volumes(s)}
claimNames(s, namespace) == {c.name : c \in volumeClaimTemplates(s, namespace)}
=============================================================================
