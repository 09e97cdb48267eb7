--------------------------- MODULE CRDRegistration ---------------------------
(***************************************************************************)
(* Operators register the Habitat CRD as they start: createCRD of main.go  *)
(* and CreateCRD of utils.go.  There may be several of them, an operator   *)
(* may die at any time, and Kubernetes restarts the one that has exited.   *)
(*                                                                         *)
(* The API server is modelled as far as CreateCRD depends on it.  A CRD    *)
(* exists before it is established, and it goes on existing, terminating,  *)
(* until its finalizer has deleted the Habitats.  A call may fail, and the *)
(* answer of one that has succeeded may be lost.  Nobody else creates or   *)
(* deletes the CRD.                                                        *)
(***************************************************************************)
EXTENDS Integers, FiniteSets

CONSTANTS Operators,
          Assuming,      \* those started with -assume-crd-registered
          MaxFaults,     \* bound: calls that fail or lose their answer
          MaxTimeouts,   \* bound: CRDs not established in time
          MaxCrashes     \* bound: deaths of operators

ASSUME OperatorsAssumption == Assuming \subseteq Operators
ASSUME BoundsAssumption ==
    MaxFaults \in Nat /\ MaxTimeouts \in Nat /\ MaxCrashes \in Nat

VARIABLES
    crd,          \* the CRD in the API server
    op,           \* where each operator is
    registered,   \* some CreateCRD has seen this CRD established
    misled,       \* the operators that took a terminating CRD for theirs
    faults, timeouts, crashes

counters == <<faults, timeouts, crashes>>
vars == <<crd, op, registered, misled, counters>>

Init ==
    /\ crd = "absent"
    /\ op = [o \in Operators |-> "start"]
    /\ registered = FALSE
    /\ misled = {}
    /\ faults = 0 /\ timeouts = 0 /\ crashes = 0

Goes(o, place) == op' = [op EXCEPT ![o] = place]

-----------------------------------------------------------------------------
(* createCRD and CreateCRD.                                                 *)

\* v1beta2 skips createCRD when the CRD is assumed to be there.
Assume(o) ==
    /\ op[o] = "start" /\ o \in Assuming
    /\ Goes(o, "running")
    /\ UNCHANGED <<crd, registered, misled, counters>>

Create(o) ==
    /\ op[o] = "start" /\ o \notin Assuming /\ crd = "absent"
    /\ crd' = "pending"
    /\ Goes(o, "poll")
    /\ UNCHANGED <<registered, misled, counters>>

\* Where an operator goes whose CRD exists already: it runs, and does not wait
\* for the CRD to be established.
\* Bug: it waits as if it had created the CRD; or it ends with an error.
OnExistingPolls == "poll"
OnExistingFails == "exited"

OnExisting == "running"

AlreadyExists(o) ==
    /\ op[o] = "start" /\ o \notin Assuming /\ crd # "absent"
    /\ Goes(o, OnExisting)
    /\ misled' = IF crd = "terminating" THEN misled \union {o} ELSE misled
    /\ UNCHANGED <<crd, registered, counters>>

\* Any other error ends the process; the CRD may have been created.
CreateFails(o) ==
    /\ op[o] = "start" /\ o \notin Assuming /\ faults < MaxFaults
    /\ faults' = faults + 1
    /\ crd' \in {crd, IF crd = "absent" THEN "pending" ELSE crd}
    /\ Goes(o, "exited")
    /\ UNCHANGED <<registered, misled, timeouts, crashes>>

\* wait.Poll sees the condition Established.
\* Bug: it takes a CRD for established that has not been yet.
CountsAsEstablishedSoon == {"pending", "established"}

CountsAsEstablished == {"established"}

PollSeesEstablished(o) ==
    /\ op[o] = "poll" /\ crd \in CountsAsEstablished
    /\ registered' = TRUE
    /\ Goes(o, "running")
    /\ UNCHANGED <<crd, misled, counters>>

\* A Get that fails ends the poll as the timeout does, which comes after a
\* last Get: the CRD is to be deleted.
PollFails(o) ==
    /\ op[o] = "poll" /\ faults < MaxFaults
    /\ faults' = faults + 1
    /\ Goes(o, "delete")
    /\ UNCHANGED <<crd, registered, misled, timeouts, crashes>>

PollTimesOut(o) ==
    /\ op[o] = "poll" /\ crd \notin CountsAsEstablished /\ timeouts < MaxTimeouts
    /\ timeouts' = timeouts + 1
    /\ Goes(o, "delete")
    /\ UNCHANGED <<crd, registered, misled, faults, crashes>>

\* The CRD is deleted by its name, whatever has become of it since the Get;
\* with or without an error run() returns 1.
Delete(o) ==
    /\ op[o] = "delete"
    /\ crd' = IF crd = "absent" THEN crd ELSE "terminating"
    /\ Goes(o, "exited")
    /\ UNCHANGED <<registered, misled, counters>>

DeleteFails(o) ==
    /\ op[o] = "delete" /\ faults < MaxFaults
    /\ faults' = faults + 1
    /\ Goes(o, "exited")
    /\ UNCHANGED <<crd, registered, misled, timeouts, crashes>>

-----------------------------------------------------------------------------
(* The API server, and Kubernetes, which restarts what has exited.          *)

Establish ==
    /\ crd = "pending"
    /\ crd' = "established"
    /\ UNCHANGED <<op, registered, misled, counters>>

Finalize ==
    /\ crd = "terminating"
    /\ crd' = "absent"
    /\ UNCHANGED <<op, registered, misled, counters>>

Crash(o) ==
    /\ op[o] # "exited" /\ crashes < MaxCrashes
    /\ crashes' = crashes + 1
    /\ Goes(o, "exited")
    /\ UNCHANGED <<crd, registered, misled, faults, timeouts>>

Restart(o) ==
    /\ op[o] = "exited"
    /\ Goes(o, "start")
    /\ misled' = misled \ {o}
    /\ UNCHANGED <<crd, registered, counters>>

-----------------------------------------------------------------------------
Answered(o) == Assume(o) \/ Create(o) \/ AlreadyExists(o) \/ PollSeesEstablished(o) \/ Delete(o)
Failed(o) == CreateFails(o) \/ PollFails(o) \/ PollTimesOut(o) \/ DeleteFails(o) \/ Crash(o)

Next ==
    \/ Establish \/ Finalize
    \/ \E o \in Operators : Answered(o) \/ Failed(o) \/ Restart(o)

Fairness ==
    /\ WF_vars(Establish) /\ WF_vars(Finalize)
    /\ \A o \in Operators : WF_vars(Answered(o)) /\ WF_vars(Restart(o))

Spec == Init /\ [][Next]_vars /\ Fairness

-----------------------------------------------------------------------------
\* Every variable holds a value of its kind; only who has found a CRD there can
\* have been misled by it.
TypeOK ==
    /\ crd \in {"absent", "pending", "established", "terminating"}
    /\ op \in [Operators -> {"start", "poll", "delete", "running", "exited"}]
    /\ registered \in BOOLEAN
    /\ misled \subseteq {o \in Operators : op[o] \in {"running", "exited"}}
    /\ faults \in 0 .. MaxFaults /\ timeouts \in 0 .. MaxTimeouts
    /\ crashes \in 0 .. MaxCrashes

\* At most one operator, the one that has created the CRD, waits for it or is
\* about to delete it (utils.go:105-143).
Registrars == {o \in Operators : op[o] \in {"poll", "delete"}}
OneRegistrar == \A o, p \in Registrars : o = p

\* The CRD that a CreateCRD has returned stays: no operator deletes it, however
\* late its own timeout (utils.go:137).
RegisteredStays == registered => crd = "established"

\* In the end every operator runs and the CRD is established, whatever failed
\* on the way, unless an operator took for its own a CRD that was terminating
\* when it started: then they may run for ever without one (main.go:165).
Served == crd = "established" /\ \A o \in Operators : op[o] = "running"
EventuallyServed == <>[]Served \/ []<>(misled # {})
=============================================================================
