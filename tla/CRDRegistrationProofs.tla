------------------------ MODULE CRDRegistrationProofs ------------------------
(***************************************************************************)
(* Proofs about CRDRegistration, for any number of operators, faults,      *)
(* timeouts and crashes.  The two safety properties need each other: only  *)
(* the operator that has created the CRD may delete it, since the CRD it   *)
(* waits for exists, so that nobody else can have created one, and is not  *)
(* registered yet, since the only one to see it established is itself.     *)
(***************************************************************************)
EXTENDS CRDRegistration, TLAPS

RegistrarsCRD ==
    Registrars # {} => crd \in {"pending", "established"} /\ ~registered

IInv == TypeOK /\ OneRegistrar /\ RegisteredStays /\ RegistrarsCRD

LEMMA InitIInv == Init => IInv
<1> SUFFICES ASSUME Init PROVE IInv
  OBVIOUS
<1>1. Registrars = {}
  BY DEF Init, Registrars
<1>2. faults \in 0 .. MaxFaults /\ timeouts \in 0 .. MaxTimeouts /\ crashes \in 0 .. MaxCrashes
  BY BoundsAssumption DEF Init
<1>3. op \in [Operators -> {"start", "poll", "delete", "running", "exited"}]
  BY DEF Init
<1>4. TypeOK
  BY <1>2, <1>3, Zenon DEF Init, TypeOK
<1> QED
  BY <1>1, <1>4 DEF IInv, OneRegistrar, RegisteredStays, RegistrarsCRD, Init

\* Steps after which no operator registers that did not do so before.
LEMMA NoNewRegistrar ==
    ASSUME IInv, Registrars' \subseteq Registrars,
           crd' = crd \/ (crd = "pending" /\ crd' = "established")
                      \/ (crd \in {"absent", "terminating"} /\ Registrars' = {}),
           registered' = registered
    PROVE  OneRegistrar' /\ RegisteredStays' /\ RegistrarsCRD'
BY DEF IInv, OneRegistrar, RegisteredStays, RegistrarsCRD

LEMMA NextIInv == IInv /\ [Next]_vars => IInv'
<1> SUFFICES ASSUME IInv, [Next]_vars PROVE IInv'
  OBVIOUS
<1> USE BoundsAssumption
<1>1. ASSUME NEW o \in Operators, Assume(o) PROVE IInv'
  <2>1. TypeOK'
    BY <1>1 DEF IInv, TypeOK, Assume, Goes, counters
  <2>2. Registrars' \subseteq Registrars /\ crd' = crd /\ registered' = registered
    BY <1>1 DEF IInv, TypeOK, Assume, Goes, Registrars
  <2> QED
    BY <2>1, <2>2, NoNewRegistrar DEF IInv
<1>2. ASSUME NEW o \in Operators, Create(o) PROVE IInv'
  <2>1. TypeOK'
    BY <1>2 DEF IInv, TypeOK, Create, Goes, counters
  <2>2. Registrars = {} /\ ~registered
    BY <1>2 DEF IInv, RegistrarsCRD, RegisteredStays, Create
  <2>3. Registrars' = {o}
    BY <1>2, <2>2 DEF IInv, TypeOK, Create, Goes, Registrars
  <2>4. crd' = "pending" /\ registered' = registered
    BY <1>2 DEF Create
  <2> QED
    BY <2>1, <2>2, <2>3, <2>4 DEF IInv, OneRegistrar, RegisteredStays, RegistrarsCRD
<1>3. ASSUME NEW o \in Operators, AlreadyExists(o) PROVE IInv'
  <2>1. TypeOK'
    BY <1>3 DEF IInv, TypeOK, AlreadyExists, OnExisting, Goes, counters
  <2>2. Registrars' \subseteq Registrars /\ crd' = crd /\ registered' = registered
    BY <1>3 DEF IInv, TypeOK, AlreadyExists, OnExisting, Goes, Registrars
  <2> QED
    BY <2>1, <2>2, NoNewRegistrar DEF IInv
<1>4. ASSUME NEW o \in Operators, CreateFails(o) PROVE IInv'
  <2>1. TypeOK'
    BY <1>4 DEF IInv, TypeOK, CreateFails, Goes
  <2>2. Registrars' \subseteq Registrars /\ registered' = registered
    BY <1>4 DEF IInv, TypeOK, CreateFails, Goes, Registrars
  <2>3. crd' = crd \/ (crd = "absent" /\ Registrars' = {})
    BY <1>4, <2>2 DEF IInv, CreateFails, RegistrarsCRD
  <2> QED
    BY <2>1, <2>2, <2>3, NoNewRegistrar DEF IInv
<1>5. ASSUME NEW o \in Operators, PollSeesEstablished(o) PROVE IInv'
  <2>1. TypeOK'
    BY <1>5 DEF IInv, TypeOK, PollSeesEstablished, Goes, counters
  <2>2. Registrars = {o}
    BY <1>5 DEF IInv, OneRegistrar, PollSeesEstablished, Registrars
  <2>3. Registrars' = {}
    BY <1>5, <2>2 DEF IInv, TypeOK, PollSeesEstablished, Goes, Registrars
  <2>4. crd' = "established"
    BY <1>5 DEF PollSeesEstablished, CountsAsEstablished
  <2> QED
    BY <2>1, <2>3, <2>4 DEF IInv, OneRegistrar, RegisteredStays, RegistrarsCRD
<1>6. ASSUME NEW o \in Operators, PollFails(o) \/ PollTimesOut(o) PROVE IInv'
  <2>1. TypeOK'
    BY <1>6 DEF IInv, TypeOK, PollFails, PollTimesOut, Goes
  <2>2. Registrars' \subseteq Registrars /\ crd' = crd /\ registered' = registered
    BY <1>6 DEF IInv, TypeOK, PollFails, PollTimesOut, Goes, Registrars
  <2> QED
    BY <2>1, <2>2, NoNewRegistrar DEF IInv
<1>7. ASSUME NEW o \in Operators, Delete(o) PROVE IInv'
  <2>1. TypeOK'
    BY <1>7 DEF IInv, TypeOK, Delete, Goes, counters
  <2>2. Registrars = {o} /\ ~registered
    BY <1>7 DEF IInv, OneRegistrar, RegistrarsCRD, Delete, Registrars
  <2>3. Registrars' = {} /\ ~registered'
    BY <1>7, <2>2 DEF IInv, TypeOK, Delete, Goes, Registrars
  <2> QED
    BY <2>1, <2>3 DEF IInv, OneRegistrar, RegisteredStays, RegistrarsCRD
<1>8. ASSUME NEW o \in Operators, DeleteFails(o) \/ Crash(o) \/ Restart(o) PROVE IInv'
  <2>1. TypeOK'
    BY <1>8 DEF IInv, TypeOK, DeleteFails, Crash, Restart, Goes, counters
  <2>2. Registrars' \subseteq Registrars /\ crd' = crd /\ registered' = registered
    BY <1>8 DEF IInv, TypeOK, DeleteFails, Crash, Restart, Goes, Registrars
  <2> QED
    BY <2>1, <2>2, NoNewRegistrar DEF IInv
<1>9. ASSUME Establish \/ Finalize PROVE IInv'
  <2>1. TypeOK'
    BY <1>9 DEF IInv, TypeOK, Establish, Finalize, counters
  <2>2. Registrars' = Registrars /\ registered' = registered
    BY <1>9 DEF Establish, Finalize, Registrars
  <2>3. \/ crd = "pending" /\ crd' = "established"
        \/ crd = "terminating" /\ Registrars' = {}
    BY <1>9, <2>2 DEF IInv, Establish, Finalize, RegistrarsCRD
  <2>4. crd = "terminating" => ~registered
    BY DEF IInv, RegisteredStays
  <2> QED
    BY <2>1, <2>2, <2>3, <2>4, NoNewRegistrar DEF IInv
<1>10. ASSUME UNCHANGED vars PROVE IInv'
  BY <1>10 DEF IInv, vars, counters, TypeOK, OneRegistrar, RegisteredStays, RegistrarsCRD,
               Registrars
<1> QED
  BY <1>1, <1>2, <1>3, <1>4, <1>5, <1>6, <1>7, <1>8, <1>9, <1>10 DEF Next, Answered, Failed

THEOREM InductiveInvariant == Spec => []IInv
  BY InitIInv, NextIInv, PTL DEF Spec

\* At most one operator waits for the CRD or is about to delete it, however
\* many there are and whatever fails (utils.go:105-143).
THEOREM RegistrarIsAlone == Spec => []OneRegistrar
<1>1. IInv => OneRegistrar
  BY DEF IInv
<1> QED
  BY <1>1, InductiveInvariant, PTL

\* No operator deletes the CRD that a CreateCRD has returned (utils.go:137).
THEOREM RegistrationLasts == Spec => []RegisteredStays
<1>1. IInv => RegisteredStays
  BY DEF IInv
<1> QED
  BY <1>1, InductiveInvariant, PTL

\* Every variable holds a value of its kind, for any number of operators; no
\* operator that is misled about the CRD is still registering it.
THEOREM TypeCorrect == Spec => []TypeOK
<1>1. IInv => TypeOK
  BY DEF IInv
<1> QED
  BY <1>1, InductiveInvariant, PTL
=============================================================================
