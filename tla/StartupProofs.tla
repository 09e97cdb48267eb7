---------------------------- MODULE StartupProofs ----------------------------
(***************************************************************************)
(* Proofs about Startup, for any informers and factories, any number of    *)
(* workers and of signals.  That a panic takes an informer that was Run    *)
(* twice needs the history of each channel: only a processor that has been *)
(* told to stop closes one, a pop only runs for a processor that is up,    *)
(* and no Run is spawned a second time.                                    *)
(***************************************************************************)
EXTENDS Startup, TLAPS

ProcStates == {"none", "spawned", "up", "closed"}
Channels == {"open", "addClosed", "nextClosed"}
Up == {"up", "closed"}
Begun(x) == run[x] \notin {"none", "spawned"}
Twice(i) == \A r \in Runners : Begun(<<i, r>>)

\* What the steps of the Runs and their listeners need to know of the types.
RunTypes ==
    /\ run \in [Runs -> Places]
    /\ proc \in [Runs -> ProcStates]
    /\ owner \in [Informers -> Runners \union {"nobody"}]
    /\ on \in [Runs -> Runners \union {"nobody"}]
    /\ listed \subseteq Runs /\ closed \subseteq Runs /\ stopped \subseteq Informers

ListenerTypes ==
    /\ handler \in [Informers -> {"none", "added", "dropped"}]
    /\ pops \in [Informers -> Nat]
    /\ channels \in [Informers -> Channels]
    /\ store \subseteq Informers /\ told \subseteq Informers

CtlTypes ==
    /\ main \in {"boot", "notify", "waiting"}
    /\ exit \in {"none", "0", "1", "killed", "panic"}
    /\ factoryUp \subseteq Factories
    /\ ctl \in {"register", "handle", "go", "sync", "serve", "drain", "returned", "gaveUp"}
    /\ next \in 1 .. Len(Order)
    /\ registered \subseteq Informers

Counts ==
    /\ sent \in 0 .. MaxSignals /\ pending \in 0 .. TermCap /\ relayed \in 0 .. 2
    /\ Alive => relayed <= 1
    /\ alive \in 0 .. Workers

\* A processor lives in its Run, and closes nothing before that stops.
ProcInRun ==
    \A x \in Runs : /\ proc[x] = "none" <=> run[x] \in {"none", "spawned", "built"}
                    /\ proc[x] = "closed" => run[x] \in {"closing", "done"}

\* A Run that has begun has made a controller, and works with one.
OwnersKnown ==
    \A x \in Runs :
        /\ Begun(x) => owner[x[1]] \in Runners
        /\ run[x] \notin {"none", "spawned", "built"} => on[x] \in Runners

\* A Run is spawned once: what FactoryStart, AddHandler and SpawnRuns are still
\* to spawn has not been spawned yet.
SpawnedOnce ==
    /\ \A i \in Informers : FactoryOf[i] \notin factoryUp => run[<<i, "factory">>] = "none"
    /\ ctl \in {"register", "handle", "go"} =>
         \A i \in Informers :
            run[<<i, "controller">>] # "none" => FactoryOf[i] = NoFactory /\ handler[i] # "none"
    /\ ctl \in {"register", "handle"} =>
         \A k \in next .. Len(Order) : handler[Order[k]] = "none"

\* The pops of a listener, and who closed its channels.
PopsKnown ==
    \A i \in Informers :
        /\ handler[i] # "added" => pops[i] = 0 /\ channels[i] = "open"
        /\ channels[i] # "open" => \E r \in Runners : proc[<<i, r>>] = "closed"
        /\ pops[i] <= 2
        /\ pops[i] > 0 => \E r \in Runners : proc[<<i, r>>] \in Up
        /\ pops[i] > 1 => \A r \in Runners : proc[<<i, r>>] \in Up
        /\ channels[i] = "nextClosed" /\ pops[i] > 0 =>
             \A r \in Runners : proc[<<i, r>>] # "none"

\* WaitForCacheSync has got past an informer only when that was filled.
PolledIsFilled ==
    /\ \A x \in listed : x[1] \in store
    /\ ctl = "go" => next = 1
    /\ ctl = "sync" => \A k \in 1 .. next - 1 : Order[k] \in Awaited => Order[k] \in store
    /\ WorkersAfterSync

IInv ==
    /\ CtlTypes /\ RunTypes /\ ListenerTypes /\ Counts
    /\ ProcInRun /\ OwnersKnown /\ SpawnedOnce /\ PopsKnown /\ PolledIsFilled
    /\ HandlerKnowsStore /\ PanicMeansDoubleRun

-----------------------------------------------------------------------------
\* A Run is a pair of an informer and a runner.
LEMMA RunPairs ==
    /\ \A x \in Runs : x[1] \in Informers /\ x[2] \in Runners /\ x = <<x[1], x[2]>>
    /\ \A i \in Informers, r \in Runners :
         <<i, r>> \in Runs /\ <<i, r>>[1] = i /\ <<i, r>>[2] = r
    /\ \A i, j, r, q : <<i, r>> = <<j, q>> => i = j /\ r = q
BY DEF Runs

LEMMA OrderFacts ==
    /\ Len(Order) \in Nat /\ Len(Order) >= 1
    /\ \A k \in 1 .. Len(Order) : Order[k] \in Informers
BY InformersAssumption

LEMMA InitIInv == Init => IInv
<1> SUFFICES ASSUME Init PROVE IInv
  OBVIOUS
<1>1. CtlTypes
  BY OrderFacts DEF Init, CtlTypes
<1>2. RunTypes
  BY DEF Init, RunTypes, Places, ProcStates
<1>3. ListenerTypes
  BY DEF Init, ListenerTypes, Channels
<1>4. Counts
  BY BoundsAssumption DEF Init, Counts, TermCap
<1>5. ProcInRun
  BY DEF Init, ProcInRun
<1>11. OwnersKnown
  BY DEF Init, OwnersKnown, Begun
<1>6. SpawnedOnce
  BY OrderFacts, RunPairs DEF Init, SpawnedOnce, Runners
<1>7. PopsKnown
  <2> USE DEF PopsKnown
  <2> TAKE i \in Informers
  <2>1. pops[i] = 0 /\ channels[i] = "open"
    BY DEF Init
  <2> QED
    BY <2>1
<1>8. PolledIsFilled
  BY DEF Init, PolledIsFilled, WorkersAfterSync
<1>9. HandlerKnowsStore
  BY DEF Init, HandlerKnowsStore
<1>10. PanicMeansDoubleRun
  BY DEF Init, PanicMeansDoubleRun
<1> QED
  BY <1>1, <1>2, <1>3, <1>4, <1>5, <1>6, <1>7, <1>8, <1>9, <1>10, <1>11 DEF IInv

-----------------------------------------------------------------------------
\* A live process has not panicked.
LEMMA NoPanicYet == Alive /\ exit' \in {exit, "0", "1", "killed"} => PanicMeansDoubleRun'
BY DEF Alive, PanicMeansDoubleRun

\* The steps of main() touch neither the informers nor controller.Run.
LEMMA MainSteps ==
    ASSUME IInv, BootFails \/ Boot \/ NotifySignals \/ Signal \/ Relay \/ Exit
    PROVE  IInv'
<1>1. UNCHANGED <<ctlVars, runVars, lisVars>> /\ Alive
  BY DEF BootFails, Boot, NotifySignals, Signal, Relay, Exit
<1>2. (RunTypes /\ ListenerTypes /\ ProcInRun /\ OwnersKnown /\ PopsKnown)'
  BY <1>1 DEF IInv, runVars, lisVars, RunTypes, ListenerTypes, ProcInRun,
     OwnersKnown, Begun, PopsKnown
<1>7. (SpawnedOnce /\ PolledIsFilled)'
  BY <1>1 DEF IInv, ctlVars, runVars, lisVars, SpawnedOnce, PolledIsFilled, WorkersAfterSync
<1>3. CtlTypes'
  BY <1>1 DEF IInv, CtlTypes, ctlVars, BootFails, Boot, NotifySignals, Signal, Relay, Exit
<1>4. Counts'
  <2> USE <1>1, BoundsAssumption DEF IInv, Counts, CtlTypes, ctlVars, Alive, TermCap
  <2>1. CASE BootFails \/ Boot \/ NotifySignals \/ Exit
    BY <2>1 DEF BootFails, Boot, NotifySignals, Exit
  <2>2. CASE Signal
    BY <2>2 DEF Signal
  <2>3. CASE Relay
    BY <2>3 DEF Relay
  <2> QED
    BY <2>1, <2>2, <2>3
<1>5. HandlerKnowsStore'
  BY <1>1 DEF IInv, HandlerKnowsStore, Alive, lisVars
<1>6. PanicMeansDoubleRun'
  <2>1. exit' \in {exit, "0", "1", "killed"}
    BY DEF BootFails, Boot, NotifySignals, Signal, Relay, Exit
  <2> QED
    BY <1>1, <2>1, NoPanicYet
<1> QED
  BY <1>2, <1>3, <1>4, <1>5, <1>6, <1>7 DEF IInv

\* The steps of controller.Run that neither spawn a Run nor add a handler.
LEMMA ControllerSteps ==
    ASSUME IInv,
           \/ Register \/ PollSynced \/ SyncCancelled
           \/ ShutDownQueue \/ WorkerReturns \/ ControllerReturns
    PROVE  IInv'
<1>1. UNCHANGED <<procVars, factoryUp, runVars, lisVars>> /\ Alive
  BY DEF Register, PollSynced, SyncCancelled, ShutDownQueue, WorkerReturns,
     ControllerReturns, Launched
<1>2. (RunTypes /\ ListenerTypes /\ ProcInRun /\ OwnersKnown /\ PopsKnown)'
  BY <1>1 DEF IInv, runVars, lisVars, RunTypes, ListenerTypes, ProcInRun,
     OwnersKnown, Begun, PopsKnown
<1>3. CtlTypes'
  BY <1>1, OrderFacts DEF IInv, CtlTypes, procVars, Register, PollSynced, SyncCancelled,
     ShutDownQueue, WorkerReturns, ControllerReturns
<1>4. Counts'
  BY <1>1, BoundsAssumption DEF IInv, Counts, Alive, procVars, Register, PollSynced,
     SyncCancelled, ShutDownQueue, WorkerReturns, ControllerReturns
<1>5. SpawnedOnce'
  <2>1. /\ ctl' \in {"register", "handle", "go"} => ctl \in {"register", "handle", "go"}
        /\ ctl' \in {"register", "handle"} => ctl \in {"register", "handle"} /\ next' = next
    BY DEF Register, PollSynced, SyncCancelled, ShutDownQueue, WorkerReturns,
       ControllerReturns
  <2> QED
    BY <1>1, <2>1 DEF IInv, SpawnedOnce, runVars, lisVars
<1>6. PolledIsFilled'
  <2> USE <1>1, OrderFacts DEF IInv, PolledIsFilled, WorkersAfterSync, CtlTypes,
      runVars, lisVars
  <2>1. CASE PollSynced
    <3>1. CASE SyncedOrIgnored(next)
      <4>1. Order[next] \in Awaited => Order[next] \in store
        BY <3>1 DEF SyncedOrIgnored, HasSynced
      <4>2. \A k \in 1 .. next : Order[k] \in Awaited => Order[k] \in store
        BY <2>1, <4>1 DEF PollSynced
      <4>3. next = Len(Order) => Awaited \subseteq store
        BY <4>2, InformersAssumption
      <4> QED
        BY <2>1, <3>1, <4>2, <4>3 DEF PollSynced
    <3>2. CASE ~SyncedOrIgnored(next)
      BY <2>1, <3>2 DEF PollSynced
    <3> QED
      BY <3>1, <3>2
  <2>2. CASE Register \/ SyncCancelled \/ ShutDownQueue \/ WorkerReturns \/ ControllerReturns
    BY <2>2 DEF Register, SyncCancelled, ShutDownQueue, WorkerReturns, ControllerReturns
  <2> QED
    BY <2>1, <2>2
<1>7. HandlerKnowsStore'
  BY <1>1 DEF IInv, HandlerKnowsStore, Alive, lisVars, procVars
<1>8. PanicMeansDoubleRun'
  BY <1>1, NoPanicYet DEF procVars
<1> QED
  BY <1>2, <1>3, <1>4, <1>5, <1>6, <1>7, <1>8 DEF IInv

\* FactoryStart and SpawnRuns spawn Runs that were not spawned before.
LEMMA SpawnSteps ==
    ASSUME IInv, SpawnRuns \/ \E f \in Factories : FactoryStart(f)
    PROVE  IInv'
<1>1. /\ UNCHANGED <<procVars, next, registered, alive, owner, on, listed, closed,
                     proc, stopped, lisVars>>
      /\ Alive
  BY DEF SpawnRuns, FactoryStart, Launched
<1>2. \A x \in Runs : run'[x] = run[x] \/ (run'[x] = "spawned" /\ run[x] = "none")
  <2>1. CASE SpawnRuns
    <3> SUFFICES ASSUME NEW x \in Runs, x[2] = "controller", FactoryOf[x[1]] # NoFactory
                 PROVE  run[x] = "none"
      BY <2>1 DEF SpawnRuns
    <3> QED
      BY <2>1, RunPairs DEF SpawnRuns, IInv, SpawnedOnce
  <2>2. ASSUME NEW f \in Factories, FactoryStart(f)
        PROVE  \A x \in Runs : run'[x] = run[x] \/ (run'[x] = "spawned" /\ run[x] = "none")
    <3> SUFFICES ASSUME NEW x \in Runs, x[2] = "factory", FactoryOf[x[1]] = f
                 PROVE  run[x] = "none"
      BY <2>2 DEF FactoryStart
    <3> QED
      BY <2>2, RunPairs DEF FactoryStart, IInv, SpawnedOnce
  <2> QED
    BY <2>1, <2>2
<1>3. RunTypes'
  <2>1. run' \in [Runs -> Places]
    <3>1. CASE SpawnRuns
      BY <3>1 DEF SpawnRuns, IInv, RunTypes, Places
    <3>2. CASE \E f \in Factories : FactoryStart(f)
      BY <3>2 DEF FactoryStart, IInv, RunTypes, Places
    <3> QED
      BY <3>1, <3>2
  <2> QED
    BY <1>1, <2>1 DEF IInv, RunTypes
<1>4. (ListenerTypes /\ PopsKnown)'
  BY <1>1 DEF IInv, ListenerTypes, PopsKnown, lisVars
<1>5. CtlTypes'
  BY <1>1 DEF IInv, CtlTypes, procVars, SpawnRuns, FactoryStart
<1>6. (Counts /\ HandlerKnowsStore)'
  BY <1>1 DEF IInv, Counts, HandlerKnowsStore, Alive, procVars, lisVars
<1>7. (ProcInRun /\ OwnersKnown)'
  BY <1>1, <1>2 DEF IInv, ProcInRun, OwnersKnown, Begun
<1>8. SpawnedOnce'
  <2>1. CASE SpawnRuns
    <3>1. \A i \in Informers : run'[<<i, "factory">>] = run[<<i, "factory">>]
      BY <2>1, RunPairs DEF SpawnRuns, Runners
    <3> QED
      BY <1>1, <2>1, <3>1 DEF SpawnRuns, IInv, SpawnedOnce
  <2>2. ASSUME NEW f \in Factories, FactoryStart(f)
        PROVE  SpawnedOnce'
    <3>1. \A i \in Informers : FactoryOf[i] \notin factoryUp' => run'[<<i, "factory">>] = "none"
      BY <2>2, RunPairs DEF FactoryStart, IInv, SpawnedOnce, Runners
    <3>2. \A i \in Informers : run'[<<i, "controller">>] = run[<<i, "controller">>]
      BY <2>2, RunPairs DEF FactoryStart, Runners
    <3> QED
      BY <1>1, <2>2, <3>1, <3>2 DEF FactoryStart, IInv, SpawnedOnce, lisVars
  <2> QED
    BY <2>1, <2>2
<1>9. PolledIsFilled'
  BY <1>1 DEF IInv, PolledIsFilled, WorkersAfterSync, lisVars, SpawnRuns, FactoryStart
<1>10. PanicMeansDoubleRun'
  BY <1>1, NoPanicYet DEF procVars
<1> QED
  BY <1>3, <1>4, <1>5, <1>6, <1>7, <1>8, <1>9, <1>10 DEF IInv

\* A handler is added once, and told what its informer holds.
LEMMA AddHandlerSteps == ASSUME IInv, AddHandler PROVE IInv'
<1> DEFINE i == Order[next]
<1>1. /\ UNCHANGED <<procVars, factoryUp, registered, alive, owner, on, listed, closed,
                     proc, stopped, channels, store>>
      /\ Alive /\ ctl = "handle"
  BY DEF AddHandler, Launched
<1>2. i \in Informers /\ handler[i] = "none" /\ pops[i] = 0 /\ channels[i] = "open"
  BY <1>1, OrderFacts DEF IInv, CtlTypes, SpawnedOnce, PopsKnown
<1>3. /\ run' = run \/ (run' = [run EXCEPT ![<<i, "controller">>] = "spawned"]
                         /\ FactoryOf[i] = NoFactory)
      /\ run[<<i, "controller">>] = "none"
  BY <1>1, <1>2 DEF AddHandler, IInv, SpawnedOnce
<1>4. RunTypes'
  BY <1>1, <1>3 DEF IInv, RunTypes, Places
<1>5. /\ handler' = [handler EXCEPT ![i] = handler'[i]]
      /\ handler'[i] \in {"added", "dropped"}
      /\ pops' = [pops EXCEPT ![i] = pops'[i]]
      /\ pops'[i] \in {0, 1}
      /\ handler'[i] = "dropped" => pops'[i] = 0
      /\ pops'[i] = 1 => ListenersStarted(i)
      /\ told' \in {told, told \union {i}}
      /\ handler'[i] = "added" /\ i \in store => i \in told'
  <2> USE <1>2 DEF IInv, ListenerTypes
  <2>1. CASE i \in stopped
    BY <2>1 DEF AddHandler
  <2>2. CASE i \notin stopped
    BY <2>2 DEF AddHandler, Replayed
  <2> QED
    BY <2>1, <2>2
<1>6. ListenerTypes'
  BY <1>1, <1>2, <1>5 DEF IInv, ListenerTypes
<1>7. CtlTypes'
  BY <1>1, OrderFacts DEF AddHandler, IInv, CtlTypes, procVars
<1>8. Counts'
  BY <1>1 DEF IInv, Counts, Alive, procVars
<1>9. (ProcInRun /\ OwnersKnown)'
  <2>1. \A x \in Runs : run'[x] = run[x] \/ (run'[x] = "spawned" /\ run[x] = "none")
    BY <1>3 DEF IInv, RunTypes
  <2> QED
    BY <1>1, <2>1 DEF IInv, ProcInRun, OwnersKnown, Begun
<1>10. SpawnedOnce'
  <2>0. \A j \in Informers :
           <<j, "factory">> \in Runs /\ <<j, "factory">> # <<i, "controller">>
    BY RunPairs DEF Runners
  <2>1. \A j \in Informers : run'[<<j, "factory">>] = run[<<j, "factory">>]
    BY <1>3, <2>0 DEF IInv, RunTypes
  <2>2. \A j \in Informers :
           run'[<<j, "controller">>] # "none" => FactoryOf[j] = NoFactory /\ handler'[j] # "none"
    <3> TAKE j \in Informers
    <3>1. CASE j = i
      <4>1. handler'[i] # "none"
        BY <1>2, <1>5
      <4>2. FactoryOf[i] # NoFactory => run'[<<i, "controller">>] = "none"
        BY <1>3
      <4> QED
        BY <3>1, <4>1, <4>2
    <3>2. CASE j # i
      <4>1. run'[<<j, "controller">>] = run[<<j, "controller">>]
        <5>1. <<j, "controller">> \in Runs /\ <<j, "controller">> # <<i, "controller">>
          BY <3>2, RunPairs DEF Runners
        <5> QED
          BY <1>3, <5>1 DEF IInv, RunTypes
      <4>2. handler'[j] = handler[j]
        BY <1>5, <3>2 DEF IInv, ListenerTypes
      <4> QED
        BY <1>1, <4>1, <4>2 DEF IInv, SpawnedOnce
    <3> QED
      BY <3>1, <3>2
  <2>3. ctl' \in {"register", "handle"} =>
          \A k \in next' .. Len(Order) : handler'[Order[k]] = "none"
    <3> SUFFICES ASSUME ctl' \in {"register", "handle"}, NEW k \in next' .. Len(Order)
                 PROVE  handler'[Order[k]] = "none"
      OBVIOUS
    <3>1. next' = next + 1 /\ next \in 1 .. Len(Order)
      BY DEF AddHandler, IInv, CtlTypes
    <3>2. k # next /\ k \in 1 .. Len(Order) /\ k \in next .. Len(Order)
      BY <3>1, OrderFacts
    <3>3. Order[k] # i /\ Order[k] \in Informers
      BY <3>1, <3>2, InformersAssumption, OrderFacts
    <3> QED
      BY <1>1, <1>2, <1>5, <3>2, <3>3 DEF IInv, SpawnedOnce, ListenerTypes
  <2> QED
    BY <1>1, <2>1, <2>2, <2>3 DEF IInv, SpawnedOnce
<1>11. PopsKnown'
  <2> USE DEF PopsKnown
  <2> TAKE j \in Informers
  <2>1. CASE j = i
    <3>1. channels'[i] = "open" /\ pops'[i] \in {0, 1}
      BY <1>1, <1>2, <1>5
    <3>2. pops'[i] = 1 => \E r \in Runners : proc'[<<i, r>>] \in Up
      BY <1>1, <1>5 DEF ListenersStarted, Up
    <3> QED
      BY <1>5, <2>1, <3>1, <3>2
  <2>2. CASE j # i
    BY <1>1, <1>2, <1>5, <2>2 DEF IInv, ListenerTypes
  <2> QED
    BY <2>1, <2>2
<1>12. PolledIsFilled'
  BY <1>1 DEF AddHandler, IInv, PolledIsFilled, WorkersAfterSync
<1>13. HandlerKnowsStore'
  BY <1>1, <1>2, <1>5 DEF IInv, HandlerKnowsStore, ListenerTypes, Alive, procVars
<1>14. PanicMeansDoubleRun'
  BY <1>1, NoPanicYet DEF procVars
<1> QED
  BY <1>4, <1>6, <1>7, <1>8, <1>9, <1>10, <1>11, <1>12, <1>13, <1>14 DEF IInv

\* What the steps of sharedIndexInformer.Run leave alone.
LEMMA RunSteps ==
    ASSUME IInv, NEW x \in Runs, RunStep(x)
    PROVE  IInv'
<1>1. UNCHANGED <<procVars, ctlVars, lisVars>> /\ Alive
  BY DEF RunStep, BuildController, EnterController, PopChecks, PopWaits, CloseFIFO,
     RunReturns, Launched
<1>2. /\ x[1] \in Informers /\ x[2] \in Runners
      /\ run[x] \notin {"none"}
  BY RunPairs DEF RunStep, BuildController, EnterController, PopChecks, PopWaits,
     CloseFIFO, RunReturns, Entered
<1>3. (CtlTypes /\ ListenerTypes)'
  BY <1>1 DEF IInv, CtlTypes, ListenerTypes, procVars, ctlVars, lisVars
<1>4. (Counts /\ HandlerKnowsStore)'
  BY <1>1 DEF IInv, Counts, HandlerKnowsStore, Alive, procVars, ctlVars, lisVars
<1>5. PanicMeansDoubleRun'
  BY <1>1, NoPanicYet DEF procVars
<1>6. \A y \in Runs : run'[y] = "none" <=> run[y] = "none"
  <2> USE <1>2 DEF IInv, RunTypes
  <2>1. CASE BuildController(x) \/ PopWaits(x) \/ RunReturns(x)
    BY <2>1 DEF BuildController, PopWaits, RunReturns
  <2>2. CASE EnterController(x) \/ PopChecks(x)
    BY <2>2 DEF EnterController, PopChecks, Stops
  <2>3. CASE CloseFIFO(x)
    BY <2>3 DEF CloseFIFO
  <2> QED
    BY <2>1, <2>2, <2>3 DEF RunStep
<1>7. SpawnedOnce'
  BY <1>1, <1>6, RunPairs DEF IInv, SpawnedOnce, Runners, ctlVars, lisVars
<1>8. \A y \in Runs : /\ proc[y] = "closed" => proc'[y] = "closed"
                      /\ proc[y] \in Up => proc'[y] \in Up
                      /\ proc[y] # "none" => proc'[y] # "none"
  <2>1. CASE EnterController(x)
    <3>1. proc[x] = "none" /\ proc' = [proc EXCEPT ![x] = "spawned"]
      BY <2>1 DEF EnterController, IInv, ProcInRun
    <3> QED
      BY <3>1 DEF IInv, RunTypes, Up
  <2>2. CASE ~EnterController(x)
    <3>1. proc' = proc
      BY <2>2 DEF RunStep, BuildController, PopChecks, PopWaits, CloseFIFO, RunReturns
    <3> QED
      BY <3>1
  <2> QED
    BY <2>1, <2>2
<1>9. PopsKnown'
  <2> USE DEF PopsKnown
  <2> TAKE j \in Informers
  <2>1. handler'[j] = handler[j] /\ pops'[j] = pops[j] /\ channels'[j] = channels[j]
    BY <1>1 DEF lisVars
  <2>2. \A r \in Runners : /\ proc[<<j, r>>] = "closed" => proc'[<<j, r>>] = "closed"
                           /\ proc[<<j, r>>] \in Up => proc'[<<j, r>>] \in Up
                           /\ proc[<<j, r>>] # "none" => proc'[<<j, r>>] # "none"
    <3> TAKE r \in Runners
    <3>1. <<j, r>> \in Runs
      BY RunPairs
    <3> QED
      BY <1>8, <3>1
  <2>3. PopsKnown
    BY DEF IInv
  <2> QED
    BY <2>1, <2>2, <2>3
<1>10. UNCHANGED listed
  BY DEF RunStep, BuildController, EnterController, PopChecks, PopWaits, CloseFIFO, RunReturns
<1>11. PolledIsFilled'
  BY <1>1, <1>10 DEF IInv, PolledIsFilled, WorkersAfterSync, ctlVars, lisVars
<1>12. (RunTypes /\ ProcInRun /\ OwnersKnown)'
  <2> USE <1>2 DEF IInv, RunTypes, ProcInRun, OwnersKnown, Begun, Places, ProcStates
  <2>1. CASE BuildController(x)
    BY <2>1 DEF BuildController
  <2>2. CASE EnterController(x)
    BY <2>2 DEF EnterController, Stops
  <2>3. CASE PopChecks(x)
    BY <2>3 DEF PopChecks, Stops
  <2>4. CASE PopWaits(x)
    BY <2>4 DEF PopWaits
  <2>5. CASE CloseFIFO(x)
    BY <2>5 DEF CloseFIFO
  <2>6. CASE RunReturns(x)
    BY <2>6 DEF RunReturns
  <2> QED
    BY <2>1, <2>2, <2>3, <2>4, <2>5, <2>6 DEF RunStep
<1> QED
  BY <1>3, <1>4, <1>5, <1>7, <1>9, <1>11, <1>12 DEF IInv

\* An object is delivered: the listener's channels are closed only when the
\* other Run of the informer has stopped.
LEMMA DeliverSteps == ASSUME IInv, NEW x \in Runs, Deliver(x) PROVE IInv'
<1> DEFINE i == x[1]
<1>1. /\ UNCHANGED <<main, sent, pending, relayed, ctlVars, owner, on, closed, proc,
                     stopped, handler, pops, channels>>
      /\ Alive
      /\ i \in Informers /\ x[2] \in Runners /\ run[x] \in {"looping", "waiting"}
  BY RunPairs DEF Deliver, Launched
<1>2. /\ run' = [run EXCEPT ![x] = "looping"]
      /\ store' = store \union {i}
      /\ listed' = listed \union {<<i, on[x]>>}
      /\ told' \in {told, told \union {i}}
      /\ Alive' /\ handler[i] = "added" => i \in told'
      /\ exit' \in {exit, "panic"}
  BY DEF Deliver, Panic, Alive
<1>3. on[x] \in Runners
  BY <1>1 DEF IInv, OwnersKnown
<1>4. RunTypes'
  BY <1>1, <1>2, <1>3, RunPairs DEF IInv, RunTypes, Places
<1>5. ListenerTypes'
  BY <1>1, <1>2 DEF IInv, ListenerTypes
<1>6. CtlTypes'
  BY <1>1, <1>2 DEF IInv, CtlTypes, ctlVars
<1>7. Counts'
  BY <1>1, <1>2 DEF IInv, Counts, Alive, ctlVars
<1>8. (ProcInRun /\ OwnersKnown)'
  BY <1>1, <1>2 DEF IInv, RunTypes, ProcInRun, OwnersKnown, Begun
<1>9. SpawnedOnce'
  <2>1. \A y \in Runs : run'[y] = "none" <=> run[y] = "none"
    BY <1>1, <1>2 DEF IInv, RunTypes
  <2>2. \A j \in Informers : <<j, "factory">> \in Runs /\ <<j, "controller">> \in Runs
    BY RunPairs DEF Runners
  <2> QED
    BY <1>1, <2>1, <2>2 DEF IInv, SpawnedOnce, ctlVars
<1>10. PopsKnown'
  BY <1>1 DEF IInv, PopsKnown
<1>11. PolledIsFilled'
  <2>1. \A y \in listed' : y[1] \in store'
    BY <1>2 DEF IInv, PolledIsFilled
  <2> QED
    BY <1>1, <1>2, <2>1 DEF IInv, PolledIsFilled, WorkersAfterSync, ctlVars
<1>12. HandlerKnowsStore'
  BY <1>1, <1>2 DEF IInv, HandlerKnowsStore
<1>13. PanicMeansDoubleRun'
  <2> SUFFICES ASSUME exit' = "panic"
               PROVE  \E j \in Informers : \A r \in Runners : run'[<<j, r>>] \notin {"none", "spawned"}
    BY DEF PanicMeansDoubleRun
  <2>1. channels[i] # "open"
    BY <1>1 DEF Deliver, Alive
  <2>2. PICK r \in Runners : proc[<<i, r>>] = "closed"
    BY <1>1, <2>1 DEF IInv, PopsKnown
  <2>3. <<i, r>> # x /\ run[<<i, r>>] \in {"closing", "done"}
    BY <1>1, <2>2, RunPairs DEF IInv, ProcInRun
  <2>4. \A q \in Runners : run[<<i, q>>] \notin {"none", "spawned"}
    BY <1>1, <2>3, RunPairs DEF Runners
  <2> QED
    BY <1>1, <1>2, <2>4, RunPairs DEF IInv, RunTypes
<1> QED
  BY <1>4, <1>5, <1>6, <1>7, <1>8, <1>9, <1>10, <1>11, <1>12, <1>13 DEF IInv

\* The processor of a Run starts the listener, once.
LEMMA StartListenersSteps == ASSUME IInv, NEW x \in Runs, StartListeners(x) PROVE IInv'
<1> DEFINE i == x[1]
<1>1. /\ UNCHANGED <<procVars, ctlVars, run, owner, on, listed, closed, stopped,
                     handler, channels, store, told>>
      /\ Alive /\ i \in Informers /\ x[2] \in Runners /\ x = <<i, x[2]>>
      /\ proc[x] = "spawned" /\ proc' = [proc EXCEPT ![x] = "up"]
  BY RunPairs DEF StartListeners, Launched
<1>2. pops' = [pops EXCEPT ![i] = IF handler[i] = "added" THEN @ + 1 ELSE @]
  BY DEF StartListeners
<1>3. (CtlTypes /\ Counts /\ OwnersKnown /\ SpawnedOnce)'
  BY <1>1 DEF IInv, CtlTypes, Counts, OwnersKnown, Begun, SpawnedOnce, Alive, procVars, ctlVars
<1>4. RunTypes'
  BY <1>1 DEF IInv, RunTypes, ProcStates
<1>5. ListenerTypes'
  BY <1>1, <1>2 DEF IInv, ListenerTypes
<1>6. ProcInRun'
  BY <1>1 DEF IInv, RunTypes, ProcInRun
<1>7. \A y \in Runs : y # x => proc'[y] = proc[y]
  BY <1>1 DEF IInv, RunTypes
<1>8. proc'[x] = "up"
  BY <1>1 DEF IInv, RunTypes
<1>9. PopsKnown'
  <2> USE DEF PopsKnown
  <2> TAKE j \in Informers
  <2>1. PopsKnown /\ ListenerTypes
    BY DEF IInv
  <2>2. CASE j # i
    <3>1. \A r \in Runners : proc'[<<j, r>>] = proc[<<j, r>>]
      BY <1>1, <1>7, <2>2, RunPairs
    <3>2. pops'[j] = pops[j] /\ handler' = handler /\ channels' = channels
      BY <1>1, <1>2, <2>1, <2>2 DEF ListenerTypes
    <3> QED
      BY <2>1, <3>1, <3>2
  <2>3. CASE j = i
    <3>1. handler' = handler /\ channels' = channels
      BY <1>1
    <3>2. pops'[i] = IF handler[i] = "added" THEN pops[i] + 1 ELSE pops[i]
      BY <1>1, <1>2, <2>1 DEF ListenerTypes
    <3>3. \A r \in Runners : r # x[2] => proc'[<<i, r>>] = proc[<<i, r>>]
      BY <1>1, <1>7, RunPairs
    <3>4. proc[<<i, x[2]>>] = "spawned" /\ proc'[<<i, x[2]>>] = "up"
      BY <1>1, <1>8
    <3>5. pops[i] <= 1
      <4>1. ~ \A r \in Runners : proc[<<i, r>>] \in Up
        BY <1>1, <3>4 DEF Up
      <4> QED
        BY <1>1, <2>1, <4>1 DEF ListenerTypes
    <3>6. channels'[i] # "open" => \E r \in Runners : proc'[<<i, r>>] = "closed"
      BY <1>1, <2>1, <3>1, <3>3, <3>4
    <3>7. \E r \in Runners : proc'[<<i, r>>] \in Up
      BY <1>1, <3>4 DEF Up
    <3>8. pops'[i] > 1 => \A r \in Runners : proc'[<<i, r>>] \in Up
      <4> SUFFICES ASSUME pops'[i] > 1, NEW r \in Runners PROVE proc'[<<i, r>>] \in Up
        OBVIOUS
      <4>1. pops[i] > 0
        BY <1>1, <2>1, <3>2, <3>5 DEF ListenerTypes
      <4>2. PICK q \in Runners : proc[<<i, q>>] \in Up
        BY <1>1, <2>1, <4>1
      <4>3. q # x[2]
        BY <3>4, <4>2 DEF Up
      <4>4. r = q \/ r = x[2]
        BY <1>1, <4>3 DEF Runners
      <4> QED
        BY <3>3, <3>4, <4>2, <4>3, <4>4 DEF Up
    <3>9. channels'[i] = "nextClosed" => \A r \in Runners : proc'[<<i, r>>] # "none"
      <4> SUFFICES ASSUME channels'[i] = "nextClosed", NEW r \in Runners
                   PROVE  proc'[<<i, r>>] # "none"
        OBVIOUS
      <4>1. PICK q \in Runners : proc[<<i, q>>] = "closed"
        BY <1>1, <2>1, <3>1
      <4>2. r = q \/ r = x[2]
        BY <1>1, <3>4, <4>1 DEF Runners
      <4> QED
        BY <3>3, <3>4, <4>1, <4>2
    <3>10. handler'[i] # "added" => pops'[i] = 0 /\ channels'[i] = "open"
      BY <1>1, <2>1, <3>1, <3>2
    <3>11. pops'[i] <= 2
      BY <1>1, <2>1, <3>2, <3>5 DEF ListenerTypes
    <3> QED
      BY <2>3, <3>6, <3>7, <3>8, <3>9, <3>10, <3>11
  <2> QED
    BY <2>2, <2>3
<1>10. (PolledIsFilled /\ HandlerKnowsStore)'
  BY <1>1 DEF IInv, PolledIsFilled, WorkersAfterSync, HandlerKnowsStore, Alive, procVars, ctlVars
<1>11. PanicMeansDoubleRun'
  BY <1>1, NoPanicYet DEF procVars
<1> QED
  BY <1>3, <1>4, <1>5, <1>6, <1>9, <1>10, <1>11 DEF IInv

\* A processor that stops closes the channel of the listener, unless the
\* processor of the other Run already has.
LEMMA CloseListenersSteps == ASSUME IInv, NEW x \in Runs, CloseListeners(x) PROVE IInv'
<1> DEFINE i == x[1]
<1>1. /\ UNCHANGED <<main, sent, pending, relayed, ctlVars, run, owner, on, listed,
                     closed, stopped, handler, pops, store, told>>
      /\ Alive /\ i \in Informers /\ x[2] \in Runners /\ x = <<i, x[2]>>
      /\ proc[x] = "up" /\ run[x] = "closing" /\ proc' = [proc EXCEPT ![x] = "closed"]
  BY RunPairs DEF CloseListeners, Launched
<1>2. /\ \/ channels' = channels
         \/ /\ handler[i] = "added" /\ channels[i] = "open"
            /\ channels' = [channels EXCEPT ![i] = "addClosed"]
      /\ exit' = exit \/ (exit' = "panic" /\ channels[i] # "open")
  <2>1. CASE handler[i] # "added"
    BY <2>1 DEF CloseListeners
  <2>2. CASE handler[i] = "added" /\ channels[i] = "open"
    BY <2>2 DEF CloseListeners
  <2>3. CASE handler[i] = "added" /\ channels[i] # "open"
    BY <2>3 DEF CloseListeners, Panic
  <2> QED
    BY <2>1, <2>2, <2>3
<1>3. RunTypes'
  BY <1>1 DEF IInv, RunTypes, ProcStates
<1>4. ListenerTypes'
  BY <1>1, <1>2 DEF IInv, ListenerTypes, Channels
<1>5. (CtlTypes /\ Counts /\ OwnersKnown /\ SpawnedOnce)'
  BY <1>1, <1>2 DEF IInv, CtlTypes, Counts, OwnersKnown, Begun, SpawnedOnce, Alive, ctlVars
<1>6. ProcInRun'
  BY <1>1 DEF IInv, RunTypes, ProcInRun
<1>7. /\ proc'[x] = "closed"
      /\ \A y \in Runs : /\ proc[y] = "closed" => proc'[y] = "closed"
                         /\ proc[y] \in Up => proc'[y] \in Up
                         /\ proc[y] # "none" => proc'[y] # "none"
  BY <1>1 DEF IInv, RunTypes, Up
<1>8. PopsKnown'
  <2> USE DEF PopsKnown
  <2> TAKE j \in Informers
  <2>1. \A r \in Runners : /\ proc[<<j, r>>] = "closed" => proc'[<<j, r>>] = "closed"
                           /\ proc[<<j, r>>] \in Up => proc'[<<j, r>>] \in Up
                           /\ proc[<<j, r>>] # "none" => proc'[<<j, r>>] # "none"
    <3> TAKE r \in Runners
    <3>1. <<j, r>> \in Runs
      BY RunPairs
    <3> QED
      BY <1>7, <3>1
  <2>2. PopsKnown /\ ListenerTypes
    BY DEF IInv
  <2>3. pops' = pops /\ handler' = handler
    BY <1>1
  <2>4. CASE channels'[j] = channels[j]
    BY <2>1, <2>2, <2>3, <2>4
  <2>5. CASE channels'[j] # channels[j]
    <3>1. j = i /\ handler[j] = "added" /\ channels'[j] = "addClosed"
      BY <1>2, <2>2, <2>5 DEF ListenerTypes
    <3>2. \E r \in Runners : proc'[<<j, r>>] = "closed"
      BY <1>1, <1>7, <3>1
    <3> QED
      BY <2>1, <2>2, <2>3, <3>1, <3>2
  <2> QED
    BY <2>4, <2>5
<1>9. PolledIsFilled'
  BY <1>1 DEF IInv, PolledIsFilled, WorkersAfterSync, ctlVars
<1>10. HandlerKnowsStore'
  BY <1>1 DEF IInv, HandlerKnowsStore
<1>11. PanicMeansDoubleRun'
  <2>1. CASE exit' = exit
    BY <1>1, <2>1, NoPanicYet
  <2>2. CASE channels[i] # "open"
    <3>1. PICK r \in Runners : proc[<<i, r>>] = "closed"
      BY <1>1, <2>2 DEF IInv, PopsKnown
    <3>2. <<i, r>> # x /\ run[<<i, r>>] \in {"closing", "done"}
      BY <1>1, <3>1, RunPairs DEF IInv, ProcInRun
    <3>3. \A q \in Runners : run[<<i, q>>] \notin {"none", "spawned"}
      BY <1>1, <3>2, RunPairs DEF Runners
    <3> QED
      BY <1>1, <3>3 DEF PanicMeansDoubleRun
  <2> QED
    BY <1>2, <2>1, <2>2
<1> QED
  BY <1>3, <1>4, <1>5, <1>6, <1>8, <1>9, <1>10, <1>11 DEF IInv

\* A pop that sees its channel closed closes the next one, which a second pop
\* has already done only when both processors were up.
LEMMA PopReturnsSteps == ASSUME IInv, NEW i \in Informers, PopReturns(i) PROVE IInv'
<1>1. /\ UNCHANGED <<main, sent, pending, relayed, ctlVars, runVars, handler, store, told>>
      /\ Alive /\ pops[i] > 0 /\ channels[i] # "open"
      /\ pops' = [pops EXCEPT ![i] = @ - 1]
      /\ channels' = [channels EXCEPT ![i] = "nextClosed"]
      /\ exit' = exit \/ (exit' = "panic" /\ channels[i] = "nextClosed")
  BY DEF PopReturns, Launched, Panic
<1>2. PopsKnown /\ ListenerTypes
  BY DEF IInv
<1>3. pops[i] \in {1, 2} /\ handler[i] = "added"
  BY <1>1, <1>2 DEF PopsKnown, ListenerTypes
<1>4. ListenerTypes'
  <2>1. pops' \in [Informers -> Nat]
    BY <1>1, <1>2, <1>3 DEF ListenerTypes
  <2>2. channels' \in [Informers -> Channels]
    BY <1>1, <1>2 DEF ListenerTypes, Channels
  <2> QED
    BY <1>1, <1>2, <2>1, <2>2 DEF ListenerTypes
<1>5. (RunTypes /\ ProcInRun /\ OwnersKnown)'
  BY <1>1 DEF IInv, RunTypes, ProcInRun, OwnersKnown, Begun, runVars
<1>6. (CtlTypes /\ Counts /\ SpawnedOnce)'
  BY <1>1 DEF IInv, CtlTypes, Counts, SpawnedOnce, Alive, ctlVars, runVars
<1>7. PopsKnown'
  <2> USE DEF PopsKnown
  <2> TAKE j \in Informers
  <2>1. proc' = proc /\ handler' = handler
    BY <1>1 DEF runVars
  <2>2. CASE j # i
    <3>1. pops'[j] = pops[j] /\ channels'[j] = channels[j]
      BY <1>1, <1>2, <2>2 DEF ListenerTypes
    <3> QED
      BY <1>2, <2>1, <3>1
  <2>3. CASE j = i
    <3>1. pops'[i] = pops[i] - 1 /\ channels'[i] = "nextClosed"
      BY <1>1, <1>2 DEF ListenerTypes
    <3>2. pops'[i] \in {0, 1} /\ (pops'[i] > 0 => pops[i] > 1)
      BY <1>3, <3>1
    <3>3. (\E r \in Runners : proc[<<i, r>>] = "closed") /\ (\E r \in Runners : proc[<<i, r>>] \in Up)
      BY <1>1, <1>2 DEF Up
    <3>4. pops'[i] > 0 => \A r \in Runners : proc[<<i, r>>] # "none"
      BY <1>2, <3>2 DEF Up
    <3> QED
      BY <1>3, <2>1, <2>3, <3>1, <3>2, <3>3, <3>4
  <2> QED
    BY <2>2, <2>3
<1>8. PolledIsFilled'
  BY <1>1 DEF IInv, PolledIsFilled, WorkersAfterSync, ctlVars, runVars
<1>9. HandlerKnowsStore'
  BY <1>1 DEF IInv, HandlerKnowsStore
<1>10. PanicMeansDoubleRun'
  <2>1. CASE exit' = exit
    BY <1>1, <2>1, NoPanicYet
  <2>2. CASE channels[i] = "nextClosed"
    <3>1. \A r \in Runners : proc[<<i, r>>] # "none"
      BY <1>1, <1>2, <2>2 DEF PopsKnown
    <3>2. \A r \in Runners : run[<<i, r>>] \notin {"none", "spawned"}
      BY <3>1, RunPairs DEF IInv, ProcInRun
    <3> QED
      BY <1>1, <3>2 DEF PanicMeansDoubleRun, runVars
  <2> QED
    BY <1>1, <2>1, <2>2
<1> QED
  BY <1>4, <1>5, <1>6, <1>7, <1>8, <1>9, <1>10 DEF IInv

-----------------------------------------------------------------------------
LEMMA NextIInv == IInv /\ [Next]_vars => IInv'
<1> SUFFICES ASSUME IInv, [Next]_vars PROVE IInv'
  OBVIOUS
<1>1. CASE BootFails \/ Boot \/ NotifySignals \/ Signal \/ Relay \/ Exit
  BY <1>1, MainSteps
<1>2. CASE ControllerStep
  BY <1>2, ControllerSteps, AddHandlerSteps, SpawnSteps DEF ControllerStep
<1>3. CASE \E f \in Factories : FactoryStart(f)
  BY <1>3, SpawnSteps
<1>4. CASE \E x \in Runs : RunStep(x) \/ ProcessorStep(x) \/ Deliver(x)
  BY <1>4, RunSteps, StartListenersSteps, CloseListenersSteps, DeliverSteps DEF ProcessorStep
<1>5. CASE \E i \in Informers : PopReturns(i)
  BY <1>5, PopReturnsSteps
<1>6. CASE UNCHANGED vars
  <2>1. UNCHANGED <<procVars, ctlVars, runVars, lisVars>>
    BY <1>6 DEF vars
  <2>2. (CtlTypes /\ Counts /\ HandlerKnowsStore)'
    BY <2>1 DEF IInv, CtlTypes, Counts, HandlerKnowsStore, Alive, procVars, ctlVars, lisVars
  <2>3. (RunTypes /\ ProcInRun /\ OwnersKnown)'
    BY <2>1 DEF IInv, RunTypes, ProcInRun, OwnersKnown, Begun, runVars
  <2>6. (ListenerTypes /\ PopsKnown)'
    BY <2>1 DEF IInv, ListenerTypes, PopsKnown, runVars, lisVars
  <2>4. (SpawnedOnce /\ PolledIsFilled)'
    BY <2>1 DEF IInv, SpawnedOnce, PolledIsFilled, WorkersAfterSync, ctlVars, runVars, lisVars
  <2>5. PanicMeansDoubleRun'
    BY <2>1 DEF IInv, PanicMeansDoubleRun, procVars, runVars
  <2> QED
    BY <2>2, <2>3, <2>4, <2>5, <2>6 DEF IInv
<1> QED
  BY <1>1, <1>2, <1>3, <1>4, <1>5, <1>6 DEF Next

\* The invariant of the whole process holds in every state it reaches.
THEOREM Inductive == Spec => []IInv
BY InitIInv, NextIInv, PTL DEF Spec

\* Every variable holds a value of its kind, for any informers and factories.
THEOREM TypeCorrect == Spec => []TypeOK
<1>1. IInv => TypeOK
  <2> SUFFICES ASSUME IInv PROVE TypeOK
    OBVIOUS
  <2>1. pops \in [Informers -> 0 .. 2]
    BY DEF IInv, ListenerTypes, PopsKnown
  <2> QED
    BY <2>1 DEF IInv, CtlTypes, RunTypes, ListenerTypes, Counts, ProcStates, Channels, TypeOK
<1> QED
  BY <1>1, Inductive, PTL

\* The workers start only after every cache they read was filled once
\* (controller.go:186), whoever Runs the informers.
THEOREM WorkersWaitForCaches == Spec => []WorkersAfterSync
<1>1. IInv => WorkersAfterSync
  BY DEF IInv, PolledIsFilled
<1> QED
  BY <1>1, Inductive, PTL

\* A handler that joins a started informer misses nothing (controller.go:214-262).
THEOREM LateHandlersCatchUp == Spec => []HandlerKnowsStore
<1>1. IInv => HandlerKnowsStore
  BY DEF IInv
<1> QED
  BY <1>1, Inductive, PTL

\* Only an informer that both its factory and controller.Run have run can take
\* the process down when it stops (main.go:214-222, controller.go:170-183).
THEOREM OneRunNeverPanics == Spec => []PanicMeansDoubleRun
<1>1. IInv => PanicMeansDoubleRun
  BY DEF IInv
<1> QED
  BY <1>1, Inductive, PTL

-----------------------------------------------------------------------------
\* A Run ends with its processor closed and the pops of its informer gone; from
\* then on only a Run that the factory has begun as well starts new ones.
\* controller.Run has returned when all of its own Runs have ended.
EndsClean ==
    /\ \A x \in Runs : run[x] = "done" => proc[x] = "closed"
    /\ \A i \in Informers :
         /\ run[<<i, "controller">>] = "done"
         /\ run[<<i, "factory">>] \in {"none", "spawned"}
         => pops[i] = 0
    /\ ctl = "returned" =>
         alive = 0 /\ \A i \in Informers : run[<<i, "controller">>] = "done"

\* Steps that end no Run, stop no processor and start no pop, before or after
\* controller.Run has returned, change nothing of this.
LEMMA NothingEnds ==
    ASSUME EndsClean,
           \A x \in Runs :
              /\ run[x] = "done" => run'[x] = "done" /\ proc'[x] = "closed"
              /\ run'[x] = "done" => run[x] = "done"
              /\ run'[x] \in {"none", "spawned"} => run[x] \in {"none", "spawned"},
           \A i \in Informers :
              run[<<i, "controller">>] = "done" /\ run[<<i, "factory">>] \in {"none", "spawned"}
              => pops'[i] \in {pops[i], 0},
           ctl' = "returned" => ctl = "returned" /\ alive' = alive
    PROVE  EndsClean'
<1>1. \A i \in Informers : <<i, "controller">> \in Runs /\ <<i, "factory">> \in Runs
  BY RunPairs DEF Runners
<1> QED
  BY <1>1 DEF EndsClean

LEMMA MainEndsClean ==
    ASSUME EndsClean, UNCHANGED <<run, proc, pops, ctl, alive>>
    PROVE  EndsClean'
BY DEF EndsClean

LEMMA ControllerEndsClean ==
    ASSUME IInv, EndsClean,
           \/ Register \/ PollSynced \/ SyncCancelled
           \/ ShutDownQueue \/ WorkerReturns \/ ControllerReturns
    PROVE  EndsClean'
<1>1. UNCHANGED <<run, proc, pops>>
  BY DEF Register, PollSynced, SyncCancelled, ShutDownQueue, WorkerReturns,
     ControllerReturns, runVars, lisVars
<1>2. CASE ControllerReturns
  BY <1>1, <1>2 DEF ControllerReturns, Waited, EndsClean
<1>3. CASE ~ControllerReturns
  <2>1. ctl' # "returned"
    BY <1>3 DEF Register, PollSynced, SyncCancelled, ShutDownQueue, WorkerReturns
  <2> QED
    BY <1>1, <2>1 DEF EndsClean
<1> QED
  BY <1>2, <1>3

\* What is spawned was not spawned before, so no Run that has ended is.
LEMMA SpawnsEndClean ==
    ASSUME IInv, EndsClean, SpawnRuns \/ \E f \in Factories : FactoryStart(f)
    PROVE  EndsClean'
<1>1. /\ UNCHANGED <<alive, proc, pops>>
      /\ ctl' = "returned" => ctl = "returned"
  BY DEF SpawnRuns, FactoryStart, lisVars
<1>2. \A x \in Runs : run'[x] = run[x] \/ (run'[x] = "spawned" /\ run[x] = "none")
  <2>1. CASE SpawnRuns
    BY <2>1, RunPairs DEF SpawnRuns, IInv, SpawnedOnce
  <2>2. CASE \E f \in Factories : FactoryStart(f)
    BY <2>2, RunPairs DEF FactoryStart, IInv, SpawnedOnce
  <2> QED
    BY <2>1, <2>2
<1>3. \A x \in Runs :
        /\ run[x] = "done" => run'[x] = "done" /\ proc'[x] = "closed"
        /\ run'[x] = "done" => run[x] = "done"
        /\ run'[x] \in {"none", "spawned"} => run[x] \in {"none", "spawned"}
  BY <1>1, <1>2 DEF EndsClean
<1> QED
  BY <1>1, <1>3, NothingEnds

\* A handler is added before the Run of controller.Run is spawned.
LEMMA AddHandlerEndsClean == ASSUME IInv, EndsClean, AddHandler PROVE EndsClean'
<1> DEFINE i == Order[next]
<1>1. UNCHANGED <<alive, proc>> /\ ctl = "handle" /\ ctl' # "returned"
  BY DEF AddHandler
<1>2. i \in Informers /\ handler[i] = "none"
  BY <1>1, OrderFacts DEF IInv, CtlTypes, SpawnedOnce
<1>3. run[<<i, "controller">>] = "none"
  BY <1>1, <1>2 DEF IInv, SpawnedOnce
<1>4. \A x \in Runs : run'[x] = run[x] \/ (run'[x] = "spawned" /\ run[x] = "none")
  BY <1>3 DEF AddHandler, IInv, RunTypes
<1>5. \A j \in Informers : j # i => pops'[j] = pops[j]
  BY DEF AddHandler, IInv, ListenerTypes
<1>6. \A x \in Runs :
        /\ run[x] = "done" => run'[x] = "done" /\ proc'[x] = "closed"
        /\ run'[x] = "done" => run[x] = "done"
        /\ run'[x] \in {"none", "spawned"} => run[x] \in {"none", "spawned"}
  BY <1>1, <1>4 DEF EndsClean
<1> QED
  BY <1>1, <1>3, <1>5, <1>6, NothingEnds

\* The steps of a Run but its last one.
LEMMA RunsEndClean ==
    ASSUME IInv, EndsClean, NEW x \in Runs,
           \/ BuildController(x) \/ EnterController(x) \/ PopChecks(x)
           \/ PopWaits(x) \/ CloseFIFO(x) \/ Deliver(x)
    PROVE  EndsClean'
<1>1. UNCHANGED <<ctl, alive, pops>> /\ run[x] \notin {"none", "done"}
  BY DEF BuildController, EnterController, PopChecks, PopWaits, CloseFIFO, Entered,
     Deliver, ctlVars, lisVars
<1>2. \A y \in Runs :
        \/ run'[y] = run[y]
        \/ run[y] \notin {"none", "done"} /\ run'[y] \notin {"none", "spawned", "done"}
  <2> USE <1>1 DEF IInv, RunTypes
  <2>1. CASE BuildController(x) \/ PopWaits(x) \/ Deliver(x)
    BY <2>1 DEF BuildController, PopWaits, Deliver
  <2>2. CASE EnterController(x) \/ PopChecks(x)
    BY <2>2 DEF EnterController, PopChecks, Stops
  <2>3. CASE CloseFIFO(x)
    BY <2>3 DEF CloseFIFO
  <2> QED
    BY <2>1, <2>2, <2>3
<1>3. \A y \in Runs : run[y] = "done" => proc'[y] = proc[y]
  BY <1>1 DEF BuildController, EnterController, PopChecks, PopWaits, CloseFIFO, Deliver,
     IInv, RunTypes
<1>4. \A y \in Runs :
        /\ run[y] = "done" => run'[y] = "done" /\ proc'[y] = "closed"
        /\ run'[y] = "done" => run[y] = "done"
        /\ run'[y] \in {"none", "spawned"} => run[y] \in {"none", "spawned"}
  BY <1>2, <1>3 DEF EndsClean
<1> QED
  BY <1>1, <1>4, NothingEnds

\* A Run returns when its processor has closed and no pop is left.
LEMMA RunReturnsEndsClean ==
    ASSUME IInv, EndsClean, NEW x \in Runs, RunReturns(x) PROVE EndsClean'
<1>1. /\ UNCHANGED <<ctl, alive, pops, proc>> /\ proc[x] = "closed" /\ pops[x[1]] = 0
      /\ \A y \in Runs : run'[y] = IF y = x THEN "done" ELSE run[y]
  BY DEF RunReturns, ctlVars, lisVars, IInv, RunTypes
<1>2. \A i \in Informers : <<i, "controller">> \in Runs /\ <<i, "factory">> \in Runs
  BY RunPairs DEF Runners
<1>3. \A i \in Informers : x = <<i, "controller">> => x[1] = i
  OBVIOUS
<1> QED
  BY <1>1, <1>2, <1>3 DEF EndsClean

\* A processor that has yet to start its listener belongs to a Run that has
\* begun and not ended, so that its informer is not at rest.
LEMMA ListenersEndClean ==
    ASSUME IInv, EndsClean, NEW x \in Runs, StartListeners(x) \/ CloseListeners(x)
    PROVE  EndsClean'
<1>1. UNCHANGED <<ctl, alive, run>> /\ proc[x] \in {"spawned", "up"}
  BY DEF StartListeners, CloseListeners, ctlVars
<1>2. run[x] \notin {"none", "spawned", "done"}
  BY <1>1 DEF IInv, ProcInRun, EndsClean
<1>3. \A y \in Runs : y # x => proc'[y] = proc[y]
  BY DEF StartListeners, CloseListeners, IInv, RunTypes
<1>4. \A i \in Informers :
        run[<<i, "controller">>] = "done" /\ run[<<i, "factory">>] \in {"none", "spawned"}
        => pops'[i] = pops[i]
  <2>1. \A i \in Informers : i # x[1] => pops'[i] = pops[i]
    BY DEF StartListeners, CloseListeners, IInv, ListenerTypes
  <2>2. x = <<x[1], "controller">> \/ x = <<x[1], "factory">>
    BY RunPairs DEF Runners
  <2> QED
    BY <1>2, <2>1, <2>2
<1> QED
  BY <1>1, <1>2, <1>3, <1>4, NothingEnds DEF EndsClean

LEMMA PopReturnsEndsClean ==
    ASSUME IInv, EndsClean, NEW i \in Informers, PopReturns(i) PROVE EndsClean'
<1>1. UNCHANGED <<ctl, alive, run, proc>> /\ pops[i] > 0
  BY DEF PopReturns, ctlVars, runVars
<1>2. \A j \in Informers : j # i => pops'[j] = pops[j]
  BY DEF PopReturns, IInv, ListenerTypes
<1>3. ~(run[<<i, "controller">>] = "done" /\ run[<<i, "factory">>] \in {"none", "spawned"})
  BY <1>1 DEF EndsClean
<1> QED
  BY <1>1, <1>2, <1>3 DEF EndsClean

LEMMA NextEndsClean == IInv /\ EndsClean /\ [Next]_vars => EndsClean'
<1> SUFFICES ASSUME IInv, EndsClean, [Next]_vars PROVE EndsClean'
  OBVIOUS
<1>1. CASE BootFails \/ Boot \/ NotifySignals \/ Signal \/ Relay \/ Exit \/ UNCHANGED vars
  <2>1. UNCHANGED <<run, proc, pops, ctl, alive>>
    BY <1>1 DEF BootFails, Boot, NotifySignals, Signal, Relay, Exit, vars, ctlVars, runVars,
       lisVars
  <2> QED
    BY <2>1, MainEndsClean
<1>2. CASE ControllerStep
  BY <1>2, ControllerEndsClean, AddHandlerEndsClean, SpawnsEndClean DEF ControllerStep
<1>3. CASE \E f \in Factories : FactoryStart(f)
  BY <1>3, SpawnsEndClean
<1>4. CASE \E x \in Runs : RunStep(x) \/ ProcessorStep(x) \/ Deliver(x)
  BY <1>4, RunsEndClean, RunReturnsEndsClean, ListenersEndClean DEF RunStep, ProcessorStep
<1>5. CASE \E i \in Informers : PopReturns(i)
  BY <1>5, PopReturnsEndsClean
<1> QED
  BY <1>1, <1>2, <1>3, <1>4, <1>5 DEF Next

\* The process that ends by itself after controller.Run has shut down leaves no
\* worker and no informer of its own behind, and no goroutine that hands on
\* events but for an informer that its factory has begun to run as well
\* (controller.go:205-211), for any informers, factories and workers.
THEOREM NothingRunsOn == Spec => []DoneBeforeExit
<1>1. Init => EndsClean
  <2>1. Init => \A i \in Informers : <<i, "controller">> \in Runs
    BY RunPairs DEF Runners
  <2> QED
    BY <2>1 DEF Init, EndsClean
<1>2. EndsClean => DoneBeforeExit
  BY DEF EndsClean, DoneBeforeExit
<1> QED
  BY <1>1, <1>2, NextEndsClean, Inductive, PTL DEF Spec
=============================================================================
