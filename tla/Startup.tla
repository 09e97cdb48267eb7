------------------------------- MODULE Startup -------------------------------
(***************************************************************************)
(* One operator process from main() to its exit: the boot sequence, the    *)
(* signals, the informer factories that are started in goroutines of their *)
(* own, controller.Run, which registers its handlers and then runs the     *)
(* same informers itself, and the way everything stops.  An informer may   *)
(* so be Run twice: by its factory, if it is registered by the time the    *)
(* factory starts, and by controller.Run.                                  *)
(*                                                                         *)
(* Of client-go the part that decides how this ends is modelled: which     *)
(* Run owns s.controller, when HasSynced answers yes, the listeners of the *)
(* processor and the channels they close, and the process loop that waits  *)
(* for the delta FIFO to be closed.  The data is one object per informer,  *)
(* in the API server from the start.                                       *)
(***************************************************************************)
EXTENDS Integers, Sequences

CONSTANTS Informers,   \* the shared informers controller.Run uses
          Order,       \* the sequence in which it registers them
          FactoryOf,   \* the factory each comes from, or NoFactory
          NoFactory,   \* the informer watchPods makes for itself
          Awaited,     \* the informers WaitForCacheSync is called with
          Workers,     \* the number of workers, runtime.NumCPU()
          MaxSignals   \* bound: the signals sent to the process

ASSUME InformersAssumption ==
    /\ Order \in Seq(Informers) /\ Order # << >>
    /\ \A k, m \in 1 .. Len(Order) : Order[k] = Order[m] => k = m
    /\ \A i \in Informers : \E k \in 1 .. Len(Order) : Order[k] = i
    /\ Awaited \subseteq Informers
ASSUME BoundsAssumption == Workers \in Nat /\ MaxSignals \in Nat

\* Who runs an informer: the Start of its factory, or controller.Run.
Runners == {"factory", "controller"}
Runs == Informers \X Runners

Factories == {FactoryOf[i] : i \in Informers} \ {NoFactory}

VARIABLES
    main,        \* where run() of main.go is
    exit,        \* how the process ended: "none" while it lives
    sent,        \* the number of signals sent so far
    pending,     \* the signals in the channel term
    relayed,     \* the signals its goroutine has taken out
    factoryUp,   \* the factories whose Start has returned
    ctl,         \* where controller.Run is
    next,        \* the index in Order at which it is
    registered,  \* the informers created so far
    alive,       \* the number of workers that run
    run,         \* where each Run of an informer is
    owner,       \* s.controller: the Run that made the latest one
    on,          \* the controller a Run works with, named by its maker
    listed,      \* the controllers whose FIFO was filled and drained
    closed,      \* the Runs whose goroutine has closed the FIFO
    proc,        \* where the processor.run of each Run is
    stopped,     \* s.stopped
    handler,     \* s.processor.listeners: "none", "added" or "dropped"
    pops,        \* the pop goroutines of the listener
    channels,    \* "open", "addClosed" or "nextClosed"
    store,       \* the informers whose indexer holds the object
    told         \* the informers whose handler was told of it

procVars == <<main, exit, sent, pending, relayed>>
ctlVars  == <<factoryUp, ctl, next, registered, alive>>
runVars  == <<run, owner, on, listed, closed, proc, stopped>>
lisVars  == <<handler, pops, channels, store, told>>
vars     == <<procVars, ctlVars, runVars, lisVars>>

Alive    == exit = "none"
Launched == Alive /\ main # "boot"     \* the goroutines of v1beta2 run
done     == relayed > 0                \* ctx is cancelled

\* Bug: a handler's goroutines are started as soon as Run has been called.
ListenersStartedEarly(i) == owner[i] # "nobody"

ListenersStarted(i) == \E r \in Runners : proc[<<i, r>>] \in {"up", "closed"}
Entered(x) == run[x] \in {"looping", "checked", "waiting", "closing"}

Init ==
    /\ main = "boot" /\ exit = "none"
    /\ sent = 0 /\ pending = 0 /\ relayed = 0
    /\ factoryUp = {} /\ registered = {}
    /\ ctl = "register" /\ next = 1 /\ alive = 0
    /\ run  = [x \in Runs |-> "none"]
    /\ proc = [x \in Runs |-> "none"]
    /\ on   = [x \in Runs |-> "nobody"]
    /\ owner   = [i \in Informers |-> "nobody"]
    /\ handler = [i \in Informers |-> "none"]
    /\ pops    = [i \in Informers |-> 0]
    /\ channels = [i \in Informers |-> "open"]
    /\ listed = {} /\ closed = {} /\ stopped = {} /\ store = {} /\ told = {}

-----------------------------------------------------------------------------
(* run() and v1beta2 of main.go.                                            *)

\* No configuration, no permission, no CRD, no controller: the process ends
\* before anything was started.
BootFails ==
    /\ Alive /\ main = "boot"
    /\ exit' = "1"
    /\ UNCHANGED <<main, sent, pending, relayed, ctlVars, runVars, lisVars>>

\* v1beta2 returns: the goroutines are launched, no signal is caught yet.
Boot ==
    /\ Alive /\ main = "boot"
    /\ main' = "notify"
    /\ UNCHANGED <<exit, sent, pending, relayed, ctlVars, runVars, lisVars>>

\* signal.Notify, and the goroutine that waits for the signals.
NotifySignals ==
    /\ Alive /\ main = "notify"
    /\ main' = "waiting"
    /\ UNCHANGED <<exit, sent, pending, relayed, ctlVars, runVars, lisVars>>

\* Bug: the channel has room for one signal.
TermCapOne == 1

\* make(chan os.Signal, 2): what finds the channel full is dropped.
TermCap == 2

\* A signal that nobody catches yet kills the process.
Signal ==
    /\ Alive /\ sent < MaxSignals
    /\ sent' = sent + 1
    /\ IF main \in {"boot", "notify"}
       THEN exit' = "killed" /\ UNCHANGED pending
       ELSE /\ pending' = IF pending < TermCap THEN pending + 1 ELSE pending
            /\ UNCHANGED exit
    /\ UNCHANGED <<main, relayed, ctlVars, runVars, lisVars>>

\* The first signal cancels the context, the second ends the process.
Relay ==
    /\ Alive /\ main \notin {"boot", "notify"} /\ pending > 0
    /\ pending' = pending - 1
    /\ relayed' = relayed + 1
    /\ exit' = IF relayed = 0 THEN exit ELSE "1"
    /\ UNCHANGED <<main, sent, ctlVars, runVars, lisVars>>

\* What wg counts: controller.Run and the two Starts.
StoppedAll == ctl \in {"returned", "gaveUp"} /\ factoryUp = Factories

\* <-ctx.Done(), wg.Wait(), return 0.
Exit ==
    /\ Alive /\ main = "waiting" /\ done /\ StoppedAll
    /\ exit' = "0"
    /\ UNCHANGED <<main, sent, pending, relayed, ctlVars, runVars, lisVars>>

-----------------------------------------------------------------------------
(* The informer factories and controller.Run.                               *)

\* sharedInformerFactory.Start, under the factory's lock, called once for
\* each factory: it runs the informers that are registered by then.
FactoryStart(f) ==
    /\ Launched /\ f \notin factoryUp
    /\ factoryUp' = factoryUp \union {f}
    /\ run' = [x \in Runs |->
                IF x[2] = "factory" /\ x[1] \in registered /\ FactoryOf[x[1]] = f
                THEN "spawned" ELSE run[x]]
    /\ UNCHANGED <<procVars, ctl, next, registered, alive,
                   owner, on, listed, closed, proc, stopped, lisVars>>

\* InformerFor, under the factory's lock; watchPods makes an informer itself.
Register ==
    /\ Launched /\ ctl = "register"
    /\ registered' = registered \union {Order[next]}
    /\ ctl' = "handle"
    /\ UNCHANGED <<procVars, factoryUp, next, alive, runVars, lisVars>>

\* Bug: a handler that joins late is not told what the informer holds.
ReplayedNothing(i) == told

\* What AddEventHandler tells a handler that joins a started informer.
Replayed(i) == IF i \in store THEN told \union {i} ELSE told

\* AddEventHandler of one informer.  A stopped informer drops the handler; a
\* started one replays its store to it, which takes a running listener.
AddHandler ==
    LET i == Order[next]
        last == next = Len(Order)
    IN
    /\ Launched /\ ctl = "handle"
    /\ IF i \in stopped
       THEN handler' = [handler EXCEPT ![i] = "dropped"] /\ UNCHANGED <<pops, told>>
       ELSE /\ i \in store => ListenersStarted(i)
            /\ handler' = [handler EXCEPT ![i] = "added"]
            /\ pops' = [pops EXCEPT ![i] = IF ListenersStarted(i) THEN 1 ELSE 0]
            /\ told' = Replayed(i)
    /\ ctl' = IF last THEN "go" ELSE "register"
    /\ next' = IF last THEN 1 ELSE next + 1
    /\ run' = IF FactoryOf[i] = NoFactory
              THEN [run EXCEPT ![<<i, "controller">>] = "spawned"] ELSE run
    /\ UNCHANGED <<procVars, factoryUp, registered, alive,
                   owner, on, listed, closed, proc, stopped, channels, store>>

\* The three go statements that run the informers of the factories.
SpawnRuns ==
    /\ Launched /\ ctl = "go"
    /\ ctl' = "sync"
    /\ run' = [x \in Runs |->
                IF x[2] = "controller" /\ FactoryOf[x[1]] # NoFactory
                THEN "spawned" ELSE run[x]]
    /\ UNCHANGED <<procVars, factoryUp, next, registered, alive,
                   owner, on, listed, closed, proc, stopped, lisVars>>

\* HasSynced asks the controller that s.controller names now.
HasSynced(i) == <<i, owner[i]>> \in listed

\* Bug: the workers start whether or not the caches have synced.
SyncedIgnored(k) == TRUE

\* Whether WaitForCacheSync may go on past the informer at index k.
SyncedOrIgnored(k) == Order[k] \in Awaited => HasSynced(Order[k])

\* WaitForCacheSync polls the informers one after the other, and all of them
\* again when one has not synced.  With the last one the workers start.
PollSynced ==
    LET last == next = Len(Order)
        ok   == SyncedOrIgnored(next)
    IN
    /\ Launched /\ ctl = "sync"
    /\ next' = IF ok /\ ~last THEN next + 1 ELSE 1
    /\ ctl' = IF ok /\ last THEN "serve" ELSE ctl
    /\ alive' = IF ok /\ last THEN Workers ELSE alive
    /\ UNCHANGED <<procVars, factoryUp, registered, runVars, lisVars>>

\* Cancelled before the caches have synced: Run returns at once, without
\* queue.ShutDown and without waiting for the informers it runs.
SyncCancelled ==
    /\ Launched /\ ctl = "sync" /\ done
    /\ ctl' = "gaveUp"
    /\ UNCHANGED <<procVars, factoryUp, next, registered, alive, runVars, lisVars>>

\* queue.ShutDown.
ShutDownQueue ==
    /\ Launched /\ ctl = "serve" /\ done
    /\ ctl' = "drain"
    /\ UNCHANGED <<procVars, factoryUp, next, registered, alive, runVars, lisVars>>

\* Bug: a worker tells the WaitGroup twice that it is done.
WorkerReturnsTwice ==
    /\ Launched /\ ctl = "drain" /\ alive > 0
    /\ alive' = alive - 2
    /\ UNCHANGED <<procVars, factoryUp, ctl, next, registered, runVars, lisVars>>

\* The workers find the queue empty and shut down; WorkerPool has the details.
WorkerReturns ==
    /\ Launched /\ ctl = "drain" /\ alive > 0
    /\ alive' = alive - 1
    /\ UNCHANGED <<procVars, factoryUp, ctl, next, registered, runVars, lisVars>>

\* Bug: the WaitGroup is not waited for; or it counts one goroutine too many.
WaitedForNothing == TRUE
WaitedForEver == FALSE

\* wg.Wait of controller.Run: its workers and the informers it runs.
Waited == alive = 0 /\ \A i \in Informers : run[<<i, "controller">>] = "done"

ControllerReturns ==
    /\ Launched /\ ctl = "drain" /\ Waited
    /\ ctl' = "returned"
    /\ UNCHANGED <<procVars, factoryUp, next, registered, alive, runVars, lisVars>>

-----------------------------------------------------------------------------
(* sharedIndexInformer.Run, by runner r of informer i: x = <<i, r>>.        *)

Panic == exit' = "panic"

\* A FIFO and a controller are made; s.controller now names this one.
BuildController(x) ==
    /\ Launched /\ run[x] = "spawned"
    /\ run' = [run EXCEPT ![x] = "built"]
    /\ owner' = [owner EXCEPT ![x[1]] = x[2]]
    /\ UNCHANGED <<procVars, ctlVars, on, listed, closed, proc, stopped, lisVars>>

\* The process loop and the reflector have returned: the informer takes no
\* more handlers, and its processor is told to stop.
Stops(x) ==
    /\ run' = [run EXCEPT ![x] = "closing"]
    /\ stopped' = stopped \union {x[1]}

\* The processor is started, and whatever s.controller names by now is run;
\* under a cancelled context its process loop is not even entered.
EnterController(x) ==
    /\ Launched /\ run[x] = "built"
    /\ on' = [on EXCEPT ![x] = owner[x[1]]]
    /\ proc' = [proc EXCEPT ![x] = "spawned"]
    /\ IF done THEN Stops(x)
       ELSE run' = [run EXCEPT ![x] = "looping"] /\ UNCHANGED stopped
    /\ UNCHANGED <<procVars, ctlVars, owner, listed, closed, lisVars>>

\* The object is listed, or changes later on: the process loop of a Run takes
\* it from the FIFO, updates the indexer and hands it to the listener, if
\* there is one.  The hand-over waits for a pop goroutine and panics on a
\* closed channel.
Deliver(x) ==
    LET i == x[1]
        heard == handler[i] = "added"
    IN
    /\ Launched /\ run[x] \in {"looping", "waiting"}
    /\ heard => pops[i] > 0 \/ channels[i] # "open"
    /\ listed' = listed \union {<<i, on[x]>>}
    /\ store' = store \union {i}
    /\ run' = [run EXCEPT ![x] = "looping"]
    /\ IF heard /\ channels[i] # "open"
       THEN Panic /\ UNCHANGED told
       ELSE told' = (IF heard THEN told \union {i} ELSE told) /\ UNCHANGED exit
    /\ UNCHANGED <<main, sent, pending, relayed, ctlVars, owner, on, closed, proc,
                   stopped, handler, pops, channels>>

\* DeltaFIFO.IsClosed, of the FIFO of the controller x works with.
IsClosed(x) == \E r \in Runners : <<x[1], r>> \in closed /\ on[<<x[1], r>>] = on[x]

\* Pop finds the FIFO empty: it returns if the FIFO is closed, or is about to
\* wait.  The two steps of the wait are apart, because Close does not take the
\* lock that Pop holds.
PopChecks(x) ==
    /\ Launched /\ run[x] = "looping"
    /\ IF IsClosed(x) THEN Stops(x)
       ELSE run' = [run EXCEPT ![x] = "checked"] /\ UNCHANGED stopped
    /\ UNCHANGED <<procVars, ctlVars, owner, on, listed, closed, proc, lisVars>>

PopWaits(x) ==
    /\ Launched /\ run[x] = "checked"
    /\ run' = [run EXCEPT ![x] = "waiting"]
    /\ UNCHANGED <<procVars, ctlVars, owner, on, listed, closed, proc, stopped, lisVars>>

\* The goroutine of controller.Run that closes the FIFO, and wakes those that
\* wait on it by now.
CloseFIFO(x) ==
    /\ Launched /\ done /\ Entered(x) /\ x \notin closed
    /\ closed' = closed \union {x}
    /\ run' = [y \in Runs |->
                IF run[y] = "waiting" /\ y[1] = x[1] /\ on[y] = on[x]
                THEN "looping" ELSE run[y]]
    /\ UNCHANGED <<procVars, ctlVars, owner, on, listed, proc, stopped, lisVars>>

\* The processor has stopped, its pops with it (p.wg.Wait).
RunReturns(x) ==
    /\ Launched /\ run[x] = "closing" /\ proc[x] = "closed" /\ pops[x[1]] = 0
    /\ run' = [run EXCEPT ![x] = "done"]
    /\ UNCHANGED <<procVars, ctlVars, owner, on, listed, closed, proc, stopped, lisVars>>

-----------------------------------------------------------------------------
(* sharedProcessor.run, one for each Run, and the pop of its listener.      *)

StartListeners(x) ==
    /\ Launched /\ proc[x] = "spawned"
    /\ proc' = [proc EXCEPT ![x] = "up"]
    /\ pops' = [pops EXCEPT ![x[1]] = IF handler[x[1]] = "added" THEN @ + 1 ELSE @]
    /\ UNCHANGED <<procVars, ctlVars, run, owner, on, listed, closed, stopped,
                   handler, channels, store, told>>

\* close(listener.addCh); closing it a second time panics.
CloseListeners(x) ==
    LET i == x[1] IN
    /\ Launched /\ proc[x] = "up" /\ run[x] = "closing"
    /\ proc' = [proc EXCEPT ![x] = "closed"]
    /\ IF handler[i] # "added"
       THEN UNCHANGED <<exit, channels>>
       ELSE IF channels[i] = "open"
            THEN channels' = [channels EXCEPT ![i] = "addClosed"] /\ UNCHANGED exit
            ELSE Panic /\ UNCHANGED channels
    /\ UNCHANGED <<main, sent, pending, relayed, ctlVars, run, owner, on, listed,
                   closed, stopped, handler, pops, store, told>>

\* pop sees addCh closed and closes nextCh, which a second pop may not.
PopReturns(i) ==
    /\ Launched /\ pops[i] > 0 /\ channels[i] # "open"
    /\ pops' = [pops EXCEPT ![i] = @ - 1]
    /\ channels' = [channels EXCEPT ![i] = "nextClosed"]
    /\ IF channels[i] = "nextClosed" THEN Panic ELSE UNCHANGED exit
    /\ UNCHANGED <<main, sent, pending, relayed, ctlVars, runVars, handler, store, told>>

-----------------------------------------------------------------------------
RunStep(x) ==
    \/ BuildController(x) \/ EnterController(x)
    \/ PopChecks(x) \/ PopWaits(x) \/ CloseFIFO(x)
    \/ RunReturns(x)

ProcessorStep(x) == StartListeners(x) \/ CloseListeners(x)

ControllerStep ==
    \/ Register \/ AddHandler \/ SpawnRuns \/ PollSynced \/ SyncCancelled
    \/ ShutDownQueue \/ WorkerReturns \/ ControllerReturns

Next ==
    \/ BootFails \/ Boot \/ NotifySignals \/ Signal \/ Relay \/ Exit
    \/ ControllerStep
    \/ \E f \in Factories : FactoryStart(f)
    \/ \E x \in Runs : RunStep(x) \/ ProcessorStep(x) \/ Deliver(x)
    \/ \E i \in Informers : PopReturns(i)

\* Goroutines are scheduled: each one that can go on does.  A poll is repeated
\* for ever, so the exits from it are given fairness of their own.  Nothing is
\* assumed of signals, nor of what the API server sends.
Fairness ==
    /\ WF_vars(Boot) /\ WF_vars(NotifySignals) /\ WF_vars(Relay) /\ WF_vars(Exit)
    /\ WF_vars(ControllerStep) /\ WF_vars(SyncCancelled)
    /\ \A f \in Factories : WF_vars(FactoryStart(f))
    /\ \A x \in Runs : /\ WF_vars(BuildController(x)) /\ WF_vars(EnterController(x))
                       /\ WF_vars(PopChecks(x)) /\ WF_vars(PopWaits(x))
                       /\ WF_vars(CloseFIFO(x)) /\ WF_vars(RunReturns(x))
                       /\ WF_vars(ProcessorStep(x))
    /\ \A i \in Informers : WF_vars(PopReturns(i))

Spec == Init /\ [][Next]_vars /\ Fairness
-----------------------------------------------------------------------------
Places == {"none", "spawned", "built", "looping", "checked", "waiting",
           "closing", "done"}

\* Every variable holds a value of its kind.
TypeOK ==
    /\ main \in {"boot", "notify", "waiting"}
    /\ exit \in {"none", "0", "1", "killed", "panic"}
    /\ sent \in 0 .. MaxSignals /\ pending \in 0 .. TermCap /\ relayed \in 0 .. 2
    /\ factoryUp \subseteq Factories
    /\ ctl \in {"register", "handle", "go", "sync", "serve", "drain", "returned", "gaveUp"}
    /\ next \in 1 .. Len(Order)
    /\ registered \subseteq Informers
    /\ alive \in 0 .. Workers
    /\ run \in [Runs -> Places]
    /\ owner \in [Informers -> Runners \union {"nobody"}]
    /\ on \in [Runs -> Runners \union {"nobody"}]
    /\ listed \subseteq Runs /\ closed \subseteq Runs
    /\ proc \in [Runs -> {"none", "spawned", "up", "closed"}]
    /\ stopped \subseteq Informers
    /\ handler \in [Informers -> {"none", "added", "dropped"}]
    /\ pops \in [Informers -> 0 .. 2]
    /\ channels \in [Informers -> {"open", "addClosed", "nextClosed"}]
    /\ store \subseteq Informers /\ told \subseteq Informers

\* No worker runs before every informer it reads has been filled by a list,
\* whichever Run has made the controller that HasSynced asks (controller.go:186).
WorkersAfterSync == ctl \in {"serve", "drain"} => Awaited \subseteq store

\* A handler knows every object its informer holds, also when it joins an
\* informer its factory has already started (controller.go:214-262).
HandlerKnowsStore ==
    Alive => \A i \in Informers : handler[i] = "added" /\ i \in store => i \in told

\* Closing its channels takes the process down only when some informer was
\* Run twice (main.go:214-222, controller.go:170-183).
PanicMeansDoubleRun ==
    exit = "panic" =>
        \E i \in Informers : \A r \in Runners : run[<<i, r>>] \notin {"none", "spawned"}

\* When controller.Run has shut down and the process ends by itself, its
\* workers and informers have finished, and no goroutine hands an event to a
\* handler any more, but for informers that were Run twice (controller.go:205-211).
DoneBeforeExit ==
    exit = "0" /\ ctl = "returned" =>
        /\ alive = 0
        /\ \A i \in Informers :
             /\ run[<<i, "controller">>] = "done"
             /\ run[<<i, "factory">>] \in {"none", "spawned"} => pops[i] = 0

\* After a first signal the process ends, unless the closing of some FIFO was
\* missed by the Pop that was about to wait for it (main.go:141-153).
MissedClose == \E x \in Runs : run[x] = "waiting" /\ IsClosed(x)
StopsUnlessMissed == done ~> (~Alive \/ MissedClose)

\* A second signal ends a process that does not stop, also one that comes
\* before the first was looked at (main.go:137, 146).
SecondSignalEnds == (sent = 2) ~> ~Alive

\* What main.go:143 says of the first signal, and main.go:155 of the end: the
\* process leaves gracefully, it does not panic.
GracefulExit == exit # "panic"
=============================================================================
