--------------------------- MODULE BackendExecutor ---------------------------
(***************************************************************************)
(* The drone's Executor (src/drone/src/agent/executor.rs): one run_backend *)
(* task per backend racing step() against a 1-slot signal channel, the     *)
(* container-events task that turns engine events into Interrupt signals,  *)
(* and kill_backend calls that send Terminate.  The engine's container,    *)
(* the local store's proxy route and last-active time, and the durable     *)
(* backend.<B>.state log are modelled as the state those calls change.     *)
(***************************************************************************)
EXTENDS Naturals, Sequences, SequencesExt

CONSTANTS
    Backends,      \* backend ids spawned on this drone
    Killers,       \* concurrent kill_backend calls (TerminationRequests)
    None,          \* model value: no kill target yet
    MaxTime,       \* bound on the clock Utc::now()
    MaxIdle,       \* spawn_request.max_idle_secs, in clock ticks
    EngineErrors,  \* whether engine and database awaits may return Err
    MaxCrashes     \* bound on drone process crashes

ASSUME /\ MaxIdle \in Nat \ {0}
       /\ MaxTime \in Nat
       /\ EngineErrors \in BOOLEAN
       /\ MaxCrashes \in Nat

VARIABLES
    pc,         \* run_backend task: "none", "start" (before its listener insert),
                \* "loop", "exit", "unlisten", "done", or "down" while the drone
                \* process is dead
    state,      \* the task's local `state`
    phase,      \* progress of the current attempt of step(spawn_request, state)
    nextCheck,  \* next_check of the Ready step's idle loop
    chan,       \* the task's channel(1) of Signals, receiver side
    listener,   \* b \in backend_to_listener
    monitor,    \* b \in backend_to_monitor
    route,      \* proxy route of b inserted in the local store
    lastActive, \* last_active of b in the local store
    published,  \* states published on backend.<b>.state, in order
    result,     \* how the task left its loop: "none", "ok" (Ok(None)), "err"
    container,  \* the engine's container for b
    stops,      \* engine.stop(b) calls that took effect
    events,     \* engine.interrupt_stream() items not yet consumed
    now,        \* Utc::now()
    kpc,        \* kill_backend call: "idle", "wait", "ok", "err"
    ktarget,    \* backend a kill_backend call was made for
    stored,     \* backend state in the local store (DroneDatabase)
    unpub,      \* state written to the store and not yet published
    crashes     \* drone process crashes so far

vars == <<pc, state, phase, nextCheck, chan, listener, monitor, route,
          lastActive, published, result, container, stops, events, now,
          kpc, ktarget, stored, unpub, crashes>>

States == {"Loading", "Starting", "Ready", "ErrorLoading", "ErrorStarting",
           "TimedOutBeforeReady", "Failed", "Exited", "Swept", "Terminated"}

Terminal == States \ {"Loading", "Starting", "Ready"}

\* BackendState::running()
Running(s) == s \in {"Starting", "Ready"}

Phases == {"begin", "loaded", "port", "check", "towait", "sleep", "stopped"}

ContainerStatus == {"absent", "running", "failed", "exited", "stopped"}

\* Kill calls holding a DashMap Ref on b's entry of backend_to_listener.
Holders(b) == {k \in Killers : kpc[k] = "wait" /\ ktarget[k] = b}

-----------------------------------------------------------------------------
(* update_backend_state, first await: the local store is written; the     *)
(* publish on backend.<b>.state is the task's next step (Publish).        *)
Persist(b, s) ==
    /\ stored' = [stored EXCEPT ![b] = s]
    /\ unpub' = [unpub EXCEPT ![b] = s]

(* Handling of Ok(Some(s)) in run_backend, with update_backend_state.      *)
Transition(b, s) ==
    /\ state' = [state EXCEPT ![b] = s]
    /\ phase' = [phase EXCEPT ![b] = "begin"]
    /\ monitor' = IF Running(s) THEN [monitor EXCEPT ![b] = TRUE] ELSE monitor
    /\ Persist(b, s)
    /\ UNCHANGED published

\* A step that leaves the backend's state alone.
NoTransition == UNCHANGED <<state, monitor, published, stored, unpub>>

(* Leaving the loop after step returned Err.                               *)
LeaveOnError(b) ==
    /\ IF state[b] = "Loading"
         THEN /\ state' = [state EXCEPT ![b] = "ErrorLoading"]
              /\ Persist(b, "ErrorLoading")
         ELSE UNCHANGED <<state, stored, unpub>>
    /\ UNCHANGED published
    /\ result' = [result EXCEPT ![b] = "err"]
    /\ pc' = [pc EXCEPT ![b] = "exit"]

\* The task is in its loop and not inside update_backend_state.
Stepping(b) == pc[b] = "loop" /\ unpub[b] = None

InStep(b, s, p) == Stepping(b) /\ state[b] = s /\ phase[b] = p

SetPhase(b, p) == phase' = [phase EXCEPT ![b] = p]

-----------------------------------------------------------------------------
(* start_backend: insert_backend writes Loading to the store; the Loading *)
(* publish (Publish) follows before run_backend begins.                    *)
StartBackend(b) ==
    /\ pc[b] = "none"
    /\ now + MaxIdle < MaxTime
    /\ pc' = [pc EXCEPT ![b] = "start"]
    /\ state' = [state EXCEPT ![b] = "Loading"]
    /\ lastActive' = [lastActive EXCEPT ![b] = now]
    /\ Persist(b, "Loading")
    /\ UNCHANGED <<phase, nextCheck, chan, listener, monitor, route, published,
                   result, container, stops, events, now, kpc, ktarget, crashes>>

(* run_backend: channel(1) and backend_to_listener.insert; until here a   *)
(* kill_backend for b answers "Unknown backend" and events are dropped.   *)
Listen(b) ==
    /\ pc[b] = "start" /\ unpub[b] = None
    /\ pc' = [pc EXCEPT ![b] = "loop"]
    /\ listener' = [listener EXCEPT ![b] = TRUE]
    /\ UNCHANGED <<state, phase, nextCheck, chan, monitor, route, lastActive,
                   published, result, container, stops, events, now, kpc,
                   ktarget, stored, unpub, crashes>>

(* step, Loading: engine.load(spawn_request) returned Ok.                  *)
Load(b) ==
    /\ InStep(b, "Loading", "begin")
    /\ container' = [container EXCEPT ![b] = "running"]
    /\ SetPhase(b, "loaded")
    /\ UNCHANGED <<pc, state, nextCheck, chan, listener, monitor, route,
                   lastActive, published, result, stops, events, now, kpc, ktarget>>
    /\ UNCHANGED <<stored, unpub, crashes>>

LoadDone(b) ==
    /\ InStep(b, "Loading", "loaded")
    /\ Transition(b, "Starting")
    /\ UNCHANGED <<pc, nextCheck, chan, listener, route, lastActive, result,
                   container, stops, events, now, kpc, ktarget, crashes>>

(* step, Starting: engine.backend_status.                                  *)
StartingStatus(b) ==
    /\ InStep(b, "Starting", "begin")
    /\ IF container[b] = "running"
         THEN SetPhase(b, "port") /\ NoTransition
         ELSE Transition(b, "ErrorStarting")
    /\ UNCHANGED <<pc, nextCheck, chan, listener, route, lastActive, result,
                   container, stops, events, now, kpc, ktarget, crashes>>

(* step, Starting: wait_port_ready and insert_proxy_route returned Ok.     *)
PortReady(b) ==
    /\ InStep(b, "Starting", "port")
    /\ container[b] = "running"
    /\ route' = [route EXCEPT ![b] = TRUE]
    /\ Transition(b, "Ready")
    /\ UNCHANGED <<pc, nextCheck, chan, listener, lastActive, result,
                   container, stops, events, now, kpc, ktarget>>
    /\ UNCHANGED <<crashes>>

(* wait_port_ready gives up: the container is gone, or it never binds.     *)
PortTimeout(b) ==
    /\ InStep(b, "Starting", "port")
    /\ container[b] # "running" \/ EngineErrors
    /\ LeaveOnError(b)
    /\ UNCHANGED <<phase, nextCheck, chan, listener, monitor, route, lastActive,
                   container, stops, events, now, kpc, ktarget, crashes>>

(* step, Ready: engine.backend_status decides unless the container runs.   *)
ReadyStatus(b) ==
    /\ InStep(b, "Ready", "begin")
    /\ container[b] # "absent"
    /\ CASE container[b] = "running" -> SetPhase(b, "check")
                                        /\ NoTransition
         [] container[b] = "failed"  -> Transition(b, "Failed")
         [] container[b] = "exited"  -> Transition(b, "Exited")
         [] container[b] = "stopped" -> Transition(b, "Swept")
    /\ UNCHANGED <<pc, nextCheck, chan, listener, route, lastActive, result,
                   container, stops, events, now, kpc, ktarget, crashes>>

\* Mutant of ReadyCheck: next_check taken from the clock instead of
\* last_active.
ReadyCheckFromNow(b) ==
    /\ InStep(b, "Ready", "check")
    /\ LET nc == now + MaxIdle IN
         IF nc < now
           THEN Transition(b, "Swept") /\ UNCHANGED nextCheck
           ELSE /\ nextCheck' = [nextCheck EXCEPT ![b] = nc]
                /\ SetPhase(b, "towait")
                /\ NoTransition
    /\ UNCHANGED <<pc, chan, listener, route, lastActive, result, container,
                   stops, events, now, kpc, ktarget>>
    /\ UNCHANGED <<crashes>>

(* The idle loop: next_check = last_active + max_idle_secs, compared with  *)
(* a first reading of Utc::now().                                          *)
ReadyCheck(b) ==
    /\ InStep(b, "Ready", "check")
    /\ LET nc == lastActive[b] + MaxIdle IN
         IF nc < now
           THEN Transition(b, "Swept") /\ UNCHANGED nextCheck
           ELSE /\ nextCheck' = [nextCheck EXCEPT ![b] = nc]
                /\ SetPhase(b, "towait")
                /\ NoTransition
    /\ UNCHANGED <<pc, chan, listener, route, lastActive, result, container,
                   stops, events, now, kpc, ktarget>>
    /\ UNCHANGED <<crashes>>

(* The sleep duration is next_check minus a second reading of Utc::now(); *)
(* to_std() fails when that is negative.                                   *)
ReadySleep(b) ==
    /\ InStep(b, "Ready", "towait")
    /\ nextCheck[b] >= now
    /\ SetPhase(b, "sleep")
    /\ UNCHANGED <<pc, state, nextCheck, chan, listener, monitor, route,
                   lastActive, published, result, container, stops, events,
                   now, kpc, ktarget, stored, unpub, crashes>>

ReadyClockError(b) ==
    /\ InStep(b, "Ready", "towait")
    /\ nextCheck[b] < now
    /\ LeaveOnError(b)
    /\ UNCHANGED <<phase, nextCheck, chan, listener, monitor, route, lastActive,
                   container, stops, events, now, kpc, ktarget, crashes>>

ReadyWake(b) ==
    /\ InStep(b, "Ready", "sleep")
    /\ now >= nextCheck[b]
    /\ SetPhase(b, "check")
    /\ UNCHANGED <<pc, state, nextCheck, chan, listener, monitor, route,
                   lastActive, published, result, container, stops, events,
                   now, kpc, ktarget, stored, unpub, crashes>>

(* step, any terminal state: engine.stop(backend_id) took effect.          *)
StopContainer(b) ==
    /\ Stepping(b) /\ state[b] \in Terminal /\ phase[b] = "begin"
    /\ stops' = [stops EXCEPT ![b] = @ + 1]
    /\ container' = [container EXCEPT ![b] = "stopped"]
    /\ events' = IF container[b] = "running" THEN Append(events, b) ELSE events
    /\ SetPhase(b, "stopped")
    /\ UNCHANGED <<pc, state, nextCheck, chan, listener, monitor, route,
                   lastActive, published, result, now, kpc, ktarget>>
    /\ UNCHANGED <<stored, unpub, crashes>>

\* Mutant of StopDone: Ok(None) returned without awaiting engine.stop.
StopDoneUnawaited(b) ==
    /\ Stepping(b) /\ state[b] \in Terminal /\ phase[b] = "begin"
    /\ result' = [result EXCEPT ![b] = "ok"]
    /\ pc' = [pc EXCEPT ![b] = "exit"]
    /\ UNCHANGED <<state, phase, nextCheck, chan, listener, monitor, route,
                   lastActive, published, container, stops, events, now,
                   kpc, ktarget>>
    /\ UNCHANGED <<stored, unpub, crashes>>

(* engine.stop returned: step gives Ok(None) and the loop breaks.          *)
StopDone(b) ==
    /\ Stepping(b) /\ state[b] \in Terminal /\ phase[b] = "stopped"
    /\ result' = [result EXCEPT ![b] = "ok"]
    /\ pc' = [pc EXCEPT ![b] = "exit"]
    /\ UNCHANGED <<state, phase, nextCheck, chan, listener, monitor, route,
                   lastActive, published, container, stops, events, now,
                   kpc, ktarget>>
    /\ UNCHANGED <<stored, unpub, crashes>>

(* An await of step that can fail returns Err.                             *)
\* engine.load, engine.backend_status and engine.stop are awaited in phase
\* "begin", wait_port_ready and insert_proxy_route in "port", and
\* get_backend_last_active and the checked add in "check".
Failable(b) == phase[b] \in {"begin", "port", "check"}

StepError(b) ==
    /\ EngineErrors
    /\ Stepping(b)
    /\ Failable(b)
    /\ LeaveOnError(b)
    /\ UNCHANGED <<phase, nextCheck, chan, listener, monitor, route, lastActive,
                   container, stops, events, now, kpc, ktarget, crashes>>

\* Mutant of Recv: an Interrupt is consumed but the step is not restarted.
RecvNoRestart(b) ==
    /\ Stepping(b)
    /\ state[b] # "Swept"
    /\ chan[b] # <<>>
    /\ chan' = [chan EXCEPT ![b] = Tail(@)]
    /\ IF Head(chan[b]) = "Interrupt"
         THEN UNCHANGED phase /\ NoTransition
         ELSE Transition(b, "Terminated")
    /\ UNCHANGED <<pc, nextCheck, listener, route, lastActive, result,
                   container, stops, events, now, kpc, ktarget>>
    /\ UNCHANGED <<crashes>>

\* Mutant of Recv: the Swept state is stepped inside the select! as well.
RecvInSwept(b) ==
    /\ Stepping(b)
    /\ chan[b] # <<>>
    /\ chan' = [chan EXCEPT ![b] = Tail(@)]
    /\ IF Head(chan[b]) = "Interrupt"
         THEN SetPhase(b, "begin") /\ NoTransition
         ELSE Transition(b, "Terminated")
    /\ UNCHANGED <<pc, nextCheck, listener, route, lastActive, result,
                   container, stops, events, now, kpc, ktarget>>
    /\ UNCHANGED <<crashes>>

(* The select! takes a signal: Interrupt restarts the step on the same     *)
(* state, Terminate ends it with Terminated.  In Swept no signal is read.  *)
Recv(b) ==
    /\ Stepping(b)
    /\ state[b] # "Swept"
    /\ chan[b] # <<>>
    /\ chan' = [chan EXCEPT ![b] = Tail(@)]
    /\ IF Head(chan[b]) = "Interrupt"
         THEN SetPhase(b, "begin") /\ NoTransition
         ELSE Transition(b, "Terminated")
    /\ UNCHANGED <<pc, nextCheck, listener, route, lastActive, result,
                   container, stops, events, now, kpc, ktarget>>
    /\ UNCHANGED <<crashes>>

(* After the loop: backend_to_monitor.remove, then backend_to_listener.    *)
(* remove, which takes the shard's write lock and so waits for every Ref.  *)
RemoveMonitor(b) ==
    /\ pc[b] = "exit" /\ unpub[b] = None
    /\ monitor' = [monitor EXCEPT ![b] = FALSE]
    /\ pc' = [pc EXCEPT ![b] = "unlisten"]
    /\ UNCHANGED <<state, phase, nextCheck, chan, listener, route, lastActive,
                   published, result, container, stops, events, now, kpc, ktarget>>
    /\ UNCHANGED <<stored, unpub, crashes>>

RemoveListener(b) ==
    /\ pc[b] = "unlisten"
    /\ Holders(b) = {}
    /\ listener' = [listener EXCEPT ![b] = FALSE]
    /\ chan' = [chan EXCEPT ![b] = <<>>]
    /\ pc' = [pc EXCEPT ![b] = "done"]
    /\ UNCHANGED <<state, phase, nextCheck, monitor, route, lastActive,
                   published, result, container, stops, events, now, kpc, ktarget>>
    /\ UNCHANGED <<stored, unpub, crashes>>

-----------------------------------------------------------------------------
(* update_backend_state, second await: the stored state is published.     *)
Publish(b) ==
    /\ unpub[b] # None
    /\ pc[b] \in {"start", "loop", "exit"}
    /\ published' = [published EXCEPT ![b] = Append(@, unpub[b])]
    /\ unpub' = [unpub EXCEPT ![b] = None]
    /\ UNCHANGED <<pc, state, phase, nextCheck, chan, listener, monitor, route,
                   lastActive, result, container, stops, events, now, kpc,
                   ktarget, stored, crashes>>

(* The drone process dies.  Its tasks and their channels, both maps, the  *)
(* engine event subscription and the pending kill_backend calls are lost, *)
(* and a state written to the store but not yet published stays           *)
(* unpublished.  Containers, the store and the bus survive.               *)
Crash ==
    /\ crashes < MaxCrashes
    /\ crashes' = crashes + 1
    /\ pc' = [b \in Backends |-> IF pc[b] = "none" THEN "none" ELSE "down"]
    /\ phase' = [b \in Backends |-> "begin"]
    /\ chan' = [b \in Backends |-> <<>>]
    /\ listener' = [b \in Backends |-> FALSE]
    /\ monitor' = [b \in Backends |-> FALSE]
    /\ unpub' = [b \in Backends |-> None]
    /\ events' = <<>>
    /\ kpc' = [k \in Killers |-> IF kpc[k] = "wait" THEN "err" ELSE kpc[k]]
    /\ UNCHANGED <<state, nextCheck, route, lastActive, published, result,
                   container, stops, now, ktarget, stored>>

(* resume_backends after the restart: every backend get_backends returns *)
(* gets a run_backend task from its stored state, its monitor re-installed *)
(* first when the state is running(); the task's listener insert is       *)
(* Listen.  get_backends (DroneDatabase) is not in this repository; spec   *)
(* 4.6 says the scan yields the non-terminal backends.                     *)
Resume(b) ==
    /\ pc[b] = "down" /\ stored[b] \notin Terminal
    /\ pc' = [pc EXCEPT ![b] = "start"]
    /\ state' = [state EXCEPT ![b] = stored[b]]
    /\ monitor' = [monitor EXCEPT ![b] = Running(stored[b])]
    /\ result' = [result EXCEPT ![b] = "none"]
    /\ UNCHANGED <<phase, nextCheck, chan, listener, route, lastActive, published,
                   container, stops, events, now, kpc, ktarget, stored, unpub,
                   crashes>>

(* listen_for_container_events: try_send(Interrupt) to a listed backend;  *)
(* the signal is dropped when the slot is full or no listener exists.     *)
ListenEvent ==
    /\ events # <<>>
    /\ LET b == Head(events) IN
         chan' = IF listener[b] /\ Len(chan[b]) < 1
                   THEN [chan EXCEPT ![b] = Append(@, "Interrupt")]
                   ELSE chan
    /\ events' = Tail(events)
    /\ UNCHANGED <<pc, state, phase, nextCheck, listener, monitor, route,
                   lastActive, published, result, container, stops, now,
                   kpc, ktarget>>
    /\ UNCHANGED <<stored, unpub, crashes>>

(* kill_backend: backend_to_listener.get() keeps the Ref across the send. *)
KillStart(k, b) ==
    /\ kpc[k] = "idle"
    /\ kpc' = [kpc EXCEPT ![k] = IF listener[b] THEN "wait" ELSE "err"]
    /\ ktarget' = [ktarget EXCEPT ![k] = b]
    /\ UNCHANGED <<pc, state, phase, nextCheck, chan, listener, monitor, route,
                   lastActive, published, result, container, stops, events, now>>
    /\ UNCHANGED <<stored, unpub, crashes>>

\* Mutant of KillSend: the send does not wait for a free slot.
KillSendUnbounded(k) ==
    /\ kpc[k] = "wait"
    /\ chan' = [chan EXCEPT ![ktarget[k]] = Append(@, "Terminate")]
    /\ kpc' = [kpc EXCEPT ![k] = "ok"]
    /\ UNCHANGED <<pc, state, phase, nextCheck, listener, monitor, route,
                   lastActive, published, result, container, stops, events,
                   now, ktarget>>
    /\ UNCHANGED <<stored, unpub, crashes>>

KillSend(k) ==
    /\ kpc[k] = "wait"
    /\ Len(chan[ktarget[k]]) < 1
    /\ chan' = [chan EXCEPT ![ktarget[k]] = Append(@, "Terminate")]
    /\ kpc' = [kpc EXCEPT ![k] = "ok"]
    /\ UNCHANGED <<pc, state, phase, nextCheck, listener, monitor, route,
                   lastActive, published, result, container, stops, events,
                   now, ktarget>>
    /\ UNCHANGED <<stored, unpub, crashes>>

-----------------------------------------------------------------------------
(* Environment: the container dies or is stopped from outside, the clock  *)
(* advances, the proxy reports traffic to a routed backend.               *)
ContainerDies(b) ==
    /\ container[b] = "running"
    /\ \E s \in {"failed", "exited", "stopped"} :
         container' = [container EXCEPT ![b] = s]
    /\ events' = Append(events, b)
    /\ UNCHANGED <<pc, state, phase, nextCheck, chan, listener, monitor, route,
                   lastActive, published, result, stops, now, kpc, ktarget>>
    /\ UNCHANGED <<stored, unpub, crashes>>

Tick ==
    /\ now < MaxTime
    /\ now' = now + 1
    /\ UNCHANGED <<pc, state, phase, nextCheck, chan, listener, monitor, route,
                   lastActive, published, result, container, stops, events,
                   kpc, ktarget>>
    /\ UNCHANGED <<stored, unpub, crashes>>

Activity(b) ==
    /\ route[b] /\ container[b] = "running"
    /\ lastActive[b] < now
    /\ now + MaxIdle < MaxTime
    /\ lastActive' = [lastActive EXCEPT ![b] = now]
    /\ UNCHANGED <<pc, state, phase, nextCheck, chan, listener, monitor, route,
                   published, result, container, stops, events, now, kpc, ktarget>>
    /\ UNCHANGED <<stored, unpub, crashes>>

-----------------------------------------------------------------------------
Init ==
    /\ pc = [b \in Backends |-> "none"]
    /\ state = [b \in Backends |-> "Loading"]
    /\ phase = [b \in Backends |-> "begin"]
    /\ nextCheck = [b \in Backends |-> 0]
    /\ chan = [b \in Backends |-> <<>>]
    /\ listener = [b \in Backends |-> FALSE]
    /\ monitor = [b \in Backends |-> FALSE]
    /\ route = [b \in Backends |-> FALSE]
    /\ lastActive = [b \in Backends |-> 0]
    /\ published = [b \in Backends |-> <<>>]
    /\ result = [b \in Backends |-> "none"]
    /\ container = [b \in Backends |-> "absent"]
    /\ stops = [b \in Backends |-> 0]
    /\ events = <<>>
    /\ now = 0
    /\ kpc = [k \in Killers |-> "idle"]
    /\ ktarget = [k \in Killers |-> None]
    /\ stored = [b \in Backends |-> None]
    /\ unpub = [b \in Backends |-> None]
    /\ crashes = 0

\* The steps of b's run_backend task.
Task(b) ==
    \/ Load(b) \/ LoadDone(b)
    \/ StartingStatus(b) \/ PortReady(b) \/ PortTimeout(b)
    \/ ReadyStatus(b) \/ ReadyCheck(b) \/ ReadySleep(b) \/ ReadyClockError(b)
    \/ ReadyWake(b)
    \/ StopContainer(b) \/ StopDone(b)
    \/ Recv(b)
    \/ Listen(b) \/ Publish(b) \/ RemoveMonitor(b) \/ RemoveListener(b)

Next ==
    \/ \E b \in Backends :
         \/ StartBackend(b) \/ Task(b) \/ StepError(b) \/ Resume(b)
         \/ ContainerDies(b) \/ Activity(b)
    \/ ListenEvent
    \/ \E k \in Killers : KillSend(k) \/ \E b \in Backends : KillStart(k, b)
    \/ Tick
    \/ Crash

(* Tokio runs every task that can make progress, the events task drains   *)
(* the engine stream, a blocked send completes once the slot is free, and *)
(* time passes.  Spawns, container deaths, traffic, kill requests and     *)
(* errors come from outside and are not assumed to happen.  When engine.  *)
(* load has returned and a signal is pending, both select! branches are   *)
(* ready and tokio picks one at random, so the step's result cannot lose  *)
(* that race forever (strong fairness on LoadDone).                       *)
Fairness ==
    /\ \A b \in Backends : WF_vars(Task(b)) /\ SF_vars(LoadDone(b))
                          /\ WF_vars(Resume(b))
    /\ WF_vars(ListenEvent)
    /\ \A k \in Killers : WF_vars(KillSend(k))
    /\ WF_vars(Tick)

Spec == Init /\ [][Next]_vars

FairSpec == Spec /\ Fairness

-----------------------------------------------------------------------------
TypeOK ==
    /\ pc \in [Backends -> {"none", "start", "loop", "exit", "unlisten", "done", "down"}]
    /\ state \in [Backends -> States]
    /\ phase \in [Backends -> Phases]
    /\ nextCheck \in [Backends -> 0..MaxTime]
    /\ chan \in [Backends -> BoundedSeq({"Interrupt", "Terminate"}, 1)]
    /\ listener \in [Backends -> BOOLEAN]
    /\ monitor \in [Backends -> BOOLEAN]
    /\ route \in [Backends -> BOOLEAN]
    /\ lastActive \in [Backends -> 0..MaxTime]
    /\ published \in [Backends -> Seq(States)]
    /\ result \in [Backends -> {"none", "ok", "err"}]
    /\ container \in [Backends -> ContainerStatus]
    /\ stops \in [Backends -> Nat]
    /\ events \in Seq(Backends)
    /\ now \in 0..MaxTime
    /\ kpc \in [Killers -> {"idle", "wait", "ok", "err"}]
    /\ ktarget \in [Killers -> Backends \cup {None}]
    /\ stored \in [Backends -> States \cup {None}]
    /\ unpub \in [Backends -> States \cup {None}]
    /\ crashes \in 0..MaxCrashes

(* No lost wakeup: while the Ready step is waiting for idleness on a       *)
(* container that is no longer running, the death is still pending, as an *)
(* engine event or as a signal in the 1-slot channel, so the step will be  *)
(* restarted and re-read backend_status.  This is what try_send dropping   *)
(* surplus Interrupts relies on.                                           *)
NoLostWakeup ==
    \A b \in Backends :
        ( /\ pc[b] = "loop" /\ state[b] = "Ready"
          /\ phase[b] \in {"check", "towait", "sleep"}
          /\ container[b] # "running" )
        => (b \in Range(events) \/ chan[b] # <<>>)

(* A task that left its loop with Ok(None) has stopped its container and  *)
(* published a terminal state: step returns Ok(None) only after           *)
(* engine.stop, and only from a terminal state.                           *)
CleanExitStopsContainer ==
    \A b \in Backends :
        result[b] = "ok" =>
            /\ container[b] = "stopped"
            /\ Last(published[b]) \in Terminal

(* The published state of every backend follows the lifecycle graph of    *)
(* BackendLifecycle: step edges, or Terminated from a signal, never out of *)
(* Swept.                                                                  *)
Lifecycle == INSTANCE BackendLifecycle
    WITH lifecycle <- [b \in Backends |->
                         IF published[b] = <<>> THEN None ELSE Last(published[b])]

LifecycleRefined == Lifecycle!Spec

(* Every spawned backend's run_backend task eventually ends, by leaving   *)
(* its loop or with the drone process: no step waits forever and no       *)
(* signal ping-pong keeps it alive.                                       *)
TaskExits == \A b \in Backends : pc[b] = "loop" ~> pc[b] \in {"done", "down"}

(* Every kill_backend call that found the backend eventually returns.     *)
KillCompletes == \A k \in Killers : kpc[k] = "wait" ~> kpc[k] \in {"ok", "err"}

(* Spec S6: after a TerminationRequest, engine.stop(B) is called exactly   *)
(* once.                                                                   *)
StopAtMostOnce == \A b \in Backends : stops[b] <= 1

(* A run_backend task never ends while its container is still running:    *)
(* the Ready step leaves only for a terminal state once the container has *)
(* stopped or the backend is idle, and every terminal state is stopped    *)
(* (spec 4.5, 5 Cancellation).                                            *)
NoOrphanedContainer ==
    \A b \in Backends : pc[b] = "done" => container[b] # "running"

(* Across drone restarts, a backend the local store records as terminal   *)
(* (Terminated after a TerminationRequest, Swept after idleness) ends with *)
(* its container stopped: the engine.stop that follows the store write     *)
(* may be lost in a crash, and nothing but resume_backends can run it    *)
(* again (spec S6: engine.stop is called after a TerminationRequest).     *)
TerminalContainerStopped ==
    \A b \in Backends :
        (stored[b] \in Terminal /\ container[b] = "running")
            ~> container[b] # "running"
=============================================================================
