# TLA+ models of Plane's drone executor and cluster scheduler

This directory holds TLA+ models of the control plane in this repository. Each model is checked with TLC.

## The system and its parts

A **controller** keeps a liveness index of drones (`src/controller/src/scheduler.rs`). It answers `ScheduleRequest`s by picking a live drone of the requested cluster. It then sends that drone a `SpawnRequest` and waits for the answer, with a timeout (spec 4.3).

A **drone** runs the **executor** (`src/drone/src/agent/executor.rs`). For each backend, the executor runs one tokio task, `run_backend`. That task steps the backend through the `BackendState` machine: Loading, Starting, Ready, then a terminal state. It writes every new state to the local store and publishes it on `backend.<B>.state`.

Three signal sources wake a task:
- The engine's event stream. `listen_for_container_events` turns each container event into an `Interrupt`.
- A `TerminationRequest`. `kill_backend` sends a `Terminate`.
- Its own step.

All three meet in a `tokio::select!` over a one-slot channel. An `Interrupt` restarts the current step. A `Terminate` moves the backend to Terminated.

There are two exceptions:
- Swept is stepped without listening for signals.
- An `Err` from a step ends the task. Outside Loading, it ends without any state transition.

When the task ends, it removes its monitor entry and its listener entry from two `DashMap`s.

Where the parts interact:
- **Scheduler and drones.** Drones send heartbeats to the scheduler. The scheduler sends spawn requests to drones, with request/reply and a timeout.
- **Executor and engine.** The executor calls `load`, `backend_status` and `stop`. Engine events come back as interrupts.
- **Executor and local store.** The executor writes the proxy route and backend state. The proxy monitor writes `last_active`, which Ready's idle check reads.
- **Executor and clients.** `kill_backend` is the TerminationRequest handler.
- **Executor after a restart.** `resume_backends` restarts a task for every backend in the local store, from its stored state.
- **Scheduler, drone and executor, by backend id.** `ScheduleRequest::schedule` (`src/core/src/messages/scheduler.rs`) uses the client's `backend_id` or draws a random one. The chosen drone's `run_backend` stores its channel's only `Sender` in `backend_to_listener` under that id. `kill_backend` and the event listener find the task through that entry. The task removes the entry by key when it ends. Nothing checks that two requests carry different ids.
- **Stats.** `StatsStream` turns Docker's stats samples into one `BackendStatsMessage` per pair of consecutive samples, for the backend monitor.

## Modules

| Module | Models | State (VARIABLES) | Actions |
|---|---|---|---|
| `BackendLifecycle` | The abstract promise about published states. A backend's last published state follows the spec 4.5 graph, or jumps to Terminated. Swept and Terminated cannot be terminated. | `lifecycle` | `Spawn`, `Advance`, `Terminate` |
| `BackendExecutor` | `executor.rs`: `start_backend`, the `run_backend` loop, `step` for each state, the two awaits of `update_backend_state`, `kill_backend`, `listen_for_container_events`, the map removals at exit, a drone crash and `resume_backends`. Also the parts of engine, store and clock that the executor observes. | See below | See below |
| `MCBackendExecutor` | Model values and symmetry for the executor runs | | |
| `ClusterScheduler` | `Scheduler::update_status` and `schedule`. The request handler of spec 4.3: pick, spawn request, timeout, reply. The drone's answer, following the mock agent of `src/dev/tests/scheduler.rs`. | See below | See below |
| `StatsStream` | `StatsStream::new` and `poll_next` (`engines/docker/util.rs`), with the poll and waker protocol of a Rust stream. The expected output is the recursive reference operator `Deltas`, stated apart from `poll_next`. | `produced`, `ended`, `consumed`, `waker`, `woken`, `last`, `out`, `done` | `Produce`, `EndStream`, `Poll`, `OtherWake` |
| `BackendRegistry` | One backend id followed from `ScheduleRequest::schedule` through the drones' `backend_to_listener`. The insert of `run_backend` (which drops any previous `Sender`), the select's `Terminate` and "Signal sender lost" arms, the removal by key, and `kill_backend`'s lookup. The state machine of `step` is abstracted to "the backend keeps running" (`Finish` from `"loop"`) and "a stop has begun" (`"stopping"`). | `given`, `drone`, `bid`, `pc`, `listener`, `term` | `Schedule`, `Start`, `Finish`, `RecvTerminate`, `StopDone`, `Lost`, `RemoveListener`, `Kill` |
| `MCBackendRegistry` | Three requests, two drones, one client id | | |
| `MCStatsStream` | Two sample values for the stats runs | | |
| `MCClusterScheduler` | Clusters, drones, requests and drone-to-cluster assignment for the scheduler runs | | |

### BackendExecutor

Each backend has the following state:
- `pc`: where `run_backend` is.
  - `"loop"`: in the loop.
  - `"exit"`: after `break`.
  - `"unlisten"`: the monitor entry is removed, and the task waits for the listener write lock.
  - `"done"`: the task has ended.
  - `"down"`: the drone process died and the backend waits for `resume_backends`.
- `state`: the current `BackendState`.
- `phase`: how far the current `step` future has got. For example, `"loaded"` means after `engine.load`, `"towait"` means between computing `next_check` and sleeping, and `"stopped"` means after `engine.stop`.
- `chan`: the one-slot mpsc channel, as a sequence of length 0 or 1.
- `listener`: membership in `backend_to_listener`.
- `monitor`: membership in `backend_to_monitor`.
- `route`: the proxy route.
- `lastActive` and `nextCheck`.
- `published`: the sequence of states sent on `backend.<B>.state`.
- `result`: the task's final `Ok` or `Err`.
- `container`: the engine's view of the container.
- `stops`: how many times `engine.stop` was called.
- `stored`: the backend state in the local store.
- `unpub`: a state written to the store and not yet published.

Global state is:
- `events`: the engine's event stream.
- `now`: the clock.
- `kpc` and `ktarget`: one `kill_backend` call per killer.
- `crashes`: drone crashes so far, bounded by `MaxCrashes`.

One `step` call is split into the actions between its `.await`s, because the select can drop the future at any of them.

| Step actions | Code |
|---|---|
| `Load`, `LoadDone` | Loading |
| `StartingStatus`, `PortReady`, `PortTimeout` | Starting |
| `ReadyStatus`, `ReadyCheck`, `ReadySleep`, `ReadyWake`, `ReadyClockError` | Ready and its idle loop |
| `StopContainer`, `StopDone` | The terminal arm |

`StepError` is any engine or store error at one of those awaits.

Other actions:
- The select's signal arm is `Recv`.
- The exit path is `RemoveMonitor`, then `RemoveListener`. `RemoveListener` waits until no `kill_backend` holds a `Ref` on the entry.
- `ListenEvent` is `try_send` of an Interrupt.
- `KillStart` and `KillSend` are `kill_backend` before and after taking the `Ref`.
- `StartBackend` is `start_backend`'s `insert_backend`, which leaves the task in `"start"`. After the Loading `Publish`, `Listen` is `run_backend`'s channel creation and listener insert, which enters the loop. `Resume` also leaves the task in `"start"`, because `resume_backends` only spawns it. In `"start"`, `kill_backend` answers "Unknown backend" and `ListenEvent` drops the backend's events.
- A transition (`Transition`, or `StartBackend`'s `insert_backend`) writes the store. `Publish` is the following publish on the bus. The task takes no other step in between, because neither await is inside the select.
- `Crash` kills the process. Tasks, channels, both maps, the event subscription and pending kill calls are lost. A pending kill call returns an error. Containers, the store and what was published survive.
- `Resume(b)` is one iteration of `resume_backends`' loop: the monitor is re-installed for a running state, then a task is started in the stored state. The loop at line 166 resumes whatever `get_backends` returns. `get_backends` (the `DroneDatabase`) is not in this repository, and spec 4.6 says the scan yields the non-terminal backends, so `Resume` is enabled only for a backend stored in a non-terminal state.

The environment moves on its own:
- `ContainerDies`: the container fails, exits or is stopped externally, and an event is queued.
- `Activity`: the proxy bumps `last_active`.
- `Tick`: the clock advances.

### BackendRegistry

- `given[r]` is the request's optional `backend_id`, chosen freely in `Init`. A request's random id is modelled as the request itself, so random ids never collide.
- `listener[d][i]` is the task whose `Sender` drone `d` stores under id `i`, or `None`.
- Each task holds a clone of the `Executor`, and with it an `Arc` of the map. The map therefore outlives every task, and a task's `Sender` goes away only when another task's insert replaces it or a removal by key takes it out. `Lost` is enabled exactly then, and only once the channel is drained (`~term[r]`), as tokio's `recv` returns queued messages before `None`.
- `term[r]` is a `Terminate` queued in the task's channel. The one-slot blocking and the `Ref` deadlock are checked in `BackendExecutor`; here `kill_backend` is one step.

### ClusterScheduler

- `known` and `age` are the `DashMap<cluster, DashMap<drone, timestamp>>` of the scheduler.
  - A timestamp is kept as its age in ticks.
  - The age saturates at `Window`, the 5-second liveness window.
  - `None` stands for a missing entry.
  - A cluster is in `known` from its first heartbeat on. This models `entry().or_default()`, even when the heartbeat says not ready.
- `inbox` holds heartbeats, ready or not ready, in flight to the controller.
- For each request:
  - `rpc` is `idle`, `sent`, `spawning` or `done`.
  - Also kept: the chosen `rdrone`, the spawn `timer`, the agent's `ack`, and the `reply`.

`Schedule` has the two early returns of `schedule`: an unknown cluster, and an empty live set. A `Tick` ages every entry and counts down every spawn timer.

## Runs

The executor runs all use `MaxIdle = 1`. `MaxTime` bounds the clock. `Tick`, `StartBackend` and `Activity` stop before `MaxTime`, so every idle check still has a tick left to fire.

| Run | Expect | Bounds | What it shows |
|---|---|---|---|
| `exec_safety` | pass | 1 backend, 1 killer, MaxTime 4, engine errors on | `NoLostWakeup`: a Ready step that waits or sleeps while its container is dead always has an Interrupt queued or in the event stream. `CleanExitStopsContainer`: a task that ends `Ok` has stopped its container. `LifecycleRefined`: the published states implement `BackendLifecycle`. |
| `exec_liveness` | pass | 1 backend, no killer, MaxTime 4, 1 crash, no engine errors | `TaskExits`: every task that enters the loop ends, by leaving the loop or with the process, and a resumed task ends again. |
| `exec_terminal_orphan` | violation | The same | `TerminalContainerStopped` fails: a Ready backend is swept for idleness, Swept is stored, and the drone crashes before `engine.stop`. Resume skips terminal backends, so the container runs for good |
| `exec_kill_deadlock` | violation | 1 backend, 1 killer | `KillCompletes` fails: the `Ref` held across `send().await` deadlocks with `remove` |
| `exec_stop_once` | violation | 1 backend, 2 killers | `StopAtMostOnce` fails: in a terminal state other than Swept, any signal during or after the stop step restarts it. The shortest traces get the signal from stop's own die event, from a die event queued before the terminal state, or from a second Terminate |
| `exec_clock_race` | violation | 1 backend, no engine errors | `NoOrphanedContainer` fails: the two clock readings make `to_std()` fail and the task exits with its container running |
| `exec_resume_gap` | violation | 1 backend, 1 crash | `LifecycleRefined` fails: a crash between the store write and the publish loses that state from the bus, and the resumed task publishes its successor |
| `stats_safety` | pass | 2 sample values, 3 samples, other wake-ups possible at any time, safety only | `OutIsConsecutiveDeltas`: the consumer receives exactly the deltas of consecutive samples, as the recursive reference `Deltas` computes them from the samples the inner stream handed out. |
| `stats_stall` | violation | 2 sample values, 3 samples, no other wake-ups, under fairness | `EverySampleDelivered` fails: after the first sample `poll_next` returns `Pending` with no waker registered, and the consumer sleeps forever |
| `sched_spawn` | pass | 2 clusters, 2 drones in one cluster, 1 request, Window 2, SpawnTimeout 2, inbox 2 | `ScheduleMatchesHeartbeats`: every pick is a drone whose last processed heartbeat was ready and is younger than the window, and `NoDroneAvailable` is answered from the index only when no such drone exists. `EveryRequestAnswered`: every request gets an answer, even when the drone never replies. |
| `registry_spawn` | pass | 3 requests, 2 drones, 1 client id that any request may carry | `ListenerOnlyForLiveTask`: every entry of a drone's listener map is the `Sender` of a task still in its loop or exiting, stored under that task's own drone and id, also when two tasks share an id. `KilledTaskReturns`: a task that got a `Terminate` returns, even if another task has since taken its entry. |
| `registry_duplicate` | violation | The same | `SenderLostOnlyOnShutdown` fails: two requests with one client id land on one drone. The second task's insert drops the first task's `Sender`, and the first task returns through "Signal sender lost" with its container running |

### Why the bounds are enough

**Executor.** Each backend has its own channel, and `try_send` never blocks, so one backend's events cannot hold up another's. A single backend with `MaxTime` 4 reaches every step, every interrupt point, and a Ready idle loop that both sweeps and postpones. One killer covers the `Ref` deadlock; two killers cover repeated Terminates.

**Restart.** One crash is enough: every action is a possible crash point, and a second crash adds no new kind of state. The backend, store and container all survive.

**Stats.** Three samples cover the first sample (no message), a delta, and a second delta that shows whether `last` advanced. Two values suffice to tell a delta against the first sample from one against the previous sample.

**Scheduler.** Window 2 separates "fresh", "aging" and "expired". Two drones in one cluster, plus a second cluster with none, cover:
- picking among several drones;
- the unknown-cluster early return;
- the no-live-drone early return.

**Registry.** Three requests sharing one client id cover both orders of two tasks, and chains of three: the newer insert dropping the older `Sender`, and the older task's removal taking the newer one's. Two drones cover a shared id on different drones, which is harmless. A random id per request covers the case the spec assumes.

One request is enough: concurrent requests only read the index, and each request's pick, spawn and reply are independent of the others'. Heartbeats, drains and ticks interleave with every step of the request.

Each passing property has a mutant that TLC kills under the same cfg. Each mutant is a one-line change a plausible bug would make; the mutants are listed in `PROJECT.json`.

### Deadlock checking

The executor and registry runs set `CHECK_DEADLOCK FALSE`. A drone whose finitely many backends have all exited, with the clock at its bound, really has nothing left to do. Stuck states that matter are caught by `TaskExits` and `KillCompletes`.

## Fairness

**Executor.**
- Each `run_backend` task is weakly fair, because tokio polls every ready task.
- `LoadDone` is strongly fair. `tokio::select!` picks uniformly at random among ready branches, so a load that keeps completing is not always beaten by an interrupt.
- The event listener, the kill send and the clock are weakly fair.
- `Resume` is weakly fair, because `resume_backends` runs at startup.
- Crashes are not fair: they may or may not happen.

**Registry.**
- `Start`, `RecvTerminate`, `Lost`, `StopDone` and `RemoveListener` are weakly fair, because tokio polls every ready task.
- `Finish` from `"loop"` is not fair: a backend in use may stay Ready for ever.
- `Kill` is not fair: a client may never send a TerminationRequest.

**Stats.**
- `Poll` is weakly fair, because a woken task is polled.
- `EndStream` is weakly fair.
- `OtherWake` is not fair: nothing in this repository wakes the consumer (`BackendMonitor`, which is not here) from another source. `stats_safety` allows such wake-ups at any time and checks safety only. `stats_stall` checks liveness with none.

**Scheduler.**
- Heartbeat processing, schedule, ack receipt, timeout and the clock are weakly fair.
- The drone's answer is not fair, because a drone may never answer.

## Findings

The findings are recorded in `PROJECT.json` with their source lines:

1. `kill_backend` can deadlock with the task's exit.
2. `engine.stop` runs twice in non-Swept terminal states: any signal during or after the stop step restarts it. The signal can be the stop's own die event, an earlier die event still queued, or a second TerminationRequest, which also publishes Terminated again.
3. The idle loop's two clock readings can end the task with a running container.
4. A crash between storing a terminal state and `engine.stop` leaves the container running, because resume skips terminal backends.
5. A crash between the store write and the bus publish loses a state from `backend.<B>.state`.
6. `StatsStream` stalls after the first sample when nothing else wakes its task.
7. A client-chosen backend id used twice on one drone makes one of the two tasks return through "Signal sender lost": no transition, no `engine.stop`, no map cleanup.

Also seen while modelling, and not among the runs: after an `Err` outside Loading, the task removes its listener. A later death of the container is then dropped by `listen_for_container_events`, and the backend stays at its last published state.

Also not among the runs: `start_backend` stores and publishes Loading before `run_backend` inserts the listener. A TerminationRequest in that window is answered "Unknown backend" for a backend the drone has already announced. The model has the window (`StartBackend`, `Publish`, `Listen`). The spec names `UnknownBackend` only for ids the executor does not own, and does not say what the answer should be here.

## Not modelled, and the plan

Done so far:
- the abstract lifecycle (`BackendLifecycle`);
- the executor, with crash and resume (`BackendExecutor`);
- the stats stream (`StatsStream`);
- the scheduler and its request handler (`ClusterScheduler`);
- one backend id across scheduler, drones and tasks (`BackendRegistry`).

Considered and not built:
1. **A refinement that survives restarts.** Publishing the stored state on resume would close the gap `exec_resume_gap` shows. It is a fix the code does not have, so a module of it would not model this repository.
2. **Plane as one composition.** The scheduler's side of a spawn is `ClusterScheduler`, and the drone's side is `BackendExecutor` and `BackendRegistry`. `run_scheduler` and the drone's SpawnRequest handler, which would connect them, are not in this repository. Composing the executor's state with the scheduler's is out of TLC's reach: the executor with two backends alone passes 4.5 million states without finishing in three minutes.
3. **The kill window.** Between `insert_backend` and the listener insert (`src/drone/src/agent/executor.rs:129-196`), `kill_backend` answers "Unknown backend" for a backend whose Loading state was already published. The spec's `UnknownBackend` covers only ids the executor does not own. Nothing states the expected answer for this window, so no property is checked for it. `BackendExecutor` models the window as the `"start"` state and its `Listen` action.

Left out:
- Docker event parsing, IP lookup and `allow_not_found` are data conversions; only their effect, an event or a status, is modelled.
- The CLI commands other than `spawn` and `drain` (which are the `Request` and `Drain` actions of `ClusterScheduler`) only print or publish, and the controller config and the dev utilities are I/O and test plumbing. The polling loops `wait_for_port` and `wait_for_url` in `src/dev/src/util.rs` have no caller in this repository. The one hazard of the dev utilities, `duration_since(..).unwrap()` panicking when the wall clock steps back (`src/dev/src/util.rs:54`), is listed in `PROJECT.json`.
- `BackendMonitor`, the NATS wrapper, `DroneDatabase` and `run_scheduler` are not in this repository. Where the executor or scheduler depends on them, they are modelled from the spec and marked `spec_modelled` in the map.
