-------------------------- MODULE ClusterScheduler --------------------------
(***************************************************************************)
(* The controller's scheduler: the drone liveness index of                 *)
(* src/controller/src/scheduler.rs (update_status, schedule), the handler  *)
(* of cluster.<C>.schedule requests that picks a drone, sends it a         *)
(* SpawnRequest (ScheduleRequest::schedule) with a timeout and answers the *)
(* client, and the drones' heartbeats and spawn acknowledgements.          *)
(*                                                                         *)
(* The index stores receipt timestamps and schedule() compares them with   *)
(* now - 5s only, so time is kept relative: age[d] is the age of d's       *)
(* stored timestamp, saturated at Window (every age >= Window is equally   *)
(* expired), and a request's spawn timer counts down to 0.  Time is then   *)
(* unbounded while the state space stays finite.                           *)
(***************************************************************************)
EXTENDS Naturals, Sequences

CONSTANTS
    Clusters,       \* cluster names
    Drones,         \* drone ids
    ClusterOf,      \* the cluster each drone reports in its DroneStatusMessage
    Requests,       \* ScheduleRequests made by clients
    Window,         \* liveness window (5 s), in ticks
    SpawnTimeout,   \* timeout of the drone.<D>.spawn request (10 s), in ticks
    MaxInbox,       \* bound on heartbeats in flight to the controller
    None            \* model value

ASSUME /\ ClusterOf \in [Drones -> Clusters]
       /\ Window \in Nat \ {0}
       /\ SpawnTimeout \in Nat \ {0}
       /\ MaxInbox \in Nat \ {0}

VARIABLES
    known,      \* clusters with an entry in last_status
    age,        \* age of last_status[ClusterOf[d]][d], or None if absent
    ready,      \* the drone's own readiness (drain toggles it)
    inbox,      \* DroneStatusMessages on the bus, oldest first
    lastMsg,    \* ghost: readiness in the last heartbeat the index processed
    rpc,        \* request: "idle", "sent", "spawning", "done"
    rcluster,   \* the request's cluster
    rdrone,     \* the drone picked for it
    timer,      \* ticks left before the spawn request times out
    ack,        \* the drone's answer to the SpawnRequest: None, TRUE, FALSE
    reply       \* ScheduleResponse: None, "NoDroneAvailable" or a drone

vars == <<known, age, ready, inbox, lastMsg, rpc, rcluster, rdrone, timer,
          ack, reply>>

Status == [drone : Drones, ready : BOOLEAN]

\* The drones schedule() considers live: an entry newer than now - 5s.
Live(c) == {d \in Drones : ClusterOf[d] = c /\ age[d] # None /\ age[d] < Window}

-----------------------------------------------------------------------------
(* A drone publishes DroneStatusMessage{ready} on its status subject.      *)
Heartbeat(d) ==
    /\ Len(inbox) < MaxInbox
    /\ inbox' = Append(inbox, [drone |-> d, ready |-> ready[d]])
    /\ UNCHANGED <<known, age, ready, lastMsg, rpc, rcluster, rdrone, timer,
                   ack, reply>>

(* `plane drain` (or `drain --cancel`) sends DrainDrone{drain = !cancel};  *)
(* the drone then reports itself ready exactly when it is not draining.    *)
Drain(d) ==
    /\ \E drain \in BOOLEAN : ready' = [ready EXCEPT ![d] = ~drain]
    /\ UNCHANGED <<known, age, inbox, lastMsg, rpc, rcluster, rdrone, timer,
                   ack, reply>>

\* Mutant of UpdateStatus: a ready=false heartbeat does not remove the entry.
UpdateStatusNoRemove ==
    /\ inbox # <<>>
    /\ LET m == Head(inbox) IN
         /\ known' = known \cup {ClusterOf[m.drone]}
         /\ age' = [age EXCEPT ![m.drone] = IF m.ready THEN 0 ELSE @]
         /\ lastMsg' = [lastMsg EXCEPT ![m.drone] = m.ready]
    /\ inbox' = Tail(inbox)
    /\ UNCHANGED <<ready, rpc, rcluster, rdrone, timer, ack, reply>>

(* Scheduler::update_status(now, status).                                  *)
UpdateStatus ==
    /\ inbox # <<>>
    /\ LET m == Head(inbox) IN
         /\ known' = known \cup {ClusterOf[m.drone]}
         /\ age' = [age EXCEPT ![m.drone] = IF m.ready THEN 0 ELSE None]
         /\ lastMsg' = [lastMsg EXCEPT ![m.drone] = m.ready]
    /\ inbox' = Tail(inbox)
    /\ UNCHANGED <<ready, rpc, rcluster, rdrone, timer, ack, reply>>

(* A client sends a ScheduleRequest for cluster c.                         *)
Request(r, c) ==
    /\ rpc[r] = "idle"
    /\ rpc' = [rpc EXCEPT ![r] = "sent"]
    /\ rcluster' = [rcluster EXCEPT ![r] = c]
    /\ UNCHANGED <<known, age, ready, inbox, lastMsg, rdrone, timer, ack, reply>>

(* Scheduler::schedule(cluster, now), then ScheduleRequest::schedule(drone) *)
(* and the spawn request to the chosen drone.                              *)
Schedule(r) ==
    /\ rpc[r] = "sent"
    /\ IF rcluster[r] \notin known \/ Live(rcluster[r]) = {}
         THEN /\ rpc' = [rpc EXCEPT ![r] = "done"]
              /\ reply' = [reply EXCEPT ![r] = "NoDroneAvailable"]
              /\ UNCHANGED <<rdrone, timer>>
         ELSE \E d \in Live(rcluster[r]) :
                /\ rpc' = [rpc EXCEPT ![r] = "spawning"]
                /\ rdrone' = [rdrone EXCEPT ![r] = d]
                /\ timer' = [timer EXCEPT ![r] = SpawnTimeout]
                /\ UNCHANGED reply
    /\ UNCHANGED <<known, age, ready, inbox, lastMsg, rcluster, ack>>

(* The drone's agent answers the SpawnRequest: true after starting the     *)
(* backend, or false.  It may also never answer.                           *)
AgentAnswers(r) ==
    /\ rpc[r] # "idle" /\ rdrone[r] # None
    /\ ack[r] = None
    /\ \E ok \in BOOLEAN : ack' = [ack EXCEPT ![r] = ok]
    /\ UNCHANGED <<known, age, ready, inbox, lastMsg, rpc, rcluster, rdrone,
                   timer, reply>>

\* Mutant of ReceiveAck: the response carries the cluster, not the drone.
ReceiveAckWrongField(r) ==
    /\ rpc[r] = "spawning"
    /\ ack[r] # None
    /\ rpc' = [rpc EXCEPT ![r] = "done"]
    /\ reply' = [reply EXCEPT ![r] = IF ack[r] THEN rcluster[r] ELSE "NoDroneAvailable"]
    /\ UNCHANGED <<known, age, ready, inbox, lastMsg, rcluster, rdrone, timer,
                   ack>>

(* The answer reaches the scheduler before the timeout.                    *)
ReceiveAck(r) ==
    /\ rpc[r] = "spawning"
    /\ ack[r] # None
    /\ rpc' = [rpc EXCEPT ![r] = "done"]
    /\ reply' = [reply EXCEPT ![r] = IF ack[r] THEN rdrone[r] ELSE "NoDroneAvailable"]
    /\ UNCHANGED <<known, age, ready, inbox, lastMsg, rcluster, rdrone, timer,
                   ack>>

(* The spawn request times out; a later answer is dropped.                 *)
SpawnTimedOut(r) ==
    /\ rpc[r] = "spawning"
    /\ timer[r] = 0
    /\ rpc' = [rpc EXCEPT ![r] = "done"]
    /\ reply' = [reply EXCEPT ![r] = "NoDroneAvailable"]
    /\ UNCHANGED <<known, age, ready, inbox, lastMsg, rcluster, rdrone, timer,
                   ack>>

\* Mutant of Tick: the spawn request's timer is never armed.
TickNoTimer ==
    /\ age' = [d \in Drones |-> IF age[d] = None \/ age[d] = Window
                                  THEN age[d] ELSE age[d] + 1]
    /\ UNCHANGED <<known, ready, inbox, lastMsg, rpc, rcluster, rdrone, timer,
                   ack, reply>>

(* Time passes: stored timestamps age, pending spawn timers run down.      *)
Tick ==
    /\ age' = [d \in Drones |-> IF age[d] = None \/ age[d] = Window
                                  THEN age[d] ELSE age[d] + 1]
    /\ timer' = [r \in Requests |->
                   IF rpc[r] = "spawning" /\ timer[r] > 0 THEN timer[r] - 1 ELSE timer[r]]
    /\ UNCHANGED <<known, ready, inbox, lastMsg, rpc, rcluster, rdrone, ack, reply>>

-----------------------------------------------------------------------------
Init ==
    /\ known = {}
    /\ age = [d \in Drones |-> None]
    /\ ready \in [Drones -> BOOLEAN]
    /\ inbox = <<>>
    /\ lastMsg = [d \in Drones |-> None]
    /\ rpc = [r \in Requests |-> "idle"]
    /\ rcluster = [r \in Requests |-> None]
    /\ rdrone = [r \in Requests |-> None]
    /\ timer = [r \in Requests |-> 0]
    /\ ack = [r \in Requests |-> None]
    /\ reply = [r \in Requests |-> None]

Next ==
    \/ \E d \in Drones : Heartbeat(d) \/ Drain(d)
    \/ UpdateStatus
    \/ \E r \in Requests :
         \/ \E c \in Clusters : Request(r, c)
         \/ Schedule(r) \/ AgentAnswers(r) \/ ReceiveAck(r) \/ SpawnTimedOut(r)
    \/ Tick

(* The scheduler's tasks read the bus and handle every request, the spawn  *)
(* request's timer fires, and time passes.  Drones and clients are not     *)
(* assumed to do anything.                                                 *)
Fairness ==
    /\ WF_vars(UpdateStatus)
    /\ \A r \in Requests :
         WF_vars(Schedule(r)) /\ WF_vars(ReceiveAck(r)) /\ WF_vars(SpawnTimedOut(r))
    /\ WF_vars(Tick)

Spec == Init /\ [][Next]_vars

FairSpec == Spec /\ Fairness

-----------------------------------------------------------------------------
TypeOK ==
    /\ known \in SUBSET Clusters
    /\ age \in [Drones -> 0..Window \cup {None}]
    /\ ready \in [Drones -> BOOLEAN]
    /\ inbox \in Seq(Status) /\ Len(inbox) <= MaxInbox
    /\ lastMsg \in [Drones -> BOOLEAN \cup {None}]
    /\ rpc \in [Requests -> {"idle", "sent", "spawning", "done"}]
    /\ rcluster \in [Requests -> Clusters \cup {None}]
    /\ rdrone \in [Requests -> Drones \cup {None}]
    /\ timer \in [Requests -> 0..SpawnTimeout]
    /\ ack \in [Requests -> BOOLEAN \cup {None}]
    /\ reply \in [Requests -> Drones \cup {"NoDroneAvailable", None}]

\* Drones of cluster c whose last processed heartbeat said ready=true and
\* arrived less than the liveness window ago.
HeardLive(c) ==
    {d \in Drones : ClusterOf[d] = c /\ lastMsg[d] = TRUE /\ age[d] < Window}

(* Spec 4.2 and 8.1, scenarios S1-S5: a schedule decision is exact with   *)
(* respect to the heartbeats the controller has processed.  A drone is    *)
(* picked only if it belongs to the cluster and its latest heartbeat said *)
(* ready=true within the window, and NoDroneAvailable is answered at pick *)
(* time only if no such drone exists.                                     *)
ScheduleMatchesHeartbeats ==
    [][\A r \in Requests :
         (rpc[r] = "sent" /\ rpc'[r] # "sent") =>
            IF rpc'[r] = "spawning"
              THEN rdrone'[r] \in HeardLive(rcluster[r])
              ELSE HeardLive(rcluster[r]) = {}]_vars

(* Spec 7: the scheduler answers every request exactly once, even when    *)
(* the chosen drone never answers the spawn request.                      *)
EveryRequestAnswered == \A r \in Requests : rpc[r] = "sent" ~> reply[r] # None

=============================================================================
