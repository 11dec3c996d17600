--------------------------- MODULE BackendRegistry ---------------------------
(***************************************************************************)
(* The path of a backend id from a ScheduleRequest to the drone's          *)
(* backend_to_listener map.  ScheduleRequest::schedule takes the client's  *)
(* backend_id or draws a random one (core/src/messages/scheduler.rs); the  *)
(* chosen drone runs run_backend, which stores its channel's only Sender   *)
(* under that id, listens on the receiver while stepping, and removes the  *)
(* entry by key when it ends (drone/src/agent/executor.rs).  kill_backend  *)
(* looks the id up in the same map.  The steps of the state machine are    *)
(* abstracted to "the backend keeps running" and "it stops"; the drone's   *)
(* pick among live drones is checked in ClusterScheduler.                  *)
(***************************************************************************)
EXTENDS Naturals

CONSTANTS
    Requests,        \* ScheduleRequests; a request's random id is itself
    Drones,
    ClientIds,       \* backend ids clients may put in a ScheduleRequest
    None

Ids == ClientIds \cup Requests

VARIABLES
    given,    \* ScheduleRequest.backend_id
    drone,    \* SpawnRequest.drone_id the request was scheduled to
    bid,      \* SpawnRequest.backend_id
    pc,       \* "idle", "sent", "loop", "stopping", "exit", "done", "lost"
    listener, \* backend_to_listener of each drone: id -> task whose Sender it holds
    term      \* a Terminate is queued in the task's channel

vars == <<given, drone, bid, pc, listener, term>>

\* The run_backend task's receiver still has a Sender: its own is in the map.
SenderLive(r) == listener[drone[r]][bid[r]] = r

InLoop(r) == pc[r] \in {"loop", "stopping"}

-----------------------------------------------------------------------------
\* Mutant of BackendIdOf: the request's id is used without the fallback.
BackendIdOfNoFallback(r) == given[r]

(* backend_id.clone().unwrap_or_else(BackendId::new_random)               *)
BackendIdOf(r) == IF given[r] = None THEN r ELSE given[r]

(* The scheduler picks drone d and sends ScheduleRequest::schedule(d).     *)
Schedule(r, d) ==
    /\ pc[r] = "idle"
    /\ drone' = [drone EXCEPT ![r] = d]
    /\ bid' = [bid EXCEPT ![r] = BackendIdOf(r)]
    /\ pc' = [pc EXCEPT ![r] = "sent"]
    /\ UNCHANGED <<given, listener, term>>

(* run_backend: channel(1), and backend_to_listener.insert(id, send); the  *)
(* Sender the insert replaces is dropped.                                  *)
Start(r) ==
    /\ pc[r] = "sent"
    /\ listener' = [listener EXCEPT ![drone[r]][bid[r]] = r]
    /\ pc' = [pc EXCEPT ![r] = "loop"]
    /\ UNCHANGED <<given, drone, bid, term>>

(* The step reaches a terminal state and engine.stop returns: Ok(None).    *)
(* From "loop" this happens only if the backend ends by itself.            *)
Finish(r) ==
    /\ pc[r] = "loop"
    /\ pc' = [pc EXCEPT ![r] = "exit"]
    /\ UNCHANGED <<given, drone, bid, listener, term>>

StopDone(r) ==
    /\ pc[r] = "stopping"
    /\ pc' = [pc EXCEPT ![r] = "exit"]
    /\ UNCHANGED <<given, drone, bid, listener, term>>

\* Mutant of RecvTerminate: Terminate handled like an Interrupt.
RecvTerminateIgnored(r) ==
    /\ InLoop(r) /\ term[r]
    /\ term' = [term EXCEPT ![r] = FALSE]
    /\ UNCHANGED <<given, drone, bid, pc, listener>>

(* select! takes Some(Terminate): the next state is Terminated, whose step *)
(* stops the container.                                                    *)
RecvTerminate(r) ==
    /\ InLoop(r) /\ term[r]
    /\ term' = [term EXCEPT ![r] = FALSE]
    /\ pc' = [pc EXCEPT ![r] = "stopping"]
    /\ UNCHANGED <<given, drone, bid, listener>>

(* select! takes None once no Sender is left and the channel is drained:   *)
(* "Signal sender lost!" and return, skipping the map removals.            *)
Lost(r) ==
    /\ InLoop(r) /\ ~SenderLive(r) /\ ~term[r]
    /\ pc' = [pc EXCEPT ![r] = "lost"]
    /\ UNCHANGED <<given, drone, bid, listener, term>>

\* Mutant of RemoveListener: the entry is left behind.
RemoveListenerSkipped(r) ==
    /\ pc[r] = "exit"
    /\ pc' = [pc EXCEPT ![r] = "done"]
    /\ UNCHANGED <<given, drone, bid, listener, term>>

(* After the loop: backend_to_listener.remove(id), whoever's entry it is.  *)
RemoveListener(r) ==
    /\ pc[r] = "exit"
    /\ listener' = [listener EXCEPT ![drone[r]][bid[r]] = None]
    /\ pc' = [pc EXCEPT ![r] = "done"]
    /\ UNCHANGED <<given, drone, bid, term>>

(* kill_backend on drone d: the Terminate goes to whichever task's Sender  *)
(* is stored under the id.                                                 *)
Kill(d, i) ==
    /\ listener[d][i] # None
    /\ term' = [term EXCEPT ![listener[d][i]] = TRUE]
    /\ UNCHANGED <<given, drone, bid, pc, listener>>

-----------------------------------------------------------------------------
\* Nothing checks that clients choose distinct ids.
Init ==
    /\ given \in [Requests -> ClientIds \cup {None}]
    /\ drone = [r \in Requests |-> None]
    /\ bid = [r \in Requests |-> None]
    /\ pc = [r \in Requests |-> "idle"]
    /\ listener = [d \in Drones |-> [i \in Ids |-> None]]
    /\ term = [r \in Requests |-> FALSE]

Task(r) ==
    \/ Start(r) \/ Finish(r) \/ StopDone(r) \/ RecvTerminate(r) \/ Lost(r)
    \/ RemoveListener(r)

Next ==
    \/ \E r \in Requests : Task(r) \/ \E d \in Drones : Schedule(r, d)
    \/ \E d \in Drones, i \in Ids : Kill(d, i)

(* Tokio polls every ready task; a backend that is in use may stay up     *)
(* forever, so Finish from "loop" is not fair, but a stop that has begun  *)
(* completes.                                                             *)
Fairness ==
    \A r \in Requests :
        /\ WF_vars(Start(r)) /\ WF_vars(StopDone(r)) /\ WF_vars(RecvTerminate(r))
        /\ WF_vars(Lost(r)) /\ WF_vars(RemoveListener(r))

Spec == Init /\ [][Next]_vars

FairSpec == Spec /\ Fairness

-----------------------------------------------------------------------------
TypeOK ==
    /\ given \in [Requests -> ClientIds \cup {None}]
    /\ drone \in [Requests -> Drones \cup {None}]
    /\ bid \in [Requests -> Ids \cup {None}]
    /\ \A r \in Requests : pc[r] # "idle" => drone[r] \in Drones /\ bid[r] \in Ids
    /\ pc \in [Requests -> {"idle", "sent", "loop", "stopping", "exit", "done", "lost"}]
    /\ listener \in [Drones -> [Ids -> Requests \cup {None}]]
    /\ term \in [Requests -> BOOLEAN]

(* The listener map holds only the Sender of a task that is still in its *)
(* loop or about to remove it, stored under that task's drone and id:     *)
(* inserts replace and removals clear by key, even across two tasks that  *)
(* share an id (run_backend's insert and remove, kill_backend's lookup).  *)
ListenerOnlyForLiveTask ==
    \A d \in Drones, i \in Ids :
        LET r == listener[d][i] IN
        r # None => pc[r] \in {"loop", "stopping", "exit"} /\ drone[r] = d /\ bid[r] = i

(* A Terminate that kill_backend put in a task's channel makes the task   *)
(* return, even when another task with the same id has since taken the    *)
(* map entry: the queued signal is received before the closed channel.    *)
KilledTaskReturns == \A r \in Requests : term[r] ~> pc[r] \in {"done", "lost"}

(* Spec 4.8 Cancellation: "Signal sender lost" is how a task sees process *)
(* shutdown, and it exits without touching the backend; spec 2 says one   *)
(* task owns a backend id.  No task may take that return otherwise: it    *)
(* leaves its container running and its state unfinished (run_backend's   *)
(* insert and remove by backend id).                                      *)
SenderLostOnlyOnShutdown == \A r \in Requests : pc[r] # "lost"
=============================================================================
