--------------------------- MODULE BackendLifecycle ---------------------------
(***************************************************************************)
(* What a drone promises about each backend, as seen by a subscriber of    *)
(* backend.<B>.state: the last published state of a backend moves only     *)
(* along the lifecycle graph of BackendState (spec 4.5), or to Terminated  *)
(* when a TerminationRequest interrupts it (spec 4.6).  Swept is the one   *)
(* state a termination cannot leave, because the executor steps it without *)
(* listening for signals.                                                  *)
(***************************************************************************)
CONSTANTS Backends, None

VARIABLE lifecycle

States == {"Loading", "Starting", "Ready", "ErrorLoading", "ErrorStarting",
           "TimedOutBeforeReady", "Failed", "Exited", "Swept", "Terminated"}

\* The edges a step of the state machine may take.
Progress == {<<"Loading", "Starting">>, <<"Loading", "ErrorLoading">>,
             <<"Starting", "Ready">>, <<"Starting", "ErrorStarting">>,
             <<"Ready", "Failed">>, <<"Ready", "Exited">>, <<"Ready", "Swept">>}

Init == lifecycle = [b \in Backends |-> None]

Spawn(b) ==
    /\ lifecycle[b] = None
    /\ lifecycle' = [lifecycle EXCEPT ![b] = "Loading"]

Advance(b) ==
    \E e \in Progress :
        /\ e[1] = lifecycle[b]
        /\ lifecycle' = [lifecycle EXCEPT ![b] = e[2]]

Terminate(b) ==
    /\ lifecycle[b] \notin {None, "Swept", "Terminated"}
    /\ lifecycle' = [lifecycle EXCEPT ![b] = "Terminated"]

Next == \E b \in Backends : Spawn(b) \/ Advance(b) \/ Terminate(b)

Spec == Init /\ [][Next]_lifecycle
=============================================================================
