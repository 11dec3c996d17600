----------------------------- MODULE StatsStream -----------------------------
(***************************************************************************)
(* StatsStream (drone/src/agent/engines/docker/util.rs) wraps Docker's     *)
(* stats stream and turns each pair of consecutive samples into one        *)
(* BackendStatsMessage.  The model keeps the poll protocol of a Rust       *)
(* Stream: a consumer task polls only when woken; an inner stream that     *)
(* answers Pending keeps the task's waker and wakes it when a sample       *)
(* arrives; a stream that answers Ready keeps no waker.                    *)
(***************************************************************************)
EXTENDS Naturals, Sequences

CONSTANTS Values,      \* the samples Docker may report
          MaxSamples,  \* bound on the samples Docker reports
          OtherWakeups, \* the consumer task has other wake sources
          None

VARIABLES produced,  \* the samples Docker has sent so far
          ended,     \* Docker closed the stats stream
          consumed,  \* how many samples the inner stream has handed out
          waker,     \* the inner stream holds the consumer task's waker
          woken,     \* the consumer task is scheduled to poll
          last,      \* StatsStream.last
          out,       \* the BackendStatsMessages the consumer received
          done       \* poll_next returned Ready(None)

vars == <<produced, ended, consumed, waker, woken, last, out, done>>

\* from_stats_messages(last, stat): its content is abstracted to the pair.
Delta(a, b) == <<a, b>>

(***************************************************************************)
(* The expected output, stated independently of poll_next: from a run of  *)
(* samples the first only becomes `last`, each later one yields the delta  *)
(* from its predecessor.                                                   *)
(***************************************************************************)
RECURSIVE Deltas(_, _)
Deltas(prev, s) ==
    IF s = <<>> THEN <<>>
    ELSE IF prev = None THEN Deltas(Head(s), Tail(s))
    ELSE <<Delta(prev, Head(s))>> \o Deltas(Head(s), Tail(s))

Init ==
    /\ produced = <<>>
    /\ ended = FALSE
    /\ consumed = 0
    /\ waker = FALSE
    /\ woken = TRUE     \* the consumer's first `next().await` polls at once
    /\ last = None
    /\ out = <<>>
    /\ done = FALSE

\* Docker reports a sample; the inner stream wakes a waker it holds.
Produce(v) ==
    /\ ~ended
    /\ Len(produced) < MaxSamples
    /\ produced' = Append(produced, v)
    /\ woken' = (woken \/ waker)
    /\ waker' = FALSE
    /\ UNCHANGED <<ended, consumed, last, out, done>>

\* Docker closes the stream.
EndStream ==
    /\ ~ended
    /\ ended' = TRUE
    /\ woken' = (woken \/ waker)
    /\ waker' = FALSE
    /\ UNCHANGED <<produced, consumed, last, out, done>>

(***************************************************************************)
(* One poll_next of StatsStream as the consumer's `next().await` drives    *)
(* it.  Inner Pending: the inner stream keeps the waker.  Inner            *)
(* Ready(None): the stream ends.  Inner Ready(Some(stat)): with a `last`,  *)
(* yield the delta and set `last` to NewLast; the consumer polls again at  *)
(* once.  Without one, keep `stat` and return Pending, registering no      *)
(* waker.                                                                  *)
(***************************************************************************)
PollOn(NewLast(_, _)) ==
    /\ woken /\ ~done
    /\ \/ /\ consumed = Len(produced) /\ ~ended
          /\ waker' = TRUE /\ woken' = FALSE
          /\ UNCHANGED <<consumed, last, out, done>>
       \/ /\ consumed = Len(produced) /\ ended
          /\ done' = TRUE /\ woken' = FALSE
          /\ UNCHANGED <<consumed, last, out, waker>>
       \/ /\ consumed < Len(produced)
          /\ LET stat == produced[consumed + 1] IN
             /\ consumed' = consumed + 1
             /\ IF last = None
                   THEN /\ last' = stat /\ woken' = FALSE /\ out' = out
                   ELSE /\ last' = NewLast(last, stat) /\ woken' = TRUE
                        /\ out' = Append(out, Delta(last, stat))
          /\ UNCHANGED <<waker, done>>
    /\ UNCHANGED <<produced, ended>>

\* Mutant: the delta branch forgets `self.last = Some(stat)`.
PollKeepsFirst == PollOn(LAMBDA l, s : l)

Poll == PollOn(LAMBDA l, s : s)

(***************************************************************************)
(* A wake-up from another future the consumer task awaits alongside the    *)
(* stream (a select! arm, a timer).  Only possible with OtherWakeups.      *)
(***************************************************************************)
OtherWake ==
    /\ OtherWakeups /\ ~woken /\ ~done
    /\ woken' = TRUE
    /\ UNCHANGED <<produced, ended, consumed, waker, last, out, done>>

Next == (\E v \in Values : Produce(v)) \/ EndStream \/ Poll \/ OtherWake

Spec == Init /\ [][Next]_vars

(* The runtime polls a woken task, and Docker ends the stream of a stopped *)
(* container.  Nothing in this repository guarantees another wake-up.      *)
FairSpec == Spec /\ WF_vars(Poll) /\ WF_vars(EndStream)

---------------------------------------------------------------------------
TypeOK ==
    /\ produced \in Seq(Values) /\ Len(produced) <= MaxSamples
    /\ ended \in BOOLEAN /\ waker \in BOOLEAN /\ woken \in BOOLEAN
    /\ done \in BOOLEAN
    /\ consumed \in 0..Len(produced)
    /\ last \in Values \cup {None}
    /\ out \in Seq(Values \X Values)

(***************************************************************************)
(* The messages handed to the consumer are exactly the deltas between      *)
(* consecutive samples of what the inner stream yielded: none is skipped,  *)
(* none is computed against a stale `last` (poll_next, `self.last = ...`). *)
(***************************************************************************)
OutIsConsecutiveDeltas == out = Deltas(None, SubSeq(produced, 1, consumed))

(***************************************************************************)
(* Every sample Docker sends is eventually turned into a message for the   *)
(* consumer, except the first, which only primes `last`.                   *)
(***************************************************************************)
EverySampleDelivered ==
    \A k \in 2..MaxSamples :
        (Len(produced) >= k) ~> (Len(out) >= k - 1)
=============================================================================
