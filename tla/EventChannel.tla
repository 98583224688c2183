---------------------------- MODULE EventChannel ----------------------------
(***************************************************************************)
(* What an EventLoop promises its clients (EventLoop.h): one FIFO of       *)
(* accepted announcements, each delivered at most once and in the order of *)
(* acceptance, nothing delivered before the loop starts or once it has     *)
(* been stopped, and everything accepted delivered unless it is stopped.   *)
(* Threads, locks, the semaphore and the handler table are not visible.    *)
(***************************************************************************)
EXTENDS Naturals, Sequences

CONSTANT Item            \* what a delivery carries: a handler and its argument

VARIABLES accepted,      \* every item accepted so far, in order
          delivered,     \* how many of them have been delivered
          phase          \* "created", "running", "stopped"

vars == <<accepted, delivered, phase>>

Init == accepted = << >> /\ delivered = 0 /\ phase = "created"

Start == phase = "created" /\ phase' = "running" /\ UNCHANGED <<accepted, delivered>>

Stop == phase = "running" /\ phase' = "stopped" /\ UNCHANGED <<accepted, delivered>>

\* An announcement is accepted in any phase: a stopped loop still queues it.
Accept == /\ \E it \in Item : accepted' = Append(accepted, it)
          /\ UNCHANGED <<delivered, phase>>

Deliver == /\ phase = "running"
           /\ delivered < Len(accepted)
           /\ delivered' = delivered + 1
           /\ UNCHANGED <<accepted, phase>>

Next == Start \/ Stop \/ Accept \/ Deliver

Safety == Init /\ [][Next]_vars
Spec == Safety /\ WF_vars(Deliver)
=============================================================================
