----------------------------- MODULE DomainJobs -----------------------------
(***************************************************************************)
(* What the jobs of a virtual machine promise their callers: one job at a  *)
(* time, at most one asynchronous job in the background, and beside that   *)
(* only jobs its mask allows.  A job starts in one step, whoever waited    *)
(* for it in whatever order.                                               *)
(*                                                                         *)
(* The asynchronous job may be discarded under the threads that have it.   *)
(* They go on, and the promise is then one to the other threads only, who  *)
(* may lose it too when such a thread ends a job it no longer has.         *)
(***************************************************************************)
CONSTANTS Thread, Kind, NESTED, NONE, DESTROY, DefaultMask

VARIABLES
  running,   \* the job each thread is running
  async,     \* an asynchronous job is in progress
  mask,      \* the jobs it allows beside it
  robbed,    \* threads whose running job was taken from them
  orphaned   \* threads whose asynchronous job was

vars == <<running, async, mask, robbed, orphaned>>

Init ==
  /\ running = [t \in Thread |-> NONE]
  /\ async = FALSE
  /\ mask = DefaultMask
  /\ robbed = {} /\ orphaned = {}

\* No thread runs a job that is still its own.
Free == \A t \in Thread : running[t] = NONE \/ t \in robbed

Start(t, k) ==
  /\ Free /\ running[t] = NONE
  /\ async => k \in mask
  /\ running' = [running EXCEPT ![t] = k]
  /\ UNCHANGED <<async, mask, robbed, orphaned>>

StartNested(t) ==
  /\ Free /\ running[t] = NONE
  /\ async \/ t \in orphaned
  /\ running' = [running EXCEPT ![t] = NESTED]
  /\ UNCHANGED <<async, mask, robbed, orphaned>>

\* A thread that ends a job it no longer has takes the job of the others.
Finish(t) ==
  /\ running[t] # NONE
  /\ running' = [running EXCEPT ![t] = NONE]
  /\ robbed' = IF t \in robbed THEN {u \in Thread \ {t} : running[u] # NONE} ELSE robbed
  /\ UNCHANGED <<async, mask, orphaned>>

StartAsync ==
  /\ Free
  /\ ~async
  /\ async' = TRUE
  /\ mask' = DefaultMask
  /\ UNCHANGED <<running, robbed, orphaned>>

EndsAsync == async' = FALSE /\ mask' = DefaultMask

\* No thread loses its asynchronous job with the nested one it runs.
FinishAsync ==
  /\ async
  /\ \A t \in Thread : running[t] = NESTED => t \in orphaned
  /\ EndsAsync
  /\ UNCHANGED <<running, robbed, orphaned>>

\* The set and at most one thread more.
OneMore(S) == {S} \union {S \union {t} : t \in Thread}

Discard ==
  /\ EndsAsync
  /\ robbed' = robbed \union {t \in Thread : running[t] = NESTED}
  /\ orphaned' \in OneMore(orphaned)
  /\ UNCHANGED running

\* A thread ends, lets go of, or takes over an asynchronous job not its own.
Meddle(t) ==
  /\ t \in orphaned
  /\ orphaned' \in OneMore(orphaned \ {t})
  /\ EndsAsync \/ UNCHANGED <<async, mask>>
  /\ UNCHANGED <<running, robbed>>

Allow(ks) ==
  /\ async
  /\ mask' = ks \union {DESTROY}
  /\ UNCHANGED <<running, async, robbed, orphaned>>

Next ==
  \/ \E t \in Thread : StartNested(t) \/ Finish(t) \/ Meddle(t)
  \/ \E t \in Thread, k \in Kind : Start(t, k)
  \/ StartAsync
  \/ FinishAsync
  \/ Discard
  \/ \E ks \in SUBSET Kind : Allow(ks)

Spec == Init /\ [][Next]_vars
=============================================================================
