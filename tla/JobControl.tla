----------------------------- MODULE JobControl -----------------------------
(***************************************************************************)
(* The jobs of a virtual machine, libvirt/job_control.c.  A thread that    *)
(* changes a domain begins a job and ends it; a long operation begins an   *)
(* asynchronous job, which allows the jobs of its mask beside it, and runs *)
(* its own steps as nested jobs.  A call that cannot start waits on        *)
(* asyncCond (its job is not allowed) or on cond (a job is active) until   *)
(* 30 seconds after it began.                                              *)
(*                                                                         *)
(* The caller holds the lock of the domain, and only the waits give it     *)
(* up: each action is what a thread does from one wait to the next.        *)
(* Phases, the time of the start and the abort flag are written here and   *)
(* read elsewhere; they are left out, as is the status file.               *)
(***************************************************************************)
EXTENDS Integers, FiniteSets

CONSTANTS
  Thread,
  Kind,         \* jobs a caller names: query, modify, destroy ...
  DESTROY,      \* the one every mask allows
  DefaultMask,  \* the jobs allowed beside a new asynchronous job
  ASYNC, NESTED, NONE,
  MaxQueued,    \* cfg->maxQueuedJobs, 0 for no limit
  MaxFaults     \* bounds the failures of the clock and the discards

ASSUME JobAssumption ==
  /\ DESTROY \in Kind
  /\ DefaultMask \subseteq Kind
  /\ ASYNC # NESTED /\ ASYNC # NONE /\ NESTED # NONE
  /\ Kind \intersect {ASYNC, NESTED, NONE} = {}
  /\ NONE \notin Thread
  /\ MaxQueued \in Nat /\ MaxFaults \in Nat
  /\ IsFiniteSet(Thread)

VARIABLES
  active, owner,               \* job.active and its owner
  asyncJob, asyncOwner, mask,  \* the asynchronous job (ASYNC or NONE)
  jobs_queued,                 \* calls that wait or whose job runs
  refs,                        \* references to the domain
  pc,                          \* where each thread waits, if it does
  want,                        \* the job its call is for
  woken,                       \* waiters that were signalled
  late,                        \* waiters whose 30 seconds are over
  holds,                       \* the jobs each thread began and did not end
  failed,                      \* calls that could not read the clock
  lost,                        \* asynchronous jobs that nobody is left to end
  undercut                     \* discards of a job that a thread had

jobVars == <<active, owner>>
asyncVars == <<asyncJob, asyncOwner, mask>>
waitVars == <<pc, want, woken, late>>
faults == <<failed, lost, undercut>>
vars == <<jobVars, asyncVars, jobs_queued, refs, waitVars, holds, faults>>

Job == Kind \union {ASYNC, NESTED}

TypeOK ==
  /\ active \in Kind \union {NESTED, NONE}
  /\ owner \in Thread \union {NONE}
  /\ asyncJob \in {ASYNC, NONE}
  /\ asyncOwner \in Thread \union {NONE}
  /\ mask \in SUBSET Kind
  /\ jobs_queued \in Int /\ refs \in Int
  /\ pc \in [Thread -> {"idle", "asyncCond", "cond"}]
  /\ want \in [Thread -> Job \union {NONE}]
  /\ woken \in SUBSET Thread /\ late \in SUBSET Thread
  /\ holds \in [Thread -> SUBSET Job]
  /\ failed \in Nat /\ lost \in Nat /\ undercut \in Nat

Init ==
  /\ active = NONE /\ owner = NONE
  /\ asyncJob = NONE /\ asyncOwner = NONE /\ mask = DefaultMask
  /\ jobs_queued = 0 /\ refs = 1
  /\ pc = [t \in Thread |-> "idle"]
  /\ want = [t \in Thread |-> NONE]
  /\ woken = {} /\ late = {}
  /\ holds = [t \in Thread |-> {}]
  /\ failed = 0 /\ lost = 0 /\ undercut = 0
-----------------------------------------------------------------------------
NestedJobAllowed(k) == asyncJob = NONE \/ k \in mask

\* The condition of the wait on asyncCond.
Blocked(k) == k # NESTED /\ ~NestedJobAllowed(k)

\* A mutant: the limit is looked at before the call is counted.
LimitBeforeCounting(q) == MaxQueued > 0 /\ q - 1 > MaxQueued

\* jobs_queued against the limit, with this call in it.
OverLimit(q) == MaxQueued > 0 /\ q > MaxQueued

\* The call returns; nothing of its wait is left.
Return(t) ==
  /\ pc' = [pc EXCEPT ![t] = "idle"]
  /\ want' = [want EXCEPT ![t] = NONE]
  /\ woken' = woken \ {t}
  /\ late' = late \ {t}

\* A mutant: the error path forgets the count.
GiveUpStillCounted(t, q, r) ==
  /\ jobs_queued' = q /\ refs' = r - 1
  /\ Return(t)
  /\ UNCHANGED <<jobVars, asyncVars, holds>>

\* The error path.  q and r are the counts with this call in them.
GiveUp(t, q, r) ==
  /\ jobs_queued' = q - 1 /\ refs' = r - 1
  /\ Return(t)
  /\ UNCHANGED <<jobVars, asyncVars, holds>>

Wait(t, k, c, q, r) ==
  /\ pc' = [pc EXCEPT ![t] = c]
  /\ want' = [want EXCEPT ![t] = k]
  /\ woken' = woken \ {t}
  /\ jobs_queued' = q /\ refs' = r
  /\ UNCHANGED <<late, jobVars, asyncVars, holds>>

\* A wait that begins after the time is over returns at once, as an error.
Sleep(t, k, c, q, r) ==
  \/ t \in late /\ GiveUp(t, q, r)
  \/ t \notin late /\ Wait(t, k, c, q, r)

\* An asynchronous job leaves active free: only its nested jobs take it.
StartJob(t, k) ==
  /\ active' = IF k = ASYNC THEN NONE ELSE k
  /\ owner' = IF k = ASYNC THEN NONE ELSE t
  /\ asyncJob' = IF k = ASYNC THEN ASYNC ELSE asyncJob
  /\ asyncOwner' = IF k = ASYNC THEN t ELSE asyncOwner
  /\ mask' = IF k = ASYNC THEN DefaultMask ELSE mask

Start(t, k, q, r) ==
  /\ StartJob(t, k)
  /\ holds' = [holds EXCEPT ![t] = @ \union {k}]
  /\ jobs_queued' = q /\ refs' = r
  /\ Return(t)

\* The two waits, each repeated until its condition is over.
AwaitAsync(t, k, q, r) ==
  \/ Blocked(k) /\ Sleep(t, k, "asyncCond", q, r)
  \/ ~Blocked(k) /\ active # NONE /\ Sleep(t, k, "cond", q, r)
  \/ ~Blocked(k) /\ active = NONE /\ Start(t, k, q, r)

Retry(t, k, q, r) ==
  \/ OverLimit(q) /\ GiveUp(t, q, r)
  \/ ~OverLimit(q) /\ AwaitAsync(t, k, q, r)

\* Two mutants: the wait on cond is not repeated; the asynchronous job is not
\* looked at again after it.
AwaitJobOnce(t, k, q, r) ==
  \/ Blocked(k) /\ Retry(t, k, q, r)
  \/ ~Blocked(k) /\ Start(t, k, q, r)

AwaitJobNoRecheck(t, k, q, r) ==
  \/ active # NONE /\ Sleep(t, k, "cond", q, r)
  \/ active = NONE /\ Start(t, k, q, r)

\* After the wait on cond the job may be forbidden again: the lock was free.
AwaitJob(t, k, q, r) ==
  \/ active # NONE /\ Sleep(t, k, "cond", q, r)
  \/ active = NONE /\ Blocked(k) /\ Retry(t, k, q, r)
  \/ active = NONE /\ ~Blocked(k) /\ Start(t, k, q, r)

\* BeginJobInternal up to its first wait.  When the clock cannot be read the
\* call is counted and returns without a reference.
BeginJobInternal(t, k) ==
  \/ Retry(t, k, jobs_queued + 1, refs + 1) /\ UNCHANGED faults
  \/ /\ failed + lost + undercut < MaxFaults
     /\ jobs_queued' = jobs_queued + 1
     /\ failed' = failed + 1
     /\ UNCHANGED <<jobVars, asyncVars, refs, waitVars, holds, lost, undercut>>
-----------------------------------------------------------------------------
Idle(t) == pc[t] = "idle"

BeginJob(t, k) ==
  /\ Idle(t) /\ holds[t] = {} /\ k \in Kind
  /\ BeginJobInternal(t, k)

BeginAsyncJob(t) ==
  /\ Idle(t) /\ holds[t] = {}
  /\ BeginJobInternal(t, ASYNC)

BeginNestedJob(t) ==
  /\ Idle(t) /\ holds[t] = {ASYNC}
  /\ asyncJob = ASYNC
  /\ BeginJobInternal(t, NESTED)

\* A waiter that was signalled has the lock again.
Resume(t) ==
  /\ t \in woken
  /\ \/ pc[t] = "asyncCond" /\ AwaitAsync(t, want[t], jobs_queued, refs)
     \/ pc[t] = "cond" /\ AwaitJob(t, want[t], jobs_queued, refs)
  /\ UNCHANGED faults

\* The 30 seconds of a call are over.
Expire(t) ==
  /\ ~Idle(t) /\ t \notin late
  /\ late' = late \union {t}
  /\ UNCHANGED <<jobVars, asyncVars, jobs_queued, refs, pc, want, woken, holds,
                 faults>>

\* A mutant: the wait on asyncCond has no time limit.
TimeOutForJobOnly(t) ==
  /\ pc[t] = "cond" /\ t \in late /\ t \notin woken
  /\ GiveUp(t, jobs_queued, refs)
  /\ UNCHANGED faults

\* virCondWaitUntil returns -1: nobody signalled it in time.
TimeOut(t) ==
  /\ ~Idle(t) /\ t \in late /\ t \notin woken
  /\ GiveUp(t, jobs_queued, refs)
  /\ UNCHANGED faults

Waiters(c) == {u \in Thread : pc[u] = c} \ woken

Signal(c) ==
  \/ Waiters(c) = {} /\ UNCHANGED woken
  \/ \E u \in Waiters(c) : woken' = woken \union {u}

Broadcast(c) == woken' = woken \union Waiters(c)

\* A condition may be returned from without a signal.
Spurious(t) ==
  /\ ~Idle(t) /\ t \notin woken
  /\ woken' = woken \union {t}
  /\ UNCHANGED <<jobVars, asyncVars, jobs_queued, refs, pc, want, late, holds,
                 faults>>

ResetJob == active' = NONE /\ owner' = NONE

ResetAsyncJob ==
  /\ asyncJob' = NONE
  /\ asyncOwner' = NONE
  /\ mask' = DefaultMask

\* An asynchronous job that no thread owns: between two of its steps one
\* thread lets go of it, and the next to set the phase has it.
Released == asyncJob # NONE /\ asyncOwner = NONE

\* When one call takes the released job and gives nothing of it back, nobody
\* else will.
LostIf(b) == lost' = IF b THEN lost + 1 ELSE lost

\* The caller was not told if its job was discarded, and ends what the domain
\* has by now.
EndJob(t) ==
  /\ Idle(t)
  /\ \E k \in holds[t] \ {ASYNC} : holds' = [holds EXCEPT ![t] = @ \ {k}]
  /\ jobs_queued' = jobs_queued - 1
  /\ ResetJob
  /\ Signal("cond")
  /\ refs' = refs - 1
  /\ UNCHANGED <<asyncVars, pc, want, late, faults>>

EndAsyncJob(t) ==
  /\ Idle(t) /\ holds[t] = {ASYNC}
  /\ holds' = [holds EXCEPT ![t] = {}]
  /\ jobs_queued' = jobs_queued - 1
  /\ ResetAsyncJob
  /\ Broadcast("asyncCond")
  /\ refs' = refs - 1
  /\ LostIf(Released)
  /\ UNCHANGED <<jobVars, pc, want, late, failed, undercut>>

SetAsyncJobMask(t, ks) ==
  /\ Idle(t) /\ ASYNC \in holds[t]
  /\ asyncJob # NONE
  /\ mask' = ks \union {DESTROY}
  /\ UNCHANGED <<jobVars, asyncJob, asyncOwner, jobs_queued, refs, waitVars,
                 holds, faults>>

ReleaseAsyncJob(t) ==
  /\ Idle(t) /\ holds[t] = {ASYNC}
  /\ asyncOwner' = NONE
  /\ holds' = [holds EXCEPT ![t] = {}]
  /\ LostIf(asyncOwner = NONE)
  /\ UNCHANGED <<jobVars, asyncJob, mask, jobs_queued, refs, waitVars, failed,
                 undercut>>

\* The next thread takes the released job over; one that has a job already
\* sets the phase of whichever is there.
SetJobPhase(t) ==
  /\ Idle(t) /\ asyncJob # NONE
  /\ ASYNC \in holds[t] \/ (holds[t] = {} /\ Released)
  /\ asyncOwner' = t
  /\ holds' = [holds EXCEPT ![t] = @ \union {ASYNC}]
  /\ LostIf(ASYNC \in holds[t] /\ Released)
  /\ UNCHANGED <<jobVars, asyncJob, mask, jobs_queued, refs, waitVars, failed,
                 undercut>>

\* The job is forgotten, with the nested one that is running.  Nobody is woken
\* and no count or reference given back: the threads that have the jobs are
\* not asked, and will end them.
DiscardAsyncJob ==
  /\ failed + lost + undercut < MaxFaults
  /\ active' = IF active = NESTED THEN NONE ELSE active
  /\ owner' = IF active = NESTED THEN NONE ELSE owner
  /\ ResetAsyncJob
  /\ LostIf(Released)
  /\ undercut' = IF active = NESTED \/ asyncOwner # NONE THEN undercut + 1
                                                        ELSE undercut
  /\ UNCHANGED <<jobs_queued, refs, waitVars, holds, failed>>

Next ==
  \/ \E t \in Thread :
       \/ \E k \in Kind : BeginJob(t, k)
       \/ BeginAsyncJob(t) \/ BeginNestedJob(t)
       \/ Resume(t) \/ Expire(t) \/ TimeOut(t) \/ Spurious(t)
       \/ EndJob(t) \/ EndAsyncJob(t)
       \/ \E ks \in SUBSET Kind : SetAsyncJobMask(t, ks)
       \/ ReleaseAsyncJob(t) \/ SetJobPhase(t)
  \/ DiscardAsyncJob

Safety == Init /\ [][Next]_vars

\* Time passes, and a waiter that was signalled or is late gets the lock.
Fairness == \A t \in Thread :
              WF_vars(Expire(t)) /\ WF_vars(TimeOut(t)) /\ WF_vars(Resume(t))

Spec == Safety /\ Fairness
-----------------------------------------------------------------------------
Waiting == {t \in Thread : pc[t] # "idle"}
RunningJob == {t \in Thread : holds[t] \ {ASYNC} # {}}
HaveAsync == {t \in Thread : ASYNC \in holds[t]}

(* The calls that count: those that wait, those that run a job, those that *)
(* have an asynchronous job, and the asynchronous job that nobody has now. *)
Inside == Cardinality(Waiting) + Cardinality(RunningJob) + Cardinality(HaveAsync)
            + (IF Released THEN 1 ELSE 0)

\* Threads that run a job, or count on an asynchronous one, of which the
\* domain knows nothing any more.
Robbed == {t \in RunningJob : \E k \in holds[t] \ {ASYNC} : ~(active = k /\ owner = t)}
Orphaned == {t \in HaveAsync : asyncOwner # t}

(* The domain names no job that its thread has ended, whatever is discarded *)
(* or ended by mistake, so that none blocks it for ever; and no wake-up,    *)
(* time-out, retry or end takes a job from a thread that runs it, or starts *)
(* one beside it (the loops of BeginJobInternal), before a discard has.     *)
JobsOwned ==
  /\ active # NONE => owner # NONE /\ active \in holds[owner]
  /\ asyncOwner # NONE => asyncJob # NONE /\ ASYNC \in holds[asyncOwner]
  /\ undercut = 0 => Robbed = {} /\ Orphaned = {}

(* A nested job, waiting or running, is under the asynchronous job of its  *)
(* thread, which is not looked at again after the wait for the active job  *)
(* (nested in BeginJobInternal): it is gone only if it was taken from the  *)
(* thread by a discard.                                                    *)
NestedUnderAsync ==
  \A t \in Thread : NESTED \in holds[t] \/ want[t] = NESTED =>
                      asyncOwner = t \/ (t \in Orphaned /\ undercut > 0)

(* jobs_queued and the references are those of the calls inside, but for   *)
(* two losses: the call that cannot read the clock, and the job that was   *)
(* released and then reset by others.  A job that is discarded while a     *)
(* thread has it is given back all the same, when the thread ends it.      *)
CountsBalance ==
  /\ jobs_queued = Inside + failed + lost
  /\ refs = 1 + Inside + lost

(* The limit is one on all who wait or run, though it is looked at once    *)
(* and again only after a wait.                                            *)
WithinLimit == MaxQueued > 0 => Inside + lost <= MaxQueued

\* The job a caller is in: it began it and did not end it.
RunningOf(t) ==
  IF holds[t] \ {ASYNC} = {} THEN NONE ELSE CHOOSE k \in holds[t] \ {ASYNC} : TRUE

Jobs == INSTANCE DomainJobs WITH
  running <- [t \in Thread |-> RunningOf(t)], async <- asyncJob # NONE,
  robbed <- Robbed, orphaned <- Orphaned

(* With its waits, signals, time-outs and failures the domain starts jobs  *)
(* as DomainJobs does: never two, never one the mask forbids when it       *)
(* starts (the recheck after the wait on cond).  What a discard takes from *)
(* a thread is taken; nobody else's is, until that thread ends a job it    *)
(* no longer has.                                                          *)
ImplementsJobs == Jobs!Spec

(* A call returns, with the job or without.  EndJob signals one waiter,    *)
(* which may go on to wait for asyncCond or start an asynchronous job and  *)
(* signal nobody, and DiscardAsyncJob and SetAsyncJobMask wake nobody at   *)
(* all: it is the time limit of each wait that makes this true.            *)
EveryCallReturns == \A t \in Thread : pc[t] # "idle" ~> pc[t] = "idle"
=============================================================================
