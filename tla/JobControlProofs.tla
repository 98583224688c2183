-------------------------- MODULE JobControlProofs --------------------------
(***************************************************************************)
(* Proofs about JobControl, for any threads, kinds of jobs, limits and     *)
(* numbers of faults.                                                      *)
(***************************************************************************)
EXTENDS JobControl, FiniteSetTheorems, TLAPS

(* What a thread holds and waits for: an idle one waits for nothing, a     *)
(* waiting one has nothing but, for a nested job, the asynchronous job.    *)
WaitersHold ==
  \A t \in Thread :
    /\ pc[t] = "idle" => want[t] = NONE /\ t \notin woken /\ t \notin late
    /\ pc[t] # "idle" => /\ want[t] \in Job
                         /\ holds[t] = IF want[t] = NESTED THEN {ASYNC} ELSE {}
    /\ pc[t] = "asyncCond" => want[t] # NESTED

\* A thread runs one job, beside the asynchronous one.
RunsOne == \A t \in Thread : \A j, k \in holds[t] \ {ASYNC} : j = k

IInv == TypeOK /\ WaitersHold /\ RunsOne /\ JobsOwned /\ NestedUnderAsync

\* t may go through BeginJobInternal for k.
MayBegin(t, k) ==
  /\ k \in Job
  /\ holds[t] = IF k = NESTED THEN {ASYNC} ELSE {}

\* What a call does between two waits.
Outcome(t, k, q, r) ==
  \/ GiveUp(t, q, r)
  \/ k # NESTED /\ Wait(t, k, "asyncCond", q, r)
  \/ Wait(t, k, "cond", q, r)
  \/ active = NONE /\ ~Blocked(k) /\ Start(t, k, q, r)

LEMMA RetryOutcome ==
  ASSUME NEW t \in Thread, NEW k \in Job, NEW q, NEW r, Retry(t, k, q, r)
  PROVE  Outcome(t, k, q, r)
BY DEF Retry, AwaitAsync, Sleep, Outcome, Blocked

LEMMA AwaitAsyncOutcome ==
  ASSUME NEW t \in Thread, NEW k \in Job, NEW q, NEW r, AwaitAsync(t, k, q, r)
  PROVE  Outcome(t, k, q, r)
BY DEF AwaitAsync, Sleep, Outcome, Blocked

LEMMA AwaitJobOutcome ==
  ASSUME NEW t \in Thread, NEW k \in Job, NEW q, NEW r, AwaitJob(t, k, q, r)
  PROVE  Outcome(t, k, q, r)
BY RetryOutcome DEF AwaitJob, Sleep, Outcome

\* The steps that change no job: those of a thread that still waits.
LEMMA SameJobs ==
  ASSUME IInv, UNCHANGED <<jobVars, asyncVars, holds, undercut>>
  PROVE  /\ JobsOwned' /\ RunsOne'
         /\ Robbed' = Robbed /\ Orphaned' = Orphaned
         /\ ~Blocked(ASYNC) => asyncJob = NONE /\ asyncOwner = NONE
<1>1. Robbed' = Robbed /\ Orphaned' = Orphaned
  BY DEF Robbed, Orphaned, RunningJob, HaveAsync, jobVars, asyncVars
<1>2. ~Blocked(ASYNC) => asyncJob = NONE /\ asyncOwner = NONE
  BY JobAssumption DEF IInv, TypeOK, JobsOwned, Blocked, NestedJobAllowed
<1> QED BY <1>1, <1>2 DEF IInv, JobsOwned, RunsOne, jobVars, asyncVars

LEMMA NoJobFree ==
  ASSUME IInv, ~Blocked(ASYNC)
  PROVE  asyncJob = NONE /\ asyncOwner = NONE
BY JobAssumption DEF IInv, TypeOK, JobsOwned, Blocked, NestedJobAllowed

(* A job starts when none is active.  Then each thread that runs one was   *)
(* robbed of it before, and stays so.                                      *)
LEMMA StartKeeps ==
  ASSUME IInv, NEW t \in Thread, NEW k, NEW q, NEW r, MayBegin(t, k),
         active = NONE, ~Blocked(k), Start(t, k, q, r)
  PROVE  Robbed' = Robbed /\ Orphaned' = Orphaned
<1>1. /\ \A u \in Thread : u # t => holds'[u] = holds[u]
      /\ holds'[t] = holds[t] \union {k}
      /\ t \notin Robbed /\ holds[t] \ {ASYNC} = {}
  BY DEF Start, MayBegin, Robbed, RunningJob, IInv, TypeOK
<1>2. \A u \in Thread : NONE \notin holds[u] /\ NONE \notin holds'[u]
  BY <1>1, JobAssumption DEF IInv, TypeOK, Job, MayBegin
<1>3. CASE k = ASYNC
  <2>1. asyncOwner = NONE /\ asyncOwner' = t /\ active' = NONE
    BY <1>3, NoJobFree DEF Start, StartJob
  <2>2. Orphaned' = Orphaned
    <3>1. t \notin Orphaned /\ t \notin Orphaned'
      BY <1>3, <2>1, JobAssumption DEF Orphaned, HaveAsync, MayBegin
    <3>2. \A u \in Thread : u # t => (u \in Orphaned' <=> u \in Orphaned)
      BY <1>1, <2>1, JobAssumption DEF Orphaned, HaveAsync
    <3> QED BY <3>1, <3>2 DEF Orphaned, HaveAsync
  <2>3. Robbed' = Robbed
    <3>1. \A u \in Thread : holds'[u] \ {ASYNC} = holds[u] \ {ASYNC}
      BY <1>1, <1>3
    <3>2. \A u \in Thread : u \in Robbed' <=> u \in Robbed
      BY <1>2, <2>1, <3>1 DEF Robbed, RunningJob
    <3> QED BY <3>2 DEF Robbed, RunningJob
  <2> QED BY <2>2, <2>3
<1>4. CASE k # ASYNC
  <2>1. active' = k /\ owner' = t /\ asyncOwner' = asyncOwner
    BY <1>4 DEF Start, StartJob
  <2>2. Orphaned' = Orphaned
    <3>1. \A u \in Thread : ASYNC \in holds'[u] <=> ASYNC \in holds[u]
      BY <1>1, <1>4
    <3> QED BY <2>1, <3>1 DEF Orphaned, HaveAsync
  <2>3. Robbed' = Robbed
    <3>1. t \notin Robbed'
      BY <1>1, <1>4, <2>1 DEF Robbed, RunningJob
    <3>2. \A u \in Thread : u # t => (u \in Robbed' <=> u \in Robbed)
      BY <1>1, <1>2, <2>1 DEF Robbed, RunningJob
    <3> QED BY <1>1, <3>1, <3>2 DEF Robbed, RunningJob
  <2> QED BY <2>2, <2>3
<1> QED BY <1>3, <1>4

(* A call goes on from its wait, or returns, or starts the only job.       *)
LEMMA OutcomeInv ==
  ASSUME IInv, NEW t \in Thread, NEW k, NEW q \in Int, NEW r \in Int,
         MayBegin(t, k), Outcome(t, k, q, r), UNCHANGED faults
  PROVE  IInv'
<1>1. ASSUME GiveUp(t, q, r)
      PROVE  IInv'
  <2>1. TypeOK' /\ WaitersHold'
    BY <1>1, JobAssumption
       DEF IInv, TypeOK, WaitersHold, GiveUp, Return, jobVars, asyncVars, faults,
           MayBegin, Job
  <2>2. /\ UNCHANGED <<jobVars, asyncVars, holds, undercut>>
        /\ \A u \in Thread : want'[u] \in {want[u], NONE}
    BY <1>1 DEF GiveUp, Return, faults, IInv, TypeOK
  <2>3. JobsOwned' /\ RunsOne' /\ Orphaned' = Orphaned
    BY <2>2, SameJobs
  <2>4. NestedUnderAsync'
    BY <2>2, <2>3, JobAssumption DEF IInv, NestedUnderAsync, asyncVars
  <2> QED BY <2>1, <2>3, <2>4 DEF IInv
<1>2. ASSUME NEW c \in {"asyncCond", "cond"}, c = "asyncCond" => k # NESTED,
             Wait(t, k, c, q, r)
      PROVE  IInv'
  <2>1. TypeOK'
    BY <1>2, JobAssumption DEF IInv, TypeOK, Wait, jobVars, asyncVars, faults, MayBegin
  <2>2. WaitersHold'
    BY <1>2, JobAssumption DEF IInv, TypeOK, WaitersHold, Wait, MayBegin
  <2>3. UNCHANGED <<jobVars, asyncVars, holds, undercut>>
    BY <1>2 DEF Wait, faults
  <2>4. JobsOwned' /\ RunsOne' /\ Orphaned' = Orphaned
    BY <2>3, SameJobs
  <2>5. k = NESTED => asyncOwner = t \/ (t \in Orphaned /\ undercut > 0)
    BY DEF IInv, TypeOK, JobsOwned, Orphaned, HaveAsync, MayBegin
  <2>6. NestedUnderAsync'
    BY <1>2, <2>3, <2>4, <2>5 DEF IInv, TypeOK, NestedUnderAsync, asyncVars, Wait
  <2> QED BY <2>1, <2>2, <2>4, <2>6 DEF IInv
<1>3. ASSUME active = NONE, ~Blocked(k), Start(t, k, q, r)
      PROVE  IInv'
  <2>1. TypeOK' /\ WaitersHold'
    BY <1>3, JobAssumption
       DEF IInv, TypeOK, WaitersHold, Start, StartJob, Return, faults, MayBegin, Job
  <2>2. Robbed' = Robbed /\ Orphaned' = Orphaned /\ undercut' = undercut
    BY <1>3, StartKeeps DEF faults
  <2>3. RunsOne'
    BY <1>3 DEF IInv, TypeOK, RunsOne, Start, MayBegin
  <2>4. CASE k = ASYNC
    <3>1. /\ active' = NONE /\ asyncOwner' = t /\ asyncJob' # NONE
          /\ ASYNC \in holds'[t] /\ asyncOwner = NONE
          /\ \A u \in Thread : want'[u] = NESTED => want[u] = NESTED
          /\ \A u \in Thread : NESTED \in holds'[u] => NESTED \in holds[u]
      BY <1>3, <2>4, NoJobFree, JobAssumption
         DEF IInv, TypeOK, Start, StartJob, Return
    <3>2. JobsOwned'
      BY <2>2, <3>1 DEF IInv, JobsOwned
    <3>3. NestedUnderAsync'
      BY <2>2, <3>1, JobAssumption DEF IInv, NestedUnderAsync
    <3> QED BY <2>1, <2>3, <3>2, <3>3 DEF IInv
  <2>5. CASE k # ASYNC
    <3>1. /\ active' = k /\ owner' = t /\ UNCHANGED asyncVars
          /\ \A u \in Thread : u # t => holds'[u] = holds[u]
          /\ holds'[t] = holds[t] \union {k}
          /\ \A u \in Thread : want'[u] = NESTED => want[u] = NESTED
      BY <1>3, <2>5, JobAssumption
         DEF IInv, TypeOK, Start, StartJob, Return, asyncVars
    <3>2. JobsOwned'
      BY <2>2, <3>1, JobAssumption DEF IInv, TypeOK, JobsOwned, asyncVars
    <3>3. k = NESTED => asyncOwner = t \/ (t \in Orphaned /\ undercut > 0)
      BY DEF IInv, TypeOK, JobsOwned, Orphaned, HaveAsync, MayBegin
    <3>4. NestedUnderAsync'
      BY <2>2, <3>1, <3>3 DEF IInv, NestedUnderAsync, asyncVars
    <3> QED BY <2>1, <2>3, <3>2, <3>4 DEF IInv
  <2> QED BY <2>4, <2>5
<1> QED BY <1>1, <1>2, <1>3 DEF Outcome

(* The call that cannot read the clock is only counted.                    *)
LEMMA BeginInv ==
  ASSUME IInv, NEW t \in Thread, NEW k \in Job, Idle(t), MayBegin(t, k),
         BeginJobInternal(t, k)
  PROVE  IInv'
<1>1. CASE Retry(t, k, jobs_queued + 1, refs + 1) /\ UNCHANGED faults
  <2>1. jobs_queued + 1 \in Int /\ refs + 1 \in Int
    BY DEF IInv, TypeOK
  <2>2. Outcome(t, k, jobs_queued + 1, refs + 1)
    BY <1>1, RetryOutcome
  <2> QED BY <1>1, <2>1, <2>2, OutcomeInv
<1>2. CASE /\ jobs_queued' = jobs_queued + 1
           /\ failed' = failed + 1
           /\ UNCHANGED <<jobVars, asyncVars, refs, waitVars, holds, lost, undercut>>
  <2>1. JobsOwned' /\ RunsOne' /\ Orphaned' = Orphaned
    BY <1>2, SameJobs
  <2>2. TypeOK' /\ WaitersHold' /\ NestedUnderAsync'
    BY <1>2, <2>1 DEF IInv, TypeOK, WaitersHold, NestedUnderAsync, jobVars,
                      asyncVars, waitVars
  <2> QED BY <2>1, <2>2 DEF IInv
<1> QED BY <1>1, <1>2 DEF BeginJobInternal

LEMMA ResumeOutcome ==
  ASSUME IInv, NEW t \in Thread, Resume(t)
  PROVE  /\ MayBegin(t, want[t])
         /\ ~Idle(t)
         /\ Outcome(t, want[t], jobs_queued, refs)
<1>1. MayBegin(t, want[t]) /\ want[t] \in Job /\ ~Idle(t)
  BY DEF IInv, TypeOK, WaitersHold, Resume, MayBegin, Idle
<1>2. CASE AwaitAsync(t, want[t], jobs_queued, refs)
  BY <1>1, <1>2, AwaitAsyncOutcome
<1>3. CASE AwaitJob(t, want[t], jobs_queued, refs)
  BY <1>1, <1>3, AwaitJobOutcome
<1> QED BY <1>1, <1>2, <1>3 DEF Resume

(* EndJob ends whatever job the domain has.  If that is not the caller's,  *)
(* a discard came before it.                                               *)
LEMMA EndJobIs ==
  ASSUME IInv, NEW t \in Thread, EndJob(t)
  PROVE  \E k \in Job \ {ASYNC} :
           /\ holds[t] \ {ASYNC} = {k}
           /\ holds' = [holds EXCEPT ![t] = @ \ {k}]
           /\ t \notin Robbed => active = k /\ owner = t
           /\ Orphaned' = Orphaned
           /\ Robbed' = {u \in RunningJob : u # t}
<1>1. PICK k \in holds[t] \ {ASYNC} : holds' = [holds EXCEPT ![t] = @ \ {k}]
  BY DEF EndJob
<1>2. k \in Job \ {ASYNC} /\ holds[t] \ {ASYNC} = {k} /\ active' = NONE
  BY <1>1 DEF IInv, TypeOK, RunsOne, EndJob, ResetJob
<1>3. t \notin Robbed => active = k /\ owner = t
  BY <1>1, <1>2 DEF Robbed, RunningJob
<1>4. /\ \A u \in Thread : u # t => holds'[u] = holds[u]
      /\ holds'[t] = holds[t] \ {k}
  BY <1>1 DEF IInv, TypeOK
<1>5. Orphaned' = Orphaned
  <2>1. \A u \in Thread : ASYNC \in holds'[u] <=> ASYNC \in holds[u]
    BY <1>2, <1>4
  <2> QED BY <2>1 DEF EndJob, Orphaned, HaveAsync, asyncVars
<1>6. Robbed' = {u \in RunningJob : u # t}
  <2>1. t \notin RunningJob'
    BY <1>2, <1>4 DEF RunningJob
  <2>2. \A u \in Thread : u # t => (u \in Robbed' <=> u \in RunningJob)
    BY <1>2, <1>4, JobAssumption DEF Robbed, RunningJob, IInv, TypeOK, Job
  <2> QED BY <2>1, <2>2 DEF Robbed, RunningJob
<1> QED BY <1>1, <1>2, <1>3, <1>5, <1>6

LEMMA EndJobInv ==
  ASSUME IInv, NEW t \in Thread, EndJob(t)
  PROVE  IInv'
<1>1. PICK k \in Job \ {ASYNC} :
           /\ holds[t] \ {ASYNC} = {k}
           /\ holds' = [holds EXCEPT ![t] = @ \ {k}]
           /\ t \notin Robbed => active = k /\ owner = t
           /\ Orphaned' = Orphaned
           /\ Robbed' = {u \in RunningJob : u # t}
  BY EndJobIs
<1>2. woken' \in SUBSET {u \in Thread : pc[u] # "idle" \/ u \in woken}
  BY DEF EndJob, Signal, Waiters, IInv, TypeOK
<1>3. TypeOK'
  BY <1>1, <1>2 DEF IInv, TypeOK, EndJob, ResetJob, asyncVars, faults
<1>4. WaitersHold'
  BY <1>1, <1>2 DEF IInv, TypeOK, WaitersHold, EndJob, Idle
<1>5. RunsOne'
  BY <1>1 DEF IInv, TypeOK, RunsOne
<1>6. JobsOwned'
  <2>1. undercut = 0 => Robbed' = {}
    <3>1. SUFFICES ASSUME undercut = 0, NEW u \in RunningJob, u # t PROVE FALSE
      BY <1>1
    <3>2. active = k /\ owner = t /\ Robbed = {}
      BY <1>1, <3>1 DEF IInv, JobsOwned
    <3>3. u \in Robbed
      BY <3>1, <3>2 DEF Robbed, RunningJob
    <3> QED BY <3>2, <3>3
  <2>2. active' = NONE /\ UNCHANGED <<asyncJob, asyncOwner, undercut>>
    BY DEF EndJob, ResetJob, asyncVars, faults
  <2>3. asyncOwner # NONE => ASYNC \in holds'[asyncOwner]
    BY <1>1 DEF IInv, TypeOK, JobsOwned
  <2> QED BY <1>1, <2>1, <2>2, <2>3 DEF IInv, JobsOwned
<1>7. NestedUnderAsync'
  BY <1>1 DEF IInv, TypeOK, NestedUnderAsync, EndJob, asyncVars, faults
<1> QED BY <1>3, <1>4, <1>5, <1>6, <1>7 DEF IInv

(* Three steps leave another owner of the asynchronous job, or none, and   *)
(* may take from the thread that makes them what it had.  Who had the job  *)
(* before is orphaned, which only a discard before them makes possible.    *)
LEMMA OwnerMoves ==
  ASSUME IInv, NEW t \in Thread, Idle(t), asyncOwner' \in {t, NONE},
         asyncOwner' = t => asyncJob' # NONE /\ holds' = [holds EXCEPT ![t] = @ \union {ASYNC}],
         asyncOwner' = NONE => holds[t] = {ASYNC} /\ holds' = [holds EXCEPT ![t] = {}],
         ASYNC \in holds[t] \/ asyncOwner = NONE,
         UNCHANGED <<jobVars, pc, want, undercut>>
  PROVE  /\ JobsOwned' /\ NestedUnderAsync' /\ RunsOne'
         /\ Robbed' = Robbed
         /\ Orphaned' = (Orphaned \ {t}) \union ({asyncOwner} \ {t, NONE})
<1>1. /\ \A u \in Thread : u # t => holds'[u] = holds[u]
      /\ holds'[t] = IF asyncOwner' = t THEN holds[t] \union {ASYNC} ELSE {}
      /\ \A u \in Thread : holds'[u] \ {ASYNC} = holds[u] \ {ASYNC}
      /\ t # NONE
  BY JobAssumption DEF IInv, TypeOK
<1>2. Robbed' = Robbed
  BY <1>1 DEF Robbed, RunningJob, jobVars
<1>3. Orphaned' = (Orphaned \ {t}) \union ({asyncOwner} \ {t, NONE})
  <2>1. t \notin Orphaned'
    BY <1>1 DEF Orphaned, HaveAsync
  <2>2. \A u \in Thread : u # t => (u \in Orphaned' <=> u \in Orphaned \/ u = asyncOwner)
    BY <1>1, JobAssumption DEF Orphaned, HaveAsync, IInv, JobsOwned
  <2> QED BY <2>1, <2>2, JobAssumption DEF Orphaned, HaveAsync, IInv, TypeOK
<1>4. asyncOwner \notin {t, NONE} => undercut > 0
  BY DEF IInv, TypeOK, JobsOwned, Orphaned, HaveAsync
<1>5. JobsOwned'
  <2>1. active' # NONE => owner' # NONE /\ active' \in holds'[owner']
    BY <1>1, JobAssumption DEF IInv, TypeOK, JobsOwned, jobVars
  <2>2. undercut' = 0 => Robbed' = {} /\ Orphaned' = {}
    BY <1>2, <1>3, <1>4 DEF IInv, JobsOwned
  <2> QED BY <1>1, <2>1, <2>2 DEF JobsOwned
<1>6. NestedUnderAsync'
  <2> SUFFICES ASSUME NEW u \in Thread, NESTED \in holds'[u] \/ want'[u] = NESTED
               PROVE  asyncOwner' = u \/ (u \in Orphaned' /\ undercut' > 0)
    BY DEF NestedUnderAsync
  <2>1. NESTED \in holds[u] \/ want[u] = NESTED
    BY <1>1, JobAssumption
  <2>2. asyncOwner = u \/ (u \in Orphaned /\ undercut > 0)
    BY <2>1 DEF IInv, NestedUnderAsync
  <2>3. CASE u # t
    BY <1>3, <1>4, <2>2, <2>3, JobAssumption
  <2>4. CASE u = t
    <3>1. want[t] = NONE
      BY DEF IInv, WaitersHold, Idle
    <3> QED BY <2>1, <2>4, <3>1, JobAssumption
  <2> QED BY <2>3, <2>4
<1>7. RunsOne'
  BY <1>1 DEF IInv, RunsOne
<1> QED BY <1>2, <1>3, <1>5, <1>6, <1>7

\* The three steps.
LEMMA EndAsyncMoves ==
  ASSUME IInv, NEW t \in Thread, EndAsyncJob(t)
  PROVE  /\ JobsOwned' /\ NestedUnderAsync' /\ RunsOne'
         /\ Robbed' = Robbed
         /\ Orphaned' = (Orphaned \ {t}) \union ({asyncOwner} \ {t, NONE})
BY OwnerMoves, JobAssumption DEF EndAsyncJob, ResetAsyncJob

LEMMA ReleaseMoves ==
  ASSUME IInv, NEW t \in Thread, ReleaseAsyncJob(t)
  PROVE  /\ JobsOwned' /\ NestedUnderAsync' /\ RunsOne'
         /\ Robbed' = Robbed
         /\ Orphaned' = (Orphaned \ {t}) \union ({asyncOwner} \ {t, NONE})
BY OwnerMoves, JobAssumption DEF ReleaseAsyncJob, waitVars

LEMMA PhaseMoves ==
  ASSUME IInv, NEW t \in Thread, SetJobPhase(t)
  PROVE  /\ JobsOwned' /\ NestedUnderAsync' /\ RunsOne'
         /\ Robbed' = Robbed
         /\ Orphaned' = (Orphaned \ {t}) \union ({asyncOwner} \ {t, NONE})
BY OwnerMoves, JobAssumption DEF SetJobPhase, Released, waitVars

LEMMA LostType ==
  ASSUME IInv, NEW b, LostIf(b)
  PROVE  lost' \in Nat
BY DEF LostIf, IInv, TypeOK

(* A discard takes the asynchronous job from its owner and the nested one  *)
(* from its thread.                                                        *)
LEMMA DiscardTakes ==
  ASSUME IInv, DiscardAsyncJob
  PROVE  /\ Robbed' = Robbed \union {t \in Thread : NESTED \in holds[t]}
         /\ Orphaned' = Orphaned \union ({asyncOwner} \ {NONE})
<1>1. asyncOwner' = NONE /\ holds' = holds
  BY DEF DiscardAsyncJob, ResetAsyncJob
<1>2. Orphaned' = Orphaned \union ({asyncOwner} \ {NONE})
  BY <1>1, JobAssumption DEF Orphaned, HaveAsync, IInv, TypeOK, JobsOwned
<1>3. \A t \in Thread : t \in Robbed' <=> t \in Robbed \/ NESTED \in holds[t]
  <2>1. TAKE t \in Thread
  <2>2. CASE active = NESTED
    <3>1. active' = NONE /\ NONE \notin holds[t]
      BY <2>2, JobAssumption DEF DiscardAsyncJob, IInv, TypeOK, Job
    <3>2. t \in Robbed' <=> t \in RunningJob
      BY <1>1, <3>1 DEF Robbed, RunningJob
    <3>3. t \in RunningJob => t \in Robbed \/ NESTED \in holds[t]
      BY <2>2 DEF Robbed, RunningJob
    <3>4. t \in Robbed \/ NESTED \in holds[t] => t \in RunningJob
      BY JobAssumption DEF Robbed, RunningJob
    <3> QED BY <3>2, <3>3, <3>4
  <2>3. CASE active # NESTED
    <3>1. t \in Robbed' <=> t \in Robbed
      BY <1>1, <2>3 DEF DiscardAsyncJob, Robbed, RunningJob
    <3>2. NESTED \in holds[t] => t \in Robbed
      BY <2>3, JobAssumption DEF Robbed, RunningJob
    <3> QED BY <3>1, <3>2
  <2> QED BY <2>2, <2>3
<1>4. Robbed' = Robbed \union {t \in Thread : NESTED \in holds[t]}
  BY <1>3 DEF Robbed, RunningJob
<1> QED BY <1>2, <1>4

LEMMA DiscardInv ==
  ASSUME IInv, DiscardAsyncJob
  PROVE  IInv'
<1>1. TypeOK' /\ WaitersHold' /\ RunsOne'
  <2>1. lost' \in Nat
    BY LostType DEF DiscardAsyncJob
  <2>2. undercut' \in Nat
    BY DEF DiscardAsyncJob, IInv, TypeOK
  <2> QED
    BY <2>1, <2>2, JobAssumption
       DEF IInv, TypeOK, WaitersHold, RunsOne, DiscardAsyncJob, ResetAsyncJob, waitVars
<1>2. asyncOwner # NONE => undercut' > 0
  BY DEF DiscardAsyncJob, IInv, TypeOK
<1>3. undercut' = 0 => undercut = 0 /\ active # NESTED /\ asyncOwner = NONE
  BY DEF DiscardAsyncJob, IInv, TypeOK
<1>4. undercut' >= undercut
  BY DEF DiscardAsyncJob, IInv, TypeOK
<1>5. undercut' = 0 => Robbed' = {} /\ Orphaned' = {}
  <2>1. SUFFICES ASSUME undercut' = 0 PROVE Robbed' = {} /\ Orphaned' = {}
    OBVIOUS
  <2>2. Robbed = {} /\ Orphaned = {} /\ active # NESTED /\ asyncOwner = NONE
    BY <1>3, <2>1 DEF IInv, JobsOwned
  <2>3. \A t \in Thread : NESTED \notin holds[t]
    BY <2>2, JobAssumption DEF Robbed, RunningJob
  <2> QED BY <2>2, <2>3, DiscardTakes
<1>6. JobsOwned'
  <2>1. active' # NONE => owner' # NONE /\ active' \in holds'[owner']
    BY DEF DiscardAsyncJob, IInv, JobsOwned
  <2>2. asyncOwner' = NONE
    BY DEF DiscardAsyncJob, ResetAsyncJob
  <2> QED BY <1>5, <2>1, <2>2 DEF JobsOwned
<1>7. NestedUnderAsync'
  <2> SUFFICES ASSUME NEW t \in Thread, NESTED \in holds[t] \/ want[t] = NESTED
               PROVE  t \in Orphaned' /\ undercut' > 0
    BY DEF NestedUnderAsync, DiscardAsyncJob, waitVars
  <2>1. asyncOwner = t \/ (t \in Orphaned /\ undercut > 0)
    BY DEF IInv, NestedUnderAsync
  <2> QED BY <1>2, <1>4, <2>1, DiscardTakes, JobAssumption
          DEF IInv, TypeOK, DiscardAsyncJob
<1> QED BY <1>1, <1>6, <1>7 DEF IInv

LEMMA NextInv == IInv /\ [Next]_vars => IInv'
<1> SUFFICES ASSUME IInv, [Next]_vars PROVE IInv'
  OBVIOUS
<1>1. ASSUME NEW t \in Thread, NEW k \in Kind, BeginJob(t, k)
      PROVE  IInv'
  BY <1>1, BeginInv, JobAssumption DEF BeginJob, MayBegin, Job
<1>2. ASSUME NEW t \in Thread, BeginAsyncJob(t)
      PROVE  IInv'
  BY <1>2, BeginInv, JobAssumption DEF BeginAsyncJob, MayBegin, Job
<1>3. ASSUME NEW t \in Thread, BeginNestedJob(t)
      PROVE  IInv'
  BY <1>3, BeginInv DEF BeginNestedJob, MayBegin, Job
<1>4. ASSUME NEW t \in Thread, Resume(t)
      PROVE  IInv'
  <2>1. jobs_queued \in Int /\ refs \in Int
    BY DEF IInv, TypeOK
  <2> QED BY <1>4, <2>1, ResumeOutcome, OutcomeInv DEF Resume
<1>5. ASSUME NEW t \in Thread, TimeOut(t)
      PROVE  IInv'
  <2>1. MayBegin(t, want[t]) /\ Outcome(t, want[t], jobs_queued, refs)
    BY <1>5 DEF IInv, WaitersHold, TimeOut, MayBegin, Outcome, Idle
  <2>2. jobs_queued \in Int /\ refs \in Int
    BY DEF IInv, TypeOK
  <2> QED BY <1>5, <2>1, <2>2, OutcomeInv DEF TimeOut
<1>6. ASSUME NEW t \in Thread, Expire(t) \/ Spurious(t)
      PROVE  IInv'
  <2>1. TypeOK' /\ WaitersHold'
    BY <1>6 DEF IInv, TypeOK, WaitersHold, Expire, Spurious, Idle, jobVars, asyncVars,
                faults
  <2>2. UNCHANGED <<jobVars, asyncVars, holds, undercut, want>>
    BY <1>6 DEF Expire, Spurious, faults
  <2>3. JobsOwned' /\ RunsOne' /\ Orphaned' = Orphaned
    BY <2>2, SameJobs
  <2>4. NestedUnderAsync'
    BY <2>2, <2>3 DEF IInv, NestedUnderAsync, asyncVars
  <2> QED BY <2>1, <2>3, <2>4 DEF IInv
<1>7. ASSUME NEW t \in Thread, EndJob(t)
      PROVE  IInv'
  BY <1>7, EndJobInv
<1>8. ASSUME NEW t \in Thread, EndAsyncJob(t)
      PROVE  IInv'
  <2>0. lost' \in Nat
    BY <1>8, LostType DEF EndAsyncJob
  <2>1. woken' \in SUBSET {u \in Thread : pc[u] # "idle" \/ u \in woken}
    BY <1>8 DEF EndAsyncJob, Broadcast, Waiters, IInv, TypeOK
  <2>2. TypeOK'
    BY <1>8, <2>0, <2>1, JobAssumption
       DEF IInv, TypeOK, EndAsyncJob, ResetAsyncJob, jobVars
  <2>3. WaitersHold'
    BY <1>8, <2>1, JobAssumption
       DEF IInv, TypeOK, WaitersHold, EndAsyncJob, Idle
  <2> QED BY <1>8, <2>2, <2>3, EndAsyncMoves DEF IInv
<1>9. ASSUME NEW t \in Thread, NEW ks \in SUBSET Kind, SetAsyncJobMask(t, ks)
      PROVE  IInv'
  <2>1. TypeOK' /\ WaitersHold' /\ RunsOne'
    BY <1>9, JobAssumption
       DEF IInv, TypeOK, WaitersHold, RunsOne, SetAsyncJobMask, jobVars, waitVars, faults
  <2>2. Robbed' = Robbed /\ Orphaned' = Orphaned
    BY <1>9 DEF SetAsyncJobMask, Robbed, Orphaned, RunningJob, HaveAsync, jobVars
  <2>3. JobsOwned' /\ NestedUnderAsync'
    BY <1>9, <2>2 DEF IInv, JobsOwned, NestedUnderAsync, SetAsyncJobMask, jobVars,
                      waitVars, faults
  <2> QED BY <2>1, <2>3 DEF IInv
<1>10. ASSUME NEW t \in Thread, ReleaseAsyncJob(t)
       PROVE  IInv'
  <2>0. lost' \in Nat
    BY <1>10, LostType DEF ReleaseAsyncJob
  <2>1. TypeOK' /\ WaitersHold'
    BY <1>10, <2>0 DEF IInv, TypeOK, WaitersHold, ReleaseAsyncJob, Idle, jobVars,
                       waitVars
  <2> QED BY <1>10, <2>1, ReleaseMoves DEF IInv
<1>11. ASSUME NEW t \in Thread, SetJobPhase(t)
       PROVE  IInv'
  <2>0. lost' \in Nat
    BY <1>11, LostType DEF SetJobPhase
  <2>1. TypeOK' /\ WaitersHold'
    BY <1>11, <2>0 DEF IInv, TypeOK, WaitersHold, SetJobPhase, Idle, jobVars,
                       waitVars, Job
  <2> QED BY <1>11, <2>1, PhaseMoves DEF IInv
<1>12. ASSUME DiscardAsyncJob
       PROVE  IInv'
  BY <1>12, DiscardInv
<1>13. CASE UNCHANGED vars
  <2>1. JobsOwned' /\ RunsOne' /\ Orphaned' = Orphaned
    BY <1>13, SameJobs DEF vars, faults
  <2>2. TypeOK' /\ WaitersHold' /\ NestedUnderAsync'
    BY <1>13, <2>1 DEF IInv, TypeOK, WaitersHold, NestedUnderAsync, vars, jobVars,
                       asyncVars, waitVars, faults
  <2> QED BY <2>1, <2>2 DEF IInv
<1> QED
  BY <1>1, <1>2, <1>3, <1>4, <1>5, <1>6, <1>7, <1>8, <1>9, <1>10, <1>11, <1>12, <1>13
     DEF Next

LEMMA InitInv == Init => IInv
<1> SUFFICES ASSUME Init PROVE IInv
  OBVIOUS
<1>1. Robbed = {} /\ Orphaned = {}
  BY DEF Init, Robbed, Orphaned, RunningJob, HaveAsync
<1> QED
  BY <1>1, JobAssumption
     DEF Init, IInv, TypeOK, WaitersHold, RunsOne, JobsOwned, NestedUnderAsync, Job

THEOREM SafetyInv == Safety => []IInv
BY InitInv, NextInv, PTL DEF Safety

(* No order of waits, wake-ups, time-outs and ends takes a job from the    *)
(* thread that runs it before a discard has, and none leaves the domain    *)
(* with a job that its thread has ended.                                   *)
THEOREM JobsAreOwned == Safety => []JobsOwned
BY SafetyInv, PTL DEF IInv

(* The asynchronous job of a nested job, running or waiting, is gone only  *)
(* if a discard took it from the thread.                                   *)
THEOREM NestedJobsCovered == Safety => []NestedUnderAsync
BY SafetyInv, PTL DEF IInv
-----------------------------------------------------------------------------
(***************************************************************************)
(* The refinement of DomainJobs.                                           *)
(***************************************************************************)
Running == [t \in Thread |-> RunningOf(t)]

LEMMA RunningIs ==
  ASSUME IInv, NEW t \in Thread
  PROVE  /\ Running[t] # NONE <=> t \in RunningJob
         /\ \A k \in Job \ {ASYNC} : Running[t] = k <=> k \in holds[t]
<1>1. holds[t] \subseteq Job /\ NONE \notin Job
  BY JobAssumption DEF IInv, TypeOK, Job
<1>2. CASE holds[t] \ {ASYNC} = {}
  BY <1>1, <1>2 DEF Running, RunningOf, RunningJob
<1>3. CASE holds[t] \ {ASYNC} # {}
  <2>1. RunningOf(t) \in holds[t] \ {ASYNC}
    BY <1>3 DEF RunningOf
  <2>2. \A k \in holds[t] \ {ASYNC} : k = RunningOf(t)
    BY <2>1 DEF IInv, RunsOne
  <2> QED BY <1>1, <1>3, <2>1, <2>2 DEF Running, RunningJob
<1> QED BY <1>2, <1>3

RunningRight ==
  \A t \in Thread : \A k \in Job \ {ASYNC} : Running[t] = k <=> k \in holds[t]

LEMMA RunningAllRight == IInv => RunningRight
BY RunningIs DEF RunningRight

TheOne(S) == IF S = {} THEN NONE ELSE CHOOSE k \in S : TRUE

LEMMA RunningTheOne ==
  ASSUME NEW t \in Thread
  PROVE  /\ RunningOf(t) = TheOne(holds[t] \ {ASYNC})
         /\ RunningOf(t)' = TheOne(holds'[t] \ {ASYNC})
BY DEF RunningOf, TheOne

\* Who runs a job: nobody else's job changes with one thread's.
LEMMA RunningSame ==
  ASSUME \A t \in Thread : holds'[t] \ {ASYNC} = holds[t] \ {ASYNC}
  PROVE  Running' = Running
<1>1. \A t \in Thread : RunningOf(t)' = RunningOf(t)
  BY RunningTheOne
<1> QED BY <1>1 DEF Running

LEMMA RunningMoves ==
  ASSUME NEW t \in Thread, NEW v,
         \A u \in Thread : u # t => holds'[u] \ {ASYNC} = holds[u] \ {ASYNC},
         Running'[t] = v
  PROVE  Running' = [Running EXCEPT ![t] = v]
<1>1. \A u \in Thread : u # t => RunningOf(u)' = RunningOf(u)
  BY RunningTheOne
<1>2. Running'[t] = RunningOf(t)'
  BY DEF Running
<1> QED BY <1>1, <1>2 DEF Running

LEMMA Stutter ==
  ASSUME Running' = Running, asyncJob' = asyncJob, mask' = mask,
         Robbed' = Robbed, Orphaned' = Orphaned
  PROVE  UNCHANGED Jobs!vars
BY DEF Jobs!vars, Running

LEMMA QuietJobs ==
  ASSUME UNCHANGED <<jobVars, asyncVars, holds>>
  PROVE  UNCHANGED Jobs!vars
<1>1. Running' = Running
  BY RunningSame
<1>2. Robbed' = Robbed /\ Orphaned' = Orphaned
  BY DEF Robbed, Orphaned, RunningJob, HaveAsync, jobVars, asyncVars
<1> QED BY <1>1, <1>2, Stutter DEF asyncVars

\* When no job is active, the threads that run one have lost it.
LEMMA NoneActive ==
  ASSUME IInv, active = NONE
  PROVE  Jobs!Free
<1>1. \A t \in Thread : Running[t] # NONE => t \in Robbed
  BY RunningIs, JobAssumption DEF Robbed, RunningJob, IInv, TypeOK, Job
<1> QED BY <1>1 DEF Jobs!Free, Running

LEMMA OutcomeJobs ==
  ASSUME IInv, IInv', NEW t \in Thread, NEW k, NEW q, NEW r,
         MayBegin(t, k), Outcome(t, k, q, r)
  PROVE  [Jobs!Next]_(Jobs!vars)
<1>1. CASE GiveUp(t, q, r)
  BY <1>1, QuietJobs DEF GiveUp
<1>2. CASE Wait(t, k, "asyncCond", q, r) \/ Wait(t, k, "cond", q, r)
  BY <1>2, QuietJobs DEF Wait
<1>3. CASE active = NONE /\ ~Blocked(k) /\ Start(t, k, q, r)
  <2>1. Jobs!Free /\ Robbed' = Robbed /\ Orphaned' = Orphaned
    BY <1>3, NoneActive, StartKeeps
  <2>2. /\ \A u \in Thread : u # t => holds'[u] = holds[u]
        /\ holds'[t] = holds[t] \union {k}
    BY <1>3 DEF Start, IInv, TypeOK
  <2>3. CASE k = ASYNC
    <3>1. asyncJob = NONE
      BY <1>3, <2>3, NoJobFree
    <3>2. Running' = Running
      BY <2>2, <2>3, RunningSame
    <3>3. Jobs!StartAsync
      BY <1>3, <2>1, <2>3, <3>1, <3>2, JobAssumption
         DEF Jobs!StartAsync, Start, StartJob, Running
    <3> QED BY <3>3 DEF Jobs!Next
  <2>4. CASE k # ASYNC
    <3>1. Running[t] = NONE
      BY RunningIs DEF RunningJob, MayBegin
    <3>2. (Running[t] = k)'
      <4>1. RunningRight'
        BY RunningAllRight, PTL
      <4> QED BY <2>2, <2>4, <4>1 DEF RunningRight, MayBegin
    <3>3. Running' = [Running EXCEPT ![t] = k]
      BY <2>2, <3>2, RunningMoves
    <3>4. asyncJob' = asyncJob /\ mask' = mask
      BY <1>3, <2>4 DEF Start, StartJob
    <3>5. CASE k = NESTED
      <4>1. asyncJob # NONE \/ t \in Orphaned
        BY <3>5, JobAssumption DEF IInv, JobsOwned, MayBegin, Orphaned, HaveAsync
      <4>2. Jobs!StartNested(t)
        BY <2>1, <3>1, <3>3, <3>4, <3>5, <4>1 DEF Jobs!StartNested, Running
      <4> QED BY <4>2 DEF Jobs!Next
    <3>6. CASE k \in Kind /\ k # NESTED
      <4>1. asyncJob # NONE => k \in mask
        BY <1>3, <3>6 DEF Blocked, NestedJobAllowed
      <4>2. Jobs!Start(t, k)
        BY <2>1, <3>1, <3>3, <3>4, <4>1 DEF Jobs!Start, Running
      <4> QED BY <3>6, <4>2 DEF Jobs!Next
    <3> QED BY <2>4, <3>5, <3>6 DEF MayBegin, Job
  <2> QED BY <2>3, <2>4
<1> QED BY <1>1, <1>2, <1>3 DEF Outcome

LEMMA BeginJobs ==
  ASSUME IInv, IInv', NEW t \in Thread, NEW k \in Job, MayBegin(t, k),
         BeginJobInternal(t, k)
  PROVE  [Jobs!Next]_(Jobs!vars)
<1>1. CASE Retry(t, k, jobs_queued + 1, refs + 1)
  BY <1>1, RetryOutcome, OutcomeJobs
<1>2. CASE UNCHANGED <<jobVars, asyncVars, holds>>
  BY <1>2, QuietJobs
<1> QED BY <1>1, <1>2 DEF BeginJobInternal

(* The end of a job that the thread still has, and of one that it has not. *)
LEMMA EndJobs ==
  ASSUME IInv, IInv', NEW t \in Thread, EndJob(t)
  PROVE  Jobs!Finish(t)
<1>1. PICK k \in Job \ {ASYNC} :
           /\ holds[t] \ {ASYNC} = {k}
           /\ holds' = [holds EXCEPT ![t] = @ \ {k}]
           /\ t \notin Robbed => active = k /\ owner = t
           /\ Orphaned' = Orphaned
           /\ Robbed' = {u \in RunningJob : u # t}
  BY EndJobIs
<1>2. /\ \A u \in Thread : u # t => holds'[u] = holds[u]
      /\ holds'[t] \ {ASYNC} = {}
  BY <1>1 DEF IInv, TypeOK
<1>3. Running[t] # NONE
  BY <1>1, RunningIs DEF RunningJob
<1>4. (Running[t] = NONE)'
  BY <1>2 DEF Running, RunningOf
<1>5. Running' = [Running EXCEPT ![t] = NONE]
  BY <1>2, <1>4, RunningMoves
<1>6. Robbed' = {u \in Thread \ {t} : Running[u] # NONE}
  BY <1>1, RunningIs DEF RunningJob
<1>7. t \notin Robbed => Robbed' = Robbed
  <2>1. SUFFICES ASSUME t \notin Robbed PROVE Robbed' = Robbed
    OBVIOUS
  <2>2. owner = t
    BY <1>1, <2>1
  <2>3. \A u \in RunningJob : u # t => u \in Robbed
    BY <2>2 DEF Robbed, RunningJob
  <2> QED BY <1>1, <2>1, <2>3 DEF Robbed
<1> QED
  BY <1>1, <1>3, <1>5, <1>6, <1>7 DEF Jobs!Finish, Running, EndJob, asyncVars

(* A thread ends its asynchronous job, lets go of it or takes it over; one *)
(* that has lost it does so to whichever job is there.                     *)
LEMMA MoveJobs ==
  ASSUME IInv, IInv', NEW t \in Thread,
         EndAsyncJob(t) \/ ReleaseAsyncJob(t) \/ SetJobPhase(t)
  PROVE  [Jobs!Next]_(Jobs!vars)
<1>1. /\ Robbed' = Robbed
      /\ Orphaned' = (Orphaned \ {t}) \union ({asyncOwner} \ {t, NONE})
  BY EndAsyncMoves, ReleaseMoves, PhaseMoves
<1>2. \A u \in Thread : holds'[u] \ {ASYNC} = holds[u] \ {ASYNC}
  BY DEF EndAsyncJob, ReleaseAsyncJob, SetJobPhase, IInv, TypeOK
<1>3. Running' = Running
  BY <1>2, RunningSame
<1>4. asyncOwner \in Thread \union {NONE} /\ t # NONE
  BY JobAssumption DEF IInv, TypeOK
<1>5. CASE t \in Orphaned
  <2>1. Orphaned' \in Jobs!OneMore(Orphaned \ {t})
    <3>1. CASE asyncOwner \in {t, NONE}
      <4>1. Orphaned' = Orphaned \ {t}
        BY <1>1, <3>1
      <4> QED BY <4>1 DEF Jobs!OneMore
    <3>2. CASE asyncOwner \in Thread \ {t}
      <4>1. Orphaned' = (Orphaned \ {t}) \union {asyncOwner}
        BY <1>1, <3>2, JobAssumption
      <4> QED BY <3>2, <4>1 DEF Jobs!OneMore
    <3> QED BY <1>4, <3>1, <3>2
  <2>2. Jobs!EndsAsync \/ (asyncJob' = asyncJob /\ mask' = mask)
    BY DEF EndAsyncJob, ReleaseAsyncJob, SetJobPhase, ResetAsyncJob, Jobs!EndsAsync
  <2>3. Jobs!Meddle(t)
    BY <1>1, <1>3, <1>5, <2>1, <2>2 DEF Jobs!Meddle, Running
  <2> QED BY <2>3 DEF Jobs!Next
<1>6. CASE t \notin Orphaned
  <2>1. asyncOwner \in {t, NONE}
    BY <1>6, JobAssumption
       DEF EndAsyncJob, ReleaseAsyncJob, SetJobPhase, Released, Orphaned, HaveAsync
  <2>2. Orphaned' = Orphaned
    BY <1>1, <1>6, <2>1
  <2>3. CASE EndAsyncJob(t)
    <3>1. asyncOwner = t /\ asyncJob # NONE
      BY <1>4, <1>6, <2>3 DEF EndAsyncJob, Orphaned, HaveAsync, IInv, JobsOwned
    <3>2. \A u \in Thread : NESTED \in holds[u] => u \in Orphaned
      BY <2>3, <3>1, JobAssumption DEF EndAsyncJob, IInv, NestedUnderAsync
    <3>3. \A u \in Thread : Running[u] = NESTED => u \in Orphaned
      BY <3>2, RunningIs, JobAssumption DEF Job
    <3>4. Jobs!FinishAsync
      BY <1>1, <1>3, <2>2, <2>3, <3>1, <3>3
         DEF Jobs!FinishAsync, Jobs!EndsAsync, EndAsyncJob, ResetAsyncJob, Running
    <3> QED BY <3>4 DEF Jobs!Next
  <2>4. CASE ReleaseAsyncJob(t) \/ SetJobPhase(t)
    BY <1>1, <1>3, <2>2, <2>4, Stutter DEF ReleaseAsyncJob, SetJobPhase
  <2> QED BY <2>3, <2>4
<1> QED BY <1>5, <1>6

LEMMA DiscardJobs ==
  ASSUME IInv, DiscardAsyncJob
  PROVE  Jobs!Discard
<1>1. Running' = Running
  BY RunningSame DEF DiscardAsyncJob
<1>2. {t \in Thread : NESTED \in holds[t]} = {t \in Thread : Running[t] = NESTED}
  BY RunningIs, JobAssumption DEF Job
<1>3. Robbed' = Robbed \union {t \in Thread : Running[t] = NESTED}
  BY <1>2, DiscardTakes
<1>4. Orphaned' \in Jobs!OneMore(Orphaned)
  <2>1. CASE asyncOwner = NONE
    <3>1. Orphaned' = Orphaned
      BY <2>1, DiscardTakes
    <3> QED BY <3>1 DEF Jobs!OneMore
  <2>2. CASE asyncOwner \in Thread
    <3>1. Orphaned' = Orphaned \union {asyncOwner}
      BY <2>2, DiscardTakes, JobAssumption
    <3> QED BY <2>2, <3>1 DEF Jobs!OneMore
  <2> QED BY <2>1, <2>2 DEF IInv, TypeOK
<1> QED
  BY <1>1, <1>3, <1>4
     DEF Jobs!Discard, Jobs!EndsAsync, DiscardAsyncJob, ResetAsyncJob, Running

LEMMA NextJobs ==
  IInv /\ IInv' /\ [Next]_vars => [Jobs!Next]_(Jobs!vars)
<1> SUFFICES ASSUME IInv, IInv', [Next]_vars PROVE [Jobs!Next]_(Jobs!vars)
  OBVIOUS
<1>1. ASSUME NEW t \in Thread, NEW k \in Kind, BeginJob(t, k)
      PROVE  [Jobs!Next]_(Jobs!vars)
  BY <1>1, BeginJobs, JobAssumption DEF BeginJob, MayBegin, Job
<1>2. ASSUME NEW t \in Thread, BeginAsyncJob(t) \/ BeginNestedJob(t)
      PROVE  [Jobs!Next]_(Jobs!vars)
  BY <1>2, BeginJobs, JobAssumption DEF BeginAsyncJob, BeginNestedJob, MayBegin, Job
<1>3. ASSUME NEW t \in Thread, Resume(t)
      PROVE  [Jobs!Next]_(Jobs!vars)
  BY <1>3, ResumeOutcome, OutcomeJobs
<1>4. ASSUME NEW t \in Thread, Expire(t) \/ TimeOut(t) \/ Spurious(t)
      PROVE  [Jobs!Next]_(Jobs!vars)
  BY <1>4, QuietJobs DEF Expire, TimeOut, Spurious, GiveUp
<1>5. ASSUME NEW t \in Thread, EndJob(t)
      PROVE  [Jobs!Next]_(Jobs!vars)
  BY <1>5, EndJobs DEF Jobs!Next
<1>6. ASSUME NEW t \in Thread,
             EndAsyncJob(t) \/ ReleaseAsyncJob(t) \/ SetJobPhase(t)
      PROVE  [Jobs!Next]_(Jobs!vars)
  BY <1>6, MoveJobs
<1>7. ASSUME NEW t \in Thread, NEW ks \in SUBSET Kind, SetAsyncJobMask(t, ks)
      PROVE  [Jobs!Next]_(Jobs!vars)
  <2>1. Running' = Running
    BY <1>7, RunningSame DEF SetAsyncJobMask
  <2>2. Robbed' = Robbed /\ Orphaned' = Orphaned
    BY <1>7 DEF SetAsyncJobMask, Robbed, Orphaned, RunningJob, HaveAsync, jobVars
  <2>3. Jobs!Allow(ks)
    BY <1>7, <2>1, <2>2 DEF Jobs!Allow, SetAsyncJobMask, Running
  <2> QED BY <2>3 DEF Jobs!Next
<1>8. ASSUME DiscardAsyncJob
      PROVE  [Jobs!Next]_(Jobs!vars)
  BY <1>8, DiscardJobs DEF Jobs!Next
<1>9. CASE UNCHANGED vars
  BY <1>9, QuietJobs DEF vars
<1> QED
  BY <1>1, <1>2, <1>3, <1>4, <1>5, <1>6, <1>7, <1>8, <1>9 DEF Next

LEMMA InitJobs == Init => Jobs!Init
<1> SUFFICES ASSUME Init PROVE Jobs!Init
  OBVIOUS
<1>1. \A t \in Thread : RunningOf(t) = NONE
  BY DEF Init, RunningOf
<1>2. Robbed = {} /\ Orphaned = {}
  BY DEF Init, Robbed, Orphaned, RunningJob, HaveAsync
<1> QED BY <1>1, <1>2 DEF Init, Jobs!Init

(* The domain starts one job at a time and beside an asynchronous job only *)
(* those its mask allows; waits, wake-ups, time-outs and failures are      *)
(* invisible (BeginJobInternal and its recheck).  A discard under a nested *)
(* job takes what DomainJobs says it takes, and so does each thread that   *)
(* ends a job it has lost.                                                 *)
THEOREM JobControlImplements == Safety => ImplementsJobs
BY SafetyInv, InitJobs, NextJobs, PTL DEF Safety, ImplementsJobs, Jobs!Spec
-----------------------------------------------------------------------------
(***************************************************************************)
(* The counts.  A step moves at most one thread into or out of the sets    *)
(* that Inside counts.                                                     *)
(***************************************************************************)
Unowned == IF Released THEN 1 ELSE 0

LEMMA FiniteCounts ==
  /\ IsFiniteSet(Waiting) /\ Cardinality(Waiting) \in Nat
  /\ IsFiniteSet(RunningJob) /\ Cardinality(RunningJob) \in Nat
  /\ IsFiniteSet(HaveAsync) /\ Cardinality(HaveAsync) \in Nat
  /\ Inside \in Nat
BY FS_Subset, FS_CardinalityType, JobAssumption
   DEF Waiting, RunningJob, HaveAsync, Inside

LEMMA EnterLeave ==
  ASSUME NEW S, IsFiniteSet(S), NEW t
  PROVE  /\ t \notin S => Cardinality(S \union {t}) = Cardinality(S) + 1
         /\ t \in S => Cardinality(S \ {t}) = Cardinality(S) - 1
BY FS_AddElement, FS_RemoveElement

\* The counts as numbers: what a step adds to the parts it adds to the count.
LEMMA BalanceMoves ==
  ASSUME IInv, CountsBalance, NEW w \in Int, NEW r \in Int, NEW a \in Int,
         NEW l \in Int,
         Cardinality(Waiting)' = Cardinality(Waiting) + w,
         Cardinality(RunningJob)' = Cardinality(RunningJob) + r,
         Cardinality(HaveAsync)' + Unowned' = Cardinality(HaveAsync) + Unowned + a,
         failed' = failed, lost' = lost + l,
         jobs_queued' = jobs_queued + (w + r + a + l),
         refs' = refs + (w + r + a + l)
  PROVE  CountsBalance'
<1>1. /\ Cardinality(Waiting) \in Nat /\ Cardinality(RunningJob) \in Nat
      /\ Cardinality(HaveAsync) \in Nat /\ Unowned \in Nat
      /\ failed \in Nat /\ lost \in Nat
  BY FiniteCounts DEF Unowned, IInv, TypeOK
<1>2. Inside = Cardinality(Waiting) + Cardinality(RunningJob) + Cardinality(HaveAsync) + Unowned
  BY DEF Inside, Unowned
<1>3. Inside' = Cardinality(Waiting)' + Cardinality(RunningJob)'
                  + Cardinality(HaveAsync)' + Unowned'
  BY DEF Inside, Unowned
<1>4. Cardinality(HaveAsync)' \in Nat /\ Unowned' \in Nat
  <2>1. IsFiniteSet(HaveAsync') /\ Cardinality(HaveAsync') \in Nat
    BY FS_Subset, FS_CardinalityType, JobAssumption DEF HaveAsync
  <2> QED BY <2>1 DEF Unowned
<1>5. Inside' = Inside + (w + r + a)
  BY <1>1, <1>2, <1>3, <1>4
<1>6. Inside \in Nat
  BY FiniteCounts
<1> QED BY <1>1, <1>5, <1>6 DEF CountsBalance

\* A call that is new is counted before it is anywhere.
New(t) == IF Idle(t) THEN 1 ELSE 0

LEMMA WaitingMoves ==
  ASSUME NEW t \in Thread
  PROVE  /\ New(t) \in Nat
         /\ Cardinality(Waiting \ {t}) = Cardinality(Waiting) + (New(t) - 1)
         /\ Cardinality(Waiting \union {t}) = Cardinality(Waiting) + New(t)
<1> DEFINE W == Waiting
<1>1. IsFiniteSet(W) /\ Cardinality(W) \in Nat
  BY FiniteCounts
<1>2. CASE Idle(t)
  <2>1. t \notin W /\ New(t) = 1
    BY <1>2 DEF Idle, Waiting, New
  <2>2. W \ {t} = W
    BY <2>1
  <2>3. Cardinality(W \ {t}) = Cardinality(W)
    BY <2>2
  <2>4. Cardinality(W \union {t}) = Cardinality(W) + 1
    BY <1>1, <2>1, EnterLeave
  <2> HIDE DEF W
  <2> QED BY <1>1, <2>1, <2>3, <2>4 DEF W
<1>3. CASE ~Idle(t)
  <2>1. t \in W /\ New(t) = 0
    BY <1>3 DEF Idle, Waiting, New
  <2>2. W \union {t} = W
    BY <2>1
  <2>3. Cardinality(W \union {t}) = Cardinality(W)
    BY <2>2
  <2>4. Cardinality(W \ {t}) = Cardinality(W) - 1
    BY <1>1, <2>1, EnterLeave
  <2> HIDE DEF W
  <2> QED BY <1>1, <2>1, <2>3, <2>4 DEF W
<1> QED BY <1>2, <1>3

LEMMA OutcomeCounts ==
  ASSUME IInv, CountsBalance, UNCHANGED faults, NEW t \in Thread, NEW k,
         NEW q, NEW r, q = jobs_queued + New(t), r = refs + New(t),
         MayBegin(t, k), Outcome(t, k, q, r)
  PROVE  CountsBalance' /\ jobs_queued' \in {q, q - 1}
<1>1. /\ jobs_queued \in Int /\ refs \in Int /\ lost \in Nat /\ New(t) \in Int
      /\ failed' = failed /\ lost' = lost + 0
  BY DEF faults, IInv, TypeOK, New
<1>2. /\ Cardinality(RunningJob) \in Nat /\ Cardinality(HaveAsync) \in Nat
      /\ Unowned \in Nat
  BY FiniteCounts DEF Unowned
<1>3. ASSUME Waiting' = Waiting \ {t}, NEW n \in {0, 1},
             jobs_queued' = q - 1 + n, refs' = r - 1 + n,
             \/ /\ Cardinality(RunningJob)' = Cardinality(RunningJob) + n
                /\ Cardinality(HaveAsync)' + Unowned' = Cardinality(HaveAsync) + Unowned + 0
             \/ /\ Cardinality(RunningJob)' = Cardinality(RunningJob) + 0
                /\ Cardinality(HaveAsync)' + Unowned' = Cardinality(HaveAsync) + Unowned + n
      PROVE  CountsBalance' /\ jobs_queued' \in {q, q - 1}
  <2>1. Cardinality(Waiting)' = Cardinality(Waiting) + (New(t) - 1)
    BY <1>3, WaitingMoves
  <2>2. /\ jobs_queued' = jobs_queued + ((New(t) - 1) + n + 0 + 0)
        /\ jobs_queued' = jobs_queued + ((New(t) - 1) + 0 + n + 0)
        /\ refs' = refs + ((New(t) - 1) + n + 0 + 0)
        /\ refs' = refs + ((New(t) - 1) + 0 + n + 0)
        /\ New(t) - 1 \in Int /\ n \in Int /\ 0 \in Int
    BY <1>1, <1>3
  <2>3. CountsBalance'
    BY <1>1, <1>3, <2>1, <2>2, BalanceMoves
  <2> QED BY <1>1, <1>3, <2>3
<1>4. CASE UNCHANGED <<asyncVars, holds>>
  <2>1. RunningJob' = RunningJob /\ HaveAsync' = HaveAsync /\ Unowned' = Unowned
    BY <1>4 DEF RunningJob, HaveAsync, Unowned, Released, asyncVars
  <2>2. /\ Cardinality(RunningJob)' = Cardinality(RunningJob) + 0
        /\ Cardinality(HaveAsync)' + Unowned' = Cardinality(HaveAsync) + Unowned + 0
    BY <1>2, <2>1
  <2>3. CASE GiveUp(t, q, r)
    <3>1. Waiting' = Waiting \ {t} /\ jobs_queued' = q - 1 + 0 /\ refs' = r - 1 + 0
      BY <1>1, <2>3 DEF GiveUp, Return, Waiting, IInv, TypeOK
    <3> QED BY <1>3, <2>2, <3>1
  <2>4. CASE Wait(t, k, "asyncCond", q, r) \/ Wait(t, k, "cond", q, r)
    <3>1. Waiting' = Waiting \union {t} /\ jobs_queued' = q /\ refs' = r
      BY <2>4 DEF Wait, Waiting, IInv, TypeOK
    <3>2. Cardinality(Waiting)' = Cardinality(Waiting) + New(t)
      BY <3>1, WaitingMoves
    <3>3. /\ jobs_queued' = jobs_queued + (New(t) + 0 + 0 + 0)
          /\ refs' = refs + (New(t) + 0 + 0 + 0)
          /\ 0 \in Int
      BY <1>1, <3>1
    <3>4. CountsBalance'
      BY <1>1, <2>2, <3>2, <3>3, BalanceMoves
    <3> QED BY <3>1, <3>4
  <2>5. CASE Start(t, k, q, r)
    <3>1. k \in holds[t]
      BY <1>4, <2>5 DEF Start, IInv, TypeOK
    <3> QED BY <3>1, JobAssumption DEF MayBegin
  <2> QED BY <2>3, <2>4, <2>5 DEF Outcome
<1>5. CASE active = NONE /\ ~Blocked(k) /\ Start(t, k, q, r)
  <2>1. Waiting' = Waiting \ {t} /\ jobs_queued' = q - 1 + 1 /\ refs' = r - 1 + 1
    BY <1>1, <1>5 DEF Start, Return, Waiting, IInv, TypeOK
  <2>2. CASE k = ASYNC
    <3>1. RunningJob' = RunningJob
      BY <1>5, <2>2 DEF RunningJob, Start, IInv, TypeOK
    <3>2. HaveAsync' = HaveAsync \union {t} /\ t \notin HaveAsync
      BY <1>5, <2>2, JobAssumption DEF HaveAsync, Start, MayBegin, IInv, TypeOK
    <3>3. Unowned' = 0 /\ Unowned = 0
      BY <1>5, <2>2, NoJobFree, JobAssumption DEF Unowned, Released, Start, StartJob
    <3>4. Cardinality(HaveAsync)' = Cardinality(HaveAsync) + 1
      BY <3>2, FiniteCounts, EnterLeave
    <3>5. /\ Cardinality(HaveAsync)' + Unowned' = Cardinality(HaveAsync) + Unowned + 1
          /\ Cardinality(RunningJob)' = Cardinality(RunningJob) + 0
      BY <1>2, <3>1, <3>3, <3>4
    <3> QED BY <1>3, <2>1, <3>5
  <2>3. CASE k # ASYNC
    <3>1. RunningJob' = RunningJob \union {t} /\ t \notin RunningJob
      BY <1>5, <2>3 DEF RunningJob, Start, IInv, TypeOK, MayBegin
    <3>2. HaveAsync' = HaveAsync /\ Unowned' = Unowned
      BY <1>5, <2>3 DEF HaveAsync, Unowned, Released, Start, StartJob, IInv, TypeOK
    <3>3. Cardinality(RunningJob)' = Cardinality(RunningJob) + 1
      BY <3>1, FiniteCounts, EnterLeave
    <3>4. Cardinality(HaveAsync)' + Unowned' = Cardinality(HaveAsync) + Unowned + 0
      BY <1>2, <3>2
    <3> QED BY <1>3, <2>1, <3>3, <3>4
  <2> QED BY <2>2, <2>3
<1> QED BY <1>4, <1>5 DEF Outcome, GiveUp, Wait

\* The failure of the clock is the only count beside those of calls inside.
LimitKept == MaxQueued > 0 => jobs_queued - failed <= MaxQueued

LEMMA SameInside ==
  ASSUME CountsBalance, LimitKept, UNCHANGED <<pc, jobs_queued, refs, faults>>,
         UNCHANGED <<holds, asyncJob, asyncOwner>>
  PROVE  CountsBalance' /\ LimitKept'
<1>1. Inside' = Inside
  BY DEF Inside, Waiting, RunningJob, HaveAsync, Released
<1> QED BY <1>1 DEF CountsBalance, LimitKept, faults

LEMMA BeginCounts ==
  ASSUME IInv, CountsBalance, LimitKept, NEW t \in Thread, NEW k \in Job, Idle(t),
         MayBegin(t, k), BeginJobInternal(t, k)
  PROVE  CountsBalance' /\ LimitKept'
<1> DEFINE q == jobs_queued + 1
           r == refs + 1
<1>1. /\ q = jobs_queued + New(t) /\ r = refs + New(t)
      /\ jobs_queued \in Int /\ failed \in Nat /\ lost \in Nat /\ refs \in Int
      /\ MaxQueued \in Nat /\ Inside \in Nat
  BY FiniteCounts, JobAssumption DEF New, IInv, TypeOK
<1>2. CASE Retry(t, k, q, r) /\ UNCHANGED faults
  <2>1. Outcome(t, k, q, r)
    BY <1>2, RetryOutcome
  <2>2. CountsBalance' /\ jobs_queued' \in {q, q - 1} /\ failed' = failed
    BY <1>1, <1>2, <2>1, OutcomeCounts DEF faults
  <2>3. CASE OverLimit(q)
    <3>1. jobs_queued' = q - 1
      BY <1>2, <2>3 DEF Retry, GiveUp
    <3>2. LimitKept'
      BY <1>1, <2>2, <3>1 DEF LimitKept
    <3> QED BY <2>2, <3>2
  <2>4. CASE ~OverLimit(q)
    <3>1. LimitKept'
      <4>1. jobs_queued' = q \/ jobs_queued' = q - 1
        BY <2>2
      <4>2. failed' = failed
        BY <2>2
      <4> QED BY <1>1, <2>4, <4>1, <4>2 DEF OverLimit, LimitKept
    <3> QED BY <2>2, <3>1
  <2> QED BY <2>3, <2>4
<1>3. CASE /\ jobs_queued' = jobs_queued + 1
           /\ failed' = failed + 1
           /\ UNCHANGED <<jobVars, asyncVars, refs, waitVars, holds, lost, undercut>>
  <2>1. Inside' = Inside /\ refs' = refs /\ lost' = lost
    BY <1>3 DEF Inside, Waiting, RunningJob, HaveAsync, Released, asyncVars, waitVars
  <2> QED BY <1>1, <1>3, <2>1 DEF CountsBalance, LimitKept
<1> QED BY <1>2, <1>3 DEF BeginJobInternal

LEMMA WaiterCounts ==
  ASSUME IInv, CountsBalance, LimitKept, UNCHANGED faults, NEW t \in Thread, ~Idle(t),
         MayBegin(t, want[t]), Outcome(t, want[t], jobs_queued, refs)
  PROVE  CountsBalance' /\ LimitKept'
<1>1. /\ jobs_queued = jobs_queued + New(t) /\ refs = refs + New(t)
      /\ jobs_queued \in Int /\ failed \in Nat /\ MaxQueued \in Nat
  BY JobAssumption DEF New, IInv, TypeOK
<1>2. CountsBalance' /\ jobs_queued' \in {jobs_queued, jobs_queued - 1}
  BY <1>1, OutcomeCounts
<1>3. LimitKept'
  <2>1. jobs_queued' = jobs_queued \/ jobs_queued' = jobs_queued - 1
    BY <1>2
  <2>2. failed' = failed
    BY DEF faults
  <2> QED BY <1>1, <2>1, <2>2 DEF LimitKept
<1> QED BY <1>2, <1>3

(* The end of a job gives one back, whosever job it ends.                  *)
LEMMA EndCounts ==
  ASSUME IInv, CountsBalance, LimitKept, NEW t \in Thread, EndJob(t)
  PROVE  CountsBalance' /\ LimitKept'
<1>1. PICK k \in Job \ {ASYNC} :
           /\ holds[t] \ {ASYNC} = {k}
           /\ holds' = [holds EXCEPT ![t] = @ \ {k}]
  BY EndJobIs
<1>2. t \in RunningJob /\ RunningJob' = RunningJob \ {t}
  BY <1>1 DEF RunningJob, IInv, TypeOK
<1>3. HaveAsync' = HaveAsync /\ Unowned' = Unowned /\ Waiting' = Waiting
  BY <1>1 DEF HaveAsync, Unowned, Released, Waiting, EndJob, asyncVars, IInv, TypeOK
<1>4. Cardinality(RunningJob)' = Cardinality(RunningJob) + (-1)
  <2>1. Cardinality(RunningJob)' = Cardinality(RunningJob) - 1
    BY <1>2, FiniteCounts, EnterLeave
  <2> QED BY <2>1, FiniteCounts
<1>5. /\ jobs_queued \in Int /\ refs \in Int /\ failed \in Nat /\ lost \in Nat
      /\ MaxQueued \in Nat /\ Cardinality(Waiting) \in Nat
      /\ Cardinality(HaveAsync) \in Nat /\ Unowned \in Nat
  BY FiniteCounts, JobAssumption DEF IInv, TypeOK, Unowned
<1>6. /\ Cardinality(HaveAsync)' + Unowned' = Cardinality(HaveAsync) + Unowned + 0
      /\ Cardinality(Waiting)' = Cardinality(Waiting) + 0
  BY <1>3, <1>5
<1>7. /\ jobs_queued' = jobs_queued + (-1) /\ refs' = refs + (-1)
      /\ failed' = failed /\ lost' = lost + 0
  BY <1>5 DEF EndJob, faults
<1>8. CountsBalance'
  BY <1>4, <1>6, <1>7, BalanceMoves
<1> QED BY <1>5, <1>7, <1>8 DEF LimitKept

(* Ending, letting go of, taking over and discarding the asynchronous job: *)
(* what the sets lose and the counts do not is lost.                       *)
LEMMA AsyncCounts ==
  ASSUME IInv, CountsBalance, LimitKept, NEW a \in Int, NEW l \in Int,
         UNCHANGED <<pc, failed>>, RunningJob' = RunningJob,
         Cardinality(HaveAsync)' + Unowned' = Cardinality(HaveAsync) + Unowned + a,
         lost' = lost + l, jobs_queued' = jobs_queued + (a + l),
         refs' = refs + (a + l), a + l <= 0
  PROVE  CountsBalance' /\ LimitKept'
<1>1. /\ Cardinality(Waiting)' = Cardinality(Waiting) + 0
      /\ Cardinality(RunningJob)' = Cardinality(RunningJob) + 0
      /\ jobs_queued \in Int /\ failed \in Nat /\ MaxQueued \in Nat /\ refs \in Int
  BY FiniteCounts, JobAssumption DEF Waiting, IInv, TypeOK
<1>2. CountsBalance'
  BY <1>1, BalanceMoves
<1> QED BY <1>1, <1>2 DEF LimitKept

LEMMA LeaveAsync ==
  ASSUME IInv, NEW t \in Thread, holds[t] = {ASYNC},
         holds' = [holds EXCEPT ![t] = {}]
  PROVE  /\ RunningJob' = RunningJob
         /\ Cardinality(HaveAsync)' = Cardinality(HaveAsync) - 1
<1>1. RunningJob' = RunningJob
  BY DEF RunningJob, IInv, TypeOK
<1>2. t \in HaveAsync /\ HaveAsync' = HaveAsync \ {t}
  BY DEF HaveAsync, IInv, TypeOK
<1> QED BY <1>1, <1>2, FiniteCounts, EnterLeave

LEMMA MoveCounts ==
  ASSUME IInv, CountsBalance, LimitKept,
         \/ \E t \in Thread : EndAsyncJob(t) \/ ReleaseAsyncJob(t) \/ SetJobPhase(t)
         \/ DiscardAsyncJob
  PROVE  CountsBalance' /\ LimitKept'
<1>0. /\ jobs_queued \in Int /\ refs \in Int /\ failed \in Nat /\ lost \in Nat
      /\ Cardinality(HaveAsync) \in Nat /\ Unowned \in {0, 1}
  BY FiniteCounts DEF IInv, TypeOK, Unowned
<1>1. ASSUME NEW t \in Thread, EndAsyncJob(t)
      PROVE  CountsBalance' /\ LimitKept'
  <2>1. Unowned' = 0
    BY <1>1 DEF EndAsyncJob, ResetAsyncJob, Unowned, Released
  <2>2. lost' = lost + Unowned
    BY <1>0, <1>1 DEF EndAsyncJob, LostIf, Unowned
  <2>3. /\ RunningJob' = RunningJob
        /\ Cardinality(HaveAsync)' = Cardinality(HaveAsync) - 1
    BY <1>1, LeaveAsync DEF EndAsyncJob
  <2>4. Cardinality(HaveAsync)' + Unowned' = Cardinality(HaveAsync) + Unowned + (-1 - Unowned)
    BY <1>0, <2>1, <2>3
  <2>5. /\ jobs_queued' = jobs_queued + ((-1 - Unowned) + Unowned)
        /\ refs' = refs + ((-1 - Unowned) + Unowned)
        /\ UNCHANGED <<pc, failed>>
    BY <1>0, <1>1 DEF EndAsyncJob
  <2> QED BY <1>0, <2>2, <2>3, <2>4, <2>5, AsyncCounts
<1>2. ASSUME NEW t \in Thread, ReleaseAsyncJob(t)
      PROVE  CountsBalance' /\ LimitKept'
  <2>1. /\ RunningJob' = RunningJob
        /\ Cardinality(HaveAsync)' = Cardinality(HaveAsync) - 1
    BY <1>2, LeaveAsync DEF ReleaseAsyncJob
  <2>2. /\ jobs_queued' = jobs_queued + 0 /\ refs' = refs + 0
        /\ UNCHANGED <<pc, failed>>
    BY <1>0, <1>2 DEF ReleaseAsyncJob, waitVars
  <2>3. CASE asyncOwner = NONE
    <3>1. lost' = lost + 1 /\ Unowned' = Unowned
      BY <1>2, <2>3 DEF ReleaseAsyncJob, LostIf, Unowned, Released
    <3>2. Cardinality(HaveAsync)' + Unowned' = Cardinality(HaveAsync) + Unowned + (-1)
      BY <1>0, <2>1, <3>1
    <3> QED BY <2>1, <2>2, <3>1, <3>2, AsyncCounts
  <2>4. CASE asyncOwner # NONE
    <3>1. lost' = lost + 0 /\ Unowned' = 1 /\ Unowned = 0
      BY <1>0, <1>2, <2>4
         DEF ReleaseAsyncJob, LostIf, Unowned, Released, IInv, JobsOwned
    <3>2. Cardinality(HaveAsync)' + Unowned' = Cardinality(HaveAsync) + Unowned + 0
      BY <1>0, <2>1, <3>1
    <3> QED BY <2>1, <2>2, <3>1, <3>2, AsyncCounts
  <2> QED BY <2>3, <2>4
<1>3. ASSUME NEW t \in Thread, SetJobPhase(t)
      PROVE  CountsBalance' /\ LimitKept'
  <2>1. /\ jobs_queued' = jobs_queued + 0 /\ refs' = refs + 0
        /\ UNCHANGED <<pc, failed>>
    BY <1>0, <1>3 DEF SetJobPhase, waitVars
  <2>2. Unowned' = 0
    BY <1>3, JobAssumption DEF SetJobPhase, Unowned, Released
  <2>3. RunningJob' = RunningJob
    BY <1>3 DEF SetJobPhase, RunningJob, IInv, TypeOK
  <2>4. CASE ASYNC \in holds[t]
    <3>1. HaveAsync' = HaveAsync
      BY <1>3, <2>4 DEF SetJobPhase, HaveAsync, IInv, TypeOK
    <3>2. lost' = lost + Unowned
      BY <1>0, <1>3, <2>4 DEF SetJobPhase, LostIf, Unowned
    <3>3. Cardinality(HaveAsync)' + Unowned' = Cardinality(HaveAsync) + Unowned + (0 - Unowned)
      BY <1>0, <2>2, <3>1
    <3>4. /\ jobs_queued' = jobs_queued + ((0 - Unowned) + Unowned)
          /\ refs' = refs + ((0 - Unowned) + Unowned)
      BY <1>0, <2>1
    <3> QED BY <1>0, <2>1, <2>3, <3>2, <3>3, <3>4, AsyncCounts
  <2>5. CASE ASYNC \notin holds[t]
    <3>1. t \notin HaveAsync /\ HaveAsync' = HaveAsync \union {t} /\ Unowned = 1
      BY <1>3, <2>5 DEF SetJobPhase, HaveAsync, Unowned, IInv, TypeOK
    <3>2. lost' = lost + 0
      BY <1>0, <1>3, <2>5 DEF SetJobPhase, LostIf
    <3>3. Cardinality(HaveAsync)' = Cardinality(HaveAsync) + 1
      BY <3>1, FiniteCounts, EnterLeave
    <3>4. Cardinality(HaveAsync)' + Unowned' = Cardinality(HaveAsync) + Unowned + 0
      BY <1>0, <2>2, <3>1, <3>3
    <3> QED BY <2>1, <2>3, <3>2, <3>4, AsyncCounts
  <2> QED BY <2>4, <2>5
<1>4. ASSUME DiscardAsyncJob
      PROVE  CountsBalance' /\ LimitKept'
  <2>1. Unowned' = 0
    BY <1>4 DEF DiscardAsyncJob, ResetAsyncJob, Unowned, Released
  <2>2. lost' = lost + Unowned
    BY <1>0, <1>4 DEF DiscardAsyncJob, LostIf, Unowned
  <2>3. RunningJob' = RunningJob /\ HaveAsync' = HaveAsync
    BY <1>4 DEF DiscardAsyncJob, RunningJob, HaveAsync
  <2>4. Cardinality(HaveAsync)' + Unowned' = Cardinality(HaveAsync) + Unowned + (0 - Unowned)
    BY <1>0, <2>1, <2>3
  <2>5. /\ jobs_queued' = jobs_queued + ((0 - Unowned) + Unowned)
        /\ refs' = refs + ((0 - Unowned) + Unowned)
        /\ UNCHANGED <<pc, failed>>
    BY <1>0, <1>4 DEF DiscardAsyncJob, waitVars
  <2> QED BY <1>0, <2>2, <2>3, <2>4, <2>5, AsyncCounts
<1> QED BY <1>1, <1>2, <1>3, <1>4

LEMMA NextCounts ==
  IInv /\ CountsBalance /\ LimitKept /\ [Next]_vars => CountsBalance' /\ LimitKept'
<1> SUFFICES ASSUME IInv, CountsBalance, LimitKept, [Next]_vars
             PROVE  CountsBalance' /\ LimitKept'
  OBVIOUS
<1>1. ASSUME NEW t \in Thread, NEW k \in Kind, BeginJob(t, k)
      PROVE  CountsBalance' /\ LimitKept'
  BY <1>1, BeginCounts, JobAssumption DEF BeginJob, MayBegin, Job
<1>2. ASSUME NEW t \in Thread, BeginAsyncJob(t) \/ BeginNestedJob(t)
      PROVE  CountsBalance' /\ LimitKept'
  BY <1>2, BeginCounts, JobAssumption DEF BeginAsyncJob, BeginNestedJob, MayBegin, Job
<1>3. ASSUME NEW t \in Thread, Resume(t)
      PROVE  CountsBalance' /\ LimitKept'
  BY <1>3, ResumeOutcome, WaiterCounts DEF Resume
<1>4. ASSUME NEW t \in Thread, TimeOut(t)
      PROVE  CountsBalance' /\ LimitKept'
  <2>1. MayBegin(t, want[t]) /\ Outcome(t, want[t], jobs_queued, refs)
    BY <1>4 DEF IInv, WaitersHold, TimeOut, MayBegin, Outcome, Idle
  <2> QED BY <1>4, <2>1, WaiterCounts DEF TimeOut
<1>5. ASSUME NEW t \in Thread, Expire(t) \/ Spurious(t)
      PROVE  CountsBalance' /\ LimitKept'
  BY <1>5, SameInside DEF Expire, Spurious, asyncVars
<1>6. ASSUME NEW t \in Thread, EndJob(t)
      PROVE  CountsBalance' /\ LimitKept'
  BY <1>6, EndCounts
<1>7. ASSUME NEW t \in Thread, NEW ks \in SUBSET Kind, SetAsyncJobMask(t, ks)
      PROVE  CountsBalance' /\ LimitKept'
  BY <1>7, SameInside DEF SetAsyncJobMask, waitVars
<1>8. ASSUME \/ \E t \in Thread : EndAsyncJob(t) \/ ReleaseAsyncJob(t) \/ SetJobPhase(t)
             \/ DiscardAsyncJob
      PROVE  CountsBalance' /\ LimitKept'
  BY <1>8, MoveCounts
<1>9. CASE UNCHANGED vars
  BY <1>9, SameInside DEF vars, asyncVars, waitVars
<1> QED
  BY <1>1, <1>2, <1>3, <1>4, <1>5, <1>6, <1>7, <1>8, <1>9 DEF Next

LEMMA InitCounts == Init => CountsBalance /\ LimitKept
<1> SUFFICES ASSUME Init PROVE CountsBalance /\ LimitKept
  OBVIOUS
<1>1. Waiting = {} /\ RunningJob = {} /\ HaveAsync = {} /\ ~Released
  BY DEF Init, Waiting, RunningJob, HaveAsync, Released
<1>2. Inside = 0
  BY <1>1, FS_EmptySet DEF Inside
<1> QED BY <1>2, JobAssumption DEF Init, CountsBalance, LimitKept

(* jobs_queued and the references are given back on every path but two:    *)
(* the call that cannot read the clock, and the asynchronous job that was  *)
(* released and then taken from all by a discard or another's end.         *)
THEOREM CountsAlwaysBalance == Safety => []CountsBalance
BY SafetyInv, InitCounts, NextCounts, PTL DEF Safety

(* No order of waits and retries lets more calls in than the limit.        *)
THEOREM LimitAlwaysKept == Safety => []WithinLimit
<1>1. IInv /\ CountsBalance /\ LimitKept => WithinLimit
  BY FiniteCounts, JobAssumption DEF IInv, TypeOK, CountsBalance, LimitKept, WithinLimit
<1>2. Safety => [](CountsBalance /\ LimitKept)
  BY SafetyInv, InitCounts, NextCounts, PTL DEF Safety
<1> QED BY <1>1, <1>2, SafetyInv, PTL
=============================================================================
