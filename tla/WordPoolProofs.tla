---------------------------- MODULE WordPoolProofs ----------------------------
(***************************************************************************)
(* Proofs about WordPool, for any number of workers and any files: who may *)
(* touch a buffer, what is in the queue, and that every block is parsed    *)
(* exactly once before main sorts, alone.                                  *)
(***************************************************************************)
EXTENDS WordPool, FiniteSetTheorems, SequenceTheorems, TLAPS

----------------------------------------------------------------------------
(* The inductive invariant                                                 *)

Starting == {"one", "many", "few", "rest"}
Serving == {"wait", "lock", "pop", "fill", "keep", "post"}
Ending == {"out", "wake", "collect", "sort", "sorting", "done"}
Labels == {"none", "parse", "clear", "lock", "push", "unlock", "post", "wait",
           "woken", "exit", "last", "gone"}

\* The types of the variables that the threads use to talk to each other.
Types ==
  /\ main \in Starting \union Serving \union Ending \union {"failed"}
  /\ i \in 1 .. N + 1 /\ worker \in 0..N /\ out_of_data_local \in BOOLEAN
  /\ pc \in [Worker -> Labels]
  /\ thread_queue \in Seq(Worker) /\ lock \in BOOLEAN
  /\ waiters \in Nat /\ sem \in [Worker -> Nat] /\ keep_alive \in [Worker -> BOOLEAN]

\* The spin lock is held by one thread at most.
Holding == {w \in Worker : pc[w] \in {"push", "unlock"}}
LockInv ==
  /\ lock <=> main \in {"pop", "sorting", "done"} \/ Holding # {}
  /\ \A w, u \in Holding : w = u
  /\ main \in {"pop", "sorting", "done"} => Holding = {}

\* Main starts the workers in their order.
StartInv ==
  /\ main \in Starting => i \in 1..N /\ \A w \in Worker : pc[w] = "none" <=> w >= i
  /\ main = "wake" => i \in 1..N

\* A worker in the queue has nothing to do, and is in it once.
InQueue(w) == \E k \in 1 .. Len(thread_queue) : thread_queue[k] = w
QueueInv ==
  /\ \A k1, k2 \in 1 .. Len(thread_queue) : thread_queue[k1] = thread_queue[k2] => k1 = k2
  /\ \A w \in Worker : InQueue(w) =>
       /\ pc[w] \in {"unlock", "post", "wait", "woken", "exit", "last", "gone"}
       /\ ~keep_alive[w]
       /\ main \in {"fill", "keep", "post"} => w # worker

\* keep_alive says that a worker has got a block and has not parsed it.
KeepInv == \A w \in Worker : keep_alive[w] => pc[w] \in {"post", "wait", "woken", "parse", "clear"}

\* The worker that main has popped waits, or is about to.
PopInv == main \in {"fill", "keep", "post"} =>
  /\ worker \in Worker /\ pc[worker] \in {"post", "wait"} /\ sem[worker] = 0
  /\ keep_alive[worker] <=> main = "post"

\* Until main is out of data it wakes only workers that it has given a block.
SemInv == main \in Starting \union Serving => \A w \in Worker :
  /\ sem[w] \in {0, 1} /\ pc[w] \notin {"exit", "last", "gone"}
  /\ sem[w] = 1 => keep_alive[w] /\ pc[w] \in {"post", "wait"}
  /\ pc[w] = "woken" => keep_alive[w]

Control == Types /\ LockInv /\ StartInv /\ QueueInv /\ KeepInv /\ PopInv /\ SemInv

\* Until then, too, main_thread_waiters counts the queue.
Posting == {w \in Worker : pc[w] \in {"unlock", "post"}}
CountInv == main \in Starting \union Serving =>
  Len(thread_queue) = waiters + Cardinality(Posting) + (IF main \in {"lock", "pop"} THEN 1 ELSE 0)

\* live_threads counts the threads; main sorts when there are none.
Live == {w \in Worker : pc[w] \notin {"none", "last", "gone"}}
LiveInv == /\ live_threads = Cardinality(Live)
           /\ main \in {"sort", "sorting", "done"} => live_threads = 0

\* The files are read in order, and those with data left are in the queue.
HasData == {f \in File : remaining[f] > 0}
Spells(q, c, r) ==
  /\ \A k1, k2 \in 1 .. Len(q) : q[k1] = q[k2] => k1 = k2
  /\ \A f \in File : (\E k \in 1 .. Len(q) : q[k] = f) <=> f <= c /\ r[f] > 0
QueueExact == Spells(fileinfo_queue, current_file, remaining)
MoreData == \/ main \in {"rest", "wait", "lock", "pop", "fill"}
            \/ main \in {"keep", "post"} /\ ~out_of_data_local
NoData == \/ main \in Ending
          \/ main \in {"keep", "post"} /\ out_of_data_local
FileTypes ==
  /\ blocks \in Inputs /\ remaining \in [File -> Nat] /\ current_file \in 0..NumFiles
  /\ fileinfo_queue \in Seq(File)
  /\ \A f \in File : remaining[f] <= blocks[f]
FileInv ==
  /\ FileTypes
  /\ \A f \in File : f > current_file => remaining[f] = blocks[f]
  /\ Len(fileinfo_queue) <= N + 1
  /\ main = "one" => NumFiles = 1 /\ current_file = 1 /\ remaining[1] > 0 /\ fileinfo_queue = <<>>
  /\ main = "many" => NumFiles >= N /\ current_file = i - 1 /\ Len(fileinfo_queue) < i /\ QueueExact
  /\ main = "few" => /\ NumFiles < N /\ current_file = i - 1 /\ current_file < NumFiles
                     /\ Len(fileinfo_queue) < i /\ QueueExact
  /\ main = "rest" => current_file = NumFiles
  /\ MoreData => fileinfo_queue # <<>> /\ QueueExact
  /\ NoData => HasData = {}

\* Every block that was read is parsed, or in the buffer of one worker that
\* is to parse it.
BlocksRead == {b \in Block : b[2] <= blocks[b[1]] - remaining[b[1]]}
HasBlock(w) == \/ pc[w] = "parse"
               \/ /\ pc[w] \in {"post", "wait", "woken"}
                  /\ keep_alive[w] \/ (main = "keep" /\ worker = w)
BlockInv ==
  /\ buf \in [Worker -> Block \union {<<0, 0>>}] /\ parsed \in [Block -> {0, 1}]
  /\ \A w \in Worker : HasBlock(w) => buf[w] \in BlocksRead /\ parsed[buf[w]] = 0
  /\ \A w, u \in Worker : HasBlock(w) /\ HasBlock(u) /\ buf[w] = buf[u] => w = u
  /\ \A b \in Block : parsed[b] = 1 => b \in BlocksRead
  /\ \A b \in BlocksRead : parsed[b] = 0 => \E w \in Worker : HasBlock(w) /\ buf[w] = b

IInv == Control /\ CountInv /\ LiveInv /\ FileInv /\ BlockInv
----------------------------------------------------------------------------
(* Sequences                                                               *)

LEMMA LastAndFront ==
  ASSUME NEW S, NEW s \in Seq(S), s # <<>>
  PROVE  /\ Len(s) \in Nat \ {0} /\ Last(s) \in S /\ Last(s) = s[Len(s)]
         /\ Front(s) \in Seq(S) /\ Len(Front(s)) = Len(s) - 1
         /\ \A k \in 1 .. Len(s) - 1 : Front(s)[k] = s[k]
<1>1. PICK n \in Nat \ {0} : n = Len(s)
  BY EmptySeq, LenProperties
<1>2. \A k \in 1..n : s[k] \in S
  BY <1>1, ElementOfSeq
<1>3. /\ SubSeq(s, 1, n - 1) \in Seq(S)
      /\ Len(SubSeq(s, 1, n - 1)) = IF 1 <= n - 1 THEN n - 1 - 1 + 1 ELSE 0
      /\ \A k \in 1 .. n - 1 - 1 + 1 : SubSeq(s, 1, n - 1)[k] = s[1 + k - 1]
  BY <1>2, SubSeqProperties
<1>4. Len(Front(s)) = n - 1
  BY <1>1, <1>3 DEF Front
<1>5. ASSUME NEW k \in 1 .. n - 1 PROVE Front(s)[k] = s[k]
  <2>1. k \in 1 .. n - 1 - 1 + 1 /\ 1 + k - 1 = k
    OBVIOUS
  <2>. QED  BY <1>1, <1>3, <2>1 DEF Front
<1>. QED  BY <1>1, <1>2, <1>3, <1>4, <1>5 DEF Last, Front

LEMMA WorkerFinite == IsFiniteSet(Worker) /\ Cardinality(Worker) = N
BY PoolAssumption, FS_Interval DEF Worker

----------------------------------------------------------------------------
(* The steps                                                               *)

\* All four ways of starting a worker, as the threads see them.
Begin ==
  /\ main \in Starting
  /\ main' \in {"wait", "out"} \/ (main' \in Starting /\ i < N)
  /\ pc' = [pc EXCEPT ![i] = "parse"] /\ i' = i + 1 /\ live_threads' = live_threads + 1
  /\ UNCHANGED <<worker, out_of_data_local, thread_queue, lock, waiters, sem, keep_alive, parsed>>

LEMMA StartsBegin ==
  ASSUME StartInv, FileInv, StartOne \/ StartMany \/ StartFew \/ StartRest
  PROVE  Begin
<1>1. main \in Starting => i \in 1..N /\ N \in Nat
  BY PoolAssumption DEF StartInv
<1>2. CASE StartOne
  BY <1>1, <1>2 DEF StartOne, InitThread, Begin, Starting, queue, signals
<1>3. CASE StartMany
  BY <1>1, <1>3 DEF StartMany, InitThread, Begin, Starting, queue, signals
<1>4. CASE StartFew
  <2>1. NumFiles < N /\ current_file = i - 1 /\ current_file < NumFiles /\ current_file \in 0..NumFiles
    BY <1>4 DEF StartFew, FileInv, FileTypes
  <2>2. NumFiles \in Nat
    BY PoolAssumption, LenProperties DEF FileInv, FileTypes, NumFiles
  <2>3. i < N
    BY <1>1, <1>4, <2>1, <2>2 DEF StartFew, Starting
  <2>. QED  BY <1>4, <2>3 DEF StartFew, InitThread, Begin, Starting, queue, signals
<1>5. CASE StartRest
  BY <1>1, <1>5 DEF StartRest, InitThread, Begin, Starting, queue, signals
<1>. QED  BY <1>2, <1>3, <1>4, <1>5

\* Main, as the threads see it, but for the starts.
Serves == MainWait \/ MainLock \/ MainPop \/ Fill \/ Keep \/ MainPost \/ ProgramError
Ends == Out \/ Wake \/ Collect \/ Sort \/ Exit

LEMMA Steps ==
  ASSUME StartInv, FileInv, Next
  PROVE  Begin \/ Serves \/ Ends \/ \E w \in Worker : Work(w)
BY StartsBegin DEF Next, Main, Serves, Ends

\* The queue has an entry for main to pop.
LEMMA PopFinds ==
  ASSUME Types, CountInv, main = "pop"
  PROVE  thread_queue # <<>>
<1>1. Cardinality(Posting) \in Nat
  BY WorkerFinite, FS_Subset, FS_CardinalityType DEF Posting
<1>2. Len(thread_queue) = waiters + Cardinality(Posting) + 1 /\ waiters \in Nat
  BY DEF CountInv, Types, Serving
<1>. QED  BY <1>1, <1>2, EmptySeq

LEMMA PostingCounts ==
  ASSUME NEW s \in [Worker -> Nat], NEW k
  PROVE  [s EXCEPT ![k] = @ + 1] \in [Worker -> Nat]
<1>1. \A w \in Worker : s[w] + 1 \in Nat
  OBVIOUS
<1>. QED  BY <1>1

LEMMA TypesStep ==
  ASSUME Types, StartInv, FileInv, CountInv, Next
  PROVE  Types'
<1>1. N \in Nat \ {0} /\ (main \in Starting => i \in 1..N) /\ (main = "wake" => i \in 1..N)
  BY PoolAssumption DEF StartInv
<1>2. CASE Begin
  <2>1. main' \in Starting \union Serving \union Ending \union {"failed"} /\ i' \in 1 .. N + 1
    BY <1>1, <1>2 DEF Begin, Serving, Ending
  <2>. QED  BY <1>2, <2>1 DEF Begin, Types, Labels
<1>3. CASE MainWait
  BY <1>3 DEF MainWait, Types, Goto, mainVars, queue, Serving
<1>4. CASE MainLock
  BY <1>4 DEF MainLock, Types, Goto, mainVars, signals, Serving
<1>5. CASE MainPop
  <2>1. thread_queue # <<>>
    BY <1>5, PopFinds DEF MainPop
  <2>2. Last(thread_queue) \in Worker /\ Front(thread_queue) \in Seq(Worker)
    BY <2>1, LastAndFront DEF Types
  <2>3. Last(thread_queue) \in 0..N
    BY <1>1, <2>2 DEF Worker
  <2>. QED  BY <1>5, <2>2, <2>3 DEF MainPop, Types, Goto, signals, Serving
<1>6. CASE Fill
  <2>1. out_of_data_local' \in BOOLEAN
    BY <1>6 DEF Fill
  <2>. QED  BY <1>6, <2>1 DEF Fill, SetupBlock, Types, Goto, queue, signals, Serving
<1>7. CASE Keep
  BY <1>7 DEF Keep, Types, Goto, mainVars, queue, Serving
<1>8. CASE MainPost
  <2>1. sem' \in [Worker -> Nat]
    BY <1>8, PostingCounts DEF MainPost, Types
  <2>2. main' \in Serving \union Ending
    BY <1>8 DEF MainPost, Goto, Serving, Ending
  <2>. QED  BY <1>1, <1>8, <2>1, <2>2 DEF MainPost, Types, queue
<1>9. CASE ProgramError
  BY <1>9 DEF ProgramError, Types, mainVars, queue, signals
<1>10. CASE Out
  BY <1>1, <1>10 DEF Out, Types, Goto, queue, signals, Ending
<1>11. CASE Wake
  <2>1. sem' \in [Worker -> Nat]
    BY <1>11, PostingCounts DEF Wake, Types
  <2>2. main' \in Ending /\ i' \in 1 .. N + 1
    BY <1>1, <1>11 DEF Wake, Goto, Ending
  <2>. QED  BY <1>11, <2>1, <2>2 DEF Wake, Types, queue
<1>12. CASE Collect
  BY <1>12 DEF Collect, Types, Goto, mainVars, queue, Ending
<1>13. CASE Sort
  BY <1>13 DEF Sort, Types, Goto, mainVars, signals, Ending
<1>14. CASE Exit
  BY <1>14 DEF Exit, Types, Goto, mainVars, queue, signals, Ending
<1>15. ASSUME NEW w \in Worker, Work(w) PROVE Types'
  <2>1. pc' \in [Worker -> Labels] /\ UNCHANGED <<main, i, worker, out_of_data_local>>
    BY <1>15 DEF Work, Parse, Clear, Lock, Push, Unlock, Post, Wait, Woken, Leave, LastPost, Step,
                 Types, Labels, mainVars
  <2>2. thread_queue' \in Seq(Worker) /\ lock' \in BOOLEAN
    <3>1. CASE Push(w)
      BY <3>1, AppendProperties DEF Push, Types
    <3>2. CASE ~Push(w)
      BY <1>15, <3>2 DEF Work, Parse, Clear, Lock, Unlock, Post, Wait, Woken, Leave, LastPost, Types, queue
    <3>. QED  BY <3>1, <3>2
  <2>3. waiters' \in Nat /\ keep_alive' \in [Worker -> BOOLEAN]
    <3>1. CASE Post(w) \/ LastPost(w)
      BY <3>1 DEF Post, LastPost, Types
    <3>2. CASE Clear(w)
      BY <3>2 DEF Clear, Types
    <3>3. CASE ~Clear(w) /\ ~Post(w) /\ ~LastPost(w)
      BY <1>15, <3>3 DEF Work, Parse, Lock, Push, Unlock, Wait, Woken, Leave, Types, signals
    <3>. QED  BY <3>1, <3>2, <3>3
  <2>4. CASE Wait(w)
    <3>1. sem[w] - 1 \in Nat
      BY <2>4 DEF Wait, Types
    <3>2. sem' \in [Worker -> Nat]
      BY <2>4, <3>1 DEF Wait, Types
    <3>. QED  BY <2>1, <2>2, <2>3, <3>2 DEF Types
  <2>5. CASE ~Wait(w)
    <3>1. sem' = sem
      BY <1>15, <2>5 DEF Work, Parse, Clear, Lock, Push, Unlock, Post, Woken, Leave, LastPost, signals
    <3>. QED  BY <2>1, <2>2, <2>3, <3>1 DEF Types
  <2>. QED  BY <2>4, <2>5
<1>. QED  BY <1>2, <1>3, <1>4, <1>5, <1>6, <1>7, <1>8, <1>9, <1>10, <1>11, <1>12, <1>13, <1>14, <1>15,
             Steps DEF Serves, Ends

LEMMA LockStep ==
  ASSUME Types, LockInv, StartInv, FileInv, SemInv, Next
  PROVE  LockInv'
<1>1. CASE Begin
  <2>1. i \in Worker /\ pc[i] = "none"
    BY <1>1 DEF Begin, StartInv, Worker
  <2>2. Holding' = Holding
    BY <1>1, <2>1 DEF Begin, Types, Holding
  <2>. QED  BY <1>1, <2>2 DEF Begin, LockInv, Starting
<1>2. CASE Serves
  <2>1. Holding' = Holding
    BY <1>2 DEF Holding, Serves, MainWait, MainLock, MainPop, Fill, Keep, MainPost, ProgramError
  <2>. QED  BY <1>2, <2>1 DEF Types, LockInv, Serves, MainWait, MainLock, MainPop, Fill, Keep, MainPost,
                              ProgramError, Goto, queue
<1>3. CASE Ends
  <2>1. Holding' = Holding
    BY <1>3 DEF Holding, Ends, Out, Wake, Collect, Sort, Exit
  <2>. QED  BY <1>3, <2>1 DEF Types, LockInv, Ends, Out, Wake, Collect, Sort, Exit, Goto, queue
<1>4. ASSUME NEW w \in Worker, Work(w) PROVE LockInv'
  <2>1. CASE Lock(w)
    <3>1. Holding' = {w} /\ ~lock /\ lock' /\ main' = main /\ main \notin {"pop", "sorting", "done"}
      BY <2>1 DEF Lock, Step, Holding, Types, LockInv
    <3>. QED  BY <3>1 DEF LockInv
  <2>2. CASE Unlock(w)
    <3>1. Holding = {w} /\ Holding' = {} /\ ~lock' /\ main' = main /\ main \notin {"pop", "sorting", "done"}
      BY <2>2 DEF Unlock, Step, Holding, Types, LockInv
    <3>. QED  BY <3>1 DEF LockInv
  <2>3. CASE ~Lock(w) /\ ~Unlock(w)
    <3>1. Holding' = Holding /\ lock' = lock /\ main' = main
      BY <1>4, <2>3 DEF Work, Parse, Clear, Push, Post, Wait, Woken, Leave, LastPost, Step,
                        Types, queue, Holding
    <3>. QED  BY <3>1 DEF LockInv
  <2>. QED  BY <2>1, <2>2, <2>3
<1>. QED  BY <1>1, <1>2, <1>3, <1>4, Steps
\* A step of a worker leaves main alone, and the other workers.
LEMMA WorkFrame ==
  ASSUME Types, NEW w \in Worker, Work(w)
  PROVE  /\ UNCHANGED <<main, i, worker, out_of_data_local, buf, blocks, remaining, current_file,
                        fileinfo_queue>>
         /\ main \notin {"done", "failed"}
         /\ pc[w] # "none" /\ pc'[w] # "none"
         /\ \A u \in Worker : u # w => pc'[u] = pc[u]
BY DEF Work, Parse, Clear, Lock, Push, Unlock, Post, Wait, Woken, Leave, LastPost, Step, Types,
       mainVars, data

LEMMA StartStep ==
  ASSUME Types, StartInv, FileInv, Next
  PROVE  StartInv'
<1>1. N \in Nat \ {0}
  BY PoolAssumption
<1>2. CASE Begin
  <2>1. i \in 1..N /\ \A w \in Worker : pc[w] = "none" <=> w >= i
    BY <1>2 DEF Begin, StartInv
  <2>2. \A w \in Worker : pc'[w] = "none" <=> w >= i + 1
    BY <1>1, <1>2, <2>1 DEF Begin, Types, Worker
  <2>3. main' \in Starting => i + 1 \in 1..N
    BY <1>1, <1>2, <2>1 DEF Begin, Starting
  <2>4. main' # "wake"
    BY <1>2 DEF Begin, Starting
  <2>. QED  BY <1>2, <2>2, <2>3, <2>4 DEF Begin, StartInv
<1>3. CASE Serves
  <2>1. main' \notin Starting /\ main' # "wake"
    BY <1>3 DEF Serves, MainWait, MainLock, MainPop, Fill, Keep, MainPost, ProgramError, Goto, Starting
  <2>. QED  BY <2>1 DEF StartInv
<1>4. CASE Ends
  <2>1. main' \notin Starting
    BY <1>4 DEF Ends, Out, Wake, Collect, Sort, Exit, Goto, Starting
  <2>2. main' = "wake" => i' \in 1..N
    <3>1. CASE Out
      BY <1>1, <3>1 DEF Out
    <3>2. CASE Wake
      BY <1>1, <3>2 DEF Wake, Goto, StartInv
    <3>3. CASE Collect \/ Sort \/ Exit
      BY <3>3 DEF Collect, Sort, Exit, Goto
    <3>. QED  BY <1>4, <3>1, <3>2, <3>3 DEF Ends
  <2>. QED  BY <2>1, <2>2 DEF StartInv
<1>5. ASSUME NEW w \in Worker, Work(w) PROVE StartInv'
  BY <1>5, WorkFrame DEF StartInv
<1>. QED  BY <1>2, <1>3, <1>4, <1>5, Steps

LEMMA KeepStep ==
  ASSUME Types, StartInv, KeepInv, PopInv, FileInv, Next
  PROVE  KeepInv'
<1>1. CASE Begin
  BY <1>1 DEF Begin, Types, KeepInv
<1>2. CASE Serves
  <2>1. CASE Keep
    BY <2>1 DEF Keep, Types, KeepInv, PopInv
  <2>2. CASE ~Keep
    BY <1>2, <2>2 DEF KeepInv, Serves, MainWait, MainLock, MainPop, Fill, MainPost, ProgramError, signals
  <2>. QED  BY <2>1, <2>2
<1>3. CASE Ends
  BY <1>3 DEF KeepInv, Ends, Out, Wake, Collect, Sort, Exit, signals
<1>4. ASSUME NEW w \in Worker, Work(w) PROVE KeepInv'
  <2>1. \A u \in Worker : u # w => pc'[u] = pc[u] /\ keep_alive'[u] = keep_alive[u]
    BY <1>4 DEF Work, Parse, Clear, Lock, Push, Unlock, Post, Wait, Woken, Leave, LastPost, Step, Types,
                signals
  <2>2. keep_alive'[w] => pc'[w] \in {"post", "wait", "woken", "parse", "clear"}
    BY <1>4 DEF Work, Parse, Clear, Lock, Push, Unlock, Post, Wait, Woken, Leave, LastPost, Step, Types,
                signals, KeepInv
  <2>. QED  BY <2>1, <2>2 DEF KeepInv
<1>. QED  BY <1>1, <1>2, <1>3, <1>4, Steps

LEMMA QueueStep ==
  ASSUME Types, StartInv, QueueInv, KeepInv, PopInv, CountInv, FileInv, Next
  PROVE  QueueInv'
<1>1. CASE Begin
  <2>1. i \in Worker /\ pc[i] = "none"
    BY <1>1 DEF Begin, StartInv, Worker
  <2>2. \A w \in Worker : InQueue(w)' <=> InQueue(w)
    BY <1>1 DEF Begin, InQueue
  <2>3. main' \notin {"fill", "keep", "post"}
    BY <1>1 DEF Begin, Starting
  <2>4. \A w \in Worker : InQueue(w) => w # i
    BY <2>1 DEF QueueInv
  <2>. QED  BY <1>1, <2>1, <2>2, <2>3, <2>4 DEF Begin, Types, QueueInv
<1>2. CASE MainPop
  <2>1. thread_queue # <<>>
    BY <1>2, PopFinds DEF MainPop
  <2>2. PICK n \in Nat \ {0} : n = Len(thread_queue)
    BY <2>1, LastAndFront DEF Types
  <2>3. /\ Len(Front(thread_queue)) = n - 1 /\ Last(thread_queue) = thread_queue[n]
        /\ \A k \in 1 .. n - 1 : Front(thread_queue)[k] = thread_queue[k]
    BY <2>1, <2>2, LastAndFront DEF Types
  <2>7. /\ Len(thread_queue') = n - 1 /\ worker' = thread_queue[n]
        /\ \A k \in 1 .. n - 1 : thread_queue'[k] = thread_queue[k]
    BY <1>2, <2>3 DEF MainPop
  <2>4. \A w \in Worker : InQueue(w)' => InQueue(w) /\ w # worker'
    BY <2>2, <2>7 DEF InQueue, QueueInv
  <2>5. \A k1, k2 \in 1 .. Len(thread_queue') : thread_queue'[k1] = thread_queue'[k2] => k1 = k2
    BY <2>2, <2>7 DEF QueueInv
  <2>6. pc' = pc /\ keep_alive' = keep_alive
    BY <1>2 DEF MainPop, signals
  <2>. QED  BY <2>4, <2>5, <2>6 DEF QueueInv
<1>3. CASE Serves /\ ~MainPop
  <2>1. pc' = pc /\ thread_queue' = thread_queue
    BY <1>3 DEF Serves, MainWait, MainLock, Fill, Keep, MainPost, ProgramError, queue
  <2>2. \A w \in Worker : InQueue(w)' <=> InQueue(w)
    BY <2>1 DEF InQueue
  <2>3. main' \in {"fill", "keep", "post"} => main \in {"fill", "keep", "post"} /\ worker' = worker
    BY <1>3 DEF Serves, MainWait, MainLock, Fill, Keep, MainPost, ProgramError, Goto, mainVars
  <2>4. \A w \in Worker : InQueue(w) => ~keep_alive'[w]
    BY <1>3 DEF Serves, MainWait, MainLock, Fill, Keep, MainPost, ProgramError, signals, QueueInv, Types
  <2>. QED  BY <2>1, <2>2, <2>3, <2>4 DEF QueueInv
<1>4. CASE Ends
  <2>1. pc' = pc /\ thread_queue' = thread_queue /\ keep_alive' = keep_alive
    BY <1>4 DEF Ends, Out, Wake, Collect, Sort, Exit, queue, signals
  <2>2. \A w \in Worker : InQueue(w)' <=> InQueue(w)
    BY <2>1 DEF InQueue
  <2>3. main' \notin {"fill", "keep", "post"}
    BY <1>4 DEF Ends, Out, Wake, Collect, Sort, Exit, Goto
  <2>. QED  BY <2>1, <2>2, <2>3 DEF QueueInv
<1>5. ASSUME NEW w \in Worker, Work(w) PROVE QueueInv'
  <2>1. \A u \in Worker : u # w => pc'[u] = pc[u] /\ keep_alive'[u] = keep_alive[u]
    BY <1>5 DEF Work, Parse, Clear, Lock, Push, Unlock, Post, Wait, Woken, Leave, LastPost, Step, Types,
                signals
  <2>2. main' = main /\ worker' = worker
    BY <1>5, WorkFrame
  <2>3. CASE Push(w)
    <3>1. pc[w] = "push" /\ pc'[w] = "unlock" /\ keep_alive' = keep_alive
      BY <2>3 DEF Push, Step, Types, signals
    <3>2. ~InQueue(w) /\ ~keep_alive[w]
      BY <3>1 DEF QueueInv, KeepInv
    <3>3. main \in {"fill", "keep", "post"} => w # worker
      BY <3>1 DEF PopInv
    <3>4. PICK n \in Nat : n = Len(thread_queue)
      BY LenProperties DEF Types
    <3>5. /\ Len(thread_queue') = n + 1 /\ \A k \in 1..n : thread_queue'[k] = thread_queue[k]
          /\ thread_queue'[n + 1] = w
      BY <2>3, <3>4, AppendProperties DEF Push, Types
    <3>6. \A k1, k2 \in 1 .. Len(thread_queue') : thread_queue'[k1] = thread_queue'[k2] => k1 = k2
      BY <3>2, <3>4, <3>5 DEF QueueInv, InQueue
    <3>7. \A u \in Worker : InQueue(u)' => InQueue(u) \/ u = w
      BY <3>4, <3>5 DEF InQueue
    <3>. QED  BY <2>1, <2>2, <3>1, <3>2, <3>3, <3>6, <3>7 DEF QueueInv
  <2>4. CASE ~Push(w)
    <3>1. thread_queue' = thread_queue
      BY <1>5, <2>4 DEF Work, Parse, Clear, Lock, Unlock, Post, Wait, Woken, Leave, LastPost, queue
    <3>2. \A u \in Worker : InQueue(u)' <=> InQueue(u)
      BY <3>1 DEF InQueue
    <3>3. InQueue(w) => /\ pc'[w] \in {"unlock", "post", "wait", "woken", "exit", "last", "gone"}
                        /\ ~keep_alive'[w]
      BY <1>5, <2>4 DEF Work, Parse, Clear, Lock, Unlock, Post, Wait, Woken, Leave, LastPost, Step, Types,
                        signals, QueueInv
    <3>. QED  BY <2>1, <2>2, <3>1, <3>2, <3>3 DEF QueueInv
  <2>. QED  BY <2>3, <2>4
<1>. QED  BY <1>1, <1>2, <1>3, <1>4, <1>5, Steps
LEMMA PopStep ==
  ASSUME Control, CountInv, FileInv, Next
  PROVE  PopInv'
<1>0. Types /\ StartInv /\ PopInv
  BY DEF Control
<1>1. CASE Begin
  BY <1>1 DEF Begin, Starting, PopInv
<1>2. CASE MainPop
  <2>1. PICK n \in Nat \ {0} : n = Len(thread_queue)
    BY <1>0, <1>2, PopFinds, LastAndFront DEF MainPop, Types
  <2>2. PICK w \in Worker : w = Last(thread_queue) /\ w = thread_queue[n]
    BY <1>0, <1>2, <2>1, PopFinds, LastAndFront DEF MainPop, Types
  <2>3. InQueue(w)
    BY <2>1, <2>2 DEF InQueue
  <2>4. main \in Starting \union Serving /\ w \notin Holding
    BY <1>2 DEF MainPop, Serving, Control, LockInv
  <2>5. pc[w] \in {"post", "wait"} /\ sem[w] = 0 /\ ~keep_alive[w]
    BY <2>3, <2>4 DEF Control, QueueInv, SemInv, Holding
  <2>6. worker' = w /\ pc' = pc /\ sem' = sem /\ keep_alive' = keep_alive /\ main' = "fill"
    BY <1>2, <2>2 DEF MainPop, signals, Goto
  <2>. QED  BY <2>2, <2>5, <2>6 DEF PopInv
<1>3. CASE Serves /\ ~MainPop
  <2>1. CASE Keep
    BY <1>0, <2>1 DEF Keep, Goto, mainVars, PopInv, Types
  <2>2. CASE Fill
    BY <1>0, <2>2 DEF Fill, Goto, signals, PopInv
  <2>3. CASE MainWait \/ MainLock \/ MainPost \/ ProgramError
    BY <2>3 DEF MainWait, MainLock, MainPost, ProgramError, Goto, PopInv
  <2>. QED  BY <1>3, <2>1, <2>2, <2>3 DEF Serves
<1>4. CASE Ends
  BY <1>4 DEF Ends, Out, Wake, Collect, Sort, Exit, Goto, PopInv
<1>5. ASSUME NEW w \in Worker, Work(w), main \in {"fill", "keep", "post"} PROVE PopInv'
  <2>1. main' = main /\ worker' = worker
    BY <1>0, <1>5, WorkFrame
  <2>2. worker \in Worker /\ pc[worker] \in {"post", "wait"} /\ sem[worker] = 0
    BY <1>0, <1>5 DEF PopInv
  <2>3. pc'[worker] \in {"post", "wait"} /\ sem'[worker] = 0 /\ keep_alive'[worker] = keep_alive[worker]
    BY <1>0, <1>5, <2>2 DEF Work, Parse, Clear, Lock, Push, Unlock, Post, Wait, Woken, Leave, LastPost,
                            Step, Types, signals
  <2>. QED  BY <1>0, <2>1, <2>2, <2>3 DEF PopInv
<1>6. ASSUME NEW w \in Worker, Work(w), main \notin {"fill", "keep", "post"} PROVE PopInv'
  BY <1>0, <1>6, WorkFrame DEF PopInv
<1>. QED  BY <1>0, <1>1, <1>2, <1>3, <1>4, <1>5, <1>6, Steps

LEMMA SemStep ==
  ASSUME Types, StartInv, KeepInv, PopInv, SemInv, FileInv, Next
  PROVE  SemInv'
<1>1. CASE Begin
  <2>1. i \in Worker /\ pc[i] = "none"
    BY <1>1 DEF Begin, StartInv, Worker
  <2>2. \A w \in Worker : w # i => pc'[w] = pc[w]
    BY <1>1 DEF Begin, Types
  <2>3. pc'[i] = "parse" /\ sem' = sem /\ keep_alive' = keep_alive /\ main \in Starting
    BY <1>1, <2>1 DEF Begin, Types
  <2>4. sem[i] = 0
    BY <2>1, <2>3 DEF SemInv
  <2>. QED  BY <2>2, <2>3, <2>4 DEF SemInv
<1>2. CASE MainPost
  <2>1. /\ worker \in Worker /\ keep_alive[worker] /\ pc[worker] \in {"post", "wait"}
        /\ sem[worker] = 0 /\ main \in Serving
    BY <1>2 DEF MainPost, PopInv, Serving
  <2>2. /\ \A w \in Worker : sem'[w] = IF w = worker THEN 1 ELSE sem[w]
        /\ pc' = pc /\ keep_alive' = keep_alive
    BY <1>2, <2>1 DEF MainPost, Types
  <2>. QED  BY <2>1, <2>2 DEF SemInv
<1>3. CASE Serves /\ ~MainPost
  <2>1. main' = "failed" \/ main \in Serving
    BY <1>3 DEF Serves, MainWait, MainLock, MainPop, Fill, Keep, ProgramError, Serving
  <2>2. pc' = pc /\ sem' = sem
    BY <1>3 DEF Serves, MainWait, MainLock, MainPop, Fill, Keep, ProgramError, signals
  <2>3. \A w \in Worker : keep_alive[w] => keep_alive'[w]
    BY <1>3 DEF Serves, MainWait, MainLock, MainPop, Fill, Keep, ProgramError, signals, Types
  <2>. QED  BY <2>1, <2>2, <2>3 DEF SemInv, Starting, Serving
<1>4. CASE Ends
  BY <1>4 DEF Ends, Out, Wake, Collect, Sort, Exit, Goto, SemInv, Starting, Serving
<1>5. ASSUME NEW w \in Worker, Work(w), main \in Starting \union Serving PROVE SemInv'
  <2>1. \A u \in Worker : u # w => pc'[u] = pc[u] /\ keep_alive'[u] = keep_alive[u] /\ sem'[u] = sem[u]
    BY <1>5 DEF Work, Parse, Clear, Lock, Push, Unlock, Post, Wait, Woken, Leave, LastPost, Step, Types,
                signals
  <2>2. /\ sem[w] \in {0, 1} /\ pc[w] \notin {"exit", "last", "gone"}
        /\ sem[w] = 1 => keep_alive[w] /\ pc[w] \in {"post", "wait"}
        /\ pc[w] = "woken" => keep_alive[w]
    BY <1>5 DEF SemInv
  <2>3. /\ sem'[w] \in {0, 1} /\ pc'[w] \notin {"exit", "last", "gone"}
        /\ sem'[w] = 1 => keep_alive'[w] /\ pc'[w] \in {"post", "wait"}
        /\ pc'[w] = "woken" => keep_alive'[w]
    BY <1>5, <2>2 DEF Work, Parse, Clear, Lock, Push, Unlock, Post, Wait, Woken, Leave, LastPost, Step,
                      Types, signals
  <2>4. ASSUME NEW u \in Worker
        PROVE  /\ sem'[u] \in {0, 1} /\ pc'[u] \notin {"exit", "last", "gone"}
               /\ sem'[u] = 1 => keep_alive'[u] /\ pc'[u] \in {"post", "wait"}
               /\ pc'[u] = "woken" => keep_alive'[u]
    BY <1>5, <2>1, <2>3 DEF SemInv
  <2>. QED  BY <2>4 DEF SemInv
<1>6. ASSUME NEW w \in Worker, Work(w), main \notin Starting \union Serving PROVE SemInv'
  BY <1>6, WorkFrame DEF SemInv
<1>. QED  BY <1>1, <1>2, <1>3, <1>4, <1>5, <1>6, Steps

LEMMA ControlStep ==
  ASSUME Control, CountInv, FileInv, Next
  PROVE  Control'
BY TypesStep, LockStep, StartStep, QueueStep, KeepStep, PopStep, SemStep DEF Control

\* No step of main goes back to serving the workers once it is out of data.
LEMMA CountStep ==
  ASSUME Types, StartInv, SemInv, CountInv, FileInv, Next
  PROVE  CountInv'
<1>1. CASE Begin
  <2>1. i \in Worker /\ pc[i] = "none"
    BY <1>1 DEF Begin, StartInv, Worker
  <2>2. Posting' = Posting
    BY <1>1, <2>1 DEF Begin, Types, Posting
  <2>3. main \notin {"lock", "pop"} /\ main' \notin {"lock", "pop"} /\ main \in Starting
    BY <1>1 DEF Begin, Starting
  <2>. QED  BY <1>1, <2>2, <2>3 DEF Begin, CountInv
<1>2. CASE Serves /\ main # "wait" /\ main # "pop"
  <2>1. Posting' = Posting /\ waiters' = waiters /\ thread_queue' = thread_queue
    BY <1>2 DEF Serves, MainWait, MainLock, MainPop, Fill, Keep, MainPost, ProgramError, queue, signals,
                Posting
  <2>2. \/ main \in Serving /\ (main \in {"lock", "pop"} <=> main' \in {"lock", "pop"})
        \/ main' = "failed"
    BY <1>2 DEF Serves, MainWait, MainLock, MainPop, Fill, Keep, MainPost, ProgramError, Goto, Serving
  <2>. QED  BY <2>1, <2>2 DEF CountInv, Starting, Serving
<1>3. CASE MainWait
  <2>1. Posting' = Posting /\ waiters' = waiters - 1 /\ thread_queue' = thread_queue
    BY <1>3 DEF MainWait, queue, Posting
  <2>2. main = "wait" /\ main' = "lock" /\ main \in Serving
    BY <1>3 DEF MainWait, Goto, Serving
  <2>3. Len(thread_queue) = waiters + Cardinality(Posting) + 0 /\ Cardinality(Posting) \in Nat
        /\ waiters \in Nat
    BY <2>2, WorkerFinite, FS_Subset, FS_CardinalityType DEF CountInv, Posting, Types
  <2>4. Len(thread_queue') = waiters' + Cardinality(Posting') + 1
    BY <2>1, <2>3
  <2>. QED  BY <2>2, <2>4 DEF CountInv
<1>4. CASE MainPop
  <2>1. Len(thread_queue') = Len(thread_queue) - 1
    BY <1>4, PopFinds, LastAndFront DEF MainPop, Types
  <2>2. Posting' = Posting /\ waiters' = waiters /\ main = "pop" /\ main' = "fill" /\ main \in Serving
    BY <1>4 DEF MainPop, signals, Goto, Posting, Serving
  <2>3. Len(thread_queue) = waiters + Cardinality(Posting) + 1 /\ Cardinality(Posting) \in Nat
        /\ waiters \in Nat
    BY <2>2, WorkerFinite, FS_Subset, FS_CardinalityType DEF CountInv, Posting, Types
  <2>4. Len(thread_queue') = waiters' + Cardinality(Posting') + 0
    BY <2>1, <2>2, <2>3
  <2>. QED  BY <2>2, <2>4 DEF CountInv
<1>5. CASE Ends
  BY <1>5 DEF Ends, Out, Wake, Collect, Sort, Exit, Goto, CountInv, Starting, Serving
<1>6. ASSUME NEW w \in Worker, Work(w), main \in Starting \union Serving PROVE CountInv'
  <2>1. PICK one \in {0, 1} : one = IF main \in {"lock", "pop"} THEN 1 ELSE 0
    OBVIOUS
  <2>2. IsFiniteSet(Posting) /\ Cardinality(Posting) \in Nat
    BY WorkerFinite, FS_Subset, FS_CardinalityType DEF Posting
  <2>3. Len(thread_queue) = waiters + Cardinality(Posting) + one /\ waiters \in Nat
    BY <1>6, <2>1 DEF CountInv, Types
  <2>4. main' = main
    BY <1>6, WorkFrame
  <2>5. pc[w] # "last"
    BY <1>6 DEF SemInv
  <2>6. CASE Push(w)
    <3>1. Len(thread_queue') = Len(thread_queue) + 1 /\ waiters' = waiters
      BY <2>6, AppendProperties DEF Push, Types, signals
    <3>2. Posting' = Posting \union {w} /\ w \notin Posting
      BY <2>6 DEF Push, Step, Types, Posting
    <3>3. Cardinality(Posting') = Cardinality(Posting) + 1
      BY <2>2, <3>2, FS_AddElement
    <3>. QED  BY <2>1, <2>2, <2>3, <2>4, <3>1, <3>3 DEF CountInv
  <2>7. CASE Post(w)
    <3>1. thread_queue' = thread_queue /\ waiters' = waiters + 1
      BY <2>7 DEF Post, queue
    <3>2. Posting' = Posting \ {w} /\ w \in Posting
      BY <2>7 DEF Post, Step, Types, Posting
    <3>3. Cardinality(Posting') = Cardinality(Posting) - 1
      BY <2>2, <3>2, FS_RemoveElement
    <3>. QED  BY <2>1, <2>2, <2>3, <2>4, <3>1, <3>3 DEF CountInv
  <2>8. CASE ~Push(w) /\ ~Post(w)
    <3>1. thread_queue' = thread_queue /\ waiters' = waiters
      BY <1>6, <2>5, <2>8 DEF Work, Parse, Clear, Lock, Unlock, Wait, Woken, Leave, LastPost, Step, queue,
                              signals
    <3>2. Posting' = Posting
      BY <1>6, <2>8 DEF Work, Parse, Clear, Lock, Unlock, Wait, Woken, Leave, LastPost, Step, Types, Posting
    <3>. QED  BY <2>1, <2>3, <2>4, <3>1, <3>2 DEF CountInv
  <2>. QED  BY <2>6, <2>7, <2>8
<1>7. ASSUME NEW w \in Worker, Work(w), main \notin Starting \union Serving PROVE CountInv'
  BY <1>7, WorkFrame DEF CountInv
<1>. QED
  <2>1. Serves => MainWait \/ MainPop \/ (main # "wait" /\ main # "pop")
    BY DEF Serves, MainLock, Fill, Keep, MainPost, ProgramError
  <2>. QED  BY <1>1, <1>2, <1>3, <1>4, <1>5, <1>6, <1>7, <2>1, Steps

LEMMA LiveStep ==
  ASSUME Types, StartInv, LiveInv, FileInv, Next
  PROVE  LiveInv'
<1>0. IsFiniteSet(Live) /\ Cardinality(Live) \in Nat
  BY WorkerFinite, FS_Subset, FS_CardinalityType DEF Live
<1>1. CASE Begin
  <2>1. i \in Worker /\ pc[i] = "none"
    BY <1>1 DEF Begin, StartInv, Worker
  <2>2. Live' = Live \union {i} /\ i \notin Live
    BY <1>1, <2>1 DEF Begin, Types, Live
  <2>3. Cardinality(Live') = Cardinality(Live) + 1
    BY <1>0, <2>2, FS_AddElement
  <2>. QED  BY <1>1, <2>3 DEF Begin, LiveInv, Starting
<1>2. CASE Serves
  BY <1>2 DEF Serves, MainWait, MainLock, MainPop, Fill, Keep, MainPost, ProgramError, Goto, LiveInv, Live
<1>3. CASE Ends
  BY <1>3 DEF Ends, Out, Wake, Collect, Sort, Exit, Goto, LiveInv, Live
<1>4. ASSUME NEW w \in Worker, Work(w) PROVE LiveInv'
  <2>1. main' = main
    BY <1>4, WorkFrame
  <2>2. CASE Leave(w)
    <3>1. Live' = Live \ {w} /\ w \in Live
      BY <2>2 DEF Leave, Step, Types, Live
    <3>2. Cardinality(Live') = Cardinality(Live) - 1 /\ Cardinality(Live) # 0
      BY <1>0, <3>1, FS_RemoveElement, FS_EmptySet
    <3>. QED  BY <2>1, <2>2, <3>2 DEF Leave, LiveInv
  <2>3. CASE ~Leave(w)
    <3>1. Live' = Live /\ live_threads' = live_threads
      BY <1>4, <2>3 DEF Work, Parse, Clear, Lock, Push, Unlock, Post, Wait, Woken, LastPost, Step, Types, Live
    <3>. QED  BY <2>1, <3>1 DEF LiveInv
  <2>. QED  BY <2>2, <2>3
<1>. QED  BY <1>1, <1>2, <1>3, <1>4, Steps
----------------------------------------------------------------------------
(* The queue of files                                                      *)

LEMMA FileFacts ==
  ASSUME FileTypes
  PROVE  /\ NumFiles \in Nat \ {0} /\ File = 1..NumFiles
         /\ \A f \in File : blocks[f] \in Nat \ {0} /\ remaining[f] \in Nat /\ remaining[f] <= blocks[f]
<1>1. blocks \in Seq(Nat \ {0}) /\ blocks # <<>>
  BY PoolAssumption DEF FileTypes
<1>2. NumFiles \in Nat \ {0}
  BY <1>1, EmptySeq, LenProperties DEF NumFiles
<1>3. \A f \in File : blocks[f] \in Nat \ {0}
  BY <1>1, ElementOfSeq DEF File, NumFiles
<1>. QED  BY <1>2, <1>3 DEF File, FileTypes

LEMMA SpellsAppend ==
  ASSUME NumFiles \in Nat, NEW q \in Seq(File), NEW c \in Nat, NEW r, NEW r2,
         Spells(q, c, r), c + 1 \in File,
         \A f \in File : f # c + 1 => r2[f] = r[f], r2[c + 1] > 0
  PROVE  /\ Append(q, c + 1) \in Seq(File) /\ Append(q, c + 1) # <<>>
         /\ Len(Append(q, c + 1)) = Len(q) + 1 /\ Spells(Append(q, c + 1), c + 1, r2)
<1>1. PICK n \in Nat : n = Len(q)
  BY LenProperties
<1>2. /\ Append(q, c + 1) \in Seq(File) /\ Len(Append(q, c + 1)) = n + 1
      /\ \A k \in 1..n : Append(q, c + 1)[k] = q[k]
      /\ Append(q, c + 1)[n + 1] = c + 1
  BY <1>1, AppendProperties
<1>3. PICK a : a = Append(q, c + 1)
  OBVIOUS
<1>4. \A k \in 1..n : q[k] \in File /\ q[k] <= c
  BY <1>1, ElementOfSeq DEF Spells
<1>5. \A k1, k2 \in 1 .. n + 1 : a[k1] = a[k2] => k1 = k2
  <2>1. \A k \in 1..n : a[k] = q[k] /\ a[k] # c + 1
    BY <1>2, <1>3, <1>4 DEF File
  <2>2. \A k \in 1 .. n + 1 : k \in 1..n \/ k = n + 1
    OBVIOUS
  <2>. QED  BY <1>1, <1>2, <1>3, <2>1, <2>2 DEF Spells
<1>6. \A f \in File : (\E k \in 1 .. n + 1 : a[k] = f) <=> (\E k \in 1..n : q[k] = f) \/ f = c + 1
  <2>1. \A k \in 1 .. n + 1 : k \in 1..n \/ k = n + 1
    OBVIOUS
  <2>2. 1..n \subseteq 1 .. n + 1 /\ n + 1 \in 1 .. n + 1
    OBVIOUS
  <2>. QED  BY <1>2, <1>3, <2>1, <2>2
<1>7. \A f \in File : f <= c + 1 /\ r2[f] > 0 <=> (f <= c /\ r[f] > 0) \/ f = c + 1
  BY DEF File
<1>. QED  BY <1>1, <1>2, <1>3, <1>5, <1>6, <1>7, EmptySeq DEF Spells

LEMMA SpellsOne ==
  ASSUME NumFiles \in Nat, NEW c \in Nat, NEW r, Spells(<<>>, c, r), c + 1 \in File, r[c + 1] > 0
  PROVE  /\ <<c + 1>> \in Seq(File) /\ <<c + 1>> # <<>> /\ Len(<<c + 1>>) = 1
         /\ Spells(<<c + 1>>, c + 1, r)
<1>0. <<>> \in Seq(File) /\ Len(<<>>) = 0 /\ Append(<<>>, c + 1) = <<c + 1>>
  OBVIOUS
<1>1. PICK q \in Seq(File) : q = <<>> /\ Len(q) = 0 /\ Append(q, c + 1) = <<c + 1>>
  BY <1>0
<1>2. /\ Append(q, c + 1) \in Seq(File) /\ Append(q, c + 1) # <<>>
      /\ Len(Append(q, c + 1)) = Len(q) + 1 /\ Spells(Append(q, c + 1), c + 1, r)
  BY <1>1, SpellsAppend
<1>. QED  BY <1>1, <1>2

LEMMA SpellsSkip ==
  ASSUME NumFiles \in Nat, NEW q \in Seq(File), NEW c \in Nat, NEW r, NEW r2,
         Spells(q, c, r), c + 1 \in File,
         \A f \in File : f # c + 1 => r2[f] = r[f], r2[c + 1] = 0
  PROVE  Spells(q, c + 1, r2)
<1>1. \A f \in File : f <= c + 1 /\ r2[f] > 0 <=> (f <= c /\ r[f] > 0)
  BY DEF File
<1>. QED  BY <1>1 DEF Spells

LEMMA SpellsFront ==
  ASSUME NumFiles \in Nat, NEW q \in Seq(File), q # <<>>, NEW c \in Nat, NEW r, NEW r2,
         Spells(q, c, r), \A f \in File : f # Last(q) => r2[f] = r[f], r2[Last(q)] = 0
  PROVE  Front(q) \in Seq(File) /\ Len(Front(q)) = Len(q) - 1 /\ Spells(Front(q), c, r2)
<1>1. PICK n \in Nat \ {0} : n = Len(q)
  BY LastAndFront
<1>2. PICK a : a = Front(q)
  OBVIOUS
<1>3. /\ a \in Seq(File) /\ Len(a) = n - 1 /\ \A k \in 1 .. n - 1 : a[k] = q[k]
      /\ Last(q) = q[n] /\ Last(q) \in File
  BY <1>1, <1>2, LastAndFront
<1>4. \A k \in 1..n : k \in 1 .. n - 1 \/ k = n
  OBVIOUS
<1>5. 1 .. n - 1 \subseteq 1..n /\ n \in 1..n /\ n \notin 1 .. n - 1
  OBVIOUS
<1>6. \A f \in File : (\E k \in 1 .. n - 1 : a[k] = f) <=> (\E k \in 1..n : q[k] = f) /\ f # Last(q)
  BY <1>1, <1>3, <1>4, <1>5 DEF Spells
<1>7. \A f \in File : f <= c /\ r2[f] > 0 <=> (f <= c /\ r[f] > 0) /\ f # Last(q)
  OBVIOUS
<1>8. \A k1, k2 \in 1 .. n - 1 : a[k1] = a[k2] => k1 = k2
  BY <1>1, <1>3, <1>5 DEF Spells
<1>. QED  BY <1>1, <1>2, <1>3, <1>6, <1>7, <1>8 DEF Spells

LEMMA SpellsNone ==
  ASSUME NumFiles \in Nat, NEW r, Spells(<<>>, NumFiles, r)
  PROVE  {f \in File : r[f] > 0} = {}
<1>1. Len(<<>>) = 0 /\ ~ \E k \in 1..0 : TRUE
  OBVIOUS
<1>2. \A f \in File : ~(f <= NumFiles /\ r[f] > 0)
  BY <1>1 DEF Spells
<1>. QED  BY <1>2 DEF File

\* The last file in the queue has data.
LEMMA LastHasData ==
  ASSUME FileTypes, QueueExact, fileinfo_queue # <<>>
  PROVE  LET f == Last(fileinfo_queue)
         IN  f \in File /\ f <= current_file /\ remaining[f] > 0
<1>1. PICK n \in Nat \ {0} : n = Len(fileinfo_queue)
  BY LastAndFront DEF FileTypes
<1>2. Last(fileinfo_queue) = fileinfo_queue[n] /\ Last(fileinfo_queue) \in File
  BY <1>1, LastAndFront DEF FileTypes
<1>. QED  BY <1>1, <1>2 DEF QueueExact, Spells
\* What setup_block does to the files.
LEMMA ReadsFile ==
  ASSUME FileTypes, NEW w, NEW f \in File, remaining[f] > 0, SetupBlock(w, f)
  PROVE  /\ blocks' = blocks /\ NumFiles' = NumFiles /\ File' = File
         /\ remaining' \in [File -> Nat] /\ remaining'[f] = remaining[f] - 1
         /\ \A g \in File : g # f => remaining'[g] = remaining[g]
         /\ \A g \in File : remaining'[g] <= blocks[g]
<1>1. blocks' = blocks /\ NumFiles' = NumFiles /\ File' = File
  BY DEF SetupBlock, NumFiles, File
<1>2. remaining[f] - 1 \in Nat /\ remaining[f] - 1 <= blocks[f]
  BY FileFacts
<1>3. /\ remaining' \in [File -> Nat] /\ remaining'[f] = remaining[f] - 1
      /\ \A g \in File : g # f => remaining'[g] = remaining[g]
  BY <1>2 DEF SetupBlock, FileTypes
<1>. QED  BY <1>1, <1>2, <1>3 DEF FileTypes

\* The next file, when it is read for the first time.
LEMMA OpensFile ==
  ASSUME FileTypes, QueueExact, NEW w, NEW f \in File, f = current_file + 1,
         remaining[f] = blocks[f], SetupBlock(w, f),
         NEW q, q = IF remaining[f] > 1 THEN Append(fileinfo_queue, f) ELSE fileinfo_queue
  PROVE  /\ q \in Seq(File) /\ Len(q) <= Len(fileinfo_queue) + 1 /\ Spells(q, f, remaining')
         /\ Len(q) \in Nat
<1>1. current_file \in Nat /\ fileinfo_queue \in Seq(File) /\ Len(fileinfo_queue) \in Nat
  BY FileFacts, LenProperties DEF FileTypes
<1>2. NumFiles \in Nat /\ remaining[f] \in Nat \ {0}
  BY FileFacts
<1>3. /\ remaining'[f] = remaining[f] - 1 /\ \A g \in File : g # f => remaining'[g] = remaining[g]
  BY <1>2, ReadsFile
<1>4. CASE remaining[f] > 1
  <2>1. remaining'[f] > 0
    BY <1>2, <1>3, <1>4
  <2>. QED  BY <1>1, <1>2, <1>3, <1>4, <2>1, SpellsAppend DEF QueueExact
<1>5. CASE ~(remaining[f] > 1)
  <2>1. remaining'[f] = 0
    BY <1>2, <1>3, <1>5
  <2>. QED  BY <1>1, <1>2, <1>3, <1>5, <2>1, SpellsSkip DEF QueueExact
<1>. QED  BY <1>4, <1>5

\* The last file in the queue, when the next block of it is read.
LEMMA ReadsLast ==
  ASSUME FileTypes, QueueExact, fileinfo_queue # <<>>, NEW w, SetupBlock(w, Last(fileinfo_queue))
  PROVE  LET f == Last(fileinfo_queue) IN
         /\ remaining[f] > 1 => Spells(fileinfo_queue, current_file, remaining')
         /\ ~(remaining[f] > 1) => /\ Front(fileinfo_queue) \in Seq(File)
                                   /\ Len(Front(fileinfo_queue)) = Len(fileinfo_queue) - 1
                                   /\ Spells(Front(fileinfo_queue), current_file, remaining')
<1>1. PICK f \in File : f = Last(fileinfo_queue) /\ f <= current_file /\ remaining[f] > 0
  BY LastHasData
<1>2. /\ remaining'[f] = remaining[f] - 1 /\ \A g \in File : g # f => remaining'[g] = remaining[g]
  BY <1>1, ReadsFile
<1>3. current_file \in Nat /\ fileinfo_queue \in Seq(File) /\ NumFiles \in Nat /\ remaining[f] \in Nat
  BY FileFacts DEF FileTypes
<1>4. CASE remaining[f] > 1
  <2>1. \A g \in File : remaining'[g] > 0 <=> remaining[g] > 0
    BY <1>2, <1>3, <1>4
  <2>. QED  BY <1>1, <1>4, <2>1 DEF QueueExact, Spells
<1>5. CASE ~(remaining[f] > 1)
  <2>1. remaining'[f] = 0
    BY <1>1, <1>2, <1>3, <1>5
  <2>. QED  BY <1>1, <1>2, <1>3, <1>5, <2>1, SpellsFront DEF QueueExact
<1>. QED  BY <1>1, <1>4, <1>5

LEMMA StartOneFiles ==
  ASSUME StartInv, FileInv, StartOne
  PROVE  FileInv' /\ \E f \in File : remaining[f] > 0 /\ SetupBlock(i, f)
<1>1. /\ N \in Nat \ {0} /\ i \in 1..N /\ SetupBlock(i, 1) /\ current_file' = current_file
      /\ fileinfo_queue' = (IF i = N /\ remaining'[1] > 0 THEN <<1>> ELSE <<>>)
      /\ main' = (IF remaining'[1] = 0 THEN "out" ELSE IF i = N THEN "wait" ELSE "one")
  BY PoolAssumption DEF StartOne, InitThread, StartInv, Starting
<1>2. /\ FileTypes /\ NumFiles = 1 /\ current_file = 1 /\ remaining[1] > 0 /\ File = {1}
      /\ 1 \in File
  BY FileFacts DEF FileInv, StartOne
<1>3. /\ blocks' = blocks /\ NumFiles' = NumFiles /\ File' = File /\ remaining' \in [File -> Nat]
      /\ \A g \in File : remaining'[g] <= blocks[g]
  BY <1>1, <1>2, ReadsFile
<1>4. /\ fileinfo_queue' \in Seq(File) /\ Len(fileinfo_queue') <= 1
      /\ i = N /\ remaining'[1] > 0 => fileinfo_queue' # <<>> /\ Len(fileinfo_queue') = 1 /\ fileinfo_queue'[1] = 1
  <2>1. <<1>> \in Seq(File) /\ Len(<<1>>) = 1 /\ <<1>>[1] = 1 /\ <<1>> # <<>>
    BY <1>2
  <2>2. <<>> \in Seq(File) /\ Len(<<>>) = 0
    OBVIOUS
  <2>. QED  BY <1>1, <2>1, <2>2
<1>5. FileTypes' /\ Len(fileinfo_queue') <= N + 1
  BY <1>1, <1>2, <1>3, <1>4, LenProperties DEF FileTypes
<1>6. \A f \in File' : f > current_file' => remaining'[f] = blocks'[f]
  BY <1>1, <1>2, <1>3
<1>7. main' = "one" => /\ NumFiles' = 1 /\ current_file' = 1 /\ remaining'[1] > 0
                       /\ fileinfo_queue' = <<>>
  BY <1>1, <1>2, <1>3
<1>8. main' = "wait" => fileinfo_queue' # <<>> /\ QueueExact'
  <2>1. ASSUME main' = "wait" PROVE i = N /\ remaining'[1] > 0
    BY <1>1, <1>2, <1>3, <2>1
  <2>. QED  BY <1>1, <1>2, <1>3, <1>4, <2>1 DEF QueueExact, Spells
<1>9. main' = "out" => HasData' = {}
  BY <1>1, <1>2, <1>3 DEF HasData
<1>10. FileInv'
  BY <1>1, <1>5, <1>6, <1>7, <1>8, <1>9 DEF FileInv, MoreData, NoData, Ending
<1>. QED  BY <1>1, <1>2, <1>10
LEMMA StartManyFiles ==
  ASSUME StartInv, FileInv, StartMany
  PROVE  FileInv' /\ \E f \in File : remaining[f] > 0 /\ SetupBlock(i, f)
<1>1. N \in Nat \ {0} /\ i \in 1..N /\ FileTypes /\ NumFiles \in Nat /\ NumFiles >= N
  BY PoolAssumption, FileFacts DEF StartMany, StartInv, Starting, FileInv
<1>2. /\ current_file = i - 1 /\ QueueExact /\ Len(fileinfo_queue) < i
      /\ \A g \in File : g > current_file => remaining[g] = blocks[g]
  BY DEF StartMany, FileInv
<1>3. PICK f : f = current_file + 1
  OBVIOUS
<1>4. f = i /\ f \in File /\ remaining[f] = blocks[f] /\ remaining[f] \in Nat \ {0}
  BY <1>1, <1>2, <1>3, FileFacts
<1>5. PICK rest : rest = IF remaining[f] > 1 THEN Append(fileinfo_queue, f) ELSE fileinfo_queue
  OBVIOUS
<1>6. PICK another \in BOOLEAN : another <=> i = N /\ rest = <<>> /\ f < NumFiles
  OBVIOUS
<1>7. /\ SetupBlock(i, f) /\ i' = i + 1
      /\ current_file' = (IF another THEN f + 1 ELSE f)
      /\ fileinfo_queue' = (IF another THEN <<f + 1>> ELSE rest)
      /\ main' = (IF i < N THEN "many" ELSE IF fileinfo_queue' = <<>> THEN "out" ELSE "wait")
  BY <1>3, <1>5, <1>6 DEF StartMany, InitThread
<1>8. /\ rest \in Seq(File) /\ Len(rest) <= Len(fileinfo_queue) + 1 /\ Spells(rest, f, remaining')
      /\ Len(rest) \in Nat /\ Len(fileinfo_queue) \in Nat
  BY <1>1, <1>2, <1>3, <1>4, <1>5, <1>7, OpensFile, LenProperties DEF FileTypes
<1>9. /\ blocks' = blocks /\ NumFiles' = NumFiles /\ File' = File /\ remaining' \in [File -> Nat]
      /\ \A g \in File : remaining'[g] <= blocks[g]
      /\ \A g \in File : g # f => remaining'[g] = remaining[g]
  BY <1>1, <1>4, <1>7, ReadsFile
<1>10. \A g \in File : g > f => remaining'[g] = blocks[g] /\ remaining'[g] > 0
  BY <1>1, <1>2, <1>3, <1>4, <1>9, FileFacts
<1>11. CASE another
  <2>1. f + 1 \in File /\ f \in Nat
    BY <1>1, <1>4, <1>6, <1>11 DEF File
  <2>2. rest = <<>> /\ i = N /\ main' \in {"out", "wait"} /\ current_file' = f + 1 /\ fileinfo_queue' = <<f + 1>>
    BY <1>1, <1>6, <1>7, <1>11
  <2>4. /\ fileinfo_queue' \in Seq(File) /\ fileinfo_queue' # <<>> /\ Len(fileinfo_queue') = 1
        /\ Spells(fileinfo_queue', current_file', remaining')
    <3>1. remaining'[f + 1] > 0
      BY <1>1, <1>10, <2>1
    <3>2. Spells(<<>>, f, remaining')
      BY <1>8, <2>2
    <3>. QED  BY <1>1, <2>1, <2>2, <3>1, <3>2, SpellsOne
  <2>5. QueueExact'
    BY <1>9, <2>4 DEF QueueExact, Spells
  <2>6. FileTypes' /\ main' = "wait"
    BY <1>1, <1>7, <1>9, <2>1, <2>2, <2>4 DEF FileTypes, File
  <2>7. \A g \in File' : g > current_file' => remaining'[g] = blocks'[g]
    BY <1>1, <1>9, <1>10, <2>1, <2>2 DEF File
  <2>8. Len(fileinfo_queue') <= N + 1
    BY <1>1, <2>4
  <2>. QED  BY <1>4, <1>7, <2>4, <2>5, <2>6, <2>7, <2>8 DEF FileInv, MoreData, NoData, Ending
<1>12. CASE ~another
  <2>1. current_file' = f /\ fileinfo_queue' = rest
    BY <1>7, <1>12
  <2>2. QueueExact'
    BY <1>8, <1>9, <2>1 DEF QueueExact, Spells
  <2>3. FileTypes' /\ Len(fileinfo_queue') <= N + 1
    BY <1>1, <1>2, <1>4, <1>8, <1>9, <2>1 DEF FileTypes, File
  <2>4. \A g \in File' : g > current_file' => remaining'[g] = blocks'[g]
    BY <1>9, <1>10, <2>1
  <2>5. main' = "many" => NumFiles' >= N /\ current_file' = i' - 1 /\ Len(fileinfo_queue') < i'
    BY <1>1, <1>2, <1>4, <1>7, <1>8, <1>9, <2>1
  <2>6. main' = "out" => HasData' = {}
    <3>1. ASSUME main' = "out" PROVE i = N /\ rest = <<>> /\ ~(f < NumFiles)
      BY <1>1, <1>6, <1>7, <1>12, <2>1, <3>1
    <3>2. ASSUME main' = "out" PROVE HasData' = {}
      <4>1. f = NumFiles /\ rest = <<>>
        BY <1>1, <1>4, <3>1, <3>2 DEF File
      <4>2. Spells(<<>>, NumFiles, remaining')
        BY <1>8, <4>1
      <4>. QED  BY <1>1, <1>9, <4>2, SpellsNone DEF HasData
    <3>. QED  BY <3>2
  <2>7. main' \in {"many", "out", "wait"} /\ (main' = "wait" => fileinfo_queue' # <<>>)
    BY <1>7
  <2>. QED  BY <1>4, <1>7, <2>2, <2>3, <2>4, <2>5, <2>6, <2>7 DEF FileInv, MoreData, NoData, Ending
<1>. QED  BY <1>11, <1>12
LEMMA StartFewFiles ==
  ASSUME StartInv, FileInv, StartFew
  PROVE  FileInv' /\ \E f \in File : remaining[f] > 0 /\ SetupBlock(i, f)
<1>1. N \in Nat \ {0} /\ i \in 1..N /\ FileTypes /\ NumFiles \in Nat /\ NumFiles < N
  BY PoolAssumption, FileFacts DEF StartFew, StartInv, Starting, FileInv
<1>2. /\ current_file = i - 1 /\ QueueExact /\ Len(fileinfo_queue) < i /\ current_file < NumFiles
      /\ \A g \in File : g > current_file => remaining[g] = blocks[g]
  BY DEF StartFew, FileInv
<1>3. PICK f : f = current_file + 1
  OBVIOUS
<1>4. f = i /\ f \in File /\ remaining[f] = blocks[f] /\ remaining[f] \in Nat \ {0}
  BY <1>1, <1>2, <1>3, FileFacts
<1>5. PICK rest : rest = IF remaining[f] > 1 THEN Append(fileinfo_queue, f) ELSE fileinfo_queue
  OBVIOUS
<1>6. /\ SetupBlock(i, f) /\ i' = i + 1 /\ current_file' = f /\ fileinfo_queue' = rest
      /\ main' = IF f < NumFiles THEN "few" ELSE IF fileinfo_queue' = <<>> THEN "out" ELSE "rest"
  BY <1>3, <1>5 DEF StartFew, InitThread
<1>7. /\ rest \in Seq(File) /\ Len(rest) <= Len(fileinfo_queue) + 1 /\ Spells(rest, f, remaining')
      /\ Len(rest) \in Nat /\ Len(fileinfo_queue) \in Nat
  BY <1>1, <1>2, <1>3, <1>4, <1>5, <1>6, OpensFile, LenProperties DEF FileTypes
<1>8. /\ blocks' = blocks /\ NumFiles' = NumFiles /\ File' = File /\ remaining' \in [File -> Nat]
      /\ \A g \in File : remaining'[g] <= blocks[g]
      /\ \A g \in File : g # f => remaining'[g] = remaining[g]
  BY <1>1, <1>4, <1>6, ReadsFile
<1>9. QueueExact'
  BY <1>6, <1>7, <1>8 DEF QueueExact, Spells
<1>10. FileTypes' /\ Len(fileinfo_queue') <= N + 1
  <2>1. f \in 0..NumFiles /\ Len(rest) <= N + 1
    BY <1>1, <1>2, <1>4, <1>7 DEF File
  <2>. QED  BY <1>1, <1>6, <1>7, <1>8, <2>1 DEF FileTypes
<1>11. \A g \in File' : g > current_file' => remaining'[g] = blocks'[g]
  BY <1>1, <1>2, <1>3, <1>4, <1>6, <1>8 DEF File
<1>12. main' = "few" => /\ NumFiles' < N /\ current_file' = i' - 1 /\ current_file' < NumFiles'
                        /\ Len(fileinfo_queue') < i'
  BY <1>1, <1>2, <1>4, <1>6, <1>7, <1>8
<1>13. main' # "few" => f = NumFiles
  BY <1>1, <1>4, <1>6 DEF File
<1>14. main' = "out" => HasData' = {}
  <2>1. ASSUME main' = "out" PROVE Spells(<<>>, NumFiles, remaining')
    BY <1>6, <1>7, <1>13, <2>1
  <2>. QED  BY <1>1, <1>8, <2>1, SpellsNone DEF HasData
<1>15. main' \in {"few", "out", "rest"} /\ (main' = "rest" => fileinfo_queue' # <<>>)
  BY <1>6
<1>16. FileInv'
  BY <1>6, <1>8, <1>9, <1>10, <1>11, <1>12, <1>13, <1>14, <1>15 DEF FileInv, MoreData, NoData, Ending
<1>. QED  BY <1>4, <1>6, <1>16

LEMMA StartRestFiles ==
  ASSUME StartInv, FileInv, StartRest
  PROVE  FileInv' /\ \E f \in File : remaining[f] > 0 /\ SetupBlock(i, f)
<1>1. N \in Nat \ {0} /\ i \in 1..N /\ FileTypes /\ NumFiles \in Nat /\ current_file = NumFiles
  BY PoolAssumption, FileFacts DEF StartRest, StartInv, Starting, FileInv
<1>2. /\ fileinfo_queue # <<>> /\ QueueExact /\ Len(fileinfo_queue) <= N + 1
      /\ fileinfo_queue \in Seq(File) /\ Len(fileinfo_queue) \in Nat
  BY LenProperties DEF StartRest, FileInv, MoreData, FileTypes
<1>3. PICK f \in File : f = Last(fileinfo_queue) /\ remaining[f] > 0
  BY <1>1, <1>2, LastHasData
<1>4. PICK rest : rest = IF remaining[f] > 1 THEN fileinfo_queue ELSE Front(fileinfo_queue)
  OBVIOUS
<1>5. /\ SetupBlock(i, f) /\ fileinfo_queue' = rest /\ current_file' = current_file
      /\ main' = IF fileinfo_queue' = <<>> THEN "out" ELSE IF i < N THEN "rest" ELSE "wait"
  BY <1>3, <1>4 DEF StartRest, InitThread
<1>6. rest \in Seq(File) /\ Len(rest) <= N + 1 /\ Spells(rest, current_file, remaining')
  BY <1>1, <1>2, <1>3, <1>4, <1>5, ReadsLast
<1>7. /\ blocks' = blocks /\ NumFiles' = NumFiles /\ File' = File /\ remaining' \in [File -> Nat]
      /\ \A g \in File : remaining'[g] <= blocks[g]
  BY <1>1, <1>3, <1>5, ReadsFile
<1>8. QueueExact'
  BY <1>5, <1>6, <1>7 DEF QueueExact, Spells
<1>9. FileTypes' /\ Len(fileinfo_queue') <= N + 1
  BY <1>1, <1>5, <1>6, <1>7 DEF FileTypes
<1>10. \A g \in File' : g > current_file' => remaining'[g] = blocks'[g]
  BY <1>1, <1>5, <1>7 DEF File
<1>11. main' = "out" => HasData' = {}
  <2>1. ASSUME main' = "out" PROVE Spells(<<>>, NumFiles, remaining')
    BY <1>1, <1>5, <1>6, <2>1
  <2>. QED  BY <1>1, <1>7, <2>1, SpellsNone DEF HasData
<1>12. main' \in {"rest", "out", "wait"} /\ (main' # "out" => fileinfo_queue' # <<>>)
  BY <1>5
<1>13. FileInv'
  BY <1>1, <1>5, <1>7, <1>8, <1>9, <1>10, <1>11, <1>12 DEF FileInv, MoreData, NoData, Ending
<1>. QED  BY <1>3, <1>5, <1>13

LEMMA FillFiles ==
  ASSUME FileInv, Fill
  PROVE  FileInv' /\ \E f \in File : remaining[f] > 0 /\ SetupBlock(worker, f)
<1>1. N \in Nat \ {0} /\ FileTypes /\ NumFiles \in Nat /\ current_file \in 0..NumFiles
  BY PoolAssumption, FileFacts DEF FileInv, FileTypes
<1>2. /\ fileinfo_queue # <<>> /\ QueueExact /\ Len(fileinfo_queue) <= N + 1
      /\ fileinfo_queue \in Seq(File) /\ Len(fileinfo_queue) \in Nat \ {0}
      /\ \A g \in File : g > current_file => remaining[g] = blocks[g]
  BY LastAndFront DEF Fill, FileInv, MoreData, FileTypes
<1>3. PICK f \in File : f = Last(fileinfo_queue) /\ f <= current_file /\ remaining[f] > 0
  BY <1>1, <1>2, LastHasData
<1>4. PICK more \in BOOLEAN : more <=> remaining[f] > 1
  OBVIOUS
<1>5. PICK another \in BOOLEAN : another <=> ~more /\ Len(fileinfo_queue) = 1 /\ current_file < NumFiles
  OBVIOUS
<1>6. /\ SetupBlock(worker, f) /\ main' = "keep"
      /\ current_file' = (IF another THEN current_file + 1 ELSE current_file)
      /\ fileinfo_queue' = (IF another THEN <<current_file + 1>>
                            ELSE IF ~more /\ Len(fileinfo_queue) > 1 THEN Front(fileinfo_queue)
                            ELSE fileinfo_queue)
      /\ out_of_data_local' <=> (~more /\ ~another /\ Len(fileinfo_queue) = 1)
  BY <1>3, <1>4, <1>5 DEF Fill, Goto
<1>7. /\ blocks' = blocks /\ NumFiles' = NumFiles /\ File' = File /\ remaining' \in [File -> Nat]
      /\ \A g \in File : remaining'[g] <= blocks[g]
      /\ \A g \in File : g # f => remaining'[g] = remaining[g]
  BY <1>1, <1>3, <1>6, ReadsFile
<1>8. \A g \in File : g > current_file => remaining'[g] = blocks[g] /\ remaining'[g] > 0
  <2>1. ASSUME NEW g \in File, g > current_file PROVE remaining'[g] = blocks[g] /\ remaining'[g] > 0
    <3>1. g # f
      BY <1>1, <1>3, <2>1 DEF File
    <3>2. blocks[g] > 0
      BY <1>1, FileFacts
    <3>. QED  BY <1>2, <1>7, <2>1, <3>1, <3>2
  <2>. QED  BY <2>1
<1>9. /\ more => Spells(fileinfo_queue, current_file, remaining')
      /\ ~more => /\ Front(fileinfo_queue) \in Seq(File)
                  /\ Len(Front(fileinfo_queue)) = Len(fileinfo_queue) - 1
                  /\ Spells(Front(fileinfo_queue), current_file, remaining')
  BY <1>1, <1>2, <1>3, <1>4, <1>6, ReadsLast
<1>10. ~more /\ Len(fileinfo_queue) = 1 => Spells(<<>>, current_file, remaining')
  BY <1>2, <1>9, EmptySeq
<1>11. CASE another
  <2>1. current_file + 1 \in File /\ current_file \in Nat
    BY <1>1, <1>5, <1>11 DEF File
  <2>2. /\ current_file' = current_file + 1 /\ fileinfo_queue' = <<current_file + 1>>
        /\ ~out_of_data_local'
    BY <1>6, <1>11
  <2>3. remaining'[current_file + 1] > 0
    BY <1>8, <2>1
  <2>4. /\ fileinfo_queue' \in Seq(File) /\ fileinfo_queue' # <<>> /\ Len(fileinfo_queue') = 1
        /\ Spells(fileinfo_queue', current_file', remaining')
    BY <1>1, <1>5, <1>10, <1>11, <2>1, <2>2, <2>3, SpellsOne
  <2>5. QueueExact'
    BY <1>7, <2>4 DEF QueueExact, Spells
  <2>6. FileTypes' /\ Len(fileinfo_queue') <= N + 1
    BY <1>1, <1>7, <2>1, <2>2, <2>4 DEF FileTypes, File
  <2>7. \A g \in File' : g > current_file' => remaining'[g] = blocks'[g]
    BY <1>1, <1>7, <1>8, <2>1, <2>2 DEF File
  <2>8. FileInv'
    BY <1>6, <2>2, <2>4, <2>5, <2>6, <2>7 DEF FileInv, MoreData, NoData, Ending
  <2>. QED  BY <1>3, <1>6, <2>8
<1>12. CASE ~another
  <2>1. current_file' = current_file
    BY <1>6, <1>12
  <2>2. \A g \in File' : g > current_file' => remaining'[g] = blocks'[g]
    BY <1>7, <1>8, <2>1
  <2>3. CASE ~more /\ Len(fileinfo_queue) = 1
    <3>1. out_of_data_local' /\ fileinfo_queue' = fileinfo_queue /\ current_file = NumFiles
      BY <1>1, <1>5, <1>6, <1>12, <2>3
    <3>2. HasData' = {}
      BY <1>1, <1>7, <1>10, <2>3, <3>1, SpellsNone DEF HasData
    <3>3. FileTypes' /\ Len(fileinfo_queue') <= N + 1
      BY <1>1, <1>2, <1>7, <2>1, <3>1 DEF FileTypes
    <3>4. FileInv'
      BY <1>6, <2>2, <3>1, <3>2, <3>3 DEF FileInv, MoreData, NoData, Ending
    <3>. QED  BY <1>3, <1>6, <3>4
  <2>4. CASE more \/ Len(fileinfo_queue) # 1
    <3>1. /\ ~out_of_data_local'
          /\ fileinfo_queue' = IF more THEN fileinfo_queue ELSE Front(fileinfo_queue)
      <4>1. PICK n \in Nat \ {0} : n = Len(fileinfo_queue)
        BY <1>2
      <4>2. CASE more
        BY <1>6, <1>12, <4>2
      <4>3. CASE ~more
        <5>1. n # 1 /\ n > 1
          BY <2>4, <4>1, <4>3
        <5>. QED  BY <1>6, <1>12, <4>1, <4>3, <5>1
      <4>. QED  BY <4>2, <4>3
    <3>2. /\ fileinfo_queue' \in Seq(File) /\ fileinfo_queue' # <<>> /\ Len(fileinfo_queue') <= N + 1
          /\ Spells(fileinfo_queue', current_file, remaining')
      <4>1. CASE more
        BY <1>2, <1>9, <3>1, <4>1
      <4>2. CASE ~more
        <5>1. Len(Front(fileinfo_queue)) # 0 /\ Len(Front(fileinfo_queue)) <= N + 1
          BY <1>1, <1>2, <1>9, <2>4, <4>2
        <5>. QED  BY <1>9, <3>1, <4>2, <5>1, EmptySeq
      <4>. QED  BY <4>1, <4>2
    <3>3. QueueExact' /\ FileTypes'
      BY <1>1, <1>7, <2>1, <3>2 DEF FileTypes, QueueExact, Spells
    <3>4. FileInv'
      BY <1>6, <2>2, <3>1, <3>2, <3>3 DEF FileInv, MoreData, NoData, Ending
    <3>. QED  BY <1>3, <1>6, <3>4
  <2>. QED  BY <2>3, <2>4
<1>. QED  BY <1>11, <1>12
LEMMA FilesKept ==
  ASSUME FileInv, UNCHANGED data,
         main' \in Starting => main' = main /\ i' = i,
         MoreData' => MoreData, NoData' => NoData
  PROVE  FileInv'
<1>1. /\ blocks' = blocks /\ remaining' = remaining /\ current_file' = current_file
      /\ fileinfo_queue' = fileinfo_queue
  BY DEF data
<1>2. NumFiles' = NumFiles /\ File' = File
  BY <1>1 DEF NumFiles, File
<1>3. (QueueExact' <=> QueueExact) /\ HasData' = HasData /\ (FileTypes' <=> FileTypes)
  BY <1>1, <1>2 DEF QueueExact, Spells, HasData, FileTypes
<1>4. main' \in {"one", "many", "few", "rest"} => main' = main /\ i' = i
  BY DEF Starting
<1>. QED  BY <1>1, <1>2, <1>3, <1>4 DEF FileInv

LEMMA FileStep ==
  ASSUME Types, StartInv, FileInv, Next
  PROVE  FileInv'
<1>1. CASE StartOne \/ StartMany \/ StartFew \/ StartRest \/ Fill
  BY <1>1, StartOneFiles, StartManyFiles, StartFewFiles, StartRestFiles, FillFiles
<1>2. CASE MainWait \/ MainLock \/ MainPop \/ ProgramError
  BY <1>2, FilesKept DEF MainWait, MainLock, MainPop, ProgramError, Goto, MoreData, NoData, Starting,
                         Ending, mainVars
<1>3. CASE Keep \/ MainPost
  <2>1. UNCHANGED data /\ main' \notin Starting
    BY <1>3 DEF Keep, MainPost, Goto, Starting
  <2>2. MoreData' => MoreData
    BY <1>3 DEF Keep, MainPost, Goto, MoreData, mainVars
  <2>3. NoData' => NoData
    BY <1>3 DEF Keep, MainPost, Goto, NoData, Ending, mainVars
  <2>. QED  BY <2>1, <2>2, <2>3, FilesKept
<1>4. CASE Ends
  BY <1>4, FilesKept DEF Ends, Out, Wake, Collect, Sort, Exit, Goto, MoreData, NoData, Starting, Ending,
                         mainVars
<1>5. ASSUME NEW w \in Worker, Work(w) PROVE FileInv'
  BY <1>5, WorkFrame, FilesKept DEF data, MoreData, NoData
<1>. QED  BY <1>1, <1>2, <1>3, <1>4, <1>5 DEF Next, Main, Ends

----------------------------------------------------------------------------
(* The blocks                                                              *)

LEMMA BlockFacts ==
  ASSUME FileTypes
  PROVE  \A b \in Block : /\ b[1] \in File /\ b[2] \in 1 .. blocks[b[1]] /\ b = <<b[1], b[2]>>
                          /\ blocks[b[1]] \in Nat /\ remaining[b[1]] \in Nat
<1>1. ASSUME NEW b \in Block
      PROVE  b[1] \in File /\ b[2] \in 1 .. blocks[b[1]] /\ b = <<b[1], b[2]>>
  <2>1. PICK f \in File : b \in {<<f, k>> : k \in 1 .. blocks[f]}
    BY DEF Block
  <2>2. PICK k \in 1 .. blocks[f] : b = <<f, k>>
    BY <2>1
  <2>. QED  BY <2>2
<1>. QED  BY <1>1, FileFacts

\* setup_block reads a block that was not read.
LEMMA ReadsBlock ==
  ASSUME FileTypes, NEW w, NEW f \in File, remaining[f] > 0, SetupBlock(w, f)
  PROVE  \E b \in Block : /\ b \notin BlocksRead /\ BlocksRead' = BlocksRead \union {b}
                          /\ Block' = Block /\ buf' = [buf EXCEPT ![w] = b]
<1>1. /\ blocks' = blocks /\ File' = File /\ remaining'[f] = remaining[f] - 1
      /\ \A g \in File : g # f => remaining'[g] = remaining[g]
  BY ReadsFile
<1>2. /\ blocks[f] \in Nat \ {0} /\ remaining[f] \in Nat /\ remaining[f] <= blocks[f]
      /\ Block' = Block
  BY <1>1, FileFacts DEF Block
<1>3. PICK k \in 1 .. blocks[f] : k = blocks[f] - remaining[f] + 1
  BY <1>2
<1>4. PICK nb : nb = <<f, k>>
  OBVIOUS
<1>5. nb \in Block /\ nb[1] = f /\ nb[2] = k
  BY <1>3, <1>4 DEF Block
<1>6. buf' = [buf EXCEPT ![w] = nb]
  BY <1>3, <1>4 DEF SetupBlock
<1>7. nb \notin BlocksRead /\ nb \in BlocksRead'
  BY <1>1, <1>2, <1>3, <1>5 DEF BlocksRead
<1>8. ASSUME NEW b \in Block, b # nb PROVE b \in BlocksRead' <=> b \in BlocksRead
  <2>1. /\ b[1] \in File /\ b[2] \in 1 .. blocks[b[1]] /\ b = <<b[1], b[2]>>
        /\ blocks[b[1]] \in Nat /\ remaining[b[1]] \in Nat
    BY BlockFacts
  <2>2. CASE b[1] = f
    <3>1. b[2] # k
      BY <1>4, <1>8, <2>1, <2>2
    <3>2. b \in BlocksRead <=> b[2] <= blocks[f] - remaining[f]
      BY <2>2 DEF BlocksRead
    <3>3. b \in BlocksRead' <=> b[2] <= blocks[f] - (remaining[f] - 1)
      BY <1>1, <1>2, <2>2 DEF BlocksRead
    <3>. QED  BY <1>2, <1>3, <2>1, <2>2, <3>1, <3>2, <3>3
  <2>3. CASE b[1] # f
    BY <1>1, <1>2, <2>1, <2>3 DEF BlocksRead
  <2>. QED  BY <2>2, <2>3
<1>9. BlocksRead' \subseteq Block /\ BlocksRead \subseteq Block
  BY <1>2 DEF BlocksRead
<1>. QED  BY <1>2, <1>5, <1>6, <1>7, <1>8, <1>9

\* The next block is put into the buffer of a worker that has none.
LEMMA BlockGiven ==
  ASSUME FileTypes, BlockInv, NEW w \in Worker, NEW f \in File, remaining[f] > 0, SetupBlock(w, f),
         parsed' = parsed, ~HasBlock(w), HasBlock(w)',
         \A u \in Worker : u # w => (HasBlock(u)' <=> HasBlock(u))
  PROVE  BlockInv'
<1>1. PICK b \in Block : /\ b \notin BlocksRead /\ BlocksRead' = BlocksRead \union {b}
                         /\ Block' = Block /\ buf' = [buf EXCEPT ![w] = b]
  BY ReadsBlock
<1>2. /\ buf'[w] = b /\ \A u \in Worker : u # w => buf'[u] = buf[u]
      /\ buf' \in [Worker -> Block \union {<<0, 0>>}]
  BY <1>1 DEF BlockInv
<1>3. parsed[b] = 0 /\ parsed \in [Block -> {0, 1}]
  BY <1>1 DEF BlockInv
<1>4. ASSUME NEW u \in Worker, HasBlock(u)' PROVE buf'[u] \in BlocksRead' /\ parsed[buf'[u]] = 0
  BY <1>1, <1>2, <1>3, <1>4 DEF BlockInv
<1>5. ASSUME NEW u \in Worker, NEW v \in Worker, HasBlock(u)', HasBlock(v)', buf'[u] = buf'[v] PROVE u = v
  <2>1. \A x \in Worker : HasBlock(x) => buf[x] # b
    BY <1>1 DEF BlockInv
  <2>. QED  BY <1>2, <1>5, <2>1 DEF BlockInv
<1>6. \A c \in Block : parsed[c] = 1 => c \in BlocksRead'
  BY <1>1 DEF BlockInv
<1>7. ASSUME NEW c \in BlocksRead', parsed[c] = 0 PROVE \E u \in Worker : HasBlock(u)' /\ buf'[u] = c
  <2>1. CASE c = b
    BY <1>2, <2>1
  <2>2. CASE c # b
    <3>1. PICK u \in Worker : HasBlock(u) /\ buf[u] = c
      BY <1>1, <1>7, <2>2 DEF BlockInv
    <3>2. u # w
      BY <3>1
    <3>. QED  BY <1>2, <3>1, <3>2
  <2>. QED  BY <2>1, <2>2
<1>. QED  BY <1>1, <1>2, <1>3, <1>4, <1>5, <1>6, <1>7 DEF BlockInv

LEMMA BlocksKept ==
  ASSUME BlockInv, buf' = buf, blocks' = blocks, remaining' = remaining, parsed' = parsed,
         \A u \in Worker : HasBlock(u)' <=> HasBlock(u)
  PROVE  BlockInv'
<1>1. Block' = Block /\ BlocksRead' = BlocksRead
  BY DEF BlocksRead, Block, File, NumFiles
<1>. QED  BY <1>1 DEF BlockInv

LEMMA BlockParsed ==
  ASSUME BlockInv, buf' = buf, blocks' = blocks, remaining' = remaining, NEW w \in Worker, HasBlock(w),
         parsed' = [parsed EXCEPT ![buf[w]] = @ + 1], ~HasBlock(w)',
         \A u \in Worker : u # w => (HasBlock(u)' <=> HasBlock(u))
  PROVE  BlockInv'
<1>1. Block' = Block /\ BlocksRead' = BlocksRead /\ BlocksRead \subseteq Block
  BY DEF BlocksRead, Block, File, NumFiles
<1>2. PICK b \in BlocksRead : b = buf[w] /\ parsed[b] = 0
  BY DEF BlockInv
<1>3. /\ parsed'[b] = 1 /\ \A c \in Block : c # b => parsed'[c] = parsed[c]
      /\ parsed' \in [Block -> {0, 1}]
  BY <1>1, <1>2 DEF BlockInv
<1>4. \A u \in Worker : HasBlock(u)' => u # w /\ HasBlock(u) /\ buf[u] # b
  BY <1>2 DEF BlockInv
<1>5. \A u \in Worker : HasBlock(u)' => buf[u] \in BlocksRead /\ parsed'[buf[u]] = 0
  BY <1>1, <1>3, <1>4 DEF BlockInv
<1>6. \A c \in Block : parsed'[c] = 1 => c \in BlocksRead
  BY <1>2, <1>3 DEF BlockInv
<1>7. ASSUME NEW c \in BlocksRead, parsed'[c] = 0 PROVE \E u \in Worker : HasBlock(u)' /\ buf[u] = c
  <2>1. c # b /\ parsed[c] = 0
    BY <1>1, <1>3, <1>7
  <2>2. PICK u \in Worker : HasBlock(u) /\ buf[u] = c
    BY <2>1 DEF BlockInv
  <2>. QED  BY <1>2, <2>1, <2>2
<1>. QED  BY <1>1, <1>3, <1>4, <1>5, <1>6, <1>7 DEF BlockInv

LEMMA BlockStep ==
  ASSUME Control, FileInv, BlockInv, Next
  PROVE  BlockInv'
<1>0. Types /\ StartInv /\ PopInv /\ FileTypes
  BY DEF Control, FileInv
<1>1. CASE StartOne \/ StartMany \/ StartFew \/ StartRest
  <2>1. Begin
    BY <1>0, <1>1, StartsBegin
  <2>2. PICK f \in File : remaining[f] > 0 /\ SetupBlock(i, f)
    BY <1>0, <1>1, StartOneFiles, StartManyFiles, StartFewFiles, StartRestFiles
  <2>3. PICK w \in Worker : w = i /\ pc[w] = "none" /\ main # "keep" /\ main' # "keep"
    BY <1>0, <2>1 DEF Begin, StartInv, Worker, Starting
  <2>4. /\ pc'[w] = "parse" /\ \A u \in Worker : u # w => pc'[u] = pc[u]
        /\ keep_alive' = keep_alive /\ parsed' = parsed
    BY <1>0, <2>1, <2>3 DEF Begin, Types
  <2>5. ~HasBlock(w) /\ HasBlock(w)'
    BY <2>3, <2>4 DEF HasBlock
  <2>6. \A u \in Worker : u # w => (HasBlock(u)' <=> HasBlock(u))
    BY <2>3, <2>4 DEF HasBlock
  <2>. QED  BY <1>0, <2>2, <2>3, <2>4, <2>5, <2>6, BlockGiven
<1>2. CASE Fill
  <2>1. PICK f \in File : remaining[f] > 0 /\ SetupBlock(worker, f)
    BY <1>2, FillFiles
  <2>2. worker \in Worker /\ pc[worker] \in {"post", "wait"} /\ ~keep_alive[worker] /\ main # "keep"
    BY <1>0, <1>2 DEF Fill, PopInv
  <2>3. pc' = pc /\ keep_alive' = keep_alive /\ worker' = worker /\ parsed' = parsed /\ main' = "keep"
    BY <1>2 DEF Fill, Goto, signals
  <2>4. ~HasBlock(worker) /\ HasBlock(worker)'
    BY <2>2, <2>3 DEF HasBlock
  <2>5. \A u \in Worker : u # worker => (HasBlock(u)' <=> HasBlock(u))
    BY <2>2, <2>3 DEF HasBlock
  <2>. QED  BY <1>0, <2>1, <2>2, <2>3, <2>4, <2>5, BlockGiven
<1>3. CASE Keep
  <2>1. worker \in Worker /\ pc[worker] \in {"post", "wait"} /\ main = "keep" /\ main' = "post"
    BY <1>0, <1>3 DEF Keep, Goto, PopInv
  <2>2. /\ pc' = pc /\ keep_alive'[worker] = TRUE
        /\ \A u \in Worker : u # worker => keep_alive'[u] = keep_alive[u]
    BY <1>0, <1>3, <2>1 DEF Keep, Types
  <2>3. \A u \in Worker : HasBlock(u)' <=> HasBlock(u)
    BY <2>1, <2>2 DEF HasBlock
  <2>. QED  BY <1>3, <2>3, BlocksKept DEF Keep, data
<1>4. CASE MainWait \/ MainLock \/ MainPop \/ MainPost \/ ProgramError \/ Ends
  <2>1. main # "keep" /\ main' # "keep"
    BY <1>4 DEF MainWait, MainLock, MainPop, MainPost, ProgramError, Ends, Out, Wake, Collect, Sort, Exit, Goto
  <2>2. UNCHANGED <<pc, keep_alive, buf, blocks, remaining, parsed>>
    BY <1>4 DEF MainWait, MainLock, MainPop, MainPost, ProgramError, Ends, Out, Wake, Collect, Sort, Exit,
                signals, data
  <2>3. \A u \in Worker : HasBlock(u)' <=> HasBlock(u)
    BY <2>1, <2>2 DEF HasBlock
  <2>. QED  BY <2>2, <2>3, BlocksKept
<1>5. ASSUME NEW w \in Worker, Work(w) PROVE BlockInv'
  <2>1. /\ UNCHANGED <<main, worker, buf, blocks, remaining>>
        /\ \A u \in Worker : u # w => pc'[u] = pc[u]
    BY <1>0, <1>5, WorkFrame
  <2>2. \A u \in Worker : u # w => keep_alive'[u] = keep_alive[u]
    BY <1>0, <1>5 DEF Work, Parse, Clear, Lock, Push, Unlock, Post, Wait, Woken, Leave, LastPost, Types,
                      signals
  <2>3. \A u \in Worker : u # w => (HasBlock(u)' <=> HasBlock(u))
    BY <2>1, <2>2 DEF HasBlock
  <2>4. CASE Parse(w)
    <3>1. HasBlock(w) /\ ~HasBlock(w)'
      BY <1>0, <2>4 DEF Parse, Step, Types, HasBlock
    <3>. QED  BY <2>1, <2>3, <2>4, <3>1, BlockParsed DEF Parse
  <2>5. CASE ~Parse(w)
    <3>1. parsed' = parsed
      BY <1>5, <2>5 DEF Work, Clear, Lock, Push, Unlock, Post, Wait, Woken, Leave, LastPost
    <3>2. main = "keep" /\ worker = w => pc[w] \in {"post", "wait"}
      BY <1>0 DEF PopInv
    <3>3. keep_alive[w] => pc[w] \in {"post", "wait", "woken", "parse", "clear"}
      BY DEF Control, KeepInv
    <3>4. HasBlock(w)' <=> HasBlock(w)
      BY <1>0, <1>5, <2>1, <2>5, <3>2, <3>3 DEF Work, Clear, Lock, Push, Unlock, Post, Wait, Woken, Leave,
                                                LastPost, Step, Types, signals, HasBlock
    <3>. QED  BY <2>1, <2>3, <3>1, <3>4, BlocksKept
  <2>. QED  BY <2>4, <2>5
<1>. QED  BY <1>1, <1>2, <1>3, <1>4, <1>5 DEF Next, Main, Ends
----------------------------------------------------------------------------
(* The invariant                                                           *)

LEMMA InitIInv == Init => IInv
<1>. SUFFICES ASSUME Init PROVE IInv
  OBVIOUS
<1>1. N \in Nat \ {0} /\ blocks \in Inputs /\ blocks \in Seq(Nat \ {0}) /\ blocks # <<>>
  BY PoolAssumption DEF Init
<1>2. NumFiles \in Nat \ {0} /\ (\A f \in File : blocks[f] \in Nat \ {0}) /\ File = 1..NumFiles
  BY <1>1, EmptySeq, LenProperties, ElementOfSeq DEF File, NumFiles
<1>3. blocks \in [File -> Nat]
  BY <1>1, LenProperties DEF File, NumFiles
<1>4. main \in {"one", "many", "few"} /\ \A w \in Worker : pc[w] = "none"
  BY DEF Init
<1>5. Types
  <2>1. i = 1 /\ worker = 0
    BY DEF Init
  <2>2. main \in Starting /\ i \in 1 .. N + 1 /\ worker \in 0..N
    BY <1>1, <1>4, <2>1 DEF Starting
  <2>3. pc \in [Worker -> Labels]
    BY DEF Init, Labels
  <2>4. thread_queue = <<>> /\ <<>> \in Seq(Worker)
    BY DEF Init
  <2>5. waiters \in Nat /\ sem \in [Worker -> Nat] /\ keep_alive \in [Worker -> BOOLEAN]
    BY DEF Init
  <2>6. out_of_data_local \in BOOLEAN /\ lock \in BOOLEAN
    BY DEF Init
  <2>. QED  BY <2>2, <2>3, <2>4, <2>5, <2>6 DEF Types
<1>6. LockInv
  BY <1>4 DEF Init, LockInv, Holding
<1>7. StartInv
  BY <1>1, <1>4 DEF Init, StartInv, Worker, Starting
<1>8. QueueInv
  <2>1. Len(thread_queue) = 0 /\ ~ \E k \in 1..0 : TRUE
    BY DEF Init
  <2>. QED  BY <2>1 DEF QueueInv, InQueue
<1>9. KeepInv /\ PopInv /\ SemInv
  BY <1>4 DEF Init, KeepInv, PopInv, SemInv, Starting
<1>10. CountInv
  <2>1. Posting = {}
    BY <1>4 DEF Posting
  <2>2. Len(thread_queue) = 0 /\ waiters = 0 /\ Cardinality({}) = 0 /\ main \notin {"lock", "pop"}
    BY <1>4, FS_EmptySet DEF Init
  <2>. QED  BY <2>1, <2>2 DEF CountInv
<1>11. LiveInv
  <2>1. Live = {}
    BY <1>4 DEF Live
  <2>. QED  BY <1>4, <2>1, FS_EmptySet DEF Init, LiveInv
<1>12. FileInv
  <2>1. FileTypes
    BY <1>1, <1>2, <1>3 DEF Init, FileTypes
  <2>2. fileinfo_queue = <<>> /\ Len(fileinfo_queue) = 0 /\ remaining = blocks /\ i = 1
    BY DEF Init
  <2>3. current_file = 0 => QueueExact
    <3>1. ~ \E k \in 1..0 : TRUE
      OBVIOUS
    <3>. QED  BY <1>2, <2>2, <3>1 DEF QueueExact, Spells
  <2>4. main = "one" => NumFiles = 1 /\ current_file = 1 /\ remaining[1] > 0
    BY <1>2, <2>2 DEF Init
  <2>5. main # "one" => current_file = 0
    BY DEF Init
  <2>6. (main = "many" => NumFiles >= N) /\ (main = "few" => NumFiles < N)
    BY <1>1, <1>2 DEF Init
  <2>. QED  BY <1>1, <1>2, <1>4, <2>1, <2>2, <2>3, <2>4, <2>5, <2>6 DEF FileInv, MoreData, NoData, Ending
<1>13. BlockInv
  <2>1. \A b \in Block : parsed[b] = 0 /\ b \notin BlocksRead
    <3>1. FileTypes /\ remaining = blocks
      BY <1>12 DEF FileInv, Init
    <3>2. ASSUME NEW b \in Block PROVE b \notin BlocksRead
      <4>1. b[1] \in File /\ b[2] \in 1 .. blocks[b[1]] /\ blocks[b[1]] \in Nat
        BY <3>1, BlockFacts
      <4>2. blocks[b[1]] - remaining[b[1]] = 0
        BY <3>1, <4>1
      <4>. QED  BY <4>1, <4>2 DEF BlocksRead
    <3>. QED  BY <3>2 DEF Init
  <2>2. buf \in [Worker -> Block \union {<<0, 0>>}] /\ parsed \in [Block -> {0, 1}]
    BY DEF Init
  <2>3. \A w \in Worker : ~HasBlock(w)
    BY <1>4 DEF HasBlock
  <2>. QED  BY <2>1, <2>2, <2>3 DEF BlockInv, BlocksRead
<1>. QED  BY <1>5, <1>6, <1>7, <1>8, <1>9, <1>10, <1>11, <1>12, <1>13 DEF IInv, Control

LEMMA StepIInv == IInv /\ [Next]_vars => IInv'
<1>. SUFFICES ASSUME IInv, [Next]_vars PROVE IInv'
  OBVIOUS
<1>1. CASE Next
  <2>1. Control'
    BY <1>1, ControlStep DEF IInv
  <2>2. CountInv'
    BY <1>1, CountStep DEF IInv, Control
  <2>3. LiveInv'
    BY <1>1, LiveStep DEF IInv, Control
  <2>4. FileInv'
    BY <1>1, FileStep DEF IInv, Control
  <2>5. BlockInv'
    BY <1>1, BlockStep DEF IInv
  <2>. QED  BY <2>1, <2>2, <2>3, <2>4, <2>5 DEF IInv
<1>2. CASE UNCHANGED vars
  <2>1. Control'
    BY <1>2 DEF vars, mainVars, queue, signals, data, IInv, Control, Types, LockInv, Holding, StartInv, QueueInv,
                InQueue, KeepInv, PopInv, SemInv
  <2>2. CountInv' /\ LiveInv'
    BY <1>2 DEF vars, mainVars, queue, signals, data, IInv, CountInv, Posting, LiveInv, Live
  <2>3. FileInv'
    BY <1>2, FilesKept DEF vars, mainVars, IInv, MoreData, NoData
  <2>4. BlockInv'
    BY <1>2, BlocksKept DEF vars, mainVars, signals, data, IInv, HasBlock
  <2>. QED  BY <2>1, <2>2, <2>3, <2>4 DEF IInv
<1>. QED  BY <1>1, <1>2

\* The invariant that the theorems below rest on.
THEOREM PoolInvariant == Safety => []IInv
BY InitIInv, StepIInv, PTL DEF Safety

----------------------------------------------------------------------------
(* What it implies                                                         *)

\* Without threads no worker can do anything but leave.
LEMMA NoneLive ==
  ASSUME LiveInv, live_threads = 0
  PROVE  \A w \in Worker : pc[w] \in {"none", "last", "gone"}
<1>1. IsFiniteSet(Live) /\ Cardinality(Live) = 0
  BY WorkerFinite, FS_Subset DEF Live, LiveInv
<1>2. Live = {}
  BY <1>1, FS_EmptySet
<1>. QED  BY <1>2 DEF Live

\* A worker that is once in the queue leaves room in it for all others.
LEMMA QueueFits ==
  ASSUME Types, QueueInv
  PROVE  Len(thread_queue) <= N
<1>1. PICK n \in Nat : n = Len(thread_queue)
  BY LenProperties DEF Types
<1>2. \A k \in 1..n : thread_queue[k] \in Worker
  BY <1>1, ElementOfSeq DEF Types
<1>3. PICK at : at = [k \in 1..n |-> thread_queue[k]]
  OBVIOUS
<1>4. at \in [1..n -> Worker] /\ \A k \in 1..n : at[k] = thread_queue[k]
  BY <1>2, <1>3
<1>5. IsFiniteSet(1..n) /\ Cardinality(1..n) = n /\ N \in Nat
  BY FS_Interval, PoolAssumption
<1>6. ~(Cardinality(Worker) < Cardinality(1..n))
  <2>1. SUFFICES ASSUME Cardinality(Worker) < Cardinality(1..n) PROVE FALSE
    OBVIOUS
  <2>2. \E x, y \in 1..n : x # y /\ at[x] = at[y]
    BY <1>4, <1>5, <2>1, WorkerFinite, FS_PigeonHole
  <2>. QED  BY <1>1, <1>4, <2>2 DEF QueueInv
<1>. QED  BY <1>1, <1>5, <1>6, WorkerFinite

LEMMA IInvTypeOK == IInv => TypeOK
<1>. SUFFICES ASSUME IInv PROVE TypeOK
  OBVIOUS
<1>1. Types /\ QueueInv /\ LiveInv /\ FileInv /\ FileTypes /\ BlockInv
  BY DEF IInv, Control, FileInv
<1>2. Len(thread_queue) <= N
  BY <1>1, QueueFits
<1>3. live_threads \in 0..N
  <2>1. Live \subseteq Worker
    BY DEF Live
  <2>2. Cardinality(Live) \in Nat /\ Cardinality(Live) <= N /\ N \in Nat
    BY <2>1, WorkerFinite, PoolAssumption, FS_Subset, FS_CardinalityType
  <2>. QED  BY <1>1, <2>2 DEF LiveInv
<1>4. parsed \in [Block -> Nat]
  BY <1>1 DEF BlockInv
<1>. QED  BY <1>1, <1>2, <1>3, <1>4 DEF TypeOK, Types, Starting, Serving, Ending, Labels, FileInv, FileTypes, BlockInv

\* The variables keep their types: the indices of the queues stay in the
\* arrays (fileinfo_queue, thread_queue), and the count of threads in 0..N.
THEOREM PoolTypes == Safety => []TypeOK
BY PoolInvariant, IInvTypeOK, PTL

\* Main reads a block only into the buffer of a worker that does not parse it
\* and was not woken yet.
THEOREM BuffersAreExclusive == Safety => []BufferExclusive
<1>1. IInv => BufferExclusive
  BY DEF IInv, Control, PopInv, BufferExclusive
<1>. QED  BY <1>1, PoolInvariant, PTL

\* Whenever main has taken the semaphore and the lock there is a worker in
\* the queue, and no worker is twice in it.
THEOREM QueueServes == Safety => []QueueServesMain
<1>1. IInv => QueueServesMain
  BY PopFinds DEF IInv, Control, QueueInv, QueueServesMain
<1>. QED  BY <1>1, PoolInvariant, PTL

\* Every block is parsed once before main sorts, and none twice.
THEOREM EveryBlockParsedOnce == Safety => []BlocksParsed
<1>1. IInv => BlocksParsed
  <2>. SUFFICES ASSUME IInv PROVE BlocksParsed
    OBVIOUS
  <2>1. \A b \in Block : parsed[b] \in {0, 1}
    BY DEF IInv, BlockInv
  <2>2. ASSUME main \in {"sort", "sorting", "done"}, NEW b \in Block PROVE parsed[b] = 1
    <3>1. \A w \in Worker : ~HasBlock(w)
      BY <2>2, NoneLive DEF IInv, LiveInv, HasBlock
    <3>2. FileTypes /\ HasData = {}
      BY <2>2 DEF IInv, FileInv, NoData, Ending
    <3>3. /\ b[1] \in File /\ b[2] \in 1 .. blocks[b[1]]
          /\ blocks[b[1]] \in Nat /\ remaining[b[1]] \in Nat
      BY <3>2, BlockFacts
    <3>4. remaining[b[1]] = 0
      BY <3>2, <3>3 DEF HasData
    <3>5. b \in BlocksRead
      BY <3>3, <3>4 DEF BlocksRead
    <3>. QED  BY <2>1, <3>1, <3>5 DEF IInv, BlockInv
  <2>. QED  BY <2>1, <2>2 DEF BlocksParsed
<1>. QED  BY <1>1, PoolInvariant, PTL

\* When main sorts no worker is left that could touch the table.
THEOREM MainSortsAlone == Safety => []SortsAlone
<1>1. IInv => SortsAlone
  BY NoneLive DEF IInv, LiveInv, SortsAlone
<1>. QED  BY <1>1, PoolInvariant, PTL
=============================================================================
