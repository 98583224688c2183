------------------------------- MODULE WordPool -------------------------------
(***************************************************************************)
(* cs520/prog5.c: the main thread reads the files block by block into the  *)
(* buffers of the workers, which parse them.  A worker that is done puts   *)
(* its number in thread_queue, under a spin lock, and posts a semaphore;   *)
(* main gives it the next block, or, when there is none left, wakes all    *)
(* workers until the last of them has exited and then sorts the words.     *)
(* The words are WordTable's: a block is a value here.                     *)
(***************************************************************************)
EXTENDS Integers, Sequences, FiniteSets

CONSTANTS N,         \* the workers: NUM_PROCS - 1
          Inputs     \* what the program may be given: how many blocks each file is

ASSUME PoolAssumption == /\ N \in Nat \ {0}
                         /\ Inputs \subseteq Seq(Nat \ {0}) \ {<<>>}

VARIABLES blocks,             \* blocks[f]: how many setup_block reads file f in
          main,               \* where the main thread is
          i,                  \* its loop variable
          worker,             \* worker_thread_id
          out_of_data_local,
          pc,                 \* where each worker is
          buf,                \* the block in thread_bufs[w]
          remaining,          \* blocks of each file not yet read
          current_file,       \* files opened so far
          fileinfo_queue,
          thread_queue,       \* the entries below thread_queue_index
          lock,               \* thread_queue_lock is held
          waiters,            \* main_thread_waiters
          sem,                \* thread_semaphores
          keep_alive, live_threads,
          parsed              \* history: how often each block was parsed

Worker == 1..N
NumFiles == Len(blocks)
File == 1..NumFiles
Block == UNION {{<<f, k>> : k \in 1 .. blocks[f]} : f \in File}

mainVars == <<i, worker, out_of_data_local>>
data == <<blocks, remaining, current_file, fileinfo_queue>>
queue == <<thread_queue, lock>>
signals == <<waiters, sem, keep_alive>>
vars == <<main, mainVars, pc, buf, data, queue, signals, live_threads, parsed>>

Init == /\ blocks \in Inputs
        /\ main = (IF NumFiles = 1 THEN "one" ELSE IF NumFiles >= N THEN "many" ELSE "few")
        /\ i = 1 /\ worker = 0 /\ out_of_data_local = FALSE
        /\ pc = [w \in Worker |-> "none"]
        /\ buf = [w \in Worker |-> <<0, 0>>]
        /\ remaining = blocks
        /\ current_file = (IF NumFiles = 1 THEN 1 ELSE 0)
        /\ fileinfo_queue = <<>>
        /\ thread_queue = <<>> /\ lock = FALSE
        /\ waiters = 0 /\ sem = [w \in Worker |-> 0]
        /\ keep_alive = [w \in Worker |-> FALSE] /\ live_threads = 0
        /\ parsed = [b \in Block |-> 0]

----------------------------------------------------------------------------
(* Reading files                                                           *)

Last(s) == s[Len(s)]
Front(s) == SubSeq(s, 1, Len(s) - 1)

\* setup_block: the next block of f goes into the buffer of w.
SetupBlock(w, f) ==
  /\ buf' = [buf EXCEPT ![w] = <<f, blocks[f] - remaining[f] + 1>>]
  /\ remaining' = [remaining EXCEPT ![f] = @ - 1]
  /\ UNCHANGED blocks

\* init_thread, and the count of threads that follows every call of it (the
\* workers change that count too, but not before main is out of data).
InitThread(w, f) ==
  /\ SetupBlock(w, f)
  /\ pc' = [pc EXCEPT ![w] = "parse"]
  /\ live_threads' = live_threads + 1
  /\ i' = i + 1
  /\ UNCHANGED <<worker, out_of_data_local, queue, signals, parsed>>

\* main, one file: start threads until the file is read or all are started.
StartOne ==
  /\ main = "one"
  /\ InitThread(i, 1)
  /\ fileinfo_queue' = IF i = N /\ remaining'[1] > 0 THEN <<1>> ELSE <<>>
  /\ main' = IF remaining'[1] = 0 THEN "out" ELSE IF i = N THEN "wait" ELSE "one"
  /\ UNCHANGED current_file

\* At least as many files as workers: each worker starts with a file.
StartMany ==
  /\ main = "many"
  /\ LET f == current_file + 1
         rest == IF remaining[f] > 1 THEN Append(fileinfo_queue, f) ELSE fileinfo_queue
         another == i = N /\ rest = <<>> /\ f < NumFiles
     IN /\ InitThread(i, f)
        /\ current_file' = IF another THEN f + 1 ELSE f
        /\ fileinfo_queue' = IF another THEN <<f + 1>> ELSE rest
        /\ main' = IF i < N THEN "many" ELSE IF fileinfo_queue' = <<>> THEN "out" ELSE "wait"

\* Fewer: one file for each worker, as far as they go, ...
StartFew ==
  /\ main = "few"
  /\ LET f == current_file + 1
     IN /\ InitThread(i, f)
        /\ current_file' = f
        /\ fileinfo_queue' = IF remaining[f] > 1 THEN Append(fileinfo_queue, f)
                             ELSE fileinfo_queue
        /\ main' = IF f < NumFiles THEN "few"
                   ELSE IF fileinfo_queue' = <<>> THEN "out" ELSE "rest"

\* ... then the other workers with what the files have left.
StartRest ==
  /\ main = "rest"
  /\ LET f == Last(fileinfo_queue)
     IN /\ InitThread(i, f)
        /\ fileinfo_queue' = IF remaining[f] > 1 THEN fileinfo_queue ELSE Front(fileinfo_queue)
        /\ main' = IF fileinfo_queue' = <<>> THEN "out" ELSE IF i < N THEN "rest" ELSE "wait"
  /\ UNCHANGED current_file

\* Any open, stat, read or close may fail; PROGRAM_ERROR ends the program.
ProgramError ==
  /\ main \in {"one", "many", "few", "rest", "fill"}
  /\ main' = "failed"
  /\ UNCHANGED <<mainVars, pc, buf, data, queue, signals, live_threads, parsed>>

----------------------------------------------------------------------------
(* main_wait_loop                                                          *)

Goto(label) == main' = label

MainWait ==
  /\ main = "wait" /\ waiters > 0
  /\ waiters' = waiters - 1
  /\ Goto("lock")
  /\ UNCHANGED <<mainVars, pc, buf, data, queue, sem, keep_alive, live_threads, parsed>>

MainLock ==
  /\ main = "lock" /\ ~lock
  /\ lock' = TRUE
  /\ Goto("pop")
  /\ UNCHANGED <<mainVars, pc, buf, data, thread_queue, signals,
                 live_threads, parsed>>

\* worker_thread_id=thread_queue[--thread_queue_index], and the unlock.
MainPopKeeps ==   \* a mutant: the index is not moved
  /\ main = "pop"
  /\ worker' = Last(thread_queue)
  /\ lock' = FALSE
  /\ Goto("fill")
  /\ UNCHANGED <<i, out_of_data_local, pc, buf, data, thread_queue, signals, live_threads, parsed>>
MainPopFirst ==   \* a mutant: the first in the queue is taken, and the last dropped
  /\ main = "pop"
  /\ worker' = Head(thread_queue)
  /\ thread_queue' = Front(thread_queue)
  /\ lock' = FALSE
  /\ Goto("fill")
  /\ UNCHANGED <<i, out_of_data_local, pc, buf, data, signals, live_threads, parsed>>
MainPop ==
  /\ main = "pop"
  /\ worker' = Last(thread_queue)
  /\ thread_queue' = Front(thread_queue)
  /\ lock' = FALSE
  /\ Goto("fill")
  /\ UNCHANGED <<i, out_of_data_local, pc, buf, data, signals, live_threads, parsed>>

\* setup_thread_args: afterwards the queue has a file with data, or we are out.
Fill ==
  /\ main = "fill"
  /\ LET f == Last(fileinfo_queue)
         more == remaining[f] > 1
         another == ~more /\ Len(fileinfo_queue) = 1 /\ current_file < NumFiles
     IN /\ SetupBlock(worker, f)
        /\ current_file' = IF another THEN current_file + 1 ELSE current_file
        /\ fileinfo_queue' = IF another THEN <<current_file + 1>>
                             ELSE IF ~more /\ Len(fileinfo_queue) > 1 THEN Front(fileinfo_queue)
                             ELSE fileinfo_queue
        /\ out_of_data_local' = (~more /\ ~another /\ Len(fileinfo_queue) = 1)
  /\ Goto("keep")
  /\ UNCHANGED <<i, worker, pc, queue, signals, live_threads, parsed>>

Keep ==
  /\ main = "keep"
  /\ keep_alive' = [keep_alive EXCEPT ![worker] = TRUE]
  /\ Goto("post")
  /\ UNCHANGED <<mainVars, pc, buf, data, queue, waiters, sem, live_threads, parsed>>

MainPost ==
  /\ main = "post"
  /\ sem' = [sem EXCEPT ![worker] = @ + 1]
  /\ worker' = 0   \* dead
  /\ Goto(IF out_of_data_local THEN "out" ELSE "wait")
  /\ UNCHANGED <<i, out_of_data_local, pc, buf, data, queue, waiters, keep_alive, live_threads,
                 parsed>>

\* OUT_OF_DATA: while(live_threads) ...
OutOne ==   \* a mutant: the last thread is not waited for
  /\ main = "out"
  /\ i' = 1
  /\ Goto(IF live_threads <= 1 THEN "sort" ELSE "wake")
  /\ UNCHANGED <<worker, out_of_data_local, pc, buf, data, queue, signals, live_threads, parsed>>
Out ==
  /\ main = "out"
  /\ i' = 1
  /\ Goto(IF live_threads = 0 THEN "sort" ELSE "wake")
  /\ UNCHANGED <<worker, out_of_data_local, pc, buf, data, queue, signals, live_threads, parsed>>

\* ... post every semaphore, also those of threads that do not wait or exist, ...
Wake ==
  /\ main = "wake"
  /\ sem' = [sem EXCEPT ![i] = @ + 1]
  /\ i' = i + 1
  /\ Goto(IF i = N THEN "collect" ELSE "wake")
  /\ UNCHANGED <<worker, out_of_data_local, pc, buf, data, queue, waiters, keep_alive,
                 live_threads, parsed>>

\* ... and wait for one of them to be done or gone.
Collect ==
  /\ main = "collect" /\ waiters > 0
  /\ waiters' = waiters - 1
  /\ Goto("out")
  /\ UNCHANGED <<mainVars, pc, buf, data, queue, sem, keep_alive, live_threads, parsed>>

\* sort_words, under the lock, which is never given back; then exit.
Sort ==
  /\ main = "sort" /\ ~lock
  /\ lock' = TRUE
  /\ Goto("sorting")
  /\ UNCHANGED <<mainVars, pc, buf, data, thread_queue, signals,
                 live_threads, parsed>>
Exit == /\ main = "sorting"
        /\ Goto("done")
        /\ UNCHANGED <<mainVars, pc, buf, data, queue, signals, live_threads, parsed>>

Main == \/ StartOne \/ StartMany \/ StartFew \/ StartRest
        \/ MainWait \/ MainLock \/ MainPop \/ Fill \/ Keep \/ MainPost
        \/ Out \/ Wake \/ Collect \/ Sort \/ Exit
----------------------------------------------------------------------------
(* thread_main                                                             *)

Step(w, from, to) == /\ main \notin {"done", "failed"}   \* exit ends all threads
                     /\ pc[w] = from
                     /\ pc' = [pc EXCEPT ![w] = to]
                     /\ UNCHANGED <<main, mainVars, buf, data>>

Parse(w) ==
  /\ Step(w, "parse", "clear")
  /\ parsed' = [parsed EXCEPT ![buf[w]] = @ + 1]
  /\ UNCHANGED <<queue, signals, live_threads>>

Clear(w) ==
  /\ Step(w, "clear", "lock")
  /\ keep_alive' = [keep_alive EXCEPT ![w] = FALSE]
  /\ UNCHANGED <<queue, waiters, sem, live_threads, parsed>>

\* The queue is changed between the lock and the unlock.
Lock(w) ==
  /\ Step(w, "lock", "push") /\ ~lock
  /\ lock' = TRUE
  /\ UNCHANGED <<thread_queue, signals, live_threads, parsed>>

Push(w) ==
  /\ Step(w, "push", "unlock")
  /\ thread_queue' = Append(thread_queue, w)
  /\ UNCHANGED <<lock, signals, live_threads, parsed>>

Unlock(w) ==
  /\ Step(w, "unlock", "post")
  /\ lock' = FALSE
  /\ UNCHANGED <<thread_queue, signals, live_threads, parsed>>

PostClears(w) ==   \* a mutant: keep_alive is cleared after the worker is in the queue
  /\ Step(w, "post", "wait")
  /\ waiters' = waiters + 1
  /\ keep_alive' = [keep_alive EXCEPT ![w] = FALSE]
  /\ UNCHANGED <<queue, sem, live_threads, parsed>>
Post(w) ==
  /\ Step(w, "post", "wait")
  /\ waiters' = waiters + 1
  /\ UNCHANGED <<queue, sem, keep_alive, live_threads, parsed>>

Wait(w) ==
  /\ Step(w, "wait", "woken") /\ sem[w] > 0
  /\ sem' = [sem EXCEPT ![w] = @ - 1]
  /\ UNCHANGED <<queue, waiters, keep_alive, live_threads, parsed>>

Woken(w) ==
  /\ Step(w, "woken", IF keep_alive[w] THEN "parse" ELSE "exit")
  /\ UNCHANGED <<queue, signals, live_threads, parsed>>

\* EXIT: the count first, so that main finds it changed when it is woken.
Leave(w) ==
  /\ Step(w, "exit", "last")
  /\ live_threads' = live_threads - 1
  /\ UNCHANGED <<queue, signals, parsed>>

LastPostDropped(w) ==   \* a mutant: a thread exits without waking main
  Step(w, "last", "gone") /\ UNCHANGED <<queue, signals, live_threads, parsed>>
LastPost(w) ==
  /\ Step(w, "last", "gone")
  /\ waiters' = waiters + 1
  /\ UNCHANGED <<queue, sem, keep_alive, live_threads, parsed>>

Work(w) == \/ Parse(w) \/ Clear(w) \/ Lock(w) \/ Push(w) \/ Unlock(w) \/ Post(w)
           \/ Wait(w) \/ Woken(w) \/ Leave(w) \/ LastPost(w)

\* No step follows "done" and "failed": the program has exited.
Next == Main \/ ProgramError \/ \E w \in Worker : Work(w)

Safety == Init /\ [][Next]_vars

\* The kernel runs every thread that can run.  (A spin lock gives no more than
\* this: whoever waits for it gets it once the others stop competing.)
Spec == Safety /\ WF_vars(Main) /\ \A w \in Worker : WF_vars(Work(w))

----------------------------------------------------------------------------
(* Properties                                                              *)

TypeOK ==
  /\ main \in {"one", "many", "few", "rest", "wait", "lock", "pop", "fill", "keep", "post",
               "out", "wake", "collect", "sort", "sorting", "done", "failed"}
  /\ i \in 1 .. N + 1 /\ worker \in 0..N /\ out_of_data_local \in BOOLEAN
  /\ pc \in [Worker -> {"none", "parse", "clear", "lock", "push", "unlock", "post", "wait",
                        "woken", "exit", "last", "gone"}]
  /\ buf \in [Worker -> Block \union {<<0, 0>>}]
  /\ remaining \in [File -> Nat] /\ current_file \in 0..NumFiles
  /\ fileinfo_queue \in Seq(File) /\ Len(fileinfo_queue) <= N + 1
  /\ thread_queue \in Seq(Worker) /\ Len(thread_queue) <= N
  /\ lock \in BOOLEAN /\ waiters \in Nat /\ sem \in [Worker -> Nat]
  /\ keep_alive \in [Worker -> BOOLEAN] /\ live_threads \in 0..N
  /\ parsed \in [Block -> Nat]

(* Main reads the next block into a buffer only while its worker is not    *)
(* parsing it: the worker that was popped waits, and is not asked twice.   *)
BufferExclusive == main \in {"fill", "keep", "post"} =>
                     worker \in Worker /\ pc[worker] \in {"post", "wait"} /\ sem[worker] = 0

(* prog5.c:305: the queue always has an entry for main to pop, and every    *)
(* worker is at most once in it.                                           *)
QueueServesMain ==
  /\ main = "pop" => thread_queue # <<>>
  /\ \A k1, k2 \in 1 .. Len(thread_queue) : thread_queue[k1] = thread_queue[k2] => k1 = k2

(* No block is parsed twice, and none is left out: when main sorts, every  *)
(* block of every file has been parsed.                                    *)
BlocksParsed == /\ \A b \in Block : parsed[b] <= 1
                /\ main \in {"sort", "sorting", "done"} => \A b \in Block : parsed[b] = 1

(* The words are sorted when no other thread can change them any more.     *)
SortsAlone == main \in {"sort", "sorting"} =>
                \A w \in Worker : pc[w] \in {"none", "last", "gone"}

(* The program ends: main is always woken for the exit of the last thread, *)
(* and every thread is woken for the end of the data.                      *)
Terminates == <>(main \in {"done", "failed"})
=============================================================================
