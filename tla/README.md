# A verification model of the concurrent programs of this repository

The repository is one person's collection of programs: an event loop, a lock-free
word counter and a memory simulator written for a systems course (`src/cs520`), a
library of C data structures (`src/C_util`), daemons, games, scripts and course
work in twenty languages, and some vendored media code.  There is no single
program, so the project models the parts whose correctness depends on an order of
events: several threads, callbacks, shared memory, or a long sequence of calls
that keeps redundant state consistent.  Sequential exercises, I/O and third-party
code stay outside and are listed with the reason.

Contents: 1 inventory, 2 modules and how they correspond to the code, 3 what the
runs check and show, 4 bounds, 5 fairness, 6 what is proved, 7 what is only
model-checked, 8 what the code does that its text denies, 9 what is not
modelled, 10 plan.

## 1. Inventory

### Event loop (`src/cs520/prog6/EventLoop.c`, `.h`)

* State: a handle with `state` (1 created, 2 running, 0 stopped), `handler_queue`
  (cells with a head and a tail pointer, under the spin lock `queue_lock`),
  `event_alist` (pairs event/handler, newest first, under the read-write lock
  `alist_lock`) and `semaphore`, one token for every queued cell.
* Operations: create, register, announce (look up under one lock, append under
  another, post with none), start (abort unless created), `main_loop` (test the
  state, wait, pop, run, free), stop (abort unless running), cleanup.
* Hard: announcing is three critical steps that interleave with other announcers,
  with registration, and with the loop; handlers run inside the loop and may
  announce, register and stop; the handle is freed while detached threads exist.
* Correct when: every announcement ends in exactly one place; announcements of one
  thread keep their order; the token count matches the queue; no overridden handler
  is used; nothing dangles in the list; an announcement to a running loop settles.

### Stream (`Stream.c`, `.h`) and its clients (`streamPi.c`, `readFile.c`)

* State: a detached thread for each stream; the client's record, which the produce
  function (stream thread) and the handlers (loop thread) share without a lock.
* Operations: create, start (`pthread_create` may fail), the produce/announce cycle,
  the last "end" announcement, cleanup from a handler.
* Hard: cleanup frees the stream and the loop while nobody joins the thread; the
  only synchronisation is the semaphore of the loop and the order of its queue.
* Correct when: the result that is printed is made of all the parts; stream, loop
  and boxes are freed after their last use; the program ends.

### Word table (`src/cs520/prog5.c`, `prog5.h`)

* State: `global_hash_table` of pointers to `english_word` structs, taken by compare
  and exchange; `hash_table_indices` with its counter; the private memory of each
  thread, from which the next struct is taken only after the last was published.
* Operations: `atomic_hash_table_update`: probe, find, take, reread, count, mark.
* Hard: lock-free; the slot is seen free, read again and exchanged in three steps.
* Correct when: a word has one entry; a probe never stops early; counts and files
  are exact; the indices list the table; entries never move or change their word.

### Word pool (`src/cs520/prog5.c`)

* State: `thread_queue` and its spin lock, `main_thread_waiters`, a semaphore, a
  buffer and a `keep_alive` flag for each worker, `live_threads`, the files.
* Operations: three ways of starting workers (one file, fewer files than workers,
  more), the main wait loop, the end (wake everybody until the count is 0), the
  worker's parse, clear, push, post, wait, exit.
* Interacts with the word table: workers call it for every word, main for the words
  on block borders, and sorting reads the table when all workers are gone.
* Hard: the flag is written by both sides; at the end the same semaphore counts
  queue entries and exits; main posts to threads that may not exist.
* Correct when: each block is parsed once; a buffer is never filled while it is
  parsed; the queue is never popped empty; sorting is alone; the program ends.

### Virtual memory simulation (`src/cs520/prog7/simVM.c`, `.h`)

* State: for each page, in-page-table, in-TLB, dirty and time; two arrays with an
  index for round robin; counters of faults, misses and writes; a 32-bit clock.
* Operations: `createVM` with its checks, reads and writes through `vm_update`.
* Hard: three representations of the same sets, changed in different branches; a
  page that leaves the page table takes its TLB entry along.
* Correct when: the tables are full and agree, the victims are the ones the
  algorithms name, and no write to a page is lost.

### Job control (`src/libvirt/job_control.c`, `.h`)

* State, all under the lock of the domain: the active job and its owner, an
  asynchronous job with its owner, phase and mask, `jobs_queued`, the domain's
  reference count, and two conditions, `cond` (a job is active) and `asyncCond` (the
  job is not allowed beside the asynchronous one).
* Operations: begin a job, an asynchronous job, or a nested job under one's own
  asynchronous job; end; set the mask and the phase; release, and discard when the
  client is gone.  A begin waits up to 30 seconds from the start of the call, on the one
  condition, then on the other, and starts over when it finds itself forbidden.
* Hard: each wait gives the lock up; `virCondSignal` wakes one waiter, perhaps one that
  still cannot start; wake-ups may be spurious; a retry passes the limit on waiters
  a second time; the clock may fail after the call was counted.
* Correct when: the domain's job is the one job somebody began and did not end; nothing
  starts that the mask forbids at that moment; counts and references come back on
  every path but those the code forgets; the limit holds; every call returns.

### vndb client (`src/vndb/connection.cpp`, `vndb.h`, `main.cpp`, `update_db_info.sql`)

* State: the tables of a local database, of which only committed pages outlast the
  program; while it runs, the table, window, page and counts of the nested loops of
  `download_all`, `get_all` and `send_get_command`, and one error flag in the connection.
* Operations: download (from id 1) and update (from the largest stored id) of five
  tables; a page is fetched, then inserted in one transaction.
* Interacts with a server that grows, that may answer "throttled" or an error, or not at
  all, and with whoever kills the program and starts it again.
* Hard: a retry must ask for the same page; windows advance by the number of objects that
  came, which is not the number of ids; a failure is reported through a return value
  that is added up and a flag that is tested elsewhere.
* Correct when: no hole is left below the largest stored id, since no update would ever
  fill it; no window passes an object over; a success means that all is there; runs end.

### Not modelled yet, with state and concurrency of their own

| part | state and operations | hard | properties it calls for |
|---|---|---|---|
| futex locks, `src/cs520/my_threads.c` | a futex word, a spin lock | `futex_down` decides by a second read and does not retry | mutual exclusion, no lost wakeup |
| word count on futexes, `src/cs520/prog5_my_threads.c`, `prog5_one_file.c` | as the word pool, with `FUTEX_WAIT`/`FUTEX_WAKE` and `clone` | late wakes; out of data tested by the wrong side | each block parsed once |
| concurrent hash table, `src/C_util/hash.c` | chains, a count of threads inside, a resize | the resize waits for the threads inside | no entry lost by a resize, no deadlock |
| alarm daemon, `src/alarmd` | a heap of alarms, a timer thread, a socket server | an earlier alarm arrives while the thread sleeps | alarms go off in order, none lost (the source does not compile as it stands, so what a program built from it would do is open) |
| game of life, `src/life` | two grids, two semaphores | the threads of events and of work hand the grid over | the grid has one owner |
| ranking, `src/cs520/prog5_heap.c` | a heap of the commonest words | bounds | the heap against a reference ranking |

### Parts without logic of that kind

The echo server of `src/echo_c`, the course virtual machine (`vm*.c`), the arena
allocator, the other exercises of `cs520`, the sequential containers and text
routines of `C_util`, the C++ utilities, two algorithms courses (`algorithms`,
`cs758`), graphics, the programs in other languages, vendored
code, notes.  PROJECT.json lists each with its reason.

## 2. Modules

| module | models | uses |
|---|---|---|
| EventChannel | what `EventLoop.h` promises: a FIFO of accepted announcements | |
| EventLoop | `EventLoop.c`, one step per critical section | EventChannel by INSTANCE |
| TailQueue | the linked list of `EventLoop.c`, one step per pointer write | |
| Stream | `Stream.c` | EXTENDS EventLoop |
| StreamPi, ReadFile | the two programs on top of it, from `main` to `exit` | EXTEND Stream |
| WordCount | what the table of words promises: shared counters | |
| WordTable | `atomic_hash_table_update`, one step per shared access | WordCount by INSTANCE |
| WordPool | the threads of `prog5.c`, from `main` to the sort | |
| SimVM | `simVM.c` | |
| DomainJobs | what job control promises: one job at a time, one asynchronous job, its mask | |
| JobControl | `job_control.c`, one step from one wait to the next | DomainJobs by INSTANCE |
| VndbDownload | download and update of the main tables, with faults and restarts | |
| EventLoopProofs, TailQueueProofs, WordTableProofs, WordPoolProofs, SimVMProofs, JobControlProofs, VndbProofs | theorems | EXTEND the module they are about |
| StreamsProofs | theorems about the two stream programs | EXTENDS MCStreams, EventLoopProofs |
| MCStreams | the two stream programs as one choice at the start, for one run | EXTENDS StreamPi, ReadFile by INSTANCE |
| MCEventLoop, MCTailQueue, MCWordTable, MCWordPool | values, symmetry and bounds for TLC | |

**EventLoop.**  `state`, `queue`, `alist` and `sem` are the fields of the handle.
`pc[t]` is where thread `t` is inside `announce_event` and `call[t]` its arguments;
`lpc` is the place of the loop's thread in `main`, `start_event_loop` and
`main_loop`.  `AnnounceEvent`, `LookupFinds`/`LookupFails`, `QueueAppend`, `SemPost`
are the stretches of `announce_event` between the points where another thread can
get in; `TestState`, `SemWait`, `RunHandler`, `HandlerReturns` those of `main_loop`.
Client code (`Client`) may call anything at any time that the header allows: the
other threads announce and register, the initial function and the handlers do too,
and handlers stop.  `abort()` and the null dereference of an empty pop are states
of their own (`aborted`, `crashed`).  Calling `cleanupEventLoop` while another
thread is in a call is excluded by `CleanupContract`, which is the comment at
EventLoop.c:323; `NoUseAfterFree` in the client models checks that a real
client keeps it.

**TailQueue** opens the critical section of EventLoop's queue: `LinkTail`,
`SetHead`, `SetTail` are the three pointer writes of `queue_append`, `PopOnly`,
`ClearTail`, `PopHead` those of `queue_pop`; cells are allocated, freed and
allocated again, and `BeginCleanup`, `FreeNext`, `EndCleanup` are the loop of
`cleanup_event_loop`.  It justifies the sequence that EventLoop.tla uses.

**Stream, StreamPi, ReadFile** reuse EventLoop's actions: a stream's announcement
is `AnnounceEvent` of its thread, a handler's body runs where EventLoop says
`lpc = "handler"`.  `body` is where the initial function or the handler is.
StreamPi's boxes are the boxed doubles of `piSlice`; a partial sum is the number of
its chunk, the sum the set of chunks added.  In ReadFile each access to the shared
record is a step; a file is its length and the offsets of its newlines.

**WordTable.**  `heap` holds the structs, addressed by thread and position in the
thread's memory; `table` the pointers.  `Skip`, `Found`, `Free` are the outcomes of
the loop test, `Reread` the second load, `Exchange` the compare and exchange,
`TakeIndex` and `Store` the two halves of listing a slot, `AddCount` and `SetBits`
the two atomic updates.  Words and files are model values and `Hash` any function,
so that collisions are chosen and not computed.  `own` says that the string of the
word is a copy and not a pointer into a buffer that will be read over.  `indices` has
half as many places as the table has slots (`Place`), as in prog5.h:231.  `Overrun` is the
store of a call that was given an index outside them; it writes over whatever the
compiler put behind the array, so the model goes no further (`overrun`), and the
properties speak of all states up to there.

**WordPool.**  `main` is the place of the main thread, in three start loops, the
wait loop and the end; `pc[w]` that of a worker.  A block is a pair (file, number);
what parsing does to the table is WordTable's business.  The semaphore operations,
the lock, the flag and the counter are single steps.

**SimVM.**  `in`, `dirty`, `used`, `rr`, `rr_index`, `stats` are the fields of the
struct; `Hit`, `TlbMiss` and `PageFault` the paths of `vm_update`.  A call of a
sequential program is one step.  `clock`, `lastUse`, `entered` and `dirtied` are
history, from which the properties say what LRU and round robin should do without
looking at the arrays they are implemented with.

**JobControl.**  `active`, `owner`, `asyncJob`, `asyncOwner`, `mask` and `jobs_queued` are
fields of the domain's private data, `refs` the references job control takes.  As the
lock is held between waits, an action is all that a call does from one wait to the
next: `AwaitAsync` and `AwaitJob` are the two waits with their loops, `Retry` the
label they jump back to, `GiveUp` the error path, `Start` the end.  `pc[t]` says on which
condition `t` sleeps, `woken` who was signalled, `late` whose 30 seconds are over;
`Spurious` returns from a wait unasked.  `holds[t]` is the caller's own record of the
jobs it began, which says who may call end: the code trusts its callers there.
A job that was released has no owner until a thread sets its phase (`SetJobPhase`).
`DiscardAsyncJob` may come at any time: it resets the asynchronous job, and the nested one if
that is active, and asks none of the threads that have them.  `Robbed` are the threads
that run a job the domain no longer knows, `Orphaned` those with such an asynchronous job;
they go on and later call end, which resets whatever job is there by then, the job of
another thread included.  `undercut` counts the discards that took a job from a thread,
`failed` and `lost` the two ways in which a count is never given back: the clock could
not be read, and a released job was reset by a call that gives nothing of it back.
DomainJobs has the discard too: what it promises is that nobody loses a job, and no job
starts beside another, except through a discard and the threads it left without their job.

**VndbDownload.**  `stored` is the database; every other variable of the client is lost
by `Exit`, and `Run` begins again from what `update_db_info.sql` finds.  `PageArrives` is one
answer of `send_get_command_once`, `Commit` the callback, `NextWindow` the loop of
`get_all`, `TableReturns` what `download_all` makes of its value, `CommandFails` all ways
in which a command is cut short.  `Throttled` is `page_no++`, the answer, the sleep and
`page_no--` together, as nobody looks in between.  `ErrorArrives` also stands for the answer to
a command that `write` repeats from a buffer the new login has overwritten.  `promised`
and `refused` are history: what was online when the run began, and which tables it
was refused an answer for.  The server is external: it adds objects with higher ids
and leaves no window between two objects empty (`Dense`): a gap of 25000
ids would end a table early.  The client's user interfaces, the lists of a user, images,
tags, traits and derived tables are left out.

## 3. Runs

| run | question | answer |
|---|---|---|
| eventloop_safety | Do two announcing threads, handlers that call back and re-registration ever separate queue, tokens and calls? | No: `SemMatchesQueue` (tokens, posts pending and the token in hand add up to the queue), `EachCallInOnePlace`, `PerThreadOrder`, `FreshHandler`, `DrainedMeansQuiet` |
| eventloop_live | Does the loop implement the FIFO of its header, with liveness? Is every announcement to a running loop settled? | Yes |
| tailqueue | Do the pointers spell the queue whenever the lock is free, with memory that is reused? | Yes, and nothing dangles or leaks before cleanup (`MemorySafe`) |
| tailqueue_cleanup | Does cleanup free everything, as the header says? | No (section 8) |
| streams | Is Pi complete when printed, is the newline count right although its record is shared, and is nothing used after a handler freed it? | Yes; both programs end unless their thread cannot be made. The count is right only because the whole file is one block (section 8) |
| wordtable | Do three threads keep the table exact while they race for colliding slots, and does each call return? Do the indices list it? | Yes; it implements the shared counters of WordCount. The indices list each slot once as long as at most half of the slots are used (section 8) |
| wordtable_end | Does a collision find "the next free bucket"? | Not at the end of the array (section 8) |
| wordpool | Is each block parsed once into a buffer of its own, and does the hand-over end, for one file, few and many? | Yes |
| simvm | Do flags, arrays and counters agree (`TablesAgree`) for all small memories and all four pairs of algorithms, and are the victims the ones the algorithms name (`EvictsAsNamed`)? | Yes |
| jobcontrol | Does the domain start and end jobs as DomainJobs does, whatever waits, wakes, times out, fails or is discarded? Does any thread lose its job before a discard took one? Do counts, references and the limit hold, and does each call return? | Yes, and only a discard under a thread starts a loss (section 8). The counts balance but for the two losses `failed` and `lost`; each call returns only thanks to the time limit |
| vndb | Can throttling, errors, kills and restarts leave a hole below the largest stored id, or make a success of less? | No hole, ever. A success is complete for each table that was answered |
| vndb_error | Has an update that succeeds downloaded all that was online, without that exception? | No (section 8) |

Every property of a passing run has a mutant in PROJECT.json: a plausible bug in
one definition (a dropped guard, a swapped order, a forgotten reset), for which
the same run finds a violation.

## 4. Bounds

* `MaxCalls = 3`, `MaxRegs = 2`, two threads and the loop: two announcers inside
  their calls while the loop pops; two registrations let one override the other for
  an event that is being looked up.  A third call makes a queue of two with one
  announcer between append and post, which is the longest chain any of the
  invariants relates.  The proofs of section 6 hold for every value of these
  bounds, here and below: what a bound hides can only be a matter of liveness.
* TailQueue: three announcers and four cells: an empty list, one cell (head = tail),
  two and more, and a cell that is freed and allocated again.
* StreamPi: four chunks, one stream, as in the program; the queue can hold all of
  them or be drained after each.  ReadFile: files of 1 to 5 bytes with every
  placing of newlines and `Block = 2`, so that files are shorter than, equal to and
  longer than one block, by more than a block.
* WordTable: four slots and two places for indices, so that runs with one or two used
  slots list them all and runs with three write behind the places; words `a` and `b` with the same hash and `c` hashing to
  the slot that the second of them is pushed to, so that a probe passes an entry of
  each kind; `a` is called for twice, for the same file or for two, so that two threads
  race to enter one word.  `MemSize = 2` lets a thread publish one struct and use the
  next.  `FirstFile` (an action constraint) names the file of a word's first call `f1`:
  files differ in nothing else.  The run at the end of the array hashes two words to the
  last of three slots (one place); its counterexample ends before that place is used up.
* WordPool: three workers; inputs of one file with fewer blocks than workers and
  more, two files, and five files.  These select all three start loops, workers
  that are never started, and main waiting or not for workers.
* SimVM: at most 4 pages, 2 words per page and 7 accesses, the initial loads
  included.  Two tables that differ need three pages and a fourth to fault on; seven
  accesses evict from both tables and bring a victim back.  `UintRange = 8` and
  `TimeRange = 16` stand for 2^32: the first lets products of sizes be refused, the
  second is not reached within `MaxClock`.
* JobControl: four threads and a limit of three, so that the limit refuses somebody while
  one thread holds the asynchronous job, one runs and one waits on each condition; two
  kinds of jobs, one of them in the default mask; `MaxFaults = 1`: a failure of the clock or
  one discard, of a released job or under a thread that has it.  One is enough for a
  thread to end a job it lost, for that to take the job of a second thread, and for that one's
  end to take a third's, as a thread without its job needs no further discard to do harm.
* VndbDownload: two tables, because the failing return of the last one is special; ids up
  to 4 with windows of 2 and pages of 1: two windows and an empty third, windows with one
  page and with two, windows that overlap because an id is missing; one error,
  broken connection, failed insertion or kill in a behaviour of any number of runs.
* Counters with a bound in a guard: calls and registrations (EventLoop), calls per
  word (WordTable), accesses (SimVM), failures and discards (JobControl), faults
  (VndbDownload, and its ids).  All others are bounded by these.

CHECK_DEADLOCK is off where the system stops by design: a program that has exited,
a loop that was cleaned up, clients that have no more calls to make.

## 5. Fairness

* EventLoop: weak fairness of the steps of a started call and of the loop.  The
  threads are scheduled by the kernel, a handler returns; nobody is obliged to
  announce, register, start or stop.
* StreamPi, ReadFile: weak fairness of each of the two threads.  A thread of these
  programs has no step it may put off.
* WordTable: weak fairness of each thread inside a call.  A call that loses a slot
  has gained an entry to pass, so no stronger assumption is needed.
* WordPool: weak fairness of each thread.  A spin lock promises nothing stronger;
  it is enough because the competitors for it come to wait for a semaphore.
* JobControl: time passes (`Expire`), and a waiter that was woken or is late gets the lock
  again.  Nobody is obliged to end a job: `EveryCallReturns` holds although a job may run
  for ever, and the wake-ups alone would not give it.
* VndbDownload: the program goes on (`Step`), which includes that one page is not throttled
  for ever.  Nothing is assumed of the server's growth, of faults or of restarts.
* Safety runs of EventLoop and TailQueue use the specification without fairness.

## 6. What is proved

`EventLoopProofs` proves, for any finite set of threads, any events, handlers and
bounds (assumptions: `ThreadAssumption`, `NilAssumption`, `BoundAssumption`):

* `TypeCorrect`: `Safety => []TypeOK`.  The step for a lookup needs that a
  non-empty set of matching pairs has a first one (`AssocFinds`, by well-foundedness
  of < on Nat), for the pair that `assoc` returns is a CHOOSE.
* `SemaphoreCountsTheQueue`, `PopFindsACell`, `DrainedQueueIsQuiet`: the inductive
  invariant `IInv` joins the types, the token count `SemMatchesQueue`, the absence of
  a crash, and where the loop is to its state (waiting and popping only when
  running; the initial function and handlers only when running or stopped).  The
  token count alone is not inductive: a pop of an empty queue would break it, and that
  no pop is empty follows from the count.  The only facts about cardinalities are that
  `Posting` gains one thread at `QueueAppend` and loses one at `SemPost`.
* `LoopImplementsChannel`: the initial states map to those of EventChannel, and
  each action maps to `Accept` (append), `Deliver` (pop), `Start`, `Stop`, or a
  stutter.  This is the safety part of `ImplementsChannel`.
* `EveryCallHasOnePlace`: `EachCallInOnePlace` compares a set of numbers with the length
  of a sequence, which is not inductive; `OnePlace` says that no two entries, and no two callers
  between lookup and append, carry the number of the same call, and `NumbersCount` gets the
  length back from that through an injection.
* `ThreadsKeepTheirOrder`: `OrderInv` adds to `PerThreadOrder` that a caller on its way to the
  queue carries a larger number than all entries of its thread (`NewestInTransit`).
* `OverriddenHandlersStayOut`: `FreshInv` adds to `FreshHandler` what a call in transit knows:
  how many registrations preceded it, and a handler that none of those overrode.

`TailQueueProofs` proves, for any finite set of threads and any cells (assumptions:
`ThreadAssumption`, `NilAssumption`):

* `ListIsTheQueue`, `NothingLeaksOrDangles`: `ListSpellsContents` speaks of a free lock only, so
  the invariant says what head, tail and successors are at each stage of the lock's owner: a
  cell linked behind the tail, a cell made the head of an empty list, the only cell
  popped (`HeadInv`, `TailInv`, `LinkInv`).  It needs that no cell is twice in the queue
  (`DistinctInv`), which cell each thread has in hand (`NewInv`, `PoppedInv`), that the
  allocated cells are the listed ones and those in hand (`LiveInv`), and the token count
  (`CountInv`), without which a pop could find the list empty.  Once cleanup has begun, only the
  types, the lock and the silence of the other threads are kept, which is all that both
  properties ask for then.

`StreamsProofs` proves, for any number of chunks, any length of the file and places of its
newlines, and any block size (assumptions: `StreamPiAssumption`, `ReadFileAssumption`,
`StreamEventAssumption` and those of the loop; the first two say that there is one stream, as both
programs create one, and no other thread):

* A step of a program that belongs to the loop is a step of EventLoop, so its `IInv` and the
  lemmas of EventLoopProofs carry over (`StreamInv` contains it); for `cleanup_event_loop` this needs
  `CleanupContract`, and the programs keep it because the queue is empty after the end
  entry and, by the token count, nobody is posting then.
* `StreamInv`, shared by both programs with their events and handlers as parameters: the k-th
  entry popped or queued is the k-th announcement, only the last one of a stream that is
  done is the "end" (`CallsInv`); where the stream is and what is registered by then
  (`StageInv`); the loop stops and things are freed only after the end was popped (`EndInv`).
* `PiReportsEveryChunk`, `BoxesLiveForTheirEvent`, `PiFreesNothingInUse`: `PiInv` adds how far the
  stream has come (`PiChunks`) and that the boxes are those produced and not yet freed, the sum
  that of the chunks whose entry has been handled (`PiSums`).
* `FileCountIsRight`, `RecordIsNotShared`, `FileFreesNothingInUse`: `FInv` adds that the first
  block is the whole file (`FileStages`, `ProduceInv`) and that the handler has counted the
  newlines before where it reads and has the rest of the block ahead (`WalkInv`, `CountInv`).
  ReadFile is an instance in MCStreams; `SameLoop`, `SameCalls` and `SameStream` identify its
  actions with those of the loop and of the stream.
* `BothProgramsAreSafe` joins them for `MCSpec`, which the run `streams` checks.

`WordTableProofs` proves, for any numbers of threads, words, files and slots and
any hash into the slots (assumption: `TableAssumption`):

* `TableInvariant`: `IInv` says of each used slot that its entry is published (it is
  complete, has a string of its own, lies at or behind its hash, and its struct is one
  its thread has moved past or is about to), and of each call what it has seen: all
  slots from the hash of its word to its index are used by other words.  The
  step of the exchange is the heart: the slot was free, so by `ProbeFinds` no entry
  of the word lies behind it, and by what the call has passed none before.
* `WordsAreUnique`, `ProbesFind`, `EntriesAreKept` follow from it.
* `TableImplementsCount`: `Exchange` maps to `Enter`, `AddCount` to `Again`, `SetBits` to
  `SeenIn`, all others to stutters; `CountOf` is a CHOOSE over slots, which
  `OneEntryPerWord` makes unique.
* `TotalsAreExact`: `TotalsInv` balances the calls made of a word with its entry's count and
  the calls that still have to count, its files with the bits set and those still to be set; each
  step moves one thread from one side to the other.
* `EverySlotListedOnce`: a thread may store its slot long after it took a place, so the
  invariant (`PlaceInv`) says that the places taken and not stored are free and differ, and
  that `indices_index` and the calls without a place add up to the used slots.  A call with an
  index outside the array is therefore one of more calls than it has places, each for a slot
  of its own (`OverrunLate`), and no slot is ever freed.

`WordPoolProofs` proves, for any number of workers and any input files (assumption:
`PoolAssumption`):

* `PoolInvariant`, from which the other theorems follow.  `Control` ties the places of main and
  the workers to the lock, the start loops, the queue, the flags `keep_alive` and the
  semaphores; `CountInv` says that until the end `main_thread_waiters`, the workers about to post and
  the token main has taken add up to the queue; `LiveInv` that `live_threads` counts the
  threads; `FileInv` that the queue of files lists the opened files with data left, for each of the
  loops that fill it; `BlockInv` that an unparsed block that was read is in exactly one buffer.
* `PoolTypes`: that the thread queue is no longer than its array follows from its workers being
  distinct.
* `QueueServes`: main, with its token and the lock, finds a worker, by `CountInv`.
  `BuffersAreExclusive`: that worker waits or is about to, with nothing to parse.
* `EveryBlockParsedOnce`, `MainSortsAlone`: main leaves the wait loop only when no file has data
  and sorts when `live_threads` is 0; no worker exits with a block unparsed.

`SimVMProofs` proves, for any sizes and any sequence of accesses (assumption:
`SizeAssumption`):

* `TablesAlwaysAgree`, `NoWriteIsLost`: `IInv` joins `NoLostWrite` and `InBoundsInv`: each table
  has as many pages as its size, its array lists exactly those, each once, the
  index is inside, and the TLB and the dirty pages are within the page table.  That a fault puts
  one page in the place of another keeps sizes and arrays (`SwapKeepsSize`, `SwapKeepsLists`,
  `TableEvicts`); the TLB loses the page that left, if it had it, in the slot that the scan
  finds (`ScanFinds`, `TlbFollows`).
* `VictimsAreTheOnesNamed`: `TimeInv` (the stored times are those of the accesses) gives LRU;
  `FifoInv` gives round robin: counted from the index, the slots hold the pages in the order
  in which they entered.  The hypothesis `MaxClock < TimeRange` is part of the statement: with
  32-bit times that wrap around the order is lost (section 8).

`JobControlProofs` proves, for any finite set of threads, any kinds of jobs, masks and
limits (assumption: `JobAssumption`):

* `JobsAreOwned`, `NestedJobsCovered`: `IInv` adds to `JobsOwned` what a waiter holds
  (`WaitersHold`: nothing, or for a nested job the asynchronous one), that a thread runs one
  job (`RunsOne`), and `NestedUnderAsync`.  `JobsOwned` alone is not inductive: that the
  asynchronous job is still there when a nested job starts after its wait, where the
  code does not look again, follows from who may end it.  All that a call does between
  two waits is one of four outcomes (`Outcome`), so begin and both waits share one lemma;
  end, release and phase move the owner of the asynchronous job (`OwnerMoves`), and a
  discard takes the jobs of at most two threads (`DiscardTakes`).
* `JobControlImplements`: `Start` maps to `Start`, `StartNested` or `StartAsync`, the ends to
  `Finish` and, by the owner, to `FinishAsync` (it has no nested job then, by `RunsOne`
  and `NestedUnderAsync`), discard to `Discard`; an end, release or phase by a thread
  whose asynchronous job was discarded maps to `Meddle`; waits, wake-ups, time-outs,
  refusals and failures stutter.  The lemma `RunningIs` replaces the CHOOSE of `RunningOf`
  by the job the thread holds.
* `CountsAlwaysBalance`, `LimitAlwaysKept`: each outcome moves one thread into or out of
  one of the four parts of `Inside`; a thread that ends a job it lost still leaves it, and
  gives its count back.  For the limit the invariant is on `jobs_queued` (`LimitKept`), from
  which the one on those inside follows by the balance.

`VndbProofs` proves, for any number of tables and any sizes of ids, windows and pages
(assumption: `VndbAssumption`):

* `TypeCorrect`, and `DownloadInvariant`: `IInv` says, beside `NoGaps`, that the window being
  fetched begins at most one behind the largest stored id and that its pages before the
  current one are stored (`Fetching`), that the page in hand holds the ranks that follow
  (`Inserting`), and that every earlier table of the run is complete or was refused an
  answer (`Answered`).
* `NoGapsEver`: a page holds the ranks that follow the stored ones (`PagesFollow`), and the
  server adds behind all ranks (`RanksStay`), so a commit adds the next objects and no
  others.  A new run starts from a state without holes, wherever the last one stopped.
* `WindowsFollow`, `SuccessIsComplete`: the count of a finished window is at most its
  number of ids, and a window that returned nothing has nothing behind it, as
  the server is dense.

## 7. What is only model-checked

Every safety invariant and action property of the passing runs is stated by a theorem of
section 6.  What is not proved:

* Liveness under fairness: `EveryAnnouncementSettles`, the fair part of `ImplementsChannel`,
  `EachRunEnds`, `EveryCallReturns` of the word table and of job control, `Terminates` of the
  streams and of the word pool.  The prover treats neither ENABLED nor fairness.
* That `assoc`, `memchr` and the search for the least recently used page, which are
  loops in the code, compute what their operators say: these are choices over sets, read off
  the source, and what holds of the chosen element is all that the proofs use.
* The properties of the three runs that expect a violation: the code does not have them.

## 8. Where the code and its text part

Runs that show it:

* `tailqueue_cleanup`: EventLoop.h says that cleanup frees "any allocated memory for
  an EventLoop"; the loop at EventLoop.c:339 ends at a cell without a successor, so the
  last queued cell is kept, and so are the pairs of all.
* `wordtable_end`: prog5.h:29 says that a collision goes "into the next free bucket";
  the probe at prog5.c:62 runs off the array behind the last slot.
* `vndb_error`: vndb.h:520 says that an update downloads "all objects that have been added";
  `get_all` (connection.cpp:637-654) tests the error flag only after a positive count and
  adds the -1 of a failed command to the total, so that `download_all` returns true when
  the last table was cut short in a window behind its first.  The trace is an update that
  ends with success and does not have an object that was online when it began; the
  property is stated for updates only, as the text is.

Seen while modelling, without a run of its own:

* readFile.c:75 takes the larger of the rest of the file and 1000 as the size of a
  block, where the comment at the head of the file says "1000 bytes at a time": a file
  is always one block.  `NoSharedAccess` depends on that: with the smaller of the
  two it fails, and so does the count (the mutants of this run).
* streamPi.c:151 and readFile.c:135 ignore that `start_stream` failed and wait for ever:
  the excluded case in `Terminates`.
* simVM.h:43 and :70 say that a TLB larger than the physical memory makes createVM
  return NULL; there is no such test (simVM.c:195), and the first of the two loops that fill
  the tables, which runs to the size of the TLB, overruns `rr_pgtable`.  SimVM follows such a machine no further than createVM (`InBounds`).
* simVM.c:209 multiplies where the sizes of parts are to be added, and :202 refuses a
  memory of exactly 2^32 words; `time` is 32 bits and its order ends when it wraps.
* prog5.h:387: the unlock writes 8 bytes to a lock of 4.  Where the next four bytes
  belong to nothing, as in the layouts gcc makes of prog5.c, nothing happens.
* prog5.c:436-472: a word across the border of two blocks is assembled with the length
  incremented before it is an index; planned as WordBlocks.
* prog5_my_threads.c:44 expects what the second read returned instead of null, and
  :267 tells the workers that there is no more data before the last block is parsed.
* job_control.c:232-235: `jobs_queued` is counted up before the clock is read and stays up
  when that fails (`failed`).  `CountsBalance` states it.
* job_control.c:167-176: a discard resets the asynchronous job, and the nested job that is
  active, under the threads that have them.  They are not told; each of them later calls
  `EndJob` or `EndAsyncJob`, which reset the active or asynchronous job of whichever thread
  has one by then, so that a third can start beside it.  A job that nobody owned when it
  was discarded takes its count and its reference along (`lost`).  `JobsOwned`,
  `ImplementsJobs` and `CountsBalance` say exactly how far this goes; no text of the
  repository promises more.
* prog5.h:226-230 says that the indices limit the table to half of its slots and that this
  "limit is necessary"; nothing enforces it (prog5.c:77-79).  The store of the first index too
  many lands, in the layouts gcc makes of prog5.c, in `global_hash_table` or on
  `indices_index`.  `IndicesListTable` says that no call does this sooner.
* vndb.h:510: the number in `db_info` of an empty table is null, and reading it throws: an
  update before the first download ends the program (`StartTable`).
* connection.cpp:741: the retry of `set_vnlist` after throttling leaves the notes out;
  :327 and :353: `http_get` returns 0, which connection.h:87-89 reserves for a 200 answer,
  at the end of the file; vndb.cpp:422, 477: images of characters are inserted with
  the statement for those of VNs.

## 9. What is not modelled

* Data that no property tells apart: letters, hashing, floating point, messages,
  options, the words in the pages of SimVM, the fields of a vndb object.
* Exhaustion of fixed tables other than the word table's end (16 MB of strings, 8192
  border words, 8000 common words): no test in the code, limits of the expected input.
* Weak memory: the code uses the builtin atomics with sequential consistency and the
  locks of pthreads; prog5's plain reads of shared slots are single aligned words.
* Objects that the vndb server deletes while a table is fetched: the pages behind it move
  up, and one object can be passed over; a later download gets it.
* The libxl half of job_control.c: the same wait on one condition, without asynchronous
  jobs, masks, counts or a limit; and the abort flag, phases and start times, which
  nothing in the file reads.
* The parts of section 1 that have status `not_modelled`, each with its reason in
  PROJECT.json.  Most lines of the repository are of that kind: generated headers,
  vendored libraries (json, sqlite, SoftFloat, pcre), configuration, exercises and scripts.
  They have no state that outlasts a call, or none that is this project's own.

## 10. Plan

Done: EventChannel, EventLoop, TailQueue, Stream, StreamPi, ReadFile, WordCount,
WordTable, WordPool, SimVM, DomainJobs, JobControl, VndbDownload, and the proofs of all
their safety properties.  To come, in this order:

1. Refinements: an abstract specification of the word pool (blocks handed out and parsed
   once, then sorted) that WordPool implements, and TailQueue as an implementation of the
   sequence in EventLoop, step by step.
2. WordBlocks: `setup_block` and `parse_buf` as functions over small texts against the
   words of the file.
3. FutexLocks (`my_threads.c`) against an abstract mutex and semaphore, then FutexPool
   (`prog5_my_threads.c`) on top of it.
4. HashTable (`C_util/hash.c`) and LifeHandshake.
