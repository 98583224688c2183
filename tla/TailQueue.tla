------------------------------ MODULE TailQueue ------------------------------
(***************************************************************************)
(* The linked list behind EventLoop's queue (tail_queue in                 *)
(* cs520/prog6/EventLoop.c): cells with a cdr, a head and a tail pointer,  *)
(* every pointer written by a step of its own, under the spin lock         *)
(* queue_lock.  Announcers append and post; the loop waits, pops, runs the *)
(* handler and frees the cell, whose memory may then be allocated again.   *)
(* EventLoop.tla treats the same operations as steps on a sequence.        *)
(***************************************************************************)
EXTENDS Integers, Sequences, FiniteSets

CONSTANTS Thread,   \* the threads that announce events
          Loop,     \* the thread of the event loop
          Cell,     \* memory for cells of the list
          NIL

ASSUME ThreadAssumption == IsFiniteSet(Thread) /\ Loop \notin Thread
ASSUME NilAssumption == NIL \notin Cell \union Thread \union {Loop}

Caller == Thread \union {Loop}

VARIABLES head, tail,   \* handle->handler_queue
          cdr,          \* the cdr of every cell
          live,         \* the cells that are allocated
          pairs,        \* the cells whose car, the (handler . info) pair, is allocated
          lock,         \* the owner of handle->queue_lock, or NIL
          sem,          \* handle->semaphore
          pc,           \* where each thread is
          mine,         \* new_tail in queue_append, retval in queue_pop, node in cleanup
          contents      \* history: the cells appended and not yet popped, in order

list == <<head, tail, cdr>>
vars == <<head, tail, cdr, live, pairs, lock, sem, pc, mine, contents>>

Init == /\ head = NIL /\ tail = NIL
        /\ cdr = [c \in Cell |-> NIL]
        /\ live = {} /\ pairs = {}
        /\ lock = NIL /\ sem = 0
        /\ pc = [t \in Caller |-> IF t = Loop THEN "wait" ELSE "idle"]
        /\ mine = [t \in Caller |-> NIL]
        /\ contents = << >>

Goes(t, from, to) == pc[t] = from /\ pc' = [pc EXCEPT ![t] = to]

\* A thread holds the lock from pthread_spin_lock to pthread_spin_unlock.
\* A mutant: the lock is taken without being tested.
AcquireHeld(t) == lock' = t
Acquire(t) == lock = NIL /\ lock' = t
Release(t) == lock = t /\ lock' = NIL

----------------------------------------------------------------------------
(* queue_append, by an announcer                                           *)

\* The handle is not cleaned up yet: after that no thread may announce.
LockToAppend(t) ==
  /\ Goes(t, "idle", "alloc") /\ Acquire(t)
  /\ pc[Loop] \notin {"clean", "cleaned"}
  /\ UNCHANGED <<list, live, pairs, sem, mine, contents>>

\* Fcons for the pair, then xcalloc for new_tail: the memory is zeroed.
Allocate(t) ==
  /\ Goes(t, "alloc", "link")
  /\ \E c \in Cell \ (live \union pairs) :
       /\ live' = live \union {c} /\ pairs' = pairs \union {c}
       /\ mine' = [mine EXCEPT ![t] = c]
       /\ cdr' = [cdr EXCEPT ![c] = NIL]
  /\ UNCHANGED <<head, tail, lock, sem, contents>>

LinkTail(t) ==
  /\ Goes(t, "link", "head")
  /\ cdr' = IF tail = NIL THEN cdr ELSE [cdr EXCEPT ![tail] = mine[t]]
  /\ UNCHANGED <<head, tail, live, pairs, lock, sem, mine, contents>>

SetHead(t) ==
  /\ Goes(t, "head", "tail")
  /\ head' = IF head = NIL THEN mine[t] ELSE head
  /\ UNCHANGED <<tail, cdr, live, pairs, lock, sem, mine, contents>>

SetTail(t) ==
  /\ Goes(t, "tail", "unlock")
  /\ tail' = mine[t]
  /\ contents' = Append(contents, mine[t])
  /\ UNCHANGED <<head, cdr, live, pairs, lock, sem, mine>>

UnlockAppend(t) ==
  /\ Goes(t, "unlock", "post") /\ Release(t)
  /\ mine' = [mine EXCEPT ![t] = NIL]
  /\ UNCHANGED <<list, live, pairs, sem, contents>>

Post(t) ==
  /\ Goes(t, "post", "idle")
  /\ sem' = sem + 1
  /\ UNCHANGED <<list, live, pairs, lock, mine, contents>>

----------------------------------------------------------------------------
(* main_loop and run_handler, by the loop                                  *)

Wait == /\ Goes(Loop, "wait", "lock")
        /\ sem > 0 /\ sem' = sem - 1
        /\ UNCHANGED <<list, live, pairs, lock, mine, contents>>

LockToPop == /\ Goes(Loop, "lock", "pop") /\ Acquire(Loop)
             /\ UNCHANGED <<list, live, pairs, sem, mine, contents>>

\* retval = queue->head; the only cell: both pointers are cleared.
PopOnly == /\ head = tail
           /\ Goes(Loop, "pop", "popped")
           /\ mine' = [mine EXCEPT ![Loop] = head]
           /\ head' = NIL
           /\ UNCHANGED <<tail, cdr, live, pairs, lock, sem, contents>>

\* A mutant: the tail still points to the cell popped.
KeepTail == /\ Goes(Loop, "popped", "unlockpop")
            /\ contents' = Tail(contents)
            /\ UNCHANGED <<list, live, pairs, lock, sem, mine>>

ClearTail == /\ Goes(Loop, "popped", "unlockpop")
             /\ tail' = NIL
             /\ contents' = Tail(contents)
             /\ UNCHANGED <<head, cdr, live, pairs, lock, sem, mine>>

PopHead == /\ head # tail
           /\ Goes(Loop, "pop", "unlockpop")
           /\ mine' = [mine EXCEPT ![Loop] = head]
           /\ head' = cdr[head]
           /\ contents' = Tail(contents)
           /\ UNCHANGED <<tail, cdr, live, pairs, lock, sem>>

UnlockPop == /\ Goes(Loop, "unlockpop", "handler") /\ Release(Loop)
             /\ UNCHANGED <<list, live, pairs, sem, mine, contents>>

\* The handler returns: free the pair and the cell; the loop goes on, or,
\* when the handler has called stop_event_loop, main cleans the handle up.
FreePopped == /\ \/ Goes(Loop, "handler", "wait")
                 \/ Goes(Loop, "handler", "stopped")
              /\ live' = live \ {mine[Loop]} /\ pairs' = pairs \ {mine[Loop]}
              /\ mine' = [mine EXCEPT ![Loop] = NIL]
              /\ UNCHANGED <<list, lock, sem, contents>>

----------------------------------------------------------------------------
(* cleanup_event_loop: takes the lock, walks the list from the head.       *)
BeginCleanup == /\ Goes(Loop, "stopped", "clean")
                /\ \A t \in Thread : pc[t] = "idle"
                /\ Acquire(Loop)
                /\ mine' = [mine EXCEPT ![Loop] = head]
                /\ UNCHANGED <<list, live, pairs, sem, contents>>

\* while(node && (temp = node->cdr)): a cell with no successor is not freed.
FreeNext == /\ pc[Loop] = "clean"
            /\ mine[Loop] # NIL /\ cdr[mine[Loop]] # NIL
            /\ live' = live \ {mine[Loop]}
            /\ mine' = [mine EXCEPT ![Loop] = cdr[mine[Loop]]]
            /\ UNCHANGED <<list, pairs, lock, sem, pc, contents>>

EndCleanup == /\ Goes(Loop, "clean", "cleaned") /\ Release(Loop)
              /\ mine[Loop] # NIL => cdr[mine[Loop]] = NIL
              /\ UNCHANGED <<list, live, pairs, sem, mine, contents>>

----------------------------------------------------------------------------
Appending(t) == \/ Allocate(t) \/ LinkTail(t) \/ SetHead(t)
                \/ SetTail(t) \/ UnlockAppend(t) \/ Post(t)

Popping == \/ Wait \/ LockToPop \/ PopOnly \/ ClearTail \/ PopHead
           \/ UnlockPop \/ FreePopped

Cleaning == BeginCleanup \/ FreeNext \/ EndCleanup

Next == \/ \E t \in Thread : LockToAppend(t) \/ Appending(t)
        \/ Popping \/ Cleaning

Spec == Init /\ [][Next]_vars

----------------------------------------------------------------------------
(* Properties                                                              *)

(* Whenever the lock is free, head, tail and the cdrs spell out exactly    *)
(* the cells appended and not popped, in order: what EventLoop.tla calls   *)
(* the queue (queue_append, queue_pop under queue_lock).                   *)
ListSpellsContents ==
  (lock = NIL /\ pc[Loop] # "cleaned") =>
    /\ head = IF contents = << >> THEN NIL ELSE contents[1]
    /\ tail = IF contents = << >> THEN NIL ELSE contents[Len(contents)]
    /\ \A i \in 1 .. Len(contents) :
         cdr[contents[i]] = IF i = Len(contents) THEN NIL ELSE contents[i + 1]

(* Until cleanup no pointer of the list dangles, and every allocated cell  *)
(* is on the list or in the hands of the thread that appends or runs it:   *)
(* handling an event leaks nothing.                                        *)
MemorySafe ==
  pc[Loop] \notin {"clean", "cleaned"} =>
    /\ head \in live \union {NIL} /\ tail \in live \union {NIL}
    /\ \A i \in DOMAIN contents : contents[i] \in live /\ contents[i] \in pairs
    /\ pairs = live
    /\ live = {contents[i] : i \in DOMAIN contents}
              \union ({mine[t] : t \in Caller} \ {NIL})

(* EventLoop.h: cleanupEventLoop cleans up "any allocated memory for an    *)
(* EventLoop".  The code keeps the last queued cell and every queued pair. *)
CleanupFreesEverything == pc[Loop] = "cleaned" => live = {} /\ pairs = {}
=============================================================================
