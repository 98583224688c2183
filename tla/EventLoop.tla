------------------------------ MODULE EventLoop ------------------------------
(***************************************************************************)
(* cs520/prog6/EventLoop.c.  One thread, Loop, runs startEventLoop; any    *)
(* thread may announce and register; the handlers, run by Loop, may do     *)
(* both and may stop the loop.                                             *)
(*                                                                         *)
(* The grain is the code's: looking a handler up (under alist_lock),       *)
(* appending to the queue (under queue_lock) and posting the semaphore are *)
(* three steps of announce_event that interleave with everything else, and *)
(* so are the state test, sem_wait and queue_pop of main_loop.  A critical *)
(* section is one step; TailQueue.tla opens the one that protects the      *)
(* linked list.                                                            *)
(***************************************************************************)
EXTENDS Integers, Sequences, FiniteSets

CONSTANTS Thread,     \* the client's threads other than the loop's
          Loop,       \* the thread that calls startEventLoop
          Event,      \* event names
          Handler,    \* handler functions
          NIL,        \* the null pointer
          MaxCalls,   \* bound on the calls of announce_event
          MaxRegs     \* bound on the calls of register_event

ASSUME ThreadAssumption == IsFiniteSet(Thread) /\ Loop \notin Thread
ASSUME NilAssumption == NIL \notin Handler
ASSUME BoundAssumption == MaxCalls \in Nat /\ MaxRegs \in Nat

Caller == Thread \union {Loop}

VARIABLES state,      \* handle->state: 1 created, 2 running, 0 stopped
          queue,      \* handle->handler_queue, head first
          alist,      \* handle->event_alist, newest first
          sem,        \* handle->semaphore
          freed,      \* has cleanup_event_loop freed the handle?
          pc,         \* where each caller is inside announce_event
          call,       \* its arguments, then the cell it appends
          lpc,        \* where Loop is in main, start_event_loop and main_loop
          calls,      \* announcements made so far
          popped,     \* history: the entries popped, in order
          unhandled   \* the announcements reported as "unhandled event"

vars == <<state, queue, alist, sem, freed, pc, call, lpc, calls, popped, unhandled>>

(* One announcement: the event, its "info" argument (who announced it and  *)
(* the number of the call), the handler found for it, and, as history, how *)
(* many registrations had been made when announce_event was called.        *)
Announcement == [event : Event, from : Caller, n : 1..MaxCalls,
                 handler : Handler \union {NIL}, since : 0..MaxRegs]

\* A cell of handler_queue, (handler . info): the handler is never null.
Entry == [event : Event, from : Caller, n : 1..MaxCalls,
          handler : Handler, since : 0..MaxRegs]

\* create_event_loop has returned: xcalloc leaves an empty queue and alist.
Init == /\ state = 1 /\ queue = << >> /\ alist = << >> /\ sem = 0 /\ freed = FALSE
        /\ pc = [t \in Caller |-> "idle"]
        /\ call = [t \in Caller |-> NIL]
        /\ lpc = "main"
        /\ calls = 0 /\ popped = << >> /\ unhandled = {}

----------------------------------------------------------------------------
(* The calls that any thread may make                                      *)

\* abort() and a crash end the process: nothing happens after them.
Alive == lpc \notin {"aborted", "crashed"}

(* Loop runs client code in main, in the initial function and in handlers; *)
(* the other threads always do.  Nobody calls into a freed handle.         *)
InClient(t) == /\ Alive /\ ~freed
               /\ pc[t] = "idle"
               /\ t = Loop => lpc \in {"main", "fn", "handler"}

\* The pair is private to the caller until it is pushed under the write lock.
RegisterEvent(t, ev, h) ==
  /\ InClient(t)
  /\ Len(alist) < MaxRegs
  /\ alist' = <<[event |-> ev, handler |-> h]>> \o alist
  /\ UNCHANGED <<state, queue, sem, freed, pc, call, lpc, calls, popped, unhandled>>

\* assoc finds the first pair with the event, which is the newest.
Matches(ev) == {i \in DOMAIN alist : alist[i].event = ev}
\* A mutant: assoc walks to the last pair, as if new pairs went to the end.
AssocOldest(ev) == CHOOSE i \in Matches(ev) : \A j \in Matches(ev) : i >= j

Assoc(ev) == CHOOSE i \in Matches(ev) : \A j \in Matches(ev) : i <= j

GetEventHandler(ev) == IF Matches(ev) = {} THEN NIL ELSE alist[Assoc(ev)].handler

AnnounceEvent(t, ev) ==
  /\ InClient(t)
  /\ calls < MaxCalls
  /\ calls' = calls + 1
  /\ call' = [call EXCEPT ![t] = [event |-> ev, from |-> t, n |-> calls + 1,
                                  handler |-> NIL, since |-> Len(alist)]]
  /\ pc' = [pc EXCEPT ![t] = "lookup"]
  /\ UNCHANGED <<state, queue, alist, sem, freed, lpc, popped, unhandled>>

\* A mutant: the semaphore is posted whether or not a handler was found.
LookupFailsPosts(t) ==
  /\ Alive /\ pc[t] = "lookup"
  /\ GetEventHandler(call[t].event) = NIL
  /\ unhandled' = unhandled \union {call[t].n}
  /\ sem' = sem + 1
  /\ pc' = [pc EXCEPT ![t] = "idle"]
  /\ call' = [call EXCEPT ![t] = NIL]
  /\ UNCHANGED <<state, queue, alist, freed, lpc, calls, popped>>

\* No pair for the event, or a pair with a null handler: the event is reported.
LookupFails(t) ==
  /\ Alive /\ pc[t] = "lookup"
  /\ GetEventHandler(call[t].event) = NIL
  /\ unhandled' = unhandled \union {call[t].n}
  /\ pc' = [pc EXCEPT ![t] = "idle"]
  /\ call' = [call EXCEPT ![t] = NIL]
  /\ UNCHANGED <<state, queue, alist, sem, freed, lpc, calls, popped>>

LookupFinds(t) ==
  /\ Alive /\ pc[t] = "lookup"
  /\ GetEventHandler(call[t].event) # NIL
  /\ call' = [call EXCEPT ![t].handler = GetEventHandler(call[t].event)]
  /\ pc' = [pc EXCEPT ![t] = "append"]
  /\ UNCHANGED <<state, queue, alist, sem, freed, lpc, calls, popped, unhandled>>

\* Two mutants: queue_push where the code has queue_append, and a post made
\* under the lock as well as after it.
QueuePush(t) ==
  /\ Alive /\ pc[t] = "append"
  /\ queue' = <<call[t]>> \o queue
  /\ pc' = [pc EXCEPT ![t] = "post"]
  /\ UNCHANGED <<state, alist, sem, freed, call, lpc, calls, popped, unhandled>>

QueueAppendPosts(t) ==
  /\ Alive /\ pc[t] = "append"
  /\ queue' = Append(queue, call[t])
  /\ sem' = sem + 1
  /\ pc' = [pc EXCEPT ![t] = "post"]
  /\ UNCHANGED <<state, alist, freed, call, lpc, calls, popped, unhandled>>

QueueAppend(t) ==
  /\ Alive /\ pc[t] = "append"
  /\ queue' = Append(queue, call[t])
  /\ pc' = [pc EXCEPT ![t] = "post"]
  /\ UNCHANGED <<state, alist, sem, freed, call, lpc, calls, popped, unhandled>>

\* A mutant: a wakeup flag where the code counts.
SemSet(t) ==
  /\ Alive /\ pc[t] = "post"
  /\ sem' = 1
  /\ pc' = [pc EXCEPT ![t] = "idle"]
  /\ call' = [call EXCEPT ![t] = NIL]
  /\ UNCHANGED <<state, queue, alist, freed, lpc, calls, popped, unhandled>>

SemPost(t) ==
  /\ Alive /\ pc[t] = "post"
  /\ sem' = sem + 1
  /\ pc' = [pc EXCEPT ![t] = "idle"]
  /\ call' = [call EXCEPT ![t] = NIL]
  /\ UNCHANGED <<state, queue, alist, freed, lpc, calls, popped, unhandled>>

----------------------------------------------------------------------------
(* The thread of the loop                                                  *)

LoopGoes(from, to) == Alive /\ lpc = from /\ lpc' = to

\* A second start finds the state 2 or 0 and aborts.
StartEventLoop ==
  /\ lpc = "main" /\ pc[Loop] = "idle" /\ ~freed
  /\ IF state = 1 THEN state' = 2 /\ lpc' = "fn" ELSE state' = state /\ lpc' = "aborted"
  /\ UNCHANGED <<queue, alist, sem, freed, pc, call, calls, popped, unhandled>>

\* The initial function, or a handler, returns; free() of the popped cell.
InitialFunctionReturns ==
  /\ pc[Loop] = "idle" /\ LoopGoes("fn", "test")
  /\ UNCHANGED <<state, queue, alist, sem, freed, pc, call, calls, popped, unhandled>>

HandlerReturns ==
  /\ pc[Loop] = "idle" /\ LoopGoes("handler", "test")
  /\ UNCHANGED <<state, queue, alist, sem, freed, pc, call, calls, popped, unhandled>>

\* A mutant: the loop goes on in state 0.
TestStateOffByOne ==
  /\ LoopGoes("test", IF state >= 0 THEN "wait" ELSE "main")
  /\ UNCHANGED <<state, queue, alist, sem, freed, pc, call, calls, popped, unhandled>>

TestState ==
  /\ LoopGoes("test", IF state > 0 THEN "wait" ELSE "main")
  /\ UNCHANGED <<state, queue, alist, sem, freed, pc, call, calls, popped, unhandled>>

SemWait ==
  /\ LoopGoes("wait", "pop")
  /\ sem > 0
  /\ sem' = sem - 1
  /\ UNCHANGED <<state, queue, alist, freed, pc, call, calls, popped, unhandled>>

\* A mutant: the cell is read but stays in the queue.
RunHandlerPeeks ==
  /\ IF queue = << >>
       THEN LoopGoes("pop", "crashed") /\ UNCHANGED popped
       ELSE LoopGoes("pop", "handler") /\ popped' = Append(popped, Head(queue))
  /\ UNCHANGED <<state, queue, alist, sem, freed, pc, call, calls, unhandled>>

\* run_handler: popping an empty queue gives a null cell, which is dereferenced.
RunHandler ==
  /\ IF queue = << >>
       THEN LoopGoes("pop", "crashed") /\ UNCHANGED <<queue, popped>>
       ELSE /\ LoopGoes("pop", "handler")
            /\ queue' = Tail(queue)
            /\ popped' = Append(popped, Head(queue))
  /\ UNCHANGED <<state, alist, sem, freed, pc, call, calls, unhandled>>

\* Called by a handler, as the header demands; the state decides, not the caller.
StopEventLoop ==
  /\ lpc = "handler" /\ pc[Loop] = "idle"
  /\ IF state = 2 THEN state' = 0 /\ lpc' = lpc ELSE state' = state /\ lpc' = "aborted"
  /\ UNCHANGED <<queue, alist, sem, freed, pc, call, calls, popped, unhandled>>

(* The code assumes, and cannot check, that no other thread is modifying   *)
(* the handle (the comment at EventLoop.c:323): see CleanupContract.  What *)
(* the freed handle held stays in the variables, where nothing reads it.   *)
CleanupEventLoop ==
  /\ lpc = "main" /\ pc[Loop] = "idle" /\ ~freed
  /\ IF state # 0
       THEN lpc' = "aborted" /\ freed' = freed
       ELSE freed' = TRUE /\ lpc' = lpc
  /\ UNCHANGED <<state, queue, alist, sem, pc, call, calls, popped, unhandled>>

\* What a client must ensure before it calls cleanupEventLoop.
CleanupContract == \A t \in Thread : pc[t] = "idle"

----------------------------------------------------------------------------
\* The steps of announce_event, once it has been called.
Announcing(t) == LookupFails(t) \/ LookupFinds(t) \/ QueueAppend(t) \/ SemPost(t)

\* The steps of main_loop, once the loop has been started.
Looping == \/ InitialFunctionReturns \/ HandlerReturns
           \/ TestState \/ SemWait \/ RunHandler

\* What client code may do next.
Client == \/ \E t \in Caller, ev \in Event : AnnounceEvent(t, ev)
          \/ \E t \in Caller, ev \in Event, h \in Handler \union {NIL} : RegisterEvent(t, ev, h)
          \/ StartEventLoop
          \/ StopEventLoop
          \/ CleanupContract /\ CleanupEventLoop

Next == Client \/ Looping \/ \E t \in Caller : Announcing(t)

Safety == Init /\ [][Next]_vars

(* A started call completes and a started loop keeps looping (threads are  *)
(* scheduled, the initial function and the handlers return); nobody is     *)
(* obliged to call anything.                                               *)
Fairness == /\ \A t \in Caller : WF_vars(Announcing(t))
            /\ WF_vars(Looping)

Spec == Safety /\ Fairness

----------------------------------------------------------------------------
(* Properties                                                              *)

\* Every entry that reached the queue, in the order of the queue.
History == popped \o queue

TypeOK ==
  /\ state \in 0..2 /\ sem \in Nat /\ freed \in BOOLEAN
  /\ queue \in Seq(Entry) /\ popped \in Seq(Entry)
  /\ alist \in Seq([event : Event, handler : Handler \union {NIL}])
  /\ Len(alist) <= MaxRegs
  /\ pc \in [Caller -> {"idle", "lookup", "append", "post"}]
  /\ DOMAIN call = Caller
  /\ \A t \in Caller : /\ pc[t] = "lookup" => call[t] \in Announcement
                       /\ pc[t] \in {"append", "post"} => call[t] \in Entry
  /\ lpc \in {"main", "fn", "test", "wait", "pop", "handler", "aborted", "crashed"}
  /\ calls \in 0..MaxCalls
  /\ unhandled \subseteq 1..MaxCalls

\* Threads that have appended a cell they have not yet posted for.
Posting == {t \in Caller : pc[t] = "post"}

(* The semaphore never runs ahead of the queue: every cell is matched by   *)
(* one token, or by one announcer about to post it, or by the token that   *)
(* main_loop has taken and not yet used (sem_post after the unlock in      *)
(* announce_event, queue_pop after sem_wait in main_loop).                 *)
SemMatchesQueue ==
  Len(queue) = sem + Cardinality(Posting) + (IF lpc = "pop" THEN 1 ELSE 0)

(* run_handler never pops an empty queue, whose null cell it would         *)
(* dereference.                                                            *)
NeverPopsEmpty == lpc # "crashed"

(* Once every cell has been popped, no announcer is still to post: a       *)
(* client that frees the handle when it has seen its last event frees      *)
(* nothing that a thread inside announce_event will touch.                 *)
DrainedMeansQuiet == (queue = << >> /\ Alive) => Posting = {}

(* No announcement is lost, reported twice, or both reported and run: each *)
(* call made so far is in exactly one place.                               *)
InFlight == {call[t].n : t \in {u \in Caller : pc[u] \in {"lookup", "append"}}}
Queued == {History[i].n : i \in DOMAIN History}
EachCallInOnePlace ==
  /\ InFlight \union Queued \union unhandled = 1..calls
  /\ InFlight \intersect Queued = {} /\ InFlight \intersect unhandled = {}
  /\ Queued \intersect unhandled = {}
  /\ Cardinality(Queued) = Len(History)

(* The announcements of one thread are run in the order it made them.      *)
PerThreadOrder ==
  \A i, j \in DOMAIN History :
    (i < j /\ History[i].from = History[j].from) => History[i].n < History[j].n

\* The k-th registration made: the alist is newest first and never shrinks.
Registration(k) == alist[Len(alist) + 1 - k]

(* register_event overrides: the handler queued for an announcement is     *)
(* never one that had been overridden before announce_event was called.    *)
FreshHandler ==
  \A i \in DOMAIN History :
    LET e == History[i]
    IN \E k \in DOMAIN alist :
         /\ Registration(k) = [event |-> e.event, handler |-> e.handler]
         /\ \A later \in k + 1 .. e.since : Registration(later).event # e.event

(* The loop implements the FIFO channel of its header.                     *)
Channel == INSTANCE EventChannel WITH
             Item <- Entry, accepted <- History, delivered <- Len(popped),
             phase <- CASE state = 1 -> "created" [] state = 2 -> "running"
                        [] OTHER -> "stopped"
ImplementsChannel == Channel!Spec

(* An announcement to a running loop is run, or reported as unhandled,     *)
(* unless the loop is stopped: no wakeup is lost between the append and    *)
(* the post.                                                               *)
EveryAnnouncementSettles ==
  \A n \in 1..MaxCalls :
    (state = 2 /\ n <= calls) ~>
      (state = 0 \/ n \in unhandled \/ \E i \in DOMAIN popped : popped[i].n = n)
=============================================================================
