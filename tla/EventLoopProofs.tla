--------------------------- MODULE EventLoopProofs ---------------------------
(***************************************************************************)
(* What TLAPS proves of EventLoop, for every set of threads, events and    *)
(* handlers and every bound.                                               *)
(***************************************************************************)
EXTENDS EventLoop, TLAPS, FiniteSetTheorems, SequenceTheorems, WellFoundedInduction

\* The order on the positions of a sequence, as a relation.
LessThan == OpToRel(<, Nat)

(* The pair assoc finds is one that matches: a non-empty set of positions  *)
(* has a least element.                                                    *)
LEMMA AssocFinds ==
  ASSUME TypeOK, NEW ev, Matches(ev) # {}
  PROVE  Assoc(ev) \in Matches(ev) /\ \A j \in Matches(ev) : Assoc(ev) <= j
<1>1. Matches(ev) \subseteq Nat
  BY LenProperties DEF TypeOK, Matches
<1>0. IsWellFoundedOn(LessThan, Nat)
  BY NatLessThanWellFounded DEF LessThan
<1>2. PICK i \in Matches(ev) : \A j \in Matches(ev) : <<j, i>> \notin LessThan
  BY <1>1, <1>0, WFMin
<1>3. ASSUME NEW j \in Matches(ev) PROVE i <= j
  <2>1. i \in Nat /\ j \in Nat
    BY <1>1
  <2>2. j < i => <<j, i>> \in LessThan
    BY <2>1 DEF LessThan, OpToRel
  <2>. QED  BY <2>1, <2>2, <1>2
<1>. QED  BY <1>3 DEF Assoc

(* A handler that lookup finds is one of the client's functions.           *)
LEMMA FoundHandler ==
  ASSUME TypeOK, NEW ev, GetEventHandler(ev) # NIL
  PROVE  GetEventHandler(ev) \in Handler
<1>1. Matches(ev) # {}
  BY DEF GetEventHandler
<1>2. Assoc(ev) \in DOMAIN alist
  BY <1>1, AssocFinds DEF Matches
<1>3. alist \in Seq([event : Event, handler : Handler \union {NIL}])
  BY DEF TypeOK
<1>4. alist[Assoc(ev)] \in [event : Event, handler : Handler \union {NIL}]
  BY <1>2, <1>3, LenProperties, ElementOfSeq
<1>. QED  BY <1>1, <1>4 DEF GetEventHandler

-----------------------------------------------------------------------------
(* Type correctness                                                        *)

LEMMA TypeInit == Init => TypeOK
<1>. SUFFICES ASSUME Init PROVE TypeOK
  OBVIOUS
<1>1. pc \in [Caller -> {"idle", "lookup", "append", "post"}] /\ \A t \in Caller : pc[t] = "idle"
  BY DEF Init
<1>2. DOMAIN call = Caller
  BY DEF Init
<1>3. queue \in Seq(Entry) /\ popped \in Seq(Entry)
  BY EmptySeq DEF Init
<1>4. alist \in Seq([event : Event, handler : Handler \union {NIL}]) /\ Len(alist) <= MaxRegs
  BY EmptySeq, BoundAssumption DEF Init
<1>5. freed \in BOOLEAN
  BY DEF Init
<1>6. /\ state \in 0..2 /\ sem \in Nat
      /\ lpc = "main" /\ calls \in 0..MaxCalls /\ unhandled \subseteq 1..MaxCalls
  BY BoundAssumption DEF Init
<1>. QED  BY <1>1, <1>2, <1>3, <1>4, <1>5, <1>6 DEF TypeOK

LEMMA TypeStep == TypeOK /\ [Next]_vars => TypeOK'
<1>. SUFFICES ASSUME TypeOK, [Next]_vars PROVE TypeOK'
  OBVIOUS
<1>. USE BoundAssumption
<1>1. ASSUME NEW t \in Caller, NEW ev \in Event, AnnounceEvent(t, ev)
      PROVE  TypeOK'
  <2>1. call'[t] \in Announcement /\ \A u \in Caller \ {t} : call'[u] = call[u]
    BY <1>1 DEF AnnounceEvent, Announcement, TypeOK
  <2>. QED  BY <1>1, <2>1 DEF AnnounceEvent, TypeOK
<1>2. ASSUME NEW t \in Caller, NEW ev \in Event, NEW h \in Handler \union {NIL},
             RegisterEvent(t, ev, h)
      PROVE  TypeOK'
  <2>1. <<[event |-> ev, handler |-> h]>> \in Seq([event : Event, handler : Handler \union {NIL}])
    OBVIOUS
  <2>2. /\ alist' \in Seq([event : Event, handler : Handler \union {NIL}])
        /\ Len(alist') <= MaxRegs
    BY <1>2, <2>1, ConcatProperties, LenProperties DEF RegisterEvent, TypeOK
  <2>. QED  BY <1>2, <2>2 DEF RegisterEvent, TypeOK
<1>3. ASSUME NEW t \in Caller, LookupFails(t)
      PROVE  TypeOK'
  <2>1. call[t].n \in 1..MaxCalls
    BY <1>3 DEF LookupFails, TypeOK, Announcement
  <2>. QED  BY <1>3, <2>1 DEF LookupFails, TypeOK
<1>4. ASSUME NEW t \in Caller, LookupFinds(t)
      PROVE  TypeOK'
  <2>1. GetEventHandler(call[t].event) \in Handler
    BY <1>4, FoundHandler DEF LookupFinds
  <2>2. call[t] \in Announcement
    BY <1>4 DEF LookupFinds, TypeOK
  <2>3. call'[t] \in Entry /\ \A u \in Caller \ {t} : call'[u] = call[u]
    BY <1>4, <2>1, <2>2 DEF LookupFinds, TypeOK, Announcement, Entry
  <2>. QED  BY <1>4, <2>3 DEF LookupFinds, TypeOK
<1>5. ASSUME NEW t \in Caller, QueueAppend(t)
      PROVE  TypeOK'
  <2>1. queue' \in Seq(Entry)
    BY <1>5, AppendProperties DEF QueueAppend, TypeOK
  <2>. QED  BY <1>5, <2>1 DEF QueueAppend, TypeOK
<1>6. ASSUME NEW t \in Caller, SemPost(t)
      PROVE  TypeOK'
  BY <1>6 DEF SemPost, TypeOK
<1>7. CASE RunHandler
  <2>1. queue # << >> => /\ Tail(queue) \in Seq(Entry)
                         /\ Append(popped, Head(queue)) \in Seq(Entry)
    BY HeadTailProperties, AppendProperties DEF TypeOK
  <2>. QED  BY <1>7, <2>1 DEF RunHandler, LoopGoes, TypeOK
<1>8. CASE StartEventLoop
  BY <1>8 DEF StartEventLoop, TypeOK
<1>9. CASE StopEventLoop
  BY <1>9 DEF StopEventLoop, TypeOK
<1>10. CASE CleanupEventLoop
  BY <1>10 DEF CleanupEventLoop, TypeOK
<1>11. CASE InitialFunctionReturns \/ HandlerReturns
  BY <1>11 DEF InitialFunctionReturns, HandlerReturns, LoopGoes, TypeOK
<1>12. CASE TestState
  BY <1>12 DEF TestState, LoopGoes, TypeOK
<1>13. CASE SemWait
  BY <1>13 DEF SemWait, LoopGoes, TypeOK
<1>14. CASE UNCHANGED vars
  BY <1>14 DEF vars, TypeOK
<1>. QED  BY <1>1, <1>2, <1>3, <1>4, <1>5, <1>6, <1>7, <1>8, <1>9, <1>10,
          <1>11, <1>12, <1>13, <1>14
          DEF Next, Client, Looping, Announcing

(* The variables of the loop keep their types: in particular a cell that   *)
(* is queued always carries a handler.                                     *)
THEOREM TypeCorrect == Safety => []TypeOK
  BY TypeInit, TypeStep, PTL DEF Safety
-----------------------------------------------------------------------------
(* The semaphore and the queue                                             *)

LEMMA PostingFinite == IsFiniteSet(Posting) /\ Cardinality(Posting) \in Nat
<1>1. IsFiniteSet(Caller)
  BY ThreadAssumption, FS_AddElement DEF Caller
<1>. QED  BY <1>1, FS_Subset, FS_CardinalityType DEF Posting

LEMMA NoneElsePosts ==
  ASSUME UNCHANGED pc PROVE Posting' = Posting
  BY DEF Posting

(* The inductive invariant.  The crash is excluded by the count, and the   *)
(* last two conjuncts, which the count does not need, say that only a      *)
(* running loop waits and pops: the refinement rests on them.              *)
IInv == /\ TypeOK
        /\ SemMatchesQueue
        /\ NeverPopsEmpty
        /\ lpc \in {"fn", "test", "handler"} => state \in {0, 2}
        /\ lpc \in {"wait", "pop"} => state = 2

LEMMA IInvInit == Init => IInv
<1>. SUFFICES ASSUME Init PROVE IInv
  OBVIOUS
<1>1. Posting = {}
  BY DEF Init, Posting
<1>2. SemMatchesQueue
  BY <1>1, FS_EmptySet DEF Init, SemMatchesQueue
<1>. QED  BY <1>2, TypeInit DEF Init, IInv, NeverPopsEmpty

LEMMA IInvStep == IInv /\ [Next]_vars => IInv'
<1>. SUFFICES ASSUME IInv, [Next]_vars PROVE IInv'
  OBVIOUS
<1>. USE DEF IInv, NeverPopsEmpty
<1>0. TypeOK'
  BY TypeStep
<1>a. Len(queue) \in Nat /\ sem \in Nat /\ Cardinality(Posting) \in Nat
  BY PostingFinite, LenProperties DEF TypeOK
<1>1. ASSUME NEW t \in Caller, NEW ev \in Event, AnnounceEvent(t, ev)
      PROVE  IInv'
  <2>1. Posting' = Posting
    BY <1>1 DEF AnnounceEvent, InClient, Posting, TypeOK
  <2>. QED  BY <1>0, <1>1, <2>1 DEF AnnounceEvent, SemMatchesQueue
<1>2. ASSUME NEW t \in Caller, NEW ev \in Event, NEW h \in Handler \union {NIL},
             RegisterEvent(t, ev, h)
      PROVE  IInv'
  BY <1>0, <1>2, NoneElsePosts DEF RegisterEvent, SemMatchesQueue
<1>3. ASSUME NEW t \in Caller, LookupFails(t) \/ LookupFinds(t)
      PROVE  IInv'
  <2>1. Posting' = Posting
    BY <1>3 DEF LookupFails, LookupFinds, Posting, TypeOK
  <2>. QED  BY <1>0, <1>3, <2>1 DEF LookupFails, LookupFinds, SemMatchesQueue
<1>5. ASSUME NEW t \in Caller, QueueAppend(t)
      PROVE  IInv'
  <2>1. Posting' = Posting \union {t} /\ t \notin Posting
    BY <1>5 DEF QueueAppend, Posting, TypeOK
  <2>2. Cardinality(Posting') = Cardinality(Posting) + 1
    BY <2>1, PostingFinite, FS_AddElement
  <2>3. call[t] \in Entry
    BY <1>5 DEF QueueAppend, TypeOK
  <2>4. Len(queue') = Len(queue) + 1
    BY <1>5, <2>3, AppendProperties DEF QueueAppend, TypeOK
  <2>. QED  BY <1>0, <1>a, <1>5, <2>2, <2>4 DEF QueueAppend, SemMatchesQueue
<1>6. ASSUME NEW t \in Caller, SemPost(t)
      PROVE  IInv'
  <2>1. Posting' = Posting \ {t} /\ t \in Posting
    BY <1>6 DEF SemPost, Posting, TypeOK
  <2>2. Cardinality(Posting') = Cardinality(Posting) - 1
    BY <2>1, PostingFinite, FS_RemoveElement
  <2>. QED  BY <1>0, <1>a, <1>6, <2>2 DEF SemPost, SemMatchesQueue
<1>7. CASE RunHandler
  <2>1. queue # << >>
    BY <1>7, <1>a, EmptySeq DEF RunHandler, LoopGoes, SemMatchesQueue
  <2>2. Len(queue') = Len(queue) - 1
    BY <1>7, <2>1, HeadTailProperties DEF RunHandler, TypeOK
  <2>3. Posting' = Posting
    BY <1>7, NoneElsePosts DEF RunHandler
  <2>. QED  BY <1>0, <1>a, <1>7, <2>1, <2>2, <2>3 DEF RunHandler, LoopGoes, SemMatchesQueue
<1>8. CASE SemWait
  <2>1. Posting' = Posting
    BY <1>8, NoneElsePosts DEF SemWait
  <2>. QED  BY <1>0, <1>a, <1>8, <2>1 DEF SemWait, LoopGoes, SemMatchesQueue
<1>9. CASE TestState
  <2>1. Posting' = Posting
    BY <1>9, NoneElsePosts DEF TestState
  <2>2. lpc' = "wait" => state = 2
    BY <1>9 DEF TestState, LoopGoes, TypeOK
  <2>. QED  BY <1>0, <1>9, <2>1, <2>2 DEF TestState, LoopGoes, SemMatchesQueue
<1>10. CASE \/ StartEventLoop \/ StopEventLoop \/ CleanupEventLoop
            \/ InitialFunctionReturns \/ HandlerReturns
  <2>1. Posting' = Posting
    BY <1>10, NoneElsePosts DEF StartEventLoop, StopEventLoop, CleanupEventLoop,
          InitialFunctionReturns, HandlerReturns
  <2>. QED  BY <1>0, <1>10, <2>1 DEF StartEventLoop, StopEventLoop, CleanupEventLoop,
               InitialFunctionReturns, HandlerReturns, LoopGoes, SemMatchesQueue
<1>11. CASE UNCHANGED vars
  BY <1>0, <1>11, NoneElsePosts DEF vars, SemMatchesQueue
<1>. QED  BY <1>1, <1>2, <1>3, <1>5, <1>6, <1>7, <1>8, <1>9, <1>10, <1>11
          DEF Next, Client, Looping, Announcing

LEMMA Inductive == Safety => []IInv
  BY IInvInit, IInvStep, PTL DEF Safety

(* Every queued cell is matched by one token, taken, posted or about to be *)
(* posted.                                                                 *)
THEOREM SemaphoreCountsTheQueue == Safety => []SemMatchesQueue
<1>1. IInv => SemMatchesQueue
  BY DEF IInv
<1>. QED  BY <1>1, Inductive, PTL

(* run_handler never dereferences the null cell of an empty queue.         *)
THEOREM PopFindsACell == Safety => []NeverPopsEmpty
<1>1. IInv => NeverPopsEmpty
  BY DEF IInv
<1>. QED  BY <1>1, Inductive, PTL

(* When the queue has been drained no thread is between the append and the *)
(* post of an announcement, so the handle may be freed.                    *)
THEOREM DrainedQueueIsQuiet == Safety => []DrainedMeansQuiet
<1>1. IInv => DrainedMeansQuiet
  <2>1. SUFFICES ASSUME IInv, queue = << >> PROVE Posting = {}
    BY DEF DrainedMeansQuiet
  <2>2. Cardinality(Posting) = 0
    BY <2>1, PostingFinite, EmptySeq DEF IInv, SemMatchesQueue, TypeOK
  <2>. QED  BY <2>2, PostingFinite, FS_EmptySet
<1>. QED  BY <1>1, Inductive, PTL

-----------------------------------------------------------------------------
(* The loop implements the FIFO channel of its header                      *)

LEMMA HeadThenTail ==
  ASSUME NEW S, NEW s \in Seq(S), s # << >>
  PROVE  <<Head(s)>> \o Tail(s) = s
<1>1. Head(s) \in S /\ Tail(s) \in Seq(S) /\ Len(Tail(s)) = Len(s) - 1
  BY HeadTailProperties
<1>2. \A i \in 1..Len(Tail(s)) : Tail(s)[i] = s[i + 1]
  BY <1>1
<1>. QED  BY <1>1, <1>2, SeqEqual, ConcatProperties

\* Moving the head of the queue to the end of popped leaves the history alone.
LEMMA PopKeepsHistory ==
  ASSUME NEW S, NEW p \in Seq(S), NEW q \in Seq(S), q # << >>
  PROVE  Append(p, Head(q)) \o Tail(q) = p \o q
<1>1. Head(q) \in S /\ Tail(q) \in Seq(S) /\ <<Head(q)>> \in Seq(S)
  BY HeadTailProperties
<1>2. Append(p, Head(q)) = p \o <<Head(q)>>
  BY <1>1, AppendIsConcat
<1>3. (p \o <<Head(q)>>) \o Tail(q) = p \o (<<Head(q)>> \o Tail(q))
  BY <1>1, ConcatAssociative
<1>. QED  BY <1>2, <1>3, HeadThenTail

LEMMA AppendExtendsHistory ==
  ASSUME NEW S, NEW p \in Seq(S), NEW q \in Seq(S), NEW e \in S
  PROVE  p \o Append(q, e) = Append(p \o q, e)
<1>1. <<e>> \in Seq(S) /\ p \o q \in Seq(S)
  BY ConcatProperties
<1>2. Append(q, e) = q \o <<e>> /\ Append(p \o q, e) = (p \o q) \o <<e>>
  BY <1>1, AppendIsConcat
<1>. QED  BY <1>1, <1>2, ConcatAssociative

LEMMA ChannelInit == Init => Channel!Init
<1>. SUFFICES ASSUME Init PROVE Channel!Init
  OBVIOUS
<1>1. History = << >> /\ Len(popped) = 0
  BY EmptySeq, ConcatEmptySeq DEF Init, History
<1>. QED  BY <1>1 DEF Init, Channel!Init

LEMMA ChannelStep == IInv /\ [Next]_vars => [Channel!Next]_(Channel!vars)
<1>. SUFFICES ASSUME IInv, [Next]_vars PROVE [Channel!Next]_(Channel!vars)
  OBVIOUS
<1>. USE DEF IInv
<1>a. queue \in Seq(Entry) /\ popped \in Seq(Entry) /\ state \in 0..2
  BY DEF TypeOK
<1>1. ASSUME NEW t \in Caller, QueueAppend(t)
      PROVE  Channel!Accept
  <2>1. call[t] \in Entry
    BY <1>1 DEF QueueAppend, TypeOK
  <2>2. History' = Append(History, call[t])
    BY <1>1, <1>a, <2>1, AppendExtendsHistory DEF QueueAppend, History
  <2>. QED  BY <1>1, <2>1, <2>2 DEF QueueAppend, Channel!Accept
<1>2. CASE RunHandler
  <2>1. queue # << >> /\ state = 2
    BY <1>2, PostingFinite, LenProperties, EmptySeq
       DEF RunHandler, LoopGoes, SemMatchesQueue, TypeOK
  <2>2. History' = History
    BY <1>2, <1>a, <2>1, PopKeepsHistory DEF RunHandler, History
  <2>3. Len(popped') = Len(popped) + 1
    BY <1>2, <1>a, <2>1, HeadTailProperties, AppendProperties DEF RunHandler
  <2>4. Len(popped) < Len(History)
    BY <1>a, <2>1, ConcatProperties, EmptySeq, LenProperties DEF History
  <2>5. Channel!Deliver
    BY <1>2, <2>1, <2>2, <2>3, <2>4 DEF RunHandler, Channel!Deliver
  <2>. QED  BY <2>5 DEF Channel!Next
<1>3. CASE StartEventLoop
  <2>1. History' = History /\ popped' = popped
    BY <1>3 DEF StartEventLoop, History
  <2>2. CASE state = 1
    BY <1>3, <2>1, <2>2 DEF StartEventLoop, Channel!Next, Channel!Start
  <2>3. CASE state # 1
    BY <1>3, <2>1, <2>3 DEF StartEventLoop, Channel!vars
  <2>. QED  BY <2>2, <2>3
<1>4. CASE StopEventLoop
  <2>1. History' = History /\ popped' = popped
    BY <1>4 DEF StopEventLoop, History
  <2>2. CASE state = 2
    BY <1>4, <2>1, <2>2 DEF StopEventLoop, Channel!Next, Channel!Stop
  <2>3. CASE state # 2
    BY <1>4, <2>1, <2>3 DEF StopEventLoop, Channel!vars
  <2>. QED  BY <2>2, <2>3
<1>5. ASSUME UNCHANGED <<state, queue, popped>>
      PROVE  UNCHANGED Channel!vars
  BY <1>5 DEF History, Channel!vars
<1>6. ASSUME NEW t \in Caller, NEW ev \in Event, AnnounceEvent(t, ev)
      PROVE  UNCHANGED <<state, queue, popped>>
  BY <1>6 DEF AnnounceEvent
<1>7. ASSUME NEW t \in Caller, NEW ev \in Event, NEW h \in Handler \union {NIL},
             RegisterEvent(t, ev, h)
      PROVE  UNCHANGED <<state, queue, popped>>
  BY <1>7 DEF RegisterEvent
<1>8. ASSUME NEW t \in Caller, LookupFails(t) \/ LookupFinds(t) \/ SemPost(t)
      PROVE  UNCHANGED <<state, queue, popped>>
  BY <1>8 DEF LookupFails, LookupFinds, SemPost
<1>9. CASE \/ CleanupEventLoop \/ InitialFunctionReturns \/ HandlerReturns
           \/ TestState \/ SemWait \/ UNCHANGED vars
  <2>. UNCHANGED <<state, queue, popped>>
    BY <1>9 DEF CleanupEventLoop, InitialFunctionReturns, HandlerReturns, TestState,
                SemWait, vars
  <2>. QED  BY <1>5
<1>. QED  BY <1>1, <1>2, <1>3, <1>4, <1>5, <1>6, <1>7, <1>8, <1>9
          DEF Next, Client, Looping, Announcing, Channel!Next

(* Every behaviour of the loop is one of the channel: what is accepted is  *)
(* delivered in order and at most once, only between start and stop.       *)
THEOREM LoopImplementsChannel == Safety => Channel!Safety
  BY ChannelInit, ChannelStep, Inductive, PTL DEF Safety, Channel!Safety

-----------------------------------------------------------------------------
(* Where an announcement is                                                *)

\* The callers whose announcement has not reached the queue yet.
InTransit == {t \in Caller : pc[t] \in {"lookup", "append"}}

LEMMA HistoryType == TypeOK => /\ History \in Seq(Entry)
                               /\ DOMAIN History = 1..Len(History) /\ Len(History) \in Nat
                               /\ \A i \in DOMAIN History : History[i] \in Entry
<1>. SUFFICES ASSUME TypeOK
     PROVE  /\ History \in Seq(Entry)
            /\ DOMAIN History = 1..Len(History) /\ Len(History) \in Nat
            /\ \A i \in DOMAIN History : History[i] \in Entry
  OBVIOUS
<1>1. History \in Seq(Entry)
  BY ConcatProperties DEF TypeOK, History
<1>2. DOMAIN History = 1..Len(History) /\ Len(History) \in Nat
  BY <1>1, LenProperties
<1>. QED  BY <1>1, <1>2, ElementOfSeq

(* The history is extended by the append of an announcer and by nothing    *)
(* else: a pop moves its entry from the queue to popped.                   *)
LEMMA AppendEndsHistory ==
  ASSUME TypeOK, NEW t \in Caller, QueueAppend(t)
  PROVE  /\ call[t] \in Entry
         /\ Len(History') = Len(History) + 1
         /\ DOMAIN History' = DOMAIN History \union {Len(History) + 1}
         /\ \A i \in DOMAIN History : History'[i] = History[i]
         /\ History'[Len(History) + 1] = call[t]
<1>1. call[t] \in Entry
  BY DEF QueueAppend, TypeOK
<1>2. History' = Append(History, call[t])
  BY <1>1, AppendExtendsHistory DEF QueueAppend, History, TypeOK
<1>. QED  BY <1>1, <1>2, HistoryType, AppendProperties

LEMMA HistoryKept ==
  ASSUME TypeOK, [Next]_vars, \A t \in Caller : ~QueueAppend(t)
  PROVE  History' = History
<1>1. CASE RunHandler
  BY <1>1, PopKeepsHistory DEF RunHandler, History, TypeOK
<1>2. CASE \/ StartEventLoop \/ StopEventLoop \/ CleanupEventLoop \/ InitialFunctionReturns
           \/ HandlerReturns \/ TestState \/ SemWait \/ UNCHANGED vars
  BY <1>2 DEF StartEventLoop, StopEventLoop, CleanupEventLoop, InitialFunctionReturns,
              HandlerReturns, TestState, SemWait, vars, History
<1>3. ASSUME NEW t \in Caller, LookupFails(t) \/ LookupFinds(t) \/ SemPost(t)
      PROVE  History' = History
  BY <1>3 DEF LookupFails, LookupFinds, SemPost, History
<1>4. ASSUME NEW t \in Caller, NEW ev \in Event, AnnounceEvent(t, ev)
      PROVE  History' = History
  BY <1>4 DEF AnnounceEvent, History
<1>5. ASSUME NEW t \in Caller, NEW ev \in Event, NEW h \in Handler \union {NIL},
             RegisterEvent(t, ev, h)
      PROVE  History' = History
  BY <1>5 DEF RegisterEvent, History
<1>. QED  BY <1>1, <1>2, <1>3, <1>4, <1>5 DEF Next, Client, Looping, Announcing

\* The steps of the loop's own thread, and those of main.
LoopOrMain == \/ StartEventLoop \/ StopEventLoop \/ CleanupEventLoop
              \/ Looping \/ UNCHANGED vars

LEMMA LoopLeavesCallers ==
  ASSUME LoopOrMain
  PROVE  UNCHANGED <<alist, pc, call, calls, unhandled>>
BY DEF LoopOrMain, StartEventLoop, StopEventLoop, CleanupEventLoop, Looping,
       InitialFunctionReturns, HandlerReturns, TestState, SemWait, RunHandler, vars

LEMMA LoopAppendsNothing ==
  ASSUME TypeOK, LoopOrMain
  PROVE  \A t \in Caller : ~QueueAppend(t)
BY LoopLeavesCallers DEF QueueAppend, TypeOK

-----------------------------------------------------------------------------
(* Every announcement is in one place                                      *)

(* EachCallInOnePlace counts the entries of the history; what is inductive *)
(* is that no two of them, and no two callers in transit, carry the number *)
(* of the same call.                                                       *)
OnePlace ==
  /\ InFlight \union Queued \union unhandled = 1..calls
  /\ InFlight \intersect Queued = {} /\ InFlight \intersect unhandled = {}
  /\ Queued \intersect unhandled = {}
  /\ \A t, u \in InTransit : call[t].n = call[u].n => t = u
  /\ \A i, j \in DOMAIN History : History[i].n = History[j].n => i = j

LEMMA OnePlaceInit == Init => OnePlace
<1>. SUFFICES ASSUME Init PROVE OnePlace
  OBVIOUS
<1>1. History = << >>
  BY EmptySeq, ConcatEmptySeq DEF Init, History
<1>2. Queued = {} /\ InFlight = {} /\ InTransit = {}
  BY <1>1 DEF Init, Queued, InFlight, InTransit
<1>. QED  BY <1>1, <1>2 DEF Init, OnePlace

\* A step that leaves the history and the callers in transit alone.
LEMMA OnePlaceKept ==
  ASSUME OnePlace, History' = History, UNCHANGED <<calls, unhandled>>, InTransit' = InTransit,
         \A t \in InTransit : call'[t].n = call[t].n
  PROVE  OnePlace'
<1>1. Queued' = Queued
  BY DEF Queued
<1>2. InFlight = {call[t].n : t \in InTransit} /\ InFlight' = {call'[t].n : t \in InTransit}
  BY DEF InFlight, InTransit
<1>3. InFlight' = InFlight
  BY <1>2
<1>. QED  BY <1>1, <1>3 DEF OnePlace

LEMMA OnePlaceStep == TypeOK /\ OnePlace /\ [Next]_vars => OnePlace'
<1>. SUFFICES ASSUME TypeOK, OnePlace, [Next]_vars PROVE OnePlace'
  OBVIOUS
<1>0. /\ calls \in Nat
      /\ InFlight = {call[t].n : t \in InTransit} /\ InFlight' = {call'[t].n : t \in InTransit'}
  BY DEF TypeOK, InFlight, InTransit
<1>1. ASSUME NEW t \in Caller, NEW ev \in Event, AnnounceEvent(t, ev)
      PROVE  OnePlace'
  <2>1. History' = History /\ Queued' = Queued /\ calls' = calls + 1 /\ unhandled' = unhandled
    BY <1>1 DEF AnnounceEvent, History, Queued
  <2>2. InTransit' = InTransit \union {t} /\ t \notin InTransit
    BY <1>1 DEF AnnounceEvent, InClient, InTransit, TypeOK
  <2>3. call'[t].n = calls + 1 /\ \A u \in InTransit : call'[u].n = call[u].n
    BY <1>1, <2>2 DEF AnnounceEvent, InTransit, TypeOK
  <2>4. InFlight' = InFlight \union {calls + 1}
    BY <1>0, <2>2, <2>3
  <2>5. 1..calls + 1 = (1..calls) \union {calls + 1} /\ calls + 1 \notin 1..calls
    BY <1>0
  <2>6. \A u \in InTransit : call[u].n # calls + 1
    BY <1>0, <2>5 DEF OnePlace
  <2>7. \A u, v \in InTransit' : call'[u].n = call'[v].n => u = v
    BY <2>2, <2>3, <2>6 DEF OnePlace
  <2>. QED  BY <2>1, <2>4, <2>5, <2>7 DEF OnePlace
<1>2. ASSUME NEW t \in Caller, LookupFails(t)
      PROVE  OnePlace'
  <2>1. History' = History /\ Queued' = Queued /\ calls' = calls
        /\ unhandled' = unhandled \union {call[t].n}
    BY <1>2 DEF LookupFails, History, Queued
  <2>2. InTransit' = InTransit \ {t} /\ t \in InTransit
    BY <1>2 DEF LookupFails, InTransit, TypeOK
  <2>3. \A u \in InTransit' : call'[u] = call[u]
    BY <1>2, <2>2 DEF LookupFails, InTransit, TypeOK
  <2>4. InFlight' = InFlight \ {call[t].n} /\ call[t].n \in InFlight
    BY <1>0, <2>2, <2>3 DEF OnePlace
  <2>5. \A u, v \in InTransit' : call'[u].n = call'[v].n => u = v
    BY <2>2, <2>3 DEF OnePlace
  <2>. QED  BY <2>1, <2>4, <2>5 DEF OnePlace
<1>3. ASSUME NEW t \in Caller, LookupFinds(t)
      PROVE  OnePlace'
  <2>1. History' = History /\ UNCHANGED <<calls, unhandled>>
    BY <1>3 DEF LookupFinds, History
  <2>2. InTransit' = InTransit
    BY <1>3 DEF LookupFinds, InTransit, TypeOK
  <2>3. call[t] \in Announcement
    BY <1>3 DEF LookupFinds, TypeOK
  <2>4. \A u \in InTransit : call'[u].n = call[u].n
    BY <1>3, <2>3 DEF LookupFinds, InTransit, TypeOK, Announcement
  <2>. QED  BY <2>1, <2>2, <2>4, OnePlaceKept
<1>4. ASSUME NEW t \in Caller, QueueAppend(t)
      PROVE  OnePlace'
  <2>1. UNCHANGED <<calls, unhandled, call>>
    BY <1>4 DEF QueueAppend
  <2>2. InTransit' = InTransit \ {t} /\ t \in InTransit
    BY <1>4 DEF QueueAppend, InTransit, TypeOK
  <2>3. InFlight' = InFlight \ {call[t].n} /\ call[t].n \in InFlight
    BY <1>0, <2>1, <2>2 DEF OnePlace
  <2>4. Queued' = Queued \union {call[t].n}
    BY <1>4, AppendEndsHistory, HistoryType DEF Queued
  <2>5. \A u, v \in InTransit' : call'[u].n = call'[v].n => u = v
    BY <2>1, <2>2 DEF OnePlace
  <2>6. \A i \in DOMAIN History : History[i].n # call[t].n
    BY <2>3 DEF OnePlace, Queued
  <2>7. \A i, j \in DOMAIN History' : History'[i].n = History'[j].n => i = j
    BY <1>4, <2>6, AppendEndsHistory DEF OnePlace
  <2>. QED  BY <2>1, <2>3, <2>4, <2>5, <2>7 DEF OnePlace
<1>5. ASSUME NEW t \in Caller, SemPost(t)
      PROVE  OnePlace'
  <2>1. History' = History /\ UNCHANGED <<calls, unhandled>>
    BY <1>5 DEF SemPost, History
  <2>2. InTransit' = InTransit
    BY <1>5 DEF SemPost, InTransit, TypeOK
  <2>3. \A u \in InTransit : call'[u].n = call[u].n
    BY <1>5 DEF SemPost, InTransit, TypeOK
  <2>. QED  BY <2>1, <2>2, <2>3, OnePlaceKept
<1>6. ASSUME NEW t \in Caller, NEW ev \in Event, NEW h \in Handler \union {NIL},
             RegisterEvent(t, ev, h)
      PROVE  OnePlace'
  <2>1. History' = History /\ UNCHANGED <<calls, unhandled, call>> /\ InTransit' = InTransit
    BY <1>6 DEF RegisterEvent, History, InTransit
  <2>. QED  BY <2>1, OnePlaceKept
<1>7. CASE LoopOrMain
  <2>1. UNCHANGED <<calls, unhandled, call>> /\ InTransit' = InTransit
    BY <1>7, LoopLeavesCallers DEF InTransit
  <2>. QED  BY <1>7, <2>1, LoopAppendsNothing, HistoryKept, OnePlaceKept
<1>. QED  BY <1>1, <1>2, <1>3, <1>4, <1>5, <1>6, <1>7
          DEF Next, Client, Announcing, LoopOrMain

(* A sequence whose elements carry different numbers has as many numbers   *)
(* as elements.                                                            *)
LEMMA NumbersCount ==
  ASSUME TypeOK, \A i, j \in DOMAIN History : History[i].n = History[j].n => i = j
  PROVE  Cardinality(Queued) = Len(History)
<1>. DEFINE D == DOMAIN History
            f == [i \in D |-> History[i].n]
<1>1. D = 1..Len(History) /\ Len(History) \in Nat
  BY HistoryType
<1>2. IsFiniteSet(D) /\ Cardinality(D) = Len(History)
  BY <1>1, FS_Interval
<1>3. f \in [D -> Queued]
  BY DEF Queued
<1>4. \A q \in Queued : \E i \in D : f[i] = q
  BY DEF Queued
<1>5. f \in Surjection(D, Queued)
  BY <1>3, <1>4 DEF Surjection
<1>6. f \in Injection(D, Queued)
  BY <1>3 DEF Injection, IsInjective
<1>. QED  BY <1>2, <1>5, <1>6, FS_Surjection

(* No announcement is lost, run or reported twice, or both: each call made *)
(* is in flight, in the history or among the unhandled ones.               *)
THEOREM EveryCallHasOnePlace == Safety => []EachCallInOnePlace
<1>1. TypeOK /\ OnePlace => EachCallInOnePlace
  BY NumbersCount DEF OnePlace, EachCallInOnePlace
<1>. QED  BY <1>1, OnePlaceInit, OnePlaceStep, TypeCorrect, PTL DEF Safety

-----------------------------------------------------------------------------
(* The order of one thread's announcements                                 *)

(* A caller in transit carries a number of its own, larger than that of    *)
(* every entry it has in the history: announce_event returns to a caller   *)
(* before it can be called again.                                          *)
NewestInTransit ==
  \A t \in InTransit :
    /\ call[t].from = t
    /\ \A i \in DOMAIN History : History[i].from = t => History[i].n < call[t].n

OrderInv == PerThreadOrder /\ NewestInTransit

LEMMA OrderInit == Init => OrderInv
<1>. SUFFICES ASSUME Init PROVE OrderInv
  OBVIOUS
<1>1. DOMAIN History = {}
  BY EmptySeq, ConcatEmptySeq DEF Init, History
<1>2. InTransit = {}
  BY DEF Init, InTransit
<1>. QED  BY <1>1, <1>2 DEF OrderInv, PerThreadOrder, NewestInTransit

LEMMA OrderKept ==
  ASSUME OrderInv, History' = History, InTransit' \subseteq InTransit,
         \A t \in InTransit' : call'[t].n = call[t].n /\ call'[t].from = call[t].from
  PROVE  OrderInv'
BY DEF OrderInv, PerThreadOrder, NewestInTransit

LEMMA OrderStep == TypeOK /\ OnePlace /\ OrderInv /\ [Next]_vars => OrderInv'
<1>. SUFFICES ASSUME TypeOK, OnePlace, OrderInv, [Next]_vars PROVE OrderInv'
  OBVIOUS
<1>1. ASSUME NEW t \in Caller, NEW ev \in Event, AnnounceEvent(t, ev)
      PROVE  OrderInv'
  <2>1. History' = History
    BY <1>1 DEF AnnounceEvent, History
  <2>2. InTransit' = InTransit \union {t} /\ t \notin InTransit
    BY <1>1 DEF AnnounceEvent, InClient, InTransit, TypeOK
  <2>3. call'[t].n = calls + 1 /\ call'[t].from = t /\ \A u \in InTransit : call'[u] = call[u]
    BY <1>1, <2>2 DEF AnnounceEvent, InTransit, TypeOK
  <2>4. \A i \in DOMAIN History : History[i].n \in 1..calls
    BY DEF OnePlace, Queued
  <2>5. \A i \in DOMAIN History : History[i].n < call'[t].n
    BY <2>3, <2>4 DEF TypeOK
  <2>. QED  BY <2>1, <2>2, <2>3, <2>5 DEF OrderInv, PerThreadOrder, NewestInTransit
<1>2. ASSUME NEW t \in Caller, LookupFails(t) \/ SemPost(t)
      PROVE  OrderInv'
  <2>1. History' = History
    BY <1>2 DEF LookupFails, SemPost, History
  <2>2. InTransit' \subseteq InTransit /\ \A u \in InTransit' : call'[u] = call[u]
    BY <1>2 DEF LookupFails, SemPost, InTransit, TypeOK
  <2>. QED  BY <2>1, <2>2, OrderKept
<1>3. ASSUME NEW t \in Caller, LookupFinds(t)
      PROVE  OrderInv'
  <2>1. History' = History
    BY <1>3 DEF LookupFinds, History
  <2>2. InTransit' = InTransit
    BY <1>3 DEF LookupFinds, InTransit, TypeOK
  <2>3. call[t] \in Announcement
    BY <1>3 DEF LookupFinds, TypeOK
  <2>4. \A u \in InTransit : call'[u].n = call[u].n /\ call'[u].from = call[u].from
    BY <1>3, <2>3 DEF LookupFinds, InTransit, TypeOK, Announcement
  <2>. QED  BY <2>1, <2>2, <2>4, OrderKept
<1>4. ASSUME NEW t \in Caller, QueueAppend(t)
      PROVE  OrderInv'
  <2>1. call' = call /\ InTransit' = InTransit \ {t} /\ t \in InTransit
    BY <1>4 DEF QueueAppend, InTransit, TypeOK
  <2>. DEFINE last == Len(History) + 1
  <2>2. /\ DOMAIN History' = DOMAIN History \union {last} /\ History'[last] = call[t]
        /\ \A i \in DOMAIN History : History'[i] = History[i]
    BY <1>4, AppendEndsHistory
  <2>3. \A i \in DOMAIN History : History[i].from = call[t].from => History[i].n < call[t].n
    BY <2>1 DEF OrderInv, NewestInTransit
  <2>4. ASSUME NEW i \in DOMAIN History', NEW j \in DOMAIN History', i < j,
               History'[i].from = History'[j].from
        PROVE  History'[i].n < History'[j].n
    <3>1. CASE i \in DOMAIN History /\ j \in DOMAIN History
      BY <2>2, <2>4, <3>1 DEF OrderInv, PerThreadOrder
    <3>2. CASE i \in DOMAIN History /\ j = last
      BY <2>2, <2>3, <2>4, <3>2
    <3>3. CASE i = last
      BY <2>2, <2>4, <3>3, HistoryType
    <3>. QED  BY <2>2, <3>1, <3>2, <3>3
  <2>5. ASSUME NEW u \in InTransit'
        PROVE  /\ call'[u].from = u
               /\ \A i \in DOMAIN History' : History'[i].from = u => History'[i].n < call'[u].n
    <3>1. call[u].from = u /\ call[t].from = t /\ u # t
      BY <2>1 DEF OrderInv, NewestInTransit
    <3>. QED  BY <2>1, <2>2, <3>1 DEF OrderInv, NewestInTransit
  <2>. QED  BY <2>4, <2>5 DEF OrderInv, PerThreadOrder, NewestInTransit
<1>5. ASSUME NEW t \in Caller, NEW ev \in Event, NEW h \in Handler \union {NIL},
             RegisterEvent(t, ev, h)
      PROVE  OrderInv'
  <2>1. History' = History /\ call' = call /\ InTransit' = InTransit
    BY <1>5 DEF RegisterEvent, History, InTransit
  <2>. QED  BY <2>1, OrderKept
<1>6. CASE LoopOrMain
  <2>1. call' = call /\ InTransit' = InTransit
    BY <1>6, LoopLeavesCallers DEF InTransit
  <2>. QED  BY <1>6, <2>1, LoopAppendsNothing, HistoryKept, OrderKept
<1>. QED  BY <1>1, <1>2, <1>3, <1>4, <1>5, <1>6 DEF Next, Client, Announcing, LoopOrMain

(* The announcements of one thread are run in the order it made them.      *)
THEOREM ThreadsKeepTheirOrder == Safety => []PerThreadOrder
<1>1. OrderInv => PerThreadOrder
  BY DEF OrderInv
<1>. QED  BY <1>1, OnePlaceInit, OnePlaceStep, OrderInit, OrderStep, TypeCorrect, PTL DEF Safety
-----------------------------------------------------------------------------
(* No overridden handler is queued                                         *)

\* What FreshHandler asks of one entry of the history.
Fresh(e) ==
  \E k \in DOMAIN alist :
    /\ Registration(k) = [event |-> e.event, handler |-> e.handler]
    /\ \A later \in k + 1 .. e.since : Registration(later).event # e.event

(* A call has counted the registrations made before it, and the handler it *)
(* carries to the queue is as fresh as one that has arrived there.         *)
FreshInv ==
  /\ \A i \in DOMAIN History : History[i].since <= Len(alist) /\ Fresh(History[i])
  /\ \A t \in InTransit : call[t].since <= Len(alist)
  /\ \A t \in Caller : pc[t] = "append" => Fresh(call[t])

LEMMA AlistType == TypeOK => Len(alist) \in Nat /\ DOMAIN alist = 1..Len(alist)
BY LenProperties DEF TypeOK

LEMMA FreshInit == Init => FreshInv
<1>. SUFFICES ASSUME Init PROVE FreshInv
  OBVIOUS
<1>1. DOMAIN History = {}
  BY EmptySeq, ConcatEmptySeq DEF Init, History
<1>2. InTransit = {} /\ \A t \in Caller : pc[t] # "append"
  BY DEF Init, InTransit
<1>. QED  BY <1>1, <1>2 DEF FreshInv

(* register_event pushes at the front: the k-th registration stays the     *)
(* k-th, and none that an earlier announcement counted is added.           *)
LEMMA RegistrationsStay ==
  ASSUME TypeOK, NEW t \in Caller, NEW ev \in Event, NEW h \in Handler \union {NIL},
         RegisterEvent(t, ev, h)
  PROVE  /\ Len(alist') = Len(alist) + 1
         /\ DOMAIN alist \subseteq DOMAIN alist'
         /\ \A k \in DOMAIN alist : Registration(k)' = Registration(k)
<1>. DEFINE P == [event : Event, handler : Handler \union {NIL}]
            new == <<[event |-> ev, handler |-> h]>>
<1>1. new \in Seq(P) /\ Len(new) = 1 /\ alist \in Seq(P)
  BY DEF TypeOK
<1>2. alist' = new \o alist
  BY DEF RegisterEvent
<1>3. /\ alist' \in Seq(P) /\ Len(alist') = Len(alist) + 1
      /\ \A i \in 1..1 + Len(alist) : alist'[i] = IF i <= 1 THEN new[i] ELSE alist[i - 1]
  BY <1>1, <1>2, ConcatProperties
<1>4. Len(alist) \in Nat /\ DOMAIN alist = 1..Len(alist) /\ DOMAIN alist' = 1..Len(alist) + 1
  BY <1>1, <1>3, LenProperties
<1>5. ASSUME NEW k \in DOMAIN alist
      PROVE  alist'[Len(alist') + 1 - k] = alist[Len(alist) + 1 - k]
  BY <1>3, <1>4
<1>. QED  BY <1>3, <1>4, <1>5 DEF Registration

LEMMA FreshStays ==
  ASSUME TypeOK, NEW t \in Caller, NEW ev \in Event, NEW h \in Handler \union {NIL},
         RegisterEvent(t, ev, h), NEW e, e.since \in Nat, e.since <= Len(alist), Fresh(e)
  PROVE  Fresh(e)' /\ e.since <= Len(alist')
<1>1. PICK k \in DOMAIN alist :
        /\ Registration(k) = [event |-> e.event, handler |-> e.handler]
        /\ \A later \in k + 1 .. e.since : Registration(later).event # e.event
  BY DEF Fresh
<1>2. k + 1 .. e.since \subseteq DOMAIN alist
  BY AlistType
<1>3. k \in DOMAIN alist' /\ Registration(k)' = Registration(k)
      /\ \A later \in k + 1 .. e.since : Registration(later)' = Registration(later)
  BY <1>2, RegistrationsStay
<1>. QED  BY <1>1, <1>3, RegistrationsStay, AlistType DEF Fresh

(* The newest matching pair is not overridden by any registration that the *)
(* call had counted.                                                       *)
LEMMA FoundIsFresh ==
  ASSUME TypeOK, NEW e \in Announcement, e.since <= Len(alist),
         GetEventHandler(e.event) # NIL
  PROVE  Fresh([e EXCEPT !.handler = GetEventHandler(e.event)])
<1>. DEFINE a == Assoc(e.event)
            found == [e EXCEPT !.handler = GetEventHandler(e.event)]
            k == Len(alist) + 1 - a
            P == [event : Event, handler : Handler \union {NIL}]
<1>1. Matches(e.event) # {} /\ GetEventHandler(e.event) = alist[a].handler
  BY DEF GetEventHandler
<1>2. a \in DOMAIN alist /\ alist[a].event = e.event
      /\ \A j \in DOMAIN alist : alist[j].event = e.event => a <= j
  BY <1>1, AssocFinds DEF Matches
<1>3. alist[a] \in P
  BY <1>2, AlistType, ElementOfSeq DEF TypeOK
<1>4. alist[a] = [event |-> e.event, handler |-> GetEventHandler(e.event)]
  BY <1>1, <1>2, <1>3
<1>5. k \in DOMAIN alist /\ Len(alist) + 1 - k = a
  BY <1>2, AlistType
<1>6. Registration(k) = [event |-> e.event, handler |-> GetEventHandler(e.event)]
  BY <1>4, <1>5 DEF Registration
<1>7. ASSUME NEW later \in k + 1 .. e.since
      PROVE  Registration(later).event # e.event
  <2>1. e.since \in Nat /\ later \in Nat
    BY <1>5, AlistType, BoundAssumption DEF Announcement
  <2>. DEFINE j == Len(alist) + 1 - later
  <2>2. j \in DOMAIN alist /\ j < a /\ a \in Nat
    BY <1>2, <1>5, <2>1, AlistType
  <2>3. alist[j].event # e.event
    BY <1>2, <2>2
  <2>. QED  BY <2>3 DEF Registration
<1>8. found.event = e.event /\ found.since = e.since /\ found.handler = GetEventHandler(e.event)
  BY DEF Announcement
<1>. QED  BY <1>5, <1>6, <1>7, <1>8 DEF Fresh

LEMMA FreshKept ==
  ASSUME FreshInv, UNCHANGED alist, History' = History, InTransit' \subseteq InTransit,
         \A t \in InTransit' : call'[t].since = call[t].since,
         \A t \in Caller : pc'[t] = "append" => pc[t] = "append" /\ call'[t] = call[t]
  PROVE  FreshInv'
<1>1. \A e : Fresh(e)' <=> Fresh(e)
  BY DEF Fresh, Registration
<1>. QED  BY <1>1 DEF FreshInv

LEMMA FreshStep == TypeOK /\ FreshInv /\ [Next]_vars => FreshInv'
<1>. SUFFICES ASSUME TypeOK, FreshInv, [Next]_vars PROVE FreshInv'
  OBVIOUS
<1>1. ASSUME NEW t \in Caller, NEW ev \in Event, AnnounceEvent(t, ev)
      PROVE  FreshInv'
  <2>1. History' = History /\ alist' = alist
    BY <1>1 DEF AnnounceEvent, History
  <2>2. InTransit' = InTransit \union {t} /\ t \notin InTransit
    BY <1>1 DEF AnnounceEvent, InClient, InTransit, TypeOK
  <2>3. call'[t].since = Len(alist) /\ \A u \in InTransit : call'[u] = call[u]
    BY <1>1, <2>2 DEF AnnounceEvent, InTransit, TypeOK
  <2>4. \A u \in Caller : pc'[u] = "append" => pc[u] = "append" /\ call'[u] = call[u]
    BY <1>1 DEF AnnounceEvent, InClient, TypeOK
  <2>5. \A e : Fresh(e)' <=> Fresh(e)
    BY <2>1 DEF Fresh, Registration
  <2>. QED  BY <2>1, <2>2, <2>3, <2>4, <2>5, AlistType DEF FreshInv
<1>2. ASSUME NEW t \in Caller, LookupFails(t) \/ SemPost(t)
      PROVE  FreshInv'
  <2>1. History' = History /\ alist' = alist
    BY <1>2 DEF LookupFails, SemPost, History
  <2>2. InTransit' \subseteq InTransit /\ \A u \in InTransit' : call'[u] = call[u]
    BY <1>2 DEF LookupFails, SemPost, InTransit, TypeOK
  <2>3. \A u \in Caller : pc'[u] = "append" => pc[u] = "append" /\ call'[u] = call[u]
    BY <1>2 DEF LookupFails, SemPost, TypeOK
  <2>. QED  BY <2>1, <2>2, <2>3, FreshKept
<1>3. ASSUME NEW t \in Caller, LookupFinds(t)
      PROVE  FreshInv'
  <2>1. History' = History /\ alist' = alist
    BY <1>3 DEF LookupFinds, History
  <2>2. InTransit' = InTransit /\ t \in InTransit
    BY <1>3 DEF LookupFinds, InTransit, TypeOK
  <2>3. call[t] \in Announcement /\ GetEventHandler(call[t].event) # NIL
    BY <1>3 DEF LookupFinds, TypeOK
  <2>4. /\ call'[t] = [call[t] EXCEPT !.handler = GetEventHandler(call[t].event)]
        /\ \A u \in Caller \ {t} : call'[u] = call[u] /\ pc'[u] = pc[u]
    BY <1>3 DEF LookupFinds, TypeOK
  <2>5. Fresh(call'[t])
    BY <2>2, <2>3, <2>4, FoundIsFresh DEF FreshInv
  <2>6. call'[t].since = call[t].since
    BY <2>3, <2>4 DEF Announcement
  <2>7. \A e : Fresh(e)' <=> Fresh(e)
    BY <2>1 DEF Fresh, Registration
  <2>8. \A u \in Caller : pc'[u] = "append" => Fresh(call'[u])
    BY <2>4, <2>5 DEF FreshInv
  <2>9. \A u \in InTransit' : call'[u].since <= Len(alist)
    BY <2>2, <2>4, <2>6 DEF FreshInv, InTransit
  <2>. QED  BY <2>1, <2>7, <2>8, <2>9 DEF FreshInv
<1>4. ASSUME NEW t \in Caller, QueueAppend(t)
      PROVE  FreshInv'
  <2>1. alist' = alist /\ call' = call
    BY <1>4 DEF QueueAppend
  <2>2. InTransit' \subseteq InTransit /\ t \in InTransit /\ pc[t] = "append"
        /\ \A u \in Caller : pc'[u] = "append" => pc[u] = "append"
    BY <1>4 DEF QueueAppend, InTransit, TypeOK
  <2>3. \A i \in DOMAIN History' :
          History'[i] = call[t] \/ (i \in DOMAIN History /\ History'[i] = History[i])
    BY <1>4, AppendEndsHistory
  <2>4. \A e : Fresh(e)' <=> Fresh(e)
    BY <2>1 DEF Fresh, Registration
  <2>. QED  BY <2>1, <2>2, <2>3, <2>4 DEF FreshInv
<1>5. ASSUME NEW t \in Caller, NEW ev \in Event, NEW h \in Handler \union {NIL},
             RegisterEvent(t, ev, h)
      PROVE  FreshInv'
  <2>1. History' = History /\ UNCHANGED <<call, pc>> /\ InTransit' = InTransit
    BY <1>5 DEF RegisterEvent, History, InTransit
  <2>2. \A i \in DOMAIN History : History[i].since \in Nat
    BY HistoryType, BoundAssumption DEF Entry
  <2>3. \A u \in Caller : pc[u] = "append" => u \in InTransit /\ call[u].since \in Nat
    BY BoundAssumption DEF TypeOK, Entry, InTransit
  <2>4. \A i \in DOMAIN History : History[i].since <= Len(alist') /\ Fresh(History[i])'
    <3>. TAKE i \in DOMAIN History
    <3>. DEFINE e == History[i]
    <3>1. e.since \in Nat /\ e.since <= Len(alist) /\ Fresh(e)
      BY <2>2 DEF FreshInv
    <3>. HIDE DEF e
    <3>2. ASSUME NEW d, d.since \in Nat, d.since <= Len(alist), Fresh(d)
          PROVE  Fresh(d)' /\ d.since <= Len(alist')
      BY <1>5, <3>2, FreshStays
    <3>. QED  BY <2>1, <3>1, <3>2 DEF e, Fresh, Registration
  <2>5. \A u \in Caller : pc[u] = "append" => Fresh(call[u])'
    <3>1. ASSUME NEW d, d.since \in Nat, d.since <= Len(alist), Fresh(d)
          PROVE  Fresh(d)' /\ d.since <= Len(alist')
      BY <1>5, <3>1, FreshStays
    <3>. QED  BY <2>1, <2>3, <3>1 DEF FreshInv, Fresh, Registration
  <2>6. \A u \in InTransit : call[u].since <= Len(alist')
    <3>1. Len(alist') = Len(alist) + 1
      BY <1>5, RegistrationsStay
    <3>2. \A u \in InTransit : call[u].since \in Nat
      BY BoundAssumption DEF TypeOK, Entry, Announcement, InTransit
    <3>. QED  BY <3>1, <3>2, AlistType DEF FreshInv
  <2>. QED  BY <2>1, <2>4, <2>5, <2>6 DEF FreshInv
<1>6. CASE LoopOrMain
  <2>1. UNCHANGED <<alist, call, pc>> /\ InTransit' = InTransit
    BY <1>6, LoopLeavesCallers DEF InTransit
  <2>. QED  BY <1>6, <2>1, LoopAppendsNothing, HistoryKept, FreshKept
<1>. QED  BY <1>1, <1>2, <1>3, <1>4, <1>5, <1>6 DEF Next, Client, Announcing, LoopOrMain

(* The handler queued for an announcement had not been overridden when     *)
(* announce_event was called.                                              *)
THEOREM OverriddenHandlersStayOut == Safety => []FreshHandler
<1>1. FreshInv => FreshHandler
  BY DEF FreshInv, FreshHandler, Fresh
<1>. QED  BY <1>1, FreshInit, FreshStep, TypeCorrect, PTL DEF Safety
=============================================================================
