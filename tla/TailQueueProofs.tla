--------------------------- MODULE TailQueueProofs ---------------------------
(***************************************************************************)
(* What TLAPS proves of TailQueue, for every set of threads and of cells.  *)
(***************************************************************************)
EXTENDS TailQueue, TLAPS, FiniteSetTheorems, SequenceTheorems

\* The loop may still use the list: cleanup_event_loop has not taken the lock.
Open == pc[Loop] \notin {"clean", "cleaned"}

\* Where a thread is between the lock and the unlock of queue_lock.
Holding(t) == pc[t] \in IF t = Loop THEN {"pop", "popped", "unlockpop", "clean"}
                        ELSE {"alloc", "link", "head", "tail", "unlock"}

\* How far the owner of the lock is.
Stage == IF lock = NIL THEN "free" ELSE pc[lock]

TypeOK ==
  /\ head \in Cell \union {NIL} /\ tail \in Cell \union {NIL}
  /\ cdr \in [Cell -> Cell \union {NIL}]
  /\ live \subseteq Cell /\ pairs \subseteq Cell
  /\ lock \in Caller \union {NIL}
  /\ sem \in Nat
  /\ DOMAIN pc = Caller
  /\ pc[Loop] \in {"wait", "lock", "pop", "popped", "unlockpop", "handler", "stopped",
                   "clean", "cleaned"}
  /\ \A t \in Thread : pc[t] \in {"idle", "alloc", "link", "head", "tail", "unlock", "post"}
  /\ mine \in [Caller -> Cell \union {NIL}]
  /\ contents \in Seq(Cell)

\* The lock is owned by the one thread that is in a critical section.
LockInv == \A t \in Caller : Holding(t) <=> lock = t

\* Cells appended for which the semaphore has not been raised yet.
Unposted == {t \in Thread : pc[t] \in {"unlock", "post"}}

\* A pop that has been waited for finds a cell.
CountInv ==
  Len(contents) = sem + Cardinality(Unposted)
                      + (IF pc[Loop] \in {"lock", "pop", "popped"} THEN 1 ELSE 0)

OnList == {contents[i] : i \in 1..Len(contents)}

DistinctInv == \A i, j \in 1..Len(contents) : contents[i] = contents[j] => i = j

(* The list spells the contents but for what the owner of the lock has     *)
(* done: a new cell linked behind the tail, a new cell made the head of an *)
(* empty list, the only cell popped.                                       *)
HeadInv ==
  head = IF Stage = "popped" THEN NIL
         ELSE IF contents # << >> THEN contents[1]
         ELSE IF Stage = "tail" THEN mine[lock] ELSE NIL

TailInv == tail = IF contents = << >> THEN NIL ELSE contents[Len(contents)]

LinkInv ==
  \A i \in 1..Len(contents) :
    cdr[contents[i]] = IF i < Len(contents) THEN contents[i + 1]
                       ELSE IF Stage \in {"head", "tail"} THEN mine[lock] ELSE NIL

\* The cell in the hands of an announcer, and of the loop.
NewInv ==
  \A t \in Thread :
    /\ pc[t] \in {"idle", "alloc", "post"} => mine[t] = NIL
    /\ pc[t] \in {"link", "head", "tail"} =>
         mine[t] \in Cell \ OnList /\ cdr[mine[t]] = NIL /\ mine[t] # mine[Loop]
    /\ pc[t] = "unlock" => contents # << >> /\ mine[t] = contents[Len(contents)]

PoppedInv ==
  /\ pc[Loop] \in {"wait", "lock", "pop", "stopped"} => mine[Loop] = NIL
  /\ pc[Loop] = "popped" => Len(contents) = 1 /\ mine[Loop] = contents[1]
  /\ pc[Loop] \in {"unlockpop", "handler"} => mine[Loop] \in Cell \ OnList

\* Nothing is leaked and nothing dangles.
LiveInv == pairs = live /\ live = OnList \union ({mine[t] : t \in Caller} \ {NIL})

Shape == /\ DistinctInv /\ HeadInv /\ TailInv /\ LinkInv
         /\ NewInv /\ PoppedInv /\ LiveInv

(* The inductive invariant.  Once cleanup has begun only the types, the    *)
(* lock and the silence of the other threads matter.                       *)
IInv ==
  /\ TypeOK /\ LockInv
  /\ ~Open => \A t \in Thread : pc[t] = "idle"
  /\ Open => CountInv /\ Shape

-----------------------------------------------------------------------------
(* Type correctness and the lock                                           *)

LEMMA AppendedCell ==
  ASSUME contents \in Seq(Cell), NEW c \in Cell
  PROVE  /\ Append(contents, c) \in Seq(Cell)
         /\ Len(Append(contents, c)) = Len(contents) + 1
         /\ \A i \in 1..Len(contents) : Append(contents, c)[i] = contents[i]
         /\ Append(contents, c)[Len(contents) + 1] = c
BY AppendProperties

LEMMA RestOfContents ==
  ASSUME contents \in Seq(Cell), contents # << >>
  PROVE  /\ Tail(contents) \in Seq(Cell)
         /\ Len(contents) \in Nat \ {0}
         /\ Len(Tail(contents)) = Len(contents) - 1
         /\ \A i \in 1..Len(contents) - 1 : Tail(contents)[i] = contents[i + 1]
<1>1. Tail(contents) \in Seq(Cell) /\ Len(Tail(contents)) = Len(contents) - 1
  BY HeadTailProperties
<1>. QED  BY <1>1, EmptySeq, HeadTailProperties

LEMMA ContentsType ==
  TypeOK => /\ Len(contents) \in Nat
            /\ contents = << >> <=> Len(contents) = 0
            /\ \A i \in 1..Len(contents) : contents[i] \in Cell
BY LenProperties, EmptySeq, ElementOfSeq DEF TypeOK

LEMMA UnpostedFinite == IsFiniteSet(Unposted) /\ Cardinality(Unposted) \in Nat
BY ThreadAssumption, FS_Subset, FS_CardinalityType DEF Unposted

\* The count says that a waited-for pop finds a cell.
LEMMA PopHasACell ==
  ASSUME TypeOK, CountInv, pc[Loop] \in {"lock", "pop", "popped"}
  PROVE  contents # << >>
<1>1. sem \in Nat /\ Len(contents) > 0
  BY UnpostedFinite, ContentsType DEF TypeOK, CountInv
<1>. QED  BY <1>1, ContentsType

\* The steps of the loop and of cleanup_event_loop.
LoopSteps == Popping \/ Cleaning

LEMMA TypeStep == IInv /\ [Next]_vars => TypeOK'
<1>. SUFFICES ASSUME IInv, [Next]_vars PROVE TypeOK'
  OBVIOUS
<1>. USE ThreadAssumption, NilAssumption DEF Caller, Goes, list, Acquire, Release
<1>1. ASSUME NEW t \in Thread, LockToAppend(t) PROVE TypeOK'
  BY <1>1 DEF LockToAppend, IInv, TypeOK
<1>2. ASSUME NEW t \in Thread, Allocate(t) PROVE TypeOK'
  BY <1>2 DEF Allocate, IInv, TypeOK
<1>3. ASSUME NEW t \in Thread, LinkTail(t) PROVE TypeOK'
  BY <1>3 DEF LinkTail, IInv, TypeOK
<1>4. ASSUME NEW t \in Thread, SetHead(t) PROVE TypeOK'
  BY <1>4 DEF SetHead, IInv, TypeOK
<1>5. ASSUME NEW t \in Thread, SetTail(t) PROVE TypeOK'
  <2>1. mine[t] \in Cell
    BY <1>5 DEF SetTail, IInv, Shape, NewInv, Open
  <2>2. contents' \in Seq(Cell)
    BY <1>5, <2>1, AppendedCell DEF SetTail, IInv, TypeOK
  <2>. QED  BY <1>5, <2>1, <2>2 DEF SetTail, IInv, TypeOK
<1>6. ASSUME NEW t \in Thread, UnlockAppend(t) PROVE TypeOK'
  BY <1>6 DEF UnlockAppend, IInv, TypeOK
<1>7. ASSUME NEW t \in Thread, Post(t) PROVE TypeOK'
  BY <1>7 DEF Post, IInv, TypeOK
<1>8. CASE Wait
  BY <1>8 DEF Wait, IInv, TypeOK
<1>9. CASE LockToPop
  BY <1>9 DEF LockToPop, IInv, TypeOK
<1>10. CASE PopOnly
  BY <1>10 DEF PopOnly, IInv, TypeOK
<1>11. CASE ClearTail
  <2>1. contents' \in Seq(Cell)
    BY <1>11, PopHasACell, RestOfContents DEF ClearTail, IInv, TypeOK, Open
  <2>. QED  BY <1>11, <2>1 DEF ClearTail, IInv, TypeOK
<1>12. CASE PopHead
  <2>1. contents # << >> /\ pc[Loop] = "pop"
    BY <1>12, PopHasACell DEF PopHead, IInv, Open
  <2>2. lock = Loop
    BY <2>1 DEF IInv, LockInv, Holding
  <2>3. head \in Cell
    BY <2>1, <2>2, ContentsType DEF IInv, Shape, HeadInv, Stage, Open
  <2>4. contents' \in Seq(Cell)
    BY <1>12, <2>1, RestOfContents DEF PopHead, IInv, TypeOK
  <2>. QED  BY <1>12, <2>3, <2>4 DEF PopHead, IInv, TypeOK
<1>13. CASE UnlockPop
  BY <1>13 DEF UnlockPop, IInv, TypeOK
<1>14. CASE FreePopped
  BY <1>14 DEF FreePopped, IInv, TypeOK
<1>15. CASE BeginCleanup
  BY <1>15 DEF BeginCleanup, IInv, TypeOK
<1>16. CASE FreeNext
  BY <1>16 DEF FreeNext, IInv, TypeOK
<1>17. CASE EndCleanup
  BY <1>17 DEF EndCleanup, IInv, TypeOK
<1>18. CASE UNCHANGED vars
  BY <1>18 DEF vars, IInv, TypeOK
<1>. QED  BY <1>1, <1>2, <1>3, <1>4, <1>5, <1>6, <1>7, <1>8, <1>9, <1>10, <1>11, <1>12,
             <1>13, <1>14, <1>15, <1>16, <1>17, <1>18
          DEF Next, Appending, Popping, Cleaning

LEMMA LockStep == IInv /\ [Next]_vars => LockInv'
<1>. SUFFICES ASSUME IInv, [Next]_vars PROVE LockInv'
  OBVIOUS
<1>. USE ThreadAssumption, NilAssumption
     DEF Caller, Goes, Acquire, Release, IInv, TypeOK, LockInv, Holding
<1>1. ASSUME NEW t \in Thread, LockToAppend(t) PROVE LockInv'
  BY <1>1 DEF LockToAppend
<1>2. ASSUME NEW t \in Thread, Allocate(t) \/ LinkTail(t) \/ SetHead(t) \/ SetTail(t) \/ Post(t)
      PROVE  LockInv'
  BY <1>2 DEF Allocate, LinkTail, SetHead, SetTail, Post
<1>3. ASSUME NEW t \in Thread, UnlockAppend(t) PROVE LockInv'
  BY <1>3 DEF UnlockAppend
<1>4. CASE LockToPop \/ UnlockPop \/ BeginCleanup \/ EndCleanup
  BY <1>4 DEF LockToPop, UnlockPop, BeginCleanup, EndCleanup
<1>5. CASE Wait \/ PopOnly \/ ClearTail \/ PopHead \/ FreePopped \/ FreeNext
  BY <1>5 DEF Wait, PopOnly, ClearTail, PopHead, FreePopped, FreeNext
<1>6. CASE UNCHANGED vars
  BY <1>6 DEF vars
<1>. QED  BY <1>1, <1>2, <1>3, <1>4, <1>5, <1>6 DEF Next, Appending, Popping, Cleaning

\* Cleanup begins when every announcer is idle, and none starts after it.
LEMMA ClosedStep == IInv /\ [Next]_vars => (~Open => \A t \in Thread : pc[t] = "idle")'
<1>. SUFFICES ASSUME IInv, [Next]_vars PROVE (~Open => \A t \in Thread : pc[t] = "idle")'
  OBVIOUS
<1>. USE ThreadAssumption DEF Caller, Goes, IInv, TypeOK, Open
<1>1. ASSUME NEW t \in Thread, LockToAppend(t) \/ Appending(t)
      PROVE  Open'
  <2>1. Open
    BY <1>1 DEF LockToAppend, Appending, Allocate, LinkTail, SetHead, SetTail, UnlockAppend, Post
  <2>. QED  BY <1>1, <2>1 DEF LockToAppend, Appending, Allocate, LinkTail, SetHead, SetTail, UnlockAppend, Post
<1>2. CASE Popping
  BY <1>2 DEF Popping, Wait, LockToPop, PopOnly, ClearTail, PopHead, UnlockPop, FreePopped
<1>3. CASE Cleaning
  BY <1>3 DEF Cleaning, BeginCleanup, FreeNext, EndCleanup
<1>4. CASE UNCHANGED vars
  BY <1>4 DEF vars
<1>. QED  BY <1>1, <1>2, <1>3, <1>4 DEF Next

-----------------------------------------------------------------------------
(* The semaphore                                                           *)

LEMMA CountStep == IInv /\ Open' /\ [Next]_vars => CountInv'
<1>. SUFFICES ASSUME IInv, Open', [Next]_vars PROVE CountInv'
  OBVIOUS
<1>. USE ThreadAssumption DEF Caller, Goes, IInv, TypeOK
<1>0. Cardinality(Unposted) \in Nat /\ Len(contents) \in Nat /\ sem \in Nat
  BY UnpostedFinite, ContentsType
<1>a. Open
  BY DEF Next, Popping, Cleaning, Wait, LockToPop, PopOnly, ClearTail, PopHead, UnlockPop,
         FreePopped, BeginCleanup, FreeNext, EndCleanup, LockToAppend, Appending, Allocate,
         LinkTail, SetHead, SetTail, UnlockAppend, Post, vars, Open
<1>1. ASSUME NEW t \in Thread,
             \/ LockToAppend(t) \/ Allocate(t) \/ LinkTail(t) \/ SetHead(t) \/ UnlockAppend(t)
      PROVE  CountInv'
  <2>1. /\ UNCHANGED <<contents, sem>> /\ pc'[Loop] = pc[Loop]
        /\ Unposted' = Unposted
    BY <1>1 DEF LockToAppend, Allocate, LinkTail, SetHead, UnlockAppend, Unposted
  <2>. QED  BY <1>a, <2>1 DEF CountInv
<1>2. ASSUME NEW t \in Thread, SetTail(t)
      PROVE  CountInv'
  <2>1. /\ Unposted' = Unposted \union {t} /\ t \notin Unposted
        /\ sem' = sem /\ pc'[Loop] = pc[Loop]
    BY <1>2 DEF SetTail, Unposted
  <2>2. Cardinality(Unposted') = Cardinality(Unposted) + 1
    BY <2>1, UnpostedFinite, FS_AddElement
  <2>3. mine[t] \in Cell
    BY <1>2, <1>a DEF SetTail, Shape, NewInv
  <2>4. Len(contents') = Len(contents) + 1
    BY <1>2, <1>a, <2>3, AppendedCell DEF SetTail
  <2>. QED  BY <1>0, <1>a, <2>1, <2>2, <2>4 DEF CountInv
<1>3. ASSUME NEW t \in Thread, Post(t)
      PROVE  CountInv'
  <2>1. /\ Unposted' = Unposted \ {t} /\ t \in Unposted
        /\ sem' = sem + 1 /\ pc'[Loop] = pc[Loop] /\ contents' = contents
    BY <1>3 DEF Post, Unposted
  <2>2. Cardinality(Unposted') = Cardinality(Unposted) - 1
    BY <2>1, UnpostedFinite, FS_RemoveElement
  <2>. QED  BY <1>0, <1>a, <2>1, <2>2 DEF CountInv
<1>4. CASE Wait \/ LockToPop \/ PopOnly \/ UnlockPop \/ FreePopped
  <2>1. Unposted' = Unposted
    BY <1>4 DEF Wait, LockToPop, PopOnly, UnlockPop, FreePopped, Unposted
  <2>. QED  BY <1>0, <1>a, <1>4, <2>1 DEF CountInv, Wait, LockToPop, PopOnly, UnlockPop, FreePopped
<1>5. CASE ClearTail \/ PopHead
  <2>1. Unposted' = Unposted
    BY <1>5 DEF ClearTail, PopHead, Unposted
  <2>2. contents # << >>
    BY <1>5, <1>a, PopHasACell DEF ClearTail, PopHead
  <2>3. Len(contents') = Len(contents) - 1
    BY <1>5, <2>2, RestOfContents DEF ClearTail, PopHead
  <2>. QED  BY <1>0, <1>a, <1>5, <2>1, <2>3 DEF CountInv, ClearTail, PopHead
<1>6. CASE Cleaning
  BY <1>6 DEF Cleaning, BeginCleanup, FreeNext, EndCleanup, Open
<1>7. CASE UNCHANGED vars
  <2>1. Unposted' = Unposted
    BY <1>7 DEF vars, Unposted
  <2>. QED  BY <1>7, <1>a, <2>1 DEF vars, CountInv
<1>. QED  BY <1>1, <1>2, <1>3, <1>4, <1>5, <1>6, <1>7 DEF Next, Appending, Popping

-----------------------------------------------------------------------------
(* The list and the cells, step by step                                    *)

\* Who is inside queue_append is alone there, and the loop is not popping.
LEMMA AloneInAppend ==
  ASSUME IInv, NEW t \in Thread, pc[t] \in {"alloc", "link", "head", "tail", "unlock"}
  PROVE  /\ Open /\ Shape /\ TypeOK
         /\ lock = t /\ t # NIL /\ t # Loop /\ Stage = pc[t]
         /\ pc[Loop] \in {"wait", "lock", "handler", "stopped"}
         /\ \A u \in Thread \ {t} : pc[u] \in {"idle", "post"} /\ mine[u] = NIL
<1>. USE ThreadAssumption, NilAssumption DEF IInv, Caller, TypeOK
<1>1. Open /\ Shape
  OBVIOUS
<1>2. lock = t /\ t # NIL /\ t # Loop
  BY DEF LockInv, Holding
<1>3. Stage = pc[t]
  BY <1>2 DEF Stage
<1>4. pc[Loop] \in {"wait", "lock", "handler", "stopped"}
  BY <1>1, <1>2 DEF LockInv, Holding, Open
<1>5. \A u \in Thread \ {t} : pc[u] \in {"idle", "post"}
  BY <1>2 DEF LockInv, Holding
<1>6. \A u \in Thread \ {t} : mine[u] = NIL
  BY <1>1, <1>5 DEF Shape, NewInv
<1>. QED  BY <1>1, <1>2, <1>3, <1>4, <1>5, <1>6

\* When the loop has the lock no announcer has a cell in its hands.
LEMMA AloneInPop ==
  ASSUME IInv, Open, pc[Loop] \in {"pop", "popped", "unlockpop"}
  PROVE  /\ Shape /\ TypeOK
         /\ lock = Loop /\ Loop # NIL /\ Stage = pc[Loop]
         /\ \A u \in Thread : pc[u] \in {"idle", "post"} /\ mine[u] = NIL
<1>. USE ThreadAssumption, NilAssumption DEF IInv, Caller, TypeOK
<1>1. Shape
  OBVIOUS
<1>2. lock = Loop /\ Loop # NIL
  BY DEF LockInv, Holding
<1>3. Stage = pc[Loop]
  BY <1>2 DEF Stage
<1>5. \A u \in Thread : pc[u] \in {"idle", "post"}
  BY <1>2 DEF LockInv, Holding
<1>6. \A u \in Thread : mine[u] = NIL
  BY <1>1, <1>5 DEF Shape, NewInv
<1>. QED  BY <1>1, <1>2, <1>3, <1>5, <1>6

\* A step that touches no pointer: the list goes on as it was.
LEMMA ListKept ==
  ASSUME Shape, UNCHANGED <<list, contents>>,
         {Stage, Stage'} \cap {"popped", "tail", "head"} = {}
  PROVE  (DistinctInv /\ HeadInv /\ TailInv /\ LinkInv)'
BY DEF Shape, list, DistinctInv, HeadInv, TailInv, LinkInv

LEMMA LockToAppendShape ==
  ASSUME IInv, NEW t \in Thread, LockToAppend(t) PROVE Shape'
<1>. USE ThreadAssumption, NilAssumption DEF Caller, Goes, Acquire
<1>1. /\ Open /\ Shape /\ TypeOK /\ lock = NIL /\ lock' = t /\ t # Loop /\ t # NIL
      /\ pc'[t] = "alloc" /\ \A u \in Caller \ {t} : pc'[u] = pc[u]
      /\ pc[t] = "idle" /\ UNCHANGED <<list, mine, contents, live, pairs>>
  BY DEF LockToAppend, IInv, TypeOK, Open
<1>2. Stage = "free" /\ Stage' = "alloc"
  BY <1>1 DEF Stage
<1>3. (DistinctInv /\ HeadInv /\ TailInv /\ LinkInv)'
  BY <1>1, <1>2, ListKept
<1>4. NewInv'
  BY <1>1 DEF Shape, NewInv, OnList, list
<1>5. PoppedInv' /\ LiveInv'
  BY <1>1 DEF Shape, PoppedInv, LiveInv, OnList
<1>. QED  BY <1>3, <1>4, <1>5 DEF Shape

LEMMA AllocateShape ==
  ASSUME IInv, NEW t \in Thread, Allocate(t) PROVE Shape'
<1>. USE ThreadAssumption, NilAssumption DEF Caller, Goes
<1>0. PICK c \in Cell \ (live \union pairs) :
       /\ live' = live \union {c} /\ pairs' = pairs \union {c}
       /\ mine' = [mine EXCEPT ![t] = c]
       /\ cdr' = [cdr EXCEPT ![c] = NIL]
  BY DEF Allocate
<1>a. pc[t] = "alloc"
  BY DEF Allocate
<1>b. /\ Shape /\ TypeOK /\ lock = t /\ t # NIL /\ t # Loop /\ Stage = "alloc"
      /\ pc[Loop] \in {"wait", "lock", "handler", "stopped"}
      /\ \A u \in Thread \ {t} : pc[u] \in {"idle", "post"} /\ mine[u] = NIL
  BY <1>a, AloneInAppend
<1>1. /\ pc'[t] = "link" /\ \A u \in Caller \ {t} : pc'[u] = pc[u] /\ mine'[u] = mine[u]
      /\ mine'[t] = c /\ mine[t] = NIL
      /\ UNCHANGED <<head, tail, lock, contents>>
      /\ cdr'[c] = NIL /\ \A d \in Cell \ {c} : cdr'[d] = cdr[d]
  BY <1>0, <1>a, <1>b DEF Allocate, TypeOK, Shape, NewInv
<1>2. Stage' = "link"
  BY <1>1, <1>b DEF Stage
<1>3. \A i \in 1..Len(contents) : contents[i] \in Cell \ {c}
  BY <1>0, <1>b, ContentsType DEF Shape, LiveInv, OnList
<1>4. OnList' = OnList /\ c \notin OnList /\ mine[Loop] # c
  BY <1>0, <1>1, <1>3, <1>b DEF OnList, Shape, LiveInv
<1>5. DistinctInv' /\ HeadInv' /\ TailInv'
  BY <1>1, <1>2, <1>b DEF Shape, DistinctInv, HeadInv, TailInv
<1>6. LinkInv'
  BY <1>1, <1>2, <1>3, <1>b DEF Shape, LinkInv
<1>7. NewInv'
  BY <1>0, <1>1, <1>4, <1>b DEF NewInv
<1>8. PoppedInv'
  BY <1>1, <1>4, <1>b DEF Shape, PoppedInv
<1>9. {mine'[u] : u \in Caller} \ {NIL} = ({mine[u] : u \in Caller} \ {NIL}) \union {c}
  BY <1>0, <1>1
<1>10. LiveInv'
  BY <1>0, <1>4, <1>9, <1>b DEF Shape, LiveInv
<1>. QED  BY <1>5, <1>6, <1>7, <1>8, <1>10 DEF Shape

LEMMA LinkTailShape ==
  ASSUME IInv, NEW t \in Thread, LinkTail(t) PROVE Shape'
<1>. USE ThreadAssumption, NilAssumption DEF Caller, Goes
<1>a. pc[t] = "link"
  BY DEF LinkTail
<1>b. /\ Shape /\ TypeOK /\ lock = t /\ t # NIL /\ t # Loop /\ Stage = "link"
      /\ pc[Loop] \in {"wait", "lock", "handler", "stopped"}
      /\ \A u \in Thread \ {t} : pc[u] \in {"idle", "post"} /\ mine[u] = NIL
  BY <1>a, AloneInAppend
<1>1. /\ pc'[t] = "head" /\ \A u \in Caller \ {t} : pc'[u] = pc[u]
      /\ UNCHANGED <<head, tail, live, pairs, lock, mine, contents>>
      /\ cdr' = IF tail = NIL THEN cdr ELSE [cdr EXCEPT ![tail] = mine[t]]
  BY <1>b DEF LinkTail, TypeOK
<1>2. Stage' = "head"
  BY <1>1, <1>b DEF Stage
<1>3. Len(contents) \in Nat /\ (contents = << >> <=> Len(contents) = 0)
      /\ \A i \in 1..Len(contents) : contents[i] \in Cell
  BY <1>b, ContentsType
<1>4. OnList' = OnList
  BY <1>1 DEF OnList
<1>5. DistinctInv' /\ HeadInv' /\ TailInv'
  BY <1>1, <1>2, <1>b DEF Shape, DistinctInv, HeadInv, TailInv
<1>6. LinkInv'
  <2>1. CASE contents = << >>
    BY <1>1, <1>3, <2>1 DEF LinkInv
  <2>2. CASE contents # << >>
    <3>1. tail = contents[Len(contents)] /\ tail \in Cell /\ tail # NIL
      BY <1>3, <1>b, <2>2 DEF Shape, TailInv
    <3>2. cdr'[tail] = mine[t] /\ \A d \in Cell \ {tail} : cdr'[d] = cdr[d]
      BY <1>1, <1>b, <3>1 DEF TypeOK
    <3>3. \A i \in 1..Len(contents) : i # Len(contents) => contents[i] # tail
      BY <1>3, <1>b, <3>1 DEF Shape, DistinctInv
    <3>. QED  BY <1>1, <1>2, <1>3, <1>b, <3>1, <3>2, <3>3 DEF Shape, LinkInv
  <2>. QED  BY <2>1, <2>2
<1>7. NewInv'
  <2>1. mine[t] \in Cell \ OnList /\ cdr[mine[t]] = NIL /\ mine[t] # mine[Loop]
    BY <1>a, <1>b DEF Shape, NewInv
  <2>2. tail # NIL => tail \in OnList
    BY <1>3, <1>b DEF Shape, TailInv, OnList
  <2>3. cdr'[mine[t]] = NIL
    BY <1>1, <1>b, <2>1, <2>2 DEF TypeOK
  <2>. QED  BY <1>1, <1>4, <1>b, <2>1, <2>3 DEF NewInv
<1>8. PoppedInv' /\ LiveInv'
  BY <1>1, <1>4, <1>b DEF Shape, PoppedInv, LiveInv
<1>. QED  BY <1>5, <1>6, <1>7, <1>8 DEF Shape

LEMMA SetHeadShape ==
  ASSUME IInv, NEW t \in Thread, SetHead(t) PROVE Shape'
<1>. USE ThreadAssumption, NilAssumption DEF Caller, Goes
<1>a. pc[t] = "head"
  BY DEF SetHead
<1>b. /\ Shape /\ TypeOK /\ lock = t /\ t # NIL /\ t # Loop /\ Stage = "head"
      /\ pc[Loop] \in {"wait", "lock", "handler", "stopped"}
      /\ \A u \in Thread \ {t} : pc[u] \in {"idle", "post"} /\ mine[u] = NIL
  BY <1>a, AloneInAppend
<1>1. /\ pc'[t] = "tail" /\ \A u \in Caller \ {t} : pc'[u] = pc[u]
      /\ UNCHANGED <<tail, cdr, live, pairs, lock, mine, contents>>
      /\ head' = IF head = NIL THEN mine[t] ELSE head
  BY <1>b DEF SetHead, TypeOK
<1>2. Stage' = "tail"
  BY <1>1, <1>b DEF Stage
<1>3. contents # << >> => contents[1] \in Cell
  BY <1>b, ContentsType
<1>4. HeadInv'
  BY <1>1, <1>2, <1>3, <1>b DEF Shape, HeadInv
<1>5. DistinctInv' /\ TailInv' /\ LinkInv'
  BY <1>1, <1>2, <1>b DEF Shape, DistinctInv, TailInv, LinkInv
<1>6. OnList' = OnList
  BY <1>1 DEF OnList
<1>7. NewInv'
  BY <1>1, <1>6, <1>a, <1>b DEF Shape, NewInv
<1>8. PoppedInv' /\ LiveInv'
  BY <1>1, <1>6, <1>b DEF Shape, PoppedInv, LiveInv
<1>. QED  BY <1>4, <1>5, <1>7, <1>8 DEF Shape

LEMMA SetTailShape ==
  ASSUME IInv, NEW t \in Thread, SetTail(t) PROVE Shape'
<1>. USE ThreadAssumption, NilAssumption DEF Caller, Goes
<1>a. pc[t] = "tail"
  BY DEF SetTail
<1>b. /\ Shape /\ TypeOK /\ lock = t /\ t # NIL /\ t # Loop /\ Stage = "tail"
      /\ pc[Loop] \in {"wait", "lock", "handler", "stopped"}
      /\ \A u \in Thread \ {t} : pc[u] \in {"idle", "post"} /\ mine[u] = NIL
  BY <1>a, AloneInAppend
<1>. DEFINE n == Len(contents)
            c == mine[t]
<1>1. /\ pc'[t] = "unlock" /\ \A u \in Caller \ {t} : pc'[u] = pc[u]
      /\ UNCHANGED <<head, cdr, live, pairs, lock, mine>> /\ tail' = c
  BY <1>b DEF SetTail, TypeOK
<1>2. Stage' = "unlock"
  BY <1>1, <1>b DEF Stage
<1>3. c \in Cell \ OnList /\ cdr[c] = NIL /\ c # mine[Loop]
  BY <1>a, <1>b DEF Shape, NewInv
<1>4. /\ contents' = Append(contents, c) /\ contents \in Seq(Cell)
  BY <1>b DEF SetTail, TypeOK
<1>5. /\ n \in Nat /\ Len(contents') = n + 1 /\ contents' # << >>
      /\ \A i \in 1..n : contents'[i] = contents[i] /\ contents[i] \in Cell
      /\ contents'[n + 1] = c
      /\ contents = << >> <=> n = 0
  BY <1>3, <1>4, <1>b, AppendedCell, ContentsType
<1>6. OnList' = OnList \union {c}
  BY <1>5 DEF OnList
<1>7. \A i \in 1..n : contents[i] # c
  BY <1>3 DEF OnList
<1>. HIDE DEF c, n
<1>8. DistinctInv'
  BY <1>5, <1>7, <1>b DEF Shape, DistinctInv, n
<1>9. HeadInv' /\ TailInv'
  BY <1>1, <1>2, <1>5, <1>b DEF Shape, HeadInv, TailInv, c
<1>10. LinkInv'
  <2>1. ASSUME NEW i \in 1..n
        PROVE  cdr'[contents'[i]] = contents'[i + 1]
    <3>1. cdr[contents[i]] = IF i < n THEN contents[i + 1] ELSE c
      BY <1>b DEF Shape, LinkInv, n, c
    <3>. QED  BY <1>1, <1>5, <3>1
  <2>. QED  BY <1>1, <1>2, <1>3, <1>5, <2>1 DEF LinkInv
<1>11. NewInv'
  BY <1>1, <1>5, <1>b DEF NewInv, c
<1>12. PoppedInv' /\ LiveInv'
  <2>1. PoppedInv'
    BY <1>1, <1>3, <1>6, <1>b DEF Shape, PoppedInv
  <2>2. {mine[u] : u \in Caller}' = {mine[u] : u \in Caller} /\ c \in {mine[u] : u \in Caller}
    BY <1>1 DEF c
  <2>3. c # NIL
    BY <1>3
  <2>. QED  BY <1>1, <1>6, <1>b, <2>1, <2>2, <2>3 DEF Shape, LiveInv
<1>. QED  BY <1>8, <1>9, <1>10, <1>11, <1>12 DEF Shape

LEMMA UnlockAppendShape ==
  ASSUME IInv, NEW t \in Thread, UnlockAppend(t) PROVE Shape'
<1>. USE ThreadAssumption, NilAssumption DEF Caller, Goes, Release
<1>a. pc[t] = "unlock"
  BY DEF UnlockAppend
<1>b. /\ Shape /\ TypeOK /\ lock = t /\ t # NIL /\ t # Loop /\ Stage = "unlock"
      /\ pc[Loop] \in {"wait", "lock", "handler", "stopped"}
      /\ \A u \in Thread \ {t} : pc[u] \in {"idle", "post"} /\ mine[u] = NIL
  BY <1>a, AloneInAppend
<1>1. /\ pc'[t] = "post" /\ \A u \in Caller \ {t} : pc'[u] = pc[u] /\ mine'[u] = mine[u]
      /\ UNCHANGED <<list, live, pairs, contents>> /\ lock' = NIL
      /\ mine'[t] = NIL
  BY <1>b DEF UnlockAppend, TypeOK
<1>2. Stage' = "free"
  BY <1>1 DEF Stage
<1>3. (DistinctInv /\ HeadInv /\ TailInv /\ LinkInv)'
  BY <1>1, <1>2, <1>b, ListKept
<1>4. NewInv' /\ OnList' = OnList
  BY <1>1, <1>b DEF NewInv, OnList
<1>5. PoppedInv'
  BY <1>1, <1>4, <1>b DEF Shape, PoppedInv
<1>6. mine[t] \in OnList
  BY <1>a, <1>b, ContentsType DEF Shape, NewInv, OnList
<1>7. /\ {mine[u] : u \in Caller} \ {NIL} \subseteq ({mine'[u] : u \in Caller} \ {NIL}) \union {mine[t]}
      /\ {mine'[u] : u \in Caller} \ {NIL} \subseteq {mine[u] : u \in Caller} \ {NIL}
  BY <1>1
<1>8. LiveInv'
  BY <1>1, <1>4, <1>6, <1>7, <1>b DEF Shape, LiveInv
<1>. QED  BY <1>3, <1>4, <1>5, <1>8 DEF Shape

LEMMA PostShape ==
  ASSUME IInv, NEW t \in Thread, Post(t) PROVE Shape'
<1>. USE ThreadAssumption, NilAssumption DEF Caller, Goes
<1>1. /\ Open /\ Shape /\ TypeOK /\ pc[t] = "post" /\ pc'[t] = "idle" /\ t # Loop
      /\ \A u \in Caller \ {t} : pc'[u] = pc[u]
      /\ UNCHANGED <<list, mine, lock, contents, live, pairs>>
  BY DEF Post, IInv, TypeOK, Open
<1>2. lock # t
  BY <1>1 DEF IInv, LockInv, Holding
<1>3. Stage' = Stage
  BY <1>1, <1>2 DEF Stage, TypeOK
<1>4. DistinctInv' /\ HeadInv' /\ TailInv' /\ LinkInv'
  BY <1>1, <1>3 DEF Shape, list, DistinctInv, HeadInv, TailInv, LinkInv
<1>5. NewInv'
  BY <1>1 DEF Shape, NewInv, OnList, list
<1>6. PoppedInv' /\ LiveInv'
  BY <1>1 DEF Shape, PoppedInv, LiveInv, OnList
<1>. QED  BY <1>4, <1>5, <1>6 DEF Shape

LEMMA WaitShape ==
  ASSUME IInv, Wait PROVE Shape'
<1>. USE ThreadAssumption, NilAssumption DEF Caller, Goes
<1>1. /\ Open /\ Shape /\ TypeOK /\ pc[Loop] = "wait" /\ pc'[Loop] = "lock"
      /\ \A u \in Thread : pc'[u] = pc[u]
      /\ UNCHANGED <<list, mine, lock, contents, live, pairs>>
  BY DEF Wait, IInv, TypeOK, Open
<1>2. lock # Loop
  BY <1>1 DEF IInv, LockInv, Holding
<1>3. Stage' = Stage
  BY <1>1, <1>2 DEF Stage, TypeOK
<1>4. DistinctInv' /\ HeadInv' /\ TailInv' /\ LinkInv'
  BY <1>1, <1>3 DEF Shape, list, DistinctInv, HeadInv, TailInv, LinkInv
<1>5. NewInv' /\ PoppedInv' /\ LiveInv'
  BY <1>1 DEF Shape, NewInv, OnList, list, PoppedInv, LiveInv
<1>. QED  BY <1>4, <1>5 DEF Shape

LEMMA LockToPopShape ==
  ASSUME IInv, LockToPop PROVE Shape'
<1>. USE ThreadAssumption, NilAssumption DEF Caller, Goes, Acquire
<1>1. /\ Open /\ Shape /\ TypeOK /\ pc[Loop] = "lock" /\ pc'[Loop] = "pop"
      /\ \A u \in Thread : pc'[u] = pc[u]
      /\ UNCHANGED <<list, mine, contents, live, pairs>> /\ lock = NIL /\ lock' = Loop
  BY DEF LockToPop, IInv, TypeOK, Open
<1>2. Stage = "free" /\ Stage' = "pop"
  BY <1>1 DEF Stage
<1>3. (DistinctInv /\ HeadInv /\ TailInv /\ LinkInv)'
  BY <1>1, <1>2, ListKept
<1>4. NewInv' /\ PoppedInv' /\ LiveInv'
  BY <1>1 DEF Shape, NewInv, OnList, list, PoppedInv, LiveInv
<1>. QED  BY <1>3, <1>4 DEF Shape

LEMMA PopOnlyShape ==
  ASSUME IInv, PopOnly PROVE Shape'
<1>. USE ThreadAssumption, NilAssumption DEF Caller, Goes
<1>a. pc[Loop] = "pop" /\ Open
  BY DEF PopOnly, Open
<1>b. /\ Shape /\ TypeOK /\ CountInv /\ lock = Loop /\ Loop # NIL /\ Stage = "pop"
      /\ \A u \in Thread : pc[u] \in {"idle", "post"} /\ mine[u] = NIL
  BY <1>a, AloneInPop DEF IInv
<1>1. /\ pc'[Loop] = "popped" /\ \A u \in Thread : pc'[u] = pc[u] /\ mine'[u] = mine[u]
      /\ mine'[Loop] = head /\ mine[Loop] = NIL /\ head = tail /\ head' = NIL
      /\ UNCHANGED <<tail, cdr, live, pairs, lock, contents>>
  BY <1>a, <1>b DEF PopOnly, TypeOK, Shape, PoppedInv
<1>2. Stage' = "popped"
  BY <1>1, <1>b DEF Stage
<1>3. contents # << >> /\ Len(contents) \in Nat \ {0}
  BY <1>a, <1>b, PopHasACell, ContentsType
<1>4. head = contents[1] /\ tail = contents[Len(contents)]
  BY <1>3, <1>b DEF Shape, HeadInv, TailInv
<1>5. Len(contents) = 1
  <2>1. 1 \in 1..Len(contents) /\ Len(contents) \in 1..Len(contents)
    BY <1>3
  <2>. QED  BY <1>1, <1>4, <1>b, <2>1 DEF Shape, DistinctInv
<1>6. head \in OnList /\ OnList' = OnList
  BY <1>1, <1>4, <1>5 DEF OnList
<1>7. DistinctInv' /\ HeadInv' /\ TailInv' /\ LinkInv'
  BY <1>1, <1>2, <1>b DEF Shape, DistinctInv, HeadInv, TailInv, LinkInv
<1>8. NewInv' /\ PoppedInv'
  BY <1>1, <1>4, <1>5, <1>b DEF NewInv, PoppedInv
<1>9. {mine'[u] : u \in Caller} \ {NIL} \subseteq ({mine[u] : u \in Caller} \ {NIL}) \union {head}
      /\ {mine[u] : u \in Caller} \ {NIL} \subseteq {mine'[u] : u \in Caller} \ {NIL}
  BY <1>1
<1>10. LiveInv'
  BY <1>1, <1>6, <1>9, <1>b DEF Shape, LiveInv
<1>. QED  BY <1>7, <1>8, <1>10 DEF Shape

LEMMA ClearTailShape ==
  ASSUME IInv, ClearTail PROVE Shape'
<1>. USE ThreadAssumption, NilAssumption DEF Caller, Goes
<1>a. pc[Loop] = "popped" /\ Open
  BY DEF ClearTail, Open
<1>b. /\ Shape /\ TypeOK /\ CountInv /\ lock = Loop /\ Loop # NIL /\ Stage = "popped"
      /\ \A u \in Thread : pc[u] \in {"idle", "post"} /\ mine[u] = NIL
  BY <1>a, AloneInPop DEF IInv
<1>1. /\ pc'[Loop] = "unlockpop" /\ \A u \in Thread : pc'[u] = pc[u]
      /\ UNCHANGED <<head, cdr, live, pairs, lock, mine>> /\ tail' = NIL
  BY <1>a, <1>b DEF ClearTail, TypeOK
<1>2. Stage' = "unlockpop"
  BY <1>1, <1>b DEF Stage
<1>3. Len(contents) = 1 /\ mine[Loop] = contents[1] /\ contents # << >>
  BY <1>a, <1>b, ContentsType DEF Shape, PoppedInv
<1>4. contents' \in Seq(Cell) /\ Len(contents') = 0
  BY <1>3, <1>b, RestOfContents DEF ClearTail, TypeOK
<1>5. contents' = << >>
  BY <1>4, EmptySeq
<1>6. OnList' = {} /\ OnList = {mine[Loop]} /\ mine[Loop] \in Cell
  BY <1>3, <1>4, <1>b, ContentsType DEF OnList
<1>7. DistinctInv' /\ HeadInv' /\ TailInv' /\ LinkInv'
  BY <1>1, <1>2, <1>4, <1>5, <1>b DEF Shape, DistinctInv, HeadInv, TailInv, LinkInv
<1>8. NewInv' /\ PoppedInv'
  BY <1>1, <1>6, <1>b DEF NewInv, PoppedInv
<1>9. LiveInv'
  BY <1>1, <1>6, <1>b DEF Shape, LiveInv
<1>. QED  BY <1>7, <1>8, <1>9 DEF Shape

LEMMA PopHeadShape ==
  ASSUME IInv, PopHead PROVE Shape'
<1>. USE ThreadAssumption, NilAssumption DEF Caller, Goes
<1>a. pc[Loop] = "pop" /\ Open
  BY DEF PopHead, Open
<1>b. /\ Shape /\ TypeOK /\ CountInv /\ lock = Loop /\ Loop # NIL /\ Stage = "pop"
      /\ \A u \in Thread : pc[u] \in {"idle", "post"} /\ mine[u] = NIL
  BY <1>a, AloneInPop DEF IInv
<1>. DEFINE n == Len(contents)
<1>1. /\ pc'[Loop] = "unlockpop" /\ \A u \in Thread : pc'[u] = pc[u] /\ mine'[u] = mine[u]
      /\ mine'[Loop] = head /\ mine[Loop] = NIL /\ head # tail /\ head' = cdr[head]
      /\ UNCHANGED <<tail, cdr, live, pairs, lock>>
  BY <1>a, <1>b DEF PopHead, TypeOK, Shape, PoppedInv
<1>2. Stage' = "unlockpop"
  BY <1>1, <1>b DEF Stage
<1>3. contents # << >> /\ n \in Nat \ {0} /\ \A i \in 1..n : contents[i] \in Cell
  BY <1>a, <1>b, PopHasACell, ContentsType
<1>4. head = contents[1] /\ tail = contents[n]
  BY <1>3, <1>b DEF Shape, HeadInv, TailInv
<1>5. n > 1
  BY <1>1, <1>3, <1>4
<1>6. /\ Len(contents') = n - 1
      /\ \A i \in 1..n - 1 : contents'[i] = contents[i + 1]
      /\ contents' \in Seq(Cell)
  BY <1>3, <1>b, RestOfContents DEF PopHead, TypeOK
<1>7. contents' # << >>
  BY <1>5, <1>6, EmptySeq
<1>8. head' = contents[2]
  BY <1>1, <1>4, <1>5, <1>3, <1>b DEF Shape, LinkInv
<1>9. OnList = OnList' \union {head} /\ head \notin OnList' /\ head \in Cell
  <2>1. OnList' = {contents[i] : i \in 2..n}
    <3>1. \A i \in 1..n - 1 : i + 1 \in 2..n /\ contents'[i] = contents[i + 1]
      BY <1>3, <1>6
    <3>2. \A i \in 2..n : i - 1 \in 1..n - 1 /\ contents'[i - 1] = contents[i]
      BY <1>3, <1>6
    <3>3. OnList' = {contents'[i] : i \in 1..n - 1}
      BY <1>6 DEF OnList
    <3>. QED  BY <3>1, <3>2, <3>3
  <2>2. 1..n = {1} \union 2..n
    BY <1>3
  <2>3. head \notin OnList'
    BY <1>3, <1>4, <1>b, <2>1 DEF Shape, DistinctInv
  <2>. QED  BY <1>3, <1>4, <2>1, <2>2, <2>3 DEF OnList
<1>. HIDE DEF n
<1>10. DistinctInv'
  BY <1>3, <1>6, <1>b DEF Shape, DistinctInv, n
<1>11. HeadInv' /\ TailInv'
  BY <1>1, <1>2, <1>3, <1>4, <1>5, <1>6, <1>7, <1>8 DEF HeadInv, TailInv
<1>12. LinkInv'
  <2>1. ASSUME NEW i \in 1..n - 1
        PROVE  cdr'[contents'[i]] = IF i < n - 1 THEN contents'[i + 1] ELSE NIL
    <3>1. i + 1 \in 1..n /\ (i < n - 1 <=> i + 1 < n) /\ (i < n - 1 => i + 1 \in 1..n - 1)
      BY <1>3, <1>5
    <3>2. cdr[contents[i + 1]] = IF i + 1 < n THEN contents[i + 1 + 1] ELSE NIL
      BY <1>b, <3>1 DEF Shape, LinkInv, n
    <3>. QED  BY <1>1, <1>6, <3>1, <3>2
  <2>. QED  BY <1>2, <1>6, <2>1 DEF LinkInv
<1>13. NewInv' /\ PoppedInv'
  BY <1>1, <1>9, <1>b DEF NewInv, PoppedInv
<1>14. {mine'[u] : u \in Caller} \ {NIL} = ({mine[u] : u \in Caller} \ {NIL}) \union {head}
  BY <1>1, <1>9
<1>15. LiveInv'
  BY <1>1, <1>9, <1>14, <1>b DEF Shape, LiveInv
<1>. QED  BY <1>10, <1>11, <1>12, <1>13, <1>15 DEF Shape

LEMMA UnlockPopShape ==
  ASSUME IInv, UnlockPop PROVE Shape'
<1>. USE ThreadAssumption, NilAssumption DEF Caller, Goes, Release
<1>1. /\ Open /\ Shape /\ TypeOK /\ pc[Loop] = "unlockpop" /\ pc'[Loop] = "handler"
      /\ \A u \in Thread : pc'[u] = pc[u]
      /\ UNCHANGED <<list, mine, contents, live, pairs>> /\ lock = Loop /\ lock' = NIL
  BY DEF UnlockPop, IInv, TypeOK, Open
<1>2. Stage = "unlockpop" /\ Stage' = "free"
  BY <1>1 DEF Stage
<1>3. (DistinctInv /\ HeadInv /\ TailInv /\ LinkInv)'
  BY <1>1, <1>2, ListKept
<1>4. NewInv' /\ PoppedInv' /\ LiveInv'
  BY <1>1 DEF Shape, NewInv, OnList, list, PoppedInv, LiveInv
<1>. QED  BY <1>3, <1>4 DEF Shape

LEMMA FreePoppedShape ==
  ASSUME IInv, FreePopped PROVE Shape'
<1>. USE ThreadAssumption, NilAssumption DEF Caller, Goes
<1>. DEFINE c == mine[Loop]
<1>1. /\ Open /\ Shape /\ TypeOK /\ pc[Loop] = "handler" /\ pc'[Loop] \in {"wait", "stopped"}
      /\ \A u \in Thread : pc'[u] = pc[u] /\ mine'[u] = mine[u]
      /\ mine'[Loop] = NIL /\ live' = live \ {c} /\ pairs' = pairs \ {c}
      /\ UNCHANGED <<list, lock, contents>>
  BY DEF FreePopped, IInv, TypeOK, Open
<1>2. lock # Loop
  BY <1>1 DEF IInv, LockInv, Holding
<1>3. Stage' = Stage /\ (lock # NIL => mine'[lock] = mine[lock])
  BY <1>1, <1>2 DEF Stage, TypeOK
<1>3a. lock = NIL => Stage = "free"
  BY DEF Stage
<1>4. DistinctInv' /\ HeadInv' /\ TailInv' /\ LinkInv'
  <2>1. DistinctInv' /\ TailInv'
    BY <1>1 DEF Shape, list, DistinctInv, TailInv
  <2>2. HeadInv'
    BY <1>1, <1>3, <1>3a DEF Shape, list, HeadInv
  <2>3. LinkInv'
    BY <1>1, <1>3, <1>3a DEF Shape, list, LinkInv
  <2>. QED  BY <2>1, <2>2, <2>3
<1>5. OnList' = OnList /\ c \in Cell \ OnList
  BY <1>1 DEF Shape, PoppedInv, OnList
<1>6. \A u \in Thread : mine[u] # c
  BY <1>1, <1>5, ContentsType DEF Shape, NewInv, TypeOK, OnList
<1>7. NewInv'
  BY <1>1, <1>5 DEF Shape, NewInv, list
<1>8. PoppedInv'
  BY <1>1 DEF PoppedInv
<1>9. {mine'[u] : u \in Caller} \ {NIL} = ({mine[u] : u \in Caller} \ {NIL}) \ {c}
  BY <1>1, <1>6
<1>10. LiveInv'
  BY <1>1, <1>5, <1>9 DEF Shape, LiveInv
<1>. QED  BY <1>4, <1>7, <1>8, <1>10 DEF Shape

-----------------------------------------------------------------------------
(* The invariant of the list                                               *)

LEMMA IInvInit == Init => IInv
<1>. SUFFICES ASSUME Init PROVE IInv
  OBVIOUS
<1>. USE ThreadAssumption, NilAssumption DEF Caller, Init
<1>1. contents \in Seq(Cell) /\ Len(contents) = 0
  BY EmptySeq
<1>2. TypeOK
  BY <1>1 DEF TypeOK
<1>3. LockInv /\ Open
  BY DEF LockInv, Holding, Open
<1>4. CountInv
  <2>1. Unposted = {}
    BY DEF Unposted
  <2>. QED  BY <1>1, <2>1, FS_EmptySet DEF CountInv
<1>5. Shape
  <2>1. OnList = {} /\ Stage = "free"
    BY <1>1 DEF OnList, Stage
  <2>. QED  BY <1>1, <2>1 DEF Shape, DistinctInv, HeadInv, TailInv, LinkInv, NewInv, PoppedInv, LiveInv
<1>. QED  BY <1>2, <1>3, <1>4, <1>5 DEF IInv

LEMMA ShapeStep == IInv /\ Open' /\ [Next]_vars => Shape'
<1>. SUFFICES ASSUME IInv, Open', [Next]_vars PROVE Shape'
  OBVIOUS
<1>1. ASSUME NEW t \in Thread, LockToAppend(t) \/ Appending(t)
      PROVE  Shape'
  BY <1>1, LockToAppendShape, AllocateShape, LinkTailShape, SetHeadShape, SetTailShape,
     UnlockAppendShape, PostShape DEF Appending
<1>2. CASE Popping
  BY <1>2, WaitShape, LockToPopShape, PopOnlyShape, ClearTailShape, PopHeadShape,
     UnlockPopShape, FreePoppedShape DEF Popping
<1>3. CASE Cleaning
  BY <1>3, ThreadAssumption
     DEF Cleaning, BeginCleanup, FreeNext, EndCleanup, Goes, Open, IInv, TypeOK, Caller
<1>4. CASE UNCHANGED vars
  <2>1. Open /\ Shape /\ UNCHANGED <<Stage, OnList>>
    BY <1>4 DEF IInv, vars, Open, Stage, OnList
  <2>. QED  BY <1>4, <2>1 DEF vars, Shape, DistinctInv, HeadInv, TailInv, LinkInv, NewInv,
               PoppedInv, LiveInv
<1>. QED  BY <1>1, <1>2, <1>3, <1>4 DEF Next

LEMMA IInvStep == IInv /\ [Next]_vars => IInv'
BY TypeStep, LockStep, ClosedStep, CountStep, ShapeStep DEF IInv

LEMMA Inductive == Spec => []IInv
BY IInvInit, IInvStep, PTL DEF Spec

(* Whenever queue_lock is free the cells spell out what was appended and   *)
(* not popped, in order, from the head to the tail.                        *)
THEOREM ListIsTheQueue == Spec => []ListSpellsContents
<1>1. IInv => ListSpellsContents
  <2>. SUFFICES ASSUME IInv, lock = NIL, pc[Loop] # "cleaned"
                PROVE  ListSpellsContents
    BY DEF ListSpellsContents
  <2>1. Open
    BY NilAssumption DEF IInv, LockInv, Holding, Open, Caller
  <2>2. Shape /\ Stage = "free"
    BY <2>1 DEF IInv, Stage
  <2>3. \A i \in 1..Len(contents) :
          cdr[contents[i]] = IF i = Len(contents) THEN NIL ELSE contents[i + 1]
    BY <2>2, ContentsType DEF IInv, Shape, LinkInv
  <2>. QED  BY <2>2, <2>3 DEF Shape, HeadInv, TailInv, ListSpellsContents
<1>. QED  BY <1>1, Inductive, PTL

(* Until the handle is cleaned up the list holds no dangling pointer, and  *)
(* a cell is allocated exactly while it is on the list or in the hands of  *)
(* the thread that appends it or runs its handler.                         *)
THEOREM NothingLeaksOrDangles == Spec => []MemorySafe
<1>1. IInv => MemorySafe
  <2>. SUFFICES ASSUME IInv, Open PROVE MemorySafe
    BY DEF MemorySafe, Open
  <2>1. /\ TypeOK /\ Shape /\ DOMAIN contents = 1..Len(contents)
        /\ OnList = {contents[i] : i \in DOMAIN contents}
    BY LenProperties DEF IInv, TypeOK, OnList
  <2>2. \A i \in DOMAIN contents : contents[i] \in live /\ contents[i] \in pairs
    BY <2>1 DEF Shape, LiveInv
  <2>3. tail \in live \union {NIL} /\ (contents # << >> => contents[1] \in live)
    BY <2>1, <2>2, ContentsType DEF Shape, TailInv
  <2>4. Stage = "tail" => mine[lock] \in live \union {NIL}
    BY <2>1 DEF Stage, TypeOK, Shape, LiveInv
  <2>5. head \in live \union {NIL}
    BY <2>1, <2>3, <2>4 DEF Shape, HeadInv
  <2>. QED  BY <2>1, <2>2, <2>3, <2>5 DEF Shape, LiveInv, MemorySafe
<1>. QED  BY <1>1, Inductive, PTL
=============================================================================
