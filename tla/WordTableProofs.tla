--------------------------- MODULE WordTableProofs ---------------------------
(***************************************************************************)
(* Proofs about WordTable, for any number of threads, words and slots and  *)
(* any hash.  The invariant says of every used slot that its entry is      *)
(* published (complete, and behind or at the last struct of its thread),   *)
(* and of every call what it has seen on its way: all the slots from the   *)
(* hash of its word to where it is are used, by other words.               *)
(***************************************************************************)
EXTENDS WordTable, TLAPS, FiniteSetTheorems

Labels == {"idle", "probe", "reread", "cas", "indices", "store", "count", "bits"}

Types == /\ table \in [Slot -> Pointers \union {NULL}]
         /\ heap \in [Pointers -> Entry \union {NULL}]
         /\ mem \in [Threads -> Nat]
         /\ pc \in [Threads -> Labels]
         /\ index \in [Threads -> Nat]

Published(s) == table[s] # NULL =>
  /\ heap[table[s]] \in Entry
  /\ heap[table[s]].own /\ heap[table[s]].count > 0
  /\ Hash[heap[table[s]].word] <= s
  /\ \/ table[s][2] < mem[table[s][1]]
     \/ table[s][2] = mem[table[s][1]] /\ pc[table[s][1]] \in {"indices", "store"}

Passed(t) == \A r \in Hash[word(t).word] .. index[t] - 1 :
               r \in Slot /\ table[r] # NULL /\ heap[table[r]].word # word(t).word

CallInv(t) ==
  /\ pc[t] # "idle" => <<t, mem[t]>> \in Pointers /\ word(t) \in Entry
  /\ pc[t] \in {"probe", "reread", "cas", "count", "bits"} =>
       \E f \in Files : word(t).files = {f}
  /\ pc[t] \in {"probe", "reread", "cas"} =>
       word(t).count = 1 /\ Hash[word(t).word] <= index[t] /\ Passed(t)
  /\ pc[t] \in {"reread", "cas"} => index[t] \in Slot /\ word(t).own
  /\ pc[t] \in {"count", "bits"} => index[t] \in Slot /\ Holds(index[t], word(t).word)

IInv == /\ Types
        /\ \A s \in Slot : Published(s)
        /\ \A t \in Threads : CallInv(t)
        /\ ProbeFinds
        /\ OneEntryPerWord

----------------------------------------------------------------------------

\* The steps of a call that stay within the indices, ...
Moves(t) == \/ Skip(t) \/ Found(t) \/ Free(t) \/ Reread(t) \/ Exchange(t)
            \/ TakeIndex(t) \/ Store(t) \/ AddCount(t) \/ SetBits(t)
AnyStep(t) == Moves(t) \/ \E w \in Words, f \in Files : Call(t, w, f)

\* ... and all that they can change.
seen == <<table, heap, mem, pc, index, indices, indices_index, old, calls, callFiles>>

(* Every step is one of these, or the write behind the indices, which ends *)
(* what is said of the run, or a stutter.                                  *)
LEMMA NextMoves ==
  ASSUME [Next]_vars
  PROVE  \/ ~overrun /\ ~overrun' /\ \E t \in Threads : AnyStep(t)
         \/ ~overrun /\ overrun' /\ UNCHANGED seen /\ \E t \in Threads : Overrun(t)
         \/ overrun' = overrun /\ UNCHANGED seen
<1>1. ASSUME NEW t \in Threads, Moves(t) PROVE overrun' = overrun
  BY <1>1 DEF Moves, Skip, Found, Free, Reread, Exchange, TakeIndex, Store, AddCount, SetBits,
              published
<1>2. ASSUME NEW t \in Threads, NEW w \in Words, NEW f \in Files, Call(t, w, f)
      PROVE  ~overrun /\ overrun' = overrun
  BY <1>2 DEF Call, published
<1>3. ASSUME NEW t \in Threads, Overrun(t) PROVE overrun' /\ UNCHANGED seen
  BY <1>3 DEF Overrun, seen, history
<1>4. CASE UNCHANGED vars
  BY <1>4 DEF vars, seen, published, history
<1>5. ASSUME NEW t \in Threads, Step(t)
      PROVE  ~overrun /\ (Moves(t) \/ Overrun(t))
  BY <1>5 DEF Step, Moves
<1> QED
  BY <1>1, <1>2, <1>3, <1>4, <1>5 DEF Next, AnyStep

LEMMA InitInv == Init => IInv
<1> SUFFICES ASSUME Init PROVE IInv
    OBVIOUS
<1>1. Types
  BY TableAssumption DEF Init, Types, Labels, Slot, Pointers
<1>2. \A s \in Slot : table[s] = NULL
  BY DEF Init
<1>3. \A t \in Threads : pc[t] = "idle"
  BY DEF Init
<1>4. \A t \in Threads : CallInv(t)
  BY <1>3 DEF CallInv
<1>5. (\A s \in Slot : Published(s)) /\ ProbeFinds /\ OneEntryPerWord
  BY <1>2 DEF Published, ProbeFinds, OneEntryPerWord, Holds
<1> QED
  BY <1>1, <1>4, <1>5 DEF IInv

(* The struct of a call that has not taken a slot is in no slot.           *)
LEMMA Unpublished ==
  ASSUME IInv, NEW t \in Threads, pc[t] \notin {"indices", "store"},
         NEW s \in Slot, table[s] # NULL
  PROVE  table[s] # <<t, mem[t]>>
<1>1. Published(s) /\ mem[t] \in Nat
  BY DEF IInv, Types
<1> QED
  BY <1>1 DEF Published

(* A step that changes no slot and no word in one keeps what the invariant *)
(* says of the table.                                                      *)
LEMMA TableKept ==
  ASSUME IInv, table' = table,
         \A s \in Slot : table[s] # NULL => heap'[table[s]].word = heap[table[s]].word
  PROVE  ProbeFinds' /\ OneEntryPerWord'
<1>1. ProbeFinds /\ OneEntryPerWord
  BY DEF IInv
<1>2. \A s \in Slot : \A w : Holds(s, w)' <=> Holds(s, w)
  BY DEF Holds
<1>3. OneEntryPerWord'
  BY <1>1, <1>2 DEF OneEntryPerWord
<1>4. ASSUME NEW s \in Slot, table'[s] # NULL, NEW r \in Hash[heap'[table'[s]].word] .. s
      PROVE  table'[r] # NULL
  BY <1>1, <1>4 DEF ProbeFinds
<1> QED
  BY <1>3, <1>4 DEF ProbeFinds

(* ... and the same with the counts and strings left alone too.            *)
LEMMA EntriesUntouched ==
  ASSUME IInv, NEW t \in Threads, table' = table,
         NEW e \in Entry, pc[t] \notin {"indices", "store"},
         heap' = [heap EXCEPT ![<<t, mem[t]>>] = e]
  PROVE  /\ ProbeFinds' /\ OneEntryPerWord'
         /\ \A s \in Slot : table[s] # NULL => heap'[table[s]] = heap[table[s]]
<1>1. \A s \in Slot : table[s] # NULL => table[s] \in Pointers /\ table[s] # <<t, mem[t]>>
  BY Unpublished DEF IInv, Types
<1>2. \A s \in Slot : table[s] # NULL => heap'[table[s]] = heap[table[s]]
  BY <1>1 DEF IInv, Types
<1> QED
  BY <1>2, TableKept

(* Calls: a new struct is filled in, no slot changes.                      *)
LEMMA CallStep ==
  ASSUME IInv, NEW t \in Threads, NEW w \in Words, NEW f \in Files, Call(t, w, f)
  PROVE  IInv'
<1> DEFINE e == [word |-> w, own |-> FALSE, count |-> 1, files |-> {f}]
<1>1. e \in Entry
  BY DEF Entry
<1>2. /\ pc[t] = "idle" /\ mem[t] < MemSize
      /\ heap' = [heap EXCEPT ![<<t, mem[t]>>] = e]
      /\ index' = [index EXCEPT ![t] = Hash[w]] /\ pc' = [pc EXCEPT ![t] = "probe"]
      /\ table' = table /\ mem' = mem
  BY DEF Call, Goto, published
<1>3. Types /\ (\A s \in Slot : Published(s)) /\ \A u \in Threads : CallInv(u)
  BY DEF IInv
<1>4. /\ ProbeFinds' /\ OneEntryPerWord'
      /\ \A s \in Slot : table[s] # NULL => heap'[table[s]] = heap[table[s]]
  <2> HIDE DEF e
  <2> QED BY <1>1, <1>2, EntriesUntouched
<1>5. <<t, mem[t]>> \in Pointers /\ Hash[w] \in Nat /\ mem[t] \in Nat
  BY <1>2, <1>3, TableAssumption DEF Types, Pointers
<1>6. Types'
  BY <1>1, <1>2, <1>3, <1>5 DEF Types, Labels
<1>7. ASSUME NEW s \in Slot PROVE Published(s)'
  <2>1. table[s] # NULL => table[s] \in Pointers
    BY <1>3 DEF Types
  <2> QED
    BY <1>2, <1>3, <1>4, <2>1 DEF Published, Types, Pointers
<1>8. ASSUME NEW u \in Threads PROVE CallInv(u)'
  <2>1. CASE u = t
    BY <1>1, <1>2, <1>3, <1>5, <2>1 DEF CallInv, Passed, word, Types
  <2>2. CASE u # t
    <3>1. pc'[u] = pc[u] /\ index'[u] = index[u] /\ (word(u)' = word(u) \/ pc[u] = "idle")
      BY <1>2, <1>3, <2>2 DEF word, Types, CallInv
    <3> QED
      BY <1>2, <1>3, <1>4, <3>1 DEF CallInv, Passed, Holds, Types
  <2> QED
    BY <2>1, <2>2
<1> QED
  BY <1>4, <1>6, <1>7, <1>8 DEF IInv

(* Steps of a call that change neither the table nor a struct.             *)
LEMMA LocalStep ==
  ASSUME IInv, NEW t \in Threads, table' = table, heap' = heap, mem' = mem,
         NEW label \in Labels, pc' = [pc EXCEPT ![t] = label],
         NEW i \in Nat, index' = [index EXCEPT ![t] = i],
         pc[t] \in {"indices", "store"} <=> label \in {"indices", "store"},
         CallInv(t)'
  PROVE  IInv'
<1>1. Types /\ (\A s \in Slot : Published(s)) /\ \A u \in Threads : CallInv(u)
  BY DEF IInv
<1>2. Types'
  BY <1>1 DEF Types
<1>3. ProbeFinds' /\ OneEntryPerWord'
  BY TableKept
<1>4. ASSUME NEW s \in Slot PROVE Published(s)'
  <2>1. table[s] # NULL => table[s] \in Pointers /\ table[s][1] \in Threads
    BY <1>1 DEF Types, Pointers
  <2> QED
    BY <1>1, <2>1 DEF Published, Types
<1>5. ASSUME NEW u \in Threads, u # t PROVE CallInv(u)'
  <2>1. pc'[u] = pc[u] /\ index'[u] = index[u] /\ word(u)' = word(u) /\ CallInv(u)
    BY <1>1, <1>5 DEF word, Types
  <2> QED
    BY <2>1 DEF CallInv, Passed, Holds
<1> QED
  BY <1>2, <1>3, <1>4, <1>5 DEF IInv

LEMMA SkipStep == ASSUME IInv, NEW t \in Threads, Skip(t) PROVE IInv'
<1>1. /\ pc[t] = "probe" /\ index[t] \in Slot /\ table[index[t]] # NULL
      /\ heap[table[index[t]]].word # word(t).word
      /\ index' = [index EXCEPT ![t] = index[t] + 1]
      /\ table' = table /\ heap' = heap /\ mem' = mem /\ pc' = pc
  BY DEF Skip, Holds, published
<1>2. Types /\ CallInv(t)
  BY DEF IInv
<1>3. word(t)' = word(t) /\ pc'[t] = "probe" /\ index'[t] = index[t] + 1 /\ index[t] \in Nat
  BY <1>1, <1>2 DEF word, Types
<1>4. word(t).word \in Words /\ Hash[word(t).word] \in Nat
  BY <1>1, <1>2, TableAssumption DEF CallInv, Entry
<1>5. Passed(t)'
  BY <1>1, <1>2, <1>3, <1>4 DEF CallInv, Passed
<1>6. CallInv(t)'
  BY <1>1, <1>2, <1>3, <1>4, <1>5 DEF CallInv
<1>7. pc' = [pc EXCEPT ![t] = "probe"] /\ "probe" \in Labels
  BY <1>1, <1>2 DEF Types, Labels
<1>8. index[t] + 1 \in Nat /\ pc[t] \notin {"indices", "store"}
  BY <1>1, <1>3
<1>9. "probe" \notin {"indices", "store"}
  OBVIOUS
<1> QED
  BY <1>1, <1>6, <1>7, <1>8, <1>9, LocalStep

LEMMA FoundStep == ASSUME IInv, NEW t \in Threads, Found(t) PROVE IInv'
<1>1. /\ pc[t] = "probe" /\ index[t] \in Slot /\ Holds(index[t], word(t).word)
      /\ table' = table /\ heap' = heap /\ mem' = mem
      /\ pc' = [pc EXCEPT ![t] = "count"] /\ index' = index
  BY DEF Found, Goto, published
<1>2. Types /\ CallInv(t)
  BY DEF IInv
<1>3. word(t)' = word(t) /\ pc'[t] = "count" /\ index[t] \in Nat
  BY <1>1, <1>2 DEF word, Types
<1>4. CallInv(t)'
  BY <1>1, <1>2, <1>3 DEF CallInv, Holds
<1>5. index' = [index EXCEPT ![t] = index[t]] /\ "count" \in Labels
  BY <1>1, <1>2 DEF Types, Labels
<1> QED
  BY <1>1, <1>3, <1>4, <1>5, LocalStep

LEMMA RereadStep == ASSUME IInv, NEW t \in Threads, Reread(t) PROVE IInv'
<1> DEFINE label == IF table[index[t]] = NULL THEN "cas"
                    ELSE IF Holds(index[t], word(t).word) THEN "count" ELSE "probe"
<1>1. /\ pc[t] = "reread"
      /\ table' = table /\ heap' = heap /\ mem' = mem
      /\ pc' = [pc EXCEPT ![t] = label] /\ index' = index
  BY DEF Reread, Goto, published
<1>2. Types /\ CallInv(t)
  BY DEF IInv
<1>3. word(t)' = word(t) /\ pc'[t] = label /\ index[t] \in Nat /\ index[t] \in Slot
  BY <1>1, <1>2 DEF word, Types, CallInv
<1>4. Passed(t)' <=> Passed(t)
  BY <1>1, <1>3 DEF Passed
<1>5. CallInv(t)'
  BY <1>1, <1>2, <1>3, <1>4 DEF CallInv, Holds
<1>6. index' = [index EXCEPT ![t] = index[t]] /\ label \in Labels
  BY <1>1, <1>2 DEF Types, Labels
<1> QED
  BY <1>1, <1>3, <1>5, <1>6, LocalStep

LEMMA TakeIndexStep == ASSUME IInv, NEW t \in Threads, TakeIndex(t) PROVE IInv'
<1>1. /\ pc[t] = "indices"
      /\ table' = table /\ heap' = heap /\ mem' = mem
      /\ pc' = [pc EXCEPT ![t] = "store"] /\ index' = index
  BY DEF TakeIndex, Goto
<1>2. Types /\ CallInv(t)
  BY DEF IInv
<1>3. word(t)' = word(t) /\ pc'[t] = "store" /\ index[t] \in Nat
  BY <1>1, <1>2 DEF word, Types
<1>4. CallInv(t)'
  BY <1>1, <1>2, <1>3 DEF CallInv
<1>5. index' = [index EXCEPT ![t] = index[t]] /\ "store" \in Labels
  BY <1>1, <1>2 DEF Types, Labels
<1> QED
  BY <1>1, <1>3, <1>4, <1>5, LocalStep

----------------------------------------------------------------------------
(* Steps that write a struct or a slot.                                    *)

LEMMA FreeStep == ASSUME IInv, NEW t \in Threads, Free(t) PROVE IInv'
<1> DEFINE e == [word(t) EXCEPT !.own = TRUE]
<1>1. /\ pc[t] = "probe" /\ index[t] \in Slot
      /\ heap' = [heap EXCEPT ![<<t, mem[t]>>].own = TRUE]
      /\ table' = table /\ mem' = mem /\ index' = index
      /\ pc' = [pc EXCEPT ![t] = "reread"]
  BY DEF Free, Goto, published
<1>2. Types /\ (\A s \in Slot : Published(s)) /\ \A u \in Threads : CallInv(u)
  BY DEF IInv
<1>3. /\ <<t, mem[t]>> \in Pointers /\ word(t) \in Entry
      /\ e \in Entry /\ e.word = word(t).word /\ e.own /\ e.count = word(t).count
      /\ e.files = word(t).files
  BY <1>1, <1>2 DEF CallInv, Entry
<1>4. heap' = [heap EXCEPT ![<<t, mem[t]>>] = e]
  BY <1>1, <1>2, <1>3 DEF Types, word
<1> HIDE DEF e
<1>5. /\ ProbeFinds' /\ OneEntryPerWord'
      /\ \A s \in Slot : table[s] # NULL => heap'[table[s]] = heap[table[s]]
  BY <1>1, <1>3, <1>4, EntriesUntouched
<1>6. Types'
  BY <1>1, <1>2, <1>3, <1>4 DEF Types, Labels
<1>7. ASSUME NEW s \in Slot PROVE Published(s)'
  <2>1. table[s] # NULL => table[s] \in Pointers /\ table[s][1] \in Threads
    BY <1>2 DEF Types, Pointers
  <2> QED
    BY <1>1, <1>2, <1>5, <2>1 DEF Published, Types
<1>8. ASSUME NEW u \in Threads PROVE CallInv(u)'
  <2>1. CASE u = t
    <3>1. word(t)' = e /\ pc'[t] = "reread" /\ CallInv(t) /\ index'[t] = index[t]
      BY <1>1, <1>2, <1>3, <1>4 DEF Types, word
    <3>2. Passed(t)'
      BY <1>1, <1>3, <1>5, <3>1 DEF CallInv, Passed
    <3> QED
      BY <1>1, <1>3, <2>1, <3>1, <3>2 DEF CallInv
  <2>2. CASE u # t
    <3>1. pc'[u] = pc[u] /\ index'[u] = index[u] /\ (word(u)' = word(u) \/ pc[u] = "idle")
      BY <1>1, <1>2, <1>4, <2>2 DEF word, Types, CallInv
    <3>2. pc'[u] = pc[u]
      BY <1>1, <1>2, <2>2 DEF Types
    <3> QED
      BY <1>1, <1>2, <1>5, <3>1, <3>2 DEF CallInv, Passed, Holds
  <2> QED
    BY <2>1, <2>2
<1> QED
  BY <1>5, <1>6, <1>7, <1>8 DEF IInv

(* The exchange that takes a slot: the slots the call has passed hold      *)
(* other words, and a slot behind this one cannot hold the word, since     *)
(* this one was free.                                                      *)
LEMMA ExchangeStep == ASSUME IInv, NEW t \in Threads, Exchange(t) PROVE IInv'
<1>1. Types /\ (\A s \in Slot : Published(s)) /\ (\A u \in Threads : CallInv(u))
      /\ ProbeFinds /\ OneEntryPerWord
  BY DEF IInv
<1>2. pc[t] = "cas" /\ heap' = heap /\ mem' = mem /\ index' = index
  BY DEF Exchange
<1>3. CASE table[index[t]] # NULL
  <2>1. table' = table /\ pc' = [pc EXCEPT ![t] = "probe"]
    BY <1>3 DEF Exchange, Goto
  <2>2. word(t)' = word(t) /\ pc'[t] = "probe" /\ index[t] \in Nat
    BY <1>1, <1>2, <2>1 DEF word, Types
  <2>3. Passed(t)' <=> Passed(t)
    BY <1>2, <2>1, <2>2 DEF Passed
  <2>4. CallInv(t)'
    BY <1>1, <1>2, <2>2, <2>3 DEF CallInv
  <2>5. index' = [index EXCEPT ![t] = index[t]] /\ "probe" \in Labels
    BY <1>1, <1>2 DEF Types, Labels
  <2>6. pc[t] \notin {"indices", "store"} /\ "probe" \notin {"indices", "store"}
    BY <1>2
  <2> QED
    BY <1>2, <2>1, <2>2, <2>4, <2>5, <2>6, LocalStep
<1>4. CASE table[index[t]] = NULL
  <2> DEFINE i == index[t]
             p == <<t, mem[t]>>
             w == word(t).word
  <2>1. table' = [table EXCEPT ![i] = p] /\ pc' = [pc EXCEPT ![t] = "indices"]
    BY <1>4 DEF Exchange, Goto
  <2>2. /\ i \in Slot /\ p \in Pointers /\ heap[p] \in Entry /\ heap[p].own
        /\ heap[p].count = 1 /\ heap[p].word = w /\ w \in Words
        /\ Hash[w] \in Nat /\ Hash[w] <= i /\ Passed(t) /\ mem[t] \in Nat
    BY <1>1, <1>2, TableAssumption DEF CallInv, word, Entry, Types
  <2>3. p # NULL
    BY <2>2, TableAssumption DEF Pointers
  <2>4. table'[i] = p /\ \A s \in Slot : s # i => table'[s] = table[s]
    BY <1>1, <2>1, <2>2 DEF Types
  <2> HIDE DEF i, p, w
  <2>5. Types'
    BY <1>1, <1>2, <2>1, <2>2 DEF Types, Labels
  <2>6. ASSUME NEW s \in Slot PROVE Published(s)'
    <3>1. CASE s = i
      <4>1. table'[s] = <<t, mem[t]>> /\ pc'[t] = "indices" /\ mem'[t] = mem[t]
        BY <1>1, <1>2, <2>1, <2>4, <3>1 DEF Types, p
      <4> QED
        BY <1>2, <2>2, <2>4, <3>1, <4>1 DEF Published
    <3>2. CASE s # i
      <4>1. table'[s] = table[s] /\ (table[s] # NULL => table[s][1] \in Threads)
        BY <1>1, <2>4, <3>2 DEF Types, Pointers
      <4> QED
        BY <1>1, <1>2, <2>1, <4>1 DEF Published, Types
    <3> QED
      BY <3>1, <3>2
  <2>7. ASSUME NEW u \in Threads PROVE CallInv(u)'
    <3>1. CASE u = t
      BY <1>1, <1>2, <2>1, <2>2, <3>1 DEF CallInv, word, Types, p
    <3>2. CASE u # t
      <4>1. pc'[u] = pc[u] /\ index'[u] = index[u] /\ word(u)' = word(u) /\ CallInv(u)
        BY <1>1, <1>2, <2>1, <3>2 DEF word, Types
      <4>2. \A s \in Slot : table[s] # NULL => table'[s] = table[s]
        BY <1>4, <2>4 DEF i
      <4>3. Passed(u) => Passed(u)'
        BY <1>2, <4>1, <4>2 DEF Passed
      <4>4. ASSUME NEW s \in Slot, NEW v, Holds(s, v) PROVE Holds(s, v)'
        BY <1>2, <4>2, <4>4 DEF Holds
      <4>5. CASE pc[u] \in {"count", "bits"}
        <5>1. Holds(index[u], word(u).word)'
          BY <4>1, <4>4, <4>5 DEF CallInv, Holds
        <5> QED
          BY <1>2, <4>1, <4>5, <5>1 DEF CallInv
      <4>6. CASE pc[u] \notin {"count", "bits"}
        BY <1>2, <4>1, <4>3, <4>6 DEF CallInv
      <4> QED
        BY <4>5, <4>6
    <3> QED
      BY <3>1, <3>2
  <2>8. ProbeFinds'
    <3> SUFFICES ASSUME NEW s \in Slot, table'[s] # NULL,
                        NEW r \in Hash[heap[table'[s]].word] .. s
                 PROVE  table'[r] # NULL
      BY <1>2 DEF ProbeFinds
    <3>1. CASE s = i
      <4>1. r = i \/ r \in Hash[w] .. i - 1
        BY <2>2, <2>4, <3>1 DEF Slot
      <4> QED
        BY <2>2, <2>3, <2>4, <4>1, <1>2 DEF Passed, w, i
    <3>2. CASE s # i
      <4>1. table[r] # NULL
        BY <1>1, <2>4, <3>2 DEF ProbeFinds
      <4>2. r # i
        BY <1>4, <4>1 DEF i
      <4> QED
        BY <1>1, <2>1, <4>1, <4>2 DEF Types
    <3> QED
      BY <3>1, <3>2
  <2>9. \A s \in Slot : ~Holds(s, w)
    <3> SUFFICES ASSUME NEW s \in Slot, Holds(s, w) PROVE FALSE
      OBVIOUS
    <3>1. table[s] # NULL /\ heap[table[s]].word = w /\ Hash[w] <= s
      BY <1>1 DEF Holds, Published
    <3>2. CASE s < i
      BY <2>2, <3>1, <3>2 DEF Passed, w, i, Slot
    <3>3. CASE s >= i
      <4>1. i \in Hash[w] .. s
        BY <2>2, <3>3 DEF Slot
      <4> QED
        BY <1>1, <1>4, <3>1, <4>1 DEF ProbeFinds, i
    <3> QED
      BY <2>2, <3>2, <3>3 DEF Slot
  <2>10. OneEntryPerWord'
    <3> SUFFICES ASSUME NEW s1 \in Slot, NEW s2 \in Slot, NEW v \in Words,
                        Holds(s1, v)', Holds(s2, v)'
                 PROVE  s1 = s2
      BY DEF OneEntryPerWord
    <3>1. CASE s1 # i /\ s2 # i
      BY <1>1, <1>2, <2>4, <3>1 DEF OneEntryPerWord, Holds
    <3>2. CASE s1 = i /\ s2 # i
      BY <1>2, <2>2, <2>4, <2>9, <3>2 DEF Holds
    <3>3. CASE s2 = i /\ s1 # i
      BY <1>2, <2>2, <2>4, <2>9, <3>3 DEF Holds
    <3> QED
      BY <3>1, <3>2, <3>3
  <2> QED
    BY <2>5, <2>6, <2>7, <2>8, <2>10 DEF IInv
<1> QED
  BY <1>3, <1>4

LEMMA StoreStep == ASSUME IInv, NEW t \in Threads, Store(t) PROVE IInv'
<1>1. Types /\ (\A s \in Slot : Published(s)) /\ (\A u \in Threads : CallInv(u))
  BY DEF IInv
<1>2. /\ pc[t] = "store" /\ table' = table /\ heap' = heap
      /\ mem' = [mem EXCEPT ![t] = mem[t] + 1]
      /\ pc' = [pc EXCEPT ![t] = "idle"] /\ index' = [index EXCEPT ![t] = 0]
  BY DEF Store, Return, Goto
<1>3. Types'
  BY <1>1, <1>2 DEF Types, Labels
<1>4. ProbeFinds' /\ OneEntryPerWord'
  BY <1>2, TableKept
<1>5. ASSUME NEW s \in Slot PROVE Published(s)'
  <2>1. table[s] # NULL => table[s][1] \in Threads /\ table[s][2] \in Nat
    BY <1>1, TableAssumption DEF Types, Pointers
  <2> QED
    BY <1>1, <1>2, <2>1 DEF Published, Types
<1>6. ASSUME NEW u \in Threads PROVE CallInv(u)'
  <2>1. CASE u = t
    BY <1>1, <1>2, <2>1 DEF CallInv, Types
  <2>2. CASE u # t
    <3>1. pc'[u] = pc[u] /\ index'[u] = index[u] /\ word(u)' = word(u) /\ mem'[u] = mem[u]
      BY <1>1, <1>2, <2>2 DEF Types, word
    <3> QED
      BY <1>1, <1>2, <3>1 DEF CallInv, Passed, Holds
  <2> QED
    BY <2>1, <2>2
<1> QED
  BY <1>3, <1>4, <1>5, <1>6 DEF IInv

(* The entry that a call updates, and what it was before.                  *)
LEMMA AtEntry ==
  ASSUME IInv, NEW t \in Threads, pc[t] \in {"count", "bits"}
  PROVE  /\ index[t] \in Slot /\ table[index[t]] # NULL
         /\ table[index[t]] \in Pointers /\ heap[table[index[t]]] \in Entry
         /\ heap[table[index[t]]].word = word(t).word
         /\ table[index[t]] # <<t, mem[t]>> /\ <<t, mem[t]>> \in Pointers
         /\ word(t) \in Entry
<1>1. CallInv(t) /\ Types
  BY DEF IInv
<1>2. index[t] \in Slot /\ Holds(index[t], word(t).word)
  BY <1>1 DEF CallInv
<1>3. table[index[t]] # NULL /\ Published(index[t])
  BY <1>2 DEF Holds, IInv
<1>4. table[index[t]] # <<t, mem[t]>>
  BY <1>2, <1>3, Unpublished
<1> QED
  BY <1>1, <1>2, <1>3, <1>4 DEF CallInv, Published, Holds, Types

LEMMA AddCountStep == ASSUME IInv, NEW t \in Threads, AddCount(t) PROVE IInv'
<1> DEFINE q == table[index[t]]
           e == [heap[q] EXCEPT !.count = @ + 1]
<1>1. Types /\ (\A s \in Slot : Published(s)) /\ (\A u \in Threads : CallInv(u))
  BY DEF IInv
<1>2. /\ pc[t] = "count" /\ table' = table /\ mem' = mem /\ index' = index
      /\ heap' = [heap EXCEPT ![q] = e]
      /\ pc' = [pc EXCEPT ![t] = "bits"]
  BY DEF AddCount, Goto, published
<1>3. /\ index[t] \in Slot /\ q # NULL /\ q \in Pointers /\ heap[q] \in Entry
      /\ heap[q].word = word(t).word /\ q # <<t, mem[t]>>
  BY <1>2, AtEntry
<1>4. /\ e \in Entry /\ e.word = heap[q].word /\ e.own = heap[q].own
      /\ e.files = heap[q].files /\ e.count = heap[q].count + 1 /\ heap[q].count \in Nat
  BY <1>3 DEF Entry
<1>5. \A r \in Pointers : heap'[r] = IF r = q THEN e ELSE heap[r]
  BY <1>1, <1>2, <1>3 DEF Types
<1> HIDE DEF e
<1>6. ProbeFinds' /\ OneEntryPerWord'
  <2>1. \A s \in Slot : table[s] # NULL => heap'[table[s]].word = heap[table[s]].word
    BY <1>1, <1>4, <1>5 DEF Types
  <2> QED
    BY <1>2, <2>1, TableKept
<1>7. Types'
  BY <1>1, <1>2, <1>4 DEF Types, Labels
<1>8. ASSUME NEW s \in Slot PROVE Published(s)'
  <2>1. table[s] # NULL => table[s] \in Pointers /\ table[s][1] \in Threads
    BY <1>1 DEF Types, Pointers
  <2>2. table[s] # NULL => /\ heap'[table[s]] \in Entry
                           /\ heap'[table[s]].own = heap[table[s]].own
                           /\ heap'[table[s]].word = heap[table[s]].word
                           /\ heap'[table[s]].count > 0
    BY <1>1, <1>4, <1>5, <2>1 DEF Published
  <2> QED
    BY <1>1, <1>2, <2>1, <2>2 DEF Published, Types
<1>9. ASSUME NEW u \in Threads PROVE CallInv(u)'
  <2>1. index'[u] = index[u] /\ mem'[u] = mem[u] /\ (u # t => pc'[u] = pc[u]) /\ pc'[t] = "bits"
    BY <1>1, <1>2 DEF Types
  <2>2. CASE pc[u] \in {"indices", "store"}
    <3>1. <<u, mem[u]>> \in Pointers /\ heap[<<u, mem[u]>>] \in Entry
      BY <1>1, <2>2 DEF CallInv, word
    <3>2. word(u)' \in Entry
      BY <1>1, <1>4, <1>5, <2>1, <3>1 DEF word, Types
    <3> QED
      BY <1>1, <1>2, <2>1, <2>2, <3>1, <3>2 DEF CallInv
  <2>3. CASE pc[u] = "idle"
    BY <1>2, <2>1, <2>3 DEF CallInv
  <2>4. CASE pc[u] \notin {"indices", "store", "idle"}
    <3>1. <<u, mem[u]>> \in Pointers /\ <<u, mem[u]>> # q
      BY <1>1, <1>3, <2>4, Unpublished DEF CallInv
    <3>2. word(u)' = word(u)
      BY <1>2, <1>5, <3>1 DEF word
    <3>3. \A s \in Slot : table[s] # NULL => heap'[table[s]].word = heap[table[s]].word
      BY <1>1, <1>4, <1>5 DEF Types
    <3>4. Passed(u) => Passed(u)'
      BY <1>2, <3>2, <3>3 DEF Passed
    <3>5. index[u] \in Slot /\ Holds(index[u], word(u).word) => Holds(index[u], word(u).word)'
      BY <1>2, <3>2, <3>3 DEF Holds
    <3>6. pc'[u] \in {"count", "bits"} <=> pc[u] \in {"count", "bits"}
      BY <1>2, <2>1
    <3>7. CASE pc[u] \in {"count", "bits"}
      <4>1. Holds(index[u], word(u).word)' /\ index[u] \in Slot
        BY <1>1, <3>5, <3>7 DEF CallInv
      <4> QED
        BY <1>1, <1>2, <2>1, <3>1, <3>2, <3>6, <3>7, <4>1 DEF CallInv
    <3>8. CASE pc[u] \notin {"count", "bits"}
      BY <1>1, <1>2, <2>1, <3>1, <3>2, <3>4, <3>6, <3>8 DEF CallInv
    <3> QED
      BY <3>7, <3>8
  <2> QED
    BY <2>2, <2>3, <2>4
<1> QED
  BY <1>6, <1>7, <1>8, <1>9 DEF IInv

LEMMA SetBitsStep == ASSUME IInv, NEW t \in Threads, SetBits(t) PROVE IInv'
<1> DEFINE q == table[index[t]]
           p == <<t, mem[t]>>
           e == [heap[q] EXCEPT !.files = @ \union word(t).files]
<1>1. Types /\ (\A s \in Slot : Published(s)) /\ (\A u \in Threads : CallInv(u))
  BY DEF IInv
<1>2. /\ pc[t] = "bits" /\ table' = table /\ mem' = mem
      /\ index' = [index EXCEPT ![t] = 0]
      /\ heap' = [heap EXCEPT ![q] = e, ![p] = NULL]
      /\ pc' = [pc EXCEPT ![t] = "idle"]
  BY DEF SetBits, Return, Goto
<1>3. /\ index[t] \in Slot /\ q # NULL /\ q \in Pointers /\ heap[q] \in Entry
      /\ q # p /\ p \in Pointers /\ word(t) \in Entry
  BY <1>2, AtEntry
<1>4. /\ e \in Entry /\ e.word = heap[q].word /\ e.own = heap[q].own
      /\ e.count = heap[q].count /\ e.files = heap[q].files \union word(t).files
  BY <1>3 DEF Entry
<1> HIDE DEF e
<1>5. \A r \in Pointers : heap'[r] = IF r = q THEN e ELSE IF r = p THEN NULL ELSE heap[r]
  BY <1>1, <1>2, <1>3 DEF Types
<1>6. \A s \in Slot : table[s] # NULL => table[s] \in Pointers /\ table[s] # p
  BY <1>1, <1>2, Unpublished DEF Types
<1>7. \A s \in Slot : table[s] # NULL => /\ heap'[table[s]] \in Entry
                                        /\ heap'[table[s]].own = heap[table[s]].own
                                        /\ heap'[table[s]].word = heap[table[s]].word
                                        /\ heap'[table[s]].count = heap[table[s]].count
  BY <1>1, <1>4, <1>5, <1>6 DEF Published
<1>8. ProbeFinds' /\ OneEntryPerWord'
  BY <1>2, <1>7, TableKept
<1>9. Types'
  BY <1>1, <1>2, <1>4 DEF Types, Labels
<1>10. ASSUME NEW s \in Slot PROVE Published(s)'
  <2>1. table[s] # NULL => table[s] \in Pointers /\ table[s][1] \in Threads
    BY <1>1 DEF Types, Pointers
  <2> QED
    BY <1>1, <1>2, <1>7, <2>1 DEF Published, Types
<1>11. ASSUME NEW u \in Threads PROVE CallInv(u)'
  <2>1. CASE u = t \/ pc[u] = "idle"
    BY <1>1, <1>2, <2>1 DEF CallInv, Types
  <2>2. CASE u # t /\ pc[u] # "idle"
    <3>1. /\ <<u, mem[u]>> \in Pointers /\ <<u, mem[u]>> # p
          /\ pc'[u] = pc[u] /\ index'[u] = index[u]
      BY <1>1, <1>2, <2>2 DEF CallInv, Types
    <3>2. CASE pc[u] \in {"indices", "store"}
      <4>1. heap[<<u, mem[u]>>] \in Entry
        BY <1>1, <2>2 DEF CallInv, word
      <4>2. word(u)' \in Entry
        BY <1>2, <1>4, <1>5, <3>1, <4>1 DEF word
      <4> QED
        BY <1>2, <3>1, <3>2, <4>2 DEF CallInv
    <3>3. CASE pc[u] \notin {"indices", "store"}
      <4>1. <<u, mem[u]>> # q
        BY <1>3, <3>3, Unpublished
      <4>2. word(u)' = word(u)
        BY <1>2, <1>5, <3>1, <4>1 DEF word
      <4>3. Passed(u) => Passed(u)'
        <5> SUFFICES ASSUME Passed(u), NEW r \in Hash[word(u).word] .. index[u] - 1
                     PROVE  r \in Slot /\ table'[r] # NULL
                            /\ heap'[table'[r]].word # word(u).word
          BY <3>1, <4>2 DEF Passed
        <5>1. r \in Slot /\ table[r] # NULL /\ heap[table[r]].word # word(u).word
          BY DEF Passed
        <5> QED
          BY <1>2, <1>7, <5>1
      <4>4. CASE pc[u] \in {"count", "bits"}
        <5>1. Holds(index[u], word(u).word) /\ index[u] \in Slot
          BY <1>1, <4>4 DEF CallInv
        <5>2. Holds(index[u], word(u).word)'
          BY <1>2, <1>7, <3>1, <4>2, <5>1 DEF Holds
        <5> QED
          BY <1>1, <1>2, <3>1, <4>2, <4>4, <5>1, <5>2 DEF CallInv
      <4>5. CASE pc[u] \notin {"count", "bits"}
        BY <1>1, <1>2, <3>1, <3>3, <4>2, <4>3, <4>5 DEF CallInv
      <4> QED
        BY <4>4, <4>5
    <3> QED
      BY <3>2, <3>3
  <2> QED
    BY <2>1, <2>2
<1> QED
  BY <1>8, <1>9, <1>10, <1>11 DEF IInv

LEMMA StepInv == IInv /\ [Next]_vars => IInv'
<1> SUFFICES ASSUME IInv, [Next]_vars PROVE IInv'
  OBVIOUS
<1>1. ASSUME NEW t \in Threads, Moves(t) PROVE IInv'
  BY <1>1, SkipStep, FoundStep, FreeStep, RereadStep, ExchangeStep, TakeIndexStep,
     StoreStep, AddCountStep, SetBitsStep DEF Moves
<1>2. ASSUME NEW t \in Threads, NEW w \in Words, NEW f \in Files, Call(t, w, f) PROVE IInv'
  BY <1>2, CallStep
<1>3. CASE UNCHANGED seen
  <2>1. UNCHANGED <<table, heap, mem, pc, index>>
    BY <1>3 DEF seen
  <2>2. Types' /\ (\A s \in Slot : Published(s)') /\ ProbeFinds' /\ OneEntryPerWord'
    BY <2>1 DEF IInv, Types, Published, ProbeFinds, OneEntryPerWord, Holds
  <2>3. ASSUME NEW t \in Threads PROVE CallInv(t)'
    BY <2>1 DEF IInv, CallInv, Passed, Holds, word
  <2> QED
    BY <2>2, <2>3 DEF IInv
<1> QED
  BY <1>1, <1>2, <1>3, NextMoves DEF AnyStep

(* The invariant holds in every state of every run of the table.           *)
THEOREM TableInvariant == Safety => []IInv
<1> QED
  BY InitInv, StepInv, PTL DEF Safety

(* prog5.c:51: whatever the interleaving of the calls of any number of     *)
(* threads, no word is in two slots of the table.                          *)
THEOREM WordsAreUnique == Safety => []OneEntryPerWord
<1>1. IInv => OneEntryPerWord
  BY DEF IInv
<1> QED
  BY <1>1, TableInvariant, PTL

(* prog5.c:58: a probe that stops at a free slot has not stopped short of  *)
(* its word.                                                               *)
THEOREM ProbesFind == Safety => []ProbeFinds
<1>1. IInv => ProbeFinds
  BY DEF IInv
<1> QED
  BY <1>1, TableInvariant, PTL

----------------------------------------------------------------------------
(* Refinement: what each step does to the count and the files of a word.   *)

LEMMA CountIs ==
  ASSUME OneEntryPerWord, NEW s \in Slot, NEW w \in Words, Holds(s, w)
  PROVE  CountOf(w) = heap[table[s]].count /\ FilesOf(w) = heap[table[s]].files
<1> DEFINE c == CHOOSE r \in Slot : Holds(r, w)
<1>1. c \in Slot /\ Holds(c, w)
  OBVIOUS
<1>2. c = s
  BY <1>1 DEF OneEntryPerWord
<1> QED
  BY <1>2 DEF CountOf, FilesOf

LEMMA CountIsNext ==
  ASSUME OneEntryPerWord', NEW s \in Slot, NEW w \in Words, Holds(s, w)'
  PROVE  CountOf(w)' = heap'[table'[s]].count /\ FilesOf(w)' = heap'[table'[s]].files
<1> DEFINE v == heap'[table'[CHOOSE r \in Slot : table'[r] # NULL /\ heap'[table'[r]].word = w]]
<1>1. PICK c \in Slot : /\ table'[c] # NULL /\ heap'[table'[c]].word = w
                        /\ c = CHOOSE r \in Slot : table'[r] # NULL /\ heap'[table'[r]].word = w
  BY DEF Holds
<1>2. c = s
  BY <1>1 DEF OneEntryPerWord, Holds
<1>3. v = heap'[table'[s]]
  BY <1>1, <1>2
<1> QED
  BY <1>3 DEF CountOf, FilesOf, Holds

LEMMA CountNone ==
  ASSUME NEW w \in Words
  PROVE  /\ (\A s \in Slot : ~Holds(s, w)) => CountOf(w) = 0 /\ FilesOf(w) = {}
         /\ (\A s \in Slot : ~Holds(s, w)') => CountOf(w)' = 0 /\ FilesOf(w)' = {}
  BY DEF CountOf, FilesOf

(* What a step does to the entries in the table: nothing, or one of three. *)
Same(w) == CountOf(w)' = CountOf(w) /\ FilesOf(w)' = FilesOf(w)

Quiet == /\ table' = table
         /\ \A s \in Slot : table[s] # NULL => heap'[table[s]] = heap[table[s]]

Changes(i) == /\ table' = table
              /\ \A s \in Slot \ {i} : table[s] # NULL => heap'[table[s]] = heap[table[s]]
              /\ heap'[table[i]].word = heap[table[i]].word
              /\ heap'[table[i]].own

LEMMA QuietStep ==
  ASSUME IInv, NEW t \in Threads,
         \/ \E w \in Words, f \in Files : Call(t, w, f)
         \/ Skip(t) \/ Found(t) \/ Free(t) \/ Reread(t) \/ TakeIndex(t) \/ Store(t)
         \/ Exchange(t) /\ table[index[t]] # NULL
  PROVE  Quiet
<1>1. Types /\ CallInv(t)
  BY DEF IInv
<1>2. ASSUME NEW w \in Words, NEW f \in Files, Call(t, w, f) PROVE Quiet
  <2>1. \A s \in Slot : table[s] # NULL => table[s] \in Pointers /\ table[s] # <<t, mem[t]>>
    BY <1>1, <1>2, Unpublished DEF Call, Types
  <2> QED
    BY <1>1, <1>2, <2>1 DEF Call, published, Quiet, Types
<1>3. CASE Free(t)
  <2>1. \A s \in Slot : table[s] # NULL => table[s] \in Pointers /\ table[s] # <<t, mem[t]>>
    BY <1>1, <1>3, Unpublished DEF Free, Types
  <2> QED
    BY <1>1, <1>3, <2>1 DEF Free, published, Quiet, Types
<1>4. CASE Skip(t) \/ Found(t) \/ Reread(t) \/ TakeIndex(t) \/ Store(t)
  BY <1>4 DEF Skip, Found, Reread, TakeIndex, Store, published, Quiet
<1>5. CASE Exchange(t) /\ table[index[t]] # NULL
  BY <1>5 DEF Exchange, Quiet
<1> QED
  BY <1>2, <1>3, <1>4, <1>5

LEMMA QuietSame ==
  ASSUME IInv, IInv', Quiet, NEW w \in Words
  PROVE  Same(w)
<1>1. OneEntryPerWord /\ OneEntryPerWord'
  BY DEF IInv
<1>2. ASSUME NEW s \in Slot PROVE Holds(s, w)' <=> Holds(s, w)
  BY DEF Quiet, Holds
<1>3. CASE \E s \in Slot : Holds(s, w)
  <2>1. PICK s \in Slot : Holds(s, w)
    BY <1>3
  <2>2. Holds(s, w)' /\ table'[s] = table[s] /\ heap'[table'[s]] = heap[table[s]]
    BY <1>2, <2>1 DEF Quiet, Holds
  <2> QED
    BY <1>1, <2>1, <2>2, CountIs, CountIsNext DEF Same
<1>4. CASE \A s \in Slot : ~Holds(s, w)
  BY <1>2, <1>4, CountNone DEF Same
<1> QED
  BY <1>3, <1>4

(* An update changes the entry of the word of the call, and no other.      *)
LEMMA UpdateChanges ==
  ASSUME IInv, NEW t \in Threads, AddCount(t) \/ SetBits(t)
  PROVE  /\ Changes(index[t]) /\ index[t] \in Slot
         /\ word(t).word \in Words /\ Holds(index[t], word(t).word)
         /\ AddCount(t) => /\ heap'[table[index[t]]].count = heap[table[index[t]]].count + 1
                           /\ heap'[table[index[t]]].files = heap[table[index[t]]].files
         /\ SetBits(t) => /\ heap'[table[index[t]]].count = heap[table[index[t]]].count
                          /\ heap'[table[index[t]]].files =
                               heap[table[index[t]]].files \union word(t).files
<1>1. Types /\ pc[t] \in {"count", "bits"}
  BY DEF IInv, AddCount, SetBits
<1>2. /\ index[t] \in Slot /\ table[index[t]] # NULL
      /\ table[index[t]] \in Pointers /\ heap[table[index[t]]] \in Entry
      /\ heap[table[index[t]]].word = word(t).word
      /\ table[index[t]] # <<t, mem[t]>> /\ <<t, mem[t]>> \in Pointers
      /\ word(t) \in Entry
  BY <1>1, AtEntry
<1>3. heap[table[index[t]]].own /\ OneEntryPerWord
  BY <1>2 DEF IInv, Published
<1>4. ASSUME NEW s \in Slot \ {index[t]}, table[s] # NULL
      PROVE  table[s] \in Pointers /\ table[s] # <<t, mem[t]>> /\ table[s] # table[index[t]]
  <2>1. table[s] \in Pointers /\ table[s] # <<t, mem[t]>>
    BY <1>1, <1>4, Unpublished DEF Types
  <2>2. heap[table[s]].word \in Words
    BY <1>4 DEF IInv, Published, Entry
  <2> QED
    BY <1>2, <1>3, <1>4, <2>1, <2>2 DEF OneEntryPerWord, Holds
<1>5. CASE AddCount(t)
  <2>1. table' = table /\ heap' = [heap EXCEPT ![table[index[t]]].count = @ + 1] /\ pc[t] = "count"
    BY <1>5 DEF AddCount, published
  <2>2. ~SetBits(t)
    BY <2>1 DEF SetBits
  <2>3. heap'[table[index[t]]] = [heap[table[index[t]]] EXCEPT !.count = @ + 1]
    BY <1>1, <1>2, <2>1 DEF Types
  <2>4. \A s \in Slot \ {index[t]} : table[s] # NULL => heap'[table[s]] = heap[table[s]]
    BY <1>1, <1>2, <1>4, <2>1 DEF Types
  <2>5. /\ heap'[table[index[t]]].word = heap[table[index[t]]].word
        /\ heap'[table[index[t]]].own = heap[table[index[t]]].own
        /\ heap'[table[index[t]]].files = heap[table[index[t]]].files
        /\ heap'[table[index[t]]].count = heap[table[index[t]]].count + 1
    BY <1>2, <2>3 DEF Entry
  <2>6. word(t).word \in Words /\ Holds(index[t], word(t).word)
    BY <1>2 DEF Holds, Entry
  <2> QED
    BY <1>2, <1>3, <2>1, <2>2, <2>4, <2>5, <2>6 DEF Changes
<1>6. CASE SetBits(t)
  <2>1. /\ table' = table /\ pc[t] = "bits"
        /\ heap' = [heap EXCEPT ![table[index[t]]].files = @ \union word(t).files,
                                ![<<t, mem[t]>>] = NULL]
    BY <1>6 DEF SetBits
  <2>2. ~AddCount(t)
    BY <2>1 DEF AddCount
  <2>3. heap'[table[index[t]]] = [heap[table[index[t]]] EXCEPT !.files = @ \union word(t).files]
    BY <1>1, <1>2, <2>1 DEF Types
  <2>4. \A s \in Slot \ {index[t]} : table[s] # NULL => heap'[table[s]] = heap[table[s]]
    BY <1>1, <1>2, <1>4, <2>1 DEF Types
  <2>5. /\ heap'[table[index[t]]].word = heap[table[index[t]]].word
        /\ heap'[table[index[t]]].own = heap[table[index[t]]].own
        /\ heap'[table[index[t]]].count = heap[table[index[t]]].count
        /\ heap'[table[index[t]]].files = heap[table[index[t]]].files \union word(t).files
    BY <1>2, <2>3 DEF Entry
  <2>6. word(t).word \in Words /\ Holds(index[t], word(t).word)
    BY <1>2 DEF Holds, Entry
  <2> QED
    BY <1>2, <1>3, <2>1, <2>2, <2>4, <2>5, <2>6 DEF Changes
<1> QED
  BY <1>5, <1>6

LEMMA UpdateCounts ==
  ASSUME IInv, IInv', NEW t \in Threads, AddCount(t) \/ SetBits(t),
         NEW v \in Words, v = word(t).word
  PROVE  /\ \A w \in Words : w # v => Same(w)
         /\ CountOf(v) > 0
         /\ AddCount(t) => CountOf(v)' = CountOf(v) + 1 /\ FilesOf(v)' = FilesOf(v)
         /\ SetBits(t) => /\ CountOf(v)' = CountOf(v)
                          /\ FilesOf(v)' = FilesOf(v) \union word(t).files
<1>0. PICK i \in Slot : i = index[t]
  BY UpdateChanges
<1>1. /\ Changes(i) /\ Holds(i, v)
      /\ OneEntryPerWord /\ OneEntryPerWord' /\ Published(i)
  BY <1>0, UpdateChanges DEF IInv
<1>2. CountOf(v) = heap[table[i]].count /\ FilesOf(v) = heap[table[i]].files
  BY <1>1, CountIs
<1>3. Holds(i, v)' /\ heap[table[i]].count > 0
  BY <1>1 DEF Changes, Holds, Published
<1>4. CountOf(v)' = heap'[table[i]].count /\ FilesOf(v)' = heap'[table[i]].files
  BY <1>1, <1>3, CountIsNext DEF Changes
<1>5. ASSUME NEW w \in Words, w # v PROVE Same(w)
  <2>1. ASSUME NEW s \in Slot PROVE Holds(s, w)' <=> Holds(s, w)
    BY <1>1 DEF Changes, Holds
  <2>2. CASE \E s \in Slot : Holds(s, w)
    <3>1. PICK s \in Slot : Holds(s, w)
      BY <2>2
    <3>2. s # i
      BY <1>1, <1>5, <3>1 DEF Holds
    <3>3. Holds(s, w)' /\ table'[s] = table[s] /\ heap'[table'[s]] = heap[table[s]]
      BY <1>1, <2>1, <3>1, <3>2 DEF Changes, Holds
    <3> QED
      BY <1>1, <3>1, <3>3, CountIs, CountIsNext DEF Same
  <2>3. CASE \A s \in Slot : ~Holds(s, w)
    BY <2>1, <2>3, CountNone DEF Same
  <2> QED
    BY <2>2, <2>3
<1> QED
  BY <1>0, <1>2, <1>3, <1>4, <1>5, UpdateChanges

(* Taking a slot enters one word, that was not in, with one occurrence and *)
(* the file of the call.                                                   *)
LEMMA EnterCounts ==
  ASSUME IInv, IInv', NEW t \in Threads, Exchange(t), table[index[t]] = NULL
  PROVE  \E v \in Words, f \in Files :
           /\ v = word(t).word /\ word(t).files = {f}
           /\ CountOf(v) = 0 /\ CountOf(v)' = 1 /\ FilesOf(v) = {} /\ FilesOf(v)' = {f}
           /\ \A w \in Words : w # v => Same(w)
<1>1. /\ Types /\ OneEntryPerWord /\ OneEntryPerWord' /\ CallInv(t) /\ pc[t] = "cas"
  BY DEF IInv, Exchange
<1>3. PICK i \in Slot, p \in Pointers, v \in Words :
        /\ i = index[t] /\ p = <<t, mem[t]>> /\ heap[p] \in Entry
        /\ heap[p].count = 1 /\ heap[p].word = v /\ heap[p].files = word(t).files
        /\ v = word(t).word
  BY <1>1 DEF CallInv, word, Entry
<1>2. heap' = heap /\ table' = [table EXCEPT ![i] = p]
  BY <1>3 DEF Exchange
<1>4. PICK f \in Files : heap[p].files = {f}
  BY <1>1, <1>3 DEF CallInv
<1>5. p # NULL /\ table[i] = NULL
  BY <1>3, TableAssumption DEF Pointers
<1>6. table'[i] = p /\ \A s \in Slot : s # i => table'[s] = table[s]
  BY <1>1, <1>2, <1>3 DEF Types
<1>7. Holds(i, v)'
  BY <1>2, <1>3, <1>5, <1>6 DEF Holds
<1>8. CountOf(v)' = 1 /\ FilesOf(v)' = {f}
  BY <1>1, <1>2, <1>3, <1>4, <1>6, <1>7, CountIsNext
<1>9. \A s \in Slot : ~Holds(s, v)
  <2> SUFFICES ASSUME NEW s \in Slot, Holds(s, v) PROVE FALSE
    OBVIOUS
  <2>1. s # i
    BY <1>5 DEF Holds
  <2>2. Holds(s, v)'
    BY <1>2, <1>6, <2>1 DEF Holds
  <2> QED
    BY <1>1, <1>3, <1>7, <2>1, <2>2 DEF OneEntryPerWord
<1>10. CountOf(v) = 0 /\ FilesOf(v) = {}
  BY <1>3, <1>9, CountNone
<1>11. ASSUME NEW w \in Words, w # v PROVE Same(w)
  <2>1. ASSUME NEW s \in Slot PROVE Holds(s, w)' <=> Holds(s, w)
    BY <1>2, <1>3, <1>5, <1>6, <1>11 DEF Holds
  <2>2. CASE \E s \in Slot : Holds(s, w)
    <3>1. PICK s \in Slot : Holds(s, w)
      BY <2>2
    <3>2. s # i
      BY <1>5, <3>1 DEF Holds
    <3>3. Holds(s, w)' /\ heap'[table'[s]] = heap[table[s]]
      BY <1>2, <1>6, <2>1, <3>1, <3>2
    <3> QED
      BY <1>1, <3>1, <3>3, CountIs, CountIsNext DEF Same
  <2>3. CASE \A s \in Slot : ~Holds(s, w)
    BY <2>1, <2>3, CountNone DEF Same
  <2> QED
    BY <2>2, <2>3
<1> QED
  BY <1>3, <1>4, <1>8, <1>10, <1>11

LEMMA RefinesInit == Init => Count!Init
<1> SUFFICES ASSUME Init PROVE Count!Init
  OBVIOUS
<1>1. \A s \in Slot : table[s] = NULL
  BY DEF Init
<1>2. \A w \in Words : CountOf(w) = 0 /\ FilesOf(w) = {}
  BY <1>1 DEF CountOf, FilesOf, Holds
<1> QED
  BY <1>2 DEF Count!Init

LEMMA RefinesNext ==
  ASSUME IInv, IInv', [Next]_vars
  PROVE  [Count!Next]_<<[w \in Words |-> CountOf(w)], [w \in Words |-> FilesOf(w)]>>
<1>1. CASE Quiet
  <2>1. \A w \in Words : CountOf(w)' = CountOf(w) /\ FilesOf(w)' = FilesOf(w)
    BY <1>1, QuietSame DEF Same
  <2> QED
    BY <2>1
<1>2. ASSUME NEW t \in Threads, AddCount(t) PROVE Count!Next
  <2>0. PICK v \in Words : v = word(t).word
    BY <1>2, UpdateChanges
  <2>1. /\ v \in Words /\ CountOf(v) > 0 /\ CountOf(v)' = CountOf(v) + 1
        /\ FilesOf(v)' = FilesOf(v)
        /\ \A w \in Words : w # v => CountOf(w)' = CountOf(w) /\ FilesOf(w)' = FilesOf(w)
    BY <1>2, <2>0, UpdateChanges, UpdateCounts DEF Same
  <2>2. Count!Again(v)
    BY <2>1 DEF Count!Again
  <2> QED
    BY <2>1, <2>2 DEF Count!Next
<1>3. ASSUME NEW t \in Threads, SetBits(t) PROVE Count!Next
  <2>0. PICK v \in Words : v = word(t).word
    BY <1>3, UpdateChanges
  <2>1. /\ v \in Words /\ CountOf(v) > 0 /\ CountOf(v)' = CountOf(v)
        /\ FilesOf(v)' = FilesOf(v) \union word(t).files
        /\ \A w \in Words : w # v => CountOf(w)' = CountOf(w) /\ FilesOf(w)' = FilesOf(w)
    BY <1>3, <2>0, UpdateChanges, UpdateCounts DEF Same
  <2>2. PICK f \in Files : word(t).files = {f}
    BY <1>3 DEF IInv, CallInv, SetBits
  <2>3. Count!SeenIn(v, f)
    BY <2>1, <2>2 DEF Count!SeenIn
  <2> QED
    BY <2>1, <2>3 DEF Count!Next
<1>4. ASSUME NEW t \in Threads, Exchange(t), table[index[t]] = NULL PROVE Count!Next
  <2>1. PICK v \in Words, f \in Files :
          /\ CountOf(v) = 0 /\ CountOf(v)' = 1 /\ FilesOf(v)' = {f}
          /\ \A w \in Words : w # v => CountOf(w)' = CountOf(w) /\ FilesOf(w)' = FilesOf(w)
    BY <1>4, EnterCounts DEF Same
  <2>2. Count!Enter(v, f)
    BY <2>1 DEF Count!Enter
  <2> QED
    BY <2>2 DEF Count!Next
<1>5. CASE UNCHANGED seen
  BY <1>1, <1>5 DEF seen, Quiet
<1>6. CASE \E t \in Threads : AnyStep(t)
  <2>1. PICK t \in Threads : Moves(t) \/ \E w \in Words, f \in Files : Call(t, w, f)
    BY <1>6 DEF AnyStep
  <2>2. CASE AddCount(t) \/ SetBits(t) \/ (Exchange(t) /\ table[index[t]] = NULL)
    BY <1>2, <1>3, <1>4, <2>2
  <2>3. CASE ~(AddCount(t) \/ SetBits(t) \/ (Exchange(t) /\ table[index[t]] = NULL))
    BY <1>1, <2>1, <2>3, QuietStep DEF Moves
  <2> QED
    BY <2>2, <2>3
<1> QED
  BY <1>5, <1>6, NextMoves

(* The lock-free table implements the counters of WordCount: no occurrence *)
(* is lost or invented by any interleaving, and nothing is ever taken out. *)
THEOREM TableImplementsCount == Safety => ImplementsCount
<1> QED
  BY RefinesInit, RefinesNext, TableInvariant, PTL DEF Safety, ImplementsCount, Count!Spec

Kept == \A s \in Slot : table[s] # NULL =>
          /\ table'[s] = table[s]
          /\ heap'[table[s]].word = heap[table[s]].word
          /\ heap'[table[s]].own

LEMMA StepKeeps == ASSUME IInv, [Next]_vars PROVE Kept
<1>1. Types /\ \A s \in Slot : Published(s)
  BY DEF IInv
<1>2. Quiet => Kept
  BY <1>1 DEF Quiet, Kept, Published
<1>3. ASSUME NEW t \in Threads, AddCount(t) \/ SetBits(t) PROVE Kept
  <2>1. Changes(index[t])
    BY <1>3, UpdateChanges
  <2> QED
    BY <1>1, <2>1 DEF Changes, Kept, Published
<1>4. ASSUME NEW t \in Threads, Exchange(t), table[index[t]] = NULL PROVE Kept
  <2>1. heap' = heap /\ table' = [table EXCEPT ![index[t]] = <<t, mem[t]>>]
    BY <1>4 DEF Exchange
  <2> QED
    BY <1>1, <1>4, <2>1 DEF Kept, Published, Types
<1>5. CASE UNCHANGED seen
  BY <1>2, <1>5 DEF seen, Quiet
<1>6. CASE \E t \in Threads : AnyStep(t)
  <2>1. PICK t \in Threads : Moves(t) \/ \E w \in Words, f \in Files : Call(t, w, f)
    BY <1>6 DEF AnyStep
  <2>2. CASE AddCount(t) \/ SetBits(t) \/ (Exchange(t) /\ table[index[t]] = NULL)
    BY <1>3, <1>4, <2>2
  <2>3. CASE ~(AddCount(t) \/ SetBits(t) \/ (Exchange(t) /\ table[index[t]] = NULL))
    BY <1>2, <2>1, <2>3, QuietStep DEF Moves
  <2> QED
    BY <2>2, <2>3
<1> QED
  BY <1>5, <1>6, NextMoves

(* A used slot keeps its entry and the entry its word, with a string that  *)
(* is not in a buffer that is read into again.                             *)
THEOREM EntriesAreKept == Safety => EntriesKept
<1>1. IInv /\ [Next]_vars => [Kept]_vars
  BY StepKeeps
<1> QED
  BY <1>1, TableInvariant, PTL DEF Safety, EntriesKept, Kept

----------------------------------------------------------------------------
(* Totals: what a step of one call does to the sets of calls on their way. *)

\* The labels of a call whose occurrence is not counted, not marked yet.
Counting == {"probe", "reread", "cas", "count"}
Marking == Counting \union {"bits"}

(* The other calls stay where they are, with the word they were given: no  *)
(* step writes a struct that another thread has not published.             *)
LEMMA OthersStay ==
  ASSUME IInv, NEW t \in Threads, AnyStep(t), NEW u \in Threads, u # t
  PROVE  /\ pc'[u] = pc[u] /\ index'[u] = index[u] /\ mem'[u] = mem[u]
         /\ pc[u] \in Marking => /\ word(u)'.word = word(u).word
                                 /\ word(u)'.files = word(u).files
<1>1. Types /\ CallInv(u) /\ mem[u] \in Nat
  BY DEF IInv, Types
<1>2. pc'[u] = pc[u] /\ index'[u] = index[u] /\ mem'[u] = mem[u]
  BY <1>1 DEF AnyStep, Moves, Skip, Found, Free, Reread, Exchange, TakeIndex, Store, AddCount,
              SetBits, Call, Goto, Return, Types
<1>3. CASE pc[u] \in Marking
  <2>0. <<u, mem[u]>> \in Pointers /\ heap[<<u, mem[u]>>] \in Entry
    BY <1>1, <1>3 DEF CallInv, Marking, Counting, word
  <2>1. CASE AddCount(t) \/ SetBits(t)
    <3>1. table[index[t]] # <<u, mem[u]>> /\ <<t, mem[t]>> # <<u, mem[u]>>
      <4>1. index[t] \in Slot /\ table[index[t]] # NULL
        BY <2>1, AtEntry DEF AddCount, SetBits
      <4>2. pc[u] \notin {"indices", "store"}
        BY <1>3 DEF Marking, Counting
      <4>. QED  BY <4>1, <4>2, Unpublished
    <3>. QED  BY <1>1, <1>2, <2>0, <2>1, <3>1 DEF AddCount, SetBits, word, Types
  <2>2. CASE Free(t) \/ \E w \in Words, f \in Files : Call(t, w, f)
    BY <1>1, <1>2, <2>0, <2>2 DEF Free, Call, word, Types
  <2>3. CASE Skip(t) \/ Found(t) \/ Reread(t) \/ Exchange(t) \/ TakeIndex(t) \/ Store(t)
    <3>1. heap' = heap
      BY <2>3 DEF Skip, Found, Reread, Exchange, TakeIndex, Store
    <3>. QED  BY <1>2, <3>1 DEF word
  <2>. QED  BY <1>2, <2>1, <2>2, <2>3 DEF AnyStep, Moves
<1>. QED  BY <1>2, <1>3

LEMMA UncountedFinite ==
  ASSUME NEW w PROVE IsFiniteSet(Uncounted(w)) /\ Cardinality(Uncounted(w)) \in Nat
BY TableAssumption, FS_Subset, FS_CardinalityType DEF Uncounted

LEMMA CountType == ASSUME IInv, NEW w \in Words PROVE CountOf(w) \in Nat
<1>1. ASSUME NEW s \in Slot, Holds(s, w) PROVE heap[table[s]].count \in Nat
  BY <1>1 DEF IInv, Published, Holds, Entry
<1>2. CASE \E s \in Slot : Holds(s, w)
  BY <1>1, <1>2, CountIs DEF IInv
<1>. QED  BY <1>2 DEF CountOf

(* Only the calling thread can enter or leave the sets of its word.        *)
LEMMA UncountedElse ==
  ASSUME IInv, NEW t \in Threads, AnyStep(t), NEW w
  PROVE  /\ Uncounted(w)' \ {t} = Uncounted(w) \ {t}
         /\ Unmarked(w)' \ {t} = Unmarked(w) \ {t}
         /\ \A u \in Unmarked(w) \ {t} : word(u)'.files = word(u).files
BY OthersStay DEF Uncounted, Unmarked, Marking, Counting

\* The files that the calls for a word still have to mark.
Pending(w) == UNION {word(u).files : u \in Unmarked(w)}

LEMMA PendingMoves ==
  ASSUME IInv, NEW t \in Threads, AnyStep(t), NEW w
  PROVE  /\ t \in Unmarked(w) /\ t \in Unmarked(w)' /\ word(t)'.files = word(t).files
              => Pending(w)' = Pending(w)
         /\ t \notin Unmarked(w) /\ t \notin Unmarked(w)' => Pending(w)' = Pending(w)
         /\ t \notin Unmarked(w) /\ t \in Unmarked(w)'
              => Pending(w)' = Pending(w) \union word(t)'.files
         /\ t \in Unmarked(w) /\ t \notin Unmarked(w)'
              => Pending(w) = Pending(w)' \union word(t).files
<1>. DEFINE others == UNION {word(u).files : u \in Unmarked(w) \ {t}}
<1>1. others' = others
  BY UncountedElse
<1>2. Pending(w) = others \union (IF t \in Unmarked(w) THEN word(t).files ELSE {})
  BY DEF Pending
<1>3. Pending(w)' = others' \union (IF t \in Unmarked(w)' THEN word(t)'.files ELSE {})
  BY DEF Pending
<1>. HIDE DEF others
<1>. QED  BY <1>1, <1>2, <1>3

(* TotalsExact with the types of the histories.                            *)
TotalsInv == /\ calls \in [Words -> Nat] /\ callFiles \in [Words -> SUBSET Files]
             /\ \A w \in Words :
                  /\ calls[w] = CountOf(w) + Cardinality(Uncounted(w))
                  /\ callFiles[w] = FilesOf(w) \union Pending(w)

LEMMA TotalsInit == Init => TotalsInv
<1>. SUFFICES ASSUME Init PROVE TotalsInv
  OBVIOUS
<1>1. \A w \in Words : Uncounted(w) = {} /\ Unmarked(w) = {}
  BY DEF Init, Uncounted, Unmarked
<1>2. \A w \in Words : CountOf(w) = 0 /\ FilesOf(w) = {}
  BY CountNone DEF Init, Holds
<1>3. Cardinality({}) = 0
  BY FS_EmptySet
<1>4. \A w \in Words : Pending(w) = {}
  BY <1>1 DEF Pending
<1>5. /\ calls \in [Words -> Nat] /\ callFiles \in [Words -> SUBSET Files]
      /\ \A w \in Words : calls[w] = 0 /\ callFiles[w] = {}
  BY DEF Init
<1>. QED  BY <1>1, <1>2, <1>3, <1>4, <1>5 DEF TotalsInv

(* A step that counts, marks and starts nothing.                           *)
LEMMA TotalsKept ==
  ASSUME IInv, IInv', TotalsInv, NEW t \in Threads, AnyStep(t), Quiet, UNCHANGED history,
         \A w : t \in Uncounted(w)' <=> t \in Uncounted(w),
         \A w : t \in Unmarked(w)' <=> t \in Unmarked(w),
         \A w : t \in Unmarked(w) => word(t)'.files = word(t).files
  PROVE  TotalsInv'
<1>1. \A w \in Words : Same(w)
  BY QuietSame
<1>2. \A w \in Words : Uncounted(w)' = Uncounted(w)
  BY UncountedElse
<1>3. \A w \in Words : Pending(w)' = Pending(w)
  BY PendingMoves
<1>. QED  BY <1>1, <1>2, <1>3 DEF TotalsInv, Same, history

(* parse_buf makes a call: the occurrence and the file are owed.           *)
LEMMA TotalsCall ==
  ASSUME IInv, IInv', TotalsInv, NEW t \in Threads, NEW v \in Words, NEW f \in Files,
         Call(t, v, f)
  PROVE  TotalsInv'
<1>1. AnyStep(t) /\ Quiet
  BY QuietStep DEF AnyStep
<1>2. \A w \in Words : Same(w)
  BY <1>1, QuietSame
<1>3. /\ pc[t] = "idle" /\ pc'[t] = "probe" /\ mem' = mem
      /\ word(t)'.word = v /\ word(t)'.files = {f}
      /\ calls' = [calls EXCEPT ![v] = @ + 1]
      /\ callFiles' = [callFiles EXCEPT ![v] = @ \union {f}]
  <2>1. <<t, mem[t]>> \in Pointers
    BY DEF Call, Pointers, IInv, Types
  <2>. QED  BY <2>1 DEF Call, Goto, IInv, Types, word
<1>4. \A w \in Words : t \notin Uncounted(w) /\ t \notin Unmarked(w)
  BY <1>3 DEF Uncounted, Unmarked
<1>5. /\ t \in Uncounted(v)' /\ t \in Unmarked(v)'
      /\ \A w \in Words : w # v => t \notin Uncounted(w)' /\ t \notin Unmarked(w)'
  BY <1>3 DEF Uncounted, Unmarked
<1>6. /\ Uncounted(v)' = Uncounted(v) \union {t}
      /\ \A w \in Words : w # v => Uncounted(w)' = Uncounted(w)
  BY <1>1, <1>4, <1>5, UncountedElse
<1>7. Cardinality(Uncounted(v)') = Cardinality(Uncounted(v)) + 1
  BY <1>4, <1>6, UncountedFinite, FS_AddElement
<1>8. /\ Pending(v)' = Pending(v) \union {f}
      /\ \A w \in Words : w # v => Pending(w)' = Pending(w)
  BY <1>1, <1>3, <1>4, <1>5, PendingMoves
<1>9. /\ calls'[v] = calls[v] + 1 /\ callFiles'[v] = callFiles[v] \union {f}
      /\ \A w \in Words : w # v => calls'[w] = calls[w] /\ callFiles'[w] = callFiles[w]
      /\ calls' \in [Words -> Nat] /\ callFiles' \in [Words -> SUBSET Files]
  BY <1>3 DEF TotalsInv
<1>10. CountOf(v) \in Nat /\ Cardinality(Uncounted(v)) \in Nat
  BY CountType, UncountedFinite
<1>11. CountOf(v)' + Cardinality(Uncounted(v)') = CountOf(v) + Cardinality(Uncounted(v)) + 1
  BY <1>2, <1>7, <1>10 DEF Same
<1>12. FilesOf(v)' \union Pending(v)' = (FilesOf(v) \union Pending(v)) \union {f}
  BY <1>2, <1>8 DEF Same
<1>13. ASSUME NEW w \in Words
       PROVE  /\ calls'[w] = CountOf(w)' + Cardinality(Uncounted(w)')
              /\ callFiles'[w] = FilesOf(w)' \union Pending(w)'
  <2>1. CASE w = v
    BY <1>9, <1>11, <1>12, <2>1 DEF TotalsInv
  <2>2. CASE w # v
    BY <1>2, <1>6, <1>8, <1>9, <2>2 DEF TotalsInv, Same
  <2>. QED  BY <2>1, <2>2
<1>. QED  BY <1>9, <1>13 DEF TotalsInv

(* The exchange that takes a slot counts and marks the call at once.       *)
LEMMA TotalsEnter ==
  ASSUME IInv, IInv', TotalsInv, NEW t \in Threads, Exchange(t), table[index[t]] = NULL
  PROVE  TotalsInv'
<1>1. AnyStep(t) /\ UNCHANGED <<calls, callFiles>>
  BY DEF AnyStep, Moves, Exchange, history
<1>2. pc[t] = "cas" /\ pc'[t] = "indices"
  BY DEF IInv, Exchange, Goto, Types
<1>3. PICK v \in Words, f \in Files :
        /\ v = word(t).word /\ word(t).files = {f}
        /\ CountOf(v) = 0 /\ CountOf(v)' = 1 /\ FilesOf(v) = {} /\ FilesOf(v)' = {f}
        /\ \A w \in Words : w # v => Same(w)
  BY EnterCounts
<1>10. /\ t \in Uncounted(v) /\ t \in Unmarked(v)
       /\ \A w : t \notin Uncounted(w)' /\ t \notin Unmarked(w)'
       /\ \A w \in Words : w # v => t \notin Uncounted(w) /\ t \notin Unmarked(w)
  BY <1>2, <1>3 DEF Uncounted, Unmarked
<1>11. /\ Uncounted(v)' = Uncounted(v) \ {t}
       /\ \A w \in Words : w # v => Uncounted(w)' = Uncounted(w)
  <2>1. \A w : Uncounted(w)' \ {t} = Uncounted(w) \ {t}
    BY <1>1, UncountedElse
  <2>2. Uncounted(v)' = Uncounted(v) \ {t}
    BY <1>10, <2>1
  <2>3. ASSUME NEW w \in Words, w # v PROVE Uncounted(w)' = Uncounted(w)
    <3>1. t \notin Uncounted(w) /\ t \notin Uncounted(w)'
      BY <1>10, <2>3
    <3>. QED  BY <2>1, <3>1
  <2>. QED  BY <2>2, <2>3
<1>12. Cardinality(Uncounted(v)') = Cardinality(Uncounted(v)) - 1
  BY <1>10, <1>11, UncountedFinite, FS_RemoveElement
<1>13. /\ Pending(v) = Pending(v)' \union word(t).files
       /\ \A w \in Words : w # v => Pending(w)' = Pending(w)
  BY <1>1, <1>10, PendingMoves
<1>14. ASSUME NEW w \in Words
       PROVE  /\ calls[w] = CountOf(w)' + Cardinality(Uncounted(w)')
              /\ callFiles[w] = FilesOf(w)' \union Pending(w)'
  <2>1. CASE w = v
    <3>1. calls[v] = CountOf(v)' + Cardinality(Uncounted(v)')
      BY <1>3, <1>12, UncountedFinite DEF TotalsInv
    <3>2. callFiles[v] = FilesOf(v)' \union Pending(v)'
      BY <1>3, <1>13 DEF TotalsInv
    <3>. QED  BY <2>1, <3>1, <3>2
  <2>2. CASE w # v
    BY <1>3, <1>11, <1>13, <2>2 DEF TotalsInv, Same
  <2>. QED  BY <2>1, <2>2
<1>. QED  BY <1>1, <1>14 DEF TotalsInv

(* The two updates of an entry: one counts, the other marks.               *)
LEMMA TotalsUpdate ==
  ASSUME IInv, IInv', TotalsInv, NEW t \in Threads, AddCount(t) \/ SetBits(t)
  PROVE  TotalsInv'
<1>1. AnyStep(t) /\ UNCHANGED <<calls, callFiles>>
  BY DEF AnyStep, Moves, AddCount, SetBits, history
<1>2. PICK v \in Words : v = word(t).word
  BY UpdateChanges
<1>3. /\ \A w \in Words : w # v => Same(w)
      /\ AddCount(t) => CountOf(v)' = CountOf(v) + 1 /\ FilesOf(v)' = FilesOf(v)
      /\ SetBits(t) => /\ CountOf(v)' = CountOf(v)
                       /\ FilesOf(v)' = FilesOf(v) \union word(t).files
  BY <1>2, UpdateCounts
<1>4. Types /\ CountOf(v) \in Nat /\ Cardinality(Uncounted(v)) \in Nat
  BY CountType, UncountedFinite DEF IInv
<1>5. CASE AddCount(t)
  <2>1. pc[t] = "count" /\ pc'[t] = "bits" /\ mem' = mem
    BY <1>4, <1>5 DEF AddCount, Goto, Types
  <2>2. word(t)' = word(t)
    <3>1. table[index[t]] # <<t, mem[t]>> /\ <<t, mem[t]>> \in Pointers
      BY <2>1, AtEntry
    <3>. QED  BY <1>4, <1>5, <2>1, <3>1 DEF AddCount, word, Types
  <2>3. /\ t \in Uncounted(v) /\ t \in Unmarked(v) /\ t \in Unmarked(v)'
        /\ \A w : t \notin Uncounted(w)'
        /\ \A w \in Words : w # v => /\ t \notin Uncounted(w) /\ t \notin Unmarked(w)
                                    /\ t \notin Unmarked(w)'
    BY <1>2, <2>1, <2>2 DEF Uncounted, Unmarked
  <2>4. /\ Uncounted(v)' = Uncounted(v) \ {t}
        /\ \A w \in Words : w # v => Uncounted(w)' = Uncounted(w)
    BY <1>1, <2>3, UncountedElse
  <2>5. Cardinality(Uncounted(v)') = Cardinality(Uncounted(v)) - 1
    BY <2>3, <2>4, UncountedFinite, FS_RemoveElement
  <2>6. \A w \in Words : Pending(w)' = Pending(w)
    BY <1>1, <2>2, <2>3, PendingMoves
  <2>7. calls[v] = CountOf(v)' + Cardinality(Uncounted(v)')
    BY <1>3, <1>4, <1>5, <2>5 DEF TotalsInv
  <2>. QED  BY <1>1, <1>3, <1>5, <2>4, <2>6, <2>7 DEF TotalsInv, Same
<1>6. CASE SetBits(t)
  <2>1. pc[t] = "bits" /\ pc'[t] = "idle"
    BY <1>4, <1>6 DEF SetBits, Return, Goto, Types
  <2>2. /\ \A w : t \notin Uncounted(w) /\ t \notin Uncounted(w)' /\ t \notin Unmarked(w)'
        /\ t \in Unmarked(v)
        /\ \A w \in Words : w # v => t \notin Unmarked(w)
    BY <1>2, <2>1 DEF Uncounted, Unmarked
  <2>3. \A w \in Words : Uncounted(w)' = Uncounted(w)
    <3>1. \A w : Uncounted(w)' \ {t} = Uncounted(w) \ {t}
      BY <1>1, UncountedElse
    <3>. QED  BY <2>2, <3>1
  <2>4. /\ Pending(v) = Pending(v)' \union word(t).files
        /\ \A w \in Words : w # v => Pending(w)' = Pending(w)
    BY <1>1, <2>2, PendingMoves
  <2>5. callFiles[v] = FilesOf(v)' \union Pending(v)'
    BY <1>3, <1>6, <2>4 DEF TotalsInv
  <2>. QED  BY <1>1, <1>3, <1>6, <2>3, <2>4, <2>5 DEF TotalsInv, Same
<1>. QED  BY <1>5, <1>6

LEMMA TotalsStep == ASSUME IInv, IInv', TotalsInv, [Next]_vars PROVE TotalsInv'
<1>1. ASSUME NEW t \in Threads,
             \/ Skip(t) \/ Found(t) \/ Free(t) \/ Reread(t)
             \/ Exchange(t) /\ table[index[t]] # NULL
      PROVE  TotalsInv'
  <2>1. AnyStep(t) /\ Quiet /\ UNCHANGED history
    BY <1>1, QuietStep
       DEF AnyStep, Moves, Skip, Found, Free, Reread, Exchange
  <2>2. Types /\ CallInv(t)
    BY DEF IInv
  <2>3. pc[t] \in Counting /\ pc'[t] \in Counting
    BY <1>1, <2>2 DEF Skip, Found, Free, Reread, Exchange, Goto, Counting, Types
  <2>4. word(t)'.word = word(t).word /\ word(t)'.files = word(t).files
    <3>1. <<t, mem[t]>> \in Pointers /\ heap[<<t, mem[t]>>] \in Entry
      BY <2>2, <2>3 DEF CallInv, Counting, word
    <3>. QED  BY <1>1, <2>2, <3>1 DEF Skip, Found, Free, Reread, Exchange, word, Types, Entry
  <2>5. /\ \A w : t \in Uncounted(w)' <=> t \in Uncounted(w)
        /\ \A w : t \in Unmarked(w)' <=> t \in Unmarked(w)
    BY <2>3, <2>4 DEF Uncounted, Unmarked, Counting
  <2>. QED  BY <2>1, <2>4, <2>5, TotalsKept
<1>2. ASSUME NEW t \in Threads, TakeIndex(t) \/ Store(t)
      PROVE  TotalsInv'
  <2>1. AnyStep(t) /\ Quiet /\ UNCHANGED history
    BY <1>2, QuietStep DEF AnyStep, Moves, TakeIndex, Store
  <2>2. pc[t] \in {"indices", "store"} /\ pc'[t] \in {"store", "idle"}
    BY <1>2 DEF TakeIndex, Store, Return, Goto, IInv, Types
  <2>3. \A w : /\ t \notin Uncounted(w)' /\ t \notin Uncounted(w)
               /\ t \notin Unmarked(w)' /\ t \notin Unmarked(w)
    BY <2>2 DEF Uncounted, Unmarked
  <2>. QED  BY <2>1, <2>3, TotalsKept
<1>3. CASE UNCHANGED seen
  <2>1. Quiet /\ UNCHANGED history /\ \A w : Uncounted(w)' = Uncounted(w) /\ Pending(w)' = Pending(w)
    BY <1>3 DEF seen, history, Quiet, Uncounted, Pending, Unmarked, word
  <2>2. \A w \in Words : Same(w)
    BY <2>1, QuietSame
  <2>. QED  BY <2>1, <2>2 DEF TotalsInv, Same, history
<1>. QED  BY <1>1, <1>2, <1>3, TotalsCall, TotalsEnter, TotalsUpdate, NextMoves DEF AnyStep, Moves

(* No occurrence of a word is lost or counted twice, and no file of it     *)
(* forgotten, whatever the interleaving of the calls: what is not in the   *)
(* entry of the word is owed by a call that is under way.                  *)
THEOREM TotalsAreExact == Safety => []TotalsExact
<1>1. TotalsInv => TotalsExact
  BY DEF TotalsInv, TotalsExact, Pending
<1>2. IInv /\ IInv' /\ TotalsInv /\ [Next]_vars => TotalsInv'
  BY TotalsStep
<1>. QED  BY <1>1, <1>2, TotalsInit, TableInvariant, PTL DEF Safety

----------------------------------------------------------------------------
(* The list of used slots                                                  *)

\* The calls that have taken a slot and no place in the list yet.
Placing == {t \in Threads : pc[t] = "indices"}
\* The calls whose slot s is not in the list yet.
Listing(s) == {t \in Threads : pc[t] \in {"indices", "store"} /\ index[t] = s}

(* A call that is about to store has a place of its own, which is free if  *)
(* it is inside the array, as are all the places not given out; and the    *)
(* places given out number the used slots whose call has one.              *)
PlaceInv ==
  /\ indices \in [Place -> Slot \union {NULL}] /\ indices_index \in Nat
  /\ old \in [Threads -> Nat]
  /\ \A t \in Threads : pc[t] \in {"indices", "store"} => index[t] \in Slot
  /\ \A t \in Threads : pc[t] = "store" =>
       old[t] < indices_index /\ (old[t] \in Place => indices[old[t]] = NULL)
  /\ \A t, u \in Threads : pc[t] = "store" /\ pc[u] = "store" /\ old[t] = old[u] => t = u
  /\ \A i \in Place : i >= indices_index => indices[i] = NULL
  /\ indices_index + Cardinality(Placing) = Cardinality(Used)

\* The two parts of the property.
ListedRight == \A s \in Slot :
  Cardinality(Listed(s)) + Cardinality(Listing(s)) = IF table[s] = NULL THEN 0 ELSE 1
OverrunLate == overrun => Cardinality(Used) > Slots \div 2

ListInv == PlaceInv /\ ListedRight

LEMMA PlaceIs ==
  /\ IsFiniteSet(Place) /\ Slots \div 2 \in Nat
  /\ \A n \in Nat : n \in Place <=> n < Slots \div 2
<1>1. Slots \div 2 \in Nat
  BY TableAssumption
<1>2. \A n \in Nat : n \in Place <=> n < Slots \div 2
  BY <1>1 DEF Place
<1>3. IsFiniteSet(Place)
  BY <1>1, FS_Interval DEF Place
<1>. QED  BY <1>1, <1>2, <1>3

LEMMA ListFinite ==
  /\ IsFiniteSet(Slot) /\ Cardinality(Slot) = Slots
  /\ IsFiniteSet(Used) /\ Cardinality(Used) \in Nat /\ Cardinality(Used) <= Slots
  /\ IsFiniteSet(Placing) /\ Cardinality(Placing) \in Nat
  /\ \A s : IsFiniteSet(Listed(s)) /\ Cardinality(Listed(s)) \in Nat
  /\ \A s : IsFiniteSet(Listing(s)) /\ Cardinality(Listing(s)) \in Nat
<1>1. IsFiniteSet(Slot) /\ Cardinality(Slot) = Slots
  BY FS_Interval, TableAssumption DEF Slot
<1>2. IsFiniteSet(Used) /\ Cardinality(Used) <= Slots
  BY <1>1, FS_Subset DEF Used
<1>3. IsFiniteSet(Placing)
  BY FS_Subset, TableAssumption DEF Placing
<1>4. \A s : IsFiniteSet(Listed(s))
  BY PlaceIs, FS_Subset DEF Listed
<1>5. \A s : IsFiniteSet(Listing(s))
  BY FS_Subset, TableAssumption DEF Listing
<1>. QED  BY <1>1, <1>2, <1>3, <1>4, <1>5, FS_CardinalityType

LEMMA ListedOnce == ListedRight /\ OverrunLate => IndicesListTable
BY DEF IndicesListTable, ListedRight, OverrunLate, Listing

LEMMA ListInit == Init => ListInv
<1>. SUFFICES ASSUME Init PROVE ListInv
  OBVIOUS
<1>1. Used = {} /\ Placing = {} /\ \A s \in Slot : Listing(s) = {} /\ Listed(s) = {}
  BY TableAssumption DEF Init, Used, Placing, Listing, Listed, Slot
<1>2. PlaceInv
  <2>1. /\ indices \in [Place -> Slot \union {NULL}] /\ indices_index = 0
        /\ old \in [Threads -> Nat]
    BY DEF Init
  <2>2. \A t \in Threads : pc[t] = "idle"
    BY DEF Init
  <2>3. \A i \in Place : indices[i] = NULL
    BY DEF Init
  <2>. QED  BY <1>1, <2>1, <2>2, <2>3, FS_EmptySet DEF PlaceInv
<1>3. \A s \in Slot : table[s] = NULL
  BY DEF Init
<1>4. ListedRight
  BY <1>1, <1>3, FS_EmptySet DEF ListedRight
<1>. QED  BY <1>2, <1>4 DEF ListInv

\* A step that takes no slot and no place, and lists nothing.
LEMMA ListKept ==
  ASSUME ListInv, UNCHANGED <<table, indices, indices_index>>,
         \A u \in Threads :
           \/ /\ pc[u] \notin {"indices", "store"} /\ pc'[u] \notin {"indices", "store"}
           \/ pc'[u] = pc[u] /\ index'[u] = index[u] /\ old'[u] = old[u],
         old' \in [Threads -> Nat]
  PROVE  ListInv'
<1>1. Used' = Used /\ Placing' = Placing
  BY DEF Used, Placing
<1>2. \A s : Listed(s)' = Listed(s) /\ Listing(s)' = Listing(s)
  BY DEF Listed, Listing
<1>3. PlaceInv'
  BY <1>1 DEF ListInv, PlaceInv
<1>4. ListedRight'
  <2>1. \A s \in Slot : Cardinality(Listed(s)) + Cardinality(Listing(s))
                          = IF table[s] = NULL THEN 0 ELSE 1
    BY DEF ListInv, ListedRight
  <2>. QED  BY <1>2, <2>1 DEF ListedRight
<1>. QED  BY <1>3, <1>4 DEF ListInv

LEMMA ListTakesSlot ==
  ASSUME IInv, ListInv, NEW t \in Threads, Exchange(t), table[index[t]] = NULL
  PROVE  ListInv'
<1>. PICK i : i = index[t]
  OBVIOUS
<1>1. /\ pc[t] = "cas" /\ i \in Slot /\ Types
      /\ <<t, mem[t]>> # NULL
  <2>1. CallInv(t) /\ Types /\ pc[t] = "cas"
    BY DEF IInv, Exchange
  <2>. QED  BY <2>1, TableAssumption DEF CallInv, Pointers
<1>2. /\ pc' = [pc EXCEPT ![t] = "indices"] /\ table' = [table EXCEPT ![i] = <<t, mem[t]>>]
      /\ UNCHANGED <<index, indices, indices_index, old>>
  BY DEF Exchange, Goto
<1>3. Used' = Used \union {i} /\ i \notin Used
  BY <1>1, <1>2 DEF Used, Types
<1>4. Placing' = Placing \union {t} /\ t \notin Placing
  BY <1>1, <1>2 DEF Placing, Types
<1>5. /\ Cardinality(Used') = Cardinality(Used) + 1
      /\ Cardinality(Placing') = Cardinality(Placing) + 1
  BY <1>3, <1>4, ListFinite, FS_AddElement
<1>6. PlaceInv'
  BY <1>1, <1>2, <1>5, ListFinite DEF ListInv, PlaceInv, Types
<1>7. /\ \A s : Listed(s)' = Listed(s)
      /\ \A s : s # i => Listing(s)' = Listing(s)
      /\ Listing(i)' = Listing(i) \union {t} /\ t \notin Listing(i)
  BY <1>1, <1>2 DEF Listed, Listing, Types
<1>8. Cardinality(Listing(i)') = Cardinality(Listing(i)) + 1
  BY <1>7, ListFinite, FS_AddElement
<1>9. ASSUME NEW s \in Slot
      PROVE  Cardinality(Listed(s)') + Cardinality(Listing(s)') = IF table'[s] = NULL THEN 0 ELSE 1
  <2>1. Cardinality(Listed(s)) + Cardinality(Listing(s)) = IF table[s] = NULL THEN 0 ELSE 1
    BY DEF ListInv, ListedRight
  <2>2. CASE s = i
    <3>1. table'[s] # NULL /\ table[s] = NULL
      BY <1>1, <1>2, <2>2 DEF Types
    <3>2. Cardinality(Listed(i)') = Cardinality(Listed(i))
          /\ Cardinality(Listing(i)') = Cardinality(Listing(i)) + 1
      BY <1>7, <1>8
    <3>3. Cardinality(Listed(i)) \in Nat /\ Cardinality(Listing(i)) \in Nat
      BY ListFinite
    <3>4. Cardinality(Listed(i)) + Cardinality(Listing(i)) = 0
      BY <2>1, <2>2, <3>1
    <3>5. Cardinality(Listed(i)') + Cardinality(Listing(i)') = 1
      BY <3>2, <3>3, <3>4
    <3>. QED  BY <2>2, <3>1, <3>5
  <2>3. CASE s # i
    <3>1. table'[s] = table[s]
      BY <1>1, <1>2, <2>3 DEF Types
    <3>. QED  BY <1>7, <2>1, <2>3, <3>1
  <2>. QED  BY <2>2, <2>3
<1>10. ListedRight'
  BY <1>9 DEF ListedRight
<1>. QED  BY <1>6, <1>10 DEF ListInv

LEMMA ListTakesPlace ==
  ASSUME IInv, ListInv, NEW t \in Threads, TakeIndex(t)
  PROVE  ListInv'
<1>1. /\ pc[t] = "indices" /\ Types /\ PlaceInv
      /\ pc' = [pc EXCEPT ![t] = "store"] /\ old' = [old EXCEPT ![t] = indices_index]
      /\ indices_index' = indices_index + 1
      /\ UNCHANGED <<table, index, indices>>
  BY DEF IInv, ListInv, TakeIndex, Goto
<1>2. Placing' = Placing \ {t} /\ t \in Placing /\ Used' = Used
  BY <1>1 DEF Placing, Used, Types
<1>3. Cardinality(Placing') = Cardinality(Placing) - 1
  BY <1>2, ListFinite, FS_RemoveElement
<1>6. indices_index \in Place => indices[indices_index] = NULL
  BY <1>1 DEF PlaceInv
<1>7. indices_index' + Cardinality(Placing') = Cardinality(Used')
  BY <1>1, <1>2, <1>3, ListFinite DEF PlaceInv
<1>8. /\ indices' \in [Place -> Slot \union {NULL}] /\ indices_index' \in Nat
      /\ old' \in [Threads -> Nat]
      /\ \A u \in Threads : pc'[u] \in {"indices", "store"} => index'[u] \in Slot
      /\ \A i \in Place : i >= indices_index' => indices'[i] = NULL
  BY <1>1, PlaceIs DEF PlaceInv, Types, Place
<1>9. \A u \in Threads : pc'[u] = "store" =>
        old'[u] < indices_index' /\ (old'[u] \in Place => indices'[old'[u]] = NULL)
  BY <1>1, <1>6 DEF PlaceInv, Types
<1>10. \A u, v \in Threads : pc'[u] = "store" /\ pc'[v] = "store" /\ old'[u] = old'[v] => u = v
  BY <1>1 DEF PlaceInv, Types
<1>11. PlaceInv'
  BY <1>7, <1>8, <1>9, <1>10 DEF PlaceInv
<1>12. \A s : Listed(s)' = Listed(s) /\ Listing(s)' = Listing(s)
  BY <1>1 DEF Listed, Listing, Types
<1>13. ListedRight'
  <2>1. \A s \in Slot : Cardinality(Listed(s)) + Cardinality(Listing(s))
                          = IF table[s] = NULL THEN 0 ELSE 1
    BY DEF ListInv, ListedRight
  <2>. QED  BY <1>1, <1>12, <2>1 DEF ListedRight
<1>. QED  BY <1>11, <1>13 DEF ListInv

LEMMA ListStores ==
  ASSUME IInv, ListInv, NEW t \in Threads, Store(t)
  PROVE  ListInv'
<1>. PICK i, place : i = index[t] /\ place = old[t]
  OBVIOUS
<1>1. /\ pc[t] = "store" /\ Types /\ PlaceInv
      /\ pc' = [pc EXCEPT ![t] = "idle"] /\ index' = [index EXCEPT ![t] = 0]
      /\ old' = [old EXCEPT ![t] = 0] /\ indices' = [indices EXCEPT ![place] = i]
      /\ UNCHANGED <<table, indices_index>>
  BY DEF IInv, ListInv, Store, Return, Goto
<1>2. i \in Slot /\ place \in Place /\ place < indices_index /\ indices[place] = NULL
  BY <1>1 DEF PlaceInv, Store
<1>3. Used' = Used /\ Placing' = Placing
  BY <1>1 DEF Used, Placing, Types
<1>4. \A u \in Threads \ {t} : pc'[u] = pc[u] /\ old'[u] = old[u] /\ index'[u] = index[u]
  BY <1>1 DEF Types, PlaceInv
<1>5. pc'[t] = "idle"
  BY <1>1 DEF Types
<1>6. /\ indices'[place] = i /\ \A p \in Place \ {place} : indices'[p] = indices[p]
      /\ indices' \in [Place -> Slot \union {NULL}]
  BY <1>1, <1>2 DEF PlaceInv
<1>7. /\ indices_index' \in Nat /\ old' \in [Threads -> Nat]
      /\ \A u \in Threads : pc'[u] \in {"indices", "store"} => index'[u] \in Slot
      /\ \A p \in Place : p >= indices_index' => indices'[p] = NULL
  <2>1. \A p \in Place : p >= indices_index' => indices'[p] = NULL
    BY <1>1, <1>2, <1>6, PlaceIs DEF PlaceInv, Place
  <2>. QED  BY <1>1, <1>4, <1>5, <2>1 DEF PlaceInv
<1>8. ASSUME NEW u \in Threads, pc'[u] = "store"
      PROVE  old'[u] < indices_index' /\ (old'[u] \in Place => indices'[old'[u]] = NULL)
  <2>1. u # t /\ pc[u] = "store" /\ old'[u] = old[u]
    BY <1>4, <1>5, <1>8
  <2>2. old[u] # place /\ (old[u] \in Place => indices[old[u]] = NULL)
    BY <1>1, <2>1 DEF PlaceInv
  <2>. QED  BY <1>1, <1>6, <2>1, <2>2 DEF PlaceInv
<1>9. \A u, v \in Threads : pc'[u] = "store" /\ pc'[v] = "store" /\ old'[u] = old'[v] => u = v
  BY <1>1, <1>4, <1>5 DEF PlaceInv
<1>10. PlaceInv'
  BY <1>1, <1>3, <1>6, <1>7, <1>8, <1>9 DEF PlaceInv
<1>11. /\ Listed(i)' = Listed(i) \union {place} /\ place \notin Listed(i)
       /\ \A s \in Slot : s # i => Listed(s)' = Listed(s)
  <2>1. NULL \notin Slot
    BY TableAssumption DEF Slot
  <2>. QED  BY <1>2, <1>6, <2>1 DEF Listed
<1>12. /\ Listing(i)' = Listing(i) \ {t} /\ t \in Listing(i)
       /\ \A s \in Slot : s # i => Listing(s)' = Listing(s)
  BY <1>1, <1>4, <1>5 DEF Listing
<1>13. /\ Cardinality(Listed(i)') = Cardinality(Listed(i)) + 1
       /\ Cardinality(Listing(i)') = Cardinality(Listing(i)) - 1
  <2>1. /\ IsFiniteSet(Listed(i)) /\ Cardinality(Listed(i)) \in Nat
        /\ IsFiniteSet(Listing(i)) /\ Cardinality(Listing(i)) \in Nat
    BY ListFinite
  <2>2. Cardinality(Listed(i)') = Cardinality(Listed(i)) + 1
    BY <1>11, <2>1, FS_AddElement
  <2>3. Cardinality(Listing(i)') = Cardinality(Listing(i)) - 1
    BY <1>12, <2>1, FS_RemoveElement
  <2>. QED  BY <2>2, <2>3
<1>14. ASSUME NEW s \in Slot
       PROVE  Cardinality(Listed(s)') + Cardinality(Listing(s)') = IF table[s] = NULL THEN 0 ELSE 1
  <2>1. Cardinality(Listed(s)) + Cardinality(Listing(s)) = IF table[s] = NULL THEN 0 ELSE 1
    BY DEF ListInv, ListedRight
  <2>2. Cardinality(Listed(s)') + Cardinality(Listing(s)') = Cardinality(Listed(s)) + Cardinality(Listing(s))
    <3>1. CASE s = i
      <4>1. Cardinality(Listed(i)) \in Nat /\ Cardinality(Listing(i)) \in Nat
        BY ListFinite
      <4>2. Cardinality(Listed(i)') + Cardinality(Listing(i)') = Cardinality(Listed(i)) + Cardinality(Listing(i))
        BY <1>13, <4>1
      <4>. QED  BY <3>1, <4>2
    <3>2. CASE s # i
      BY <1>11, <1>12, <3>2
    <3>. QED  BY <3>1, <3>2
  <2>. QED  BY <2>1, <2>2
<1>15. ListedRight'
  BY <1>1, <1>14 DEF ListedRight
<1>. QED  BY <1>10, <1>15 DEF ListInv

LEMMA ListStep == IInv /\ ListInv /\ [Next]_vars => ListInv'
<1>. SUFFICES ASSUME IInv, ListInv, [Next]_vars PROVE ListInv'
  OBVIOUS
<1>0. Types /\ PlaceInv
  BY DEF IInv, ListInv
<1>1. ASSUME NEW t \in Threads,
             \/ Skip(t) \/ Found(t) \/ Free(t) \/ Reread(t)
             \/ Exchange(t) /\ table[index[t]] # NULL
             \/ AddCount(t) \/ SetBits(t)
             \/ \E w \in Words, f \in Files : Call(t, w, f)
      PROVE  ListInv'
  <2>1. UNCHANGED <<table, indices, indices_index>>
    BY <1>1 DEF Skip, Found, Free, Reread, Exchange, AddCount, SetBits, Call, published
  <2>2. pc[t] \notin {"indices", "store"}
    BY <1>1 DEF Skip, Found, Free, Reread, Exchange, AddCount, SetBits, Call
  <2>3. old' = old \/ old' = [old EXCEPT ![t] = 0]
    BY <1>1 DEF Skip, Found, Free, Reread, Exchange, AddCount, SetBits, Call, Return, published
  <2>4. index' = index \/ \E n : index' = [index EXCEPT ![t] = n]
    BY <1>1 DEF Skip, Found, Free, Reread, Exchange, AddCount, SetBits, Call, Return, published
  <2>5. pc'[t] \notin {"indices", "store"} /\ \A u \in Threads \ {t} : pc'[u] = pc[u]
    <3>1. ASSUME Skip(t) \/ Found(t) \/ Free(t) PROVE pc'[t] \notin {"indices", "store"} /\ \A u \in Threads \ {t} : pc'[u] = pc[u]
      BY <1>0, <3>1 DEF Skip, Found, Free, Goto, Types
    <3>2. ASSUME Reread(t) PROVE pc'[t] \notin {"indices", "store"} /\ \A u \in Threads \ {t} : pc'[u] = pc[u]
      BY <1>0, <3>2 DEF Reread, Goto, Types
    <3>3. ASSUME Exchange(t), table[index[t]] # NULL PROVE pc'[t] \notin {"indices", "store"} /\ \A u \in Threads \ {t} : pc'[u] = pc[u]
      BY <1>0, <3>3 DEF Exchange, Goto, Types
    <3>4. ASSUME AddCount(t) \/ SetBits(t) PROVE pc'[t] \notin {"indices", "store"} /\ \A u \in Threads \ {t} : pc'[u] = pc[u]
      BY <1>0, <3>4 DEF AddCount, SetBits, Return, Goto, Types
    <3>5. ASSUME NEW w \in Words, NEW f \in Files, Call(t, w, f) PROVE pc'[t] \notin {"indices", "store"} /\ \A u \in Threads \ {t} : pc'[u] = pc[u]
      BY <1>0, <3>5 DEF Call, Goto, Types
    <3>. QED  BY <1>1, <3>1, <3>2, <3>3, <3>4, <3>5
  <2>8. \A u \in Threads \ {t} : old'[u] = old[u] /\ index'[u] = index[u]
    BY <1>0, <2>3, <2>4 DEF Types, PlaceInv
  <2>9. old' \in [Threads -> Nat]
    BY <1>0, <2>3 DEF PlaceInv
  <2>. QED  BY <2>1, <2>2, <2>5, <2>8, <2>9, ListKept
<1>2. CASE UNCHANGED seen
  <2>1. UNCHANGED <<table, indices, indices_index, pc, index, old>>
    BY <1>2 DEF seen
  <2>. QED  BY <1>0, <2>1, ListKept DEF PlaceInv
<1>. QED  BY <1>1, <1>2, ListTakesSlot, ListTakesPlace, ListStores, NextMoves DEF AnyStep, Moves

(* Only a call with an index outside the array writes behind it: by then   *)
(* that many places are given out, each for a used slot; and no slot is    *)
(* freed.                                                                  *)
LEMMA OverrunStep == IInv /\ ListInv /\ OverrunLate /\ [Next]_vars => OverrunLate'
<1>. SUFFICES ASSUME IInv, ListInv, OverrunLate, [Next]_vars PROVE OverrunLate'
  OBVIOUS
<1>1. CASE ~overrun'
  BY <1>1 DEF OverrunLate
<1>2. CASE UNCHANGED seen /\ overrun' = overrun
  BY <1>2 DEF OverrunLate, Used, seen
<1>3. ASSUME NEW t \in Threads, Overrun(t), UNCHANGED seen PROVE OverrunLate'
  <2>1. /\ pc[t] = "store" /\ old[t] \notin Place /\ old[t] \in Nat /\ old[t] < indices_index
        /\ indices_index \in Nat /\ indices_index + Cardinality(Placing) = Cardinality(Used)
    BY <1>3 DEF Overrun, ListInv, PlaceInv
  <2>2. Used' = Used
    BY <1>3 DEF Used, seen
  <2>. QED  BY <2>1, <2>2, PlaceIs, ListFinite DEF OverrunLate
<1>. QED  BY <1>1, <1>2, <1>3, NextMoves

(* sort_words walks hash_table_indices: every used slot is in it exactly   *)
(* once, except while the call that took the slot is still to write it,    *)
(* and no call writes behind its end while at most half of the slots, as   *)
(* many as it has places, are used (prog5.c:77, prog5.h:226-231).          *)
THEOREM EverySlotListedOnce == Safety => []IndicesListTable
<1>1. ListInv /\ OverrunLate => IndicesListTable
  BY ListedOnce DEF ListInv
<1>2. Init => OverrunLate
  BY DEF Init, OverrunLate
<1>. QED  BY <1>1, <1>2, OverrunStep, ListInit, ListStep, TableInvariant, PTL DEF Safety
=============================================================================
