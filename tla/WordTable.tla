------------------------------ MODULE WordTable ------------------------------
(***************************************************************************)
(* atomic_hash_table_update of cs520/prog5.c: the table in which all       *)
(* threads count words at once, without a lock.  Open addressing with      *)
(* linear probing; a free slot is taken by a compare and exchange, and an  *)
(* entry, once in, only has its count and file bits changed.  Each step is *)
(* one access to memory that other threads write.                          *)
(***************************************************************************)
EXTENDS Integers, FiniteSets

CONSTANTS Threads,    \* the workers and the main thread, which adds border words
          Words, Files,
          Slots,      \* global_hash_table_size: 2^20
          Hash,       \* fnv_hash(w) % global_hash_table_size
          MemSize,    \* entries in the memory of a thread
          MaxCalls,   \* MaxCalls[w]: bound on the calls for a word
          NULL

\* NULL is no index: it also stands for an entry of hash_table_indices that has
\* not been written, which sort_words does not read.
ASSUME TableAssumption ==
  /\ IsFiniteSet(Threads)
  /\ Slots \in Nat \ {0} /\ MemSize \in Nat /\ MaxCalls \in [Words -> Nat]
  /\ Hash \in [Words -> 0 .. Slots - 1]
  /\ NULL \notin (Threads \X Nat) \union Nat

Slot == 0 .. Slots - 1
Place == 0 .. Slots \div 2 - 1   \* hash_table_indices has half as many places
Pointers == Threads \X (0 .. MemSize - 1)

VARIABLES table,      \* global_hash_table
          heap,       \* the english_word structs: [word, own, count, files]
          mem,        \* mem of parse_buf: the next struct of each thread
          pc, index,  \* where each call is
          indices,    \* hash_table_indices
          indices_index,
          overrun,    \* a call wrote behind the end of hash_table_indices
          old,        \* old_indices_index of each call
          calls,      \* history: calls made for each word
          callFiles   \* history: the files they were made for

published == <<table, indices, indices_index, overrun, old>>
history == <<calls, callFiles>>
vars == <<published, heap, mem, pc, index, history>>

\* The argument of the call of thread t.  own: str points to memory of its
\* own (mem # NULL) and not into the buffer being parsed.
word(t) == heap[<<t, mem[t]>>]

Holds(s, w) == table[s] # NULL /\ heap[table[s]].word = w

Init == /\ table = [s \in Slot |-> NULL]
        /\ heap = [p \in Pointers |-> NULL]
        /\ mem = [t \in Threads |-> 0]
        /\ pc = [t \in Threads |-> "idle"]
        /\ index = [t \in Threads |-> 0]
        /\ indices = [i \in Place |-> NULL]
        /\ indices_index = 0 /\ overrun = FALSE
        /\ old = [t \in Threads |-> 0]
        /\ calls = [w \in Words |-> 0]
        /\ callFiles = [w \in Words |-> {}]

Goto(t, label) == pc' = [pc EXCEPT ![t] = label]
Return(t) == /\ Goto(t, "idle")   \* the locals are dead
             /\ index' = [index EXCEPT ![t] = 0] /\ old' = [old EXCEPT ![t] = 0]

----------------------------------------------------------------------------
(* The call: parse_buf, or setup_block for a word on the border of blocks, *)
(* fills in its next struct and passes it.                                 *)
Call(t, w, f) ==
  /\ ~overrun /\ pc[t] = "idle"
  /\ mem[t] < MemSize /\ calls[w] < MaxCalls[w]
  /\ heap' = [heap EXCEPT ![<<t, mem[t]>>] =
                [word |-> w, own |-> FALSE, count |-> 1, files |-> {f}]]
  /\ index' = [index EXCEPT ![t] = Hash[w]]
  /\ calls' = [calls EXCEPT ![w] = @ + 1]
  /\ callFiles' = [callFiles EXCEPT ![w] = @ \union {f}]
  /\ Goto(t, "probe")
  /\ UNCHANGED <<published, mem>>

\* while(global_hash_table[index]): step over the entries of other words ...
SkipTwo(t) ==   \* a mutant: the index is moved by the test and by the body
  /\ pc[t] = "probe" /\ index[t] \in Slot
  /\ table[index[t]] # NULL /\ ~Holds(index[t], word(t).word)
  /\ index' = [index EXCEPT ![t] = @ + 2]
  /\ UNCHANGED <<published, history, heap, mem, pc>>
Skip(t) ==
  /\ pc[t] = "probe" /\ index[t] \in Slot
  /\ table[index[t]] # NULL /\ ~Holds(index[t], word(t).word)
  /\ index' = [index EXCEPT ![t] = @ + 1]
  /\ UNCHANGED <<published, history, heap, mem, pc>>

\* ... update the entry of this word (UPDATE) ...
Found(t) ==
  /\ pc[t] = "probe" /\ index[t] \in Slot
  /\ Holds(index[t], word(t).word)
  /\ Goto(t, "count")
  /\ UNCHANGED <<published, history, heap, mem, index>>

\* ... and at a free slot give the word a string of its own.
Free(t) ==
  /\ pc[t] = "probe" /\ index[t] \in Slot
  /\ table[index[t]] = NULL
  /\ heap' = [heap EXCEPT ![<<t, mem[t]>>].own = TRUE]
  /\ Goto(t, "reread")
  /\ UNCHANGED <<published, history, mem, index>>

\* prev=global_hash_table[index], and what is done when it is not NULL.
RereadTrusted(t) ==   \* a mutant: an entry found here is taken for this word's
  /\ pc[t] = "reread"
  /\ Goto(t, IF table[index[t]] = NULL THEN "cas" ELSE "count")
  /\ UNCHANGED <<published, history, heap, mem, index>>
RereadSpins(t) ==   \* a mutant: the slot is waited for
  /\ pc[t] = "reread"
  /\ Goto(t, IF table[index[t]] = NULL THEN "cas" ELSE "reread")
  /\ UNCHANGED <<published, history, heap, mem, index>>
Reread(t) ==
  /\ pc[t] = "reread"
  /\ Goto(t, IF table[index[t]] = NULL THEN "cas"
             ELSE IF Holds(index[t], word(t).word) THEN "count" ELSE "probe")
  /\ UNCHANGED <<published, history, heap, mem, index>>

\* atomic_compare_exchange_n(global_hash_table+index, &prev, word), prev = NULL.
ExchangeAlways(t) ==   \* a mutant: a store for the compare and exchange
  /\ pc[t] = "cas"
  /\ table' = [table EXCEPT ![index[t]] = <<t, mem[t]>>]
  /\ Goto(t, "indices")
  /\ UNCHANGED <<history, heap, mem, index, indices, indices_index, overrun, old>>
ExchangeNext(t) ==   \* a mutant: a call that lost the slot goes on behind it
  /\ pc[t] = "cas"
  /\ IF table[index[t]] = NULL
       THEN /\ table' = [table EXCEPT ![index[t]] = <<t, mem[t]>>]
            /\ Goto(t, "indices") /\ UNCHANGED index
       ELSE /\ index' = [index EXCEPT ![t] = @ + 1]
            /\ Goto(t, "probe") /\ UNCHANGED table
  /\ UNCHANGED <<history, heap, mem, indices, indices_index, overrun, old>>
Exchange(t) ==
  /\ pc[t] = "cas"
  /\ IF table[index[t]] = NULL
       THEN /\ table' = [table EXCEPT ![index[t]] = <<t, mem[t]>>]
            /\ Goto(t, "indices")
       ELSE Goto(t, "probe") /\ UNCHANGED table
  /\ UNCHANGED <<history, heap, mem, index, indices, indices_index, overrun, old>>

\* atomic_fetch_add(&indices_index, 1)
TakeLate(t) ==   \* a mutant: the new value is used for the old one
  /\ pc[t] = "indices"
  /\ old' = [old EXCEPT ![t] = indices_index + 1]
  /\ indices_index' = indices_index + 1
  /\ Goto(t, "store")
  /\ UNCHANGED <<history, heap, mem, index, table, indices, overrun>>
TakeIndex(t) ==
  /\ pc[t] = "indices"
  /\ old' = [old EXCEPT ![t] = indices_index]
  /\ indices_index' = indices_index + 1
  /\ Goto(t, "store")
  /\ UNCHANGED <<history, heap, mem, index, table, indices, overrun>>

\* hash_table_indices[old_indices_index]=index; the call returns 1, and only
\* then does parse_buf move on to its next struct.
StoreReuse(t) ==   \* a mutant: parse_buf does not move on
  /\ pc[t] = "store" /\ old[t] \in Place
  /\ indices' = [indices EXCEPT ![old[t]] = index[t]]
  /\ Return(t)
  /\ UNCHANGED <<history, heap, mem, table, indices_index, overrun>>
Store(t) ==
  /\ pc[t] = "store" /\ old[t] \in Place
  /\ indices' = [indices EXCEPT ![old[t]] = index[t]]
  /\ mem' = [mem EXCEPT ![t] = @ + 1]
  /\ Return(t)
  /\ UNCHANGED <<history, heap, table, indices_index, overrun>>

\* The same store when the places are used up.  Nothing tests for it, and it
\* writes over whatever lies behind the array (the slots of the table, or
\* indices_index): nothing is said of what comes after.
Overrun(t) ==
  /\ pc[t] = "store" /\ old[t] \notin Place
  /\ overrun' = TRUE
  /\ UNCHANGED <<history, heap, mem, pc, index, table, indices, indices_index, old>>

\* atomic_add(&global_hash_table[index]->count, 1)
AddCount(t) ==
  /\ pc[t] = "count"
  /\ heap' = [heap EXCEPT ![table[index[t]]].count = @ + 1]
  /\ Goto(t, "bits")
  /\ UNCHANGED <<published, history, mem, index>>

\* atomic_or of the low or high half of file_bits; the call returns 0, and the
\* struct it was passed is free for the next word.
SetBits(t) ==
  /\ pc[t] = "bits"
  /\ heap' = [heap EXCEPT ![table[index[t]]].files = @ \union word(t).files,
                          ![<<t, mem[t]>>] = NULL]
  /\ Return(t)
  /\ UNCHANGED <<table, indices, indices_index, overrun, history, mem>>

Step(t) ==
  /\ ~overrun
  /\ \/ Skip(t) \/ Found(t) \/ Free(t) \/ Reread(t) \/ Exchange(t)
     \/ TakeIndex(t) \/ Store(t) \/ Overrun(t) \/ AddCount(t) \/ SetBits(t)

Next == \E t \in Threads : Step(t) \/ \E w \in Words, f \in Files : Call(t, w, f)

Safety == Init /\ [][Next]_vars

\* A thread inside a call is not stopped for ever; it need not call again.
Spec == Safety /\ \A t \in Threads : WF_vars(Step(t))

----------------------------------------------------------------------------
(* Properties                                                              *)

Entry == [word : Words, own : BOOLEAN, count : Nat, files : SUBSET Files]

(* However calls for the same word race for a slot, the word is never in   *)
(* two of them: its count would be split and both parts printed.           *)
OneEntryPerWord == \A s1, s2 \in Slot, w \in Words : Holds(s1, w) /\ Holds(s2, w) => s1 = s2

(* A word that is in is found: no slot between its hash and its entry is   *)
(* free, so that no probe for it stops early.                              *)
ProbeFinds == \A s \in Slot : table[s] # NULL =>
                \A r \in Hash[heap[table[s]].word] .. s : table[r] # NULL

(* An entry is the word it was put in for and keeps a string of its own:   *)
(* no thread writes its next word over it, nor the main thread the next    *)
(* block over its letters.                                                 *)
EntriesKept == [][\A s \in Slot : table[s] # NULL =>
                    /\ table'[s] = table[s]
                    /\ heap'[table[s]].word = heap[table[s]].word
                    /\ heap'[table[s]].own]_vars

CountOf(w) == IF \E s \in Slot : Holds(s, w)
                THEN heap[table[CHOOSE s \in Slot : Holds(s, w)]].count ELSE 0
FilesOf(w) == IF \E s \in Slot : Holds(s, w)
                THEN heap[table[CHOOSE s \in Slot : Holds(s, w)]].files ELSE {}

Uncounted(w) == {t \in Threads : /\ pc[t] \in {"probe", "reread", "cas", "count"}
                                 /\ word(t).word = w}
Unmarked(w) == {t \in Threads : /\ pc[t] \in {"probe", "reread", "cas", "count", "bits"}
                                /\ word(t).word = w}

(* No occurrence is lost or counted twice, and no file forgotten: every    *)
(* call made is in the entry of its word, or still on its way there.       *)
TotalsExact == \A w \in Words :
  /\ calls[w] = CountOf(w) + Cardinality(Uncounted(w))
  /\ callFiles[w] = FilesOf(w) \union UNION {word(t).files : t \in Unmarked(w)}

(* sort_words, which walks hash_table_indices, meets every entry once:     *)
(* every used slot is listed in exactly one place, by the time the call    *)
(* that took it has returned.  The places last as long as at most half of  *)
(* the slots are used (prog5.h:226-231): the index that a call was given   *)
(* is outside the array only when more slots are used than it has places.  *)
Used == {s \in Slot : table[s] # NULL}
Listed(s) == {i \in Place : indices[i] = s}
IndicesListTable ==
  /\ \A s \in Slot :
       Cardinality(Listed(s)) + Cardinality({t \in Threads : pc[t] \in {"indices", "store"}
                                                             /\ index[t] = s})
         = IF table[s] = NULL THEN 0 ELSE 1
  /\ overrun => Cardinality(Used) > Slots \div 2

(* The table implements the shared counters of WordCount, with the count   *)
(* of a word read from its entry.                                          *)
Count == INSTANCE WordCount WITH count <- [w \in Words |-> CountOf(w)],
                                 files <- [w \in Words |-> FilesOf(w)]
ImplementsCount == Count!Spec

(* Every call returns, whatever the others do: a call that loses its slot  *)
(* to another goes on, and at most all slots can be lost; unless one of    *)
(* them writes behind the end of the indices.                              *)
EveryCallReturns == \A t \in Threads : pc[t] # "idle" ~> pc[t] = "idle" \/ overrun

(* prog5.h:29: a collision is "resolved by putting the colliding value     *)
(* into the next free bucket": while a bucket is free, no probe leaves the *)
(* array.                                                                  *)
NextFreeBucket == (\E s \in Slot : table[s] = NULL) =>
                    \A t \in Threads : pc[t] = "probe" => index[t] \in Slot
=============================================================================
