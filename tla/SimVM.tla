-------------------------------- MODULE SimVM --------------------------------
(***************************************************************************)
(* cs520/prog7/simVM.c: the simulation of a page table and a TLB with      *)
(* round robin or LRU replacement.  One array says of every page whether   *)
(* it is in the page table, in the TLB, dirty, and when it was last used;  *)
(* two more arrays, kept beside it, give round robin its order.  The       *)
(* properties are about these three agreeing after any sequence of reads   *)
(* and writes.  The words stored in the pages are left out.                *)
(***************************************************************************)
EXTENDS Integers, FiniteSets

CONSTANTS MaxPages,     \* bound on the sizes in pages given to createVM
          MaxWords,     \* bound on the size of a page in words
          MaxClock,     \* bound on the accesses, the initial loads included
          UintRange,    \* how many values an unsigned int has: 2^32
          TimeRange     \* how many values vm->time has: an unsigned int too

\* The initial loads, one for each page of the memory, are counted by MaxClock.
ASSUME SizeAssumption == /\ MaxPages \in Nat \ {0} /\ MaxWords \in Nat
                         /\ MaxClock \in Nat /\ MaxPages <= MaxClock
                         /\ UintRange \in Nat \ {0} /\ TimeRange \in Nat \ {0}

RR == 0     \* rr_replace_alg
LRU == 1    \* lru_replace_alg

Page == 0 .. MaxPages - 1
Thing == {"pgtable", "tlb"}

VARIABLES vm,          \* what createVM returned: nothing yet, NULL, or the sizes
          time,        \* vm->time
          used,        \* pg_array[p].time
          dirty,       \* the pages whose dirty_bit is set
          in,          \* the pages whose in_pgtable, in_tlb is set
          rr,          \* rr_pgtable and rr_tlb
          rr_index,    \* pgtable_rr_index and tlb_rr_index
          stats,       \* pg_faults, tlb_misses and disk_writes
          clock,       \* history: accesses so far, the initial loads included
          lastUse,     \* history: the clock of the last access to each page
          entered,     \* history: the clock when each page last entered the page table
          dirtied      \* history: how often a page that was clean was written

tables == <<in, rr, rr_index, entered>>
uses == <<clock, time, used, lastUse>>
vars == <<vm, dirty, stats, dirtied, tables, uses>>

Init == /\ vm = [state |-> "none"] /\ time = 0 /\ clock = 0
        /\ used = [p \in Page |-> 0] /\ lastUse = used /\ entered = used
        /\ dirty = {} /\ dirtied = 0
        /\ in = [x \in Thing |-> {}]
        /\ rr = [x \in Thing |-> [i \in Page |-> 0]]
        /\ rr_index = [x \in Thing |-> 0]
        /\ stats = [pg_faults |-> 0, tlb_misses |-> 0, disk_writes |-> 0]

----------------------------------------------------------------------------
(* createVM                                                                *)

\* POW_OF_2, for the sizes that can be given.
PowersOf2 == {2^k : k \in 0..MaxWords}

\* The test of create_vm: vmSize, pmSize and tlbSize are in pages, pgSize in words.
\* (It refuses unknown algorithms too; only RR and LRU are given here.)
Rejected(vmSize, pmSize, pgSize, tlbSize) ==
  \/ 0 \in {vmSize, pmSize, pgSize, tlbSize}
  \/ pmSize >= vmSize
  \/ pgSize \notin PowersOf2
  \/ vmSize * pgSize > UintRange - 1

\* The first tlbSize pages are put in both tables, the others up to pmSize in
\* the page table only.  (If tlbSize is larger, both loops overrun rr_pgtable:
\* what the program does after that is not modelled, see InBounds.)
CreateVM(vmSize, pmSize, pgSize, tlbSize, pgAlg, tlbAlg) ==
  /\ vm.state = "none"
  /\ ~Rejected(vmSize, pmSize, pgSize, tlbSize)
  /\ vm' = [state |-> "open", pages |-> vmSize, pgSize |-> pgSize,
            size |-> [x \in Thing |-> IF x = "tlb" THEN tlbSize ELSE pmSize],
            alg |-> [x \in Thing |-> IF x = "tlb" THEN tlbAlg ELSE pgAlg]]
  /\ LET loaded == IF tlbSize > pmSize THEN tlbSize ELSE pmSize
     IN /\ clock' = loaded /\ time' = loaded % TimeRange
        /\ used' = [p \in Page |-> IF p < loaded THEN p % TimeRange ELSE 0]
        /\ lastUse' = [p \in Page |-> IF p < loaded THEN p ELSE 0]
        /\ entered' = lastUse'
        /\ in' = [x \in Thing |-> IF x = "tlb" THEN 0 .. tlbSize - 1 ELSE 0 .. loaded - 1]
        /\ rr' = [x \in Thing |-> [i \in Page |-> IF i < vm'.size[x] THEN i ELSE 0]]
  /\ UNCHANGED <<dirty, dirtied, rr_index, stats>>

CreateFails(vmSize, pmSize, pgSize, tlbSize) ==
  /\ vm.state = "none"
  /\ Rejected(vmSize, pmSize, pgSize, tlbSize)
  /\ vm' = [state |-> "null"]
  /\ UNCHANGED <<dirty, stats, dirtied, tables, uses>>

----------------------------------------------------------------------------
(* Replacement                                                             *)

\* ARRAY_MIN: the first of the pages in S whose time is smallest.
LeastRecent(S) == CHOOSE p \in S : \A q \in S : used[p] < used[q]
                                                \/ (used[p] = used[q] /\ p <= q)

\* The page that rr_replace or lru_replace evicts from the page table or TLB.
Victim(x) == IF vm.alg[x] = RR THEN rr[x][rr_index[x]] ELSE LeastRecent(in[x])

\* in_##thing of old is cleared and that of new is set.
Swap(S, old, new) == (S \ {old}) \union {new}

\* Round robin: new takes the slot of the index, which moves on (rr_inc).
RRSlot(x, new) == IF vm.alg[x] = RR THEN [rr[x] EXCEPT ![rr_index[x]] = new] ELSE rr[x]
RRNextStuck(x) == rr_index[x]   \* a mutant: the index stays
RRNext(x) == IF vm.alg[x] = RR THEN (rr_index[x] + 1) % vm.size[x] ELSE rr_index[x]

\* scan_arr: the first slot of rr_tlb that holds the page.
Scan(p) == CHOOSE i \in 0 .. vm.size["tlb"] - 1 :
             rr["tlb"][i] = p /\ \A j \in 0 .. i - 1 : rr["tlb"][j] # p

----------------------------------------------------------------------------
(* vm_update, called by every read and write                               *)

\* A program may use the handle as long as the sizes obey simVM.h:43.
InBounds == vm.state = "open" /\ vm.size["tlb"] <= vm.size["pgtable"]

TouchMisses(p) ==   \* a mutant: the return for a page in both tables comes first
  LET tick == IF p \in in["tlb"] THEN 0 ELSE 1
  IN /\ clock < MaxClock
     /\ clock' = clock + 1 /\ lastUse' = [lastUse EXCEPT ![p] = clock]
     /\ time' = (time + tick) % TimeRange /\ used' = [used EXCEPT ![p] = time]
Touch(p) == /\ clock < MaxClock
            /\ clock' = clock + 1 /\ lastUse' = [lastUse EXCEPT ![p] = clock]
            /\ time' = (time + 1) % TimeRange /\ used' = [used EXCEPT ![p] = time]

\* write_int sets dirty_bit before vm_update, whether the page is in or not.
MarkedIfLoaded(p, write) ==   \* a mutant: a page being loaded is not marked
  IF write /\ p \in in["pgtable"] THEN dirty \union {p} ELSE dirty
Marked(p, write) == IF write THEN dirty \union {p} ELSE dirty
CountDirtied(p, write) == dirtied' = dirtied + (IF write /\ p \notin dirty THEN 1 ELSE 0)

Hit(p, write) ==
  /\ p \in in["pgtable"] /\ p \in in["tlb"]
  /\ dirty' = Marked(p, write)
  /\ UNCHANGED <<tables, stats>>

TlbMiss(p, write) ==
  /\ p \in in["pgtable"] /\ p \notin in["tlb"]
  /\ in' = [in EXCEPT !["tlb"] = Swap(@, Victim("tlb"), p)]
  /\ rr' = [rr EXCEPT !["tlb"] = RRSlot("tlb", p)]
  /\ rr_index' = [rr_index EXCEPT !["tlb"] = RRNext("tlb")]
  /\ stats' = [stats EXCEPT !.tlb_misses = @ + 1]
  /\ dirty' = Marked(p, write)
  /\ UNCHANGED entered

\* Every page fault is a TLB miss as well; a dirty victim is written to disk.
FaultStats(old) ==
  [pg_faults |-> stats.pg_faults + 1, tlb_misses |-> stats.tlb_misses + 1,
   disk_writes |-> stats.disk_writes + (IF old \in dirty THEN 1 ELSE 0)]

\* replace_pg: the victim of the page table takes its TLB entry with it, or
\* the TLB evicts an entry of its own.
PageFault(p, write) ==
  LET old == Victim("pgtable")
  IN /\ p \notin in["pgtable"]
     /\ stats' = FaultStats(old)
     /\ dirty' = Marked(p, write) \ {old}
     /\ in' = [x \in Thing |-> Swap(in[x], IF x = "tlb" /\ old \notin in["tlb"]
                                             THEN Victim("tlb") ELSE old, p)]
     /\ rr' = [pgtable |-> RRSlot("pgtable", p),
               tlb |-> IF old \notin in["tlb"] THEN RRSlot("tlb", p)
                       ELSE IF vm.alg["tlb"] = RR THEN [rr["tlb"] EXCEPT ![Scan(old)] = p]
                       ELSE rr["tlb"]]
     /\ rr_index' = [pgtable |-> RRNext("pgtable"),
                     tlb |-> IF old \notin in["tlb"] THEN RRNext("tlb") ELSE rr_index["tlb"]]
     /\ entered' = [entered EXCEPT ![p] = clock]

\* read_int and write_int; page_of ends the program for an address out of range.
Access(addr, write) ==
  LET p == addr \div vm.pgSize
  IN /\ InBounds
     /\ addr < vm.pages * vm.pgSize
     /\ Touch(p)
     /\ CountDirtied(p, write)
     /\ Hit(p, write) \/ TlbMiss(p, write) \/ PageFault(p, write)
     /\ UNCHANGED vm

RangeError(addr) ==
  /\ InBounds /\ addr >= vm.pages * vm.pgSize
  /\ vm' = [state |-> "exited"]
  /\ UNCHANGED <<dirty, stats, dirtied, tables, uses>>

Size == 0 .. MaxPages
PgSize == 0 .. MaxWords

Next == \/ \E vmSize, pmSize, tlbSize \in Size, pgSize \in PgSize, pgAlg, tlbAlg \in {RR, LRU} :
             CreateVM(vmSize, pmSize, pgSize, tlbSize, pgAlg, tlbAlg)
        \/ \E vmSize, pmSize, tlbSize \in Size, pgSize \in PgSize :
             CreateFails(vmSize, pmSize, pgSize, tlbSize)
        \/ \E addr \in 0 .. MaxPages * MaxWords :
             (\E write \in BOOLEAN : Access(addr, write)) \/ RangeError(addr)

Spec == Init /\ [][Next]_vars

----------------------------------------------------------------------------
(* Properties                                                              *)

Flags == [state : {"none", "null", "exited"}]
Sizes == [state : {"open"}, pages : Size, pgSize : PgSize,
          size : [Thing -> Size], alg : [Thing -> {RR, LRU}]]

TypeOK ==
  /\ vm \in Flags \union Sizes
  /\ clock \in 0..MaxClock /\ time = clock % TimeRange
  /\ used \in [Page -> 0 .. TimeRange - 1]
  /\ lastUse \in [Page -> 0..MaxClock] /\ entered \in [Page -> 0..MaxClock]
  /\ in \in [Thing -> SUBSET Page] /\ dirty \subseteq Page
  /\ rr \in [Thing -> [Page -> Page]] /\ rr_index \in [Thing -> Page]
  /\ stats \in [pg_faults : Nat, tlb_misses : Nat, disk_writes : Nat]
  /\ dirtied \in Nat

(* Both tables are always exactly full, whatever is replaced by what: a    *)
(* page that is in the TLB is in the page table, and so is a page that     *)
(* waits to be written back.                                               *)
TablesFull ==
  /\ \A x \in Thing : Cardinality(in[x]) = vm.size[x]
  /\ in["tlb"] \subseteq in["pgtable"]
  /\ dirty \subseteq in["pgtable"]

(* The arrays added beside the flags for round robin list exactly the      *)
(* pages whose flag is set, so that the victim is always a page that is in *)
(* and scan_arr, which tests no bound, finds what it looks for.            *)
OrderListsTable ==
  \A x \in Thing : vm.alg[x] = RR =>
    /\ rr_index[x] < vm.size[x]
    /\ {rr[x][i] : i \in 0 .. vm.size[x] - 1} = in[x]

(* The three representations of the two tables agree.                      *)
TablesAgree == TypeOK /\ (InBounds => TablesFull /\ OrderListsTable)

(* No write to a page is lost: every time a clean page was made dirty is   *)
(* accounted for by a disk write or by a page that is still dirty.         *)
NoLostWrite == dirtied = stats.disk_writes + Cardinality(dirty)

(* Whenever LRU evicts from the page table, or the TLB evicts an entry of  *)
(* its own accord, no page that stays was used before the one evicted: the *)
(* times in the array are in the order of the accesses.  Round robin       *)
(* evicts from the page table the page that entered it first.              *)
LeastRecentlyUsed(x, old) == \A q \in in[x] : lastUse[old] <= lastUse[q]
FirstIn(x, old) == \A q \in in[x] : entered[old] <= entered[q]

EvictsAsNamed ==
  [][\A x \in Thing : \A old \in in[x] \ in'[x] :
       /\ (vm.alg[x] = LRU /\ (x = "tlb" => old \in in'["pgtable"])) => LeastRecentlyUsed(x, old)
       /\ (vm.alg[x] = RR /\ x = "pgtable") => FirstIn(x, old)]_vars
=============================================================================
