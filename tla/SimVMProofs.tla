----------------------------- MODULE SimVMProofs -----------------------------
(***************************************************************************)
(* Proofs about SimVM, for every memory size, page size and number of      *)
(* accesses: the three representations of the tables agree, no write is    *)
(* lost, and the pages that leave are the ones the algorithms name.        *)
(***************************************************************************)
EXTENDS SimVM, FiniteSetTheorems, WellFoundedInduction, TLAPS

----------------------------------------------------------------------------
(* The inductive invariant                                                 *)

\* The first n slots of a round robin array hold the pages of S, each once.
Lists(order, n, S) ==
  /\ {order[i] : i \in 0 .. n - 1} = S
  /\ \A i, j \in 0 .. n - 1 : order[i] = order[j] => i = j

\* A table is full, and its round robin array lists it.
TableInv(x) ==
  /\ Cardinality(in[x]) = vm.size[x]
  /\ vm.alg[x] = RR => rr_index[x] < vm.size[x] /\ Lists(rr[x], vm.size[x], in[x])

\* Nothing has happened before createVM, and the sizes it accepts are not zero.
CreateInv ==
  /\ vm.state = "none" => dirty = {} /\ \A x \in Thing : rr_index[x] = 0 /\ in[x] = {}
  /\ vm.state = "open" => vm.pgSize > 0 /\ \A x \in Thing : vm.size[x] > 0

InBoundsInv == InBounds =>
  /\ \A x \in Thing : TableInv(x)
  /\ in["tlb"] \subseteq in["pgtable"] /\ dirty \subseteq in["pgtable"]

IInv == TypeOK /\ CreateInv /\ NoLostWrite /\ InBoundsInv

----------------------------------------------------------------------------
(* The order of the pages                                                  *)

\* The times in the array are those of the accesses, until they wrap around.
TimeInv == MaxClock < TimeRange => time = clock /\ used = lastUse

\* Slot a of the round robin array comes before slot b, counted from the index.
Before(a, b) == LET k == rr_index["pgtable"]
                IN (a < b /\ (b < k \/ k <= a)) \/ (b < k /\ k <= a)

\* The pages entered the page table in the order of their slots.
FifoInv == InBounds /\ vm.alg["pgtable"] = RR =>
  /\ \A q \in in["pgtable"] : entered[q] < clock
  /\ \A a, b \in 0 .. vm.size["pgtable"] - 1 :
       Before(a, b) => entered[rr["pgtable"][a]] < entered[rr["pgtable"][b]]

OrderInv == TimeInv /\ FifoInv

----------------------------------------------------------------------------
(* Arithmetic                                                              *)

IsRemainder(r, c, n) == r \in 0 .. n - 1 /\ \E q \in Int : c = n * q + r

LEMMA ModIsRemainder ==
  ASSUME NEW n \in Nat \ {0}, NEW c \in Nat
  PROVE  IsRemainder(c % n, c, n)
<1>1. c % n \in 0 .. n - 1 /\ c \div n \in Int /\ c = n * (c \div n) + (c % n)
  OBVIOUS
<1>. QED  BY <1>1 DEF IsRemainder

LEMMA OneRemainder ==
  ASSUME NEW n \in Nat \ {0}, NEW c \in Nat, NEW r1, NEW r2, IsRemainder(r1, c, n), IsRemainder(r2, c, n)
  PROVE  r1 = r2
<1>1. r1 \in 0 .. n - 1 /\ r2 \in 0 .. n - 1
  BY DEF IsRemainder
<1>2. PICK q1 \in Int : c = n * q1 + r1
  BY DEF IsRemainder
<1>3. PICK q2 \in Int : c = n * q2 + r2
  BY DEF IsRemainder
<1>4. n * (q1 - q2) = r2 - r1
  BY <1>1, <1>2, <1>3
<1>5. q1 - q2 < 1
  <2>1. q1 - q2 >= 1 => n * (q1 - q2) >= n
    OBVIOUS
  <2>. QED  BY <1>1, <1>4, <2>1
<1>6. q1 - q2 > -1
  <2>1. q1 - q2 <= -1 => n * (q1 - q2) <= -n
    OBVIOUS
  <2>. QED  BY <1>1, <1>4, <2>1
<1>7. q1 - q2 = 0
  BY <1>5, <1>6
<1>. QED  BY <1>1, <1>4, <1>7

LEMMA ModNext ==
  ASSUME NEW n \in Nat \ {0}, NEW c \in Nat
  PROVE  ((c % n) + 1) % n = (c + 1) % n
<1>. DEFINE r == c % n
<1>1. r \in 0 .. n - 1 /\ r + 1 \in Nat
  BY ModIsRemainder DEF IsRemainder
<1>2. PICK q \in Int : c = n * q + r
  BY ModIsRemainder DEF IsRemainder
<1>3. PICK s : s = (r + 1) % n
  OBVIOUS
<1>4. IsRemainder(s, r + 1, n)
  BY <1>1, <1>3, ModIsRemainder
<1>5. IsRemainder(s, c + 1, n)
  <2>. HIDE DEF r
  <2>1. PICK p \in Int : r + 1 = n * p + s
    BY <1>4 DEF IsRemainder
  <2>2. c + 1 = n * (p + q) + s /\ p + q \in Int /\ s \in 0 .. n - 1
    BY <1>1, <1>2, <1>4, <2>1 DEF IsRemainder
  <2>. QED  BY <2>2 DEF IsRemainder
<1>6. IsRemainder((c + 1) % n, c + 1, n)
  BY ModIsRemainder
<1>. QED  BY <1>3, <1>5, <1>6, OneRemainder

LEMMA ModOfSmall ==
  ASSUME NEW n \in Nat \ {0}, NEW c \in Nat, c < n
  PROVE  c % n = c
<1>1. c = n * 0 + c
  OBVIOUS
<1>2. IsRemainder(c, c, n)
  BY <1>1 DEF IsRemainder
<1>. QED  BY <1>2, ModIsRemainder, OneRemainder

\* The page of an address that is in range.
LEMMA PageInRange ==
  ASSUME NEW a \in Nat, NEW n \in Nat, NEW d \in Nat \ {0}, a < n * d
  PROVE  a \div d \in 0 .. n - 1
OBVIOUS

\* A set of numbers has a least one: the order of finite sets by inclusion is
\* well-founded, and n is less than m when 0 .. n is a part of 0 .. m.
LEMMA LeastNumber ==
  ASSUME NEW T \in SUBSET Nat, T # {}
  PROVE  \E n \in T : \A m \in T : n <= m
<1>. DEFINE R == StrictSubsetOrdering(Nat)
            U == {0 .. n : n \in T}
<1>1. IsWellFoundedOn(R, FiniteSubsetsOf(Nat))
  BY FS_StrictSubsetOrderingWellFounded
<1>2. U \subseteq FiniteSubsetsOf(Nat) /\ U # {}
  <2>1. \A n \in T : 0 .. n \in SUBSET Nat /\ IsFiniteSet(0 .. n)
    BY FS_Interval
  <2>. QED  BY <2>1 DEF FiniteSubsetsOf
<1>3. \E s \in U : \A r \in U : <<r, s>> \notin R
  <2>. HIDE DEF R, U
  <2>. QED  BY <1>1, <1>2, WFMin
<1>4. PICK n \in T : \A r \in U : <<r, 0 .. n>> \notin R
  BY <1>3
<1>5. ASSUME NEW m \in T, m < n PROVE FALSE
  <2>1. 0 .. m \subseteq 0 .. n /\ n \in 0 .. n /\ n \notin 0 .. m /\ 0 .. n \subseteq Nat
    BY <1>5
  <2>2. <<0 .. m, 0 .. n>> \in R
    BY <2>1 DEF StrictSubsetOrdering
  <2>. QED  BY <1>4, <2>2
<1>. QED  BY <1>5

----------------------------------------------------------------------------
(* Sets and lists of pages                                                 *)

LEMMA PagesFinite == \A S \in SUBSET Page : IsFiniteSet(S) /\ Cardinality(S) \in Nat
<1>1. IsFiniteSet(Page)
  BY FS_Interval, SizeAssumption DEF Page
<1>. QED  BY <1>1, FS_Subset, FS_CardinalityType

LEMMA SwapKeepsSize ==
  ASSUME NEW S \in SUBSET Page, NEW old \in S, NEW new \in Page, new \notin S
  PROVE  Swap(S, old, new) \in SUBSET Page /\ Cardinality(Swap(S, old, new)) = Cardinality(S)
<1>1. IsFiniteSet(S) /\ Cardinality(S) \in Nat
  BY PagesFinite
<1>2. IsFiniteSet(S \ {old}) /\ Cardinality(S \ {old}) = Cardinality(S) - 1
  BY <1>1, FS_RemoveElement
<1>3. Cardinality((S \ {old}) \union {new}) = Cardinality(S \ {old}) + 1
  BY <1>2, FS_AddElement
<1>. QED  BY <1>1, <1>2, <1>3 DEF Swap

\* The page in slot k is replaced in the array and in the set.
LEMMA SwapKeepsLists ==
  ASSUME NEW n \in Nat, n <= MaxPages, NEW order \in [Page -> Page], NEW S, Lists(order, n, S),
         NEW k \in 0 .. n - 1, NEW new, new \notin S
  PROVE  Lists([order EXCEPT ![k] = new], n, Swap(S, order[k], new))
<1>. DEFINE list == [order EXCEPT ![k] = new]
<1>1. \A i \in 0 .. n - 1 : i \in Page /\ list[i] = IF i = k THEN new ELSE order[i]
  BY SizeAssumption DEF Page
<1>2. \A i \in 0 .. n - 1 : order[i] \in S
  BY DEF Lists
<1>3. \A i, j \in 0 .. n - 1 : list[i] = list[j] => i = j
  BY <1>1, <1>2 DEF Lists
<1>4. ASSUME NEW p \in Swap(S, order[k], new) PROVE \E i \in 0 .. n - 1 : p = list[i]
  <2>1. CASE p = new
    BY <1>1, <2>1
  <2>2. CASE p # new
    <3>1. p \in S /\ p # order[k]
      BY <2>2 DEF Swap
    <3>2. PICK i \in 0 .. n - 1 : p = order[i]
      BY <3>1 DEF Lists
    <3>. QED  BY <1>1, <3>1, <3>2
  <2>. QED  BY <2>1, <2>2
<1>5. ASSUME NEW i \in 0 .. n - 1 PROVE list[i] \in Swap(S, order[k], new)
  BY <1>1, <1>2 DEF Swap, Lists
<1>6. {list[i] : i \in 0 .. n - 1} = Swap(S, order[k], new)
  BY <1>4, <1>5
<1>. QED  BY <1>3, <1>6 DEF Lists

\* The first of the pages whose time is smallest exists.
LEMMA LeastRecentIn ==
  ASSUME TypeOK, NEW S \in SUBSET Page, S # {}
  PROVE  LeastRecent(S) \in S /\ \A q \in S : used[LeastRecent(S)] <= used[q]
<1>1. \A q \in S : used[q] \in Nat /\ q \in Nat
  BY SizeAssumption DEF TypeOK, Page
<1>2. PICK least \in {used[q] : q \in S} : \A y \in {used[q] : q \in S} : least <= y
  <2>. DEFINE T == {used[q] : q \in S}
  <2>1. T \in SUBSET Nat /\ T # {}
    BY <1>1
  <2>. HIDE DEF T
  <2>2. \E least \in T : \A y \in T : least <= y
    BY <2>1, LeastNumber
  <2>. QED  BY <2>2 DEF T
<1>3. PICK p \in {q \in S : used[q] = least} : \A r \in {q \in S : used[q] = least} : p <= r
  BY <1>1, <1>2, LeastNumber
<1>4. p \in S /\ \A q \in S : used[p] < used[q] \/ (used[p] = used[q] /\ p <= q)
  BY <1>1, <1>2, <1>3
<1>5. /\ LeastRecent(S) \in S
      /\ \A q \in S : used[LeastRecent(S)] < used[q]
                       \/ (used[LeastRecent(S)] = used[q] /\ LeastRecent(S) <= q)
  BY <1>4 DEF LeastRecent
<1>. QED  BY <1>1, <1>5
----------------------------------------------------------------------------
(* The tables                                                              *)

LEMMA OpenSizes ==
  ASSUME TypeOK, CreateInv, vm.state = "open"
  PROVE  /\ vm.pages \in Size /\ vm.pgSize \in PgSize \ {0}
         /\ \A x \in Thing : /\ vm.size[x] \in 1 .. MaxPages /\ vm.alg[x] \in {RR, LRU}
                              /\ 0 .. vm.size[x] - 1 \subseteq Page
<1>1. vm \in Sizes
  BY DEF TypeOK, Flags
<1>. QED  BY <1>1, SizeAssumption DEF Sizes, Size, PgSize, CreateInv, Page

\* The page a table evicts is in it.
LEMMA VictimIn ==
  ASSUME IInv, InBounds, NEW x \in Thing
  PROVE  Victim(x) \in in[x]
<1>1. in[x] \in SUBSET Page /\ TypeOK /\ TableInv(x)
  BY DEF IInv, TypeOK, InBoundsInv
<1>2. vm.size[x] \in 1 .. MaxPages /\ vm.alg[x] \in {RR, LRU}
  BY OpenSizes DEF IInv, InBounds
<1>3. in[x] # {}
  BY <1>1, <1>2, FS_EmptySet DEF TableInv
<1>4. CASE vm.alg[x] = RR
  <2>1. rr_index[x] \in 0 .. vm.size[x] - 1
    <3>1. rr_index[x] < vm.size[x] /\ rr_index[x] \in Nat
      BY <1>1, <1>4, SizeAssumption DEF TableInv, TypeOK, Page
    <3>. QED  BY <1>2, <3>1
  <2>. QED  BY <1>1, <1>4, <2>1 DEF TableInv, Lists, Victim
<1>5. CASE vm.alg[x] # RR
  BY <1>1, <1>3, <1>5, LeastRecentIn DEF Victim
<1>. QED  BY <1>4, <1>5

\* A table evicts a page of its own choice for one that it does not have.
LEMMA TableEvicts ==
  ASSUME IInv, InBounds, NEW x \in Thing, NEW p \in Page, p \notin in[x], vm' = vm,
         in'[x] = Swap(in[x], Victim(x), p), rr'[x] = RRSlot(x, p), rr_index'[x] = RRNext(x)
  PROVE  /\ TableInv(x)'
         /\ in'[x] \in SUBSET Page /\ rr'[x] \in [Page -> Page] /\ rr_index'[x] \in Page
<1>1. in[x] \in SUBSET Page /\ rr[x] \in [Page -> Page] /\ rr_index[x] \in Page /\ TableInv(x)
  BY DEF IInv, TypeOK, InBoundsInv
<1>2. vm.size[x] \in 1 .. MaxPages
  BY OpenSizes DEF IInv, InBounds
<1>3. in'[x] \in SUBSET Page /\ Cardinality(in'[x]) = vm.size[x]
  BY <1>1, VictimIn, SwapKeepsSize DEF TableInv
<1>4. rr'[x] \in [Page -> Page]
  BY <1>1 DEF RRSlot
<1>5. CASE vm.alg[x] = RR
  <2>1. rr_index[x] \in 0 .. vm.size[x] - 1
    <3>1. rr_index[x] < vm.size[x] /\ rr_index[x] \in Nat
      BY <1>1, <1>5, SizeAssumption DEF TableInv, Page
    <3>. QED  BY <1>2, <3>1
  <2>2. rr_index[x] + 1 \in Nat /\ vm.size[x] \in Nat \ {0}
    BY <1>2, <2>1
  <2>3. rr_index'[x] \in 0 .. vm.size[x] - 1
    BY <1>5, <2>2, ModIsRemainder DEF RRNext, IsRemainder
  <2>4. Lists(rr'[x], vm.size[x], in'[x])
    BY <1>1, <1>2, <1>5, <2>1, SwapKeepsLists DEF TableInv, Victim, RRSlot
  <2>5. rr_index'[x] \in Page /\ rr_index'[x] < vm.size[x]
    BY <1>2, <2>3, SizeAssumption DEF Page
  <2>. QED  BY <1>3, <1>4, <2>4, <2>5 DEF TableInv
<1>6. CASE vm.alg[x] # RR
  BY <1>1, <1>3, <1>4, <1>6 DEF TableInv, RRNext
<1>. QED  BY <1>5, <1>6

\* scan_arr finds the page.
LEMMA ScanFinds ==
  ASSUME IInv, InBounds, vm.alg["tlb"] = RR, NEW p \in in["tlb"]
  PROVE  Scan(p) \in 0 .. vm.size["tlb"] - 1 /\ rr["tlb"][Scan(p)] = p
<1>1. TableInv("tlb")
  BY DEF IInv, InBoundsInv, Thing
<1>2. vm.size["tlb"] \in Nat
  BY OpenSizes DEF IInv, InBounds, Thing
<1>3. PICK i \in 0 .. vm.size["tlb"] - 1 : rr["tlb"][i] = p
  BY <1>1 DEF TableInv, Lists
<1>4. \A j \in 0 .. i - 1 : rr["tlb"][j] # p
  BY <1>1, <1>2, <1>3 DEF TableInv, Lists
<1>. QED  BY <1>3, <1>4 DEF Scan

\* The TLB loses the entry of a page that leaves the page table.
LEMMA TlbFollows ==
  ASSUME IInv, InBounds, NEW old \in in["tlb"], NEW p \in Page, p \notin in["tlb"], vm' = vm,
         in'["tlb"] = Swap(in["tlb"], old, p), rr_index'["tlb"] = rr_index["tlb"],
         rr'["tlb"] = IF vm.alg["tlb"] = RR THEN [rr["tlb"] EXCEPT ![Scan(old)] = p] ELSE rr["tlb"]
  PROVE  /\ TableInv("tlb")'
         /\ in'["tlb"] \in SUBSET Page /\ rr'["tlb"] \in [Page -> Page]
<1>. DEFINE x == "tlb"
<1>1. in[x] \in SUBSET Page /\ rr[x] \in [Page -> Page] /\ TableInv(x)
  BY DEF IInv, TypeOK, InBoundsInv, Thing
<1>2. vm.size[x] \in 1 .. MaxPages
  BY OpenSizes DEF IInv, InBounds, Thing
<1>3. in'[x] \in SUBSET Page /\ Cardinality(in'[x]) = vm.size[x]
  BY <1>1, SwapKeepsSize DEF TableInv
<1>4. rr'[x] \in [Page -> Page]
  BY <1>1
<1>5. CASE vm.alg[x] = RR
  <2>1. Scan(old) \in 0 .. vm.size[x] - 1 /\ rr[x][Scan(old)] = old
    BY <1>5, ScanFinds
  <2>2. Lists(rr'[x], vm.size[x], in'[x])
    BY <1>1, <1>2, <1>5, <2>1, SwapKeepsLists DEF TableInv
  <2>. QED  BY <1>1, <1>3, <1>4, <1>5, <2>2 DEF TableInv
<1>6. CASE vm.alg[x] # RR
  BY <1>1, <1>3, <1>4, <1>6 DEF TableInv
<1>. QED  BY <1>5, <1>6
----------------------------------------------------------------------------
(* Accesses                                                                *)

\* What every access does before it looks into the tables.
LEMMA TouchTypes ==
  ASSUME TypeOK, NEW p \in Page, Touch(p)
  PROVE  /\ clock' \in 0..MaxClock /\ time' = clock' % TimeRange
         /\ used' \in [Page -> 0 .. TimeRange - 1] /\ lastUse' \in [Page -> 0..MaxClock]
<1>1. clock \in Nat /\ clock < MaxClock /\ time = clock % TimeRange
  BY SizeAssumption DEF TypeOK, Touch
<1>2. time \in 0 .. TimeRange - 1
  BY <1>1, SizeAssumption, ModIsRemainder DEF IsRemainder
<1>3. time' = clock' % TimeRange
  BY <1>1, SizeAssumption, ModNext DEF Touch
<1>4. clock' \in 0..MaxClock /\ clock \in 0..MaxClock
  BY <1>1, SizeAssumption DEF Touch
<1>5. used' \in [Page -> 0 .. TimeRange - 1] /\ lastUse' \in [Page -> 0..MaxClock]
  BY <1>2, <1>4 DEF Touch, TypeOK
<1>. QED  BY <1>3, <1>4, <1>5

\* Every page marked dirty that was clean is counted.
LEMMA MarkCounts ==
  ASSUME TypeOK, NEW p \in Page, NEW write \in BOOLEAN, CountDirtied(p, write)
  PROVE  /\ Marked(p, write) \in SUBSET Page /\ dirtied' \in Nat
         /\ Cardinality(Marked(p, write)) - Cardinality(dirty) = dirtied' - dirtied
<1>1. dirty \in SUBSET Page /\ IsFiniteSet(dirty) /\ Cardinality(dirty) \in Nat /\ dirtied \in Nat
  BY PagesFinite DEF TypeOK
<1>2. CASE write
  <2>1. Cardinality(dirty \union {p}) = Cardinality(dirty) + IF p \in dirty THEN 0 ELSE 1
    <3>1. CASE p \in dirty
      <4>1. dirty \union {p} = dirty
        BY <3>1
      <4>. QED  BY <1>1, <3>1, <4>1
    <3>2. CASE p \notin dirty
      <4>1. Cardinality(dirty \union {p}) = Cardinality(dirty) + 1
        BY <1>1, <3>2, FS_AddElement
      <4>. QED  BY <3>2, <4>1
    <3>. QED  BY <3>1, <3>2
  <2>. QED  BY <1>1, <1>2, <2>1 DEF Marked, CountDirtied
<1>3. CASE ~write
  BY <1>1, <1>3 DEF Marked, CountDirtied
<1>. QED  BY <1>2, <1>3

\* The addresses that are tried.
Addresses == 0 .. MaxPages * MaxWords

\* What all three kinds of accesses do.
AccessBy(p, write) == /\ InBounds /\ Touch(p) /\ CountDirtied(p, write) /\ UNCHANGED vm

LEMMA AccessHits ==
  ASSUME IInv, NEW p \in Page, NEW write \in BOOLEAN, AccessBy(p, write), Hit(p, write)
  PROVE  IInv'
<1>1. TypeOK' /\ NoLostWrite'
  <2>1. /\ Marked(p, write) \in SUBSET Page /\ dirtied' \in Nat
        /\ Cardinality(Marked(p, write)) - Cardinality(dirty) = dirtied' - dirtied
    BY MarkCounts DEF IInv, AccessBy
  <2>2. Cardinality(dirty) \in Nat /\ Cardinality(Marked(p, write)) \in Nat
    BY <2>1, PagesFinite DEF IInv, TypeOK
  <2>3. TypeOK'
    BY <2>1, TouchTypes DEF IInv, TypeOK, AccessBy, Hit, tables
  <2>. QED  BY <2>1, <2>2, <2>3 DEF IInv, TypeOK, NoLostWrite, Hit
<1>2. CreateInv' /\ InBoundsInv'
  <2>1. UNCHANGED <<vm, in, rr, rr_index>>
    BY DEF AccessBy, Hit, tables
  <2>2. InBounds /\ InBounds' /\ vm'.state = "open"
    BY <2>1 DEF AccessBy, InBounds
  <2>3. dirty' \subseteq dirty \union {p} /\ p \in in["pgtable"]
    BY DEF Hit, Marked
  <2>4. \A x \in Thing : TableInv(x)'
    BY <2>1, <2>2 DEF IInv, InBoundsInv, TableInv
  <2>. QED  BY <2>1, <2>2, <2>3, <2>4 DEF IInv, InBoundsInv, CreateInv
<1>. QED  BY <1>1, <1>2 DEF IInv

LEMMA AccessMissesTlb ==
  ASSUME IInv, NEW p \in Page, NEW write \in BOOLEAN, AccessBy(p, write), TlbMiss(p, write)
  PROVE  IInv'
<1>1. /\ TypeOK /\ InBounds /\ vm' = vm
      /\ p \in in["pgtable"] /\ p \notin in["tlb"] /\ in["tlb"] \subseteq in["pgtable"]
  BY DEF IInv, AccessBy, TlbMiss, InBoundsInv
<1>2. /\ in' = [in EXCEPT !["tlb"] = Swap(in["tlb"], Victim("tlb"), p)]
      /\ rr' = [rr EXCEPT !["tlb"] = RRSlot("tlb", p)]
      /\ rr_index' = [rr_index EXCEPT !["tlb"] = RRNext("tlb")]
      /\ stats' = [stats EXCEPT !.tlb_misses = @ + 1]
      /\ dirty' = Marked(p, write) /\ entered' = entered
  BY DEF TlbMiss
<1>3. /\ in'["tlb"] = Swap(in["tlb"], Victim("tlb"), p) /\ in'["pgtable"] = in["pgtable"]
      /\ rr'["tlb"] = RRSlot("tlb", p) /\ rr'["pgtable"] = rr["pgtable"]
      /\ rr_index'["tlb"] = RRNext("tlb") /\ rr_index'["pgtable"] = rr_index["pgtable"]
  BY <1>1, <1>2 DEF TypeOK, Thing
<1>4. /\ TableInv("tlb")'
      /\ in'["tlb"] \in SUBSET Page /\ rr'["tlb"] \in [Page -> Page] /\ rr_index'["tlb"] \in Page
  BY <1>1, <1>3, TableEvicts DEF Thing
<1>5. in' \in [Thing -> SUBSET Page] /\ rr' \in [Thing -> [Page -> Page]] /\ rr_index' \in [Thing -> Page]
  BY <1>1, <1>2, <1>3, <1>4 DEF TypeOK, Thing
<1>6. TypeOK' /\ NoLostWrite'
  <2>1. /\ Marked(p, write) \in SUBSET Page /\ dirtied' \in Nat
        /\ Cardinality(Marked(p, write)) - Cardinality(dirty) = dirtied' - dirtied
    BY MarkCounts DEF IInv, AccessBy
  <2>2. Cardinality(dirty) \in Nat /\ Cardinality(Marked(p, write)) \in Nat
    BY <2>1, PagesFinite DEF IInv, TypeOK
  <2>3. /\ stats' \in [pg_faults : Nat, tlb_misses : Nat, disk_writes : Nat]
        /\ stats'.disk_writes = stats.disk_writes
    BY <1>1, <1>2 DEF TypeOK
  <2>4. /\ clock' \in 0..MaxClock /\ time' = clock' % TimeRange
        /\ used' \in [Page -> 0 .. TimeRange - 1] /\ lastUse' \in [Page -> 0..MaxClock]
    BY <1>1, TouchTypes DEF AccessBy
  <2>5. TypeOK'
    BY <1>1, <1>2, <1>5, <2>1, <2>3, <2>4 DEF TypeOK
  <2>6. stats.disk_writes \in Nat /\ dirtied \in Nat /\ dirtied = stats.disk_writes + Cardinality(dirty)
    BY <1>1 DEF TypeOK, IInv, NoLostWrite
  <2>7. dirtied' = stats'.disk_writes + Cardinality(dirty')
    BY <1>2, <2>1, <2>2, <2>3, <2>6
  <2>. QED  BY <2>5, <2>7 DEF NoLostWrite
<1>7. CreateInv' /\ InBoundsInv'
  <2>1. InBounds' /\ vm'.state = "open"
    BY <1>1 DEF InBounds
  <2>2. TableInv("pgtable")'
    BY <1>1, <1>3 DEF IInv, InBoundsInv, TableInv, Thing
  <2>3. in'["tlb"] \subseteq in'["pgtable"]
    BY <1>1, <1>3 DEF Swap
  <2>4. dirty' \subseteq in'["pgtable"]
    BY <1>1, <1>2, <1>3 DEF Marked, IInv, InBoundsInv
  <2>5. \A x \in Thing : TableInv(x)'
    BY <1>4, <2>2 DEF Thing
  <2>. QED  BY <1>1, <2>1, <2>3, <2>4, <2>5 DEF InBoundsInv, CreateInv, IInv
<1>. QED  BY <1>6, <1>7 DEF IInv

LEMMA AccessFaults ==
  ASSUME IInv, NEW p \in Page, NEW write \in BOOLEAN, AccessBy(p, write), PageFault(p, write)
  PROVE  IInv'
<1>1. PICK old : old = Victim("pgtable")
  OBVIOUS
<1>2. /\ TypeOK /\ InBounds /\ vm' = vm
      /\ in["tlb"] \subseteq in["pgtable"] /\ dirty \subseteq in["pgtable"]
      /\ p \notin in["pgtable"] /\ p \notin in["tlb"]
  BY DEF IInv, AccessBy, PageFault, InBoundsInv
<1>3. old \in in["pgtable"] /\ old # p
  BY <1>1, <1>2, VictimIn DEF Thing
<1>4. /\ in'["pgtable"] = Swap(in["pgtable"], Victim("pgtable"), p)
      /\ rr'["pgtable"] = RRSlot("pgtable", p) /\ rr_index'["pgtable"] = RRNext("pgtable")
  BY <1>1 DEF PageFault, Thing
<1>5. /\ TableInv("pgtable")'
      /\ in'["pgtable"] \in SUBSET Page /\ rr'["pgtable"] \in [Page -> Page]
      /\ rr_index'["pgtable"] \in Page
  BY <1>2, <1>4, TableEvicts DEF Thing
<1>6. /\ TableInv("tlb")'
      /\ in'["tlb"] \in SUBSET Page /\ rr'["tlb"] \in [Page -> Page] /\ rr_index'["tlb"] \in Page
      /\ in'["tlb"] \subseteq (in["tlb"] \ {old}) \union {p}
  <2>1. CASE old \in in["tlb"]
    <3>1. /\ in'["tlb"] = Swap(in["tlb"], old, p) /\ rr_index'["tlb"] = rr_index["tlb"]
          /\ rr'["tlb"] = IF vm.alg["tlb"] = RR THEN [rr["tlb"] EXCEPT ![Scan(old)] = p] ELSE rr["tlb"]
      BY <1>1, <2>1 DEF PageFault, Thing
    <3>2. rr_index'["tlb"] \in Page
      BY <1>2, <3>1 DEF TypeOK, Thing
    <3>. QED  BY <1>2, <2>1, <3>1, <3>2, TlbFollows DEF Swap
  <2>2. CASE old \notin in["tlb"]
    <3>1. /\ in'["tlb"] = Swap(in["tlb"], Victim("tlb"), p) /\ rr'["tlb"] = RRSlot("tlb", p)
          /\ rr_index'["tlb"] = RRNext("tlb")
      BY <1>1, <2>2 DEF PageFault, Thing
    <3>2. in'["tlb"] \subseteq in["tlb"] \union {p}
      BY <3>1 DEF Swap
    <3>. QED  BY <1>2, <2>2, <3>1, <3>2, TableEvicts DEF Thing
  <2>. QED  BY <2>1, <2>2
<1>7. \A x \in Thing : /\ TableInv(x)' /\ in'[x] \in SUBSET Page
                       /\ rr'[x] \in [Page -> Page] /\ rr_index'[x] \in Page
  BY <1>5, <1>6 DEF Thing
<1>8. in' \in [Thing -> SUBSET Page] /\ rr' \in [Thing -> [Page -> Page]] /\ rr_index' \in [Thing -> Page]
  <2>1. /\ in' = [x \in Thing |-> in'[x]]
        /\ rr' = [x \in Thing |-> rr'[x]] /\ rr_index' = [x \in Thing |-> rr_index'[x]]
    BY DEF PageFault, Thing
  <2>. QED  BY <1>7, <2>1
<1>9. /\ dirty' = Marked(p, write) \ {old} /\ stats' = FaultStats(old)
      /\ entered' = [entered EXCEPT ![p] = clock]
  BY <1>1 DEF PageFault
<1>10. TypeOK' /\ NoLostWrite'
  <2>1. /\ Marked(p, write) \in SUBSET Page /\ dirtied' \in Nat
        /\ Cardinality(Marked(p, write)) - Cardinality(dirty) = dirtied' - dirtied
    BY MarkCounts DEF IInv, AccessBy
  <2>2. /\ IsFiniteSet(Marked(p, write)) /\ Cardinality(Marked(p, write)) \in Nat
        /\ Cardinality(dirty) \in Nat
    BY <1>2, <2>1, PagesFinite DEF TypeOK
  <2>3. old \in Marked(p, write) <=> old \in dirty
    BY <1>3 DEF Marked
  <2>4. Cardinality(dirty') = Cardinality(Marked(p, write)) - IF old \in dirty THEN 1 ELSE 0
    <3>1. CASE old \in dirty
      <4>1. Cardinality(dirty') = Cardinality(Marked(p, write)) - 1
        BY <1>9, <2>2, <2>3, <3>1, FS_RemoveElement
      <4>. QED  BY <3>1, <4>1
    <3>2. CASE old \notin dirty
      <4>1. dirty' = Marked(p, write)
        BY <1>9, <2>3, <3>2
      <4>. QED  BY <2>2, <3>2, <4>1
    <3>. QED  BY <3>1, <3>2
  <2>5. /\ stats' \in [pg_faults : Nat, tlb_misses : Nat, disk_writes : Nat]
        /\ stats'.disk_writes = stats.disk_writes + IF old \in dirty THEN 1 ELSE 0
    BY <1>2, <1>9 DEF TypeOK, FaultStats
  <2>6. /\ clock' \in 0..MaxClock /\ time' = clock' % TimeRange
        /\ used' \in [Page -> 0 .. TimeRange - 1] /\ lastUse' \in [Page -> 0..MaxClock]
    BY <1>2, TouchTypes DEF AccessBy
  <2>7. entered' \in [Page -> 0..MaxClock]
    BY <1>2, <1>9 DEF TypeOK
  <2>8. TypeOK'
    BY <1>2, <1>8, <1>9, <2>1, <2>5, <2>6, <2>7 DEF TypeOK
  <2>9. stats.disk_writes \in Nat /\ dirtied \in Nat /\ dirtied = stats.disk_writes + Cardinality(dirty)
    BY <1>2 DEF TypeOK, IInv, NoLostWrite
  <2>10. dirtied' = stats'.disk_writes + Cardinality(dirty')
    BY <2>1, <2>2, <2>4, <2>5, <2>9
  <2>. QED  BY <2>8, <2>10 DEF NoLostWrite
<1>11. CreateInv' /\ InBoundsInv'
  <2>1. InBounds' /\ vm'.state = "open"
    BY <1>2 DEF InBounds
  <2>2. in'["pgtable"] = (in["pgtable"] \ {old}) \union {p}
    BY <1>1, <1>4 DEF Swap
  <2>3. in'["tlb"] \subseteq in'["pgtable"]
    BY <1>2, <1>6, <2>2
  <2>4. dirty' \subseteq in'["pgtable"]
    BY <1>2, <1>9, <2>2 DEF Marked
  <2>. QED  BY <1>2, <1>7, <2>1, <2>3, <2>4 DEF InBoundsInv, CreateInv, IInv
<1>. QED  BY <1>10, <1>11 DEF IInv
\* An access is one to the page of its address.
LEMMA AccessFacts ==
  ASSUME IInv, NEW addr \in Addresses, NEW write \in BOOLEAN, Access(addr, write)
  PROVE  \E p \in Page : /\ AccessBy(p, write)
                         /\ Hit(p, write) \/ TlbMiss(p, write) \/ PageFault(p, write)
<1>1. PICK p : p = addr \div vm.pgSize
  OBVIOUS
<1>2. /\ AccessBy(p, write) /\ addr < vm.pages * vm.pgSize
      /\ Hit(p, write) \/ TlbMiss(p, write) \/ PageFault(p, write)
  BY <1>1 DEF Access, AccessBy
<1>3. p \in Page
  <2>1. vm.pages \in Size /\ vm.pgSize \in PgSize \ {0}
    BY <1>2, OpenSizes DEF IInv, AccessBy, InBounds
  <2>2. addr \in Nat /\ vm.pages \in Nat /\ vm.pgSize \in Nat \ {0} /\ vm.pages <= MaxPages
    BY <2>1, SizeAssumption DEF Size, PgSize, Addresses
  <2>3. p \in 0 .. vm.pages - 1
    BY <1>1, <1>2, <2>2, PageInRange
  <2>. QED  BY <2>2, <2>3, SizeAssumption DEF Page
<1>. QED  BY <1>2, <1>3

LEMMA AccessStep ==
  ASSUME IInv, NEW addr \in Addresses, NEW write \in BOOLEAN, Access(addr, write)
  PROVE  IInv'
<1>1. PICK p \in Page : /\ AccessBy(p, write)
                        /\ Hit(p, write) \/ TlbMiss(p, write) \/ PageFault(p, write)
  BY AccessFacts
<1>2. CASE Hit(p, write)
  BY <1>1, <1>2, AccessHits
<1>3. CASE TlbMiss(p, write)
  BY <1>1, <1>3, AccessMissesTlb
<1>4. CASE PageFault(p, write)
  BY <1>1, <1>4, AccessFaults
<1>. QED  BY <1>1, <1>2, <1>3, <1>4

----------------------------------------------------------------------------
(* createVM                                                                *)

LEMMA FirstPages ==
  ASSUME NEW n \in 0 .. MaxPages
  PROVE  0 .. n - 1 \in SUBSET Page /\ Cardinality(0 .. n - 1) = n
<1>1. n \in Nat /\ n <= MaxPages
  BY SizeAssumption
<1>2. Cardinality(0 .. n - 1) = IF 0 > n - 1 THEN 0 ELSE n - 1 - 0 + 1
  BY <1>1, FS_Interval
<1>. QED  BY <1>1, <1>2, SizeAssumption DEF Page

LEMMA CreateStep ==
  ASSUME IInv, NEW vmSize \in Size, NEW pmSize \in Size, NEW tlbSize \in Size, NEW pgSize \in PgSize,
         NEW pgAlg \in {RR, LRU}, NEW tlbAlg \in {RR, LRU},
         CreateVM(vmSize, pmSize, pgSize, tlbSize, pgAlg, tlbAlg)
  PROVE  IInv'
<1>1. PICK loaded : loaded = IF tlbSize > pmSize THEN tlbSize ELSE pmSize
  OBVIOUS
<1>2. /\ pmSize \in 1 .. MaxPages /\ tlbSize \in 1 .. MaxPages /\ pgSize \in Nat \ {0}
      /\ loaded \in 1 .. MaxPages
  BY <1>1, SizeAssumption DEF CreateVM, Rejected, Size, PgSize
<1>3. /\ vm' = [state |-> "open", pages |-> vmSize, pgSize |-> pgSize,
                 size |-> [x \in Thing |-> IF x = "tlb" THEN tlbSize ELSE pmSize],
                 alg |-> [x \in Thing |-> IF x = "tlb" THEN tlbAlg ELSE pgAlg]]
      /\ clock' = loaded /\ time' = loaded % TimeRange
      /\ used' = [p \in Page |-> IF p < loaded THEN p % TimeRange ELSE 0]
      /\ lastUse' = [p \in Page |-> IF p < loaded THEN p ELSE 0] /\ entered' = lastUse'
      /\ in' = [x \in Thing |-> IF x = "tlb" THEN 0 .. tlbSize - 1 ELSE 0 .. loaded - 1]
      /\ rr' = [x \in Thing |-> [i \in Page |-> IF i < vm'.size[x] THEN i ELSE 0]]
      /\ UNCHANGED <<dirty, dirtied, rr_index, stats>> /\ vm.state = "none"
  BY <1>1 DEF CreateVM
<1>4. /\ dirty = {} /\ \A x \in Thing : rr_index[x] = 0
      /\ TypeOK
  BY <1>3 DEF IInv, CreateInv
<1>5. vm' \in Sizes
  BY <1>2, <1>3 DEF Sizes, Thing
<1>6. /\ vm'.state = "open" /\ vm'.pgSize = pgSize /\ vm'.size["tlb"] = tlbSize
      /\ vm'.size["pgtable"] = pmSize
  BY <1>3 DEF Thing
<1>7. TypeOK'
  <2>1. \A p \in Page : p \in 0..MaxClock /\ p % TimeRange \in 0 .. TimeRange - 1 /\ 0 \in 0 .. TimeRange - 1
    BY SizeAssumption, ModIsRemainder DEF Page, IsRemainder
  <2>2. used' \in [Page -> 0 .. TimeRange - 1] /\ lastUse' \in [Page -> 0..MaxClock]
    BY <1>3, <2>1, SizeAssumption
  <2>3. clock' \in 0..MaxClock /\ time' = clock' % TimeRange
    BY <1>2, <1>3, SizeAssumption
  <2>4. in' \in [Thing -> SUBSET Page]
    BY <1>2, <1>3, FirstPages
  <2>5. rr' \in [Thing -> [Page -> Page]]
    BY <1>3, SizeAssumption DEF Page
  <2>6. entered' = lastUse' /\ UNCHANGED <<dirty, dirtied, rr_index, stats>>
    BY <1>3
  <2>. QED  BY <1>4, <1>5, <2>2, <2>3, <2>4, <2>5, <2>6 DEF TypeOK
<1>8. NoLostWrite'
  BY <1>3 DEF IInv, NoLostWrite
<1>9. CreateInv'
  BY <1>2, <1>3, <1>6 DEF CreateInv, Thing
<1>10. InBoundsInv'
  <2>. SUFFICES ASSUME InBounds' PROVE InBoundsInv'
    BY DEF InBoundsInv
  <2>1. loaded = pmSize /\ tlbSize <= pmSize
    BY <1>1, <1>2, <1>6 DEF InBounds
  <2>2. ASSUME NEW x \in Thing
        PROVE  /\ in'[x] = 0 .. vm'.size[x] - 1 /\ vm'.size[x] \in 1 .. MaxPages
               /\ rr_index'[x] = 0 /\ \A i \in 0 .. vm'.size[x] - 1 : rr'[x][i] = i
    <3>1. in'[x] = 0 .. vm'.size[x] - 1 /\ vm'.size[x] \in 1 .. MaxPages /\ rr_index'[x] = 0
      BY <1>2, <1>3, <1>4, <1>6, <2>1 DEF Thing
    <3>2. 0 .. vm'.size[x] - 1 \in SUBSET Page
      BY <3>1, FirstPages
    <3>. QED  BY <1>3, <3>1, <3>2
  <2>3. ASSUME NEW x \in Thing
        PROVE  TableInv(x)'
    <3>1. Cardinality(in'[x]) = vm'.size[x] /\ rr_index'[x] < vm'.size[x]
      BY <2>2, FirstPages
    <3>2. {rr'[x][i] : i \in 0 .. vm'.size[x] - 1} = in'[x]
      <4>1. \A i \in 0 .. vm'.size[x] - 1 : rr'[x][i] = i
        BY <2>2
      <4>2. {rr'[x][i] : i \in 0 .. vm'.size[x] - 1} = 0 .. vm'.size[x] - 1
        BY <4>1
      <4>. QED  BY <2>2, <4>2
    <3>3. Lists(rr'[x], vm'.size[x], in'[x])
      BY <2>2, <3>2 DEF Lists
    <3>. QED  BY <3>1, <3>3 DEF TableInv
  <2>4. in'["tlb"] \subseteq in'["pgtable"] /\ dirty' = {}
    BY <1>2, <1>3, <1>4, <2>1 DEF Thing
  <2>. QED  BY <2>3, <2>4 DEF InBoundsInv
<1>. QED  BY <1>7, <1>8, <1>9, <1>10 DEF IInv

----------------------------------------------------------------------------
(* The invariant                                                           *)

LEMMA InitIInv == Init => IInv
<1>. SUFFICES ASSUME Init PROVE IInv
  OBVIOUS
<1>1. TypeOK
  <2>1. 0 % TimeRange = 0 /\ 0 \in 0 .. TimeRange - 1 /\ 0 \in 0..MaxClock /\ 0 \in Page
    BY SizeAssumption, ModOfSmall DEF Page
  <2>2. vm \in Flags
    BY DEF Init, Flags
  <2>. QED  BY <2>1, <2>2 DEF Init, TypeOK
<1>2. NoLostWrite
  BY FS_EmptySet DEF Init, NoLostWrite
<1>3. vm.state = "none"
  BY DEF Init
<1>4. CreateInv /\ InBoundsInv
  BY <1>3 DEF Init, CreateInv, InBoundsInv, InBounds
<1>. QED  BY <1>1, <1>2, <1>4 DEF IInv

LEMMA NextIInv == IInv /\ [Next]_vars => IInv'
<1>. SUFFICES ASSUME IInv, [Next]_vars PROVE IInv'
  OBVIOUS
<1>1. ASSUME UNCHANGED <<dirty, stats, dirtied, tables, uses>>,
             vm' = [state |-> "null"] \/ vm' = [state |-> "exited"]
      PROVE  IInv'
  <2>1. UNCHANGED <<dirty, stats, dirtied, in, rr, rr_index, entered, clock, time, used, lastUse>>
    BY <1>1 DEF tables, uses
  <2>2. vm' \in Flags /\ vm'.state \in {"null", "exited"}
    BY <1>1 DEF Flags
  <2>3. TypeOK' /\ NoLostWrite'
    BY <2>1, <2>2 DEF IInv, TypeOK, NoLostWrite
  <2>. QED  BY <2>2, <2>3 DEF IInv, CreateInv, InBoundsInv, InBounds
<1>2. CASE UNCHANGED vars
  <2>1. UNCHANGED <<vm, dirty, stats, dirtied, in, rr, rr_index, entered, clock, time, used, lastUse>>
    BY <1>2 DEF vars, tables, uses
  <2>2. TypeOK' /\ NoLostWrite'
    BY <2>1 DEF IInv, TypeOK, NoLostWrite
  <2>3. CreateInv' /\ InBoundsInv'
    BY <2>1 DEF IInv, CreateInv, InBoundsInv, InBounds, TableInv
  <2>. QED  BY <2>2, <2>3 DEF IInv
<1>3. ASSUME NEW addr, RangeError(addr) PROVE IInv'
  BY <1>1, <1>3 DEF RangeError
<1>4. ASSUME NEW vmSize, NEW pmSize, NEW tlbSize, NEW pgSize, CreateFails(vmSize, pmSize, pgSize, tlbSize)
      PROVE  IInv'
  BY <1>1, <1>4 DEF CreateFails
<1>. QED  BY <1>2, <1>3, <1>4, CreateStep, AccessStep DEF Next, Addresses

LEMMA VMInvariant == Spec => []IInv
BY InitIInv, NextIInv, PTL DEF Spec

(* The flags, the two round robin arrays and the sizes agree after any     *)
(* sequence of reads and writes, whatever the sizes and the algorithms.    *)
THEOREM TablesAlwaysAgree == Spec => []TablesAgree
<1>1. IInv => TablesAgree
  BY DEF IInv, TablesAgree, InBoundsInv, TableInv, Lists, TablesFull, OrderListsTable
<1>. QED  BY <1>1, VMInvariant, PTL

(* Every write to a clean page reaches the disk or is still marked.        *)
THEOREM NoWriteIsLost == Spec => []NoLostWrite
<1>1. IInv => NoLostWrite
  BY DEF IInv
<1>. QED  BY <1>1, VMInvariant, PTL
----------------------------------------------------------------------------
(* The order of the pages                                                  *)

\* n % n, where the round robin index returns to the first slot.
LEMMA ModOfSelf ==
  ASSUME NEW n \in Nat \ {0}
  PROVE  n % n = 0
<1>1. n = n * 1 + 0
  OBVIOUS
<1>2. IsRemainder(0, n, n)
  BY <1>1 DEF IsRemainder
<1>. QED  BY <1>2, ModIsRemainder, OneRemainder

LEMMA TimeIsClock ==
  ASSUME MaxClock < TimeRange, NEW c \in 0..MaxClock
  PROVE  c % TimeRange = c
<1>1. c \in Nat /\ TimeRange \in Nat \ {0} /\ c < TimeRange
  BY SizeAssumption
<1>. QED  BY <1>1, ModOfSmall

\* A page fault under round robin puts the new page last in the order.
LEMMA FifoFault ==
  ASSUME IInv, FifoInv, NEW p \in Page, NEW write \in BOOLEAN, AccessBy(p, write),
         PageFault(p, write), vm.alg["pgtable"] = RR
  PROVE  FifoInv'
<1>. DEFINE x == "pgtable"
<1>1. PICK k, n, list, new : k = rr_index[x] /\ n = vm.size[x] /\ list = rr[x] /\ new = rr'[x]
  OBVIOUS
<1>2. /\ TypeOK /\ InBounds /\ vm' = vm /\ TableInv(x) /\ p \notin in[x] /\ clock' = clock + 1
  BY DEF IInv, AccessBy, PageFault, InBoundsInv, Thing, Touch
<1>3. n \in 1 .. MaxPages /\ 0 .. n - 1 \subseteq Page
  BY <1>1, <1>2, OpenSizes DEF IInv, InBounds, Thing
<1>4. k \in 0 .. n - 1
  <2>1. k < n /\ k \in Nat
    BY <1>1, <1>2, SizeAssumption DEF TableInv, TypeOK, Thing, Page
  <2>. QED  BY <1>3, <2>1
<1>5. Lists(list, n, in[x]) /\ list \in [Page -> Page]
  BY <1>1, <1>2 DEF TableInv, TypeOK, Thing
<1>6. /\ new = [list EXCEPT ![k] = p] /\ in'[x] = (in[x] \ {list[k]}) \union {p}
      /\ rr_index'[x] = (k + 1) % n /\ entered' = [entered EXCEPT ![p] = clock]
  BY <1>1 DEF PageFault, RRSlot, RRNext, Victim, Swap, Thing
<1>7. /\ \A q \in in[x] : entered[q] < clock
      /\ \A a, b \in 0 .. n - 1 : Before(a, b) => entered[list[a]] < entered[list[b]]
  BY <1>1, <1>2 DEF FifoInv
<1>8. \A a \in 0 .. n - 1 : list[a] \in in[x] /\ list[a] # p /\ a \in Page
  BY <1>2, <1>3, <1>5 DEF Lists
<1>9. ASSUME NEW a \in 0 .. n - 1, NEW b \in 0 .. n - 1, Before(a, b)'
      PROVE  a # k /\ (b = k \/ Before(a, b))
  <2>1. CASE k + 1 < n
    <3>1. rr_index'[x] = k + 1
      BY <1>3, <1>4, <1>6, <2>1, ModOfSmall
    <3>. QED  BY <1>1, <1>3, <1>4, <1>9, <3>1 DEF Before
  <2>2. CASE k + 1 = n
    <3>1. rr_index'[x] = 0
      BY <1>3, <1>6, <2>2, ModOfSelf
    <3>. QED  BY <1>1, <1>3, <1>4, <1>9, <2>2, <3>1 DEF Before
  <2>. QED  BY <1>3, <1>4, <2>1, <2>2
<1>10. clock \in Nat /\ entered \in [Page -> 0..MaxClock] /\ in[x] \in SUBSET Page
  BY <1>2, SizeAssumption DEF TypeOK, Thing
<1>11. \A q \in in'[x] : entered'[q] < clock'
  <2>1. \A q \in in[x] : entered[q] \in Nat /\ entered[q] < clock
    BY <1>7, <1>10, SizeAssumption
  <2>. QED  BY <1>2, <1>6, <1>10, <2>1
<1>12. ASSUME NEW a \in 0 .. n - 1, NEW b \in 0 .. n - 1, Before(a, b)'
       PROVE  entered'[new[a]] < entered'[new[b]]
  <2>1. new[a] = list[a] /\ entered'[new[a]] = entered[list[a]] /\ list[a] \in in[x]
    BY <1>5, <1>6, <1>8, <1>9, <1>10, <1>12
  <2>2. CASE b = k
    <3>1. new[b] = p /\ entered'[new[b]] = clock
      BY <1>5, <1>6, <1>8, <1>10, <2>2
    <3>. QED  BY <1>7, <2>1, <3>1
  <2>3. CASE b # k
    <3>1. entered'[new[b]] = entered[list[b]]
      BY <1>5, <1>6, <1>8, <1>10, <2>3
    <3>. QED  BY <1>7, <1>9, <1>12, <2>1, <2>3, <3>1
  <2>. QED  BY <2>2, <2>3
<1>. QED  BY <1>1, <1>2, <1>11, <1>12 DEF FifoInv

LEMMA OrderCreate ==
  ASSUME IInv, IInv', OrderInv, NEW vmSize \in Size, NEW pmSize \in Size, NEW tlbSize \in Size,
         NEW pgSize \in PgSize, NEW pgAlg \in {RR, LRU}, NEW tlbAlg \in {RR, LRU},
         CreateVM(vmSize, pmSize, pgSize, tlbSize, pgAlg, tlbAlg)
  PROVE  OrderInv'
<1>1. PICK loaded : loaded = IF tlbSize > pmSize THEN tlbSize ELSE pmSize
  OBVIOUS
<1>2. loaded \in 0 .. MaxPages /\ pmSize \in Nat /\ tlbSize \in Nat
  BY <1>1, SizeAssumption DEF Size
<1>3. /\ vm'.size["pgtable"] = pmSize /\ vm'.size["tlb"] = tlbSize
      /\ clock' = loaded
      /\ used' = [p \in Page |-> IF p < loaded THEN p % TimeRange ELSE 0]
      /\ lastUse' = [p \in Page |-> IF p < loaded THEN p ELSE 0] /\ entered' = lastUse'
      /\ in'["pgtable"] = 0 .. loaded - 1
      /\ rr'["pgtable"] = [i \in Page |-> IF i < pmSize THEN i ELSE 0]
      /\ rr_index'["pgtable"] = 0
  BY <1>1 DEF CreateVM, Thing, IInv, CreateInv
<1>4. TimeInv'
  <2>. SUFFICES ASSUME MaxClock < TimeRange PROVE time' = clock' /\ used' = lastUse'
    BY DEF TimeInv
  <2>1. \A p \in Page : p % TimeRange = p
    BY SizeAssumption, ModOfSmall DEF Page
  <2>2. time' = clock'
    BY TimeIsClock DEF IInv, TypeOK
  <2>. QED  BY <1>3, <2>1, <2>2
<1>5. FifoInv'
  <2>. SUFFICES ASSUME InBounds' PROVE FifoInv'
    BY DEF FifoInv
  <2>1. loaded = pmSize
    BY <1>1, <1>2, <1>3 DEF InBounds
  <2>2. \A a \in 0 .. pmSize - 1 : a \in Page /\ rr'["pgtable"][a] = a /\ entered'[a] = a
    BY <1>2, <1>3, <2>1, SizeAssumption DEF Page
  <2>3. \A a, b \in 0 .. pmSize - 1 : Before(a, b)' => a < b
    BY <1>2, <1>3 DEF Before
  <2>. QED  BY <1>2, <1>3, <2>1, <2>2, <2>3 DEF FifoInv
<1>. QED  BY <1>4, <1>5 DEF OrderInv

LEMMA OrderAccess ==
  ASSUME IInv, IInv', OrderInv, NEW p \in Page, NEW write \in BOOLEAN, AccessBy(p, write),
         Hit(p, write) \/ TlbMiss(p, write) \/ PageFault(p, write)
  PROVE  OrderInv'
<1>1. InBounds /\ TypeOK /\ TypeOK' /\ vm' = vm
  BY DEF IInv, AccessBy
<1>2. TimeInv'
  <2>. SUFFICES ASSUME MaxClock < TimeRange PROVE time' = clock' /\ used' = lastUse'
    BY DEF TimeInv
  <2>1. time' = clock'
    BY <1>1, TimeIsClock DEF TypeOK
  <2>. QED  BY <2>1 DEF AccessBy, Touch, OrderInv, TimeInv
<1>3. CASE Hit(p, write) \/ TlbMiss(p, write)
  <2>1. /\ in'["pgtable"] = in["pgtable"] /\ rr'["pgtable"] = rr["pgtable"]
        /\ rr_index'["pgtable"] = rr_index["pgtable"] /\ entered' = entered
    BY <1>1, <1>3 DEF Hit, TlbMiss, tables, TypeOK, Thing
  <2>2. clock' = clock + 1 /\ clock \in Nat
    BY <1>1, SizeAssumption DEF AccessBy, Touch, TypeOK
  <2>3. \A q \in in["pgtable"] : entered[q] \in Nat
    BY <1>1, SizeAssumption DEF TypeOK, Thing
  <2>4. FifoInv'
    BY <1>1, <2>1, <2>2, <2>3 DEF OrderInv, FifoInv, Before, InBounds
  <2>. QED  BY <1>2, <2>4 DEF OrderInv
<1>4. CASE PageFault(p, write)
  <2>1. CASE vm.alg["pgtable"] = RR
    BY <1>2, <1>4, <2>1, FifoFault DEF OrderInv
  <2>2. CASE vm.alg["pgtable"] # RR
    BY <1>1, <1>2, <2>2 DEF OrderInv, FifoInv
  <2>. QED  BY <2>1, <2>2
<1>. QED  BY <1>3, <1>4
\* What one step may evict: the property, for one table and one page.
NamedVictim(x, old) ==
  /\ (vm.alg[x] = LRU /\ (x = "tlb" => old \in in'["pgtable"])) => LeastRecentlyUsed(x, old)
  /\ (vm.alg[x] = RR /\ x = "pgtable") => FirstIn(x, old)

\* A page that a table evicts of its own choice was used least recently.
LEMMA VictimLeastRecent ==
  ASSUME IInv, TimeInv, MaxClock < TimeRange, InBounds, NEW x \in Thing, vm.alg[x] = LRU
  PROVE  LeastRecentlyUsed(x, Victim(x))
<1>1. in[x] \in SUBSET Page /\ TypeOK /\ used = lastUse /\ vm.alg[x] # RR
  BY DEF IInv, TypeOK, TimeInv, RR, LRU
<1>2. Victim(x) \in in[x]
  BY VictimIn
<1>3. \A q \in in[x] : used[LeastRecent(in[x])] <= used[q]
  BY <1>1, <1>2, LeastRecentIn
<1>. QED  BY <1>1, <1>3 DEF Victim, LeastRecentlyUsed

\* The page in the slot of the round robin index entered first.
LEMMA VictimFirstIn ==
  ASSUME IInv, FifoInv, InBounds, vm.alg["pgtable"] = RR
  PROVE  FirstIn("pgtable", Victim("pgtable"))
<1>. DEFINE x == "pgtable"
            k == rr_index[x]
<1>1. TypeOK /\ TableInv(x)
  BY DEF IInv, InBoundsInv, Thing
<1>2. vm.size[x] \in 1 .. MaxPages
  BY OpenSizes DEF IInv, InBounds, Thing
<1>3. k \in 0 .. vm.size[x] - 1
  <2>1. k < vm.size[x] /\ k \in Nat
    BY <1>1, SizeAssumption DEF TableInv, TypeOK, Thing, Page
  <2>. QED  BY <1>2, <2>1
<1>4. \A a, b \in 0 .. vm.size[x] - 1 : Before(a, b) => entered[rr[x][a]] < entered[rr[x][b]]
  BY DEF FifoInv
<1>5. \A q \in in[x] : entered[q] \in Nat
  BY <1>1, SizeAssumption DEF TypeOK, Thing
<1>6. ASSUME NEW q \in in[x] PROVE entered[rr[x][k]] <= entered[q]
  <2>1. PICK b \in 0 .. vm.size[x] - 1 : q = rr[x][b]
    BY <1>1 DEF TableInv, Lists
  <2>2. CASE b = k
    BY <1>5, <2>1, <2>2
  <2>3. CASE b # k
    <3>1. Before(k, b)
      BY <1>2, <1>3, <2>3 DEF Before
    <3>2. entered[rr[x][k]] < entered[q]
      BY <1>3, <1>4, <2>1, <3>1
    <3>3. rr[x][k] \in in[x]
      BY <1>1, <1>3 DEF TableInv, Lists
    <3>. QED  BY <1>5, <3>2, <3>3
  <2>. QED  BY <2>2, <2>3
<1>. QED  BY <1>6 DEF FirstIn, Victim

LEMMA StepEvictsAsNamed ==
  ASSUME IInv, OrderInv, MaxClock < TimeRange, Next, NEW x \in Thing, NEW old \in in[x] \ in'[x]
  PROVE  NamedVictim(x, old)
<1>1. ASSUME in' = in \/ in[x] = {} PROVE FALSE
  BY <1>1
<1>2. ASSUME NEW p \in Page, NEW write \in BOOLEAN, AccessBy(p, write),
             Hit(p, write) \/ TlbMiss(p, write) \/ PageFault(p, write)
      PROVE  NamedVictim(x, old)
  <2>1. InBounds /\ TypeOK /\ TimeInv /\ FifoInv
    BY <1>2 DEF AccessBy, IInv, OrderInv
  <2>2. CASE Hit(p, write)
    BY <1>1, <2>2 DEF Hit, tables
  <2>3. CASE TlbMiss(p, write)
    <3>1. in'["pgtable"] = in["pgtable"] /\ in'["tlb"] = Swap(in["tlb"], Victim("tlb"), p)
      BY <2>1, <2>3 DEF TlbMiss, TypeOK, Thing
    <3>2. x = "tlb" /\ old = Victim("tlb")
      BY <3>1 DEF Thing, Swap
    <3>. QED  BY <2>1, <3>2, VictimLeastRecent DEF NamedVictim
  <2>4. CASE PageFault(p, write)
    <3>1. in'["pgtable"] = Swap(in["pgtable"], Victim("pgtable"), p)
      BY <2>4 DEF PageFault, Thing
    <3>2. CASE x = "pgtable"
      <4>1. old = Victim("pgtable")
        BY <3>1, <3>2 DEF Swap
      <4>. QED  BY <2>1, <3>2, <4>1, VictimLeastRecent, VictimFirstIn DEF NamedVictim
    <3>3. CASE x = "tlb" /\ Victim("pgtable") \in in["tlb"]
      <4>1. in'["tlb"] = Swap(in["tlb"], Victim("pgtable"), p)
        BY <2>4, <3>3 DEF PageFault, Thing
      <4>2. old = Victim("pgtable")
        BY <3>3, <4>1 DEF Swap
      <4>3. Victim("pgtable") # p
        BY <2>1, <2>4, VictimIn DEF PageFault, Thing
      <4>4. old \notin in'["pgtable"]
        BY <3>1, <4>2, <4>3 DEF Swap
      <4>. QED  BY <3>3, <4>4 DEF NamedVictim
    <3>4. CASE x = "tlb" /\ Victim("pgtable") \notin in["tlb"]
      <4>1. in'["tlb"] = Swap(in["tlb"], Victim("tlb"), p)
        BY <2>4, <3>4 DEF PageFault, Thing
      <4>2. old = Victim("tlb")
        BY <3>4, <4>1 DEF Swap
      <4>. QED  BY <2>1, <3>4, <4>2, VictimLeastRecent DEF NamedVictim
    <3>. QED  BY <3>2, <3>3, <3>4 DEF Thing
  <2>. QED  BY <1>2, <2>2, <2>3, <2>4
<1>3. ASSUME NEW addr \in Addresses, NEW write \in BOOLEAN, Access(addr, write)
      PROVE  NamedVictim(x, old)
  <2>1. PICK p \in Page : /\ AccessBy(p, write)
                          /\ Hit(p, write) \/ TlbMiss(p, write) \/ PageFault(p, write)
    BY <1>3, AccessFacts
  <2>. QED  BY <1>2, <2>1
<1>4. ASSUME vm.state = "none" PROVE FALSE
  BY <1>1, <1>4 DEF IInv, CreateInv
<1>5. ASSUME NEW addr, RangeError(addr) PROVE FALSE
  BY <1>1, <1>5 DEF RangeError, tables
<1>. QED  BY <1>3, <1>4, <1>5 DEF Next, Addresses, CreateVM, CreateFails

LEMMA OrderStep == IInv /\ IInv' /\ OrderInv /\ [Next]_vars => OrderInv'
<1>. SUFFICES ASSUME IInv, IInv', OrderInv, [Next]_vars PROVE OrderInv'
  OBVIOUS
<1>1. ASSUME NEW addr \in Addresses, NEW write \in BOOLEAN, Access(addr, write)
      PROVE  OrderInv'
  <2>1. PICK p \in Page : /\ AccessBy(p, write)
                          /\ Hit(p, write) \/ TlbMiss(p, write) \/ PageFault(p, write)
    BY <1>1, AccessFacts
  <2>. QED  BY <2>1, OrderAccess
<1>2. ASSUME UNCHANGED <<tables, uses>>, vm' = vm \/ vm'.state # "open" PROVE OrderInv'
  <2>1. UNCHANGED <<in, rr, rr_index, entered, clock, time, used, lastUse>>
    BY <1>2 DEF tables, uses
  <2>2. TimeInv'
    BY <2>1 DEF OrderInv, TimeInv
  <2>3. FifoInv'
    BY <1>2, <2>1 DEF OrderInv, FifoInv, Before, InBounds
  <2>. QED  BY <2>2, <2>3 DEF OrderInv
<1>3. ASSUME NEW addr, RangeError(addr) PROVE OrderInv'
  BY <1>2, <1>3 DEF RangeError
<1>4. ASSUME NEW vmSize, NEW pmSize, NEW tlbSize, NEW pgSize, CreateFails(vmSize, pmSize, pgSize, tlbSize)
      PROVE  OrderInv'
  BY <1>2, <1>4 DEF CreateFails
<1>5. CASE UNCHANGED vars
  BY <1>2, <1>5 DEF vars
<1>. QED  BY <1>1, <1>3, <1>4, <1>5, OrderCreate DEF Next, Addresses

(* As long as the times do not wrap around, LRU evicts the page that was   *)
(* used least recently, and round robin evicts from the page table the     *)
(* page that entered it first.                                             *)
THEOREM VictimsAreTheOnesNamed ==
  ASSUME MaxClock < TimeRange
  PROVE  Spec => EvictsAsNamed
<1>1. Init => OrderInv
  <2>1. Init => FifoInv
    BY DEF Init, FifoInv, InBounds
  <2>. QED  BY <2>1 DEF Init, OrderInv, TimeInv
<1>2. IInv /\ OrderInv /\ [Next]_vars
        => [\A x \in Thing : \A old \in in[x] \ in'[x] : NamedVictim(x, old)]_vars
  BY StepEvictsAsNamed
<1>. QED  BY <1>1, <1>2, OrderStep, VMInvariant, PTL DEF Spec, EvictsAsNamed, NamedVictim
=============================================================================
