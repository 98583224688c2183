----------------------------- MODULE VndbProofs -----------------------------
(***************************************************************************)
(* Proofs about VndbDownload.  The argument: of the window that is being   *)
(* fetched, what is stored are the objects of the lowest ranks, and a page *)
(* holds the ranks that follow.  The server only adds objects behind all   *)
(* others, so the ranks of the others never change.                        *)
(***************************************************************************)
EXTENDS VndbDownload, FiniteSetTheorems, WellFoundedInduction, TLAPS

(* A set of ids that is not empty has a largest one.                       *)
LEMMA HasMaximum ==
  ASSUME NEW S \in SUBSET Id, S # {}
  PROVE  \E i \in S : \A j \in S : j <= i
<1> DEFINE R == {ss \in Nat \X Nat : ss[1] < ss[2]}
           T == {n \in Nat : MaxId - n \in S}
<1>1. IsWellFoundedOn(R, Nat)
  BY NatLessThanWellFounded DEF OpToRel
<1>2. T # {}
  <2>1. PICK i \in S : TRUE
    OBVIOUS
  <2>2. MaxId - i \in Nat /\ MaxId - (MaxId - i) = i
    BY VndbAssumption DEF Id
  <2> QED BY <2>1, <2>2
<1>3. PICK m \in T : \A n \in T : <<n, m>> \notin R
  <2> HIDE DEF R
  <2> T \subseteq Nat OBVIOUS
  <2> QED BY <1>1, <1>2, WFMin, Zenon
<1>4. \A n \in T : ~(n < m)
  BY <1>3
<1>5. \A j \in S : MaxId - j \in T /\ MaxId - j \in Nat /\ j \in Int
  BY VndbAssumption DEF Id
<1>6. \A j \in S : j <= MaxId - m
  BY <1>4, <1>5, VndbAssumption
<1> QED BY <1>6

(* MaxOf is that id, and 0 if there is none (select max(id) of a table).   *)
LEMMA MaxOfIsMaximum ==
  ASSUME NEW S \in SUBSET Id
  PROVE  /\ MaxOf(S) \in 0..MaxId
         /\ S # {} => MaxOf(S) \in S
         /\ \A j \in S : j <= MaxOf(S)
<1>1. CASE S = {}
  BY <1>1, VndbAssumption DEF MaxOf
<1>2. CASE S # {}
  <2>1. MaxOf(S) = CHOOSE i \in S : \A j \in S : j <= i
    BY <1>2 DEF MaxOf
  <2>2. MaxOf(S) \in S /\ \A j \in S : j <= MaxOf(S)
    BY <1>2, <2>1, HasMaximum, Zenon
  <2>3. \A j \in S : j \in 0..MaxId
    BY VndbAssumption DEF Id
  <2> QED BY <1>2, <2>2, <2>3
<1> QED BY <1>1, <1>2

(* What is stored grows, and so does the largest id.                       *)
LEMMA MaxOfGrows ==
  ASSUME NEW S \in SUBSET Id, NEW T \in SUBSET Id, S \subseteq T
  PROVE  MaxOf(S) <= MaxOf(T)
<1>1. CASE S = {}
  <2>1. MaxOf(S) = 0
    BY <1>1 DEF MaxOf
  <2> QED BY <2>1, MaxOfIsMaximum
<1>2. CASE S # {}
  BY <1>2, MaxOfIsMaximum, Zenon
<1> QED BY <1>1, <1>2

RankIn(S, i) == Cardinality({j \in S : j <= i})

(* Of two objects the later one has the higher rank; ranks begin at 1.     *)
LEMMA RanksGoUp ==
  ASSUME NEW S \in SUBSET Int, IsFiniteSet(S), NEW i \in S
  PROVE  /\ RankIn(S, i) \in Nat \ {0}
         /\ RankIn(S, i) <= Cardinality(S)
         /\ \A j \in S : i < j => RankIn(S, i) < RankIn(S, j)
<1> DEFINE Below(k) == {j \in S : j <= k}
<1>1. \A k \in S : IsFiniteSet(Below(k)) /\ Cardinality(Below(k)) \in Nat
  BY FS_Subset, FS_CardinalityType
<1>2. RankIn(S, i) # 0
  <2>1. i \in Below(i)
    OBVIOUS
  <2> QED BY <1>1, <2>1, FS_EmptySet DEF RankIn
<1>3. RankIn(S, i) <= Cardinality(S)
  BY FS_Subset DEF RankIn
<1>4. ASSUME NEW j \in S, i < j PROVE RankIn(S, i) < RankIn(S, j)
  <2>0. \A k \in S : k \in Int
    OBVIOUS
  <2>1. Below(i) \subseteq Below(j)
    <3>1. \A k \in S : k <= i => k <= j
      BY <1>4, <2>0
    <3> QED BY <3>1
  <2>2. j \in Below(j) /\ j \notin Below(i)
    <3>1. j <= j /\ ~(j <= i)
      BY <1>4, <2>0
    <3> QED BY <3>1
  <2>3. IsFiniteSet(Below(j)) /\ Below(i) \in SUBSET Below(j) /\ Below(i) # Below(j)
    BY <1>1, <2>1, <2>2, Zenon
  <2>4. Cardinality(Below(i)) <= Cardinality(Below(j)) /\ Cardinality(Below(i)) # Cardinality(Below(j))
    BY <2>3, FS_Subset, Zenon
  <2>5. Cardinality(Below(i)) \in Nat /\ Cardinality(Below(j)) \in Nat
    BY <1>1, Zenon
  <2> QED BY <2>4, <2>5 DEF RankIn
<1> QED BY <1>1, <1>2, <1>3, <1>4 DEF RankIn

(* An object behind all others leaves their ranks as they are.             *)
LEMMA RanksStay ==
  ASSUME NEW S \in SUBSET Int, IsFiniteSet(S), NEW n \in Int, \A j \in S : j < n
  PROVE  /\ \A i \in S : RankIn(S \union {n}, i) = RankIn(S, i)
         /\ RankIn(S \union {n}, n) = Cardinality(S) + 1
<1>1. ASSUME NEW i \in S PROVE RankIn(S \union {n}, i) = RankIn(S, i)
  <2>1. {j \in S \union {n} : j <= i} = {j \in S : j <= i}
    OBVIOUS
  <2> QED BY <2>1 DEF RankIn
<1>2. RankIn(S \union {n}, n) = Cardinality(S) + 1
  <2>0. \A j \in S \union {n} : j <= n
    OBVIOUS
  <2>1. {j \in S \union {n} : j <= n} = S \union {n}
    BY <2>0
  <2>2. n \notin S
    OBVIOUS
  <2> QED BY <2>1, <2>2, FS_AddElement DEF RankIn
<1> QED BY <1>1, <1>2
-----------------------------------------------------------------------------
(* The objects of a window S before page p.                                *)
GotOf(S, p) == {i \in S : RankIn(S, i) <= (p - 1) * PageSize}

(* Nothing is before the first page.                                       *)
LEMMA NothingBefore ==
  ASSUME NEW S \in SUBSET Int, IsFiniteSet(S)
  PROVE  GotOf(S, 1) = {}
<1>1. (1 - 1) * PageSize = 0
  BY VndbAssumption
<1>2. \A i \in S : ~(RankIn(S, i) <= (1 - 1) * PageSize)
  BY <1>1, RanksGoUp
<1> QED BY <1>2 DEF GotOf

(* A page follows the ones before it without a hole.                       *)
LEMMA PagesFollow ==
  ASSUME NEW S \in SUBSET Int, IsFiniteSet(S), NEW p \in Nat \ {0}, NEW P,
         P = {i \in S : RankIn(S, i) > (p - 1) * PageSize /\ RankIn(S, i) <= p * PageSize}
  PROVE  /\ GotOf(S, p + 1) = GotOf(S, p) \union P
         /\ GotOf(S, p) \intersect P = {}
         /\ \A i \in S, j \in P : i <= j => i \in GotOf(S, p) \union P
<1> DEFINE a == (p - 1) * PageSize
           b == p * PageSize
<1>1. a \in Int /\ b \in Int /\ a <= b /\ ((p + 1) - 1) * PageSize = b
  BY VndbAssumption
<1>2. \A i \in S : i \in Int /\ RankIn(S, i) \in Nat \ {0}
  BY RanksGoUp
<1> HIDE DEF a, b
<1>4. P = {i \in S : RankIn(S, i) > a /\ RankIn(S, i) <= b}
  BY DEF a, b
<1>5. GotOf(S, p) = {i \in S : RankIn(S, i) <= a} /\ GotOf(S, p + 1) = {i \in S : RankIn(S, i) <= b}
  BY <1>1 DEF GotOf, a
<1>6. \A i \in S : RankIn(S, i) <= a => RankIn(S, i) <= b /\ ~(RankIn(S, i) > a)
  BY <1>1, <1>2
<1>7. \A i \in S : ~(RankIn(S, i) <= a) => RankIn(S, i) > a
  BY <1>1, <1>2
<1>8. GotOf(S, p + 1) = GotOf(S, p) \union P /\ GotOf(S, p) \intersect P = {}
  BY <1>4, <1>5, <1>6, <1>7
<1>9. ASSUME NEW i \in S, NEW j \in P, i <= j PROVE i \in GotOf(S, p) \union P
  <2>1. j \in S /\ RankIn(S, j) <= b
    BY <1>4
  <2>2. RankIn(S, i) <= b
    <3>1. CASE i = j
      BY <2>1, <3>1
    <3>2. CASE i < j
      <4>1. RankIn(S, i) < RankIn(S, j)
        BY <2>1, <3>2, RanksGoUp
      <4> QED BY <1>1, <1>2, <2>1, <4>1
    <3> QED BY <1>2, <1>9, <2>1, <3>1, <3>2
  <2> QED BY <1>4, <1>5, <1>7, <2>2
<1> QED BY <1>8, <1>9

(* What was before a page is what is before it when an object is added.    *)
LEMMA PagesStay ==
  ASSUME NEW S \in SUBSET Int, IsFiniteSet(S), NEW n \in Int, \A j \in S : j < n,
         NEW p \in Nat \ {0}, (p - 1) * PageSize <= Cardinality(S)
  PROVE  /\ GotOf(S \union {n}, p) = GotOf(S, p)
         /\ (p - 1) * PageSize <= Cardinality(S \union {n})
<1>1. (p - 1) * PageSize \in Int /\ Cardinality(S) \in Nat
  BY VndbAssumption, FS_CardinalityType
<1>2. RankIn(S \union {n}, n) = Cardinality(S) + 1 /\ \A i \in S : RankIn(S \union {n}, i) = RankIn(S, i)
  BY RanksStay
<1>3. ~(Cardinality(S) + 1 <= (p - 1) * PageSize)
  BY <1>1
<1>4. n \notin S
  <2>1. \A j \in S : j \in Int
    OBVIOUS
  <2> QED BY <2>1
<1>5. Cardinality(S \union {n}) = Cardinality(S) + 1
  BY <1>4, FS_AddElement
<1>6. GotOf(S \union {n}, p) = GotOf(S, p)
  BY <1>2, <1>3 DEF GotOf
<1> QED BY <1>1, <1>5, <1>6
-----------------------------------------------------------------------------
(* Types                                                                   *)

LEMMA PagesAreFinite ==
  ASSUME NEW S \in SUBSET Id
  PROVE  IsFiniteSet(S) /\ Cardinality(S) \in Nat /\ S \in SUBSET Int /\ \A i \in S : i \in Nat \ {0}
<1>1. IsFiniteSet(1..MaxId) /\ Id = 1..MaxId
  BY VndbAssumption, FS_Interval DEF Id
<1>2. IsFiniteSet(S) /\ Cardinality(S) \in Nat
  BY <1>1, FS_Subset, FS_CardinalityType
<1>3. \A i \in Id : i \in Nat \ {0} /\ i \in Int
  BY VndbAssumption DEF Id
<1> QED BY <1>2, <1>3

LEMMA InitType == Init => TypeOK
<1> SUFFICES ASSUME Init PROVE TypeOK
  OBVIOUS
<1>1. 1 \in Index /\ 0 \in 0..MaxId /\ 0 \in 0..MaxFaults
  BY VndbAssumption DEF Index
<1>2. online \in [Index -> SUBSET Id]
  BY DEF Init
<1>3. stored \in [Index -> SUBSET Id] /\ promised \in [Index -> SUBSET Id]
  BY DEF Init
<1>4. info \in [Index -> 0..MaxId]
  BY <1>1 DEF Init
<1>5. tab = 1 /\ start = 0 /\ total = 0 /\ page = 0 /\ count = 0 /\ faults = 0
      /\ items = {} /\ more = FALSE /\ update = FALSE /\ error = FALSE
      /\ pc = "off" /\ result = "none" /\ refused = {}
  BY DEF Init
<1>6. tab \in Index /\ start \in 0..MaxId /\ total \in Nat /\ page \in Nat /\ count \in Nat /\ faults \in 0..MaxFaults
  BY <1>1, <1>5
<1>7. update \in BOOLEAN /\ error \in BOOLEAN /\ more \in BOOLEAN
  BY <1>5
<1>8. items \in SUBSET Id /\ refused \in SUBSET Index
  BY <1>5
<1>9. pc \in {"off", "table", "page", "insert"} /\ result \in {"none", "success", "failure", "killed"}
  BY <1>5
<1> QED BY <1>2, <1>3, <1>4, <1>6, <1>7, <1>8, <1>9 DEF TypeOK

\* What the program keeps in its memory, and the rest.
MemoryType ==
  /\ pc \in {"off", "table", "page", "insert"}
  /\ update \in BOOLEAN /\ error \in BOOLEAN /\ more \in BOOLEAN
  /\ info \in [Index -> 0..MaxId]
  /\ tab \in Index /\ start \in 0..MaxId
  /\ total \in Nat /\ page \in Nat /\ count \in Nat
  /\ items \in SUBSET Id
  /\ result \in {"none", "success", "failure", "killed"}
  /\ promised \in [Index -> SUBSET Id]

WorldType ==
  /\ online \in [Index -> SUBSET Id]
  /\ stored \in [Index -> SUBSET Id]
  /\ refused \in SUBSET Index
  /\ faults \in 0..MaxFaults

LEMMA TypeParts == TypeOK <=> MemoryType /\ WorldType
BY Zenon DEF TypeOK, MemoryType, WorldType

LEMMA ExitTyped ==
  ASSUME NEW r \in {"success", "failure", "killed"}, Exit(r)
  PROVE  MemoryType'
<1>1. 1 \in Index /\ 0 \in 0..MaxId
  BY VndbAssumption DEF Index
<1>2. info' \in [Index -> 0..MaxId]
  BY <1>1 DEF Exit
<1>3. promised' \in [Index -> SUBSET Id]
  BY DEF Exit
<1>4. tab' \in Index /\ start' \in 0..MaxId /\ total' \in Nat /\ page' \in Nat /\ count' \in Nat
  BY <1>1 DEF Exit
<1>5. update' \in BOOLEAN /\ error' \in BOOLEAN /\ more' \in BOOLEAN /\ items' \in SUBSET Id
  BY DEF Exit
<1>6. pc' \in {"off", "table", "page", "insert"} /\ result' \in {"none", "success", "failure", "killed"}
  BY DEF Exit
<1> QED BY <1>2, <1>3, <1>4, <1>5, <1>6 DEF MemoryType

LEMMA ReturnsTyped ==
  ASSUME MemoryType, NEW v \in Int, TableReturns(v), pc' # "off" => error' \in BOOLEAN
  PROVE  MemoryType'
<1>1. CASE Exit("failure") \/ Exit("success")
  BY <1>1, ExitTyped
<1>2. CASE /\ v > 0 /\ tab < NTables
           /\ tab' = tab + 1 /\ pc' = "table"
           /\ start' = 0 /\ total' = 0 /\ page' = 0 /\ count' = 0
           /\ items' = {} /\ more' = FALSE
           /\ UNCHANGED <<update, info, result, promised>>
  <2>1. tab' \in Index /\ 0 \in 0..MaxId
    BY <1>2, VndbAssumption DEF MemoryType, Index
  <2>2. start' \in 0..MaxId /\ total' \in Nat /\ page' \in Nat /\ count' \in Nat
    BY <1>2, <2>1
  <2>3. update' \in BOOLEAN /\ error' \in BOOLEAN /\ more' \in BOOLEAN /\ items' \in SUBSET Id
    BY <1>2 DEF MemoryType
  <2>4. pc' \in {"off", "table", "page", "insert"} /\ result' \in {"none", "success", "failure", "killed"}
    BY <1>2 DEF MemoryType
  <2>5. info' \in [Index -> 0..MaxId] /\ promised' \in [Index -> SUBSET Id]
    BY <1>2 DEF MemoryType
  <2> QED BY <2>1, <2>2, <2>3, <2>4, <2>5 DEF MemoryType
<1> QED BY <1>1, <1>2, Zenon DEF TableReturns

LEMMA WindowTyped ==
  ASSUME MemoryType, NEW c \in Nat, NextWindow(c), pc' # "off" => error' \in BOOLEAN
  PROVE  MemoryType'
<1>1. CASE TableReturns(total)
  <2>1. total \in Int
    BY DEF MemoryType
  <2> QED BY <1>1, <2>1, ReturnsTyped
<1>2. CASE NextCommand(total + c)
  <2>1. total' \in Nat /\ page' \in Nat /\ count' \in Nat
    BY <1>2 DEF MemoryType, NextCommand
  <2>2. update' \in BOOLEAN /\ error' \in BOOLEAN /\ more' \in BOOLEAN /\ items' \in SUBSET Id
    BY <1>2 DEF MemoryType, NextCommand
  <2>3. pc' \in {"off", "table", "page", "insert"} /\ result' \in {"none", "success", "failure", "killed"}
    BY <1>2 DEF MemoryType, NextCommand
  <2>4. info' \in [Index -> 0..MaxId] /\ promised' \in [Index -> SUBSET Id] /\ tab' \in Index /\ start' \in 0..MaxId
    BY <1>2 DEF MemoryType, NextCommand
  <2> QED BY <2>1, <2>2, <2>3, <2>4 DEF MemoryType
<1> QED BY <1>1, <1>2 DEF NextWindow

LEMMA FailureTyped ==
  ASSUME MemoryType, refused \in SUBSET Index, NEW c \in Int, CommandFails(c)
  PROVE  MemoryType' /\ refused' \in SUBSET Index
<1>1. (IF c > 0 THEN -1 ELSE total + c) \in Int
  BY DEF MemoryType
<1>2. TableReturns(IF c > 0 THEN -1 ELSE total + c) /\ (pc' # "off" => error' \in BOOLEAN)
  BY DEF CommandFails
<1>3. refused' \in SUBSET Index
  BY DEF CommandFails, MemoryType
<1> QED BY <1>1, <1>2, <1>3, ReturnsTyped

LEMMA TypeNext == TypeOK /\ [Next]_vars => TypeOK'
<1> SUFFICES ASSUME MemoryType, WorldType, [Next]_vars
             PROVE  MemoryType' /\ WorldType'
  BY TypeParts, PTL
<1> USE DEF WorldType
<1>1. ASSUME NEW k \in Index, NEW i \in Id, ServerAdds(k, i)
      PROVE  MemoryType' /\ WorldType'
  <2>1. online' \in [Index -> SUBSET Id]
    BY <1>1 DEF ServerAdds
  <2> QED BY <1>1, <2>1 DEF ServerAdds, program, MemoryType
<1>2. ASSUME NEW u \in BOOLEAN, Run(u)
      PROVE  MemoryType' /\ WorldType'
  <2>1. \A k \in Index : MaxOf(stored[k]) \in 0..MaxId
    BY MaxOfIsMaximum
  <2>2. info' \in [Index -> 0..MaxId]
    BY <1>2, <2>1 DEF Run
  <2>3. 1 \in Index
    BY VndbAssumption DEF Index
  <2>4. promised' \in [Index -> SUBSET Id] /\ tab' \in Index
    BY <1>2, <2>3 DEF Run
  <2>5. start' \in 0..MaxId /\ total' \in Nat /\ page' \in Nat /\ count' \in Nat /\ items' \in SUBSET Id
    BY <1>2 DEF Run, MemoryType
  <2>6. update' \in BOOLEAN /\ error' \in BOOLEAN /\ more' \in BOOLEAN
    BY <1>2 DEF Run, MemoryType
  <2>7. pc' \in {"off", "table", "page", "insert"} /\ result' \in {"none", "success", "failure", "killed"}
    BY <1>2 DEF Run
  <2>8. WorldType'
    BY <1>2 DEF Run
  <2> QED BY <2>2, <2>4, <2>5, <2>6, <2>7, <2>8 DEF MemoryType
<1>3. CASE StartTable
  <2>1. WorldType'
    BY <1>3 DEF StartTable
  <2>2. CASE Exit("killed")
    BY <2>1, <2>2, ExitTyped
  <2>3. CASE ~Exit("killed")
    <3>1. start' \in 0..MaxId
      <4>1. info[tab] \in 0..MaxId /\ 1 \in 0..MaxId
        BY VndbAssumption DEF MemoryType
      <4> QED BY <1>3, <2>3, <4>1 DEF StartTable
    <3>2. total' = 0 /\ page' = 1 /\ count' = 0 /\ pc' = "page"
          /\ UNCHANGED <<update, info, tab, items, more, error, result, promised>>
      BY <1>3, <2>3 DEF StartTable
    <3> QED BY <2>1, <3>1, <3>2 DEF MemoryType
  <2> QED BY <2>2, <2>3
<1>4. CASE PageArrives
  <2>1. CASE CommandFails(-1)
    BY <1>4, <2>1, FailureTyped DEF PageArrives
  <2>2. CASE ~CommandFails(-1)
    <3>1. items' \in SUBSET Id
      BY <1>4, <2>2 DEF PageArrives, OnPage, InWindow, MemoryType
    <3>2. more' \in BOOLEAN
      <4>1. more' = (Cardinality(InWindow) > page * PageSize)
        BY <1>4, <2>2, Zenon DEF PageArrives
      <4>2. \A a, b : (a > b) \in BOOLEAN
        OBVIOUS
      <4> QED BY <4>1, <4>2, Zenon
    <3>3. pc' = "insert" /\ refused' = refused
          /\ UNCHANGED <<update, info, tab, start, total, page, count, error, result, promised>>
      BY <1>4, <2>2 DEF PageArrives
    <3>4. WorldType'
      BY <1>4, <3>3 DEF PageArrives
    <3> QED BY <3>1, <3>2, <3>3, <3>4 DEF MemoryType
  <2> QED BY <2>1, <2>2
<1>5. CASE Commit
  <2>1. Cardinality(items) \in Nat
    BY PagesAreFinite DEF MemoryType
  <2>2. WorldType'
    <3>1. stored' \in [Index -> SUBSET Id]
      BY <1>5 DEF Commit, MemoryType
    <3> QED BY <1>5, <3>1 DEF Commit
  <2>3. CASE more
    <3>1. count' \in Nat /\ page' \in Nat
      BY <1>5, <2>1, <2>3 DEF Commit, MemoryType
    <3>2. items' = {} /\ more' = FALSE /\ pc' = "page"
          /\ UNCHANGED <<update, info, tab, start, total, error, result, promised>>
      BY <1>5, <2>3 DEF Commit
    <3> QED BY <2>2, <3>1, <3>2 DEF MemoryType
  <2>4. CASE ~more
    <3>1. NextWindow(count + Cardinality(items)) /\ (pc' # "off" => error' \in BOOLEAN)
      BY <1>5, <2>4 DEF Commit, MemoryType
    <3>2. count + Cardinality(items) \in Nat
      BY <2>1 DEF MemoryType
    <3> QED BY <2>2, <3>1, <3>2, WindowTyped
  <2> QED BY <2>3, <2>4
<1>6. CASE Throttled
  BY <1>6 DEF Throttled, program, MemoryType
<1>7. CASE ErrorArrives
  <2>1. CommandFails(-1) /\ UNCHANGED <<online, stored>> /\ faults' \in 0..MaxFaults
    BY <1>7, VndbAssumption DEF ErrorArrives
  <2> QED BY <2>1, FailureTyped
<1>8. CASE ConnectionLost
  <2>1. UNCHANGED <<online, stored>> /\ faults' \in 0..MaxFaults
    BY <1>8, VndbAssumption DEF ConnectionLost
  <2>2. CASE CommandFails(-1)
    BY <2>1, <2>2, FailureTyped
  <2>3. CASE Exit("killed") /\ UNCHANGED refused
    BY <2>1, <2>3, ExitTyped
  <2> QED BY <1>8, <2>2, <2>3 DEF ConnectionLost
<1>9. CASE InsertFails
  <2>1. UNCHANGED <<online, stored>> /\ faults' \in 0..MaxFaults
    BY <1>9, VndbAssumption DEF InsertFails
  <2>2. CommandFails(-1) \/ CommandFails(1)
    BY <1>9 DEF InsertFails
  <2> QED BY <2>1, <2>2, FailureTyped
<1>10. CASE Kill
  <2>1. Exit("killed") /\ UNCHANGED <<online, stored, refused>> /\ faults' \in 0..MaxFaults
    BY <1>10, VndbAssumption DEF Kill
  <2> QED BY <2>1, ExitTyped
<1>11. CASE UNCHANGED vars
  BY <1>11 DEF vars, program, MemoryType
<1> QED BY <1>1, <1>2, <1>3, <1>4, <1>5, <1>6, <1>7, <1>8, <1>9, <1>10, <1>11 DEF Next, Step

(* The program keeps its types, whatever the server and the connection do. *)
THEOREM TypeCorrect == Spec => []TypeOK
<1> QED BY InitType, TypeNext, PTL DEF Spec, Safety
-----------------------------------------------------------------------------
(* The inductive invariant                                                 *)

\* What is stored came from the server, whose ids leave no window empty.
FromServer ==
  \A k \in Index : stored[k] \subseteq online[k] /\ promised[k] \subseteq online[k] /\ Dense(online[k])

InfoBehind == pc # "off" => \A k \in Index : info[k] <= MaxOf(stored[k])

\* The tables that are done.
Answered ==
  pc # "off" => \A k \in Index : k < tab => k \in refused \/ promised[k] \subseteq stored[k]

\* The window begins right behind what is stored or before, and the pages
\* before this one are stored.
Fetching ==
  pc \in {"page", "insert"} =>
    /\ start + total <= MaxOf(stored[tab]) + 1
    /\ start # 0 /\ page # 0 /\ (page = 1 \/ count > 0)
    /\ GotOf(InWindow, page) \subseteq stored[tab]
    /\ count <= Cardinality(GotOf(InWindow, page))
    /\ (page - 1) * PageSize <= Cardinality(InWindow)

\* The page that has arrived is the next one.  A first page without objects
\* means that the table ends before the window.
Inserting ==
  pc = "insert" =>
    /\ items \subseteq InWindow
    /\ GotOf(InWindow, page) \intersect items = {}
    /\ \A i \in InWindow, j \in items : i <= j => i \in GotOf(InWindow, page) \union items
    /\ more => /\ GotOf(InWindow, page + 1) = GotOf(InWindow, page) \union items
               /\ page * PageSize <= Cardinality(InWindow)
    /\ page = 1 /\ items = {} => ~more /\ promised[tab] \subseteq stored[tab]

IInv ==
  /\ TypeOK /\ FromServer /\ NoGaps
  /\ InfoBehind /\ Answered /\ Fetching /\ Inserting

MemoryInv == InfoBehind /\ Answered /\ Fetching /\ Inserting

LEMMA InitInv == Init => IInv
<1> SUFFICES ASSUME Init PROVE IInv
  OBVIOUS
<1>1. TypeOK
  BY InitType
<1>2. \A k \in Index : stored[k] = {} /\ promised[k] = {} /\ Dense(online[k])
  BY DEF Init
<1>3. NoGaps
  <2>1. MaxOf({}) = 0 /\ \A i \in Id : ~(i < 0)
    BY VndbAssumption DEF MaxOf, Id
  <2> QED BY <1>2, <2>1 DEF NoGaps
<1>4. pc = "off"
  BY DEF Init
<1> QED BY <1>1, <1>2, <1>3, <1>4 DEF IInv, FromServer, InfoBehind, Answered, Fetching, Inserting

LEMMA ExitKeeps ==
  ASSUME NEW r, Exit(r)
  PROVE  MemoryInv' /\ \A k \in Index : promised'[k] = {}
BY DEF Exit, MemoryInv, InfoBehind, Answered, Fetching, Inserting

(* A table is left behind when it is complete or was refused an answer.    *)
LEMMA InfoStaysBehind ==
  ASSUME TypeOK, InfoBehind, pc # "off", info' = info,
         stored' \in [Index -> SUBSET Id],
         \A k \in Index : stored[k] \subseteq stored'[k]
  PROVE  InfoBehind'
<1> SUFFICES ASSUME NEW k \in Index PROVE info'[k] <= MaxOf(stored'[k])
  BY DEF InfoBehind
<1>1. info[k] \in Int /\ stored[k] \in SUBSET Id /\ stored'[k] \in SUBSET Id
  BY VndbAssumption DEF TypeOK
<1>2. MaxOf(stored[k]) \in Int /\ MaxOf(stored'[k]) \in Int
  BY <1>1, MaxOfIsMaximum, VndbAssumption
<1>3. info[k] <= MaxOf(stored[k]) /\ MaxOf(stored[k]) <= MaxOf(stored'[k])
  BY <1>1, MaxOfGrows DEF InfoBehind
<1> QED BY <1>1, <1>2, <1>3

LEMMA ReturnsKeep ==
  ASSUME IInv, pc # "off", NEW v \in Int, TableReturns(v),
         stored' \in [Index -> SUBSET Id],
         \A k \in Index : stored[k] \subseteq stored'[k],
         refused \subseteq refused',
         tab \in refused' \/ promised[tab] \subseteq stored'[tab]
  PROVE  MemoryInv' /\ \A k \in Index : promised'[k] \subseteq promised[k]
<1>1. CASE Exit("failure") \/ Exit("success")
  BY <1>1, ExitKeeps
<1>2. CASE tab' = tab + 1 /\ pc' = "table" /\ UNCHANGED <<update, info, result, promised>>
  <2>1. InfoBehind'
    BY <1>2, InfoStaysBehind DEF IInv
  <2>2. Answered'
    <3>1. ASSUME NEW k \in Index, k < tab' PROVE k \in refused' \/ promised'[k] \subseteq stored'[k]
      <4>1. k < tab \/ k = tab
        BY <1>2, <3>1, VndbAssumption DEF IInv, TypeOK, Index
      <4>2. CASE k < tab
        BY <1>2, <4>2 DEF IInv, Answered
      <4>3. CASE k = tab
        BY <1>2, <4>3
      <4> QED BY <4>1, <4>2, <4>3
    <3> QED BY <3>1 DEF Answered
  <2>3. Fetching' /\ Inserting'
    BY <1>2 DEF Fetching, Inserting
  <2> QED BY <1>2, <2>1, <2>2, <2>3 DEF MemoryInv
<1> QED BY <1>1, <1>2, Zenon DEF TableReturns

LEMMA FailureKeeps ==
  ASSUME IInv, pc # "off", NEW c \in Int, CommandFails(c), stored' = stored
  PROVE  MemoryInv' /\ \A k \in Index : promised'[k] \subseteq promised[k]
<1>1. (IF c > 0 THEN -1 ELSE total + c) \in Int
  BY DEF IInv, TypeOK
<1>2. TableReturns(IF c > 0 THEN -1 ELSE total + c)
      /\ refused \subseteq refused' /\ tab \in refused'
  BY DEF CommandFails
<1>3. stored' \in [Index -> SUBSET Id] /\ \A k \in Index : stored[k] \subseteq stored'[k]
  BY DEF IInv, TypeOK
<1> QED BY <1>1, <1>2, <1>3, ReturnsKeep

(* The database is as it was when only the memory changes.                 *)
LEMMA DatabaseStays ==
  ASSUME IInv, UNCHANGED <<online, stored>>,
         \A k \in Index : promised'[k] \subseteq online[k]
  PROVE  FromServer' /\ NoGaps'
BY DEF IInv, FromServer, NoGaps

LEMMA WindowFacts ==
  ASSUME TypeOK
  PROVE  /\ InWindow \in SUBSET Id /\ InWindow \in SUBSET Int
         /\ IsFiniteSet(InWindow) /\ Cardinality(InWindow) \in Nat
         /\ \A i \in InWindow : i >= start + total /\ i <= start + total + Window - 1
<1>1. InWindow \in SUBSET Id
  BY DEF TypeOK, InWindow
<1>2. \A i \in InWindow : i >= start + total /\ i <= start + total + Window - 1
  BY VndbAssumption DEF InWindow, TypeOK
<1> QED BY <1>1, <1>2, PagesAreFinite

(* A new object lies behind all others, in the window or not.              *)
LEMMA WindowGrows ==
  ASSUME TypeOK, NEW k \in Index, NEW i \in Id, ServerAdds(k, i)
  PROVE  \/ InWindow' = InWindow
         \/ InWindow' = InWindow \union {i} /\ \A j \in InWindow : j < i
<1>1. online' = [online EXCEPT ![k] = @ \union {i}] /\ UNCHANGED <<tab, start, total>>
      /\ i > MaxOf(online[k])
  BY DEF ServerAdds, program
<1>2. CASE k # tab
  BY <1>1, <1>2 DEF InWindow, TypeOK
<1>3. CASE k = tab
  <2>1. online'[tab] = online[tab] \union {i}
    BY <1>1, <1>3 DEF TypeOK
  <2>2. \A j \in online[tab] : j < i
    <3>1. online[tab] \in SUBSET Id
      BY DEF TypeOK
    <3>2. \A j \in online[tab] : j <= MaxOf(online[tab]) /\ j \in Int /\ MaxOf(online[tab]) \in Int
      BY <3>1, MaxOfIsMaximum, PagesAreFinite, VndbAssumption
    <3>3. i \in Int
      BY VndbAssumption DEF Id
    <3> QED BY <1>1, <1>3, <3>2, <3>3
  <2>3. CASE i \in start + total..start + total + Window - 1
    BY <1>1, <2>1, <2>2, <2>3 DEF InWindow
  <2>4. CASE i \notin start + total..start + total + Window - 1
    BY <1>1, <2>1, <2>4 DEF InWindow
  <2> QED BY <2>3, <2>4
<1> QED BY <1>2, <1>3

LEMMA ServerAddsKeeps ==
  ASSUME IInv, NEW k \in Index, NEW i \in Id, ServerAdds(k, i)
  PROVE  FromServer' /\ NoGaps' /\ MemoryInv'
<1>1. /\ online' = [online EXCEPT ![k] = @ \union {i}] /\ Dense(online[k] \union {i})
      /\ i > MaxOf(online[k])
      /\ UNCHANGED <<stored, pc, info, tab, start, total, page, count, items, more, promised, refused>>
  BY DEF ServerAdds, program
<1>2. online \in [Index -> SUBSET Id] /\ stored \in [Index -> SUBSET Id]
  BY DEF IInv, TypeOK
<1>3. \A m \in Index : online[m] \subseteq online'[m]
                       /\ online'[m] = IF m = k THEN online[k] \union {i} ELSE online[m]
  BY <1>1, <1>2
<1>4. FromServer'
  BY <1>1, <1>3 DEF IInv, FromServer
<1>5. NoGaps'
  <2>1. ~(i < MaxOf(stored[k]))
    <3>1. MaxOf(stored[k]) <= MaxOf(online[k])
      BY <1>2, MaxOfGrows DEF IInv, FromServer
    <3>2. MaxOf(stored[k]) \in Int /\ MaxOf(online[k]) \in Int /\ i \in Int
      BY <1>2, MaxOfIsMaximum, VndbAssumption DEF Id
    <3> QED BY <1>1, <3>1, <3>2
  <2>2. ASSUME NEW m \in Index, NEW j \in Id, j \in online'[m], j < MaxOf(stored[m])
        PROVE  j \in stored[m]
    BY <1>3, <2>1, <2>2 DEF IInv, NoGaps
  <2> QED BY <1>1, <2>2 DEF NoGaps
<1>6. InfoBehind' /\ Answered'
  BY <1>1 DEF IInv, InfoBehind, Answered
<1>7. \/ InWindow' = InWindow
      \/ InWindow' = InWindow \union {i} /\ \A j \in InWindow : j < i
  BY WindowGrows DEF IInv
<1>8. CASE InWindow' = InWindow
  <2>1. Fetching'
    BY <1>1, <1>8 DEF IInv, Fetching
  <2>2. Inserting'
    BY <1>1, <1>8 DEF IInv, Inserting
  <2> QED BY <1>4, <1>5, <1>6, <2>1, <2>2 DEF MemoryInv
<1>9. CASE InWindow' = InWindow \union {i} /\ \A j \in InWindow : j < i
  <2> DEFINE S == InWindow
  <2>1. S \in SUBSET Int /\ IsFiniteSet(S) /\ i \in Int /\ \A j \in S : j \in Int
    BY WindowFacts, VndbAssumption DEF IInv, Id
  <2>2. Fetching'
    <3> SUFFICES ASSUME pc \in {"page", "insert"} PROVE Fetching'
      BY <1>1 DEF Fetching
    <3>1. page \in Nat \ {0} /\ (page - 1) * PageSize <= Cardinality(S)
      BY DEF IInv, TypeOK, Fetching
    <3>2. GotOf(InWindow', page) = GotOf(S, page) /\ (page - 1) * PageSize <= Cardinality(InWindow')
      BY <1>9, <2>1, <3>1, PagesStay
    <3> QED BY <1>1, <3>2 DEF IInv, Fetching
  <2>3. Inserting'
    <3> SUFFICES ASSUME pc = "insert" PROVE Inserting'
      BY <1>1 DEF Inserting
    <3>1. page \in Nat \ {0} /\ (page - 1) * PageSize <= Cardinality(S)
      BY DEF IInv, TypeOK, Fetching
    <3>2. GotOf(InWindow', page) = GotOf(S, page)
      BY <1>9, <2>1, <3>1, PagesStay
    <3>3. items \subseteq InWindow' /\ GotOf(InWindow', page) \intersect items = {}
      BY <1>9, <3>2 DEF IInv, Inserting
    <3>4. ASSUME NEW m \in InWindow', NEW j \in items, m <= j
          PROVE  m \in GotOf(InWindow', page) \union items
      <4>1. j \in S /\ j < i
        BY <1>9 DEF IInv, Inserting
      <4>2. m # i
        BY <2>1, <3>4, <4>1
      <4> QED BY <1>9, <3>2, <3>4, <4>2 DEF IInv, Inserting
    <3>5. ASSUME more
          PROVE  /\ GotOf(InWindow', page + 1) = GotOf(InWindow', page) \union items
                 /\ page * PageSize <= Cardinality(InWindow')
      <4>1. GotOf(S, page + 1) = GotOf(S, page) \union items /\ page * PageSize <= Cardinality(S)
        BY <3>5 DEF IInv, Inserting
      <4>2. page + 1 \in Nat \ {0} /\ (page + 1) - 1 = page
        BY <3>1
      <4>3. GotOf(InWindow', page + 1) = GotOf(S, page + 1) /\ page * PageSize <= Cardinality(InWindow')
        BY <1>9, <2>1, <4>1, <4>2, PagesStay
      <4> QED BY <3>2, <4>1, <4>3
    <3>6. page = 1 /\ items = {} => ~more /\ promised[tab] \subseteq stored[tab]
      BY DEF IInv, Inserting
    <3> HIDE DEF S
    <3> QED BY <1>1, <3>3, <3>4, <3>5, <3>6 DEF Inserting
  <2> QED BY <1>4, <1>5, <1>6, <2>2, <2>3 DEF MemoryInv
<1> QED BY <1>7, <1>8, <1>9

LEMMA RunKeeps ==
  ASSUME IInv, NEW u \in BOOLEAN, Run(u)
  PROVE  FromServer' /\ NoGaps' /\ MemoryInv'
<1>1. /\ pc' = "table" /\ tab' = 1 /\ promised' = online
      /\ info' = [k \in Index |-> MaxOf(stored[k])]
      /\ UNCHANGED <<online, stored>>
  BY DEF Run
<1>2. \A k \in Index : MaxOf(stored[k]) \in Int
  BY MaxOfIsMaximum, VndbAssumption DEF IInv, TypeOK
<1>3. InfoBehind'
  BY <1>1, <1>2 DEF InfoBehind
<1>4. Answered'
  <2>1. \A k \in Index : ~(k < 1)
    BY VndbAssumption DEF Index
  <2> QED BY <1>1, <2>1 DEF Answered
<1>5. Fetching' /\ Inserting'
  BY <1>1 DEF Fetching, Inserting
<1>6. FromServer' /\ NoGaps'
  BY <1>1, DatabaseStays
<1> QED BY <1>3, <1>4, <1>5, <1>6 DEF MemoryInv

LEMMA StartTableKeeps ==
  ASSUME IInv, StartTable
  PROVE  FromServer' /\ NoGaps' /\ MemoryInv'
<1>1. pc = "table" /\ UNCHANGED <<online, stored, refused>>
  BY DEF StartTable
<1>2. CASE Exit("killed")
  BY <1>1, <1>2, ExitKeeps, DatabaseStays
<1>3. CASE ~Exit("killed")
  <2>1. /\ ~update \/ info[tab] # 0
        /\ start' = IF update THEN info[tab] ELSE 1
        /\ total' = 0 /\ page' = 1 /\ count' = 0 /\ pc' = "page"
        /\ UNCHANGED <<update, info, tab, items, more, error, result, promised>>
    BY <1>3 DEF StartTable
  <2>2. FromServer' /\ NoGaps'
    BY <1>1, <2>1, DatabaseStays DEF IInv, FromServer
  <2>3. InfoBehind' /\ Answered'
    BY <1>1, <2>1 DEF IInv, InfoBehind, Answered
  <2>4. Fetching'
    <3>1. stored[tab] \in SUBSET Id /\ tab \in Index /\ info[tab] \in 0..MaxId
      BY DEF IInv, TypeOK
    <3>2. MaxOf(stored[tab]) \in 0..MaxId /\ info[tab] <= MaxOf(stored[tab])
      BY <1>1, <3>1, MaxOfIsMaximum DEF IInv, InfoBehind
    <3>3. start' # 0 /\ start' + 0 <= MaxOf(stored[tab]) + 1
      BY <2>1, <3>1, <3>2, VndbAssumption
    <3>4. TypeOK'
      BY TypeNext DEF IInv, Next, Step
    <3>5. InWindow' \in SUBSET Int /\ IsFiniteSet(InWindow') /\ Cardinality(InWindow') \in Nat
      <4>1. InWindow' \in SUBSET Id
        BY <3>4 DEF TypeOK, InWindow
      <4> QED BY <4>1, PagesAreFinite
    <3>6. GotOf(InWindow', 1) = {}
      BY <3>5, NothingBefore
    <3>7. (1 - 1) * PageSize <= Cardinality(InWindow')
      BY <3>5, VndbAssumption
    <3>8. 0 <= Cardinality({})
      BY FS_EmptySet
    <3> QED BY <1>1, <2>1, <3>3, <3>6, <3>7, <3>8 DEF Fetching
  <2>5. Inserting'
    BY <2>1 DEF Inserting
  <2> QED BY <2>2, <2>3, <2>4, <2>5 DEF MemoryInv
<1> QED BY <1>2, <1>3

(* All that is online below the window is stored.                          *)
LEMMA BelowStored ==
  ASSUME IInv, pc \in {"page", "insert"}, NEW i \in online[tab], i < start + total
  PROVE  i \in stored[tab]
<1>1. tab \in Index /\ stored[tab] \in SUBSET Id /\ i \in Id /\ i \in Int /\ start + total \in Int
  BY VndbAssumption DEF IInv, TypeOK, Id
<1>2. MaxOf(stored[tab]) \in 0..MaxId /\ (stored[tab] # {} => MaxOf(stored[tab]) \in stored[tab])
  BY <1>1, MaxOfIsMaximum
<1>3. start + total <= MaxOf(stored[tab]) + 1
  BY DEF IInv, Fetching
<1>4. i < MaxOf(stored[tab]) \/ i = MaxOf(stored[tab])
  BY <1>1, <1>2, <1>3
<1>5. CASE i < MaxOf(stored[tab])
  BY <1>1, <1>5 DEF IInv, NoGaps
<1>6. CASE i = MaxOf(stored[tab])
  <2>1. i # 0
    BY <1>1, PagesAreFinite
  <2>2. stored[tab] # {}
    BY <1>6, <2>1 DEF MaxOf
  <2> QED BY <1>2, <1>6, <2>2
<1> QED BY <1>4, <1>5, <1>6

(* A window without objects is behind all of them.                         *)
LEMMA TableEnds ==
  ASSUME IInv, pc \in {"page", "insert"}, InWindow = {}
  PROVE  online[tab] \subseteq stored[tab]
<1> DEFINE lo == start + total
           last == MaxOf(online[tab])
<1>1. tab \in Index /\ online[tab] \in SUBSET Id /\ lo \in Nat \ {0}
  BY DEF IInv, TypeOK, Fetching
<1>2. last \in 0..MaxId /\ \A i \in online[tab] : i <= last /\ i \in Int
  BY <1>1, MaxOfIsMaximum, PagesAreFinite
<1>3. ~(lo \in 1..last)
  BY <1>1 DEF IInv, FromServer, Dense, InWindow
<1>4. \A i \in online[tab] : i < lo
  BY <1>1, <1>2, <1>3
<1> QED BY <1>4, BelowStored

(* A window with objects has one of the first rank.                        *)
LEMMA FirstRank ==
  ASSUME NEW S \in SUBSET Id, S # {}
  PROVE  \E i \in S : RankIn(S, i) = 1
<1> DEFINE R == {ss \in Nat \X Nat : ss[1] < ss[2]}
<1>1. IsWellFoundedOn(R, Nat)
  BY NatLessThanWellFounded DEF OpToRel
<1>2. S \subseteq Nat
  BY PagesAreFinite
<1>3. PICK m \in S : \A n \in S : <<n, m>> \notin R
  <2> HIDE DEF R
  <2> QED BY <1>1, <1>2, WFMin, Zenon
<1>4. \A n \in S : n \in Nat
  BY <1>2
<1>5. \A n \in S : ~(n < m)
  BY <1>3, <1>4
<1>6. \A n \in S : n <= m <=> n = m
  BY <1>4, <1>5
<1>7. {j \in S : j <= m} = {m}
  BY <1>6
<1>8. Cardinality({m}) = 1
  BY FS_Singleton
<1> QED BY <1>7, <1>8 DEF RankIn

LEMMA PageArrivesKeeps ==
  ASSUME IInv, PageArrives
  PROVE  FromServer' /\ NoGaps' /\ MemoryInv'
<1>1. pc = "page" /\ UNCHANGED <<online, stored>>
  BY DEF PageArrives
<1>2. CASE CommandFails(-1)
  <2>1. MemoryInv' /\ \A k \in Index : promised'[k] \subseteq promised[k]
    BY <1>1, <1>2, FailureKeeps
  <2> QED BY <1>1, <2>1, DatabaseStays DEF IInv, FromServer
<1>3. CASE ~CommandFails(-1)
  <2>1. /\ items' = OnPage /\ more' = (Cardinality(InWindow) > page * PageSize) /\ pc' = "insert"
        /\ UNCHANGED <<info, tab, start, total, page, count, promised, refused>>
    BY <1>3 DEF PageArrives
  <2>0. more' => Cardinality(InWindow) > page * PageSize
    BY <2>1, Zenon
  <2>2. FromServer' /\ NoGaps'
    BY <1>1, <2>1, DatabaseStays DEF IInv, FromServer
  <2>3. InWindow' = InWindow
    BY <1>1, <2>1 DEF InWindow
  <2>4. InfoBehind' /\ Answered'
    BY <1>1, <2>1 DEF IInv, InfoBehind, Answered
  <2>5. Fetching'
    BY <1>1, <2>1, <2>3 DEF IInv, Fetching
  <2>6. Inserting'
    <3> DEFINE S == InWindow
    <3>1. S \in SUBSET Int /\ S \in SUBSET Id /\ IsFiniteSet(S) /\ Cardinality(S) \in Nat
      BY WindowFacts DEF IInv
    <3>2. page \in Nat \ {0}
      BY <1>1 DEF IInv, TypeOK, Fetching
    <3>3. OnPage = {i \in S : RankIn(S, i) > (page - 1) * PageSize /\ RankIn(S, i) <= page * PageSize}
      BY DEF OnPage, Rank, RankIn
    <3>4. /\ GotOf(S, page + 1) = GotOf(S, page) \union OnPage
          /\ GotOf(S, page) \intersect OnPage = {}
          /\ \A i \in S, j \in OnPage : i <= j => i \in GotOf(S, page) \union OnPage
      <4> HIDE DEF S
      <4> QED BY <3>1, <3>2, <3>3, PagesFollow
    <3>5. more' => page * PageSize <= Cardinality(S)
      BY <2>0, <3>1, <3>2, VndbAssumption
    <3>6. ASSUME page = 1, OnPage = {} PROVE ~more' /\ promised[tab] \subseteq stored[tab]
      <4>1. S = {}
        <5>1. (1 - 1) * PageSize = 0 /\ 1 * PageSize >= 1
          BY VndbAssumption
        <5>2. ~\E i \in S : RankIn(S, i) = 1
          <6> HIDE DEF S
          <6> QED BY <3>3, <3>6, <5>1
        <5> QED BY <3>1, <5>2, FirstRank
      <4>2. Cardinality(S) = 0
        BY <4>1, FS_EmptySet
      <4>3. ~more'
        <5>1. ~(0 > 1 * PageSize)
          BY VndbAssumption
        <5> QED BY <2>0, <3>6, <4>2, <5>1
      <4>4. promised[tab] \subseteq stored[tab]
        <5>1. promised[tab] \subseteq online[tab]
          BY DEF IInv, FromServer, TypeOK
        <5> QED BY <1>1, <4>1, <5>1, TableEnds
      <4> QED BY <4>3, <4>4
    <3>7. OnPage \subseteq S
      BY DEF OnPage
    <3> QED BY <1>1, <2>1, <2>3, <3>4, <3>5, <3>6, <3>7 DEF Inserting
  <2> QED BY <2>2, <2>4, <2>5, <2>6 DEF MemoryInv
<1> QED BY <1>2, <1>3

(* The transaction: what is stored afterwards.                             *)
LEMMA CommitStores ==
  ASSUME IInv, Commit
  PROVE  /\ \A k \in Index : stored[k] \subseteq stored'[k] /\ stored'[k] \in SUBSET Id
         /\ stored' \in [Index -> SUBSET Id]
         /\ stored'[tab] = stored[tab] \union items
         /\ GotOf(InWindow, page) \union items \subseteq stored'[tab]
         /\ (\A k \in Index : promised'[k] \subseteq promised[k]) => FromServer'
<1>1. pc = "insert" /\ stored' = [stored EXCEPT ![tab] = @ \union items] /\ online' = online
  BY DEF Commit
<1>2. items \subseteq InWindow /\ GotOf(InWindow, page) \subseteq stored[tab]
  BY <1>1 DEF IInv, Inserting, Fetching
<1>3. stored \in [Index -> SUBSET Id] /\ items \in SUBSET Id /\ tab \in Index
  BY DEF IInv, TypeOK
<1>4. /\ stored' \in [Index -> SUBSET Id]
      /\ \A k \in Index : stored'[k] = IF k = tab THEN stored[k] \union items ELSE stored[k]
  BY <1>1, <1>3
<1>5. items \subseteq online[tab]
  BY <1>2 DEF InWindow
<1>6. ASSUME \A k \in Index : promised'[k] \subseteq promised[k] PROVE FromServer'
  BY <1>1, <1>4, <1>5, <1>6 DEF IInv, FromServer
<1> QED BY <1>2, <1>3, <1>4, <1>6

LEMMA CommitKeepsNoGaps ==
  ASSUME IInv, Commit
  PROVE  NoGaps'
<1> SUFFICES ASSUME NEW k \in Index, NEW i \in Id, i \in online[k], i < MaxOf(stored'[k])
             PROVE  i \in stored'[k]
  BY DEF NoGaps, Commit
<1>1. pc = "insert"
  BY DEF Commit
<1>2. /\ \A m \in Index : stored[m] \subseteq stored'[m] /\ stored'[m] \in SUBSET Id
      /\ stored'[tab] = stored[tab] \union items
      /\ GotOf(InWindow, page) \union items \subseteq stored'[tab]
  BY CommitStores
<1>3. CASE i < MaxOf(stored[k])
  BY <1>2, <1>3 DEF IInv, NoGaps
<1>4. CASE ~(i < MaxOf(stored[k]))
  <2> DEFINE m == MaxOf(stored'[k])
  <2>1. i \in Int /\ m \in Int /\ MaxOf(stored[k]) \in Int /\ i > 0
    BY <1>2, MaxOfIsMaximum, VndbAssumption DEF IInv, TypeOK, Id
  <2>2. m \in stored'[k]
    <3>1. stored'[k] # {}
      <4>1. MaxOf({}) = 0
        BY DEF MaxOf
      <4> QED BY <2>1, <4>1
    <3> QED BY <1>2, <3>1, MaxOfIsMaximum
  <2>3. m \notin stored[k]
    <3>1. stored[k] \in SUBSET Id
      BY DEF IInv, TypeOK
    <3>2. m \in stored[k] => m <= MaxOf(stored[k])
      <4> HIDE DEF m
      <4> QED BY <3>1, MaxOfIsMaximum
    <3> QED BY <1>4, <2>1, <3>2
  <2>4. k = tab
    BY <2>2, <2>3 DEF Commit, IInv, TypeOK
  <2>5. m \in items
    BY <1>2, <2>2, <2>3, <2>4
  <2>6. CASE i < start + total
    BY <1>1, <1>2, <2>4, <2>6, BelowStored
  <2>7. CASE ~(i < start + total)
    <3>1. m \in InWindow
      BY <1>1, <2>5 DEF IInv, Inserting
    <3>2. m <= start + total + Window - 1 /\ start + total \in Int /\ Window \in Int
      BY <3>1, WindowFacts, VndbAssumption DEF IInv, TypeOK
    <3>3. i \in start + total..start + total + Window - 1 /\ i <= m
      BY <2>1, <2>7, <3>2
    <3>4. i \in InWindow
      BY <2>4, <3>3 DEF InWindow
    <3>5. i \in GotOf(InWindow, page) \union items
      <4> HIDE DEF m
      <4> QED BY <1>1, <2>5, <3>3, <3>4 DEF IInv, Inserting
    <3> QED BY <1>2, <2>4, <3>5
  <2> QED BY <2>6, <2>7
<1> QED BY <1>3, <1>4

(* There are no more objects before the end of a page than ids.            *)
LEMMA CountIsBehind ==
  ASSUME IInv, Commit
  PROVE  /\ Cardinality(items) \in Nat
         /\ count + Cardinality(items) <= Cardinality(GotOf(InWindow, page) \union items)
         /\ count + Cardinality(items) > 0 =>
              start + total + (count + Cardinality(items)) <= MaxOf(stored'[tab]) + 1
<1> DEFINE G == GotOf(InWindow, page)
           D == G \union items
           lo == start + total
           hi == MaxOf(stored'[tab])
           c == count + Cardinality(items)
<1>1. pc = "insert"
  BY DEF Commit
<1>2. InWindow \in SUBSET Id /\ IsFiniteSet(InWindow) /\ G \subseteq InWindow /\ items \subseteq InWindow
  BY <1>1, WindowFacts DEF IInv, Inserting, GotOf
<1>3. IsFiniteSet(G) /\ IsFiniteSet(items) /\ Cardinality(G) \in Nat /\ Cardinality(items) \in Nat
  <2> HIDE DEF G
  <2> QED BY <1>2, FS_Subset, FS_CardinalityType
<1>4. Cardinality(D) = Cardinality(G) + Cardinality(items) - Cardinality(G \intersect items)
  <2> HIDE DEF G
  <2> QED BY <1>3, FS_Union
<1>5. Cardinality(G \intersect items) = 0
  <2>1. G \intersect items = {}
    BY <1>1 DEF IInv, Inserting
  <2> QED BY <2>1, FS_EmptySet
<1>6. count <= Cardinality(G) /\ count \in Nat
  BY <1>1 DEF IInv, Fetching, TypeOK
<1>7. c <= Cardinality(D)
  <2> HIDE DEF G, D
  <2> QED BY <1>3, <1>4, <1>5, <1>6
<1>8. ASSUME c > 0 PROVE lo + c <= hi + 1
  <2>1. D \subseteq stored'[tab] /\ stored'[tab] \in SUBSET Id /\ lo \in Int
    BY CommitStores DEF IInv, TypeOK
  <2>2. hi \in Int /\ \A i \in stored'[tab] : i <= hi
    BY <2>1, MaxOfIsMaximum, VndbAssumption
  <2>3. \A i \in D : i \in Int /\ i >= lo /\ i <= hi
    BY <1>2, <2>1, <2>2, WindowFacts DEF IInv
  <2>4. D \subseteq lo..hi
    <3> HIDE DEF D, lo, hi
    <3> QED BY <2>1, <2>2, <2>3
  <2>5. /\ IsFiniteSet(lo..hi)
        /\ Cardinality(lo..hi) = IF lo > hi THEN 0 ELSE hi - lo + 1
    <3> HIDE DEF lo, hi
    <3> QED BY <2>1, <2>2, FS_Interval
  <2>6. Cardinality(D) <= Cardinality(lo..hi)
    <3> HIDE DEF D, lo, hi
    <3> QED BY <2>4, <2>5, FS_Subset
  <2>7. Cardinality(D) \in Int /\ c \in Int
    <3> HIDE DEF D, G
    <3> QED BY <1>3, <1>4, <1>5, <1>6
  <2> HIDE DEF D, lo, hi, c
  <2> QED BY <1>7, <1>8, <2>1, <2>2, <2>5, <2>6, <2>7
<1> QED BY <1>3, <1>7, <1>8

(* A command that returned nothing ends a table that is complete.          *)
LEMMA LastPageCompletes ==
  ASSUME IInv, Commit, ~(count + Cardinality(items) > 0)
  PROVE  promised[tab] \subseteq stored'[tab]
<1>1. pc = "insert" /\ tab \in Index /\ count \in Nat /\ Cardinality(items) \in Nat
  BY CountIsBehind DEF Commit, IInv, TypeOK
<1>2. count = 0 /\ Cardinality(items) = 0
  BY <1>1
<1>3. items = {}
  BY <1>2, FS_EmptySet, PagesAreFinite DEF IInv, TypeOK
<1>4. page = 1
  BY <1>1, <1>2 DEF IInv, Fetching
<1>5. promised[tab] \subseteq stored[tab]
  BY <1>1, <1>3, <1>4 DEF IInv, Inserting
<1> QED BY <1>1, <1>5, CommitStores

LEMMA CommitKeeps ==
  ASSUME IInv, Commit
  PROVE  FromServer' /\ NoGaps' /\ MemoryInv'
<1>1. pc = "insert" /\ UNCHANGED <<online, refused, faults>>
  BY DEF Commit
<1>2. /\ \A k \in Index : stored[k] \subseteq stored'[k] /\ stored'[k] \in SUBSET Id
      /\ stored' \in [Index -> SUBSET Id]
      /\ GotOf(InWindow, page) \union items \subseteq stored'[tab]
      /\ (\A k \in Index : promised'[k] \subseteq promised[k]) => FromServer'
  BY CommitStores
<1>3. NoGaps'
  BY CommitKeepsNoGaps
<1>4. tab \in Index /\ count \in Nat /\ page \in Nat \ {0} /\ start \in Nat \ {0} /\ total \in Nat
  BY <1>1, VndbAssumption DEF IInv, TypeOK, Fetching
<1>5. Cardinality(items) \in Nat
  BY CountIsBehind
<1>6. ASSUME info' = info, tab' = tab, promised' = promised PROVE InfoBehind' /\ Answered' /\ FromServer'
  <2>1. InfoBehind'
    BY <1>1, <1>2, <1>6, InfoStaysBehind DEF IInv
  <2>2. Answered'
    BY <1>1, <1>2, <1>6 DEF IInv, Answered
  <2> QED BY <1>2, <1>6, <2>1, <2>2
<1>7. CASE more
  <2>1. /\ count' = count + Cardinality(items) /\ page' = page + 1 /\ pc' = "page"
        /\ UNCHANGED <<info, tab, start, total, promised>>
    BY <1>7 DEF Commit
  <2>2. InWindow' = InWindow
    BY <1>1, <2>1 DEF InWindow
  <2>3. GotOf(InWindow, page') = GotOf(InWindow, page) \union items /\ page * PageSize <= Cardinality(InWindow)
    BY <1>1, <1>7, <2>1 DEF IInv, Inserting
  <2>4. start + total <= MaxOf(stored'[tab]) + 1
    <3>1. MaxOf(stored[tab]) <= MaxOf(stored'[tab])
      BY <1>2, <1>4, MaxOfGrows DEF IInv, TypeOK
    <3>2. MaxOf(stored[tab]) \in Int /\ MaxOf(stored'[tab]) \in Int
      BY <1>2, <1>4, MaxOfIsMaximum, VndbAssumption DEF IInv, TypeOK
    <3> QED BY <1>1, <1>4, <3>1, <3>2 DEF IInv, Fetching
  <2>5. count' > 0
    <3>1. CASE count > 0
      BY <1>4, <1>5, <2>1, <3>1
    <3>2. CASE ~(count > 0)
      <4>1. items # {}
        BY <1>1, <1>7, <3>2 DEF IInv, Fetching, Inserting
      <4>2. Cardinality(items) # 0
        BY <4>1, FS_EmptySet, PagesAreFinite DEF IInv, TypeOK
      <4> QED BY <1>4, <1>5, <2>1, <4>2
    <3> QED BY <3>1, <3>2
  <2>6. count' <= Cardinality(GotOf(InWindow', page'))
    BY <2>1, <2>2, <2>3, CountIsBehind
  <2>7. (page' - 1) * PageSize = page * PageSize /\ page' # 0
    BY <1>4, <2>1
  <2>8. Fetching'
    BY <1>2, <1>4, <2>1, <2>2, <2>3, <2>4, <2>5, <2>6, <2>7 DEF Fetching
  <2>9. Inserting'
    BY <2>1 DEF Inserting
  <2> QED BY <1>3, <1>6, <2>1, <2>8, <2>9 DEF MemoryInv
<1>8. CASE ~more
  <2> DEFINE c == count + Cardinality(items)
  <2>1. NextWindow(c)
    BY <1>8 DEF Commit
  <2>2. CASE c > 0
    <3>1. /\ total' = total + c /\ page' = 1 /\ count' = 0 /\ pc' = "page"
          /\ UNCHANGED <<update, info, tab, start, result, promised>>
      <4> HIDE DEF c
      <4> QED BY <2>1, <2>2 DEF NextWindow, NextCommand
    <3>2. start + total + c <= MaxOf(stored'[tab]) + 1
      BY <2>2, CountIsBehind
    <3>3. start + total' = start + total + c
      BY <1>4, <1>5, <3>1
    <3>4. InWindow' \in SUBSET Int /\ IsFiniteSet(InWindow') /\ Cardinality(InWindow') \in Nat
      <4>1. InWindow' \in SUBSET Id
        BY <1>1, <3>1 DEF InWindow, IInv, TypeOK
      <4> QED BY <4>1, PagesAreFinite
    <3>5. GotOf(InWindow', 1) = {} /\ 0 <= Cardinality({}) /\ (1 - 1) * PageSize <= Cardinality(InWindow')
      BY <3>4, NothingBefore, FS_EmptySet, VndbAssumption
    <3> HIDE DEF c
    <3>6. Fetching'
      BY <1>4, <3>1, <3>2, <3>3, <3>5 DEF Fetching
    <3>7. Inserting'
      BY <3>1 DEF Inserting
    <3> QED BY <1>3, <1>6, <3>1, <3>6, <3>7 DEF MemoryInv
  <2>3. CASE ~(c > 0)
    <3>1. TableReturns(total)
      <4> HIDE DEF c
      <4> QED BY <2>1, <2>3 DEF NextWindow
    <3>2. promised[tab] \subseteq stored'[tab]
      BY <2>3, LastPageCompletes
    <3>3. MemoryInv' /\ \A k \in Index : promised'[k] \subseteq promised[k]
      <4>1. pc # "off" /\ total \in Int /\ refused \subseteq refused'
        BY <1>1, <1>4
      <4> QED BY <1>2, <3>1, <3>2, <4>1, ReturnsKeep
    <3> QED BY <1>2, <1>3, <3>3
  <2> QED BY <2>2, <2>3
<1> QED BY <1>7, <1>8

LEMMA InvNext == IInv /\ [Next]_vars => IInv'
<1> SUFFICES ASSUME IInv, [Next]_vars
             PROVE  FromServer' /\ NoGaps' /\ MemoryInv'
  BY TypeNext DEF IInv, MemoryInv
<1>1. ASSUME NEW k \in Index, NEW i \in Id, ServerAdds(k, i)
      PROVE  FromServer' /\ NoGaps' /\ MemoryInv'
  BY <1>1, ServerAddsKeeps
<1>2. ASSUME NEW u \in BOOLEAN, Run(u)
      PROVE  FromServer' /\ NoGaps' /\ MemoryInv'
  BY <1>2, RunKeeps
<1>3. CASE StartTable
  BY <1>3, StartTableKeeps
<1>4. CASE PageArrives
  BY <1>4, PageArrivesKeeps
<1>5. CASE Commit
  BY <1>5, CommitKeeps
<1>6. ASSUME pc # "off", UNCHANGED <<online, stored>>, NEW c \in Int, CommandFails(c)
      PROVE  FromServer' /\ NoGaps' /\ MemoryInv'
  BY <1>6, FailureKeeps, DatabaseStays DEF IInv, FromServer
<1>7. ASSUME UNCHANGED <<online, stored>>, Exit("killed")
      PROVE  FromServer' /\ NoGaps' /\ MemoryInv'
  BY <1>7, ExitKeeps, DatabaseStays
<1>8. CASE Throttled
  <2>1. UNCHANGED <<online, stored, pc, program, result, promised, refused>>
    BY <1>8 DEF Throttled
  <2>2. FromServer' /\ NoGaps'
    BY <2>1, DatabaseStays DEF IInv, FromServer
  <2>3. InWindow' = InWindow
    BY <2>1 DEF InWindow, program
  <2> QED BY <2>1, <2>2, <2>3 DEF IInv, MemoryInv, InfoBehind, Answered, Fetching, Inserting, program
<1>9. CASE ErrorArrives
  BY <1>6, <1>9 DEF ErrorArrives
<1>10. CASE ConnectionLost
  BY <1>6, <1>7, <1>10 DEF ConnectionLost
<1>11. CASE InsertFails
  <2>1. CommandFails(-1) \/ CommandFails(1)
    BY <1>11 DEF InsertFails
  <2> QED BY <1>6, <1>11, <2>1 DEF InsertFails
<1>12. CASE Kill
  BY <1>7, <1>12 DEF Kill
<1>13. CASE UNCHANGED vars
  <2>1. UNCHANGED <<online, stored, pc, program, result, promised, refused>>
    BY <1>13 DEF vars
  <2>2. FromServer' /\ NoGaps'
    BY <2>1, DatabaseStays DEF IInv, FromServer
  <2>3. InWindow' = InWindow
    BY <2>1 DEF InWindow, program
  <2> QED BY <2>1, <2>2, <2>3 DEF IInv, MemoryInv, InfoBehind, Answered, Fetching, Inserting, program
<1> QED BY <1>1, <1>2, <1>3, <1>4, <1>5, <1>8, <1>9, <1>10, <1>11, <1>12, <1>13 DEF Next, Step

(* The invariant holds for any number of tables, ids and faults, and any   *)
(* sizes of a page and of a window.                                        *)
THEOREM DownloadInvariant == Spec => []IInv
<1> QED BY InitInv, InvNext, PTL DEF Spec, Safety

(* An update may go on from the largest id that is stored.                 *)
THEOREM NoGapsEver == Spec => []NoGaps
<1>1. IInv => NoGaps
  BY DEF IInv
<1> QED BY <1>1, DownloadInvariant, PTL

(* The window that get_all asks for next leaves nothing out.               *)
THEOREM WindowsFollow == Spec => []WindowFollows
<1>1. IInv => WindowFollows
  BY BelowStored DEF WindowFollows
<1> QED BY <1>1, DownloadInvariant, PTL

LEMMA ReturnsComplete ==
  ASSUME IInv, pc # "off", NEW v \in Int, TableReturns(v), pc' = "off", result' = "success",
         \A k \in Index : stored[k] \subseteq stored'[k],
         refused \subseteq refused',
         tab \in refused' \/ promised[tab] \subseteq stored'[tab]
  PROVE  \A k \in Index \ refused' : promised[k] \subseteq stored'[k]
<1>1. tab = NTables
  BY DEF TableReturns, Exit
<1>2. \A k \in Index : k < tab \/ k = tab
  BY <1>1, VndbAssumption DEF Index
<1>3. \A k \in Index : k < tab => k \in refused \/ promised[k] \subseteq stored[k]
  BY DEF IInv, Answered
<1> QED BY <1>2, <1>3

(* A command that succeeds has all that was online when it began, for the  *)
(* tables it was never refused an answer for.                              *)
THEOREM SuccessIsComplete == Spec => SuccessComplete
<1>1. IInv /\ [Next]_vars => [Succeeds =>
        \A k \in Index \ refused' : promised[k] \subseteq stored'[k]]_vars
  <2> SUFFICES ASSUME IInv, Next, Succeeds
               PROVE  \A k \in Index \ refused' : promised[k] \subseteq stored'[k]
    OBVIOUS
  <2>1. pc # "off" /\ pc' = "off" /\ result' = "success" /\ result' # "killed"
    BY DEF Succeeds
  <2>2. CASE Commit
    <3>1. /\ \A k \in Index : stored[k] \subseteq stored'[k]
          /\ refused \subseteq refused' /\ total \in Int /\ count \in Nat /\ Cardinality(items) \in Nat
      <4>1. \A k \in Index : stored[k] \subseteq stored'[k]
        BY <2>2, CommitStores
      <4>2. Cardinality(items) \in Nat
        BY <2>2, CountIsBehind
      <4>3. total \in Int /\ count \in Nat
        BY DEF IInv, TypeOK
      <4> QED BY <2>2, <4>1, <4>2, <4>3 DEF Commit
    <3>2. TableReturns(total) /\ ~(count + Cardinality(items) > 0)
      BY <2>1, <2>2 DEF Commit, NextWindow, NextCommand
    <3>3. promised[tab] \subseteq stored'[tab]
      BY <2>2, <3>2, LastPageCompletes
    <3> QED BY <2>1, <3>1, <3>2, <3>3, ReturnsComplete
  <2>3. ASSUME UNCHANGED stored, NEW c \in Int, CommandFails(c)
        PROVE  \A k \in Index \ refused' : promised[k] \subseteq stored'[k]
    <3>1. TableReturns(IF c > 0 THEN -1 ELSE total + c)
          /\ refused \subseteq refused' /\ tab \in refused'
      BY <2>3 DEF CommandFails
    <3>2. (IF c > 0 THEN -1 ELSE total + c) \in Int
      BY DEF IInv, TypeOK
    <3> QED BY <2>1, <2>3, <3>1, <3>2, ReturnsComplete
  <2>4. ~Exit("killed")
    BY <2>1 DEF Exit
  <2>5. CASE PageArrives
    BY <2>1, <2>3, <2>5 DEF PageArrives
  <2>6. CASE InsertFails
    <3>1. CommandFails(-1) \/ CommandFails(1)
      BY <2>6 DEF InsertFails
    <3> QED BY <2>3, <2>6, <3>1 DEF InsertFails
  <2>7. CASE ErrorArrives
    BY <2>3, <2>7 DEF ErrorArrives
  <2>8. CASE ConnectionLost
    BY <2>3, <2>4, <2>8 DEF ConnectionLost
  <2>9. ~StartTable
    BY <2>1, <2>4 DEF StartTable
  <2>10. ~Kill /\ ~Throttled
    BY <2>1, <2>4 DEF Kill, Throttled
  <2>11. (\A k \in Index, i \in Id : ~ServerAdds(k, i)) /\ \A u \in BOOLEAN : ~Run(u)
    BY <2>1 DEF ServerAdds, Run
  <2> QED BY <2>2, <2>5, <2>6, <2>7, <2>8, <2>9, <2>10, <2>11 DEF Next, Step
<1> QED BY <1>1, DownloadInvariant, PTL DEF Spec, Safety, SuccessComplete
=============================================================================
