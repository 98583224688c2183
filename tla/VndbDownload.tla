---------------------------- MODULE VndbDownload ----------------------------
(***************************************************************************)
(* The download and update commands of the vndb client: download_all of    *)
(* vndb/vndb.h over get_all and send_get_command of vndb/connection.cpp.   *)
(* Each table is fetched in windows of ids, each window in pages sorted by *)
(* id, and each page is inserted in a transaction of its own.  An update   *)
(* goes on from the largest id that is stored.                             *)
(*                                                                         *)
(* The server gains objects at any time, with ids it never used before.    *)
(* It may answer that the client is throttled, or with an error; the       *)
(* connection may break; an insertion may fail; the program may be killed  *)
(* and run again.  What an object holds is left out.                       *)
(***************************************************************************)
EXTENDS Integers, FiniteSets

CONSTANTS
  NTables,    \* the tables of download_all: VNs, releases and so on
  MaxId,      \* bounds the ids of the server
  PageSize,   \* results of one page, 25
  Window,     \* ids asked for by one command, 25000
  MaxFaults   \* bounds the errors, broken connections and kills

ASSUME VndbAssumption ==
  /\ NTables \in Nat \ {0}
  /\ MaxId \in Nat \ {0} /\ PageSize \in Nat \ {0} /\ Window \in Nat \ {0}
  /\ MaxFaults \in Nat

VARIABLES
  online,                     \* the objects of the server
  stored,                     \* the committed rows of the database
  pc,                         \* the place in the program, or "off"
  update,                     \* the command is update
  info,                       \* db_info: the largest ids when the program began
  tab,                        \* which table download_all is at
  start, total, page, count,  \* of get_all and send_get_command
  items, more,                \* the page being inserted, and if it is the last
  error,                      \* conn.error
  result,                     \* what the last program returned
  promised,                   \* what was online when it began
  refused,                    \* tables for which it got no full answer
  faults

program == <<update, info, tab, start, total, page, count, items, more>>
vars == <<online, stored, pc, program, error, result, promised, refused, faults>>

Id == 1..MaxId
Index == 1..NTables

MaxOf(S) == IF S = {} THEN 0 ELSE CHOOSE i \in S : \A j \in S : j <= i

(* No window between two objects is empty: 25000 ids in a row without an   *)
(* object would end the table (the loop of get_all).                       *)
Dense(S) == \A lo \in 1..MaxOf(S) : S \intersect (lo..lo + Window - 1) # {}

TypeOK ==
  /\ online \in [Index -> SUBSET Id]
  /\ stored \in [Index -> SUBSET Id]
  /\ pc \in {"off", "table", "page", "insert"}
  /\ update \in BOOLEAN /\ error \in BOOLEAN
  /\ info \in [Index -> 0..MaxId]
  /\ tab \in Index
  /\ start \in 0..MaxId /\ total \in Nat /\ page \in Nat /\ count \in Nat
  /\ items \in SUBSET Id /\ more \in BOOLEAN
  /\ result \in {"none", "success", "failure", "killed"}
  /\ promised \in [Index -> SUBSET Id]
  /\ refused \in SUBSET Index
  /\ faults \in 0..MaxFaults

Init ==
  /\ online \in [Index -> {S \in SUBSET Id : S # {} /\ Dense(S)}]
  /\ stored = [k \in Index |-> {}]
  /\ pc = "off" /\ update = FALSE /\ error = FALSE
  /\ info = [k \in Index |-> 0]
  /\ tab = 1 /\ start = 0 /\ total = 0 /\ page = 0 /\ count = 0
  /\ items = {} /\ more = FALSE
  /\ result = "none"
  /\ promised = [k \in Index |-> {}] /\ refused = {}
  /\ faults = 0
-----------------------------------------------------------------------------
\* The server adds an object; the ids go up.
ServerAdds(k, i) ==
  /\ i > MaxOf(online[k]) /\ Dense(online[k] \union {i})
  /\ online' = [online EXCEPT ![k] = @ \union {i}]
  /\ UNCHANGED <<stored, pc, program, error, result, promised, refused, faults>>

\* The program begins: init_db_info, then the login.
Run(u) ==
  /\ pc = "off"
  /\ pc' = "table"
  /\ update' = u
  /\ info' = [k \in Index |-> MaxOf(stored[k])]
  /\ tab' = 1
  /\ error' = FALSE
  /\ promised' = online /\ refused' = {}
  /\ result' = "none"
  /\ UNCHANGED <<online, stored, start, total, page, count, items, more,
                 faults>>

\* The memory of the program is gone.
Exit(r) ==
  /\ pc' = "off" /\ result' = r
  /\ update' = FALSE /\ info' = [k \in Index |-> 0]
  /\ tab' = 1 /\ start' = 0 /\ total' = 0 /\ page' = 0 /\ count' = 0
  /\ items' = {} /\ more' = FALSE /\ error' = FALSE
  /\ promised' = [k \in Index |-> {}]

\* download_and_insert_all: db_info of a table without rows is null, and
\* reading it as a number throws.
StartTable ==
  /\ pc = "table"
  /\ \/ /\ update /\ info[tab] = 0
        /\ Exit("killed")
     \/ /\ ~update \/ info[tab] # 0
        /\ start' = IF update THEN info[tab] ELSE 1
        /\ total' = 0 /\ page' = 1 /\ count' = 0
        /\ pc' = "page"
        /\ UNCHANGED <<update, info, tab, items, more, error, result, promised>>
  /\ UNCHANGED <<online, stored, refused, faults>>

\* What download_all makes of the return value of get_all.
TableReturns(v) ==
  \/ v <= 0 /\ Exit("failure")
  \/ v > 0 /\ tab = NTables /\ Exit("success")
  \/ /\ v > 0 /\ tab < NTables
     /\ tab' = tab + 1 /\ pc' = "table"
     /\ start' = 0 /\ total' = 0 /\ page' = 0 /\ count' = 0
     /\ items' = {} /\ more' = FALSE
     /\ UNCHANGED <<update, info, result, promised>>

\* The loop of get_all goes on behind t objects.
NextCommand(t) ==
  /\ total' = t /\ page' = 1 /\ count' = 0
  /\ items' = {} /\ more' = FALSE
  /\ pc' = "page"
  /\ UNCHANGED <<update, info, tab, start, result, promised>>

\* Mutants of NextWindow: only the first window; the ids of a window counted
\* instead of its objects; only the last window counted.
FirstWindowOnly(c) == TableReturns(total + c)
CountIds(c) == IF c > 0 THEN NextCommand(total + Window) ELSE TableReturns(total)
CountLast(c) == IF c > 0 THEN NextCommand(c) ELSE TableReturns(total)

\* The loop of get_all, when a command has returned c objects.
NextWindow(c) == IF c > 0 THEN NextCommand(total + c) ELSE TableReturns(total)

\* send_get_command is left early with c, and sets the flag.  get_all tests
\* the flag only when c is positive.
CommandFails(c) ==
  /\ TableReturns(IF c > 0 THEN -1 ELSE total + c)
  /\ refused' = refused \union {tab}
  /\ pc' # "off" => error' = TRUE
-----------------------------------------------------------------------------
\* The ids of the command, and the part of them on the page.
InWindow == online[tab] \intersect (start + total..start + total + Window - 1)

Rank(i) == Cardinality({j \in InWindow : j <= i})

OnPage == {i \in InWindow : Rank(i) > (page - 1) * PageSize /\ Rank(i) <= page * PageSize}

\* A flag that is still set from an earlier command ends this one too.
PageArrives ==
  /\ pc = "page"
  /\ \/ error /\ CommandFails(-1)
     \/ /\ ~error
        /\ items' = OnPage
        /\ more' = (Cardinality(InWindow) > page * PageSize)
        /\ pc' = "insert"
        /\ UNCHANGED <<update, info, tab, start, total, page, count, error, result,
                       promised, refused>>
  /\ UNCHANGED <<online, stored, faults>>

\* A mutant of Throttled: page_no is not taken back.
ThrottledNextPage ==
  /\ pc = "page"
  /\ error' = FALSE /\ page' = page + 1
  /\ UNCHANGED <<online, stored, pc, update, info, tab, start, total, count,
                 items, more, result, promised, refused, faults>>

\* The client sleeps and asks for the same page.  The answer clears the flag.
Throttled ==
  /\ pc = "page"
  /\ error' = FALSE
  /\ UNCHANGED <<online, stored, pc, program, result, promised, refused, faults>>

\* An error answer, or one to the garbage that write sends after a new login.
ErrorArrives ==
  /\ pc = "page" /\ faults < MaxFaults
  /\ CommandFails(-1)
  /\ faults' = faults + 1
  /\ UNCHANGED <<online, stored>>

\* No answer at all: without the flag, the null that stands for it is read
\* as a page, and that throws.
ConnectionLost ==
  /\ pc = "page" /\ faults < MaxFaults
  /\ \/ error /\ CommandFails(-1)
     \/ ~error /\ Exit("killed") /\ UNCHANGED refused
  /\ faults' = faults + 1
  /\ UNCHANGED <<online, stored>>

\* The callback commits the page.
Commit ==
  /\ pc = "insert"
  /\ stored' = [stored EXCEPT ![tab] = @ \union items]
  /\ \/ /\ more
        /\ count' = count + Cardinality(items)
        /\ page' = page + 1 /\ items' = {} /\ more' = FALSE
        /\ pc' = "page"
        /\ UNCHANGED <<update, info, tab, start, total, error, result, promised>>
     \/ /\ ~more
        /\ NextWindow(count + Cardinality(items))
        /\ pc' # "off" => UNCHANGED error
  /\ UNCHANGED <<online, refused, faults>>

\* The callback rolls back and returns -1, or the commit fails and it returns
\* the code of sqlite, which is positive.
InsertFails ==
  /\ pc = "insert" /\ faults < MaxFaults
  /\ \E c \in {-1, 1} : CommandFails(c)
  /\ faults' = faults + 1
  /\ UNCHANGED <<online, stored>>

Kill ==
  /\ pc # "off" /\ faults < MaxFaults
  /\ Exit("killed")
  /\ faults' = faults + 1
  /\ UNCHANGED <<online, stored, refused>>

Step == StartTable \/ PageArrives \/ Commit

Next ==
  \/ \E k \in Index, i \in Id : ServerAdds(k, i)
  \/ \E u \in BOOLEAN : Run(u)
  \/ Step
  \/ Throttled \/ ErrorArrives \/ ConnectionLost \/ InsertFails \/ Kill

Safety == Init /\ [][Next]_vars

\* The program goes on, and is not throttled for ever on one page.
Fairness == WF_vars(Step)

Spec == Safety /\ Fairness
-----------------------------------------------------------------------------
(* No object below a stored one is missing, whatever was throttled, failed *)
(* or killed, and however often the commands are repeated: an update may   *)
(* go on from the largest id it has (download_and_insert_all).             *)
NoGaps ==
  \A k \in Index, i \in Id :
    i \in online[k] /\ i < MaxOf(stored[k]) => i \in stored[k]

(* The window that get_all asks for next begins at start + total, where    *)
(* total counts objects and not ids: all below it is stored.               *)
WindowFollows ==
  pc \in {"page", "insert"} =>
    \A i \in online[tab] : i >= start /\ i < start + total => i \in stored[tab]

Succeeds == pc # "off" /\ pc' = "off" /\ result' = "success"

(* A command that succeeds has all that was online when it began, but for  *)
(* the tables for which it was refused an answer (see AllDownloaded).      *)
SuccessComplete ==
  [][Succeeds =>
       \A k \in Index \ refused' : promised[k] \subseteq stored'[k]]_vars

(* "Downloads all objects that have been added to the online database     *)
(* since the local database was last updated" (vndb.h:520, update_all): an *)
(* update that succeeds has all that was online when it began.             *)
AllDownloaded ==
  [][Succeeds /\ update => \A k \in Index : promised[k] \subseteq stored'[k]]_vars

(* Every run of the program ends: each window begins behind the last.      *)
EachRunEnds == pc # "off" ~> pc = "off"
=============================================================================
