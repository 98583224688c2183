---------------------------- MODULE StreamsProofs ----------------------------
(***************************************************************************)
(* What TLAPS proves of the two programs that run a stream on an event     *)
(* loop, streamPi.c and readFile.c: for every number of chunks, every file *)
(* and every block size.                                                   *)
(***************************************************************************)
EXTENDS MCStreams, EventLoopProofs

\* The one stream of the program.
s == CHOOSE t \in Thread : TRUE

-----------------------------------------------------------------------------
(* What the two programs have in common: a stream announces d-events and   *)
(* then one e-event, which hd and he are registered for.                   *)

\* How many entries have been popped: the announcements are numbered alike.
Taken == Len(popped)
Calling == IF pc[s] \in {"lookup", "append"} THEN 1 ELSE 0

\* The stream has ended and its "end" entry has been popped.
Ended == spc[s] = "done" /\ Taken = calls

\* Is r the k-th announcement?  Only the last call of a stream that is done ends it.
IsNth(r, k, d, e) == r.n = k /\ r.event = (IF spc[s] = "done" /\ k = calls THEN e ELSE d)
HandledBy(r, e, hd, he) == r.handler = (IF r.event = e THEN he ELSE hd)

StreamTypes ==
  /\ spc \in [Thread -> {"none", "created", "failed", "produce", "data", "end", "done"}]
  /\ streamFreed \subseteq Thread

\* Every call is in the history, in order, but for the one on its way there.
CallsInv(d, e, hd, he) ==
  /\ pc[Loop] = "idle"
  /\ calls = Taken + Len(queue) + Calling
  /\ \A k \in 1..Taken : /\ IsNth(popped[k], k, d, e)
                         /\ HandledBy(popped[k], e, hd, he)
  /\ \A k \in 1..Len(queue) : /\ IsNth(queue[k], Taken + k, d, e)
                              /\ HandledBy(queue[k], e, hd, he)
  /\ pc[s] \in {"lookup", "append"} => IsNth(call[s], calls, d, e)
  /\ pc[s] = "append" => HandledBy(call[s], e, hd, he)

\* Where the stream is, and what must have happened for it to be there.
StageInv(d, e, hd, he) ==
  /\ spc[s] \in {"none", "created", "failed"} => calls = 0 /\ pc[s] = "idle"
  /\ spc[s] \in {"data", "end"} => pc[s] = "idle"
  /\ spc[s] = "done" => calls >= 1
  /\ spc[s] \notin {"none", "created"} =>
       alist = <<[event |-> e, handler |-> he], [event |-> d, handler |-> hd]>>

\* The loop stops, and the stream and the loop are freed, after the end only.
EndInv ==
  /\ lpc # "aborted"
  /\ lpc = "main" => state \in {0, 1}
  /\ lpc \notin {"main", "fn"} => spc[s] \notin {"none", "created"}
  /\ lpc = "handler" => Taken >= 1
  /\ state = 0 => Ended
  /\ streamFreed # {} => Ended
  /\ freed => state = 0 /\ lpc = "main"

StreamInv(d, e, hd, he) == /\ IInv /\ StreamTypes
                           /\ CallsInv(d, e, hd, he) /\ StageInv(d, e, hd, he) /\ EndInv

-----------------------------------------------------------------------------
(* streamPi.c                                                              *)

\* The handler of "data" has not added, or has not freed, the box it runs for.
Adding == lpc = "handler" /\ Running.handler = ProcessValue /\ body = "entry"
Reading == lpc = "handler" /\ Running.handler = ProcessValue /\ body \in {"entry", "free"}

PiBody ==
  /\ lpc = "main" => (IF state = 1 THEN body = "create" ELSE body = "done")
  /\ lpc = "fn" => body \in {"create", "regdata", "regend", "start", "done"}
  /\ lpc \in {"test", "wait", "pop"} => body = "done"
  /\ lpc = "handler" => body \in (IF Running.handler = ProcessValue THEN {"entry", "free", "done"}
                                  ELSE {"entry", "cleanup", "stop", "done"})
  /\ lpc = "handler" /\ body # "done" => state = 2

PiSetup ==
  /\ body = "create" <=> spc[s] = "none"
  /\ body \in {"regdata", "regend", "start"} => spc[s] = "created"
  /\ body = "regdata" => alist = << >>
  /\ body = "create" => alist = << >>
  /\ body = "regend" => alist = <<[event |-> DataEvent, handler |-> ProcessValue]>>
  /\ body = "start" => alist = <<[event |-> EndEvent, handler |-> Terminate],
                                 [event |-> DataEvent, handler |-> ProcessValue]>>
  /\ spc[s] = "created" => body \in {"regdata", "regend", "start"}

\* How far the stream has come with the chunks.
PiChunks ==
  /\ nextChunk \in 0..Chunks
  /\ spc[s] \in {"none", "created", "failed"} => nextChunk = 0
  /\ spc[s] = "produce" => calls = nextChunk
  /\ spc[s] = "data" => calls + 1 = nextChunk
  /\ spc[s] = "end" => calls = nextChunk /\ nextChunk = Chunks
  /\ spc[s] = "done" => calls = Chunks + 1 /\ nextChunk = Chunks

PiSums ==
  /\ boxes = {k \in 1..nextChunk : k > Taken \/ (k = Taken /\ Reading)}
  /\ sum = {k \in 1..Chunks : k < Taken \/ (k = Taken /\ ~Adding)}
  /\ printed # NIL => Ended /\ printed = 1..Chunks

PiInv == /\ StreamInv(DataEvent, EndEvent, ProcessValue, Terminate)
         /\ PiBody /\ PiSetup /\ PiChunks /\ PiSums

-----------------------------------------------------------------------------
(* readFile.c                                                              *)
Size == IF file.len > Block THEN file.len ELSE Block
RunsData == lpc = "handler" /\ Running.handler = ProcessData
Before(m) == {q \in file.newline : q < m}
Loaded == data.file_offset = Size

FileBody ==
  /\ lpc = "main" => (IF state = 1 THEN fileBody = "create" ELSE fileBody = "done")
  /\ lpc = "fn" => fileBody \in {"create", "regdata", "regend", "start", "done"}
  /\ lpc \in {"test", "wait", "pop"} => fileBody = "done"
  /\ lpc = "handler" => fileBody \in (IF Running.handler = ProcessData
                                      THEN {"while", "memchr", "found", "size", "last", "done"}
                                      ELSE {"while", "stop", "cleanup", "done"})
  /\ lpc = "handler" /\ fileBody \notin {"cleanup", "done"} => state = 2

FileSetup ==
  /\ fileBody = "create" <=> spc[s] = "none"
  /\ fileBody \in {"regdata", "regend", "start"} => spc[s] = "created"
  /\ fileBody \in {"create", "regdata"} => alist = << >>
  /\ fileBody = "regend" => alist = <<[event |-> FileData, handler |-> ProcessData]>>
  /\ fileBody = "start" => alist = <<[event |-> FileEnd, handler |-> ReadFileEnd],
                                     [event |-> FileData, handler |-> ProcessData]>>
  /\ spc[s] = "created" => fileBody \in {"regdata", "regend", "start"}

\* The whole file is one block: one "data" event and the "end" event.
FileStages ==
  /\ produce \in {"test", "last", "size", "offset", "return"}
  /\ produce # "test" => spc[s] = "produce" /\ calls = 0
  /\ produce = "return" \/ spc[s] \in {"data", "end", "done"} \/ calls > 0 => Loaded
  /\ produce # "return" /\ spc[s] \notin {"data", "end", "done"} /\ calls = 0 => data.file_offset = 0
  /\ spc[s] = "produce" => calls <= 1
  /\ spc[s] = "data" => calls = 0
  /\ spc[s] = "end" => calls = 1
  /\ spc[s] = "done" => calls = 2

FileTypesInv ==
  /\ file.len \in Nat \ {0} /\ file.newline \subseteq 0 .. file.len - 1
  /\ data \in [file_offset : Nat, mem_ptr : Int, mem_ptr_last : Nat,
               block_size : Nat, newline_count : Nat]

\* The record while the stream sets it up, and until its handler runs.
ProduceInv ==
  Taken = 0 =>
    /\ data.mem_ptr = 0 /\ data.mem_ptr_last = 0 /\ data.newline_count = 0
    /\ produce \in {"offset", "return"} \/ Loaded => data.block_size = Size

\* The record while the handler walks the block: what has been counted is
\* what lies before mem_ptr_last, and the rest of the block is still ahead.
WalkInv ==
  RunsData /\ fileBody # "done" =>
    /\ Taken = 1
    /\ fileBody \in {"while", "memchr"} => data.mem_ptr = data.mem_ptr_last
    /\ fileBody \in {"while", "memchr", "found", "size"} =>
         data.block_size = Size - data.mem_ptr_last
    /\ fileBody = "last" => data.block_size = Size - data.mem_ptr
    /\ data.newline_count = Cardinality(Before(data.mem_ptr_last))
    /\ fileBody = "found" =>
         /\ data.mem_ptr \in file.newline
         /\ data.mem_ptr >= data.mem_ptr_last
         /\ Before(data.mem_ptr) = Before(data.mem_ptr_last)
    /\ fileBody \in {"size", "last"} =>
         /\ data.mem_ptr - 1 \in file.newline
         /\ data.mem_ptr - 1 >= data.mem_ptr_last
         /\ Before(data.mem_ptr - 1) = Before(data.mem_ptr_last)

CountInv ==
  /\ Taken >= 1 /\ ~(RunsData /\ fileBody # "done") =>
       data.newline_count = Cardinality(file.newline)
  /\ filePrinted # NIL => filePrinted = Cardinality(file.newline)

FInv == /\ StreamInv(FileData, FileEnd, ProcessData, ReadFileEnd)
        /\ FileBody /\ FileSetup /\ FileStages /\ FileTypesInv /\ ProduceInv /\ WalkInv /\ CountInv

-----------------------------------------------------------------------------
(* The lemmas both proofs rest on: every step a program makes keeps what   *)
(* the programs have in common.                                            *)

\* Two different events with two different handlers.
Names(d, e, hd, he) == d \in Event /\ e \in Event /\ d # e
                       /\ hd \in Handler /\ he \in Handler /\ hd # he

LEMMA OneStream == Thread = {s} /\ s # Loop /\ Caller = {s, Loop} /\ s \in Caller
<1>1. PICK t \in Thread : Thread = {t}
  BY StreamPiAssumption
<1>2. s = t
  BY <1>1 DEF s
<1>. QED  BY <1>1, <1>2, ThreadAssumption DEF Caller

\* The counts of CallsInv are numbers.
LEMMA Counts ==
  ASSUME TypeOK
  PROVE  /\ Taken \in Nat /\ Len(queue) \in Nat /\ calls \in Nat /\ Calling \in {0, 1}
         /\ popped \in Seq(Entry) /\ queue \in Seq(Entry)
  BY LenProperties, BoundAssumption DEF TypeOK, Taken, Calling

LEMMA CountsNext ==
  ASSUME TypeOK'
  PROVE  Taken' \in Nat /\ Len(queue') \in Nat /\ calls' \in Nat /\ Calling' \in {0, 1}
  BY LenProperties, BoundAssumption DEF TypeOK, Taken, Calling

\* An entry that he handles is the last of all calls, and its stream is done.
LEMMA LastEntry ==
  ASSUME NEW d, NEW e, NEW hd, NEW he, Names(d, e, hd, he),
         StreamInv(d, e, hd, he), lpc = "handler", Running.handler = he
  PROVE  Ended
<1>1. Taken \in 1..Taken
  BY Counts DEF StreamInv, IInv, EndInv
<1>2. IsNth(popped[Taken], Taken, d, e) /\ HandledBy(popped[Taken], e, hd, he)
  BY <1>1 DEF StreamInv, CallsInv
<1>. QED  BY <1>2 DEF IsNth, HandledBy, Names, Running, Taken, Ended

\* Once the stream has ended nothing is queued and its thread is not calling.
LEMMA EndedIsQuiet ==
  ASSUME NEW d, NEW e, NEW hd, NEW he, StreamInv(d, e, hd, he), Ended
  PROVE  queue = << >> /\ pc[s] = "idle"
<1>1. Len(queue) = 0 /\ Calling = 0
  BY Counts DEF StreamInv, IInv, CallsInv, Ended
<1>2. queue = << >>
  BY <1>1, Counts, EmptySeq DEF StreamInv, IInv
<1>3. Cardinality(Posting) = 0
  BY <1>1, PostingFinite DEF StreamInv, IInv, SemMatchesQueue, TypeOK
<1>4. Posting = {}
  BY <1>3, PostingFinite, FS_EmptySet
<1>5. pc[s] \in {"idle", "lookup", "append", "post"} /\ pc[s] # "post"
  BY <1>4, OneStream DEF Posting, StreamInv, IInv, TypeOK
<1>. QED  BY <1>1, <1>2, <1>5 DEF Calling

\* The stream calls announce_event.
LEMMA StreamCalls ==
  ASSUME NEW d, NEW e, NEW hd, NEW he, Names(d, e, hd, he), StreamInv(d, e, hd, he),
         \/ StreamGoes(s, "data", "produce") /\ AnnounceEvent(s, d)
         \/ StreamGoes(s, "end", "done") /\ AnnounceEvent(s, e),
         UNCHANGED streamFreed
  PROVE  StreamInv(d, e, hd, he)'
<1>. USE DEF StreamInv, IInv
<1>1. PICK ev \in {d, e} : /\ AnnounceEvent(s, ev)
                           /\ spc' = [spc EXCEPT ![s] = IF ev = e THEN "done" ELSE "produce"]
                           /\ spc[s] = IF ev = e THEN "end" ELSE "data"
  BY DEF StreamGoes, Names
<1>2. IInv'
  <2>1. Next
    BY <1>1, OneStream DEF Next, Client, Names
  <2>. QED  BY <2>1, IInvStep
<1>3. spc'[s] = (IF ev = e THEN "done" ELSE "produce") /\ StreamTypes'
  BY <1>1, OneStream DEF StreamTypes
<1>4. /\ calls' = calls + 1 /\ Taken' = Taken /\ popped' = popped /\ queue' = queue
      /\ pc[s] = "idle" /\ pc'[s] = "lookup" /\ pc'[Loop] = pc[Loop] /\ alist' = alist
      /\ Calling = 0 /\ Calling' = 1
      /\ call'[s].event = ev /\ call'[s].n = calls + 1
  BY <1>1, OneStream DEF AnnounceEvent, InClient, Taken, Calling, TypeOK
<1>5. calls = Taken + Len(queue) /\ calls' # calls
  BY <1>4, Counts DEF CallsInv
<1>6. CallsInv(d, e, hd, he)'
  <2>1. \A k \in 1..Taken : k # calls' /\ popped'[k] = popped[k]
    BY <1>4, <1>5, Counts
  <2>2. \A k \in 1..Len(queue) : Taken + k # calls' /\ queue'[k] = queue[k]
    BY <1>4, <1>5, Counts
  <2>3. spc[s] # "done"
    BY <1>1
  <2>4. IsNth(call[s], calls, d, e)'
    BY <1>3, <1>4 DEF IsNth
  <2>. QED  BY <1>3, <1>4, <1>5, <2>1, <2>2, <2>3, <2>4, Counts
            DEF CallsInv, IsNth, HandledBy
<1>7. StageInv(d, e, hd, he)'
  BY <1>1, <1>3, <1>4, Counts DEF StageInv
<1>8. EndInv'
  BY <1>1, <1>3, <1>4 DEF EndInv, AnnounceEvent, Ended
<1>. QED  BY <1>2, <1>3, <1>6, <1>7, <1>8
\* An announcement on its way looks the handler up, is appended and posted.
LEMMA StreamAnnouncing ==
  ASSUME NEW d, NEW e, NEW hd, NEW he, Names(d, e, hd, he), StreamInv(d, e, hd, he),
         Announcing(s), UNCHANGED streamVars
  PROVE  StreamInv(d, e, hd, he)' /\ UNCHANGED <<state, lpc, popped, calls, alist, freed>>
<1>. USE DEF StreamInv, IInv
<1>1. IInv'
  <2>1. Next
    BY OneStream DEF Next
  <2>. QED  BY <2>1, IInvStep
<1>2. /\ state' = state /\ lpc' = lpc /\ popped' = popped /\ calls' = calls /\ alist' = alist
      /\ freed' = freed /\ spc' = spc /\ streamFreed' = streamFreed /\ Taken' = Taken
  BY DEF Announcing, LookupFails, LookupFinds, QueueAppend, SemPost, streamVars, Taken
<1>3. pc[s] \in {"lookup", "append", "post"} /\ pc'[Loop] = pc[Loop]
  BY OneStream DEF Announcing, LookupFails, LookupFinds, QueueAppend, SemPost, TypeOK
<1>4. StreamTypes' /\ StageInv(d, e, hd, he)' /\ EndInv'
  BY <1>2, <1>3 DEF StreamTypes, StageInv, EndInv, Ended
<1>5. CASE pc[s] = "lookup"
  <2>1. spc[s] \notin {"none", "created"} /\ IsNth(call[s], calls, d, e)
    BY <1>5 DEF StageInv, CallsInv
  <2>2. alist = <<[event |-> e, handler |-> he], [event |-> d, handler |-> hd]>>
    BY <2>1 DEF StageInv
  <2>3. call[s].event \in {d, e}
    BY <2>1 DEF IsNth
  <2>4. GetEventHandler(call[s].event) = (IF call[s].event = e THEN he ELSE hd)
    <3>. DEFINE ev == call[s].event
    <3>1. DOMAIN alist = 1..2 /\ alist[1].event = e /\ alist[2].event = d
          /\ alist[1].handler = he /\ alist[2].handler = hd
      BY <2>2
    <3>2. ev = e => Matches(ev) = {1}
      BY <3>1 DEF Matches, Names
    <3>3. ev = d => Matches(ev) = {2}
      BY <3>1 DEF Matches, Names
    <3>4. Matches(ev) # {} /\ Assoc(ev) \in Matches(ev)
      BY <2>3, <3>2, <3>3, AssocFinds
    <3>. QED  BY <2>3, <3>1, <3>2, <3>3, <3>4 DEF GetEventHandler
  <2>5. LookupFinds(s)
    BY <1>5, <2>4, NilAssumption DEF Announcing, LookupFails, LookupFinds, QueueAppend, SemPost, Names
  <2>6. /\ pc'[s] = "append" /\ queue' = queue
        /\ call'[s].event = call[s].event /\ call'[s].n = call[s].n
        /\ call'[s].handler = GetEventHandler(call[s].event)
    <3>1. call[s] \in Announcement
      BY <1>5, OneStream DEF TypeOK
    <3>. QED  BY <2>5, <3>1, OneStream DEF LookupFinds, TypeOK, Announcement
  <2>7. CallsInv(d, e, hd, he)'
    BY <1>2, <1>3, <1>5, <2>1, <2>4, <2>6 DEF CallsInv, IsNth, HandledBy, Calling
  <2>. QED  BY <1>1, <1>2, <1>4, <2>7
<1>6. CASE pc[s] = "append"
  <2>1. QueueAppend(s)
    BY <1>6 DEF Announcing, LookupFails, LookupFinds, QueueAppend, SemPost
  <2>2. call[s] \in Entry /\ IsNth(call[s], calls, d, e) /\ HandledBy(call[s], e, hd, he)
    BY <1>6, OneStream DEF TypeOK, CallsInv
  <2>3. /\ Len(queue') = Len(queue) + 1 /\ queue'[Len(queue) + 1] = call[s]
        /\ \A k \in 1..Len(queue) : queue'[k] = queue[k]
    BY <2>1, <2>2, Counts, AppendProperties DEF QueueAppend
  <2>4. pc'[s] = "post" /\ Calling' = 0 /\ Calling = 1
    BY <1>6, <2>1, OneStream DEF QueueAppend, TypeOK, Calling
  <2>5. calls = Taken + Len(queue) + 1
    BY <2>4 DEF CallsInv
  <2>6. \A k \in 1..Len(queue') : /\ IsNth(queue'[k], Taken + k, d, e)
                                  /\ HandledBy(queue'[k], e, hd, he)
    <3>. TAKE k \in 1..Len(queue')
    <3>1. CASE k = Len(queue) + 1
      BY <2>2, <2>3, <2>5, <3>1, Counts
    <3>2. CASE k \in 1..Len(queue)
      BY <2>3, <3>2 DEF CallsInv
    <3>. QED  BY <2>3, <3>1, <3>2, Counts
  <2>7. CallsInv(d, e, hd, he)'
    BY <1>2, <1>3, <2>3, <2>4, <2>5, <2>6, Counts DEF CallsInv, IsNth, HandledBy
  <2>. QED  BY <1>1, <1>2, <1>4, <2>7
<1>7. CASE pc[s] = "post"
  <2>1. SemPost(s)
    BY <1>7 DEF Announcing, LookupFails, LookupFinds, QueueAppend, SemPost
  <2>2. queue' = queue /\ pc'[s] = "idle"
    BY <2>1, OneStream DEF SemPost, TypeOK
  <2>3. CallsInv(d, e, hd, he)'
    BY <1>2, <1>3, <1>7, <2>2 DEF CallsInv, IsNth, HandledBy, Calling
  <2>. QED  BY <1>1, <1>2, <1>4, <2>3
<1>. QED  BY <1>3, <1>5, <1>6, <1>7

\* run_handler: a running loop pops an entry that is there.
LEMMA StreamPops ==
  ASSUME NEW d, NEW e, NEW hd, NEW he, StreamInv(d, e, hd, he),
         RunHandler, UNCHANGED streamVars
  PROVE  /\ StreamInv(d, e, hd, he)'
         /\ lpc = "pop" /\ lpc' = "handler" /\ state' = 2 /\ ~Ended
         /\ Taken' = Taken + 1 /\ UNCHANGED <<state, calls, alist>>
         /\ Running' = Head(queue) /\ IsNth(Running', Taken', d, e)
         /\ HandledBy(Running', e, hd, he)
<1>. USE DEF StreamInv, IInv
<1>1. IInv'
  <2>1. Next
    BY DEF Next, Looping
  <2>. QED  BY <2>1, IInvStep
<1>2. queue # << >>
  BY <1>1 DEF RunHandler, LoopGoes, NeverPopsEmpty
<1>3. /\ lpc = "pop" /\ lpc' = "handler" /\ queue' = Tail(queue)
      /\ popped' = Append(popped, Head(queue)) /\ spc' = spc /\ streamFreed' = streamFreed
      /\ UNCHANGED <<state, alist, sem, freed, pc, call, calls, unhandled>>
  BY <1>2 DEF RunHandler, LoopGoes, streamVars
<1>4. PICK m \in Nat : m = Len(queue)
  BY Counts
<1>5. m >= 1 /\ Len(queue') = m - 1 /\ \A k \in 1 .. m - 1 : queue'[k] = queue[k + 1]
  BY <1>2, <1>3, <1>4, Counts, EmptySeq, HeadTailProperties
<1>6. Head(queue) = queue[1] /\ Head(queue) \in Entry
  BY <1>2, Counts, HeadTailProperties
<1>7. /\ Taken' = Taken + 1 /\ popped'[Taken + 1] = queue[1]
      /\ \A k \in 1..Taken : popped'[k] = popped[k]
  BY <1>3, <1>6, Counts, AppendProperties DEF Taken
<1>8. Running' = queue[1] /\ IsNth(queue[1], Taken + 1, d, e) /\ HandledBy(queue[1], e, hd, he)
  BY <1>4, <1>5, <1>7, Counts DEF Running, CallsInv, Taken
<1>9. CallsInv(d, e, hd, he)'
  <2>1. \A k \in 1..Taken' : /\ IsNth(popped'[k], k, d, e)
                             /\ HandledBy(popped'[k], e, hd, he)
    <3>. TAKE k \in 1..Taken'
    <3>1. CASE k = Taken + 1
      BY <1>7, <1>8, <3>1
    <3>2. CASE k \in 1..Taken
      BY <1>7, <3>2 DEF CallsInv
    <3>. QED  BY <1>7, <3>1, <3>2, Counts
  <2>2. \A k \in 1..Len(queue') : /\ IsNth(queue'[k], Taken' + k, d, e)
                                  /\ HandledBy(queue'[k], e, hd, he)
    <3>. TAKE k \in 1..Len(queue')
    <3>1. k \in 1 .. m - 1
      BY <1>5
    <3>2. k + 1 \in 1..Len(queue)
      BY <1>4, <3>1
    <3>3. queue'[k] = queue[k + 1]
      BY <1>5, <3>1
    <3>4. Taken' + k = Taken + (k + 1)
      BY <1>7, <3>1, Counts
    <3>. QED  BY <3>2, <3>3, <3>4 DEF CallsInv
  <2>3. Calling' = Calling
    BY <1>3 DEF Calling
  <2>4. calls' = Taken' + Len(queue') + Calling'
    <3>1. calls = Taken + m + Calling
      BY <1>4 DEF CallsInv
    <3>2. Taken \in Nat /\ Calling \in {0, 1}
      BY Counts
    <3>3. calls' = calls /\ Taken' = Taken + 1 /\ Len(queue') = m - 1 /\ Calling' = Calling
      BY <1>3, <1>5, <1>7, <2>3
    <3>. HIDE DEF StreamInv, IInv
    <3>. QED  BY ONLY <1>4, <3>1, <3>2, <3>3
  <2>5. /\ pc'[s] \in {"lookup", "append"} => IsNth(call[s], calls, d, e)'
        /\ pc'[s] = "append" => HandledBy(call[s], e, hd, he)'
        /\ pc'[Loop] = "idle"
    BY <1>3 DEF CallsInv, IsNth, HandledBy
  <2>7. /\ \A k \in 1..Taken' : /\ IsNth(popped[k], k, d, e)'
                                /\ HandledBy(popped[k], e, hd, he)'
        /\ \A k \in 1..Len(queue') : /\ IsNth(queue[k], Taken + k, d, e)'
                                     /\ HandledBy(queue[k], e, hd, he)'
    BY <1>3, <2>1, <2>2 DEF IsNth, HandledBy
  <2>. QED  BY <2>4, <2>5, <2>7 DEF CallsInv
<1>10. ~Ended
  BY <1>4, <1>5, Counts DEF CallsInv, Ended
<1>11. StreamTypes' /\ StageInv(d, e, hd, he)' /\ EndInv'
  <2>1. Taken' >= 1 /\ state = 2
    BY <1>3, <1>7, Counts
  <2>. QED  BY <1>3, <1>7, <1>10, <2>1 DEF StreamTypes, StageInv, EndInv, Ended
<1>. QED  BY <1>1, <1>3, <1>6, <1>7, <1>8, <1>9, <1>10, <1>11 DEF IsNth
\* A step that neither calls, queues nor pops leaves the calls as they are.
LEMMA CallsStay ==
  ASSUME NEW d, NEW e, NEW hd, NEW he, CallsInv(d, e, hd, he),
         UNCHANGED <<pc, call, calls, popped, queue>>,
         spc'[s] = "done" <=> spc[s] = "done"
  PROVE  CallsInv(d, e, hd, he)' /\ UNCHANGED <<Taken, Running>> /\ (Ended' <=> Ended)
<1>1. /\ pc' = pc /\ call' = call /\ calls' = calls /\ popped' = popped /\ queue' = queue
      /\ Taken' = Taken /\ Calling' = Calling /\ Running' = Running
  BY DEF Taken, Calling, Running
<1>. QED  BY <1>1 DEF CallsInv, IsNth, HandledBy, Ended

\* The thread of the loop moves on: main starts it, the initial function or a
\* handler returns, main_loop tests the state and waits.
LEMMA LoopMoves ==
  ASSUME NEW d, NEW e, NEW hd, NEW he, StreamInv(d, e, hd, he),
         \/ state = 1 /\ StartEventLoop
         \/ InitialFunctionReturns /\ spc[s] \notin {"none", "created"}
         \/ HandlerReturns \/ TestState \/ SemWait,
         UNCHANGED streamVars
  PROVE  StreamInv(d, e, hd, he)' /\ UNCHANGED <<popped, calls, alist, Taken>> /\ (Ended' <=> Ended)
<1>. USE DEF StreamInv, IInv
<1>1. IInv'
  <2>1. Next
    BY DEF Next, Client, Looping
  <2>. QED  BY <2>1, IInvStep
<1>2. /\ UNCHANGED <<pc, call, calls, popped, queue, alist, freed>>
      /\ spc' = spc /\ streamFreed' = streamFreed
  BY DEF StartEventLoop, InitialFunctionReturns, HandlerReturns, TestState, SemWait, streamVars
<1>3. CallsInv(d, e, hd, he)' /\ Taken' = Taken /\ (Ended' <=> Ended)
  BY <1>2, CallsStay
<1>4. StreamTypes' /\ StageInv(d, e, hd, he)'
  BY <1>2 DEF StreamTypes, StageInv
<1>5. EndInv'
  <2>1. CASE state = 1 /\ StartEventLoop
    BY <1>2, <1>3, <2>1 DEF StartEventLoop, EndInv
  <2>2. CASE InitialFunctionReturns /\ spc[s] \notin {"none", "created"}
    BY <1>2, <1>3, <2>2 DEF InitialFunctionReturns, LoopGoes, EndInv
  <2>3. CASE HandlerReturns
    BY <1>2, <1>3, <2>3 DEF HandlerReturns, LoopGoes, EndInv
  <2>4. CASE TestState
    <3>1. state \in 0..2
      BY DEF TypeOK
    <3>. QED  BY <1>2, <1>3, <2>4, <3>1 DEF TestState, LoopGoes, EndInv
  <2>5. CASE SemWait
    BY <1>2, <1>3, <2>5 DEF SemWait, LoopGoes, EndInv
  <2>. QED  BY <2>1, <2>2, <2>3, <2>4, <2>5
<1>. QED  BY <1>1, <1>2, <1>3, <1>4, <1>5

\* The handler of the end stops a loop that runs.
LEMMA HandlerStops ==
  ASSUME NEW d, NEW e, NEW hd, NEW he, Names(d, e, hd, he), StreamInv(d, e, hd, he),
         StopEventLoop, state = 2, Running.handler = he, UNCHANGED streamVars
  PROVE  StreamInv(d, e, hd, he)' /\ state' = 0 /\ lpc' = "handler"
         /\ UNCHANGED <<popped, calls, alist, Taken>> /\ (Ended' <=> Ended)
<1>. USE DEF StreamInv, IInv
<1>1. IInv'
  <2>1. Next
    BY DEF Next, Client
  <2>. QED  BY <2>1, IInvStep
<1>2. /\ UNCHANGED <<pc, call, calls, popped, queue, alist, freed>>
      /\ spc' = spc /\ streamFreed' = streamFreed
      /\ state' = 0 /\ lpc' = lpc /\ lpc = "handler"
  BY DEF StopEventLoop, streamVars
<1>3. CallsInv(d, e, hd, he)' /\ Taken' = Taken /\ (Ended' <=> Ended)
  BY <1>2, CallsStay
<1>4. Ended
  BY <1>2, LastEntry
<1>5. StreamTypes' /\ StageInv(d, e, hd, he)' /\ EndInv'
  BY <1>2, <1>3, <1>4 DEF StreamTypes, StageInv, EndInv
<1>. QED  BY <1>1, <1>2, <1>3, <1>5

\* main frees a loop that has been stopped, and no thread is announcing.
LEMMA MainFrees ==
  ASSUME NEW d, NEW e, NEW hd, NEW he, StreamInv(d, e, hd, he),
         CleanupEventLoop, state # 1, UNCHANGED streamVars
  PROVE  StreamInv(d, e, hd, he)' /\ UNCHANGED <<state, lpc, popped, calls, alist, Taken>>
         /\ (Ended' <=> Ended)
<1>. USE DEF StreamInv, IInv
<1>0. state = 0 /\ lpc = "main" /\ Ended
  BY DEF CleanupEventLoop, EndInv
<1>1. IInv'
  <2>1. CleanupContract
    BY <1>0, EndedIsQuiet, OneStream DEF CleanupContract
  <2>2. Next
    BY <2>1 DEF Next, Client
  <2>. QED  BY <2>2, IInvStep
<1>2. /\ UNCHANGED <<pc, call, calls, popped, queue, alist, state>>
      /\ spc' = spc /\ streamFreed' = streamFreed
      /\ freed' = TRUE /\ lpc' = lpc
  BY <1>0 DEF CleanupEventLoop, streamVars
<1>3. CallsInv(d, e, hd, he)' /\ Taken' = Taken /\ (Ended' <=> Ended)
  BY <1>2, CallsStay
<1>4. StreamTypes' /\ StageInv(d, e, hd, he)' /\ EndInv'
  BY <1>0, <1>2, <1>3 DEF StreamTypes, StageInv, EndInv
<1>. QED  BY <1>1, <1>2, <1>3, <1>4

\* The initial function registers a handler before it starts the stream.
LEMMA LoopRegisters ==
  ASSUME NEW d, NEW e, NEW hd, NEW he, StreamInv(d, e, hd, he),
         NEW ev \in Event, NEW h \in Handler, RegisterEvent(Loop, ev, h),
         spc[s] = "created", UNCHANGED streamVars
  PROVE  StreamInv(d, e, hd, he)' /\ UNCHANGED <<state, lpc, popped, calls, Taken>>
         /\ alist' = <<[event |-> ev, handler |-> h]>> \o alist /\ (Ended' <=> Ended)
<1>. USE DEF StreamInv, IInv
<1>1. IInv'
  <2>1. Next
    BY DEF Next, Client, Caller
  <2>. QED  BY <2>1, IInvStep
<1>2. /\ UNCHANGED <<pc, call, calls, popped, queue, state, lpc, freed>>
      /\ spc' = spc /\ streamFreed' = streamFreed
      /\ alist' = <<[event |-> ev, handler |-> h]>> \o alist
  BY DEF RegisterEvent, streamVars
<1>3. CallsInv(d, e, hd, he)' /\ Taken' = Taken /\ (Ended' <=> Ended)
  BY <1>2, CallsStay
<1>4. StreamTypes' /\ StageInv(d, e, hd, he)' /\ EndInv'
  BY <1>2, <1>3 DEF StreamTypes, StageInv, EndInv
<1>. QED  BY <1>1, <1>2, <1>3, <1>4

\* The stream is made, started, or its produce function returns.
LEMMA StreamMoves ==
  ASSUME NEW d, NEW e, NEW hd, NEW he, StreamInv(d, e, hd, he),
         \/ CreateStream(s)
         \/ /\ StartStream(s)
            /\ alist = <<[event |-> e, handler |-> he], [event |-> d, handler |-> hd]>>
         \/ Produced(s, TRUE) \/ Produced(s, FALSE)
  PROVE  StreamInv(d, e, hd, he)' /\ UNCHANGED <<vars, Taken, Running>> /\ ~Ended /\ ~Ended'
         /\ spc[s] \in {"none", "created", "produce"}
<1>. USE DEF StreamInv
<1>1. UNCHANGED vars /\ streamFreed' = streamFreed
  BY DEF CreateStream, StartStream, Produced
<1>2. PICK to \in {"created", "produce", "failed", "data", "end"} :
        /\ spc' = [spc EXCEPT ![s] = to]
        /\ to = "created" => spc[s] = "none"
        /\ to \in {"produce", "failed"} =>
             /\ spc[s] = "created"
             /\ alist = <<[event |-> e, handler |-> he], [event |-> d, handler |-> hd]>>
        /\ to \in {"data", "end"} => spc[s] = "produce" /\ pc[s] = "idle"
  BY DEF CreateStream, StartStream, Produced, StreamGoes
<1>3. spc'[s] = to /\ StreamTypes' /\ spc[s] \in {"none", "created", "produce"}
  BY <1>1, <1>2, OneStream DEF StreamTypes
<1>4. IInv'
  BY <1>1, IInvStep
<1>5. /\ UNCHANGED <<pc, call, calls, popped, queue, alist, state, lpc, freed>>
      /\ CallsInv(d, e, hd, he)' /\ Taken' = Taken /\ Running' = Running
      /\ (Ended' <=> Ended)
  BY <1>1, <1>3, CallsStay DEF vars
<1>6. StageInv(d, e, hd, he)'
  BY <1>2, <1>3, <1>5 DEF StageInv
<1>7. ~Ended
  BY <1>3 DEF Ended
<1>8. EndInv'
  BY <1>1, <1>2, <1>3, <1>5, <1>7 DEF EndInv
<1>. QED  BY <1>1, <1>3, <1>4, <1>5, <1>6, <1>7, <1>8

\* The handler of the end frees the stream.
LEMMA HandlerFrees ==
  ASSUME NEW d, NEW e, NEW hd, NEW he, Names(d, e, hd, he), StreamInv(d, e, hd, he),
         NEW t \in Thread, CleanupStream(t), UNCHANGED vars, lpc = "handler", Running.handler = he
  PROVE  StreamInv(d, e, hd, he)' /\ UNCHANGED <<Taken, Running, spc>> /\ (Ended' <=> Ended)
<1>. USE DEF StreamInv
<1>1. spc' = spc /\ streamFreed' = streamFreed \union {t}
  BY DEF CleanupStream
<1>2. IInv'
  BY IInvStep
<1>3. /\ UNCHANGED <<pc, call, calls, popped, queue, alist, state, lpc, freed>>
      /\ CallsInv(d, e, hd, he)' /\ Taken' = Taken /\ Running' = Running
      /\ (Ended' <=> Ended)
  BY <1>1, CallsStay DEF vars
<1>4. Ended
  BY LastEntry
<1>5. StreamTypes' /\ StageInv(d, e, hd, he)' /\ EndInv'
  BY <1>1, <1>3, <1>4 DEF StreamTypes, StageInv, EndInv
<1>. QED  BY <1>1, <1>2, <1>3, <1>5

\* A step of client code that does not touch the loop or the stream.
LEMMA ClientMoves ==
  ASSUME NEW d, NEW e, NEW hd, NEW he, StreamInv(d, e, hd, he),
         UNCHANGED <<vars, streamVars>>
  PROVE  StreamInv(d, e, hd, he)' /\ UNCHANGED <<Taken, Running>> /\ (Ended' <=> Ended)
<1>. USE DEF StreamInv
<1>1. IInv'
  BY IInvStep
<1>2. /\ UNCHANGED <<pc, call, calls, popped, queue, alist, state, lpc, freed, spc, streamFreed>>
      /\ CallsInv(d, e, hd, he)' /\ Taken' = Taken /\ Running' = Running
      /\ (Ended' <=> Ended)
  BY CallsStay DEF vars, streamVars
<1>3. StreamTypes' /\ StageInv(d, e, hd, he)' /\ EndInv'
  BY <1>2 DEF StreamTypes, StageInv, EndInv
<1>. QED  BY <1>1, <1>2, <1>3

\* What the two programs start from, and what they are safe by.
LEMMA StreamStarts ==
  ASSUME NEW d, NEW e, NEW hd, NEW he, Init, StreamInit
  PROVE  /\ StreamInv(d, e, hd, he) /\ spc[s] = "none" /\ lpc = "main" /\ state = 1
         /\ Taken = 0 /\ calls = 0 /\ alist = << >>
<1>1. /\ IInv /\ Taken = 0 /\ Len(queue) = 0 /\ Calling = 0 /\ spc[s] = "none"
      /\ pc[s] = "idle" /\ pc[Loop] = "idle"
  BY IInvInit, OneStream, EmptySeq DEF Init, StreamInit, Taken, Calling
<1>2. StreamTypes
  BY DEF StreamInit, StreamTypes
<1>3. CallsInv(d, e, hd, he)
  BY <1>1 DEF CallsInv, Init
<1>. QED  BY <1>1, <1>2, <1>3 DEF Init, StreamInit, StreamInv, StageInv, EndInv

LEMMA NothingFreedInUse ==
  ASSUME NEW d, NEW e, NEW hd, NEW he, StreamInv(d, e, hd, he)
  PROVE  NoUseAfterFree
<1>1. NoStreamUseAfterFree
  <2>1. ASSUME NEW t \in streamFreed PROVE t = s /\ spc[t] = "done" /\ pc[t] = "idle"
    BY <2>1, OneStream, EndedIsQuiet DEF StreamInv, StreamTypes, EndInv, Ended
  <2>. QED  BY <2>1 DEF NoStreamUseAfterFree
<1>2. NoLoopUseAfterFree
  BY OneStream, EndedIsQuiet DEF StreamInv, EndInv, Ended, NoLoopUseAfterFree
<1>. QED  BY <1>1, <1>2 DEF NoUseAfterFree
-----------------------------------------------------------------------------
(* streamPi.c: the steps                                                   *)

LEMMA PiNames == Names(DataEvent, EndEvent, ProcessValue, Terminate)
  BY StreamEventAssumption, StreamPiAssumption DEF Names

LEMMA PiStarts == PiInit => PiInv
<1>. SUFFICES ASSUME PiInit PROVE PiInv
  OBVIOUS
<1>1. /\ StreamInv(DataEvent, EndEvent, ProcessValue, Terminate) /\ spc[s] = "none"
      /\ lpc = "main" /\ state = 1 /\ Taken = 0 /\ calls = 0 /\ alist = << >>
  BY StreamStarts DEF PiInit
<1>2. PiBody /\ PiSetup /\ PiChunks
  BY <1>1, StreamPiAssumption DEF PiInit, PiBody, PiSetup, PiChunks
<1>3. PiSums
  BY <1>1, StreamPiAssumption DEF PiInit, PiSums
<1>. QED  BY <1>1, <1>2, <1>3 DEF PiInv

\* Nothing is popped, added or freed.
LEMMA PiSumsStay ==
  ASSUME PiSums, UNCHANGED <<nextChunk, boxes, sum, printed, Taken>>,
         Reading' <=> Reading, Adding' <=> Adding, Ended => Ended'
  PROVE  PiSums'
  BY DEF PiSums

\* Every popped entry was announced, and all but the last carry a chunk.
LEMMA TakenWasMade ==
  ASSUME PiInv
  PROVE  /\ Taken \in Nat /\ calls \in Nat /\ nextChunk \in Nat /\ Chunks \in Nat
         /\ Taken <= calls
         /\ spc[s] # "done" => calls <= nextChunk
<1>1. /\ Taken \in Nat /\ Len(queue) \in Nat /\ calls \in Nat /\ Calling \in {0, 1}
      /\ nextChunk \in Nat /\ Chunks \in Nat
  BY Counts, StreamPiAssumption DEF PiInv, StreamInv, IInv, PiChunks
<1>2. calls = Taken + Len(queue) + Calling
  BY DEF PiInv, StreamInv, CallsInv
<1>3. spc[s] \in {"none", "created", "failed", "produce", "data", "end", "done"}
  BY OneStream DEF PiInv, StreamInv, StreamTypes
<1>4. Taken <= calls
  BY <1>1, <1>2
<1>5. spc[s] \in {"none", "created", "failed"} => calls = 0
  BY DEF PiInv, StreamInv, StageInv
<1>6. spc[s] # "done" => calls <= nextChunk
  BY <1>1, <1>3, <1>5 DEF PiInv, PiChunks
<1>. QED  BY <1>1, <1>4, <1>6

\* The entry that the handler of "data" runs for carries the chunk of its number.
LEMMA RunningChunk ==
  ASSUME PiInv, lpc = "handler", Running.handler = ProcessValue
  PROVE  Running.n = Taken /\ Taken \in 1..nextChunk /\ ~Ended
<1>1. Taken \in 1..Taken /\ Running = popped[Taken]
  BY TakenWasMade DEF PiInv, StreamInv, EndInv, Running, Taken
<1>2. /\ IsNth(popped[Taken], Taken, DataEvent, EndEvent)
      /\ HandledBy(popped[Taken], EndEvent, ProcessValue, Terminate)
  BY <1>1 DEF PiInv, StreamInv, CallsInv
<1>3. ~Ended /\ Running.n = Taken
  BY <1>1, <1>2, PiNames DEF IsNth, HandledBy, Names, Ended
<1>4. spc[s] = "done" => calls = nextChunk + 1
  BY DEF PiInv, PiChunks
<1>. QED  BY <1>1, <1>3, <1>4, TakenWasMade DEF Ended

\* The thread of the loop outside the handlers, and main.
LEMMA PiLoopMoves ==
  ASSUME PiInv,
         \/ MainStarts \/ MainCleansUp \/ BodyReturns
         \/ (TestState \/ SemWait) /\ UNCHANGED <<streamVars, piVars>>
  PROVE  PiInv'
<1>. USE DEF PiInv
<1>0. UNCHANGED streamVars /\ UNCHANGED piVars
  BY DEF MainStarts, MainCleansUp, BodyReturns
<1>1. \/ state = 1 /\ StartEventLoop /\ body = "create"
      \/ state # 1 /\ CleanupEventLoop
      \/ InitialFunctionReturns /\ body = "done"
      \/ HandlerReturns /\ body = "done"
      \/ TestState /\ body = "done"
      \/ SemWait /\ body = "done"
  BY DEF MainStarts, MainCleansUp, BodyReturns, StartEventLoop, TestState, SemWait, LoopGoes, PiBody
<1>2. /\ StreamInv(DataEvent, EndEvent, ProcessValue, Terminate)'
      /\ UNCHANGED <<popped, calls, alist, Taken>> /\ (Ended' <=> Ended)
  <2>1. body = "done" => spc[s] \notin {"none", "created"}
    BY DEF PiSetup
  <2>. QED  BY <1>0, <1>1, <2>1, LoopMoves, MainFrees
<1>3. UNCHANGED <<body, nextChunk, boxes, sum, printed, spc>>
  BY <1>0 DEF piVars, streamVars
<1>4. PiSetup' /\ PiChunks'
  BY <1>2, <1>3 DEF PiSetup, PiChunks
<1>5. PiBody' /\ ~Reading /\ ~Adding /\ ~Reading' /\ ~Adding'
  <2>1. CASE state = 1 /\ StartEventLoop /\ body = "create"
    BY <1>3, <2>1 DEF StartEventLoop, PiBody, Reading, Adding
  <2>2. CASE state # 1 /\ CleanupEventLoop
    <3>1. state = 0
      BY <2>2 DEF CleanupEventLoop, StreamInv, EndInv
    <3>2. lpc = "main" /\ lpc' = "main" /\ state' = 0
      BY <2>2, <3>1 DEF CleanupEventLoop
    <3>. QED  BY <1>3, <3>1, <3>2 DEF PiBody, Reading, Adding
  <2>3. CASE InitialFunctionReturns /\ body = "done"
    BY <1>3, <2>3 DEF InitialFunctionReturns, LoopGoes, PiBody, Reading, Adding
  <2>4. CASE HandlerReturns /\ body = "done"
    BY <1>3, <2>4 DEF HandlerReturns, LoopGoes, PiBody, Reading, Adding
  <2>5. CASE TestState /\ body = "done"
    <3>1. lpc' \in {"wait", "main"} /\ lpc = "test" /\ (lpc' = "main" => state' # 1)
      BY <2>5 DEF TestState, LoopGoes, StreamInv, IInv, TypeOK
    <3>. QED  BY <1>3, <2>5, <3>1 DEF PiBody, Reading, Adding
  <2>6. CASE SemWait /\ body = "done"
    BY <1>3, <2>6 DEF SemWait, LoopGoes, PiBody, Reading, Adding
  <2>. QED  BY <1>1, <2>1, <2>2, <2>3, <2>4, <2>5, <2>6
<1>6. PiSums'
  BY <1>2, <1>3, <1>5, PiSumsStay
<1>. QED  BY <1>2, <1>4, <1>5, <1>6

LEMMA PairOfOne == ASSUME NEW x, NEW y PROVE <<x>> \o <<y>> = <<x, y>>
<1>1. <<x>> \in Seq({x, y}) /\ <<y>> \in Seq({x, y}) /\ <<x, y>> \in Seq({x, y})
  OBVIOUS
<1>2. Len(<<x>>) = 1 /\ Len(<<y>>) = 1 /\ Len(<<x, y>>) = 2
  OBVIOUS
<1>3. \A i \in 1..2 : (<<x>> \o <<y>>)[i] = <<x, y>>[i]
  BY <1>1, <1>2, ConcatProperties
<1>4. <<x>> \o <<y>> \in Seq({x, y}) /\ Len(<<x>> \o <<y>>) = 2
  BY <1>1, <1>2, ConcatProperties
<1>5. PICK w : w = <<x>> \o <<y>>
  OBVIOUS
<1>6. w = <<x, y>>
  BY <1>1, <1>2, <1>3, <1>4, <1>5, SeqEqual
<1>. QED  BY <1>5, <1>6

\* computePi, the initial function.
LEMMA PiSetsUp ==
  ASSUME PiInv,
         \/ \E t \in Thread : Create(t) \/ Start(t)
         \/ RegisterData \/ RegisterEnd
  PROVE  PiInv'
<1>. USE DEF PiInv
<1>1. /\ lpc = "fn" /\ UNCHANGED <<nextChunk, boxes, sum, printed>>
      /\ \/ BodyGoes("create", "regdata") /\ CreateStream(s)
         \/ BodyGoes("regdata", "regend") /\ RegisterEvent(Loop, DataEvent, ProcessValue)
            /\ UNCHANGED streamVars
         \/ BodyGoes("regend", "start") /\ RegisterEvent(Loop, EndEvent, Terminate)
            /\ UNCHANGED streamVars
         \/ BodyGoes("start", "done") /\ StartStream(s)
  BY OneStream DEF Create, Start, RegisterData, RegisterEnd, InFn
<1>2. CASE \/ BodyGoes("create", "regdata") /\ CreateStream(s)
           \/ BodyGoes("start", "done") /\ StartStream(s)
  <2>1. body = "start" => alist = <<[event |-> EndEvent, handler |-> Terminate],
                                    [event |-> DataEvent, handler |-> ProcessValue]>>
    BY DEF PiSetup
  <2>2. /\ StreamInv(DataEvent, EndEvent, ProcessValue, Terminate)'
        /\ UNCHANGED <<vars, Taken, Running>> /\ ~Ended /\ ~Ended'
    BY <1>2, <2>1, StreamMoves DEF BodyGoes
  <2>3. UNCHANGED <<state, alist, lpc, calls, popped>>
    BY <2>2 DEF vars
  <2>4. \/ body = "create" /\ body' = "regdata" /\ spc[s] = "none" /\ spc'[s] = "created"
        \/ /\ body = "start" /\ body' = "done"
           /\ spc[s] = "created" /\ spc'[s] \in {"produce", "failed"}
    BY <1>2, OneStream DEF BodyGoes, CreateStream, StartStream, StreamGoes, StreamInv, StreamTypes
  <2>5. PiBody' /\ PiSetup'
    BY <1>1, <2>3, <2>4 DEF PiBody, PiSetup
  <2>6. PiChunks'
    BY <1>1, <2>3, <2>4 DEF PiChunks, StreamInv, StageInv
  <2>7. PiSums'
    BY <1>1, <2>2, <2>3, PiSumsStay DEF Reading, Adding
  <2>. QED  BY <2>2, <2>5, <2>6, <2>7
<1>3. CASE \/ /\ BodyGoes("regdata", "regend") /\ RegisterEvent(Loop, DataEvent, ProcessValue)
              /\ UNCHANGED streamVars
           \/ /\ BodyGoes("regend", "start") /\ RegisterEvent(Loop, EndEvent, Terminate)
              /\ UNCHANGED streamVars
  <2>0. PICK ev \in Event, h \in Handler :
          /\ RegisterEvent(Loop, ev, h) /\ UNCHANGED streamVars
          /\ \/ /\ BodyGoes("regdata", "regend") /\ ev = DataEvent /\ h = ProcessValue
             \/ /\ BodyGoes("regend", "start") /\ ev = EndEvent /\ h = Terminate
    BY <1>3, PiNames DEF Names
  <2>1. spc[s] = "created" /\ spc' = spc
    BY <2>0 DEF BodyGoes, PiSetup, streamVars
  <2>2. /\ StreamInv(DataEvent, EndEvent, ProcessValue, Terminate)'
        /\ UNCHANGED <<state, lpc, popped, calls, Taken>> /\ (Ended' <=> Ended)
        /\ alist' = <<[event |-> ev, handler |-> h]>> \o alist
    BY <2>0, <2>1, LoopRegisters
  <2>3. PiBody' /\ PiChunks'
    BY <1>1, <2>0, <2>1, <2>2 DEF BodyGoes, PiBody, PiChunks
  <2>4. PiSetup'
    <3>1. CASE body = "regdata"
      <4>1. body' = "regend" /\ ev = DataEvent /\ h = ProcessValue /\ alist = << >>
        BY <2>0, <3>1 DEF BodyGoes, PiSetup
      <4>2. alist' = <<[event |-> DataEvent, handler |-> ProcessValue]>>
        BY <2>2, <4>1
      <4>. QED  BY <2>1, <4>1, <4>2 DEF PiSetup
    <3>2. CASE body = "regend"
      <4>1. /\ body' = "start" /\ ev = EndEvent /\ h = Terminate
            /\ alist = <<[event |-> DataEvent, handler |-> ProcessValue]>>
        BY <2>0, <3>2 DEF BodyGoes, PiSetup
      <4>2. alist' = <<[event |-> EndEvent, handler |-> Terminate],
                       [event |-> DataEvent, handler |-> ProcessValue]>>
        BY <2>2, <4>1, PairOfOne
      <4>. QED  BY <2>1, <4>1, <4>2 DEF PiSetup
    <3>. QED  BY <2>0, <3>1, <3>2 DEF BodyGoes
  <2>5. PiSums'
    BY <1>1, <2>2, PiSumsStay DEF Reading, Adding
  <2>. QED  BY <2>2, <2>3, <2>4, <2>5
<1>. QED  BY <1>1, <1>2, <1>3
\* run_handler: the next entry is the end, or carries the next chunk.
LEMMA PiPops ==
  ASSUME PiInv, Pop
  PROVE  PiInv'
<1>. USE DEF PiInv
<1>1. /\ StreamInv(DataEvent, EndEvent, ProcessValue, Terminate)'
      /\ lpc = "pop" /\ lpc' = "handler" /\ state' = 2 /\ ~Ended
      /\ Taken' = Taken + 1 /\ UNCHANGED <<state, calls, alist>>
      /\ IsNth(Running', Taken', DataEvent, EndEvent)
      /\ HandledBy(Running', EndEvent, ProcessValue, Terminate)
  BY StreamPops DEF Pop
<1>2. /\ body' = "entry" /\ UNCHANGED <<nextChunk, boxes, sum, printed, spc>>
  BY DEF Pop, streamVars
<1>3. body = "done"
  BY <1>1 DEF PiBody
<1>4. PiBody' /\ PiSetup' /\ PiChunks'
  BY <1>1, <1>2, <1>3, PiNames DEF PiBody, PiSetup, PiChunks, EndInv, StreamInv
<1>5. /\ ~Reading /\ ~Adding
      /\ (Reading' <=> Running'.handler = ProcessValue)
      /\ (Adding' <=> Running'.handler = ProcessValue)
  BY <1>1, <1>2 DEF Reading, Adding
<1>6. Running'.handler # ProcessValue => Taken + 1 = Chunks + 1 /\ nextChunk = Chunks
  <2>1. Running'.handler # ProcessValue => spc[s] = "done" /\ Taken' = calls
    BY <1>1, <1>2, PiNames DEF IsNth, HandledBy, Names
  <2>. QED  BY <1>1, <2>1 DEF PiChunks
<1>7. /\ Taken \in Nat /\ nextChunk \in Nat /\ Chunks \in Nat
      /\ \A k \in 1..nextChunk : k > Taken <=> (k > Taken + 1 \/ k = Taken + 1)
      /\ \A k \in 1..Chunks : (k < Taken \/ k = Taken) <=> k < Taken + 1
      /\ nextChunk = Chunks /\ Taken + 1 = Chunks + 1 => \A k \in 1..Chunks : k # Taken + 1
  BY TakenWasMade
<1>8. PiSums'
  <2>1. boxes' = {k \in 1..nextChunk' : k > Taken' \/ (k = Taken' /\ Reading')}
    BY <1>1, <1>2, <1>5, <1>6, <1>7 DEF PiSums
  <2>2. sum' = {k \in 1..Chunks : k < Taken' \/ (k = Taken' /\ ~Adding')}
    BY <1>1, <1>2, <1>5, <1>6, <1>7 DEF PiSums
  <2>3. printed' = NIL
    BY <1>1, <1>2 DEF PiSums
  <2>. QED  BY <2>1, <2>2, <2>3 DEF PiSums
<1>. QED  BY <1>1, <1>4, <1>8

\* processValue: the value of the box is added, and the box is freed.
LEMMA PiProcesses ==
  ASSUME PiInv, AddValue \/ FreeBox
  PROVE  PiInv'
<1>. USE DEF PiInv
<1>1. /\ lpc = "handler" /\ Running.handler = ProcessValue
      /\ UNCHANGED <<vars, streamVars, nextChunk, printed>>
  BY DEF AddValue, FreeBox, InHandler
<1>2. /\ StreamInv(DataEvent, EndEvent, ProcessValue, Terminate)'
      /\ UNCHANGED <<Taken, Running>> /\ (Ended' <=> Ended)
  BY <1>1, ClientMoves
<1>3. UNCHANGED <<state, alist, lpc, calls, spc>>
  BY <1>1 DEF vars, streamVars
<1>4. Running.n = Taken /\ Taken \in 1..nextChunk /\ ~Ended
  BY <1>1, RunningChunk
<1>5. nextChunk \in 0..Chunks /\ Taken \in Nat /\ nextChunk \in Nat /\ Chunks \in Nat
  BY TakenWasMade DEF PiChunks
<1>6. PiChunks'
  BY <1>1, <1>3 DEF PiChunks
<1>7. CASE AddValue
  <2>1. /\ body = "entry" /\ body' = "free" /\ boxes' = boxes
        /\ sum' = sum \union {Taken}
    BY <1>4, <1>7 DEF AddValue, BodyGoes
  <2>2. PiBody' /\ PiSetup'
    BY <1>1, <1>2, <1>3, <2>1 DEF PiBody, PiSetup, StreamInv, EndInv
  <2>3. Adding /\ ~Adding' /\ Reading /\ Reading'
    BY <1>1, <1>2, <1>3, <2>1 DEF Adding, Reading
  <2>4. PiSums'
    BY <1>1, <1>2, <1>4, <1>5, <2>1, <2>3 DEF PiSums
  <2>. QED  BY <1>2, <1>6, <2>2, <2>4
<1>8. CASE FreeBox
  <2>1. /\ body = "free" /\ body' = "done" /\ sum' = sum
        /\ boxes' = boxes \ {Taken}
    BY <1>4, <1>8 DEF FreeBox, BodyGoes
  <2>2. PiBody' /\ PiSetup'
    BY <1>1, <1>2, <1>3, <2>1 DEF PiBody, PiSetup, StreamInv, EndInv
  <2>3. ~Adding /\ ~Adding' /\ Reading /\ ~Reading'
    BY <1>1, <1>2, <1>3, <2>1 DEF Adding, Reading
  <2>4. PiSums'
    BY <1>1, <1>2, <1>4, <1>5, <2>1, <2>3 DEF PiSums
  <2>. QED  BY <1>2, <1>6, <2>2, <2>4
<1>. QED  BY <1>7, <1>8

\* terminate: the sum is printed, the stream freed and the loop stopped.
LEMMA PiTerminates ==
  ASSUME PiInv, PrintSum \/ Stop \/ \E t \in Thread : FreeStream(t)
  PROVE  PiInv'
<1>. USE DEF PiInv
<1>1. /\ lpc = "handler" /\ Running.handler = Terminate /\ Terminate # ProcessValue
      /\ Ended /\ UNCHANGED <<nextChunk, boxes, sum>>
  BY LastEntry, PiNames DEF PrintSum, Stop, FreeStream, InHandler, Names
<1>2. /\ StreamInv(DataEvent, EndEvent, ProcessValue, Terminate)' /\ Ended'
      /\ UNCHANGED <<Taken, Running, lpc, alist, calls, spc>>
      /\ \/ body = "entry" /\ body' = "cleanup" /\ state' = state /\ printed' = sum
         \/ body = "cleanup" /\ body' = "stop" /\ state' = state /\ printed' = printed
         \/ body = "stop" /\ body' = "done" /\ printed' = printed
  <2>1. CASE PrintSum
    <3>1. UNCHANGED <<vars, streamVars>>
      BY <2>1 DEF PrintSum
    <3>. QED  BY <1>1, <2>1, <3>1, ClientMoves DEF PrintSum, BodyGoes, vars, streamVars
  <2>2. CASE Stop
    <3>1. StopEventLoop /\ state = 2 /\ UNCHANGED streamVars /\ spc' = spc
      BY <1>1, <2>2 DEF Stop, BodyGoes, PiBody, streamVars
    <3>2. /\ StreamInv(DataEvent, EndEvent, ProcessValue, Terminate)' /\ lpc' = "handler"
          /\ UNCHANGED <<popped, calls, alist, Taken>> /\ (Ended' <=> Ended)
      BY <1>1, <3>1, HandlerStops, PiNames
    <3>. QED  BY <1>1, <2>2, <3>1, <3>2 DEF Stop, BodyGoes, Running
  <2>3. CASE \E t \in Thread : FreeStream(t)
    <3>1. PICK t \in Thread : FreeStream(t)
      BY <2>3
    <3>2. CleanupStream(t) /\ UNCHANGED vars
      BY <3>1 DEF FreeStream
    <3>. QED  BY <1>1, <3>1, <3>2, HandlerFrees, PiNames DEF FreeStream, BodyGoes, vars
  <2>. QED  BY <2>1, <2>2, <2>3
<1>3. PiBody' /\ PiSetup'
  BY <1>1, <1>2 DEF PiBody, PiSetup, StreamInv, EndInv
<1>4. PiChunks'
  BY <1>1, <1>2 DEF PiChunks
<1>5. PiSums'
  <2>1. ~Reading /\ ~Adding /\ ~Reading' /\ ~Adding'
    BY <1>1, <1>2 DEF Reading, Adding
  <2>2. Taken = Chunks + 1 /\ Chunks \in Nat
    BY <1>1, TakenWasMade DEF Ended, PiChunks
  <2>3. sum = 1..Chunks
    BY <2>1, <2>2 DEF PiSums
  <2>. QED  BY <1>1, <1>2, <2>1, <2>3 DEF PiSums
<1>. QED  BY <1>2, <1>3, <1>4, <1>5

\* The thread of the stream: piSlice, and the steps of announce_event.
LEMMA PiStreams ==
  ASSUME PiInv, NEW t \in Thread, StreamThread(t)
  PROVE  PiInv'
<1>. USE DEF PiInv
<1>0. t = s
  BY OneStream
<1>1. CASE PiSlice(s)
  <2>1. /\ Produced(s, nextChunk < Chunks) /\ spc[s] = "produce"
        /\ spc'[s] = (IF nextChunk < Chunks THEN "data" ELSE "end")
        /\ UNCHANGED <<body, sum, printed>>
    BY <1>1, OneStream DEF PiSlice, Produced, StreamGoes, StreamInv, StreamTypes
  <2>2. /\ StreamInv(DataEvent, EndEvent, ProcessValue, Terminate)'
        /\ UNCHANGED <<vars, Taken, Running>> /\ ~Ended /\ ~Ended'
    <3>1. Produced(s, TRUE) \/ Produced(s, FALSE)
      BY <2>1 DEF Produced
    <3>. QED  BY <3>1, StreamMoves
  <2>3. UNCHANGED <<state, alist, lpc, calls>>
    BY <2>2 DEF vars
  <2>4. PiBody' /\ PiSetup'
    BY <2>1, <2>2, <2>3 DEF PiBody, PiSetup
  <2>5. (Reading' <=> Reading) /\ (Adding' <=> Adding)
    BY <2>1, <2>2, <2>3 DEF Reading, Adding
  <2>6. /\ Taken \in Nat /\ nextChunk \in 0..Chunks /\ Chunks \in Nat
        /\ Taken <= nextChunk /\ calls = nextChunk
    BY <2>1, TakenWasMade DEF PiChunks
  <2>7. CASE nextChunk < Chunks
    <3>1. nextChunk' = nextChunk + 1 /\ boxes' = boxes \union {nextChunk + 1}
      BY <1>1, <2>7 DEF PiSlice
    <3>2. PiChunks'
      BY <2>1, <2>3, <2>6, <2>7, <3>1 DEF PiChunks
    <3>3. PiSums'
      BY <2>1, <2>2, <2>5, <2>6, <3>1 DEF PiSums
    <3>. QED  BY <2>2, <2>4, <3>2, <3>3
  <2>8. CASE ~(nextChunk < Chunks)
    <3>1. nextChunk' = nextChunk /\ boxes' = boxes
      BY <1>1, <2>8 DEF PiSlice
    <3>2. PiChunks'
      BY <2>1, <2>3, <2>6, <2>8, <3>1 DEF PiChunks
    <3>3. PiSums'
      BY <2>1, <2>2, <2>5, <3>1, PiSumsStay
    <3>. QED  BY <2>2, <2>4, <3>2, <3>3
  <2>. QED  BY <2>7, <2>8
<1>2. CASE (AnnounceData(s) \/ AnnounceEnd(s)) /\ UNCHANGED piVars
  <2>1. PICK ev \in {DataEvent, EndEvent} :
          /\ AnnounceEvent(s, ev) /\ UNCHANGED streamFreed
          /\ \/ ev = DataEvent /\ StreamGoes(s, "data", "produce")
             \/ ev = EndEvent /\ StreamGoes(s, "end", "done")
    BY <1>2 DEF AnnounceData, AnnounceEnd
  <2>2. StreamInv(DataEvent, EndEvent, ProcessValue, Terminate)'
    BY <2>1, StreamCalls, PiNames
  <2>3. UNCHANGED <<body, nextChunk, boxes, sum, printed, state, alist, lpc, popped>>
    BY <1>2, <2>1 DEF piVars, AnnounceEvent
  <2>4. /\ Taken' = Taken /\ Running' = Running /\ calls' = calls + 1
        /\ (Reading' <=> Reading) /\ (Adding' <=> Adding)
    BY <2>1, <2>3 DEF AnnounceEvent, Taken, Running, Reading, Adding
  <2>5. \/ spc[s] = "data" /\ spc'[s] = "produce"
        \/ spc[s] = "end" /\ spc'[s] = "done"
    BY <2>1, OneStream DEF StreamGoes, StreamInv, StreamTypes
  <2>6. PiBody' /\ PiSetup' /\ PiChunks'
    BY <2>3, <2>4, <2>5, TakenWasMade DEF PiBody, PiSetup, PiChunks
  <2>7. ~Ended
    BY <2>5 DEF Ended
  <2>8. PiSums'
    BY <2>3, <2>4, <2>7, PiSumsStay
  <2>. QED  BY <2>2, <2>6, <2>8
<1>3. CASE Announcing(s) /\ UNCHANGED streamVars /\ UNCHANGED piVars
  <2>1. /\ StreamInv(DataEvent, EndEvent, ProcessValue, Terminate)'
        /\ UNCHANGED <<state, lpc, popped, calls, alist, freed>>
    BY <1>3, StreamAnnouncing, PiNames
  <2>2. UNCHANGED <<body, nextChunk, boxes, sum, printed, spc>>
    BY <1>3 DEF piVars, streamVars
  <2>3. /\ Taken' = Taken /\ Running' = Running /\ (Ended' <=> Ended)
        /\ (Reading' <=> Reading) /\ (Adding' <=> Adding)
    BY <2>1, <2>2 DEF Taken, Running, Ended, Reading, Adding
  <2>4. PiBody' /\ PiSetup' /\ PiChunks'
    BY <2>1, <2>2, <2>3 DEF PiBody, PiSetup, PiChunks
  <2>5. PiSums'
    BY <2>2, <2>3, PiSumsStay
  <2>. QED  BY <2>1, <2>4, <2>5
<1>. QED  BY <1>0, <1>1, <1>2, <1>3 DEF StreamThread, StreamAnnounces

LEMMA PiStep == PiInv /\ [PiNext]_allVars => PiInv'
<1>. SUFFICES ASSUME PiInv, [PiNext]_allVars PROVE PiInv'
  OBVIOUS
<1>1. CASE UNCHANGED allVars
  <2>1. UNCHANGED <<vars, streamVars>> /\ UNCHANGED <<body, nextChunk, boxes, sum, printed>>
    BY <1>1 DEF allVars, piVars
  <2>2. /\ StreamInv(DataEvent, EndEvent, ProcessValue, Terminate)'
        /\ UNCHANGED <<Taken, Running>> /\ (Ended' <=> Ended)
    BY <2>1, ClientMoves DEF PiInv
  <2>3. UNCHANGED <<state, alist, lpc, calls, spc>>
    BY <2>1 DEF vars, streamVars
  <2>4. PiBody' /\ PiSetup' /\ PiChunks' /\ (Reading' <=> Reading) /\ (Adding' <=> Adding)
    BY <2>1, <2>2, <2>3 DEF PiInv, PiBody, PiSetup, PiChunks, Reading, Adding
  <2>5. PiSums'
    BY <2>1, <2>2, <2>4, PiSumsStay DEF PiInv
  <2>. QED  BY <2>2, <2>4, <2>5 DEF PiInv
<1>. QED  BY <1>1, PiLoopMoves, PiSetsUp, PiPops, PiProcesses, PiTerminates, PiStreams
          DEF PiNext, LoopThread

LEMMA PiInvariant == PiSpec => []PiInv
  BY PiStarts, PiStep, PTL DEF PiSpec

LEMMA PiComplete == PiInv => PiIsComplete
<1>. SUFFICES ASSUME PiInv, printed # NIL PROVE printed = 1..Chunks /\ boxes = {}
  BY DEF PiIsComplete
<1>1. Ended /\ printed = 1..Chunks
  BY DEF PiInv, PiSums
<1>2. Taken = nextChunk + 1 /\ nextChunk \in Nat
  BY <1>1, TakenWasMade DEF PiInv, PiChunks, Ended
<1>3. Taken \notin 1..nextChunk
  BY <1>2
<1>4. boxes = {}
  BY <1>2, <1>3 DEF PiInv, PiSums
<1>. QED  BY <1>1, <1>4

(* streamPi.c reports the sum once all chunks have been added and every    *)
(* box has been freed, for every number of chunks.                         *)
THEOREM PiReportsEveryChunk == PiSpec => []PiIsComplete
  BY PiComplete, PiInvariant, PTL

(* A box is never freed twice or read after it has been freed: it is there *)
(* for as long as its event is queued or its handler reads it.             *)
THEOREM BoxesLiveForTheirEvent == PiSpec => []BoxesLive
<1>1. PiInv => BoxesLive
  <2>. SUFFICES ASSUME PiInv PROVE BoxesLive
    OBVIOUS
  <2>1. ASSUME NEW i \in DOMAIN queue, queue[i].event = DataEvent PROVE queue[i].n \in boxes
    <3>1. PICK m \in Nat : m = Len(queue)
      BY Counts DEF PiInv, StreamInv, IInv
    <3>2. i \in 1..m
      BY <3>1, Counts, LenProperties DEF PiInv, StreamInv, IInv
    <3>3. IsNth(queue[i], Taken + i, DataEvent, EndEvent)
      BY <3>1, <3>2 DEF PiInv, StreamInv, CallsInv
    <3>4. calls = Taken + m + Calling /\ Calling \in {0, 1}
      BY <3>1, Counts DEF PiInv, StreamInv, IInv, CallsInv
    <3>5. queue[i].n = Taken + i /\ ~(spc[s] = "done" /\ Taken + i = calls)
      BY <2>1, <3>3, PiNames DEF IsNth, Names
    <3>6. spc[s] = "done" => calls = nextChunk + 1
      BY DEF PiInv, PiChunks
    <3>7. Taken + i \in 1..nextChunk /\ Taken + i > Taken
      BY <3>2, <3>4, <3>5, <3>6, TakenWasMade
    <3>. QED  BY <3>5, <3>7 DEF PiInv, PiSums
  <2>2. ASSUME lpc = "handler", Running.handler = ProcessValue, body \in {"entry", "free"}
        PROVE  Running.n \in boxes
    <3>1. Running.n = Taken /\ Taken \in 1..nextChunk
      BY <2>2, RunningChunk
    <3>2. Reading
      BY <2>2 DEF Reading
    <3>. QED  BY <3>1, <3>2 DEF PiInv, PiSums
  <2>. QED  BY <2>1, <2>2 DEF BoxesLive
<1>. QED  BY <1>1, PiInvariant, PTL

(* Neither the stream nor the loop of streamPi.c is freed under the        *)
(* detached thread of the stream.                                          *)
THEOREM PiFreesNothingInUse == PiSpec => []NoUseAfterFree
<1>1. PiInv => NoUseAfterFree
  BY NothingFreedInUse DEF PiInv
<1>. QED  BY <1>1, PiInvariant, PTL
-----------------------------------------------------------------------------
(* readFile.c: its instance of the loop and the stream is the same code    *)

LEMMA SameStart == (File!Init <=> Init) /\ (File!StreamInit <=> StreamInit)
  BY DEF File!Init, Init, File!StreamInit, StreamInit, File!Caller, Caller

LEMMA SameLoop ==
  /\ File!StartEventLoop => StartEventLoop
  /\ File!CleanupEventLoop => CleanupEventLoop
  /\ File!InitialFunctionReturns => InitialFunctionReturns
  /\ File!HandlerReturns => HandlerReturns
  /\ File!TestState => TestState
  /\ File!SemWait => SemWait
  /\ File!RunHandler => RunHandler
  /\ File!StopEventLoop => StopEventLoop
  BY DEF File!StartEventLoop, StartEventLoop, File!CleanupEventLoop, CleanupEventLoop,
         File!InitialFunctionReturns, InitialFunctionReturns, File!HandlerReturns, HandlerReturns,
         File!TestState, TestState, File!SemWait, SemWait, File!RunHandler, RunHandler,
         File!StopEventLoop, StopEventLoop, File!LoopGoes, LoopGoes, File!Alive, Alive

LEMMA SameCalls ==
  ASSUME NEW t, NEW ev, NEW h
  PROVE  /\ File!RegisterEvent(t, ev, h) => RegisterEvent(t, ev, h)
         /\ File!AnnounceEvent(t, ev) => AnnounceEvent(t, ev)
         /\ File!Announcing(t) => Announcing(t)
<1>1. File!RegisterEvent(t, ev, h) => RegisterEvent(t, ev, h)
  BY DEF File!RegisterEvent, RegisterEvent, File!InClient, InClient, File!Alive, Alive
<1>2. File!AnnounceEvent(t, ev) => AnnounceEvent(t, ev)
  BY DEF File!AnnounceEvent, AnnounceEvent, File!InClient, InClient, File!Alive, Alive
<1>3. \A x : File!GetEventHandler(x) = GetEventHandler(x)
  BY DEF File!GetEventHandler, GetEventHandler, File!Matches, Matches, File!Assoc, Assoc
<1>4. File!LookupFails(t) => LookupFails(t)
  BY <1>3 DEF File!LookupFails, LookupFails, File!Alive, Alive
<1>5. File!LookupFinds(t) => LookupFinds(t)
  BY <1>3 DEF File!LookupFinds, LookupFinds, File!Alive, Alive
<1>6. (File!QueueAppend(t) => QueueAppend(t)) /\ (File!SemPost(t) => SemPost(t))
  BY DEF File!QueueAppend, QueueAppend, File!SemPost, SemPost, File!Alive, Alive
<1>. QED  BY <1>1, <1>2, <1>4, <1>5, <1>6 DEF File!Announcing, Announcing

LEMMA SameStream ==
  ASSUME NEW t
  PROVE  /\ File!CreateStream(t) => CreateStream(t)
         /\ File!StartStream(t) => StartStream(t)
         /\ File!Produced(t, TRUE) => Produced(t, TRUE)
         /\ File!Produced(t, FALSE) => Produced(t, FALSE)
         /\ File!CleanupStream(t) => CleanupStream(t)
  BY DEF File!CreateStream, CreateStream, File!StartStream, StartStream, File!Produced, Produced,
         File!CleanupStream, CleanupStream, File!StreamGoes, StreamGoes, File!vars, vars,
         File!Alive, Alive

-----------------------------------------------------------------------------
(* readFile.c: the steps                                                   *)

LEMMA FileNames == Names(FileData, FileEnd, ProcessData, ReadFileEnd)
  BY ReadFileAssumption DEF Names, File!ReadFileConstants

\* A block is never shorter than what is left of the file.
LEMMA SizeCovers ==
  ASSUME FileTypesInv
  PROVE  Size \in Nat \ {0} /\ Size >= file.len /\ file.len \in Nat \ {0}
  BY ReadFileAssumption DEF FileTypesInv, Size, File!ReadFileConstants

LEMMA NewlinesFinite ==
  ASSUME FileTypesInv
  PROVE  IsFiniteSet(file.newline) /\ \A m : IsFiniteSet(Before(m)) /\ Cardinality(Before(m)) \in Nat
<1>0. 0 \in Int /\ file.len - 1 \in Int
  BY DEF FileTypesInv
<1>1. IsFiniteSet(0 .. file.len - 1)
  BY <1>0, FS_Interval
<1>2. IsFiniteSet(file.newline)
  BY <1>1, FS_Subset DEF FileTypesInv
<1>3. ASSUME NEW m PROVE IsFiniteSet(Before(m)) /\ Cardinality(Before(m)) \in Nat
  BY <1>2, FS_Subset, FS_CardinalityType DEF Before
<1>. QED  BY <1>2, <1>3

\* The newline found at q is the only one from there to q + 1.
LEMMA OneMore ==
  ASSUME FileTypesInv, NEW q \in file.newline
  PROVE  Cardinality(Before(q + 1)) = Cardinality(Before(q)) + 1
<1>1. q \in Int /\ \A p \in file.newline : p \in Int
  BY DEF FileTypesInv
<1>2. Before(q + 1) = Before(q) \union {q} /\ q \notin Before(q)
  BY <1>1 DEF Before
<1>. QED  BY <1>2, NewlinesFinite, FS_AddElement

\* A set of offsets that is not empty has a least member.
LEMMA LeastOf ==
  ASSUME NEW S, S \subseteq Nat, S # {}
  PROVE  \E q \in S : \A r \in S : q <= r
<1>1. IsWellFoundedOn(LessThan, Nat)
  BY NatLessThanWellFounded DEF LessThan
<1>2. PICK q \in S : \A r \in S : <<r, q>> \notin LessThan
  BY <1>1, WFMin
<1>3. ASSUME NEW r \in S PROVE q <= r
  <2>1. q \in Nat /\ r \in Nat
    OBVIOUS
  <2>2. r < q => <<r, q>> \in LessThan
    BY <2>1 DEF LessThan, OpToRel
  <2>. QED  BY <2>1, <2>2, <1>2
<1>. QED  BY <1>3

\* All newlines lie before the end of the block.
LEMMA AllBefore ==
  ASSUME FileTypesInv, NEW m \in Int, \A p \in file.newline : p < m
  PROVE  Before(m) = file.newline
  BY DEF Before

LEMMA FileStarts == File!FileInit => FInv
<1>. SUFFICES ASSUME File!FileInit PROVE FInv
  OBVIOUS
<1>1. /\ StreamInv(FileData, FileEnd, ProcessData, ReadFileEnd) /\ spc[s] = "none"
      /\ lpc = "main" /\ state = 1 /\ Taken = 0 /\ calls = 0 /\ alist = << >>
  BY StreamStarts, SameStart DEF File!FileInit
<1>2. /\ fileBody = "create" /\ produce = "test" /\ filePrinted = NIL
      /\ data = [file_offset |-> 0, mem_ptr |-> 0, mem_ptr_last |-> 0,
                 block_size |-> 0, newline_count |-> 0]
  BY DEF File!FileInit
<1>3. FileTypesInv
  <2>1. PICK n \in 1..MaxLen : file \in [len : {n}, newline : SUBSET (0 .. n - 1)]
    BY DEF File!FileInit
  <2>2. MaxLen \in Nat
    BY ReadFileAssumption DEF File!ReadFileConstants
  <2>. QED  BY <1>2, <2>1, <2>2 DEF FileTypesInv
<1>4. FileBody /\ FileSetup /\ FileStages
  BY <1>1, <1>2 DEF FileBody, FileSetup, FileStages
<1>5. ProduceInv /\ WalkInv /\ CountInv
  BY <1>1, <1>2, <1>3, SizeCovers DEF ProduceInv, WalkInv, CountInv, RunsData, Loaded
<1>. QED  BY <1>1, <1>3, <1>4, <1>5 DEF FInv

\* The record is not touched, and the handler does not begin or end with it.
LEMMA RecordStays ==
  ASSUME FileTypesInv, ProduceInv, WalkInv, CountInv,
         UNCHANGED <<file, data, produce, filePrinted, Taken>>,
         (RunsData' /\ fileBody' # "done") <=> (RunsData /\ fileBody # "done"),
         RunsData /\ fileBody # "done" => fileBody' = fileBody
  PROVE  FileTypesInv' /\ ProduceInv' /\ WalkInv' /\ CountInv'
<1>1. Size' = Size /\ (Loaded' <=> Loaded) /\ \A m : Before(m)' = Before(m)
  BY DEF Size, Loaded, Before
<1>. QED  BY <1>1 DEF FileTypesInv, ProduceInv, WalkInv, CountInv, Before

\* Only announced entries are popped, two at most.
LEMMA TakenFromFile ==
  ASSUME FInv
  PROVE  /\ Taken \in Nat /\ calls \in Nat /\ Taken <= calls
         /\ spc[s] \in {"none", "created", "failed", "produce", "data", "end", "done"}
         /\ spc[s] \in {"none", "created", "failed"} => calls = 0
<1>1. /\ Taken \in Nat /\ Len(queue) \in Nat /\ calls \in Nat /\ Calling \in {0, 1}
  BY Counts DEF FInv, StreamInv, IInv
<1>2. calls = Taken + Len(queue) + Calling
  BY DEF FInv, StreamInv, CallsInv
<1>3. Taken <= calls
  BY <1>1, <1>2
<1>4. spc[s] \in {"none", "created", "failed", "produce", "data", "end", "done"}
  BY OneStream DEF FInv, StreamInv, StreamTypes
<1>5. spc[s] \in {"none", "created", "failed"} => calls = 0
  BY DEF FInv, StreamInv, StageInv
<1>. QED  BY <1>1, <1>3, <1>4, <1>5
\* The thread of the loop outside the handlers, and main.
LEMMA FileLoopMoves ==
  ASSUME FInv,
         \/ File!Main \/ File!BodyReturns
         \/ (File!TestState \/ File!SemWait) /\ UNCHANGED <<File!streamVars, File!fileVars>>
  PROVE  FInv'
<1>. USE DEF FInv
<1>0. UNCHANGED streamVars /\ UNCHANGED <<file, fileBody, produce, data, filePrinted>>
  BY DEF File!Main, File!BodyReturns, File!fileVars, File!streamVars, streamVars
<1>1. \/ state = 1 /\ StartEventLoop /\ fileBody = "create"
      \/ state # 1 /\ CleanupEventLoop
      \/ InitialFunctionReturns /\ fileBody = "done"
      \/ HandlerReturns /\ fileBody = "done"
      \/ TestState /\ fileBody = "done"
      \/ SemWait /\ fileBody = "done"
  BY SameLoop DEF File!Main, File!BodyReturns, StartEventLoop, TestState, SemWait, LoopGoes, FileBody
<1>2. /\ StreamInv(FileData, FileEnd, ProcessData, ReadFileEnd)'
      /\ UNCHANGED <<popped, calls, alist, Taken>> /\ (Ended' <=> Ended)
  <2>1. fileBody = "done" => spc[s] \notin {"none", "created"}
    BY DEF FileSetup
  <2>. QED  BY <1>0, <1>1, <2>1, LoopMoves, MainFrees
<1>3. UNCHANGED <<file, fileBody, produce, data, filePrinted, spc>>
  BY <1>0 DEF streamVars
<1>4. FileSetup' /\ FileStages'
  <2>1. Loaded' <=> Loaded
    BY <1>3 DEF Loaded, Size
  <2>. QED  BY <1>2, <1>3, <2>1 DEF FileSetup, FileStages
<1>5. /\ FileBody' /\ ~(RunsData /\ fileBody # "done")
      /\ ~(RunsData' /\ fileBody' # "done")
  <2>1. CASE state = 1 /\ StartEventLoop /\ fileBody = "create"
    BY <1>3, <2>1 DEF StartEventLoop, FileBody, RunsData
  <2>2. CASE state # 1 /\ CleanupEventLoop
    <3>1. state = 0
      BY <2>2 DEF CleanupEventLoop, StreamInv, EndInv
    <3>2. lpc = "main" /\ lpc' = "main" /\ state' = 0
      BY <2>2, <3>1 DEF CleanupEventLoop
    <3>. QED  BY <1>3, <3>1, <3>2 DEF FileBody, RunsData
  <2>3. CASE InitialFunctionReturns /\ fileBody = "done"
    BY <1>3, <2>3 DEF InitialFunctionReturns, LoopGoes, FileBody, RunsData
  <2>4. CASE HandlerReturns /\ fileBody = "done"
    BY <1>3, <2>4 DEF HandlerReturns, LoopGoes, FileBody, RunsData
  <2>5. CASE TestState /\ fileBody = "done"
    <3>1. lpc' \in {"wait", "main"} /\ lpc = "test" /\ (lpc' = "main" => state' # 1)
      BY <2>5 DEF TestState, LoopGoes, StreamInv, IInv, TypeOK
    <3>. QED  BY <1>3, <2>5, <3>1 DEF FileBody, RunsData
  <2>6. CASE SemWait /\ fileBody = "done"
    BY <1>3, <2>6 DEF SemWait, LoopGoes, FileBody, RunsData
  <2>. QED  BY <1>1, <2>1, <2>2, <2>3, <2>4, <2>5, <2>6
<1>6. FileTypesInv' /\ ProduceInv' /\ WalkInv' /\ CountInv'
  BY <1>2, <1>3, <1>5, RecordStays
<1>. QED  BY <1>2, <1>4, <1>5, <1>6

\* stream_main of readFile.c, the initial function.
LEMMA FileSetsUp ==
  ASSUME FInv, NEW t \in Thread, File!Setup(t)
  PROVE  FInv'
<1>. USE DEF FInv
<1>1. /\ lpc = "fn" /\ UNCHANGED <<file, produce, data, filePrinted>>
      /\ \/ /\ fileBody = "create" /\ fileBody' = "regdata" /\ CreateStream(s)
         \/ /\ fileBody = "regdata" /\ fileBody' = "regend" /\ UNCHANGED streamVars
            /\ RegisterEvent(Loop, FileData, ProcessData)
         \/ /\ fileBody = "regend" /\ fileBody' = "start" /\ UNCHANGED streamVars
            /\ RegisterEvent(Loop, FileEnd, ReadFileEnd)
         \/ /\ fileBody = "start" /\ fileBody' = "done" /\ StartStream(s)
  <2>1. /\ File!InFn /\ UNCHANGED <<file, produce, data, filePrinted>>
        /\ \/ File!BodyGoes("create", "regdata") /\ File!CreateStream(s)
           \/ /\ File!BodyGoes("regdata", "regend") /\ UNCHANGED File!streamVars
              /\ File!RegisterEvent(Loop, FileData, ProcessData)
           \/ /\ File!BodyGoes("regend", "start") /\ UNCHANGED File!streamVars
              /\ File!RegisterEvent(Loop, FileEnd, ReadFileEnd)
           \/ File!BodyGoes("start", "done") /\ File!StartStream(s)
    BY OneStream DEF File!Setup
  <2>. QED  BY <2>1, SameCalls, SameStream DEF File!InFn, File!BodyGoes, File!streamVars, streamVars
<1>2. /\ ~RunsData /\ (Loaded' <=> Loaded)
  BY <1>1 DEF RunsData, Loaded, Size
<1>3. CASE \/ fileBody = "create" /\ fileBody' = "regdata" /\ CreateStream(s)
           \/ fileBody = "start" /\ fileBody' = "done" /\ StartStream(s)
  <2>1. fileBody = "start" => alist = <<[event |-> FileEnd, handler |-> ReadFileEnd],
                                        [event |-> FileData, handler |-> ProcessData]>>
    BY DEF FileSetup
  <2>2. /\ StreamInv(FileData, FileEnd, ProcessData, ReadFileEnd)'
        /\ UNCHANGED <<vars, Taken, Running>> /\ ~Ended /\ ~Ended'
    BY <1>3, <2>1, StreamMoves
  <2>3. UNCHANGED <<state, alist, lpc, calls, popped>>
    BY <2>2 DEF vars
  <2>4. \/ /\ fileBody = "create" /\ fileBody' = "regdata"
           /\ spc[s] = "none" /\ spc'[s] = "created"
        \/ /\ fileBody = "start" /\ fileBody' = "done"
           /\ spc[s] = "created" /\ spc'[s] \in {"produce", "failed"}
    BY <1>3, OneStream DEF CreateStream, StartStream, StreamGoes, StreamInv, StreamTypes
  <2>5. FileBody' /\ FileSetup' /\ ~RunsData'
    BY <1>1, <2>2, <2>3, <2>4 DEF FileBody, FileSetup, RunsData
  <2>6. FileStages'
    <3>1. calls = 0
      BY <2>4, TakenFromFile
    <3>. QED  BY <1>1, <1>2, <2>3, <2>4, <3>1 DEF FileStages
  <2>7. FileTypesInv' /\ ProduceInv' /\ WalkInv' /\ CountInv'
    BY <1>1, <1>2, <2>2, <2>5, RecordStays
  <2>. QED  BY <2>2, <2>5, <2>6, <2>7
<1>4. CASE \/ /\ fileBody = "regdata" /\ fileBody' = "regend" /\ UNCHANGED streamVars
              /\ RegisterEvent(Loop, FileData, ProcessData)
           \/ /\ fileBody = "regend" /\ fileBody' = "start" /\ UNCHANGED streamVars
              /\ RegisterEvent(Loop, FileEnd, ReadFileEnd)
  <2>0. PICK ev \in Event, h \in Handler :
          /\ RegisterEvent(Loop, ev, h) /\ UNCHANGED streamVars
          /\ \/ /\ fileBody = "regdata" /\ fileBody' = "regend" /\ ev = FileData /\ h = ProcessData
             \/ /\ fileBody = "regend" /\ fileBody' = "start" /\ ev = FileEnd /\ h = ReadFileEnd
    BY <1>4, FileNames DEF Names
  <2>1. spc[s] = "created" /\ spc' = spc
    BY <2>0 DEF FileSetup, streamVars
  <2>2. /\ StreamInv(FileData, FileEnd, ProcessData, ReadFileEnd)'
        /\ UNCHANGED <<state, lpc, popped, calls, Taken>> /\ (Ended' <=> Ended)
        /\ alist' = <<[event |-> ev, handler |-> h]>> \o alist
    BY <2>0, <2>1, LoopRegisters
  <2>3. FileBody' /\ FileStages' /\ ~RunsData'
    BY <1>1, <1>2, <2>0, <2>1, <2>2 DEF FileBody, FileStages, RunsData
  <2>4. FileSetup'
    <3>1. CASE fileBody = "regdata"
      <4>1. fileBody' = "regend" /\ ev = FileData /\ h = ProcessData /\ alist = << >>
        BY <2>0, <3>1 DEF FileSetup
      <4>2. alist' = <<[event |-> FileData, handler |-> ProcessData]>>
        BY <2>2, <4>1
      <4>. QED  BY <2>1, <4>1, <4>2 DEF FileSetup
    <3>2. CASE fileBody = "regend"
      <4>1. /\ fileBody' = "start" /\ ev = FileEnd /\ h = ReadFileEnd
            /\ alist = <<[event |-> FileData, handler |-> ProcessData]>>
        BY <2>0, <3>2 DEF FileSetup
      <4>2. alist' = <<[event |-> FileEnd, handler |-> ReadFileEnd],
                       [event |-> FileData, handler |-> ProcessData]>>
        BY <2>2, <4>1, PairOfOne
      <4>. QED  BY <2>1, <4>1, <4>2 DEF FileSetup
    <3>. QED  BY <2>0, <3>1, <3>2
  <2>5. FileTypesInv' /\ ProduceInv' /\ WalkInv' /\ CountInv'
    BY <1>1, <1>2, <2>2, <2>3, RecordStays
  <2>. QED  BY <2>2, <2>3, <2>4, <2>5
<1>. QED  BY <1>1, <1>3, <1>4

\* run_handler: the next entry is the end, or the one block of the file.
LEMMA FilePops ==
  ASSUME FInv, File!Pop
  PROVE  FInv'
<1>. USE DEF FInv
<1>0. /\ RunHandler /\ fileBody' = "while" /\ UNCHANGED streamVars
      /\ UNCHANGED <<file, produce, data, filePrinted>>
  BY SameLoop DEF File!Pop, File!streamVars, streamVars
<1>1. /\ StreamInv(FileData, FileEnd, ProcessData, ReadFileEnd)'
      /\ lpc = "pop" /\ lpc' = "handler" /\ state' = 2 /\ ~Ended
      /\ Taken' = Taken + 1 /\ UNCHANGED <<state, calls, alist>>
      /\ IsNth(Running', Taken', FileData, FileEnd)
      /\ HandledBy(Running', FileEnd, ProcessData, ReadFileEnd)
  BY <1>0, StreamPops
<1>2. fileBody = "done" /\ spc' = spc
  BY <1>0, <1>1 DEF FileBody, streamVars
<1>3. /\ Taken \in Nat /\ calls \in Nat /\ Taken + 1 <= calls
      /\ calls \in {1, 2} /\ (spc[s] = "done" <=> calls = 2)
  <2>1. /\ Taken' = Taken + 1 /\ Taken \in Nat /\ calls' = calls /\ calls \in Nat
    BY <1>1, TakenFromFile
  <2>2. Taken + 1 <= calls
    <3>1. /\ Taken' \in Nat /\ Len(queue') \in Nat /\ Calling' \in {0, 1}
          /\ calls' = Taken' + Len(queue') + Calling'
      BY <1>1, CountsNext DEF StreamInv, IInv, CallsInv
    <3>. QED  BY <2>1, <3>1
  <2>. QED  BY <2>1, <2>2, TakenFromFile DEF FileStages
<1>4. (Loaded' <=> Loaded) /\ Size' = Size /\ Loaded
  BY <1>0, <1>3 DEF Loaded, Size, FileStages
<1>5. FileBody' /\ FileSetup' /\ FileStages' /\ FileTypesInv'
  BY <1>0, <1>1, <1>2, <1>4, FileNames
     DEF FileBody, FileSetup, FileStages, FileTypesInv, StreamInv, EndInv, Names
<1>6. ProduceInv'
  BY <1>1, <1>3 DEF ProduceInv
<1>7. CASE Running'.handler = ProcessData
  <2>1. Taken = 0 /\ RunsData'
    BY <1>1, <1>2, <1>3, <1>7, FileNames DEF IsNth, HandledBy, Names, RunsData
  <2>2. /\ data.mem_ptr = 0 /\ data.mem_ptr_last = 0 /\ data.newline_count = 0
        /\ data.block_size = Size /\ Size \in Nat
    BY <1>4, <2>1, SizeCovers DEF ProduceInv
  <2>3. Before(0) = {} /\ Before(data.mem_ptr_last)' = Before(0)
    BY <1>0, <2>2 DEF Before, FileTypesInv
  <2>4. Cardinality(Before(data.mem_ptr_last)') = 0
    BY <2>3, FS_EmptySet
  <2>5. WalkInv'
    BY <1>0, <1>1, <1>4, <2>1, <2>2, <2>4 DEF WalkInv
  <2>6. CountInv'
    BY <1>0, <1>2, <2>1 DEF CountInv
  <2>. QED  BY <1>1, <1>5, <1>6, <2>5, <2>6
<1>8. CASE Running'.handler # ProcessData
  <2>1. Taken = 1 /\ ~RunsData /\ ~RunsData'
    BY <1>1, <1>2, <1>3, <1>8, FileNames DEF IsNth, HandledBy, Names, RunsData
  <2>2. WalkInv' /\ CountInv'
    BY <1>0, <1>1, <2>1 DEF WalkInv, CountInv
  <2>. QED  BY <1>1, <1>5, <1>6, <2>2
<1>. QED  BY <1>7, <1>8
\* process_data: the handler of "data" walks the block from newline to newline.
LEMMA FileWalks ==
  ASSUME FInv,
         \/ File!TestBlock \/ File!Memchr \/ File!AfterNewline \/ File!ShrinkBlock \/ File!Count
  PROVE  FInv'
<1>. USE DEF FInv
<1>1. /\ RunsData /\ lpc = "handler" /\ UNCHANGED <<vars, streamVars>>
      /\ file' = file /\ produce' = produce /\ filePrinted' = filePrinted
      /\ data'.file_offset = data.file_offset /\ fileBody \notin {"done", "cleanup"}
      /\ fileBody' \in {"while", "memchr", "found", "size", "last", "done"}
  BY DEF File!TestBlock, File!Memchr, File!AfterNewline, File!ShrinkBlock, File!Count, File!Process,
         File!InHandler, File!BodyGoes, File!vars, vars, File!streamVars, streamVars,
         RunsData, Running, FileTypesInv
<1>2. /\ StreamInv(FileData, FileEnd, ProcessData, ReadFileEnd)'
      /\ UNCHANGED <<Taken, Running>> /\ (Ended' <=> Ended)
  BY <1>1, ClientMoves
<1>3. UNCHANGED <<state, alist, lpc, calls, spc>>
  BY <1>1 DEF vars, streamVars
<1>4. /\ Size' = Size /\ (Loaded' <=> Loaded) /\ RunsData' /\ Taken = 1 /\ Taken' = 1
      /\ \A m : Before(m)' = Before(m)
  BY <1>1, <1>2, <1>3 DEF Size, Loaded, RunsData, WalkInv, Before
<1>5. FileBody' /\ FileSetup' /\ FileStages' /\ ProduceInv'
  BY <1>1, <1>2, <1>3, <1>4 DEF FileBody, FileSetup, FileStages, ProduceInv, RunsData
<1>6. /\ Size \in Nat /\ Size >= file.len /\ file.len \in Nat
      /\ \A q \in file.newline : q \in Nat /\ q + 1 <= Size
      /\ data \in [file_offset : Nat, mem_ptr : Int, mem_ptr_last : Nat,
                   block_size : Nat, newline_count : Nat]
  BY SizeCovers DEF FileTypesInv
<1>7. filePrinted' # NIL => filePrinted' = Cardinality(file'.newline)
  BY <1>1 DEF CountInv
<1>8. CASE File!TestBlock
  <2>1. /\ data' = data /\ fileBody = "while"
        /\ fileBody' = (IF data.block_size > 0 THEN "memchr" ELSE "done")
    BY <1>8 DEF File!TestBlock, File!Process, File!BodyGoes
  <2>2. FileTypesInv'
    BY <1>1, <2>1 DEF FileTypesInv
  <2>3. CASE data.block_size > 0
    BY <1>1, <1>2, <1>4, <1>5, <1>7, <2>1, <2>2, <2>3 DEF WalkInv, CountInv, Before
  <2>4. CASE ~(data.block_size > 0)
    <3>1. data.mem_ptr_last = Size
      BY <1>1, <1>6, <2>1, <2>4 DEF WalkInv
    <3>2. Before(Size) = file.newline
      BY <1>6, AllBefore
    <3>3. data.newline_count = Cardinality(file.newline)
      BY <1>1, <2>1, <3>1, <3>2 DEF WalkInv
    <3>. QED  BY <1>1, <1>2, <1>4, <1>5, <1>7, <2>1, <2>2, <2>4, <3>3 DEF WalkInv, CountInv
  <2>. QED  BY <2>3, <2>4
<1>9. CASE File!Memchr
  <2>. DEFINE m == data.mem_ptr
  <2>1. /\ fileBody = "memchr"
        /\ fileBody' = (IF File!Ahead = {} THEN "done" ELSE "found")
        /\ data' = [data EXCEPT !.mem_ptr = IF File!Ahead = {} THEN -1 ELSE File!Min(File!Ahead)]
    BY <1>9 DEF File!Memchr, File!Process, File!BodyGoes, File!Null
  <2>2. /\ data.mem_ptr_last = m /\ m \in Nat /\ data.block_size = Size - m
        /\ data.newline_count = Cardinality(Before(m))
    BY <1>1, <1>6, <2>1 DEF WalkInv
  <2>3. File!Ahead = {q \in file.newline : q >= m}
    BY <1>6, <2>2 DEF File!Ahead
  <2>4. CASE File!Ahead = {}
    <3>1. Before(m) = file.newline
      BY <1>6, <2>2, <2>3, <2>4, AllBefore
    <3>2. data'.newline_count = data.newline_count /\ FileTypesInv'
      BY <1>1, <1>6, <2>1, <2>4 DEF FileTypesInv
    <3>. QED  BY <1>1, <1>2, <1>4, <1>5, <1>7, <2>1, <2>2, <2>4, <3>1, <3>2 DEF WalkInv, CountInv
  <2>5. CASE File!Ahead # {}
    <3>1. PICK q \in File!Ahead : \A r \in File!Ahead : q <= r
      BY <1>6, <2>3, <2>5, LeastOf
    <3>2. /\ File!Min(File!Ahead) \in File!Ahead
          /\ \A r \in File!Ahead : File!Min(File!Ahead) <= r
      BY <3>1 DEF File!Min
    <3>3. PICK p : p = File!Min(File!Ahead)
      OBVIOUS
    <3>4. p \in file.newline /\ p >= m /\ p \in Nat /\ \A r \in file.newline : r >= m => p <= r
      BY <1>6, <2>3, <3>2, <3>3
    <3>5. Before(p) = Before(m)
      BY <1>6, <2>2, <3>4 DEF Before
    <3>6. /\ data'.mem_ptr = p /\ data'.mem_ptr_last = m /\ data'.block_size = Size - m
          /\ data'.newline_count = Cardinality(Before(m)) /\ FileTypesInv'
      BY <1>1, <1>6, <2>1, <2>2, <2>5, <3>3, <3>4 DEF FileTypesInv
    <3>7. /\ Before(data.mem_ptr)' = Before(p) /\ Before(data.mem_ptr_last)' = Before(m)
      BY <1>1, <3>6 DEF Before
    <3>8. WalkInv'
      BY <1>1, <1>4, <2>1, <2>5, <3>4, <3>5, <3>6, <3>7 DEF WalkInv
    <3>9. CountInv'
      BY <1>4, <1>7, <2>1, <2>5 DEF CountInv
    <3>. QED  BY <1>2, <1>5, <3>6, <3>8, <3>9
  <2>. QED  BY <2>4, <2>5
<1>10. CASE File!AfterNewline
  <2>1. /\ fileBody = "found" /\ fileBody' = "size"
        /\ data' = [data EXCEPT !.mem_ptr = @ + 1]
    BY <1>10 DEF File!AfterNewline, File!Process, File!BodyGoes
  <2>2. /\ data'.mem_ptr - 1 = data.mem_ptr /\ data'.mem_ptr_last = data.mem_ptr_last
        /\ data'.block_size = data.block_size /\ data'.newline_count = data.newline_count
        /\ FileTypesInv'
    BY <1>1, <1>6, <2>1 DEF FileTypesInv
  <2>3. /\ Before(data.mem_ptr - 1)' = Before(data.mem_ptr)
        /\ Before(data.mem_ptr_last)' = Before(data.mem_ptr_last)
    BY <1>1, <2>2 DEF Before
  <2>4. WalkInv'
    BY <1>1, <1>4, <2>1, <2>2, <2>3 DEF WalkInv
  <2>5. CountInv'
    BY <1>4, <1>7, <2>1 DEF CountInv
  <2>. QED  BY <1>2, <1>5, <2>2, <2>4, <2>5
<1>11. CASE File!ShrinkBlock
  <2>1. /\ fileBody = "size" /\ fileBody' = "last"
        /\ data' = [data EXCEPT !.block_size = @ - (data.mem_ptr - data.mem_ptr_last)]
    BY <1>11 DEF File!ShrinkBlock, File!Process, File!BodyGoes
  <2>2. /\ data.block_size = Size - data.mem_ptr_last
        /\ data.mem_ptr - 1 \in file.newline
    BY <1>1, <2>1 DEF WalkInv
  <2>3. /\ data.mem_ptr \in Int /\ data.mem_ptr_last \in Int
        /\ data.mem_ptr <= Size
    <3>1. data.mem_ptr \in Int /\ data.mem_ptr_last \in Int /\ (data.mem_ptr - 1) + 1 <= Size
      BY <1>6, <2>2
    <3>. QED  BY <1>6, <3>1
  <2>4. /\ data'.mem_ptr = data.mem_ptr /\ data'.mem_ptr_last = data.mem_ptr_last
        /\ data'.newline_count = data.newline_count
        /\ data'.block_size = data.block_size - (data.mem_ptr - data.mem_ptr_last)
    <3>1. PICK b : b = data.block_size - (data.mem_ptr - data.mem_ptr_last)
      OBVIOUS
    <3>2. data' = [data EXCEPT !.block_size = b]
      BY <2>1, <3>1
    <3>. QED  BY <1>6, <3>1, <3>2
  <2>5. data'.block_size = Size - data.mem_ptr /\ data'.block_size \in Nat
    BY <1>6, <2>2, <2>3, <2>4
  <2>6. FileTypesInv'
    BY <1>1, <1>6, <2>1, <2>4, <2>5 DEF FileTypesInv
  <2>7. /\ Before(data.mem_ptr - 1)' = Before(data.mem_ptr - 1)
        /\ Before(data.mem_ptr_last)' = Before(data.mem_ptr_last)
    BY <1>1, <2>4 DEF Before
  <2>8. WalkInv'
    BY <1>1, <1>4, <2>1, <2>4, <2>5, <2>7 DEF WalkInv
  <2>9. CountInv'
    BY <1>4, <1>7, <2>1 DEF CountInv
  <2>. QED  BY <1>2, <1>5, <2>6, <2>8, <2>9
<1>12. CASE File!Count
  <2>. DEFINE q == data.mem_ptr - 1
  <2>1. /\ fileBody = "last" /\ fileBody' = "while"
        /\ data' = [data EXCEPT !.mem_ptr_last = data.mem_ptr, !.newline_count = @ + 1]
    BY <1>12 DEF File!Count, File!Process, File!BodyGoes
  <2>2. /\ q \in file.newline /\ Before(q) = Before(data.mem_ptr_last)
        /\ data.newline_count = Cardinality(Before(data.mem_ptr_last))
        /\ data.block_size = Size - data.mem_ptr
    BY <1>1, <2>1 DEF WalkInv
  <2>3. data.mem_ptr = q + 1 /\ data.mem_ptr \in Nat
    <3>1. data.mem_ptr \in Int /\ q \in Nat
      BY <1>6, <2>2
    <3>. QED  BY <3>1
  <2>4. Cardinality(Before(data.mem_ptr)) = data.newline_count + 1
    BY <2>2, <2>3, OneMore
  <2>5. /\ data'.mem_ptr = data.mem_ptr /\ data'.mem_ptr_last = data.mem_ptr
        /\ data'.block_size = data.block_size /\ data'.newline_count = data.newline_count + 1
        /\ FileTypesInv'
    <3>1. PICK c : c = data.newline_count + 1
      OBVIOUS
    <3>2. data' = [data EXCEPT !.mem_ptr_last = data.mem_ptr, !.newline_count = c]
      BY <2>1, <3>1
    <3>3. c \in Nat
      BY <1>6, <3>1
    <3>. QED  BY <1>1, <1>6, <2>3, <3>1, <3>2, <3>3 DEF FileTypesInv
  <2>6. Before(data.mem_ptr_last)' = Before(data.mem_ptr)
    BY <1>1, <2>5 DEF Before
  <2>7. WalkInv'
    BY <1>1, <1>4, <2>1, <2>2, <2>4, <2>5, <2>6 DEF WalkInv
  <2>8. CountInv'
    BY <1>4, <1>7, <2>1 DEF CountInv
  <2>. QED  BY <1>2, <1>5, <2>5, <2>7, <2>8
<1>. QED  BY <1>8, <1>9, <1>10, <1>11, <1>12

\* read_file_end: the count is printed, the loop stopped and the stream freed.
LEMMA FileEnds ==
  ASSUME FInv, File!PrintCount \/ File!Stop \/ \E t \in Thread : File!FreeStream(t)
  PROVE  FInv'
<1>. USE DEF FInv
<1>1. /\ lpc = "handler" /\ Running.handler = ReadFileEnd /\ ReadFileEnd # ProcessData
      /\ UNCHANGED <<file, produce, data>>
  BY FileNames DEF File!PrintCount, File!Stop, File!FreeStream, File!InHandler, Names, Running
<1>2. Ended /\ ~RunsData
  BY <1>1, LastEntry, FileNames DEF RunsData
<1>3. /\ StreamInv(FileData, FileEnd, ProcessData, ReadFileEnd)' /\ Ended'
      /\ UNCHANGED <<Taken, Running, lpc, alist, calls, spc>>
      /\ \/ /\ fileBody = "while" /\ fileBody' = "stop" /\ state' = state
            /\ filePrinted' = data.newline_count
         \/ /\ fileBody = "stop" /\ fileBody' = "cleanup" /\ filePrinted' = filePrinted
         \/ /\ fileBody = "cleanup" /\ fileBody' = "done" /\ filePrinted' = filePrinted
  <2>1. CASE File!PrintCount
    <3>1. UNCHANGED <<vars, streamVars>>
      BY <2>1 DEF File!PrintCount, File!vars, vars, File!streamVars, streamVars
    <3>2. UNCHANGED <<lpc, alist, calls, spc, state>>
      BY <3>1 DEF vars, streamVars
    <3>. QED  BY <1>2, <2>1, <3>1, <3>2, ClientMoves DEF File!PrintCount, File!BodyGoes
  <2>2. CASE File!Stop
    <3>1. /\ StopEventLoop /\ state = 2 /\ UNCHANGED streamVars /\ spc' = spc
          /\ fileBody = "stop" /\ fileBody' = "cleanup" /\ filePrinted' = filePrinted
      BY <1>1, <2>2, SameLoop DEF File!Stop, File!BodyGoes, FileBody, File!streamVars, streamVars
    <3>2. /\ StreamInv(FileData, FileEnd, ProcessData, ReadFileEnd)' /\ lpc' = "handler"
          /\ UNCHANGED <<popped, calls, alist, Taken>> /\ (Ended' <=> Ended)
      BY <1>1, <3>1, HandlerStops, FileNames
    <3>. QED  BY <1>1, <1>2, <3>1, <3>2 DEF Running
  <2>3. CASE \E t \in Thread : File!FreeStream(t)
    <3>1. PICK t \in Thread : File!FreeStream(t)
      BY <2>3
    <3>2. CleanupStream(t) /\ UNCHANGED vars
      BY <3>1, SameStream DEF File!FreeStream, File!vars, vars
    <3>3. /\ StreamInv(FileData, FileEnd, ProcessData, ReadFileEnd)'
          /\ UNCHANGED <<Taken, Running, spc>> /\ (Ended' <=> Ended)
      BY <1>1, <3>2, HandlerFrees, FileNames
    <3>. QED  BY <1>1, <1>2, <3>1, <3>2, <3>3 DEF File!FreeStream, File!BodyGoes, vars
  <2>. QED  BY <2>1, <2>2, <2>3
<1>4. FileBody' /\ FileSetup' /\ ~RunsData'
  BY <1>1, <1>2, <1>3 DEF FileBody, FileSetup, RunsData, StreamInv, EndInv
<1>5. /\ Size' = Size /\ (Loaded' <=> Loaded) /\ Taken \in Nat /\ Taken >= 1
  BY <1>1, TakenFromFile DEF Size, Loaded, StreamInv, EndInv
<1>6. FileStages' /\ FileTypesInv' /\ ProduceInv' /\ WalkInv'
  BY <1>1, <1>3, <1>4, <1>5 DEF FileStages, FileTypesInv, ProduceInv, WalkInv
<1>7. CountInv'
  BY <1>1, <1>2, <1>3, <1>5 DEF CountInv
<1>. QED  BY <1>3, <1>4, <1>6, <1>7

\* read_file_produce: the record is written for the only block, or not at all.
LEMMA FileProduces ==
  ASSUME FInv, File!ReadFileProduce(s)
  PROVE  FInv'
<1>. USE DEF FInv
<1>1. spc[s] = "produce" /\ file' = file /\ fileBody' = fileBody /\ filePrinted' = filePrinted
  BY DEF File!ReadFileProduce, File!AtEnd, File!SetMemPtr, File!SetMemPtrLast, File!SetBlockSize,
         File!SetOffset, File!ReturnBlock, File!Fill, File!InProduce, File!Produced,
         File!StreamGoes, File!fileVars
<1>2. /\ Size \in Nat \ {0} /\ Size >= file.len /\ file.len \in Nat \ {0} /\ Size' = Size
      /\ data \in [file_offset : Nat, mem_ptr : Int, mem_ptr_last : Nat,
                   block_size : Nat, newline_count : Nat]
  BY <1>1, SizeCovers DEF FileTypesInv, Size
<1>3. calls \in {0, 1} /\ Taken \in Nat /\ Taken <= calls /\ ~Ended
  BY <1>1, TakenFromFile DEF FileStages, Ended
<1>4. CASE File!AtEnd(s) \/ File!ReturnBlock(s)
  <2>1. /\ data' = data /\ produce' = "test"
        /\ \/ /\ Produced(s, FALSE) /\ spc'[s] = "end"
              /\ data.file_offset >= file.len /\ produce = "test"
           \/ Produced(s, TRUE) /\ spc'[s] = "data" /\ produce = "return"
    BY <1>4, SameStream, OneStream
       DEF File!AtEnd, File!ReturnBlock, File!ProduceGoes, File!fileVars, Produced, StreamGoes,
           StreamInv, StreamTypes
  <2>2. /\ StreamInv(FileData, FileEnd, ProcessData, ReadFileEnd)'
        /\ UNCHANGED <<vars, Taken, Running>> /\ ~Ended'
    BY <2>1, StreamMoves
  <2>3. UNCHANGED <<state, alist, lpc, calls>>
    BY <2>2 DEF vars
  <2>4. FileBody' /\ FileSetup' /\ (RunsData' <=> RunsData) /\ (Loaded' <=> Loaded)
    BY <1>1, <1>2, <2>1, <2>2, <2>3 DEF FileBody, FileSetup, RunsData, Loaded
  <2>5. FileStages'
    <3>1. spc'[s] = "end" => calls = 1
      BY <1>1, <1>2, <1>3, <2>1 DEF FileStages
    <3>2. CASE spc'[s] = "end"
      BY <1>1, <2>1, <2>3, <2>4, <3>1, <3>2 DEF FileStages
    <3>3. CASE spc'[s] = "data"
      <4>1. produce = "return" /\ calls = 0 /\ Loaded
        BY <2>1, <3>3 DEF FileStages
      <4>. QED  BY <2>1, <2>3, <2>4, <3>3, <4>1 DEF FileStages
    <3>. QED  BY <2>1, <3>2, <3>3
  <2>6. FileTypesInv' /\ WalkInv' /\ CountInv'
    BY <1>1, <1>2, <2>1, <2>2, <2>4 DEF FileTypesInv, WalkInv, CountInv, Before
  <2>7. ProduceInv'
    BY <1>2, <2>1, <2>2, <2>4 DEF ProduceInv
  <2>. QED  BY <2>2, <2>4, <2>5, <2>6, <2>7
<1>5. CASE \/ File!SetMemPtr(s) \/ File!SetMemPtrLast(s)
           \/ File!SetBlockSize(s) \/ File!SetOffset(s)
  <2>1. UNCHANGED <<vars, streamVars>>
    BY <1>5 DEF File!SetMemPtr, File!SetMemPtrLast, File!SetBlockSize, File!SetOffset, File!Fill,
                File!vars, vars, File!streamVars, streamVars
  <2>2. /\ StreamInv(FileData, FileEnd, ProcessData, ReadFileEnd)'
        /\ UNCHANGED <<Taken, Running>> /\ (Ended' <=> Ended)
    BY <2>1, ClientMoves
  <2>3. UNCHANGED <<state, alist, lpc, calls, spc>>
    BY <2>1 DEF vars, streamVars
  <2>4. FileBody' /\ FileSetup' /\ (RunsData' <=> RunsData)
    BY <1>1, <2>2, <2>3 DEF FileBody, FileSetup, RunsData
  <2>5. calls = 0 /\ Taken = 0 /\ Taken' = 0
    <3>1. CASE produce = "test"
      <4>1. data.file_offset < file.len
        BY <1>5, <3>1 DEF File!SetMemPtr, File!SetMemPtrLast, File!SetBlockSize, File!SetOffset,
                          File!Fill, File!ProduceGoes
      <4>. QED  BY <1>2, <1>3, <2>2, <4>1 DEF FileStages, Loaded
    <3>2. CASE produce # "test"
      BY <1>3, <2>2, <3>2 DEF FileStages
    <3>. QED  BY <3>1, <3>2
  <2>6. /\ data.mem_ptr = 0 /\ data.mem_ptr_last = 0 /\ data.newline_count = 0
        /\ produce = "offset" => data.block_size = Size
    BY <2>5 DEF ProduceInv
  <2>7. produce # "return" /\ data.file_offset = 0
    <3>1. produce # "return"
      BY <1>5 DEF File!SetMemPtr, File!SetMemPtrLast, File!SetBlockSize, File!SetOffset,
                  File!Fill, File!ProduceGoes
    <3>. QED  BY <1>1, <2>5, <3>1 DEF FileStages
  <2>8. \/ produce = "test" /\ produce' = "last" /\ data' = [data EXCEPT !.mem_ptr = 0]
        \/ produce = "last" /\ produce' = "size" /\ data' = [data EXCEPT !.mem_ptr_last = 0]
        \/ produce = "size" /\ produce' = "offset" /\ data' = [data EXCEPT !.block_size = Size]
        \/ produce = "offset" /\ produce' = "return" /\ data' = [data EXCEPT !.file_offset = Size]
    <3>1. File!BlockSize(file.len - data.file_offset, Block) = Size
      BY <1>2, <2>7 DEF File!BlockSize, Size
    <3>2. File!SetOffset(s) => data.file_offset + data.block_size = Size
      BY <1>2, <2>6, <2>7 DEF File!SetOffset, File!Fill, File!ProduceGoes
    <3>. QED  BY <1>5, <2>6, <2>7, <3>1, <3>2
              DEF File!SetMemPtr, File!SetMemPtrLast, File!SetBlockSize, File!SetOffset,
                  File!Fill, File!ProduceGoes
  <2>9. /\ data' \in [file_offset : Nat, mem_ptr : Int, mem_ptr_last : Nat,
                      block_size : Nat, newline_count : Nat]
        /\ data'.mem_ptr = 0 /\ data'.mem_ptr_last = 0 /\ data'.newline_count = 0
        /\ produce' \in {"offset", "return"} => data'.block_size = Size
        /\ data'.file_offset = (IF produce' = "return" THEN Size ELSE 0)
        /\ produce' \in {"last", "size", "offset", "return"}
    BY <1>2, <2>6, <2>7, <2>8
  <2>10. FileStages' /\ FileTypesInv' /\ ProduceInv'
    BY <1>1, <1>2, <2>3, <2>5, <2>9 DEF FileStages, FileTypesInv, ProduceInv, Loaded
  <2>11. WalkInv' /\ CountInv'
    BY <1>1, <2>2, <2>4, <2>5 DEF WalkInv, CountInv
  <2>. QED  BY <2>2, <2>4, <2>10, <2>11
<1>. QED  BY <1>4, <1>5 DEF File!ReadFileProduce

\* The steps of announce_event, in the thread of the stream.
LEMMA FileAnnounces ==
  ASSUME FInv, File!StreamAnnounces(s), UNCHANGED <<file, fileBody, produce, data, filePrinted>>
  PROVE  FInv'
<1>. USE DEF FInv
<1>0. Loaded' <=> Loaded
  BY DEF Loaded, Size
<1>1. CASE File!AnnounceData(s) \/ File!AnnounceEnd(s)
  <2>1. PICK ev \in {FileData, FileEnd} :
          /\ AnnounceEvent(s, ev) /\ UNCHANGED streamFreed
          /\ \/ ev = FileData /\ StreamGoes(s, "data", "produce")
             \/ ev = FileEnd /\ StreamGoes(s, "end", "done")
    BY <1>1, SameCalls DEF File!AnnounceData, File!AnnounceEnd, File!StreamGoes, StreamGoes
  <2>2. StreamInv(FileData, FileEnd, ProcessData, ReadFileEnd)'
    BY <2>1, StreamCalls, FileNames
  <2>3. /\ UNCHANGED <<state, alist, lpc, popped>> /\ calls' = calls + 1
        /\ Taken' = Taken /\ Running' = Running /\ (RunsData' <=> RunsData)
    BY <2>1 DEF AnnounceEvent, Taken, Running, RunsData
  <2>4. \/ spc[s] = "data" /\ spc'[s] = "produce"
        \/ spc[s] = "end" /\ spc'[s] = "done"
    BY <2>1, OneStream DEF StreamGoes, StreamInv, StreamTypes
  <2>5. FileBody' /\ FileSetup' /\ FileStages'
    BY <1>0, <2>3, <2>4, TakenFromFile DEF FileBody, FileSetup, FileStages
  <2>6. FileTypesInv' /\ ProduceInv' /\ WalkInv' /\ CountInv'
    BY <2>3, RecordStays
  <2>. QED  BY <2>2, <2>5, <2>6
<1>2. CASE File!Announcing(s) /\ UNCHANGED streamVars
  <2>1. /\ StreamInv(FileData, FileEnd, ProcessData, ReadFileEnd)'
        /\ UNCHANGED <<state, lpc, popped, calls, alist, freed>>
    BY <1>2, SameCalls, StreamAnnouncing, FileNames
  <2>2. /\ spc' = spc /\ Taken' = Taken /\ Running' = Running /\ (RunsData' <=> RunsData)
    BY <1>2, <2>1 DEF Taken, Running, RunsData, streamVars
  <2>3. FileBody' /\ FileSetup' /\ FileStages'
    BY <1>0, <2>1, <2>2 DEF FileBody, FileSetup, FileStages
  <2>4. FileTypesInv' /\ ProduceInv' /\ WalkInv' /\ CountInv'
    BY <2>2, RecordStays
  <2>. QED  BY <2>1, <2>3, <2>4
<1>. QED  BY <1>1, <1>2 DEF File!StreamAnnounces, File!streamVars, streamVars

LEMMA FileStep == FInv /\ [File!FileNext]_(File!allVars) => FInv'
<1>. SUFFICES ASSUME FInv, [File!FileNext]_(File!allVars) PROVE FInv'
  OBVIOUS
<1>1. CASE UNCHANGED File!allVars
  <2>1. UNCHANGED <<vars, streamVars>> /\ UNCHANGED <<file, fileBody, produce, data, filePrinted>>
    BY <1>1 DEF File!allVars, File!fileVars, File!vars, vars, File!streamVars, streamVars
  <2>2. /\ StreamInv(FileData, FileEnd, ProcessData, ReadFileEnd)'
        /\ UNCHANGED <<Taken, Running>> /\ (Ended' <=> Ended)
    BY <2>1, ClientMoves DEF FInv
  <2>3. UNCHANGED <<state, alist, lpc, calls, spc>> /\ (Loaded' <=> Loaded)
    BY <2>1 DEF vars, streamVars, Loaded, Size
  <2>4. FileBody' /\ FileSetup' /\ FileStages' /\ (RunsData' <=> RunsData)
    BY <2>1, <2>2, <2>3 DEF FInv, FileBody, FileSetup, FileStages, RunsData
  <2>5. FileTypesInv' /\ ProduceInv' /\ WalkInv' /\ CountInv'
    BY <2>1, <2>2, <2>4, RecordStays DEF FInv
  <2>. QED  BY <2>2, <2>4, <2>5 DEF FInv
<1>2. CASE File!LoopThread
  BY <1>2, FileLoopMoves, FileSetsUp, FilePops, FileWalks, FileEnds DEF File!LoopThread
<1>3. ASSUME NEW t \in Thread, File!StreamThread(t)
      PROVE  FInv'
  <2>1. t = s
    BY OneStream
  <2>. QED  BY <1>3, <2>1, FileProduces, FileAnnounces DEF File!StreamThread, File!fileVars
<1>. QED  BY <1>1, <1>2, <1>3 DEF File!FileNext

LEMMA FileInvariant == File!FileSpec => []FInv
  BY FileStarts, FileStep, PTL DEF File!FileSpec

LEMMA FileRight == FInv => CountIsRight
<1>1. FInv => (filePrinted # NIL => filePrinted = Cardinality(file.newline))
  BY DEF FInv, CountInv
<1>2. File!Cardinality(file.newline) = Cardinality(file.newline)
  BY DEF File!Cardinality, Cardinality
<1>. QED  BY <1>1, <1>2 DEF CountIsRight, File!CountIsRight

(* readFile.c reports the number of newlines of the file, for every file,  *)
(* every place of its newlines and every block size.                       *)
THEOREM FileCountIsRight == File!FileSpec => []CountIsRight
  BY FileRight, FileInvariant, PTL

LEMMA FileUnshared == FInv => NoSharedAccess
<1>. SUFFICES ASSUME FInv, lpc = "handler" PROVE produce = "test"
  BY DEF NoSharedAccess, File!NoSharedAccess
<1>1. Taken >= 1 /\ Taken \in Nat /\ calls \in Nat /\ Taken <= calls
  BY TakenFromFile DEF FInv, StreamInv, EndInv
<1>. QED  BY <1>1 DEF FInv, FileStages

(* read_file_produce does not write the record while process_data uses it, *)
(* although no lock says so.                                               *)
THEOREM RecordIsNotShared == File!FileSpec => []NoSharedAccess
  BY FileUnshared, FileInvariant, PTL

(* Neither the stream nor the loop of readFile.c is freed under the        *)
(* detached thread of the stream.                                          *)
THEOREM FileFreesNothingInUse == File!FileSpec => []NoUseAfterFree
<1>1. FInv => NoUseAfterFree
  BY NothingFreedInUse DEF FInv
<1>. QED  BY <1>1, FileInvariant, PTL
-----------------------------------------------------------------------------
(* Both programs, as the choice between them that the run makes            *)

MCInv == \/ program = "streamPi" /\ PiInv /\ fileBody = "create" /\ filePrinted = NIL
         \/ program = "readFile" /\ FInv /\ body = "create" /\ printed = NIL

LEMMA MCStarts == MCInit => MCInv
<1>. SUFFICES ASSUME MCInit PROVE MCInv
  OBVIOUS
<1>1. PiInv /\ FInv
  BY PiStarts, FileStarts DEF MCInit
<1>2. body = "create" /\ printed = NIL /\ fileBody = "create" /\ filePrinted = NIL
  BY DEF MCInit, PiInit, File!FileInit
<1>. QED  BY <1>1, <1>2 DEF MCInit, MCInv

LEMMA MCStep == MCInv /\ [MCNext]_mcVars => MCInv'
<1>. SUFFICES ASSUME MCInv, [MCNext]_mcVars PROVE MCInv'
  OBVIOUS
<1>1. program' = program
  BY DEF MCNext, MCLoopThread, MCStreamThread, mcVars
<1>2. CASE program = "streamPi"
  <2>1. [PiNext]_allVars /\ UNCHANGED fileVars
    BY <1>2 DEF MCNext, MCLoopThread, MCStreamThread, mcVars, PiNext
  <2>2. PiInv'
    BY <1>2, <2>1, PiStep DEF MCInv
  <2>. QED  BY <1>1, <1>2, <2>1, <2>2 DEF MCInv, fileVars
<1>3. CASE program = "readFile"
  <2>1. /\ \/ File!FileNext
           \/ UNCHANGED allVars /\ UNCHANGED fileVars
        /\ UNCHANGED piVars
    BY <1>3 DEF MCNext, MCLoopThread, MCStreamThread, mcVars, allVars, File!FileNext
  <2>2. [File!FileNext]_(File!allVars)
    BY <2>1 DEF allVars, fileVars, File!allVars, File!fileVars, File!vars, vars,
                File!streamVars, streamVars
  <2>3. FInv'
    BY <1>3, <2>2, FileStep DEF MCInv
  <2>. QED  BY <1>1, <1>3, <2>1, <2>3 DEF MCInv, piVars
<1>. QED  BY <1>2, <1>3 DEF MCInv

(* Whichever of the two programs runs, what it reports is right, its two   *)
(* threads do not share the record, and nothing is freed in use.           *)
THEOREM BothProgramsAreSafe ==
  MCSpec => [](PiIsComplete /\ CountIsRight /\ NoSharedAccess /\ NoUseAfterFree)
<1>1. PiInv => PiIsComplete /\ NoUseAfterFree
  BY PiComplete, NothingFreedInUse DEF PiInv
<1>2. FInv => CountIsRight /\ NoSharedAccess /\ NoUseAfterFree
  BY FileRight, FileUnshared, NothingFreedInUse DEF FInv
<1>3. MCInv => PiIsComplete /\ CountIsRight /\ NoSharedAccess /\ NoUseAfterFree
  BY <1>1, <1>2 DEF MCInv, PiIsComplete, CountIsRight, File!CountIsRight,
                    NoSharedAccess, File!NoSharedAccess
<1>. QED  BY <1>3, MCStarts, MCStep, PTL DEF MCSpec
=============================================================================
