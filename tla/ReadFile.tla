------------------------------ MODULE ReadFile ------------------------------
(***************************************************************************)
(* cs520/prog6/readFile.c: a stream walks a mapped file in blocks and the  *)
(* handler of "data" counts the newlines of a block.  Both work on one     *)
(* shared record, data, with no lock: the produce function, in the thread  *)
(* of the stream, sets mem_ptr, mem_ptr_last and block_size for the next   *)
(* block while the handler, in the thread of the loop, may be using them   *)
(* for the last one.  Every access to the record is a step of its own.     *)
(***************************************************************************)
EXTENDS Stream, FiniteSetsExt

CONSTANTS MaxLen,      \* bound on the length of the file
          Block,       \* the 1000 of read_file_produce
          ProcessData, ReadFileEnd

\* The program makes one stream and no other thread.
ReadFileConstants ==
  /\ \E t \in Thread : Thread = {t}
  /\ MaxLen \in Nat \ {0} /\ Block \in Nat \ {0}
  /\ ProcessData \in Handler /\ ReadFileEnd \in Handler /\ ProcessData # ReadFileEnd

VARIABLES file,      \* the mapped file: its length and the offsets of its newlines
          body,      \* where stream_main (the initial function) or the handler is
          produce,   \* where read_file_produce is
          data,      \* the shared record; pointers are offsets into the file
          printed    \* the count read_file_end printed, or NIL

Null == -1   \* the null pointer among offsets

fileVars == <<file, body, produce, data, printed>>
allVars == <<vars, streamVars, fileVars>>

\* read_file_init: open and mmap exit on failure, and mmap refuses length 0.
FileInit ==
  /\ Init /\ StreamInit
  /\ \E n \in 1..MaxLen : file \in [len : {n}, newline : SUBSET (0 .. n - 1)]
  /\ body = "create" /\ produce = "test" /\ printed = NIL
  /\ data = [file_offset |-> 0, mem_ptr |-> 0, mem_ptr_last |-> 0,
             block_size |-> 0, newline_count |-> 0]

BodyGoes(from, to) == body = from /\ body' = to
ProduceGoes(from, to) == produce = from /\ produce' = to

----------------------------------------------------------------------------
(* stream_main of readFile.c, the initial function                         *)
InFn == Alive /\ lpc = "fn" /\ pc[Loop] = "idle"

Setup(t) == /\ InFn
            /\ \/ BodyGoes("create", "regdata") /\ CreateStream(t)
               \/ BodyGoes("regdata", "regend") /\ RegisterEvent(Loop, DataEvent, ProcessData)
                  /\ UNCHANGED streamVars
               \/ BodyGoes("regend", "start") /\ RegisterEvent(Loop, EndEvent, ReadFileEnd)
                  /\ UNCHANGED streamVars
               \/ BodyGoes("start", "done") /\ StartStream(t)
            /\ UNCHANGED <<file, produce, data, printed>>

----------------------------------------------------------------------------
(* read_file_produce, in the thread of the stream                          *)
InProduce(t) == Alive /\ spc[t] = "produce" /\ pc[t] = "idle"

\* A mutant: the size the comment at the head of the file asks for.
BlockSizeMin(rest, block) == IF rest < block THEN rest ELSE block

\* The code writes MAX where the size of a block calls for the smaller one.
BlockSize(rest, block) == IF rest > block THEN rest ELSE block

\* Nothing left: NULL is returned, and the record is not written.
AtEnd(t) == /\ data.file_offset >= file.len
            /\ produce = "test" /\ Produced(t, FALSE)
            /\ UNCHANGED fileVars

Fill(t, from, to, field, value) ==
  /\ InProduce(t) /\ ProduceGoes(from, to)
  /\ data' = [data EXCEPT ![field] = value]
  /\ UNCHANGED <<vars, streamVars, file, body, printed>>

SetMemPtr(t) == /\ data.file_offset < file.len
                /\ Fill(t, "test", "last", "mem_ptr", data.file_offset)
SetMemPtrLast(t) == Fill(t, "last", "size", "mem_ptr_last", data.mem_ptr)
SetBlockSize(t) == Fill(t, "size", "offset", "block_size",
                        BlockSize(file.len - data.file_offset, Block))
SetOffset(t) == Fill(t, "offset", "return", "file_offset", data.file_offset + data.block_size)

ReturnBlock(t) == /\ ProduceGoes("return", "test") /\ Produced(t, TRUE)
                  /\ UNCHANGED <<file, body, data, printed>>

ReadFileProduce(t) == \/ AtEnd(t) \/ SetMemPtr(t) \/ SetMemPtrLast(t)
                      \/ SetBlockSize(t) \/ SetOffset(t) \/ ReturnBlock(t)

----------------------------------------------------------------------------
(* The handlers                                                            *)
InHandler(h) == /\ Alive /\ lpc = "handler" /\ pc[Loop] = "idle"
                /\ popped[Len(popped)].handler = h

Pop == RunHandler /\ body' = "while" /\ UNCHANGED <<streamVars, file, produce, data, printed>>

Process(from, to) == /\ InHandler(ProcessData) /\ BodyGoes(from, to)
                     /\ UNCHANGED <<vars, streamVars, file, produce, printed>>

TestBlock == /\ Process("while", IF data.block_size > 0 THEN "memchr" ELSE "done")
             /\ UNCHANGED data

\* The newlines memchr sees in block_size bytes from mem_ptr: past the end of
\* the file the page holds zeros.
Ahead == {p \in file.newline : p >= data.mem_ptr /\ p < data.mem_ptr + data.block_size}

Memchr == /\ Process("memchr", IF Ahead = {} THEN "done" ELSE "found")
          /\ data' = [data EXCEPT !.mem_ptr = IF Ahead = {} THEN Null ELSE Min(Ahead)]

AfterNewline == /\ Process("found", "size")
                /\ data' = [data EXCEPT !.mem_ptr = @ + 1]

ShrinkBlock == /\ Process("size", "last")
               /\ data' = [data EXCEPT !.block_size = @ - (data.mem_ptr - data.mem_ptr_last)]

Count == /\ Process("last", "while")
         /\ data' = [data EXCEPT !.mem_ptr_last = data.mem_ptr, !.newline_count = @ + 1]

PrintCount == /\ InHandler(ReadFileEnd) /\ BodyGoes("while", "stop")
              /\ printed' = data.newline_count
              /\ UNCHANGED <<vars, streamVars, file, produce, data>>

\* A mutant: read_file_end does not stop the loop.
StopForgotten == /\ InHandler(ReadFileEnd) /\ BodyGoes("stop", "cleanup")
                 /\ UNCHANGED <<vars, streamVars, file, produce, data, printed>>

Stop == /\ InHandler(ReadFileEnd) /\ BodyGoes("stop", "cleanup") /\ StopEventLoop
        /\ UNCHANGED <<streamVars, file, produce, data, printed>>

FreeStream(t) == /\ InHandler(ReadFileEnd) /\ BodyGoes("cleanup", "done")
                 /\ CleanupStream(t)
                 /\ UNCHANGED <<vars, file, produce, data, printed>>

BodyReturns == /\ body = "done" /\ (InitialFunctionReturns \/ HandlerReturns)
               /\ UNCHANGED <<streamVars, fileVars>>

----------------------------------------------------------------------------
(* main: start the loop, and free it once main_loop has returned.          *)
Main == /\ \/ state = 1 /\ StartEventLoop
           \/ state # 1 /\ CleanupEventLoop
        /\ UNCHANGED <<streamVars, fileVars>>

LoopThread == \/ Main \/ Pop \/ BodyReturns
              \/ \E t \in Thread : Setup(t) \/ FreeStream(t)
              \/ (TestState \/ SemWait) /\ UNCHANGED <<streamVars, fileVars>>
              \/ TestBlock \/ Memchr \/ AfterNewline \/ ShrinkBlock \/ Count
              \/ PrintCount \/ Stop

StreamThread(t) == ReadFileProduce(t) \/ (StreamAnnounces(t) /\ UNCHANGED fileVars)

FileNext == LoopThread \/ \E t \in Thread : StreamThread(t)

FileSpec == /\ FileInit /\ [][FileNext]_allVars
            /\ WF_allVars(LoopThread) /\ \A t \in Thread : WF_allVars(StreamThread(t))

----------------------------------------------------------------------------
(* Properties                                                              *)

(* The count reported is the number of newlines of the file, although      *)
(* produce and process_data share the record without a lock: it is right   *)
(* only because the whole file is one block, so that produce has nothing   *)
(* left to write once a block has been announced.                          *)
CountIsRight == printed # NIL => printed = Cardinality(file.newline)

(* The two functions never work on the record at the same time.            *)
NoSharedAccess ==
  (lpc = "handler" /\ body \in {"while", "memchr", "found", "size", "last"}
     /\ popped[Len(popped)].handler = ProcessData)
  => produce = "test"
=============================================================================
