------------------------------ MODULE StreamPi ------------------------------
(***************************************************************************)
(* cs520/prog6/streamPi.c: one stream produces the partial sums, the       *)
(* handler of "data" adds them up, and the handler of "end" reports the    *)
(* sum, frees the stream and stops the loop; main then frees the loop.     *)
(* The program runs EventLoop.c and Stream.c with no other synchronisation *)
(* than theirs.                                                            *)
(***************************************************************************)
EXTENDS Stream

CONSTANTS Chunks,                    \* totalChunks
          ProcessValue, Terminate    \* the two handlers

\* The program makes one stream and no other thread.
ASSUME StreamPiAssumption ==
  /\ \E t \in Thread : Thread = {t}
  /\ Chunks \in Nat /\ MaxCalls = Chunks + 1 /\ MaxRegs = 2
  /\ ProcessValue \in Handler /\ Terminate \in Handler /\ ProcessValue # Terminate

VARIABLES body,        \* where computePi, or the handler being run, is
          nextChunk,   \* PiState.nextChunk
          boxes,       \* the boxed partial sums that are allocated
          sum,         \* the chunks added into sum
          printed      \* what terminate printed: the chunks in it, or NIL

piVars == <<body, nextChunk, boxes, sum, printed>>
allVars == <<vars, streamVars, piVars>>

PiInit == /\ Init /\ StreamInit
          /\ body = "create" /\ nextChunk = 0 /\ boxes = {} /\ sum = {} /\ printed = NIL

BodyGoes(from, to) == body = from /\ body' = to

----------------------------------------------------------------------------
(* computePi, the initial function; startStream's result is not looked at. *)
InFn == Alive /\ lpc = "fn" /\ pc[Loop] = "idle"

Create(t) == /\ InFn /\ BodyGoes("create", "regdata") /\ CreateStream(t)
             /\ UNCHANGED <<nextChunk, boxes, sum, printed>>

\* A mutant: the handler of the "end" event is registered for "data".
RegisterDataSwapped == /\ InFn /\ BodyGoes("regdata", "regend")
                       /\ RegisterEvent(Loop, DataEvent, Terminate)
                       /\ UNCHANGED <<streamVars, nextChunk, boxes, sum, printed>>

RegisterData == /\ InFn /\ BodyGoes("regdata", "regend")
                /\ RegisterEvent(Loop, DataEvent, ProcessValue)
                /\ UNCHANGED <<streamVars, nextChunk, boxes, sum, printed>>

RegisterEnd == /\ InFn /\ BodyGoes("regend", "start")
               /\ RegisterEvent(Loop, EndEvent, Terminate)
               /\ UNCHANGED <<streamVars, nextChunk, boxes, sum, printed>>

Start(t) == /\ InFn /\ BodyGoes("start", "done") /\ StartStream(t)
            /\ UNCHANGED <<nextChunk, boxes, sum, printed>>

----------------------------------------------------------------------------
(* piSlice, the produce function                                           *)
PiSlice(t) ==
  /\ Produced(t, nextChunk < Chunks)
  /\ nextChunk' = IF nextChunk < Chunks THEN nextChunk + 1 ELSE nextChunk
  /\ boxes' = boxes \union (IF nextChunk < Chunks THEN {nextChunk + 1} ELSE {})
  /\ UNCHANGED <<body, sum, printed>>

----------------------------------------------------------------------------
(* The handlers, run by the loop                                           *)

\* The entry being run.  The k-th announcement carries the k-th box.
Running == popped[Len(popped)]
InHandler(h) == /\ Alive /\ lpc = "handler" /\ pc[Loop] = "idle"
                /\ Running.handler = h

\* run_handler calls the handler it popped.
Pop == /\ RunHandler /\ body' = "entry"
       /\ UNCHANGED <<streamVars, nextChunk, boxes, sum, printed>>

\* A mutant: the box is freed before its value is read.
AddValueFreed == /\ InHandler(ProcessValue) /\ BodyGoes("entry", "free")
                 /\ sum' = sum \union {Running.n}
                 /\ boxes' = boxes \ {Running.n}
                 /\ UNCHANGED <<vars, streamVars, nextChunk, printed>>

AddValue == /\ InHandler(ProcessValue) /\ BodyGoes("entry", "free")
            /\ sum' = sum \union {Running.n}
            /\ UNCHANGED <<vars, streamVars, nextChunk, boxes, printed>>

FreeBox == /\ InHandler(ProcessValue) /\ BodyGoes("free", "done")
           /\ boxes' = boxes \ {Running.n}
           /\ UNCHANGED <<vars, streamVars, nextChunk, sum, printed>>

PrintSum == /\ InHandler(Terminate) /\ BodyGoes("entry", "cleanup")
            /\ printed' = sum
            /\ UNCHANGED <<vars, streamVars, nextChunk, boxes, sum>>

FreeStream(t) == /\ InHandler(Terminate) /\ BodyGoes("cleanup", "stop")
                 /\ CleanupStream(t)
                 /\ UNCHANGED <<vars, nextChunk, boxes, sum, printed>>

Stop == /\ InHandler(Terminate) /\ BodyGoes("stop", "done") /\ StopEventLoop
        /\ UNCHANGED <<streamVars, nextChunk, boxes, sum, printed>>

\* The initial function or a handler has run to its end.
BodyReturns == /\ body = "done" /\ (InitialFunctionReturns \/ HandlerReturns)
               /\ UNCHANGED <<streamVars, piVars>>

----------------------------------------------------------------------------
(* main: start the loop, and free it once main_loop has returned.          *)
MainStarts == /\ state = 1 /\ StartEventLoop /\ UNCHANGED <<streamVars, piVars>>

MainCleansUp == /\ state # 1 /\ CleanupEventLoop /\ UNCHANGED <<streamVars, piVars>>

LoopThread == \/ MainStarts \/ MainCleansUp
              \/ \E t \in Thread : Create(t) \/ Start(t) \/ FreeStream(t)
              \/ RegisterData \/ RegisterEnd
              \/ (TestState \/ SemWait) /\ UNCHANGED <<streamVars, piVars>>
              \/ Pop \/ AddValue \/ FreeBox \/ PrintSum \/ Stop \/ BodyReturns

StreamThread(t) == \/ PiSlice(t)
                   \/ StreamAnnounces(t) /\ UNCHANGED piVars

PiNext == LoopThread \/ \E t \in Thread : StreamThread(t)

\* Both threads keep being scheduled: neither has a step that may be put off.
PiSpec == /\ PiInit /\ [][PiNext]_allVars
          /\ WF_allVars(LoopThread) /\ \A t \in Thread : WF_allVars(StreamThread(t))

----------------------------------------------------------------------------
(* Properties                                                              *)

(* Pi is reported once, from all the partial sums: the "end" event is run  *)
(* after every "data" event, each of which was run, and by then every box  *)
(* has been freed.                                                         *)
PiIsComplete == printed # NIL => printed = 1..Chunks /\ boxes = {}

(* A box is added before it is freed and is never freed twice: it is       *)
(* allocated for as long as its event is queued or its handler reads it.   *)
BoxesLive ==
  /\ \A i \in DOMAIN queue : queue[i].event = DataEvent => queue[i].n \in boxes
  /\ (lpc = "handler" /\ Running.handler = ProcessValue /\ body \in {"entry", "free"})
       => Running.n \in boxes
=============================================================================
