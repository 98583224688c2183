------------------------------ MODULE MCStreams ------------------------------
(***************************************************************************)
(* The two programs that run a stream on an event loop, streamPi.c and     *)
(* readFile.c, as one choice made at the start: the loop and the stream    *)
(* are the same code in both.  Each program has the events and the         *)
(* handlers of its own; the variables of the other one stay as they are.   *)
(***************************************************************************)
EXTENDS StreamPi

CONSTANTS FileData, FileEnd,           \* the events of readFile.c
          ProcessData, ReadFileEnd,    \* its handlers
          MaxLen, Block

VARIABLES program, file, fileBody, produce, data, filePrinted

File == INSTANCE ReadFile WITH
          body <- fileBody, printed <- filePrinted, DataEvent <- FileData, EndEvent <- FileEnd

ASSUME ReadFileAssumption ==
  /\ File!ReadFileConstants
  /\ {FileData, FileEnd} \subseteq Event /\ FileData # FileEnd

fileVars == <<file, fileBody, produce, data, filePrinted>>
mcVars == <<allVars, fileVars, program>>

MCInit ==
  /\ PiInit /\ File!FileInit
  /\ \/ program = "streamPi" /\ file = [len |-> 1, newline |-> {}]
     \/ program = "readFile"

MCLoopThread ==
  /\ UNCHANGED program
  /\ \/ program = "streamPi" /\ LoopThread /\ UNCHANGED fileVars
     \/ program = "readFile" /\ File!LoopThread /\ UNCHANGED piVars

MCStreamThread(t) ==
  /\ UNCHANGED program
  /\ \/ program = "streamPi" /\ StreamThread(t) /\ UNCHANGED fileVars
     \/ program = "readFile" /\ File!StreamThread(t) /\ UNCHANGED piVars

MCNext == MCLoopThread \/ \E t \in Thread : MCStreamThread(t)

MCSpec == /\ MCInit /\ [][MCNext]_mcVars
          /\ WF_mcVars(MCLoopThread) /\ \A t \in Thread : WF_mcVars(MCStreamThread(t))

----------------------------------------------------------------------------
(* Properties of readFile.c; the others are those of StreamPi and Stream.  *)

(* readFile.c counts right without a lock: see ReadFile.                   *)
CountIsRight == File!CountIsRight

(* produce and process_data never work on the record at once: see ReadFile.*)
NoSharedAccess == File!NoSharedAccess
=============================================================================
