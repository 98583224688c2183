------------------------------- MODULE Stream -------------------------------
(***************************************************************************)
(* cs520/prog6/Stream.c on top of the event loop: a stream is a detached   *)
(* thread that announces a "data" event for everything its produce         *)
(* function returns and one "end" event after that.  Every stream is one   *)
(* member of Thread.  What produce returns and what the handlers do is the *)
(* client's: StreamPi.tla and ReadFile.tla compose this module with one.   *)
(***************************************************************************)
EXTENDS EventLoop

CONSTANTS DataEvent, EndEvent   \* the two names given to create_stream

ASSUME StreamEventAssumption == {DataEvent, EndEvent} \subseteq Event /\ DataEvent # EndEvent

VARIABLES spc,          \* where each stream is in its life and in stream_main
          streamFreed   \* the streams given to cleanup_stream

streamVars == <<spc, streamFreed>>

StreamInit == spc = [t \in Thread |-> "none"] /\ streamFreed = {}

StreamGoes(t, from, to) == spc[t] = from /\ spc' = [spc EXCEPT ![t] = to]

\* create_stream, by the thread of the loop: xcalloc exits rather than fail.
CreateStream(t) == StreamGoes(t, "none", "created") /\ UNCHANGED <<vars, streamFreed>>

\* start_stream: init has returned, and pthread_create makes the thread or fails.
StartStream(t) ==
  /\ \/ StreamGoes(t, "created", "produce")
     \/ StreamGoes(t, "created", "failed")
  /\ UNCHANGED <<vars, streamFreed>>

\* stream_main: the produce function has returned data, or NULL.
Produced(t, gaveData) ==
  /\ Alive /\ pc[t] = "idle"
  /\ StreamGoes(t, "produce", IF gaveData THEN "data" ELSE "end")
  /\ UNCHANGED <<vars, streamFreed>>

\* stream_main calls announce_event; its steps are those of EventLoop.
AnnounceData(t) == /\ StreamGoes(t, "data", "produce") /\ AnnounceEvent(t, DataEvent)
                   /\ UNCHANGED streamFreed

AnnounceEnd(t) == /\ StreamGoes(t, "end", "done") /\ AnnounceEvent(t, EndEvent)
                  /\ UNCHANGED streamFreed

StreamAnnounces(t) == \/ AnnounceData(t) \/ AnnounceEnd(t)
                      \/ Announcing(t) /\ UNCHANGED streamVars

\* cleanup_stream frees the stream and its copies of the event names.
CleanupStream(t) == streamFreed' = streamFreed \union {t} /\ UNCHANGED spc

----------------------------------------------------------------------------
(* Properties of any client                                                *)

(* No stream is freed while its thread may still read it: stream_main has  *)
(* called announce_event for the last time, and that call is past the      *)
(* lookup, which reads the event name in the stream's memory.              *)
NoStreamUseAfterFree ==
  \A t \in streamFreed : spc[t] = "done" /\ pc[t] # "lookup"

(* When main frees the event loop, no stream thread is inside              *)
(* announce_event or will call it again.                                   *)
NoLoopUseAfterFree ==
  freed => \A t \in Thread : spc[t] = "done" /\ pc[t] = "idle"

(* Neither the stream nor the loop is freed under a stream's thread,       *)
(* although those threads are detached and nobody joins them (the          *)
(* assumption at EventLoop.c:323).                                         *)
NoUseAfterFree == NoStreamUseAfterFree /\ NoLoopUseAfterFree

(* The program ends, unless the thread of a stream could not be made: the  *)
(* clients ignore what startStream returns, and then wait for ever.        *)
Terminates == <>(freed \/ \E t \in Thread : spc[t] = "failed")
=============================================================================
