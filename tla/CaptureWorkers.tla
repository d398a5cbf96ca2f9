--------------------------- MODULE CaptureWorkers ---------------------------
(***************************************************************************)
(* The worker threads of the V4L2 capture.  The grabber's thread takes a   *)
(* filled buffer from the driver and gives it to a free worker, which      *)
(* reads the buffer on its own thread and answers with a queued signal;    *)
(* only then the grabber gives the buffer back to the driver.  A stop, a   *)
(* restart and a change of the HDR mode first wait for the workers'        *)
(* threads: the grabber's thread handles nothing in that time.             *)
(*                                                                         *)
(* A frame for which no worker is free goes back to the driver in the call *)
(* that took it, as do frames that are skipped or too small: no state      *)
(* changes.  A driver that refuses to stop, unmap or close, which the code *)
(* only logs, is left out.                                                 *)
(***************************************************************************)
EXTENDS Naturals, Sequences, FiniteSets

CONSTANTS WorkersCount,    \* workersCount, more than one
          Buffers          \* what VIDIOC_REQBUFS granted

ASSUME WorkersAssumption == WorkersCount \in Nat \ {0, 1}

Workers == 1 .. WorkersCount

VARIABLES isActive,     \* V4L2Worker::_isActive, read by all workers
          streaming,    \* the device is open, mapped, and its notifier enabled
          waiting,      \* why the grabber's thread waits for the workers
          queued,       \* buffers the driver may write to
          busy,         \* workers whose _isBusy is set
          thread,       \* what the thread of a worker does
          buffer,       \* _v4l2Buf of a worker
          results,      \* signals of workers the grabber has not handled yet
          valid         \* history: workers whose frame and LUT are still those
                        \* of their setup

vars == <<isActive, streaming, waiting, queued, busy, thread, buffer, results, valid>>

(* `old` marks the signals that were sent before the last start.           *)
Results == [worker : Workers, old : BOOLEAN]

TypeOK ==
    /\ isActive \in BOOLEAN
    /\ streaming \in BOOLEAN
    /\ waiting \in {"no", "stop", "restart", "hdr"}
    /\ queued \subseteq Buffers
    /\ busy \subseteq Workers
    /\ thread \in [Workers -> {"idle", "started", "reading", "finishing"}]
    /\ buffer \in [Workers -> Buffers]
    /\ results \in Seq(Results)
    /\ valid \subseteq Workers

Init ==
    /\ isActive = FALSE
    /\ streaming = FALSE
    /\ waiting = "no"
    /\ queued = {}
    /\ busy = {}
    /\ thread = [w \in Workers |-> "idle"]
    /\ buffer \in [Workers -> Buffers]
    /\ results = <<>>
    /\ valid = {}

-----------------------------------------------------------------------------
(***************************************************************************)
(* The thread of the grabber                                               *)
(***************************************************************************)

(* start: the workers are active even when the device does not open.       *)
Started ==
    /\ isActive' = TRUE
    /\ \/ streaming' = TRUE /\ queued' = Buffers
       \/ streaming' = FALSE /\ queued' = {}
    /\ results' = [i \in DOMAIN results |-> [results[i] EXCEPT !.old = TRUE]]

Start ==
    /\ waiting = "no"
    /\ ~streaming
    /\ Started
    /\ UNCHANGED <<waiting, busy, thread, buffer, valid>>

(* V4L2WorkerManager::Stop, the first half.  Whoever stops: the wrapper, a *)
(* failed VIDIOC_DQBUF; a new setting and revive also start again.         *)
StopWorkers(reason) ==
    /\ waiting = "no"
    /\ isActive' = FALSE
    /\ waiting' = reason
    /\ UNCHANGED <<streaming, queued, busy, thread, buffer, results, valid>>

Stop == streaming /\ \E reason \in {"stop", "restart"} : StopWorkers(reason)

SetHdrToneMappingEnabled == isActive /\ StopWorkers("hdr")

(* ... the second half and what follows: frames are unmapped, or the LUT   *)
(* is replaced.                                                            *)
ReadersHaveStopped == \A w \in Workers : thread[w] # "reading"

WorkersHaveStopped == \A w \in Workers : thread[w] = "idle"

Stopped ==
    /\ WorkersHaveStopped
    /\ \/ /\ waiting = "stop"
          /\ streaming' = FALSE
          /\ queued' = {}
          /\ UNCHANGED <<isActive, results>>
       \/ waiting = "restart" /\ Started
       \/ /\ waiting = "hdr"
          /\ isActive' = TRUE
          /\ UNCHANGED <<streaming, queued, results>>
    /\ waiting' = "no"
    /\ valid' = {}
    /\ UNCHANGED <<busy, thread, buffer>>

(* process_image: the first worker that neither runs nor is busy.  isBusy  *)
(* tests the flag and sets it at once.                                     *)
FreeIfNotRunning(w) == thread[w] = "idle"

Free(w) == thread[w] = "idle" /\ w \notin busy

(* Qt delivers the signals that were posted before it looks at the socket  *)
(* of a stream that was opened after them.                                 *)
NoOldResults == \A i \in DOMAIN results : ~results[i].old

ReadFrame ==
    /\ waiting = "no"
    /\ streaming
    /\ NoOldResults
    /\ \E b \in queued, w \in Workers :
         /\ Free(w)
         /\ \A v \in Workers : Free(v) => w <= v
         /\ queued' = queued \ {b}
         /\ busy' = busy \cup {w}
         /\ thread' = [thread EXCEPT ![w] = "started"]
         /\ buffer' = [buffer EXCEPT ![w] = b]
         /\ valid' = valid \cup {w}
    /\ UNCHANGED <<isActive, streaming, waiting, results>>

(* newWorkerFrameHandler, newWorkerFrameErrorHandler: VIDIOC_QBUF fails    *)
(* without a stream and for a buffer the driver already has.               *)
HandleResultKeepsBuffer ==
    /\ waiting = "no"
    /\ results # <<>>
    /\ \E failed \in BOOLEAN :
         LET w == Head(results).worker
         IN  /\ queued' = IF isActive /\ streaming /\ ~failed
                          THEN queued \cup {buffer[w]} ELSE queued
             /\ busy' = busy \ {w}
    /\ results' = Tail(results)
    /\ UNCHANGED <<isActive, streaming, waiting, thread, buffer, valid>>

HandleResultBusyWhenInactive ==
    /\ waiting = "no"
    /\ results # <<>>
    /\ LET w == Head(results).worker
       IN  IF isActive /\ streaming
           THEN queued' = queued \cup {buffer[w]} /\ busy' = busy \ {w}
           ELSE UNCHANGED <<queued, busy>>
    /\ results' = Tail(results)
    /\ UNCHANGED <<isActive, streaming, waiting, thread, buffer, valid>>

HandleResult ==
    /\ waiting = "no"
    /\ results # <<>>
    /\ LET w == Head(results).worker
       IN  /\ queued' = IF isActive /\ streaming THEN queued \cup {buffer[w]}
                                                 ELSE queued
           /\ busy' = busy \ {w}
    /\ results' = Tail(results)
    /\ UNCHANGED <<isActive, streaming, waiting, thread, buffer, valid>>

-----------------------------------------------------------------------------
(***************************************************************************)
(* The thread of a worker                                                  *)
(***************************************************************************)

(* runMe: without _isActive the thread ends and nobody hears of it.        *)
Run(w) ==
    /\ thread[w] = "started"
    /\ thread' = [thread EXCEPT ![w] = IF isActive THEN "reading" ELSE "idle"]
    /\ UNCHANGED <<isActive, streaming, waiting, queued, busy, buffer, results, valid>>

EmitNewFrameCountsFromZero(w) ==
    /\ thread[w] = "reading"
    /\ thread' = [thread EXCEPT ![w] = "finishing"]
    /\ results' = Append(results, [worker |-> w - 1, old |-> FALSE])
    /\ UNCHANGED <<isActive, streaming, waiting, queued, busy, buffer, valid>>

EmitNewFrame(w) ==
    /\ thread[w] = "reading"
    /\ thread' = [thread EXCEPT ![w] = "finishing"]
    /\ results' = Append(results, [worker |-> w, old |-> FALSE])
    /\ UNCHANGED <<isActive, streaming, waiting, queued, busy, buffer, valid>>

Finish(w) ==
    /\ thread[w] = "finishing"
    /\ thread' = [thread EXCEPT ![w] = "idle"]
    /\ UNCHANGED <<isActive, streaming, waiting, queued, busy, buffer, results, valid>>

-----------------------------------------------------------------------------
Next ==
    \/ Start
    \/ Stop
    \/ SetHdrToneMappingEnabled
    \/ Stopped
    \/ ReadFrame
    \/ HandleResult
    \/ \E w \in Workers : Run(w) \/ EmitNewFrame(w) \/ Finish(w)

Spec == Init /\ [][Next]_vars

(* Threads run, a wait for threads that have ended returns, and a posted   *)
(* signal is delivered although stops and mode changes keep coming: the    *)
(* event queue is in order.  Nobody has to start, stop or film anything.   *)
Fairness ==
    /\ WF_vars(Stopped)
    /\ SF_vars(HandleResult)
    /\ \A w \in Workers : WF_vars(Run(w) \/ EmitNewFrame(w) \/ Finish(w))

FairSpec == Spec /\ Fairness

-----------------------------------------------------------------------------
(***************************************************************************)
(* Properties                                                              *)
(***************************************************************************)
Reads(w) == thread[w] \in {"started", "reading"}

(* A buffer that was given to a worker belongs to that worker until it has *)
(* read it: the driver does not write to it and nobody else has it.        *)
BuffersAreNotShared ==
    \A w \in Workers : Reads(w) =>
        /\ buffer[w] \notin queued
        /\ \A v \in Workers \ {w} : Reads(v) => buffer[v] # buffer[w]

(* A worker reads the frame and the LUT it was set up with: neither is     *)
(* unmapped or replaced while it reads.                                    *)
ReadsWhatItWasGiven == \A w \in Workers : thread[w] = "reading" => w \in valid

(* The capture loses no buffer: the driver has it or a busy worker.        *)
NoBufferIsLost ==
    streaming => \A b \in Buffers :
        b \in queued \/ \E w \in busy : buffer[w] = b

(* A frame that a worker began to read is handled, and the worker is free  *)
(* again, however often the capture is restarted in between.               *)
FramesAreHandled == \A w \in Workers : thread[w] = "reading" ~> w \notin busy

=============================================================================
