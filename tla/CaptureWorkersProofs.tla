------------------------ MODULE CaptureWorkersProofs ------------------------
(***************************************************************************)
(* Proofs about the capture for any number of workers and any buffers.     *)
(***************************************************************************)
EXTENDS CaptureWorkers, SequenceTheorems, TLAPS

-----------------------------------------------------------------------------
(***************************************************************************)
(* The inductive invariant                                                 *)
(***************************************************************************)
IsPending(w) == \E i \in DOMAIN results : results[i].worker = w

(* A signal belongs to a busy worker, and a worker sends one at a time.    *)
ResultsOK ==
    /\ \A i \in DOMAIN results : results[i].worker \in busy
    /\ \A i, j \in DOMAIN results : results[i].worker = results[j].worker => i = j

(* A worker that reads is busy, has not answered, and has its frame.       *)
ReadersOK ==
    \A w \in Workers : Reads(w) =>
        /\ w \in busy /\ ~IsPending(w)
        /\ w \in valid
        /\ streaming

(* The workers that carry a buffer of the present stream.                  *)
Carries(w) ==
    \/ Reads(w)
    \/ \E i \in DOMAIN results : results[i].worker = w /\ ~results[i].old

CarriersOK ==
    \A w \in Workers : Carries(w) =>
        /\ buffer[w] \notin queued
        /\ \A v \in Workers \ {w} : Carries(v) => buffer[v] # buffer[w]

(* While a signal of an old stream waits, nothing of the present one has   *)
(* been handed out.                                                        *)
OldResultsOK ==
    (\E i \in DOMAIN results : results[i].old) =>
        /\ \A w \in Workers : ~Carries(w)
        /\ streaming => queued = Buffers

StreamOK ==
    /\ streaming /\ waiting = "no" => isActive
    /\ waiting \in {"stop", "restart"} => streaming
    /\ ~streaming => queued = {}

IInv ==
    /\ TypeOK
    /\ ResultsOK
    /\ ReadersOK
    /\ CarriersOK
    /\ OldResultsOK
    /\ StreamOK
    /\ NoBufferIsLost

-----------------------------------------------------------------------------
(***************************************************************************)
(* The queue of signals                                                    *)
(***************************************************************************)

(* Marking signals as old keeps their senders.                             *)
LEMMA MarkedOld ==
    ASSUME NEW s \in Seq(Results)
    PROVE  LET t == [i \in DOMAIN s |-> [s[i] EXCEPT !.old = TRUE]]
           IN  /\ t \in Seq(Results)
               /\ DOMAIN t = DOMAIN s
               /\ \A i \in DOMAIN s : t[i].worker = s[i].worker /\ t[i].old
<1> DEFINE t == [i \in DOMAIN s |-> [s[i] EXCEPT !.old = TRUE]]
<1>1. DOMAIN s = 1 .. Len(s) /\ Len(s) \in Nat
  BY LenProperties
<1>2. \A i \in DOMAIN s :
        /\ [s[i] EXCEPT !.old = TRUE] \in Results
        /\ [s[i] EXCEPT !.old = TRUE].worker = s[i].worker
        /\ [s[i] EXCEPT !.old = TRUE].old
  <2>1. \A i \in DOMAIN s : s[i] \in Results
    BY <1>1, ElementOfSeq
  <2>2. QED
    BY <2>1 DEF Results
<1>3. t \in [1 .. Len(s) -> Results]
  BY <1>1, <1>2
<1>4. t \in Seq(Results)
  BY <1>1, <1>3, SeqDef
<1>5. QED
  BY <1>1, <1>2, <1>4

(* What is left when the first signal was handled.                         *)
LEMMA HandledFirst ==
    ASSUME NEW s \in Seq(Results), s # <<>>
    PROVE  /\ Tail(s) \in Seq(Results)
           /\ 1 \in DOMAIN s /\ Head(s) = s[1] /\ Head(s) \in Results
           /\ \A i \in DOMAIN Tail(s) : i + 1 \in DOMAIN s /\ Tail(s)[i] = s[i + 1]
           /\ \A i \in DOMAIN s : i # 1 => i - 1 \in DOMAIN Tail(s) /\ Tail(s)[i - 1] = s[i]
           /\ \A i \in DOMAIN s : i \in Nat
<1>1. /\ DOMAIN s = 1 .. Len(s) /\ Len(s) \in Nat
      /\ Tail(s) \in Seq(Results) /\ Head(s) \in Results
      /\ Len(Tail(s)) = Len(s) - 1
      /\ \A i \in 1 .. Len(Tail(s)) : Tail(s)[i] = s[i + 1]
  BY LenProperties, HeadTailProperties
<1>2. Len(s) # 0
  BY <1>1, EmptySeq
<1>3. DOMAIN Tail(s) = 1 .. Len(Tail(s))
  BY <1>1, LenProperties
<1>4. QED
  BY <1>1, <1>2, <1>3

LEMMA Sent ==
    ASSUME NEW s \in Seq(Results), NEW r \in Results
    PROVE  LET t == Append(s, r)
           IN  /\ t \in Seq(Results)
               /\ \E n \in DOMAIN t :
                    /\ n \notin DOMAIN s
                    /\ DOMAIN t = DOMAIN s \cup {n}
                    /\ t[n] = r
                    /\ \A i \in DOMAIN s : t[i] = s[i]
<1> DEFINE t == Append(s, r)
<1>1. t \in Seq(Results) /\ Len(t) = Len(s) + 1 /\ Len(s) \in Nat
  OBVIOUS
<1>2. DOMAIN s = 1 .. Len(s) /\ DOMAIN t = 1 .. Len(t)
  BY <1>1, LenProperties
<1>3. t[Len(s) + 1] = r /\ \A i \in 1 .. Len(s) : t[i] = s[i]
  OBVIOUS
<1>4. Len(s) + 1 \notin DOMAIN s /\ DOMAIN t = DOMAIN s \cup {Len(s) + 1}
  BY <1>1, <1>2
<1>5. QED
  BY <1>1, <1>2, <1>3, <1>4

-----------------------------------------------------------------------------
(***************************************************************************)
(* The steps                                                               *)
(***************************************************************************)

(* A start from a moment in which nobody reads.                            *)
LEMMA StartedOK ==
    ASSUME TypeOK, ResultsOK, \A w \in Workers : ~Reads(w),
           Started, UNCHANGED <<busy, thread, buffer>>,
           waiting' = "no", valid' \subseteq Workers
    PROVE  IInv'
<1>1. /\ results' \in Seq(Results)
      /\ DOMAIN results' = DOMAIN results
      /\ \A i \in DOMAIN results :
           results'[i].worker = results[i].worker /\ results'[i].old
  BY MarkedOld DEF TypeOK, Started
<1>2. TypeOK'
  BY <1>1 DEF TypeOK, Started
<1>3. ResultsOK'
  BY <1>1 DEF ResultsOK
<1>4. \A w \in Workers : ~Carries(w)' /\ ~Reads(w)'
  BY <1>1 DEF Carries, Reads
<1>5. ReadersOK' /\ CarriersOK'
  BY <1>4 DEF ReadersOK, CarriersOK
<1>6. OldResultsOK' /\ StreamOK' /\ NoBufferIsLost'
  BY <1>4 DEF OldResultsOK, StreamOK, NoBufferIsLost, Started
<1>7. QED
  BY <1>2, <1>3, <1>5, <1>6 DEF IInv

LEMMA StartOK ==
    ASSUME IInv, Start PROVE IInv'
<1>1. \A w \in Workers : ~Reads(w)
  BY DEF IInv, ReadersOK, Start
<1>2. waiting' = "no" /\ valid' \subseteq Workers
  BY DEF IInv, TypeOK, Start
<1>3. QED
  BY <1>1, <1>2, StartedOK DEF IInv, Start

LEMMA StopWorkersOK ==
    ASSUME IInv, NEW reason \in {"stop", "restart", "hdr"}, StopWorkers(reason),
           reason # "hdr" => streaming
    PROVE  IInv'
<1>1. TypeOK' /\ StreamOK'
  BY DEF IInv, TypeOK, StreamOK, StopWorkers
<1>2. ResultsOK' /\ ReadersOK' /\ CarriersOK' /\ OldResultsOK' /\ NoBufferIsLost'
  BY DEF IInv, ResultsOK, ReadersOK, CarriersOK, OldResultsOK, NoBufferIsLost,
         IsPending, Carries, Reads, StopWorkers
<1>3. QED
  BY <1>1, <1>2 DEF IInv

LEMMA StoppedOK ==
    ASSUME IInv, Stopped PROVE IInv'
<1>1. \A w \in Workers : ~Reads(w)
  BY DEF Stopped, WorkersHaveStopped, Reads
<1>2. waiting \in {"stop", "restart", "hdr"}
  BY DEF Stopped
<1>3. CASE waiting = "restart"
  BY <1>1, <1>3, StartedOK DEF IInv, Stopped
<1>4. CASE waiting \in {"stop", "hdr"}
  <2>1. /\ waiting' = "no" /\ valid' = {}
        /\ UNCHANGED <<busy, thread, buffer, results>>
        /\ waiting = "stop" =>
             streaming' = FALSE /\ queued' = {} /\ isActive' = isActive
        /\ waiting = "hdr" =>
             isActive' = TRUE /\ UNCHANGED <<streaming, queued>>
    BY <1>4 DEF Stopped
  <2>2. TypeOK'
    BY <1>4, <2>1 DEF IInv, TypeOK
  <2>3. StreamOK'
    <3>1. CASE waiting = "stop"
      BY <2>1, <3>1 DEF StreamOK
    <3>2. CASE waiting = "hdr"
      BY <2>1, <3>2 DEF IInv, StreamOK
    <3>3. QED
      BY <1>4, <3>1, <3>2
  <2>4. ResultsOK' /\ ReadersOK'
    BY <1>1, <2>1 DEF IInv, ResultsOK, ReadersOK, Reads
  <2>5. CarriersOK' /\ OldResultsOK' /\ NoBufferIsLost'
    BY <1>4, <2>1 DEF IInv, CarriersOK, OldResultsOK, NoBufferIsLost, Carries, Reads
  <2>6. QED
    BY <2>2, <2>3, <2>4, <2>5 DEF IInv
<1>5. QED
  BY <1>2, <1>3, <1>4

LEMMA ReadFrameOK ==
    ASSUME IInv, ReadFrame PROVE IInv'
<1>1. PICK b \in queued, w \in Workers :
        /\ Free(w)
        /\ queued' = queued \ {b}
        /\ busy' = busy \cup {w}
        /\ thread' = [thread EXCEPT ![w] = "started"]
        /\ buffer' = [buffer EXCEPT ![w] = b]
        /\ valid' = valid \cup {w}
  BY DEF ReadFrame
<1>2. UNCHANGED <<isActive, streaming, waiting, results>> /\ streaming /\ NoOldResults
  BY DEF ReadFrame
<1>3. w \notin busy /\ ~Reads(w) /\ ~IsPending(w)
  BY <1>1 DEF IInv, ResultsOK, Free, Reads, IsPending
<1>4. b \in Buffers /\ thread \in [Workers -> {"idle", "started", "reading", "finishing"}]
      /\ buffer \in [Workers -> Buffers]
  BY DEF IInv, TypeOK
<1>5. /\ buffer'[w] = b /\ Reads(w)'
      /\ \A v \in Workers \ {w} : /\ buffer'[v] = buffer[v]
                                  /\ Reads(v)' <=> Reads(v)
                                  /\ Carries(v)' <=> Carries(v)
      /\ \A v \in Workers : IsPending(v)' <=> IsPending(v)
  BY <1>1, <1>2, <1>4 DEF Reads, Carries, IsPending
<1>6. TypeOK' /\ StreamOK'
  BY <1>1, <1>2, <1>4 DEF IInv, TypeOK, StreamOK
<1>7. ResultsOK'
  BY <1>1, <1>2 DEF IInv, ResultsOK
<1>8. ReadersOK'
  BY <1>1, <1>2, <1>3, <1>5 DEF IInv, ReadersOK
<1>9. CarriersOK'
  BY <1>1, <1>5 DEF IInv, CarriersOK
<1>10. OldResultsOK'
  BY <1>2 DEF OldResultsOK, NoOldResults
<1>11. NoBufferIsLost'
  BY <1>1, <1>2, <1>3, <1>5 DEF IInv, NoBufferIsLost
<1>12. QED
  BY <1>6, <1>7, <1>8, <1>9, <1>10, <1>11 DEF IInv

LEMMA HandleResultOK ==
    ASSUME IInv, HandleResult PROVE IInv'
<1> DEFINE w == Head(results).worker
<1>1. /\ results \in Seq(Results) /\ results # <<>>
      /\ results' = Tail(results)
      /\ busy' = busy \ {w}
      /\ queued' = IF isActive /\ streaming THEN queued \cup {buffer[w]} ELSE queued
      /\ waiting = "no"
      /\ UNCHANGED <<isActive, streaming, waiting, thread, buffer, valid>>
  BY DEF IInv, TypeOK, HandleResult
<1>2. /\ results' \in Seq(Results)
      /\ 1 \in DOMAIN results /\ Head(results) = results[1] /\ Head(results) \in Results
      /\ \A i \in DOMAIN results' : i + 1 \in DOMAIN results /\ results'[i] = results[i + 1]
      /\ \A i \in DOMAIN results : i # 1 =>
           i - 1 \in DOMAIN results' /\ results'[i - 1] = results[i]
      /\ \A i \in DOMAIN results : i \in Nat
  BY <1>1, HandledFirst
<1>3. w \in Workers /\ w \in busy /\ IsPending(w)
  BY <1>2 DEF IInv, ResultsOK, Results, IsPending
<1>4. buffer[w] \in Buffers
  BY <1>3 DEF IInv, TypeOK
<1> HIDE DEF w
<1>5. \A i \in DOMAIN results' : /\ i \in Int
                                 /\ results'[i].worker # w
                                 /\ results'[i].worker \in busy
  <2> SUFFICES ASSUME NEW i \in DOMAIN results'
               PROVE  i \in Int /\ results'[i].worker # w /\ results'[i].worker \in busy
    OBVIOUS
  <2>1. DOMAIN results' = 1 .. Len(results')
    BY <1>2, LenProperties
  <2>2. i + 1 # 1 /\ i \in Int
    BY <2>1
  <2>3. QED
    BY <1>2, <2>2 DEF IInv, ResultsOK, w
<1>6. TypeOK' /\ StreamOK'
  BY <1>1, <1>2, <1>4 DEF IInv, TypeOK, StreamOK
<1>7. ResultsOK'
  <2>1. \A i, j \in DOMAIN results' : results'[i].worker = results'[j].worker => i = j
    BY <1>2, <1>5 DEF IInv, ResultsOK
  <2>2. QED
    BY <1>1, <1>5, <2>1 DEF ResultsOK
<1>8. \A v \in Workers : /\ IsPending(v)' => IsPending(v)
                         /\ Reads(v)' <=> Reads(v)
                         /\ Carries(v)' => Carries(v) /\ v # w
  <2>1. \A v \in Workers : Reads(v)' <=> Reads(v)
    BY <1>1 DEF Reads
  <2>2. \A v \in Workers : IsPending(v)' => IsPending(v)
    BY <1>2 DEF IsPending
  <2>3. ~Reads(w)
    BY <1>3 DEF IInv, ReadersOK
  <2>4. \A v \in Workers : Carries(v)' => Carries(v) /\ v # w
    BY <1>2, <1>5, <2>1, <2>3 DEF Carries
  <2>5. QED
    BY <2>1, <2>2, <2>4
<1>9. ReadersOK'
  BY <1>1, <1>3, <1>8 DEF IInv, ReadersOK
<1>10. ASSUME NEW v \in Workers, Carries(v)'
       PROVE  v # w /\ buffer[v] # buffer[w] /\ buffer[v] \notin queued
  <2>1. v # w /\ Carries(v)
    BY <1>8, <1>10
  <2>2. ~results[1].old
    BY <1>2, <2>1 DEF IInv, OldResultsOK
  <2>3. Carries(w)
    BY <1>2, <2>2 DEF Carries, w
  <2>4. QED
    BY <1>3, <2>1, <2>3 DEF IInv, CarriersOK
<1>11. CarriersOK'
  BY <1>1, <1>8, <1>10 DEF IInv, CarriersOK
<1>12. OldResultsOK'
  <2> SUFFICES ASSUME \E i \in DOMAIN results' : results'[i].old
               PROVE  (\A v \in Workers : ~Carries(v)') /\ (streaming' => queued' = Buffers)
    BY DEF OldResultsOK
  <2>1. \E i \in DOMAIN results : results[i].old
    BY <1>2
  <2>2. (\A v \in Workers : ~Carries(v)) /\ (streaming => queued = Buffers)
    BY <2>1 DEF IInv, OldResultsOK
  <2>3. QED
    BY <1>1, <1>4, <1>8, <2>2
<1>13. NoBufferIsLost'
  BY <1>1, <1>3 DEF IInv, NoBufferIsLost, StreamOK
<1>14. QED
  BY <1>6, <1>7, <1>9, <1>11, <1>12, <1>13 DEF IInv

LEMMA RunOK ==
    ASSUME IInv, NEW w \in Workers, Run(w) PROVE IInv'
<1>1. /\ Reads(w)
      /\ thread' = [thread EXCEPT ![w] = IF isActive THEN "reading" ELSE "idle"]
      /\ UNCHANGED <<isActive, streaming, waiting, queued, busy, buffer, results, valid>>
  BY DEF Run, Reads
<1>2. thread \in [Workers -> {"idle", "started", "reading", "finishing"}]
  BY DEF IInv, TypeOK
<1>3. \A v \in Workers : /\ Reads(v)' => Reads(v)
                         /\ Carries(v)' => Carries(v)
                         /\ IsPending(v)' <=> IsPending(v)
  BY <1>1, <1>2 DEF Reads, Carries, IsPending
<1>4. TypeOK' /\ StreamOK'
  BY <1>1, <1>2 DEF IInv, TypeOK, StreamOK
<1>5. ResultsOK' /\ ReadersOK'
  BY <1>1, <1>3 DEF IInv, ResultsOK, ReadersOK
<1>6. CarriersOK' /\ OldResultsOK' /\ NoBufferIsLost'
  BY <1>1, <1>3 DEF IInv, CarriersOK, OldResultsOK, NoBufferIsLost
<1>7. QED
  BY <1>4, <1>5, <1>6 DEF IInv

LEMMA EmitNewFrameOK ==
    ASSUME IInv, NEW w \in Workers, EmitNewFrame(w) PROVE IInv'
<1> DEFINE r == [worker |-> w, old |-> FALSE]
<1>1. /\ thread' = [thread EXCEPT ![w] = "finishing"]
      /\ results' = Append(results, r)
      /\ thread[w] = "reading" /\ Reads(w)
      /\ UNCHANGED <<isActive, streaming, waiting, queued, busy, buffer, valid>>
  BY DEF EmitNewFrame, Reads
<1>2. r \in Results /\ r.worker = w /\ ~r.old
  BY DEF Results
<1> HIDE DEF r
<1>3. results' \in Seq(Results)
  BY <1>1, <1>2, Sent DEF IInv, TypeOK
<1>4. PICK n \in DOMAIN results' :
        /\ n \notin DOMAIN results
        /\ DOMAIN results' = DOMAIN results \cup {n}
        /\ results'[n] = r
        /\ \A i \in DOMAIN results : results'[i] = results[i]
  BY <1>1, <1>2, Sent DEF IInv, TypeOK
<1>5. thread \in [Workers -> {"idle", "started", "reading", "finishing"}]
  BY DEF IInv, TypeOK
<1>6. /\ ~Reads(w)'
      /\ \A v \in Workers \ {w} : Reads(v)' <=> Reads(v)
  BY <1>1, <1>5 DEF Reads
<1>7. \A v \in Workers \ {w} : IsPending(v)' <=> IsPending(v)
  BY <1>2, <1>4 DEF IsPending
<1>8. \A v \in Workers : Carries(v)' <=> Carries(v)
  <2>1. Carries(w)' /\ Carries(w)
    BY <1>1, <1>2, <1>4 DEF Carries
  <2>2. \A v \in Workers \ {w} : Carries(v)' <=> Carries(v)
    BY <1>2, <1>4, <1>6 DEF Carries
  <2>3. QED
    BY <2>1, <2>2
<1>9. w \in busy /\ ~IsPending(w) /\ streaming
  BY <1>1 DEF IInv, ReadersOK
<1>10. TypeOK' /\ StreamOK'
  BY <1>1, <1>3, <1>5 DEF IInv, TypeOK, StreamOK
<1>11. ResultsOK'
  BY <1>1, <1>2, <1>4, <1>9 DEF IInv, ResultsOK, IsPending
<1>12. ReadersOK'
  BY <1>1, <1>6, <1>7 DEF IInv, ReadersOK
<1>13. CarriersOK' /\ NoBufferIsLost'
  BY <1>1, <1>8 DEF IInv, CarriersOK, NoBufferIsLost
<1>14. OldResultsOK'
  <2>1. Carries(w)
    BY <1>1 DEF Carries
  <2>2. \A i \in DOMAIN results : ~results[i].old
    BY <2>1 DEF IInv, OldResultsOK
  <2>3. QED
    BY <1>2, <1>4, <2>2 DEF OldResultsOK
<1>15. QED
  BY <1>10, <1>11, <1>12, <1>13, <1>14 DEF IInv

LEMMA FinishOK ==
    ASSUME IInv, NEW w \in Workers, Finish(w) PROVE IInv'
<1>1. /\ thread[w] = "finishing"
      /\ thread' = [thread EXCEPT ![w] = "idle"]
      /\ UNCHANGED <<isActive, streaming, waiting, queued, busy, buffer, results, valid>>
  BY DEF Finish
<1>2. thread \in [Workers -> {"idle", "started", "reading", "finishing"}]
  BY DEF IInv, TypeOK
<1>3. \A v \in Workers : /\ Reads(v)' <=> Reads(v)
                         /\ Carries(v)' <=> Carries(v)
                         /\ IsPending(v)' <=> IsPending(v)
  BY <1>1, <1>2 DEF Reads, Carries, IsPending
<1>4. TypeOK' /\ StreamOK'
  BY <1>1, <1>2 DEF IInv, TypeOK, StreamOK
<1>5. ResultsOK' /\ ReadersOK'
  BY <1>1, <1>3 DEF IInv, ResultsOK, ReadersOK
<1>6. CarriersOK' /\ OldResultsOK' /\ NoBufferIsLost'
  BY <1>1, <1>3 DEF IInv, CarriersOK, OldResultsOK, NoBufferIsLost
<1>7. QED
  BY <1>4, <1>5, <1>6 DEF IInv

-----------------------------------------------------------------------------
(***************************************************************************)
(* The theorems                                                            *)
(***************************************************************************)

(* Nothing is handed out before the first start.                           *)
LEMMA InitOK == Init => IInv
<1> SUFFICES ASSUME Init PROVE IInv
  OBVIOUS
<1>1. results = <<>> /\ DOMAIN results = {} /\ results \in Seq(Results)
  BY EmptySeq DEF Init
<1>2. \A w \in Workers : ~Reads(w) /\ ~Carries(w)
  BY <1>1 DEF Init, Reads, Carries
<1>3. TypeOK
  BY <1>1 DEF Init, TypeOK
<1>4. ResultsOK /\ OldResultsOK
  BY <1>1 DEF ResultsOK, OldResultsOK
<1>5. ReadersOK /\ CarriersOK
  BY <1>2 DEF ReadersOK, CarriersOK
<1>6. StreamOK /\ NoBufferIsLost
  BY DEF Init, StreamOK, NoBufferIsLost
<1>7. QED
  BY <1>3, <1>4, <1>5, <1>6 DEF IInv

LEMMA NextOK == IInv /\ [Next]_vars => IInv'
<1> SUFFICES ASSUME IInv, [Next]_vars PROVE IInv'
  OBVIOUS
<1>1. CASE Start
  BY <1>1, StartOK
<1>2. CASE Stop
  BY <1>2, StopWorkersOK DEF Stop
<1>3. CASE SetHdrToneMappingEnabled
  BY <1>3, StopWorkersOK DEF SetHdrToneMappingEnabled
<1>4. CASE Stopped
  BY <1>4, StoppedOK
<1>5. CASE ReadFrame
  BY <1>5, ReadFrameOK
<1>6. CASE HandleResult
  BY <1>6, HandleResultOK
<1>7. CASE \E w \in Workers : Run(w) \/ EmitNewFrame(w) \/ Finish(w)
  BY <1>7, RunOK, EmitNewFrameOK, FinishOK
<1>8. CASE UNCHANGED vars
  BY <1>8 DEF vars, IInv, TypeOK, ResultsOK, ReadersOK, CarriersOK, OldResultsOK,
              StreamOK, NoBufferIsLost, IsPending, Carries, Reads
<1>9. QED
  BY <1>1, <1>2, <1>3, <1>4, <1>5, <1>6, <1>7, <1>8 DEF Next

(* The inductive invariant: signals, readers, buffers and the stream fit.  *)
THEOREM Invariance == Spec => []IInv
  BY InitOK, NextOK, PTL DEF Spec

(* Every flag, buffer and signal belongs to a worker.                      *)
THEOREM TypeCorrect == Spec => []TypeOK
<1>1. IInv => TypeOK
  BY DEF IInv
<1>2. QED
  BY <1>1, Invariance, PTL

(* The driver and the workers never share a buffer, and no two workers do, *)
(* also when signals of an old stream are handled after a restart.         *)
THEOREM NothingIsShared == Spec => []BuffersAreNotShared
<1>1. IInv => BuffersAreNotShared
  BY DEF IInv, CarriersOK, Carries, BuffersAreNotShared
<1>2. QED
  BY <1>1, Invariance, PTL

(* No frame is unmapped and no LUT replaced under a worker that reads it.  *)
THEOREM NothingIsReplaced == Spec => []ReadsWhatItWasGiven
<1>1. IInv => ReadsWhatItWasGiven
  BY DEF IInv, ReadersOK, Reads, ReadsWhatItWasGiven
<1>2. QED
  BY <1>1, Invariance, PTL

(* Every buffer of a stream is with the driver or with a busy worker.      *)
THEOREM NothingIsLost == Spec => []NoBufferIsLost
<1>1. IInv => NoBufferIsLost
  BY DEF IInv
<1>2. QED
  BY <1>1, Invariance, PTL

=============================================================================
