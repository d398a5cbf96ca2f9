------------------------ MODULE CaptureClientsProofs ------------------------
(***************************************************************************)
(* Proofs about the clients of the capture for any objects, any finite set *)
(* of indices and any length of the queues.  The theorem about the LEDs    *)
(* assumes that the user keeps "Pause when LEDs are off" switched on: the  *)
(* list of dark instances is not kept up otherwise.                        *)
(***************************************************************************)
EXTENDS CaptureHistory, SequenceTheorems, FiniteSetTheorems, TLAPS

Pausing == PausingModes = {TRUE}

-----------------------------------------------------------------------------
(***************************************************************************)
(* The inductive invariant                                                 *)
(***************************************************************************)
IsLast(q, k) == \A m \in DOMAIN q : m > k => q[m].instance # q[k].instance

NoneOf(q, x) == \A k \in DOMAIN q : q[k].instance # x

(* An index that is not shared belongs to one object.                      *)
SharedOK ==
    /\ shared \subseteq Indices
    /\ \A x \in Indices \ shared : \A i, j \in Instances :
         index[i] = x /\ index[j] = x => i = j

(* The last request under way with an index asks for images only if they   *)
(* are wanted, and without a request under way the index is a client only  *)
(* then; the other way round it holds of an index that is not shared.      *)
RequestsAre(q, clients, wanted, mixed) ==
    /\ \A k \in DOMAIN q : IsLast(q, k) =>
         /\ q[k].listen => q[k].instance \in wanted
         /\ q[k].instance \in wanted => q[k].listen \/ q[k].instance \in mixed
    /\ \A x \in Indices : NoneOf(q, x) =>
         /\ x \in clients => x \in wanted
         /\ x \in wanted => x \in clients \cup mixed

WantedIndices == {x \in Indices : Wanted(x)}

RequestsOK == RequestsAre(requests, runningClients, WantedIndices, shared)

(* The last news under way of a lit index says so, and an index that is    *)
(* lit and still listed as dark has news under way.                        *)
PausesAre(q, lights) ==
    \A k \in DOMAIN q : IsLast(q, k) /\ q[k].instance \in lights => q[k].enabled

DarkAre(q, lights, dark) ==
    Pausing => \A x \in lights \cap dark : \E k \in DOMAIN q : q[k].instance = x

LitIndices == {x \in Indices \ shared : Lit(x)}

PausesOK == PausesAre(pauses, LitIndices)
DarkOK == DarkAre(pauses, LitIndices, pausedClients)

IInv ==
    /\ TypeOK
    /\ SharedOK
    /\ RequestsOK
    /\ RestIsExplained
    /\ PausesOK
    /\ DarkOK

-----------------------------------------------------------------------------
(***************************************************************************)
(* Queues                                                                  *)
(***************************************************************************)

(* What is left when the first message was handled.                        *)
LEMMA HandledFirst ==
    ASSUME NEW S, NEW q \in Seq(S), q # <<>>
    PROVE  /\ Tail(q) \in Seq(S)
           /\ 1 \in DOMAIN q /\ Head(q) = q[1] /\ Head(q) \in S
           /\ \A k \in DOMAIN Tail(q) :
                k \in Nat /\ k + 1 \in DOMAIN q /\ Tail(q)[k] = q[k + 1]
           /\ \A k \in DOMAIN q :
                k \in Nat /\ (k # 1 => k > 1 /\ k - 1 \in DOMAIN Tail(q)
                                             /\ Tail(q)[k - 1] = q[k])
<1>1. /\ DOMAIN q = 1 .. Len(q) /\ Len(q) \in Nat
      /\ Tail(q) \in Seq(S) /\ Head(q) \in S /\ Head(q) = q[1]
      /\ Len(Tail(q)) = Len(q) - 1
      /\ \A k \in 1 .. Len(Tail(q)) : Tail(q)[k] = q[k + 1]
  BY LenProperties, HeadTailProperties
<1>2. Len(q) # 0
  BY <1>1, EmptySeq
<1>3. DOMAIN Tail(q) = 1 .. Len(Tail(q))
  BY <1>1, LenProperties
<1>4. QED
  BY <1>1, <1>2, <1>3

(* A message of the rest that is the last one of its instance was that     *)
(* before.                                                                 *)
LEMMA LastOfTail ==
    ASSUME NEW S, NEW q \in Seq(S), q # <<>>,
           NEW k \in DOMAIN Tail(q), IsLast(Tail(q), k)
    PROVE  k + 1 \in DOMAIN q /\ Tail(q)[k] = q[k + 1] /\ IsLast(q, k + 1)
<1>1. k \in Nat /\ k + 1 \in DOMAIN q /\ Tail(q)[k] = q[k + 1]
  BY HandledFirst
<1>2. ASSUME NEW m \in DOMAIN q, m > k + 1
      PROVE  q[m].instance # q[k + 1].instance
  <2>1. m \in Nat /\ m - 1 \in DOMAIN Tail(q) /\ Tail(q)[m - 1] = q[m] /\ m - 1 > k
    BY <1>1, <1>2, HandledFirst
  <2>2. QED
    BY <1>1, <2>1 DEF IsLast
<1>3. QED
  BY <1>1, <1>2 DEF IsLast

LEMMA Sent ==
    ASSUME NEW S, NEW q \in Seq(S), NEW e \in S
    PROVE  /\ Append(q, e) \in Seq(S)
           /\ DOMAIN Append(q, e) = DOMAIN q \cup {Len(q) + 1}
           /\ Append(q, e)[Len(q) + 1] = e
           /\ \A k \in DOMAIN q : k \in Nat /\ k < Len(q) + 1 /\ Append(q, e)[k] = q[k]
<1>1. /\ Append(q, e) \in Seq(S)
      /\ Len(Append(q, e)) = Len(q) + 1
      /\ Len(q) \in Nat
      /\ \A k \in 1 .. Len(q) : Append(q, e)[k] = q[k]
      /\ Append(q, e)[Len(q) + 1] = e
  BY AppendProperties, LenProperties
<1>2. DOMAIN q = 1 .. Len(q) /\ DOMAIN Append(q, e) = 1 .. Len(q) + 1
  BY <1>1, LenProperties
<1>3. QED
  BY <1>1, <1>2

(* Of the messages of another instance, the last one stays the last one.   *)
LEMMA LastOfSent ==
    ASSUME NEW S, NEW q \in Seq(S), NEW e \in S,
           NEW k \in DOMAIN Append(q, e), IsLast(Append(q, e), k)
    PROVE  \/ k \in DOMAIN q /\ IsLast(q, k) /\ Append(q, e)[k] = q[k]
              /\ q[k].instance # e.instance
           \/ Append(q, e)[k] = e
<1>1. CASE k = Len(q) + 1
  BY <1>1, Sent
<1>2. CASE k # Len(q) + 1
  <2>1. k \in DOMAIN q /\ Append(q, e)[k] = q[k] /\ Len(q) + 1 > k
        /\ Len(q) + 1 \in DOMAIN Append(q, e)
    BY <1>2, Sent
  <2>2. q[k].instance # e.instance
    BY <2>1, Sent DEF IsLast
  <2>3. ASSUME NEW m \in DOMAIN q, m > k
        PROVE  q[m].instance # q[k].instance
    BY <2>1, <2>3, Sent DEF IsLast
  <2>4. QED
    BY <2>1, <2>2, <2>3 DEF IsLast
<1>3. QED
  BY <1>1, <1>2

-----------------------------------------------------------------------------
(***************************************************************************)
(* Requests                                                                *)
(***************************************************************************)

(* An instance tells what it wants from now on.                            *)
LEMMA RequestSent ==
    ASSUME NEW q \in Seq(Requests), NEW clients,
           NEW wanted, NEW mixed, NEW wanted2, NEW mixed2,
           RequestsAre(q, clients, wanted, mixed),
           NEW x \in Indices, NEW e \in Requests, e.instance = x,
           e.listen => x \in wanted2,
           x \in wanted2 => e.listen \/ x \in mixed2,
           \A y \in Indices \ {x} : y \in wanted2 <=> y \in wanted,
           \A y \in Indices \ {x} : y \in mixed /\ y \in wanted => y \in mixed2
    PROVE  /\ Append(q, e) \in Seq(Requests)
           /\ RequestsAre(Append(q, e), clients, wanted2, mixed2)
<1> DEFINE p == Append(q, e)
<1>2. \A k \in DOMAIN q : q[k].instance \in Indices
  <2>1. \A k \in DOMAIN q : q[k] \in Requests
    BY ElementOfSeq, LenProperties
  <2>2. QED
    BY <2>1 DEF Requests
<1>3. ASSUME NEW k \in DOMAIN p, IsLast(p, k)
      PROVE  /\ p[k].listen => p[k].instance \in wanted2
             /\ p[k].instance \in wanted2 => p[k].listen \/ p[k].instance \in mixed2
  <2>1. CASE p[k] = e
    BY <2>1
  <2>2. CASE p[k] # e
    <3>1. k \in DOMAIN q /\ IsLast(q, k) /\ p[k] = q[k] /\ q[k].instance # x
      BY <1>3, <2>2, LastOfSent
    <3>2. QED
      BY <3>1, <1>2 DEF RequestsAre
  <2>3. QED
    BY <2>1, <2>2
<1>4. ASSUME NEW y \in Indices, NoneOf(p, y)
      PROVE  /\ y \in clients => y \in wanted2
             /\ y \in wanted2 => y \in clients \cup mixed2
  <2>1. y # x
    <3>1. Len(q) + 1 \in DOMAIN p /\ p[Len(q) + 1].instance = x
      BY Sent
    <3>2. QED
      BY <3>1, <1>4 DEF NoneOf
  <2>2. \A k \in DOMAIN q : k \in DOMAIN p /\ p[k] = q[k]
    BY Sent
  <2>3. NoneOf(q, y)
    BY <1>4, <2>2 DEF NoneOf
  <2>4. QED
    BY <2>1, <2>3 DEF RequestsAre
<1>5. p \in Seq(Requests)
  BY Sent
<1>6. QED
  BY <1>3, <1>4, <1>5 DEF RequestsAre

(* The capture learns of a request.                                        *)
LEMMA RequestHandled ==
    ASSUME TypeOK, RequestsOK, SignalRequestSource, shared' = shared
    PROVE  requests' \in Seq(Requests) /\ RequestsOK'
<1> DEFINE e == Head(requests)
<1>1. /\ requests \in Seq(Requests) /\ requests # <<>>
      /\ requests' = Tail(requests)
      /\ WantedIndices' = WantedIndices
  BY DEF TypeOK, SignalRequestSource, instanceVars, WantedIndices, Wanted, UsbCaptEnabled
<1>2. /\ requests' \in Seq(Requests)
      /\ e \in Requests
      /\ e = requests[1] /\ 1 \in DOMAIN requests
  BY <1>1, HandledFirst
<1>3. /\ e.listen => runningClients' = runningClients \cup {e.instance}
      /\ ~e.listen => runningClients' = runningClients \ {e.instance}
  BY DEF SignalRequestSource
<1> HIDE DEF e
<1>4. ASSUME NEW k \in DOMAIN requests', IsLast(requests', k)
      PROVE  /\ requests'[k].listen => requests'[k].instance \in WantedIndices
             /\ requests'[k].instance \in WantedIndices =>
                  requests'[k].listen \/ requests'[k].instance \in shared
  <2>1. k + 1 \in DOMAIN requests /\ requests'[k] = requests[k + 1]
        /\ IsLast(requests, k + 1)
    BY <1>1, <1>4, LastOfTail
  <2>2. QED
    BY <2>1 DEF RequestsOK, RequestsAre
<1>5. ASSUME NEW x \in Indices, NoneOf(requests', x)
      PROVE  /\ x \in runningClients' => x \in WantedIndices
             /\ x \in WantedIndices => x \in runningClients' \cup shared
  <2>1. \A k \in DOMAIN requests : k # 1 => requests[k].instance # x
    <3>1. \A k \in DOMAIN requests : k # 1 =>
            k - 1 \in DOMAIN requests' /\ requests'[k - 1] = requests[k]
      BY <1>1, HandledFirst
    <3>2. QED
      BY <3>1, <1>5 DEF NoneOf
  <2>2. CASE e.instance = x
    <3>1. IsLast(requests, 1)
      BY <1>1, <1>2, <2>1, <2>2, HandledFirst DEF IsLast
    <3>2. /\ e.listen => x \in WantedIndices
          /\ x \in WantedIndices => e.listen \/ x \in shared
      BY <1>2, <2>2, <3>1 DEF RequestsOK, RequestsAre
    <3>3. QED
      BY <1>3, <2>2, <3>2
  <2>3. CASE e.instance # x
    <3>1. NoneOf(requests, x)
      BY <1>2, <2>1, <2>3 DEF NoneOf
    <3>2. /\ x \in runningClients => x \in WantedIndices
          /\ x \in WantedIndices => x \in runningClients \cup shared
      BY <3>1 DEF RequestsOK, RequestsAre
    <3>3. QED
      BY <1>3, <2>3, <3>2
  <2>4. QED
    BY <2>2, <2>3
<1>6. RequestsAre(requests', runningClients', WantedIndices, shared)
  BY <1>4, <1>5 DEF RequestsAre
<1>7. QED
  BY <1>1, <1>2, <1>6 DEF RequestsOK

-----------------------------------------------------------------------------
(***************************************************************************)
(* News of the LEDs                                                        *)
(***************************************************************************)

(* An instance tells that its LEDs are on or off.                          *)
LEMMA PauseSent ==
    ASSUME NEW q \in Seq(Pauses), NEW lights, NEW dark, NEW lights2,
           PausesAre(q, lights), DarkAre(q, lights, dark),
           NEW e \in Pauses,
           lights2 \subseteq lights \cup {e.instance},
           e.instance \in lights2 => e.enabled
    PROVE  /\ Append(q, e) \in Seq(Pauses)
           /\ PausesAre(Append(q, e), lights2)
           /\ DarkAre(Append(q, e), lights2, dark)
<1> DEFINE p == Append(q, e)
<1>1. ASSUME NEW k \in DOMAIN p, IsLast(p, k), p[k].instance \in lights2
      PROVE  p[k].enabled
  <2>1. CASE p[k] = e
    BY <1>1, <2>1
  <2>2. CASE p[k] # e
    <3>1. k \in DOMAIN q /\ IsLast(q, k) /\ p[k] = q[k] /\ q[k].instance # e.instance
      BY <1>1, <2>2, LastOfSent
    <3>2. QED
      BY <1>1, <3>1 DEF PausesAre
  <2>3. QED
    BY <2>1, <2>2
<1>2. ASSUME Pausing, NEW x \in lights2 \cap dark
      PROVE  \E k \in DOMAIN p : p[k].instance = x
  <2>1. CASE x = e.instance
    BY <2>1, Sent
  <2>2. CASE x # e.instance
    BY <1>2, <2>2, Sent DEF DarkAre
  <2>3. QED
    BY <2>1, <2>2
<1>3. p \in Seq(Pauses)
  BY Sent
<1>4. QED
  BY <1>1, <1>2, <1>3 DEF PausesAre, DarkAre

(* The capture learns of it.                                               *)
LEMMA PauseHandled ==
    ASSUME TypeOK, PausesOK, DarkOK, SignalInstancePauseChanged, shared' = shared
    PROVE  pauses' \in Seq(Pauses) /\ PausesOK' /\ DarkOK'
<1> DEFINE e == Head(pauses)
<1>1. /\ pauses \in Seq(Pauses) /\ pauses # <<>>
      /\ pauses' = Tail(pauses)
      /\ LitIndices' = LitIndices
  BY DEF TypeOK, SignalInstancePauseChanged, instanceVars, LitIndices, Lit
<1>2. /\ pauses' \in Seq(Pauses)
      /\ e = pauses[1] /\ 1 \in DOMAIN pauses
  BY <1>1, HandledFirst
<1>3. Pausing => pausedClients' = IF e.enabled THEN pausedClients \ {e.instance}
                                              ELSE pausedClients \cup {e.instance}
  BY DEF SignalInstancePauseChanged, TypeOK, Pausing
<1> HIDE DEF e
<1>4. ASSUME NEW k \in DOMAIN pauses', IsLast(pauses', k), pauses'[k].instance \in LitIndices
      PROVE  pauses'[k].enabled
  <2>1. k + 1 \in DOMAIN pauses /\ pauses'[k] = pauses[k + 1] /\ IsLast(pauses, k + 1)
    BY <1>1, <1>4, LastOfTail
  <2>2. QED
    BY <1>4, <2>1 DEF PausesOK, PausesAre
<1>5. ASSUME Pausing, NEW x \in LitIndices \cap pausedClients'
      PROVE  \E k \in DOMAIN pauses' : pauses'[k].instance = x
  <2>1. SUFFICES ASSUME NoneOf(pauses', x)
                 PROVE  FALSE
    BY DEF NoneOf
  <2>2. \A k \in DOMAIN pauses : k # 1 => pauses[k].instance # x
    <3>1. \A k \in DOMAIN pauses : k # 1 =>
            k - 1 \in DOMAIN pauses' /\ pauses'[k - 1] = pauses[k]
      BY <1>1, HandledFirst
    <3>2. QED
      BY <3>1, <2>1 DEF NoneOf
  <2>3. e.instance = x
    BY <1>2, <1>3, <1>5, <2>2 DEF DarkOK, DarkAre
  <2>4. IsLast(pauses, 1)
    BY <1>1, <1>2, <2>2, <2>3, HandledFirst DEF IsLast
  <2>5. e.enabled
    BY <1>2, <1>5, <2>3, <2>4 DEF PausesOK, PausesAre
  <2>6. QED
    BY <1>3, <1>5, <2>3, <2>5
<1>6. PausesAre(pauses', LitIndices) /\ DarkAre(pauses', LitIndices, pausedClients')
  BY <1>4, <1>5 DEF PausesAre, DarkAre
<1>7. QED
  BY <1>1, <1>2, <1>6 DEF PausesOK, DarkOK

-----------------------------------------------------------------------------
(***************************************************************************)
(* The actions                                                             *)
(***************************************************************************)
LEMMA InitOK == HistoryInit => IInv
<1> SUFFICES ASSUME HistoryInit PROVE IInv
  OBVIOUS
<1>1. TypeOK
  <2>1. <<>> \in Seq(Requests) /\ <<>> \in Seq(Pauses)
    BY EmptySeq
  <2>2. QED
    BY <2>1, ModesAssumption DEF HistoryInit, Init, TypeOK, Signals, Up, UsbCaptEnabled
<1>2. DOMAIN requests = {} /\ DOMAIN pauses = {}
  BY LenProperties, EmptySeq DEF HistoryInit, Init
<1>3. WantedIndices = {} /\ LitIndices = {}
  BY DEF HistoryInit, Init, WantedIndices, Wanted, LitIndices, Lit, UsbCaptEnabled
<1>4. RequestsOK /\ PausesOK /\ DarkOK
  BY <1>2, <1>3 DEF HistoryInit, Init, RequestsOK, RequestsAre, PausesOK, PausesAre,
                    DarkOK, DarkAre
<1>5. SharedOK /\ RestIsExplained
  BY IndicesAssumption DEF HistoryInit, Init, SharedOK, RestIsExplained
<1>6. QED
  BY <1>1, <1>4, <1>5 DEF IInv

(* An index that two objects have is shared, and as long as an object has  *)
(* it, it stays so.                                                        *)
History == shared' = IF index' = index THEN shared ELSE Shared

LEMMA SharedHistory ==
    ASSUME IInv, History
    PROVE  /\ SharedOK'
           /\ \A i \in Instances : index'[i] \in shared => index'[i] \in shared'
<1>1. CASE index' = index
  BY <1>1 DEF IInv, SharedOK, History
<1>2. CASE index' # index
  BY <1>2 DEF IInv, SharedOK, History, Shared
<1>3. QED
  BY <1>1, <1>2

(* Steps that only change what the instances know of their images, and     *)
(* what the capture does.                                                  *)
LEMMA ImagesOK ==
    ASSUME IInv, History,
           UNCHANGED <<index, lit, requests, pauses, runningClients, pausedClients>>,
           \A i \in Instances : UsbCaptEnabled(i)' <=> UsbCaptEnabled(i)
    PROVE  SharedOK' /\ RequestsOK' /\ PausesOK' /\ DarkOK'
<1>1. SharedOK' /\ shared' = shared
  BY SharedHistory DEF History
<1>2. WantedIndices' = WantedIndices /\ LitIndices' = LitIndices
  BY <1>1 DEF WantedIndices, Wanted, LitIndices, Lit
<1>3. QED
  BY <1>1, <1>2 DEF IInv, RequestsOK, RequestsAre, PausesOK, PausesAre, DarkOK, DarkAre,
                    Pausing, NoneOf, IsLast

(* Steps that leave the news of the LEDs alone: the dark list gets no new  *)
(* index.                                                                  *)
LEMMA LightsOK ==
    ASSUME IInv, History, pauses' = pauses, pausedClients' \subseteq pausedClients,
           \A i \in lit' : i \in lit /\ index'[i] = index[i]
    PROVE  PausesOK' /\ DarkOK'
<1>1. ASSUME NEW x \in LitIndices' PROVE x \in LitIndices
  <2>1. PICK i \in lit' : index'[i] = x
    BY DEF LitIndices, Lit
  <2>2. i \in Instances /\ i \in lit /\ index[i] = x
    BY <2>1 DEF IInv, TypeOK
  <2>3. x \in Indices /\ x \notin shared
    BY <2>1, <2>2, SharedHistory DEF LitIndices
  <2>4. QED
    BY <2>2, <2>3 DEF LitIndices, Lit
<1>2. QED
  BY <1>1 DEF IInv, PausesOK, PausesAre, DarkOK, DarkAre, Pausing, IsLast

(* ... and a change of the wishes that is told.                            *)
LEMMA RequestTold ==
    ASSUME IInv, History, runningClients' = runningClients,
           NEW i \in Instances, Up(i), NEW listen \in BOOLEAN,
           requests' = Append(requests, Request(i, listen)),
           listen => UsbCaptEnabled(i)' /\ index' = index,
           ~listen => ~UsbCaptEnabled(i)',
           \A j \in Instances \ {i} :
              index'[j] = index[j] /\ (UsbCaptEnabled(j)' <=> UsbCaptEnabled(j)),
           index'[i] \in {index[i], NoIndex}
    PROVE  requests' \in Seq(Requests) /\ RequestsOK'
<1> DEFINE e == Request(i, listen)
           x == index[i]
<1>1. /\ x \in Indices
      /\ e \in Requests /\ e.instance = x /\ e.listen = listen
      /\ requests \in Seq(Requests) /\ requests' = Append(requests, e)
  BY DEF IInv, TypeOK, Up, Requests, Request
<1>2. /\ RequestsAre(requests, runningClients, WantedIndices, shared)
      /\ \A j \in Instances : index'[j] \in shared => index'[j] \in shared'
      /\ x \notin shared => \A j \in Instances : index[j] = x => j = i
  BY <1>1, SharedHistory DEF IInv, RequestsOK, SharedOK
<1> HIDE DEF e
<1>3. listen => x \in WantedIndices'
  BY <1>1 DEF WantedIndices, Wanted
<1>4. ASSUME x \in WantedIndices', ~listen
      PROVE  x \in shared'
  <2>1. PICK j \in Instances : index'[j] = x /\ UsbCaptEnabled(j)'
    BY <1>4 DEF WantedIndices, Wanted
  <2>2. j # i /\ index[j] = x
    BY <1>4, <2>1
  <2>3. QED
    BY <1>2, <2>1, <2>2
<1>5. ASSUME NEW y \in Indices \ {x}
      PROVE  /\ y \in WantedIndices' <=> y \in WantedIndices
             /\ y \in shared /\ y \in WantedIndices => y \in shared'
  <2>1. \A j \in Instances : index[j] = y => j # i /\ index'[j] = y
    OBVIOUS
  <2>2. \A j \in Instances : index'[j] = y => j # i /\ index[j] = y
    BY IndicesAssumption
  <2>3. QED
    BY <1>2, <2>1, <2>2 DEF WantedIndices, Wanted
<1> HIDE DEF x
<1>6. /\ requests' \in Seq(Requests)
      /\ RequestsAre(requests', runningClients, WantedIndices', shared')
  BY <1>1, <1>2, <1>3, <1>4, <1>5, RequestSent
<1>7. QED
  BY <1>6 DEF RequestsOK

LEMMA StartInstanceOK ==
    ASSUME IInv, History, NEW i \in Instances, StartInstance(i) PROVE IInv'
<1>1. PICK x \in Indices :
        /\ index' = [index EXCEPT ![i] = x]
        /\ pauses' = Append(pauses, [instance |-> x, enabled |-> FALSE])
  BY MayHaveAssumption DEF StartInstance
<1>2. /\ index' \in [Instances -> Indices \cup {NoIndex}]
      /\ index'[i] = x /\ index[i] = NoIndex
      /\ \A j \in Instances \ {i} : index'[j] = index[j]
      /\ i \notin lit /\ lit' = lit /\ lit \subseteq Instances
      /\ signal' = signal /\ ~UsbCaptEnabled(i)
  BY <1>1 DEF IInv, TypeOK, StartInstance, Up
<1>3. SharedOK' /\ \A j \in Instances : index'[j] \in shared => index'[j] \in shared'
  BY SharedHistory
<1>4. LitIndices' \subseteq LitIndices \ {x}
  <2>1. SUFFICES ASSUME NEW y \in LitIndices' PROVE y \in LitIndices /\ y # x
    OBVIOUS
  <2>2. PICK j \in lit : index'[j] = y
    BY <1>2 DEF LitIndices, Lit
  <2>3. y \in Indices /\ y \notin shared' /\ j \in Instances \ {i} /\ index[j] = y
    BY <1>2, <2>2 DEF LitIndices
  <2>4. y # x
    BY <1>2, <1>3, <2>3 DEF SharedOK
  <2>5. y \notin shared
    BY <1>3, <2>2, <2>3
  <2>6. QED
    BY <2>3, <2>4, <2>5 DEF LitIndices, Lit
<1>5. pauses' \in Seq(Pauses) /\ PausesOK' /\ DarkOK'
  <2> DEFINE e == [instance |-> x, enabled |-> FALSE]
  <2>1. e \in Pauses /\ e.instance = x
    BY DEF Pauses
  <2>2. pauses \in Seq(Pauses) /\ pausedClients' = pausedClients
        /\ PausesAre(pauses, LitIndices) /\ DarkAre(pauses, LitIndices, pausedClients)
    BY DEF IInv, TypeOK, PausesOK, DarkOK, StartInstance, wrapperVars
  <2> HIDE DEF e
  <2>3. /\ Append(pauses, e) \in Seq(Pauses)
        /\ PausesAre(Append(pauses, e), LitIndices')
        /\ DarkAre(Append(pauses, e), LitIndices', pausedClients)
    BY <1>4, <2>1, <2>2, PauseSent
  <2>4. QED
    BY <1>1, <2>2, <2>3 DEF PausesOK, DarkOK, e
<1>6. RequestsOK'
  <2>1. \A j \in Instances : UsbCaptEnabled(j) => j # i
    BY <1>2
  <2>2. WantedIndices' = WantedIndices
    BY <1>2, <2>1 DEF WantedIndices, Wanted, UsbCaptEnabled
  <2>3. \A y \in WantedIndices : y \in shared => y \in shared'
    BY <1>3, <2>2 DEF WantedIndices, Wanted
  <2>4. UNCHANGED <<requests, runningClients>>
    BY DEF StartInstance, wrapperVars
  <2>5. QED
    BY <2>2, <2>3, <2>4 DEF IInv, RequestsOK, RequestsAre, NoneOf, IsLast
<1>7. TypeOK'
  BY <1>2, <1>5, IndicesAssumption DEF IInv, TypeOK, StartInstance, wrapperVars, Up, UsbCaptEnabled
<1>8. RestIsExplained'
  BY DEF IInv, RestIsExplained, StartInstance, wrapperVars
<1>9. QED
  BY <1>3, <1>5, <1>6, <1>7, <1>8 DEF IInv

LEMMA DestroyInstanceOK ==
    ASSUME IInv, History, NEW i \in Instances, DestroyInstance(i) PROVE IInv'
<1>1. /\ index' \in [Instances -> Indices \cup {NoIndex}]
      /\ signal' \in [Instances -> Signals]
      /\ ~UsbCaptEnabled(i)'
      /\ \A j \in Instances \ {i} : index'[j] = index[j] /\ signal'[j] = signal[j]
      /\ index'[i] = NoIndex
  BY DEF IInv, TypeOK, DestroyInstance, UsbCaptEnabled, Signals
<1>2. requests' \in Seq(Requests) /\ RequestsOK'
  BY <1>1, RequestTold DEF DestroyInstance, wrapperVars, UsbCaptEnabled
<1>3. PausesOK' /\ DarkOK'
  BY <1>1, LightsOK DEF IInv, TypeOK, DestroyInstance, wrapperVars
<1>4. TypeOK'
  BY <1>1, <1>2 DEF IInv, TypeOK, DestroyInstance, wrapperVars, Up, UsbCaptEnabled
<1>5. SharedOK' /\ RestIsExplained'
  BY SharedHistory DEF IInv, RestIsExplained, DestroyInstance, wrapperVars
<1>6. QED
  BY <1>2, <1>3, <1>4, <1>5 DEF IInv

LEMMA SetUsbCaptureEnableOK ==
    ASSUME IInv, History, NEW i \in Instances, SetUsbCaptureEnable(i) PROVE IInv'
<1>1. PICK enable \in BOOLEAN :
        /\ signal' = [signal EXCEPT ![i] = IF enable THEN "silent" ELSE "off"]
        /\ requests' = Append(requests, Request(i, enable))
  BY DEF SetUsbCaptureEnable
<1>2. /\ signal' \in [Instances -> Signals]
      /\ UsbCaptEnabled(i)' <=> enable
      /\ \A j \in Instances \ {i} : signal'[j] = signal[j]
      /\ index' = index
  BY <1>1 DEF IInv, TypeOK, SetUsbCaptureEnable, UsbCaptEnabled, Signals
<1>3. requests' \in Seq(Requests) /\ RequestsOK'
  BY <1>1, <1>2, RequestTold DEF SetUsbCaptureEnable, wrapperVars, UsbCaptEnabled
<1>4. PausesOK' /\ DarkOK'
  BY <1>2, LightsOK DEF IInv, TypeOK, SetUsbCaptureEnable, wrapperVars
<1>5. TypeOK'
  BY <1>2, <1>3 DEF IInv, TypeOK, SetUsbCaptureEnable, wrapperVars, Up, UsbCaptEnabled
<1>6. SharedOK' /\ RestIsExplained'
  BY SharedHistory DEF IInv, RestIsExplained, SetUsbCaptureEnable, wrapperVars
<1>7. QED
  BY <1>3, <1>4, <1>5, <1>6 DEF IInv

(* Nothing is shared or taken away here: the wishes are the same before    *)
(* and after, and none in between.                                         *)
LEMMA ChangeUsbCapturePriorityOK ==
    ASSUME IInv, History, NEW i \in Instances, ChangeUsbCapturePriority(i) PROVE IInv'
<1> DEFINE e == Request(i, FALSE)
           f == Request(i, TRUE)
           x == index[i]
           without == WantedIndices \ {x}
<1>1. /\ signal' \in [Instances -> Signals]
      /\ \A j \in Instances : UsbCaptEnabled(j)' <=> UsbCaptEnabled(j)
      /\ UsbCaptEnabled(i) /\ Up(i)
      /\ UNCHANGED <<index, lit, pauses, runningClients, pausedClients>>
      /\ requests' = Append(Append(requests, e), f)
  BY DEF IInv, TypeOK, ChangeUsbCapturePriority, UsbCaptEnabled, Signals, wrapperVars
<1>2. /\ x \in WantedIndices /\ x \in Indices
      /\ e \in Requests /\ e.instance = x /\ e.listen = FALSE
      /\ f \in Requests /\ f.instance = x /\ f.listen = TRUE
      /\ requests \in Seq(Requests)
  BY <1>1 DEF IInv, TypeOK, Up, Requests, Request, WantedIndices, Wanted
<1>3. /\ shared' = shared
      /\ WantedIndices' = WantedIndices
  BY <1>1 DEF History, WantedIndices, Wanted
<1>4. RequestsAre(requests, runningClients, WantedIndices, shared)
  BY DEF IInv, RequestsOK
<1> HIDE DEF e, f, x
<1>5. /\ x \notin without
      /\ \A y \in Indices \ {x} : y \in without <=> y \in WantedIndices
  OBVIOUS
<1> HIDE DEF without
<1>6. /\ Append(requests, e) \in Seq(Requests)
      /\ RequestsAre(Append(requests, e), runningClients, without, shared)
  BY <1>2, <1>4, <1>5, RequestSent
<1>7. /\ requests' \in Seq(Requests)
      /\ RequestsAre(requests', runningClients, WantedIndices, shared)
  <2> DEFINE q == Append(requests, e)
  <2>1. q \in Seq(Requests) /\ RequestsAre(q, runningClients, without, shared)
    BY <1>6
  <2>2. requests' = Append(q, f)
    BY <1>1
  <2> HIDE DEF q
  <2>3. \A y \in Indices \ {x} : y \in WantedIndices <=> y \in without
    BY <1>5
  <2>4. QED
    BY <1>2, <2>1, <2>2, <2>3, RequestSent
<1>8. RequestsOK'
  BY <1>1, <1>3, <1>7 DEF RequestsOK
<1>9. PausesOK' /\ DarkOK'
  BY <1>1, LightsOK
<1>10. TypeOK'
  BY <1>1, <1>7 DEF IInv, TypeOK, ChangeUsbCapturePriority, wrapperVars, Up
<1>11. SharedOK' /\ RestIsExplained'
  BY SharedHistory DEF IInv, RestIsExplained, ChangeUsbCapturePriority, wrapperVars
<1>12. QED
  BY <1>7, <1>8, <1>9, <1>10, <1>11 DEF IInv

LEMMA SetNewComponentStateOK ==
    ASSUME IInv, History, NEW i \in Instances, SetNewComponentState(i) PROVE IInv'
<1>1. PICK state \in BOOLEAN :
        /\ lit' = IF state THEN lit \cup {i} ELSE lit \ {i}
        /\ pauses' = Append(pauses, Pause(i, state))
  BY DEF SetNewComponentState
<1> DEFINE e == Pause(i, state)
           x == index[i]
<1>2. /\ UNCHANGED <<index, signal, requests, runningClients, pausedClients>>
      /\ x \in Indices /\ x # NoIndex
      /\ e \in Pauses /\ e.instance = x /\ e.enabled = state
      /\ lit' \subseteq lit \cup {i}
      /\ ~state => i \notin lit'
  BY <1>1, IndicesAssumption
     DEF IInv, TypeOK, SetNewComponentState, wrapperVars, Up, Pauses, Pause
<1>3. shared' = shared /\ SharedOK'
  BY <1>2, SharedHistory DEF History
<1>4. /\ LitIndices' \subseteq LitIndices \cup {x}
      /\ x \in LitIndices' => state
  <2>1. ASSUME NEW y \in LitIndices'
        PROVE  y \in LitIndices \cup {x} /\ (y = x => state)
    <3>1. PICK j \in lit' : index[j] = y
      BY <1>2 DEF LitIndices, Lit
    <3>2. CASE j = i
      BY <1>2, <3>1, <3>2
    <3>3. CASE j # i
      <4>1. j \in lit /\ j \in Instances /\ y \in Indices /\ y \notin shared
        BY <1>2, <1>3, <3>3 DEF IInv, TypeOK, LitIndices
      <4>2. y # x
        BY <3>1, <3>3, <4>1 DEF IInv, SharedOK
      <4>3. QED
        BY <3>1, <4>1, <4>2 DEF LitIndices, Lit
    <3>4. QED
      BY <3>2, <3>3
  <2>2. QED
    BY <2>1
<1> HIDE DEF e, x
<1>5. pauses' \in Seq(Pauses) /\ PausesOK' /\ DarkOK'
  <2>1. pauses \in Seq(Pauses) /\ PausesAre(pauses, LitIndices)
        /\ DarkAre(pauses, LitIndices, pausedClients)
    BY DEF IInv, TypeOK, PausesOK, DarkOK
  <2>2. /\ Append(pauses, e) \in Seq(Pauses)
        /\ PausesAre(Append(pauses, e), LitIndices')
        /\ DarkAre(Append(pauses, e), LitIndices', pausedClients)
    BY <1>2, <1>4, <2>1, PauseSent
  <2>3. QED
    BY <1>1, <1>2, <2>2 DEF PausesOK, DarkOK, e
<1>6. RequestsOK'
  BY <1>2, <1>3 DEF IInv, RequestsOK, RequestsAre, WantedIndices, Wanted, UsbCaptEnabled,
                    NoneOf, IsLast
<1>7. TypeOK'
  BY <1>1, <1>5 DEF IInv, TypeOK, SetNewComponentState, wrapperVars, Up, UsbCaptEnabled
<1>8. RestIsExplained'
  BY DEF IInv, RestIsExplained, SetNewComponentState, wrapperVars
<1>9. QED
  BY <1>3, <1>5, <1>6, <1>7, <1>8 DEF IInv

LEMMA HandleUsbImageOK ==
    ASSUME IInv, History, NEW i \in Instances, HandleUsbImage(i) PROVE IInv'
<1>1. /\ signal' \in [Instances -> Signals]
      /\ \A j \in Instances : UsbCaptEnabled(j)' <=> UsbCaptEnabled(j)
  BY DEF IInv, TypeOK, HandleUsbImage, UsbCaptEnabled, Signals
<1>2. SharedOK' /\ RequestsOK' /\ PausesOK' /\ DarkOK'
  BY <1>1, ImagesOK DEF HandleUsbImage, wrapperVars
<1>3. TypeOK'
  BY <1>1 DEF IInv, TypeOK, HandleUsbImage, wrapperVars, Up
<1>4. RestIsExplained'
  BY DEF IInv, RestIsExplained, HandleUsbImage, wrapperVars
<1>5. QED
  BY <1>2, <1>3, <1>4 DEF IInv

LEMMA SetUsbInactiveOK ==
    ASSUME IInv, History, NEW i \in Instances, SetUsbInactive(i) PROVE IInv'
<1>1. /\ signal' \in [Instances -> Signals]
      /\ \A j \in Instances : UsbCaptEnabled(j)' <=> UsbCaptEnabled(j)
  BY DEF IInv, TypeOK, SetUsbInactive, Watched, UsbCaptEnabled, Signals
<1>2. SharedOK' /\ RequestsOK' /\ PausesOK' /\ DarkOK'
  BY <1>1, ImagesOK DEF SetUsbInactive
<1>3. TypeOK'
  BY <1>1 DEF IInv, TypeOK, SetUsbInactive, Up
<1>4. RestIsExplained'
  BY DEF IInv, RestIsExplained, SetUsbInactive
<1>5. QED
  BY <1>2, <1>3, <1>4 DEF IInv

LEMMA InstanceStepOK ==
    ASSUME IInv, History, NEW i \in Instances, InstanceStep(i) PROVE IInv'
BY StartInstanceOK, DestroyInstanceOK, SetUsbCaptureEnableOK, ChangeUsbCapturePriorityOK,
   SetNewComponentStateOK, HandleUsbImageOK, SetUsbInactiveOK DEF InstanceStep

LEMMA SignalRequestSourceOK ==
    ASSUME IInv, History, SignalRequestSource PROVE IInv'
<1>1. index' = index /\ shared' = shared /\ lit' = lit /\ signal' = signal
  BY DEF SignalRequestSource, instanceVars, History
<1>2. requests' \in Seq(Requests) /\ RequestsOK'
  BY <1>1, RequestHandled DEF IInv
<1>3. Head(requests).instance \in Indices
  <2>1. requests \in Seq(Requests) /\ requests # <<>>
    BY DEF IInv, TypeOK, SignalRequestSource
  <2>2. Head(requests) \in Requests
    BY <2>1, HandledFirst
  <2>3. QED
    BY <2>2 DEF Requests
<1>4. pausedClients' \subseteq pausedClients /\ runningClients' \subseteq Indices
  BY <1>3 DEF IInv, TypeOK, SignalRequestSource
<1>5. TypeOK'
  BY <1>1, <1>2, <1>4 DEF IInv, TypeOK, SignalRequestSource, instanceVars, Up, UsbCaptEnabled
<1>6. PausesOK' /\ DarkOK'
  BY <1>1, <1>4, LightsOK DEF SignalRequestSource
<1>7. SharedOK' /\ RestIsExplained'
  BY SharedHistory DEF RestIsExplained, SignalRequestSource
<1>8. QED
  BY <1>2, <1>5, <1>6, <1>7 DEF IInv

LEMMA SignalInstancePauseChangedOK ==
    ASSUME IInv, History, SignalInstancePauseChanged PROVE IInv'
<1>1. index' = index /\ shared' = shared /\ lit' = lit /\ signal' = signal
  BY DEF SignalInstancePauseChanged, instanceVars, History
<1>2. pauses' \in Seq(Pauses) /\ PausesOK' /\ DarkOK'
  BY <1>1, PauseHandled DEF IInv
<1>3. Head(pauses).instance \in Indices
  <2>1. pauses \in Seq(Pauses) /\ pauses # <<>>
    BY DEF IInv, TypeOK, SignalInstancePauseChanged
  <2>2. Head(pauses) \in Pauses
    BY <2>1, HandledFirst
  <2>3. QED
    BY <2>2 DEF Pauses
<1>4. pausedClients' \subseteq Indices
  BY <1>3 DEF IInv, TypeOK, SignalInstancePauseChanged
<1>5. TypeOK'
  BY <1>1, <1>2, <1>4
     DEF IInv, TypeOK, SignalInstancePauseChanged, instanceVars, Up, UsbCaptEnabled
<1>6. RequestsOK'
  BY <1>1 DEF IInv, RequestsOK, RequestsAre, WantedIndices, Wanted, UsbCaptEnabled,
              NoneOf, IsLast, SignalInstancePauseChanged
<1>7. SharedOK' /\ RestIsExplained'
  BY SharedHistory DEF IInv, RestIsExplained, SignalInstancePauseChanged
<1>8. QED
  BY <1>2, <1>5, <1>6, <1>7 DEF IInv

LEMMA TriggerOK ==
    ASSUME IInv, History, Trigger PROVE IInv'
<1>1. SharedOK' /\ RequestsOK' /\ PausesOK' /\ DarkOK'
  BY ImagesOK DEF Trigger, instanceVars, UsbCaptEnabled
<1>2. TypeOK'
  BY DEF IInv, TypeOK, Trigger, instanceVars, Up, UsbCaptEnabled
<1>3. RestIsExplained'
  <2>1. SUFFICES ASSUME ~capturing', runningClients # {}
                 PROVE  isPaused' /\ Cardinality(pausedClients) >= Cardinality(runningClients)
    BY DEF RestIsExplained, Trigger
  <2>2. IsFiniteSet(runningClients) /\ IsFiniteSet(pausedClients)
    BY IndicesAssumption, FS_Subset DEF IInv, TypeOK
  <2>3. Cardinality(pausedClients) \in Nat /\ Cardinality(runningClients) \in Nat
    BY <2>2, FS_CardinalityType
  <2>4. QED
    BY <2>1, <2>3 DEF IInv, TypeOK, RestIsExplained, Trigger
<1>4. QED
  BY <1>1, <1>2, <1>3 DEF IInv

LEMMA OthersOK ==
    ASSUME IInv, History, NewFrame \/ HandleSettingsUpdate \/ Revive PROVE IInv'
<1>1. SharedOK' /\ RequestsOK' /\ PausesOK' /\ DarkOK'
  BY ImagesOK DEF NewFrame, HandleSettingsUpdate, Revive, instanceVars, wrapperVars,
                  UsbCaptEnabled
<1>2. TypeOK'
  BY DEF IInv, TypeOK, NewFrame, HandleSettingsUpdate, Revive, instanceVars, wrapperVars,
         Up, UsbCaptEnabled
<1>3. RestIsExplained'
  BY DEF IInv, TypeOK, RestIsExplained, NewFrame, HandleSettingsUpdate, Revive,
         instanceVars, wrapperVars
<1>4. QED
  BY <1>1, <1>2, <1>3 DEF IInv

-----------------------------------------------------------------------------
(***************************************************************************)
(* The theorems                                                            *)
(***************************************************************************)

(* The inductive invariant holds in every reachable state.                 *)
THEOREM Invariance == HistorySpec => []IInv
<1>1. IInv /\ [HistoryNext]_historyVars => IInv'
  <2> SUFFICES ASSUME IInv, [HistoryNext]_historyVars PROVE IInv'
    OBVIOUS
  <2>1. CASE HistoryNext
    <3>1. History /\ Next
      BY <2>1 DEF HistoryNext, History
    <3>2. ASSUME NEW i \in Instances, InstanceStep(i) PROVE IInv'
      BY <3>1, <3>2, InstanceStepOK
    <3>3. CASE SignalRequestSource
      BY <3>1, <3>3, SignalRequestSourceOK
    <3>4. CASE SignalInstancePauseChanged
      BY <3>1, <3>4, SignalInstancePauseChangedOK
    <3>5. CASE Trigger
      BY <3>1, <3>5, TriggerOK
    <3>6. CASE NewFrame \/ HandleSettingsUpdate \/ Revive
      BY <3>1, <3>6, OthersOK
    <3>7. QED
      BY <3>1, <3>2, <3>3, <3>4, <3>5, <3>6 DEF Next
  <2>2. CASE UNCHANGED historyVars
    <3>1. SharedOK' /\ RequestsOK' /\ PausesOK' /\ DarkOK'
      BY <2>2, ImagesOK DEF historyVars, vars, History, UsbCaptEnabled
    <3>2. QED
      BY <2>2, <3>1
         DEF IInv, TypeOK, RestIsExplained, historyVars, vars, Up, UsbCaptEnabled
  <2>3. QED
    BY <2>1, <2>2
<1>2. QED
  BY <1>1, InitOK, PTL DEF HistorySpec

(* Type correctness: only what exists is lit or wants images, and the list *)
(* of clients and of dark instances hold indices.                          *)
THEOREM TypeCorrect == HistorySpec => []TypeOK
<1>1. IInv => TypeOK
  BY DEF IInv
<1>2. QED
  BY <1>1, Invariance, PTL

(* The capture ends up without clients that nobody wants, and with those   *)
(* that are wanted by an object that never had to share its index, in      *)
(* whatever order objects start, switch, change and go.                    *)
THEOREM RequestsConverge == HistorySpec => []ClientsConverge
<1>1. IInv => ClientsConverge
  BY DEF IInv, RequestsOK, RequestsAre, NoneOf, WantedIndices, ClientsConverge
<1>2. QED
  BY <1>1, Invariance, PTL

(* The capture never rests by accident.                                    *)
THEOREM RestsForAReason == HistorySpec => []RestIsExplained
<1>1. IInv => RestIsExplained
  BY DEF IInv
<1>2. QED
  BY <1>1, Invariance, PTL

(* If only clients are counted as dark, a lit client gets images that      *)
(* never had to share its index.                                           *)
THEOREM LitClientsGetImages ==
    ASSUME Pausing
    PROVE  HistorySpec => []LitClientsAreFilmedAmongClients
<1>1. ASSUME IInv PROVE LitClientsAreFilmedAmongClients
  <2>1. SUFFICES ASSUME pausedClients \subseteq runningClients,
                        NEW x \in runningClients \ shared,
                        Lit(x), Settled(x), ~capturing
                 PROVE  FALSE
    BY DEF LitClientsAreFilmedAmongClients, LitClientsAreFilmed
  <2>2. x \notin pausedClients
    BY <1>1, <2>1 DEF IInv, TypeOK, DarkOK, DarkAre, LitIndices, Settled
  <2>3. Cardinality(pausedClients) >= Cardinality(runningClients)
    BY <1>1, <2>1 DEF IInv, RestIsExplained, Settled
  <2>4. IsFiniteSet(runningClients) /\ IsFiniteSet(pausedClients)
    BY <1>1, IndicesAssumption, FS_Subset DEF IInv, TypeOK
  <2>5. /\ Cardinality(pausedClients) <= Cardinality(runningClients)
        /\ Cardinality(pausedClients) = Cardinality(runningClients)
             => pausedClients = runningClients
    BY <2>1, <2>4, FS_Subset
  <2>6. Cardinality(pausedClients) \in Nat /\ Cardinality(runningClients) \in Nat
    BY <2>4, FS_CardinalityType
  <2>7. QED
    BY <2>1, <2>2, <2>3, <2>5, <2>6
<1>2. QED
  BY <1>1, Invariance, PTL
=============================================================================
