-------------------------- MODULE InstancesProofs --------------------------
(***************************************************************************)
(* Proofs about the life of instances, for any set of indices, objects and *)
(* clients, and any length of the queues.                                  *)
(***************************************************************************)
EXTENDS Instances, SequenceTheorems, FiniteSetTheorems, TLAPS

-----------------------------------------------------------------------------
(***************************************************************************)
(* The inductive invariant                                                 *)
(***************************************************************************)

(* An index has one instance at most, and the main one always has one.     *)
ManagedOK ==
    /\ \A i \in Indices : starting[i] # NoObject =>
         /\ starting[i][1] = i
         /\ phase[starting[i]] # "none"
         /\ running[i] = NoObject
    /\ \A i \in Indices : running[i] # NoObject =>
         /\ running[i][1] = i
         /\ phase[running[i]] = "started"
    /\ starting[0] # NoObject \/ running[0] # NoObject

(* The start of an instance that is expected is announced once.            *)
IsStart(call) == call.kind = "JustStarted"

Expected(o) == starting[o[1]] = o /\ phase[o] = "started"

AnnouncedOnce ==
    \A k, m \in DOMAIN calls :
        IsStart(calls[k]) /\ IsStart(calls[m]) /\ calls[k].object = calls[m].object
            => k = m

StartsOK ==
    /\ \A o \in Objects : phase[o] = "starting" => starting[o[1]] = o
    /\ \A k \in DOMAIN calls : IsStart(calls[k]) => Expected(calls[k].object)
    /\ AnnouncedOnce

(* Until every instance of the start of the daemon runs, there are no      *)
(* clients, and fireStarter counts what still starts.                      *)
Waiting == {i \in Indices : starting[i] # NoObject}

ServicesOK ==
    ~services =>
        /\ fireStarter = Cardinality(Waiting)
        /\ handling = NoClient
        /\ \A c \in Clients : held[c] = NoObject
        /\ \A k \in DOMAIN calls : IsStart(calls[k])

IInv ==
    /\ TypeOK
    /\ ManagedOK
    /\ StartsOK
    /\ ServicesOK
    /\ ClientsHoldStartedInstances

-----------------------------------------------------------------------------
(***************************************************************************)
(* Queues                                                                  *)
(***************************************************************************)

(* What is left when the first of a queue was handled.                     *)
LEMMA HandledFirst ==
    ASSUME NEW S, NEW q \in Seq(S), q # <<>>
    PROVE  /\ Tail(q) \in Seq(S)
           /\ 1 \in DOMAIN q /\ Head(q) = q[1] /\ Head(q) \in S
           /\ \A k \in DOMAIN Tail(q) :
                k \in Nat /\ k + 1 # 1 /\ k + 1 \in DOMAIN q /\ Tail(q)[k] = q[k + 1]
<1>1. /\ DOMAIN q = 1 .. Len(q) /\ Len(q) \in Nat
      /\ Tail(q) \in Seq(S) /\ Head(q) \in S /\ Head(q) = q[1]
      /\ Len(Tail(q)) = Len(q) - 1
      /\ \A k \in 1 .. Len(Tail(q)) : Tail(q)[k] = q[k + 1]
  BY LenProperties, HeadTailProperties
<1>2. Len(q) # 0
  BY <1>1, EmptySeq
<1>3. DOMAIN Tail(q) = 1 .. Len(Tail(q))
  BY <1>1, LenProperties
<1>4. QED
  BY <1>1, <1>2, <1>3

(* What there is when a call was queued.                                   *)
LEMMA Queued ==
    ASSUME NEW S, NEW q \in Seq(S), NEW e \in S
    PROVE  /\ Append(q, e) \in Seq(S)
           /\ \A k \in DOMAIN Append(q, e) :
                \/ k \in DOMAIN q /\ Append(q, e)[k] = q[k]
                \/ k = Len(q) + 1 /\ Append(q, e)[k] = e
<1>1. /\ Append(q, e) \in Seq(S)
      /\ Len(Append(q, e)) = Len(q) + 1
      /\ Len(q) \in Nat
      /\ \A k \in 1 .. Len(q) : Append(q, e)[k] = q[k]
      /\ Append(q, e)[Len(q) + 1] = e
  BY AppendProperties, LenProperties
<1>2. DOMAIN q = 1 .. Len(q) /\ DOMAIN Append(q, e) = 1 .. Len(q) + 1
  BY <1>1, LenProperties
<1>3. QED
  BY <1>1, <1>2

(* The calls that are left are still announced once, and nothing else is   *)
(* announced.                                                              *)
LEMMA Taken ==
    ASSUME TypeOK, AnnouncedOnce, calls # <<>>, calls' = Tail(calls)
    PROVE  /\ calls' \in Seq(Calls)
           /\ Head(calls) \in Calls
           /\ AnnouncedOnce'
           /\ \A k \in DOMAIN calls' : \E m \in DOMAIN calls :
                calls'[k] = calls[m] /\ m # 1
           /\ 1 \in DOMAIN calls /\ Head(calls) = calls[1]
<1>1. calls \in Seq(Calls)
  BY DEF TypeOK
<1>2. /\ calls' \in Seq(Calls)
      /\ 1 \in DOMAIN calls /\ Head(calls) = calls[1] /\ Head(calls) \in Calls
      /\ \A k \in DOMAIN calls' :
           k \in Nat /\ k + 1 # 1 /\ k + 1 \in DOMAIN calls /\ calls'[k] = calls[k + 1]
  BY <1>1, HandledFirst
<1>3. AnnouncedOnce'
  <2>1. SUFFICES ASSUME NEW k \in DOMAIN calls', NEW m \in DOMAIN calls',
                        IsStart(calls'[k]), IsStart(calls'[m]),
                        calls'[k].object = calls'[m].object
                 PROVE  k = m
    BY DEF AnnouncedOnce, IsStart
  <2>2. k + 1 = m + 1
    BY <1>2, <2>1 DEF AnnouncedOnce
  <2>3. QED
    BY <1>2, <2>2
<1>4. QED
  BY <1>2, <1>3

(* A client asks.                                                          *)
LEMMA Asked ==
    ASSUME TypeOK, AnnouncedOnce,
           NEW e \in Calls, ~IsStart(e), calls' = Append(calls, e)
    PROVE  /\ calls' \in Seq(Calls)
           /\ AnnouncedOnce'
           /\ \A k \in DOMAIN calls' : IsStart(calls'[k]) =>
                \E m \in DOMAIN calls : calls'[k] = calls[m]
<1>1. calls \in Seq(Calls)
  BY DEF TypeOK
<1>2. /\ calls' \in Seq(Calls)
      /\ \A k \in DOMAIN calls' : IsStart(calls'[k]) =>
            k \in DOMAIN calls /\ calls'[k] = calls[k]
  BY <1>1, Queued
<1>3. QED
  BY <1>2 DEF AnnouncedOnce, IsStart

-----------------------------------------------------------------------------
(***************************************************************************)
(* What a step preserves                                                   *)
(***************************************************************************)

(* What somebody points at is not deleted, and nothing else lives on.      *)
LEMMA Released ==
    ASSUME TypeOK, Release \/ UNCHANGED phase
    PROVE  /\ phase' \in [Objects -> {"none", "starting", "started"}]
           /\ \A o \in Objects : phase'[o] # "none" => phase'[o] = phase[o]
           /\ \A i \in Indices : starting'[i] \in Objects
                                   => phase'[starting'[i]] = phase[starting'[i]]
           /\ \A i \in Indices : running'[i] \in Objects
                                   => phase'[running'[i]] = phase[running'[i]]
           /\ \A c \in Clients : held'[c] \in Objects
                                   => phase'[held'[c]] = phase[held'[c]]
<1>1. CASE Release
  BY <1>1 DEF TypeOK, Release, Kept, Managed
<1>2. CASE UNCHANGED phase
  BY <1>2 DEF TypeOK
<1>3. QED
  BY <1>1, <1>2

(* A step that leaves the instances alone, or takes some that run away, is *)
(* harmless if what is announced was so before.                            *)
LEMMA StopsOnly ==
    ASSUME IInv, Release \/ UNCHANGED phase, starting' = starting,
           running' \in [Indices -> Objects \cup {NoObject}],
           \A i \in Indices : running'[i] = running[i]
                              \/ (i # 0 /\ running'[i] = NoObject),
           AnnouncedOnce',
           \A k \in DOMAIN calls' : IsStart(calls'[k]) =>
                \E m \in DOMAIN calls : calls'[k] = calls[m]
    PROVE  /\ phase' \in [Objects -> {"none", "starting", "started"}]
           /\ ManagedOK'
           /\ StartsOK'
<1>1. 0 \in Indices
  BY IndicesAssumption
<1>2. phase' \in [Objects -> {"none", "starting", "started"}]
  BY Released DEF IInv
<1>3. ManagedOK'
  BY <1>1, Released DEF IInv, TypeOK, ManagedOK
<1>4. ASSUME NEW o \in Objects, phase'[o] = "starting" PROVE starting'[o[1]] = o
  BY <1>4, Released DEF IInv, StartsOK
<1>5. ASSUME NEW k \in DOMAIN calls', IsStart(calls'[k])
      PROVE  starting'[calls'[k].object[1]] = calls'[k].object
             /\ phase'[calls'[k].object] = "started"
  <2> DEFINE o == calls'[k].object
  <2>1. PICK m \in DOMAIN calls : calls'[k] = calls[m]
    BY <1>5
  <2>2. starting[o[1]] = o /\ phase[o] = "started"
    BY <1>5, <2>1 DEF IInv, StartsOK, Expected
  <2>3. o \in Objects
    <3>1. calls[m] \in Calls
      BY ElementOfSeq, LenProperties DEF IInv, TypeOK
    <3>2. QED
      BY <1>5, <2>1, <3>1 DEF Calls, IsStart, Kinds
  <2>4. o[1] \in Indices
    BY <2>3 DEF Objects
  <2>5. QED
    BY <2>2, <2>3, <2>4, Released DEF IInv
<1>6. StartsOK'
  BY <1>4, <1>5 DEF StartsOK, Expected, IsStart
<1>7. QED
  BY <1>2, <1>3, <1>6

-----------------------------------------------------------------------------
(***************************************************************************)
(* The actions                                                             *)
(***************************************************************************)
LEMMA InitOK == Init => IInv
<1> SUFFICES ASSUME Init PROVE IInv
  OBVIOUS
<1>1. IsFiniteSet(enabled) /\ enabled \subseteq Indices /\ 0 \in enabled /\ 0 \in Indices
  BY IndicesAssumption, FS_Subset DEF Init
<1>2. PICK life \in Lives :
        starting = [i \in Indices |-> IF i \in enabled THEN <<i, life>> ELSE NoObject]
  BY DEF Init
<1>3. \A i \in Indices : <<i, life>> \in Objects /\ <<i, life>> # NoObject /\ <<i, life>>[1] = i
  BY NobodyAssumption DEF Objects
<1>4. Waiting = enabled
  BY <1>1, <1>2, <1>3 DEF Waiting
<1>5. /\ <<>> \in Seq(Calls) /\ <<>> \in Seq(Indices)
      /\ DOMAIN calls = {}
  BY EmptySeq, LenProperties DEF Init
<1>6. /\ running = [i \in Indices |-> NoObject]
      /\ phase = [o \in Objects |-> IF o \in Managed THEN "starting" ELSE "none"]
      /\ fireStarter = Cardinality(enabled)
      /\ services = FALSE /\ handling = NoClient
      /\ held = [c \in Clients |-> NoObject]
  BY DEF Init
<1>7. TypeOK
  <2>1. /\ starting \in [Indices -> Objects \cup {NoObject}]
        /\ running \in [Indices -> Objects \cup {NoObject}]
        /\ phase \in [Objects -> {"none", "starting", "started"}]
        /\ fireStarter \in Nat
    BY <1>1, <1>2, <1>3, <1>6, FS_CardinalityType
  <2>2. QED
    BY <1>1, <1>5, <2>1 DEF Init, TypeOK
<1>8. ManagedOK
  <2>1. \A i \in Indices : starting[i] # NoObject =>
          starting[i] = <<i, life>> /\ phase[starting[i]] = "starting"
    BY <1>2, <1>3, <1>6 DEF Managed
  <2>2. starting[0] # NoObject
    BY <1>1, <1>2, <1>3
  <2>3. QED
    BY <1>3, <1>6, <2>1, <2>2 DEF ManagedOK
<1>9. StartsOK
  <2>1. ASSUME NEW o \in Objects, phase[o] = "starting" PROVE starting[o[1]] = o
    <3>1. o \in Managed /\ o # NoObject
      BY <1>6, <2>1, NobodyAssumption
    <3>2. PICK i \in Indices : starting[i] = o
      BY <1>6, <3>1 DEF Managed
    <3>3. QED
      BY <1>2, <1>3, <3>1, <3>2
  <2>2. QED
    BY <1>5, <2>1 DEF StartsOK, AnnouncedOnce
<1>10. ServicesOK /\ ClientsHoldStartedInstances
  BY <1>4, <1>5, <1>6 DEF ServicesOK, ClientsHoldStartedInstances
<1>11. QED
  BY <1>7, <1>8, <1>9, <1>10 DEF IInv

(* A call that is no announcement.                                         *)
LEMMA CallOK ==
    ASSUME NEW kind \in Kinds, NEW i \in Indices
    PROVE  Call(kind, i) \in Calls /\ ~IsStart(Call(kind, i))
BY DEF Calls, Call, Kinds, IsStart

(* Nothing of the main thread's changes while the network thread asks.     *)
LEMMA NetworkOK ==
    ASSUME IInv, services, UNCHANGED <<database, manager, phase, held>>,
           current' \in [Clients -> Indices],
           news' \in [Clients -> Seq(Indices)],
           handling' \in Clients \cup {NoClient},
           passed' \in BOOLEAN,
           UNCHANGED calls \/ \E e \in Calls : ~IsStart(e) /\ calls' = Append(calls, e)
    PROVE  IInv'
<1>1. /\ calls' \in Seq(Calls)
      /\ AnnouncedOnce'
      /\ \A k \in DOMAIN calls' : IsStart(calls'[k]) =>
           \E m \in DOMAIN calls : calls'[k] = calls[m]
  <2>1. CASE UNCHANGED calls
    BY <2>1 DEF IInv, TypeOK, StartsOK, AnnouncedOnce, IsStart
  <2>2. CASE \E e \in Calls : ~IsStart(e) /\ calls' = Append(calls, e)
    BY <2>2, Asked DEF IInv, StartsOK
  <2>3. QED
    BY <2>1, <2>2
<1>2. ManagedOK' /\ StartsOK'
  <2>1. starting' = starting /\ running' = running /\ UNCHANGED phase
    BY DEF manager
  <2>2. running' \in [Indices -> Objects \cup {NoObject}]
    BY <2>1 DEF IInv, TypeOK
  <2>3. QED
    BY <1>1, <2>1, <2>2, StopsOnly
<1>3. TypeOK'
  BY <1>1 DEF IInv, TypeOK, database, manager
<1>4. ServicesOK' /\ ClientsHoldStartedInstances'
  BY DEF IInv, ServicesOK, ClientsHoldStartedInstances, manager
<1>5. QED
  BY <1>2, <1>3, <1>4 DEF IInv

LEMMA ConnectOK ==
    ASSUME IInv, NEW c \in Clients, Connect(c) PROVE IInv'
<1>1. Call("get", 0) \in Calls /\ ~IsStart(Call("get", 0))
  BY CallOK, IndicesAssumption DEF Kinds
<1>2. QED
  BY <1>1, NetworkOK DEF IInv, TypeOK, Connect, Idle, Ask, clients

LEMMA HandleMessageOK ==
    ASSUME IInv, NEW c \in Clients, HandleMessage(c) PROVE IInv'
<1>1. current[c] \in Indices
  BY DEF IInv, TypeOK
<1>2. Call("isRunning", current[c]) \in Calls /\ ~IsStart(Call("isRunning", current[c]))
  BY <1>1, CallOK DEF Kinds
<1>3. QED
  BY <1>2, NetworkOK DEF IInv, TypeOK, HandleMessage, Idle, Ask, clients

LEMMA HandleInstanceCommandOK ==
    ASSUME IInv, HandleInstanceCommand PROVE IInv'
<1>1. services
  BY DEF IInv, ServicesOK, HandleInstanceCommand
<1>2. UNCHANGED calls \/ \E e \in Calls : ~IsStart(e) /\ calls' = Append(calls, e)
  <2>1. \A kind \in Kinds, i \in Indices : Call(kind, i) \in Calls /\ ~IsStart(Call(kind, i))
    BY CallOK
  <2>2. QED
    BY <2>1, IndicesAssumption DEF HandleInstanceCommand, Ask, Kinds
<1>3. handling' \in Clients \cup {NoClient} /\ passed' \in BOOLEAN
  BY DEF IInv, TypeOK, HandleInstanceCommand, Ask, Answered
<1>4. QED
  BY <1>1, <1>2, <1>3, NetworkOK DEF IInv, TypeOK, HandleInstanceCommand, clients

LEMMA HandleInstanceStateChangeOK ==
    ASSUME IInv, NEW c \in Clients, HandleInstanceStateChange(c) PROVE IInv'
<1>1. Call("get", 0) \in Calls /\ ~IsStart(Call("get", 0))
  BY CallOK, IndicesAssumption DEF Kinds
<1>2. Tail(news[c]) \in Seq(Indices)
  BY HandledFirst DEF IInv, TypeOK, HandleInstanceStateChange
<1>3. news' \in [Clients -> Seq(Indices)]
  BY <1>2 DEF IInv, TypeOK, HandleInstanceStateChange
<1>4. /\ UNCHANGED calls \/ \E e \in Calls : ~IsStart(e) /\ calls' = Append(calls, e)
      /\ handling' \in Clients \cup {NoClient} /\ passed' \in BOOLEAN
  BY <1>1 DEF IInv, TypeOK, HandleInstanceStateChange, Ask, network
<1>5. QED
  BY <1>3, <1>4, NetworkOK DEF IInv, TypeOK, HandleInstanceStateChange, Idle

(* The end of a client's connection.                                       *)
LEMMA DisconnectOK ==
    ASSUME IInv, NEW c \in Clients, Disconnect(c) PROVE IInv'
<1>1. /\ AnnouncedOnce'
      /\ \A k \in DOMAIN calls' : IsStart(calls'[k]) =>
           \E m \in DOMAIN calls : calls'[k] = calls[m]
  BY DEF IInv, StartsOK, AnnouncedOnce, IsStart, Disconnect
<1>2. /\ phase' \in [Objects -> {"none", "starting", "started"}]
      /\ ManagedOK' /\ StartsOK'
  <2>1. /\ Release /\ starting' = starting /\ running' = running
        /\ running' \in [Indices -> Objects \cup {NoObject}]
    BY DEF IInv, TypeOK, Disconnect, manager
  <2>2. QED
    BY <1>1, <2>1, StopsOnly
<1>3. /\ held' \in [Clients -> Objects \cup {NoObject}]
      /\ \A d \in Clients : held'[d] # NoObject => held'[d] = held[d]
  BY DEF IInv, TypeOK, Disconnect
<1>4. TypeOK'
  <2>1. 0 \in Indices /\ <<>> \in Seq(Indices)
    BY IndicesAssumption, EmptySeq
  <2>2. /\ current' \in [Clients -> Indices]
        /\ news' \in [Clients -> Seq(Indices)]
    BY <2>1 DEF IInv, TypeOK, Disconnect
  <2>3. QED
    BY <1>2, <1>3, <2>2 DEF IInv, TypeOK, Disconnect, database, manager, network
<1>5. ServicesOK' /\ ClientsHoldStartedInstances'
  <2>1. \A d \in Clients : held'[d] # NoObject => phase'[held'[d]] = "started"
    BY <1>3, Released DEF IInv, TypeOK, ClientsHoldStartedInstances, Disconnect
  <2>2. QED
    BY <2>1 DEF IInv, ClientsHoldStartedInstances, ServicesOK, Disconnect, Idle, manager, network
<1>6. QED
  BY <1>2, <1>4, <1>5 DEF IInv

(* What the main thread does to the queue, apart from announcements.       *)
LEMMA TakenOK ==
    ASSUME IInv, NEW kind, Take(kind), kind # "JustStarted"
    PROVE  /\ calls' \in Seq(Calls)
           /\ AnnouncedOnce'
           /\ \A k \in DOMAIN calls' : IsStart(calls'[k]) =>
                \E m \in DOMAIN calls : calls'[k] = calls[m]
           /\ Head(calls).index \in Indices
           /\ services
<1>1. /\ calls' \in Seq(Calls)
      /\ AnnouncedOnce'
      /\ \A k \in DOMAIN calls' : \E m \in DOMAIN calls : calls'[k] = calls[m] /\ m # 1
      /\ Head(calls) \in Calls
      /\ 1 \in DOMAIN calls /\ Head(calls) = calls[1]
  BY Taken DEF IInv, StartsOK, Take
<1>2. Head(calls).kind = kind
  BY DEF Take
<1>3. Head(calls).index \in Indices
  BY <1>1, <1>2 DEF Calls
<1>4. services
  BY <1>1, <1>2 DEF IInv, ServicesOK, IsStart
<1>5. QED
  BY <1>1, <1>3, <1>4

(* The calls that delete no instance and start none.                       *)
LEMMA StopsOK ==
    ASSUME IInv, services, Release \/ UNCHANGED phase,
           starting' = starting, services' = services, held' = held,
           running' \in [Indices -> Objects \cup {NoObject}],
           \A i \in Indices : running'[i] = running[i]
                              \/ (i # 0 /\ running'[i] = NoObject),
           AnnouncedOnce',
           \A k \in DOMAIN calls' : IsStart(calls'[k]) =>
                \E m \in DOMAIN calls : calls'[k] = calls[m]
    PROVE  /\ phase' \in [Objects -> {"none", "starting", "started"}]
           /\ ManagedOK' /\ StartsOK' /\ ServicesOK' /\ ClientsHoldStartedInstances'
<1>1. /\ phase' \in [Objects -> {"none", "starting", "started"}]
      /\ ManagedOK' /\ StartsOK'
  BY StopsOnly
<1>2. \A c \in Clients : held'[c] # NoObject => phase'[held'[c]] = "started"
  BY Released DEF IInv, TypeOK, ClientsHoldStartedInstances
<1>3. running'[0] # NoObject
  BY IndicesAssumption DEF IInv, ClientsHoldStartedInstances
<1>4. QED
  BY <1>1, <1>2, <1>3 DEF ServicesOK, ClientsHoldStartedInstances

LEMMA StopInstanceOK ==
    ASSUME IInv, StopInstance \/ DeleteInstance PROVE IInv'
<1> DEFINE i == Head(calls).index
<1>1. PICK kind \in {"stop", "delete"} : Take(kind)
  BY DEF StopInstance, DeleteInstance
<1>2. /\ calls' \in Seq(Calls) /\ AnnouncedOnce' /\ services /\ i \in Indices
      /\ \A k \in DOMAIN calls' : IsStart(calls'[k]) =>
           \E m \in DOMAIN calls : calls'[k] = calls[m]
  BY <1>1, TakenOK
<1>3. \/ CanBeStopped(i) /\ Stop(i)
      \/ UNCHANGED <<running, news>> /\ enabled' \subseteq enabled
  BY DEF StopInstance, DeleteInstance
<1>4. /\ Release
      /\ UNCHANGED <<starting, pending, fireStarter, services, current, held, network>>
  BY DEF StopInstance, DeleteInstance
<1>5. /\ rows' \subseteq Indices /\ 0 \in rows' /\ enabled' \subseteq rows'
  BY DEF IInv, TypeOK, StopInstance, DeleteInstance, Stop
<1> HIDE DEF i
<1>6. /\ running' \in [Indices -> Objects \cup {NoObject}]
      /\ \A j \in Indices : running'[j] = running[j] \/ (j # 0 /\ running'[j] = NoObject)
      /\ news' \in [Clients -> Seq(Indices)]
  <2>1. \A c \in Clients : news[c] \in Seq(Indices) /\ Append(news[c], i) \in Seq(Indices)
    BY <1>2, AppendProperties DEF IInv, TypeOK
  <2>2. CASE CanBeStopped(i) /\ Stop(i)
    <3>1. \A c \in Clients : news'[c] = Append(news[c], i) \/ news'[c] = news[c]
      BY <2>2 DEF Stop
    <3>2. news' \in [Clients -> Seq(Indices)]
      <4>1. news' = [c \in Clients |-> news'[c]]
        BY <2>2 DEF Stop
      <4>2. \A c \in Clients : news'[c] \in Seq(Indices)
        BY <2>1, <3>1
      <4>3. QED
        BY <4>1, <4>2
    <3>3. QED
      BY <2>2, <3>2 DEF IInv, TypeOK, CanBeStopped, Stop
  <2>3. CASE UNCHANGED <<running, news>>
    BY <2>3 DEF IInv, TypeOK
  <2>4. QED
    BY <1>3, <2>2, <2>3
<1>7. /\ phase' \in [Objects -> {"none", "starting", "started"}]
      /\ ManagedOK' /\ StartsOK' /\ ServicesOK' /\ ClientsHoldStartedInstances'
  BY <1>2, <1>4, <1>6, StopsOK
<1>8. TypeOK'
  BY <1>2, <1>4, <1>5, <1>6, <1>7 DEF IInv, TypeOK, network
<1>9. QED
  BY <1>7, <1>8 DEF IInv

LEMMA CreateInstanceOK ==
    ASSUME IInv, CreateInstance \/ IsInstanceRunning PROVE IInv'
<1>1. PICK kind \in {"create", "isRunning"} : Take(kind)
  BY DEF CreateInstance, IsInstanceRunning
<1>2. /\ calls' \in Seq(Calls) /\ AnnouncedOnce' /\ services
      /\ \A k \in DOMAIN calls' : IsStart(calls'[k]) =>
           \E m \in DOMAIN calls : calls'[k] = calls[m]
  BY <1>1, TakenOK
<1>3. UNCHANGED <<enabled, manager, phase, clients>>
  BY DEF CreateInstance, IsInstanceRunning, database
<1>4. /\ phase' \in [Objects -> {"none", "starting", "started"}]
      /\ ManagedOK' /\ StartsOK' /\ ServicesOK' /\ ClientsHoldStartedInstances'
  <2>1. /\ starting' = starting /\ services' = services /\ held' = held
        /\ running' = running /\ running \in [Indices -> Objects \cup {NoObject}]
    BY <1>3 DEF IInv, TypeOK, manager, clients
  <2>2. QED
    BY <1>2, <1>3, <2>1, StopsOK
<1>5. TypeOK'
  <2>1. rows' \subseteq Indices /\ 0 \in rows' /\ enabled \subseteq rows'
    BY DEF IInv, TypeOK, CreateInstance, IsInstanceRunning, database
  <2>2. handling' \in Clients \cup {NoClient} /\ passed' \in BOOLEAN
    BY DEF IInv, TypeOK, CreateInstance, IsInstanceRunning, Answered
  <2>3. QED
    BY <1>2, <1>3, <1>4, <2>1, <2>2 DEF IInv, TypeOK, manager, clients
<1>6. QED
  BY <1>4, <1>5 DEF IInv

LEMMA GetAmbilightAppInstanceOK ==
    ASSUME IInv, GetAmbilightAppInstance PROVE IInv'
<1> DEFINE i == Head(calls).index
           o == IF running[i] # NoObject THEN running[i] ELSE running[0]
<1>1. Take("get")
  BY DEF GetAmbilightAppInstance
<1>2. /\ calls' \in Seq(Calls) /\ AnnouncedOnce' /\ services /\ i \in Indices
      /\ \A k \in DOMAIN calls' : IsStart(calls'[k]) =>
           \E m \in DOMAIN calls : calls'[k] = calls[m]
  BY <1>1, TakenOK
<1>3. /\ held' = [held EXCEPT ![handling] = o]
      /\ current' = [current EXCEPT ![handling] = i]
      /\ Release /\ Answered
      /\ UNCHANGED <<database, manager, news>>
  BY DEF GetAmbilightAppInstance
<1>4. o \in Objects /\ phase[o] = "started"
  <2>1. \A j \in Indices : running[j] # NoObject =>
          running[j] \in Objects /\ phase[running[j]] = "started"
    BY DEF IInv, TypeOK, ManagedOK
  <2>2. 0 \in Indices /\ running[0] # NoObject
    BY <1>2, IndicesAssumption DEF IInv, ClientsHoldStartedInstances
  <2>3. CASE running[i] # NoObject
    BY <1>2, <2>1, <2>3
  <2>4. CASE running[i] = NoObject
    BY <2>1, <2>2, <2>4
  <2>5. QED
    BY <2>3, <2>4
<1> HIDE DEF i, o
<1>5. /\ phase' \in [Objects -> {"none", "starting", "started"}]
      /\ ManagedOK' /\ StartsOK'
  <2>1. /\ starting' = starting /\ running' = running
        /\ running \in [Indices -> Objects \cup {NoObject}]
    BY <1>3 DEF IInv, TypeOK, manager
  <2>2. QED
    BY <1>2, <1>3, <2>1, StopsOnly
<1>6. /\ held' \in [Clients -> Objects \cup {NoObject}]
      /\ \A c \in Clients : held'[c] = held[c] \/ held'[c] = o
  BY <1>3, <1>4 DEF IInv, TypeOK
<1>7. ClientsHoldStartedInstances'
  <2>1. \A c \in Clients : held'[c] # NoObject =>
          held'[c] \in Objects /\ phase[held'[c]] = "started"
    BY <1>4, <1>6 DEF IInv, TypeOK, ClientsHoldStartedInstances
  <2>2. \A c \in Clients : held'[c] # NoObject => phase'[held'[c]] = "started"
    BY <1>3, <2>1, Released DEF IInv
  <2>3. QED
    BY <1>3, <2>2 DEF IInv, ClientsHoldStartedInstances, manager
<1>8. TypeOK'
  <2>1. /\ current' \in [Clients -> Indices]
        /\ handling' \in Clients \cup {NoClient} /\ passed' \in BOOLEAN
    BY <1>2, <1>3 DEF IInv, TypeOK, Answered
  <2>2. QED
    BY <1>2, <1>3, <1>5, <1>6, <2>1 DEF IInv, TypeOK, database, manager
<1>9. ServicesOK'
  BY <1>2, <1>3 DEF ServicesOK, manager
<1>10. QED
  BY <1>5, <1>7, <1>8, <1>9 DEF IInv

(* A new object for an index that has none.                                *)
LEMMA StartInstanceOK ==
    ASSUME IInv, StartInstance PROVE IInv'
<1> DEFINE i == Head(calls).index
<1>1. Take("start")
  BY DEF StartInstance
<1>2. /\ calls' \in Seq(Calls) /\ AnnouncedOnce' /\ services /\ i \in Indices
      /\ \A k \in DOMAIN calls' : IsStart(calls'[k]) =>
           \E m \in DOMAIN calls : calls'[k] = calls[m]
  BY <1>1, TakenOK
<1>3. /\ UNCHANGED <<rows, running, fireStarter, services, clients>>
      /\ Answered
  BY DEF StartInstance
<1>4. handling' \in Clients \cup {NoClient} /\ passed' \in BOOLEAN
  BY <1>3 DEF Answered
<1>5. CASE UNCHANGED <<phase, starting, enabled, pending>>
  <2>1. /\ phase' \in [Objects -> {"none", "starting", "started"}]
        /\ ManagedOK' /\ StartsOK' /\ ServicesOK' /\ ClientsHoldStartedInstances'
    <3>1. /\ starting' = starting /\ services' = services /\ held' = held
          /\ running' = running /\ running \in [Indices -> Objects \cup {NoObject}]
          /\ UNCHANGED phase
      BY <1>3, <1>5 DEF IInv, TypeOK, clients
    <3>2. QED
      BY <1>2, <3>1, StopsOK
  <2>2. TypeOK'
    BY <1>2, <1>3, <1>4, <1>5 DEF IInv, TypeOK, clients
  <2>3. QED
    BY <2>1, <2>2 DEF IInv
<1>6. CASE \E life \in Lives :
             /\ i \in rows /\ starting[i] = NoObject /\ running[i] = NoObject
             /\ phase[<<i, life>>] = "none"
             /\ phase' = [phase EXCEPT ![<<i, life>>] = "starting"]
             /\ starting' = [starting EXCEPT ![i] = <<i, life>>]
             /\ enabled' = enabled \cup {i}
             /\ pending' = IF pending[i] = NoClient
                           THEN [pending EXCEPT ![i] = handling] ELSE pending
  <2>1. PICK o \in Objects :
             /\ o[1] = i /\ o # NoObject
             /\ i \in rows /\ starting[i] = NoObject /\ running[i] = NoObject
             /\ phase[o] = "none"
             /\ phase' = [phase EXCEPT ![o] = "starting"]
             /\ starting' = [starting EXCEPT ![i] = o]
             /\ enabled' = enabled \cup {i}
             /\ pending' = IF pending[i] = NoClient
                           THEN [pending EXCEPT ![i] = handling] ELSE pending
    <3>1. \A life \in Lives : <<i, life>> \in Objects /\ <<i, life>>[1] = i
                              /\ <<i, life>> # NoObject
      BY <1>2, NobodyAssumption DEF Objects
    <3>2. QED
      BY <1>6, <3>1
  <2> HIDE DEF i
  <2>2. TypeOK'
    BY <1>2, <1>3, <1>4, <2>1 DEF IInv, TypeOK, clients
  <2>3. ManagedOK'
    BY <1>2, <1>3, <2>1, IndicesAssumption DEF IInv, TypeOK, ManagedOK
  <2>4. StartsOK'
    <3>1. \A p \in Objects : phase'[p] = "starting" => starting'[p[1]] = p
      <4>1. SUFFICES ASSUME NEW p \in Objects, phase'[p] = "starting"
                     PROVE  starting'[p[1]] = p
        OBVIOUS
      <4>2. p[1] \in Indices
        BY DEF Objects
      <4>3. CASE p = o
        BY <1>2, <2>1, <4>3 DEF IInv, TypeOK
      <4>4. CASE p # o
        <5>1. starting[p[1]] = p
          BY <2>1, <4>1, <4>4 DEF IInv, TypeOK, StartsOK
        <5>2. p[1] # i
          BY <2>1, <5>1, NobodyAssumption
        <5>3. QED
          BY <2>1, <4>2, <5>1, <5>2 DEF IInv, TypeOK
      <4>5. QED
        BY <4>3, <4>4
    <3>2. \A k \in DOMAIN calls' : IsStart(calls'[k]) =>
             /\ starting'[calls'[k].object[1]] = calls'[k].object
             /\ phase'[calls'[k].object] = "started"
      <4>1. SUFFICES ASSUME NEW k \in DOMAIN calls', IsStart(calls'[k])
                     PROVE  /\ starting'[calls'[k].object[1]] = calls'[k].object
                            /\ phase'[calls'[k].object] = "started"
        OBVIOUS
      <4>2. PICK m \in DOMAIN calls : calls'[k] = calls[m]
        BY <1>2, <4>1
      <4>3. PICK p : p = calls[m].object
        OBVIOUS
      <4>4. starting[p[1]] = p /\ phase[p] = "started"
        BY <4>1, <4>2, <4>3 DEF IInv, StartsOK, Expected
      <4>5. p \in Objects
        <5>1. calls[m] \in Calls
          BY ElementOfSeq, LenProperties DEF IInv, TypeOK
        <5>2. QED
          BY <4>1, <4>2, <4>3, <5>1 DEF Calls, IsStart, Kinds
      <4>6. p[1] \in Indices /\ p[1] # i
        BY <2>1, <4>4, <4>5, NobodyAssumption DEF Objects
      <4>7. starting'[p[1]] = p /\ phase'[p] = "started"
        BY <2>1, <4>4, <4>5, <4>6 DEF IInv, TypeOK
      <4>8. QED
        BY <4>2, <4>3, <4>7
    <3>3. QED
      BY <1>2, <3>1, <3>2 DEF StartsOK, Expected, IsStart
  <2>5. ServicesOK' /\ ClientsHoldStartedInstances'
    <3>1. held' = held
      BY <1>3 DEF clients
    <3>2. \A c \in Clients : held[c] # NoObject => phase'[held[c]] = "started"
      <4>1. \A c \in Clients : held[c] # NoObject =>
              held[c] \in Objects /\ phase[held[c]] = "started"
        BY DEF IInv, TypeOK, ClientsHoldStartedInstances
      <4>2. QED
        BY <2>1, <4>1 DEF IInv, TypeOK
    <3>3. QED
      BY <1>2, <1>3, <3>1, <3>2 DEF IInv, ServicesOK, ClientsHoldStartedInstances
  <2>6. QED
    BY <2>2, <2>3, <2>4, <2>5 DEF IInv
<1>7. QED
  BY <1>5, <1>6 DEF StartInstance

LEMMA StartOK ==
    ASSUME IInv, NEW o \in Objects, Start(o) PROVE IInv'
<1> DEFINE e == JustStarted(o)
<1>1. e \in Calls /\ e.kind = "JustStarted" /\ e.object = o
  BY DEF Calls, JustStarted
<1>2. /\ calls \in Seq(Calls) /\ calls' = Append(calls, e)
      /\ phase[o] = "starting" /\ phase' = [phase EXCEPT ![o] = "started"]
      /\ UNCHANGED <<database, manager, clients, network>>
  BY DEF IInv, TypeOK, Start
<1> HIDE DEF e
<1>3. /\ calls' \in Seq(Calls)
      /\ \A k \in DOMAIN calls' :
            \/ k \in DOMAIN calls /\ calls'[k] = calls[k]
            \/ k = Len(calls) + 1 /\ calls'[k] = e
  BY <1>1, <1>2, Queued
<1>4. starting[o[1]] = o
  BY <1>2 DEF IInv, StartsOK
<1>5. \A k \in DOMAIN calls : IsStart(calls[k]) => calls[k].object # o
  BY <1>2 DEF IInv, StartsOK, Expected
<1>6. TypeOK'
  BY <1>2, <1>3 DEF IInv, TypeOK, database, manager, clients, network
<1>7. ManagedOK'
  BY <1>2 DEF IInv, TypeOK, ManagedOK, manager
<1>8. StartsOK'
  <2>1. \A p \in Objects : phase'[p] = "starting" => starting'[p[1]] = p
    BY <1>2 DEF IInv, TypeOK, StartsOK, manager
  <2>2. ASSUME NEW k \in DOMAIN calls', IsStart(calls'[k])
        PROVE  /\ starting'[calls'[k].object[1]] = calls'[k].object
               /\ phase'[calls'[k].object] = "started"
    <3>1. CASE calls'[k] = e
      BY <1>1, <1>2, <1>4, <3>1 DEF IInv, TypeOK, manager
    <3>2. CASE k \in DOMAIN calls /\ calls'[k] = calls[k]
      <4>1. PICK p : p = calls[k].object
        OBVIOUS
      <4>2. starting[p[1]] = p /\ phase[p] = "started"
        BY <2>2, <3>2, <4>1 DEF IInv, StartsOK, Expected
      <4>3. p # o
        BY <1>2, <4>2
      <4>4. phase'[p] = phase[p] /\ starting' = starting
        BY <1>2, <4>3 DEF IInv, TypeOK, manager
      <4>5. QED
        BY <3>2, <4>1, <4>2, <4>4
    <3>3. QED
      BY <1>3, <2>2, <3>1, <3>2
  <2>3. AnnouncedOnce'
    <3>1. SUFFICES ASSUME NEW k \in DOMAIN calls', NEW m \in DOMAIN calls',
                          IsStart(calls'[k]), IsStart(calls'[m]),
                          calls'[k].object = calls'[m].object
                   PROVE  k = m
      BY DEF AnnouncedOnce, IsStart
    <3>2. CASE k \in DOMAIN calls /\ m \in DOMAIN calls
                /\ calls'[k] = calls[k] /\ calls'[m] = calls[m]
      BY <3>1, <3>2 DEF IInv, StartsOK, AnnouncedOnce
    <3>3. CASE ~(k \in DOMAIN calls /\ m \in DOMAIN calls
                /\ calls'[k] = calls[k] /\ calls'[m] = calls[m])
      BY <1>1, <1>3, <1>5, <3>1, <3>3
    <3>4. QED
      BY <3>2, <3>3
  <2>4. QED
    BY <2>1, <2>2, <2>3 DEF StartsOK, Expected, IsStart
<1>9. ServicesOK'
  <2>1. Waiting' = Waiting
    BY <1>2 DEF Waiting, manager
  <2>2. QED
    BY <1>1, <1>2, <1>3, <2>1
       DEF IInv, ServicesOK, IsStart, manager, clients, network
<1>10. ClientsHoldStartedInstances'
  BY <1>2 DEF IInv, TypeOK, ClientsHoldStartedInstances, manager, clients
<1>11. QED
  BY <1>6, <1>7, <1>8, <1>9, <1>10 DEF IInv

(* The announced instance is the one expected; with the last one of the    *)
(* start of the daemon, the main instance runs.                            *)
LEMMA HandleInstanceJustStartedOK ==
    ASSUME IInv, HandleInstanceJustStarted PROVE IInv'
<1> DEFINE o == Head(calls).object
           i == o[1]
<1>1. /\ calls # <<>> /\ calls' = Tail(calls)
      /\ Head(calls).kind = "JustStarted"
  BY DEF HandleInstanceJustStarted, Take
<1>2. /\ calls' \in Seq(Calls)
      /\ Head(calls) \in Calls
      /\ AnnouncedOnce'
      /\ \A k \in DOMAIN calls' : \E m \in DOMAIN calls :
           calls'[k] = calls[m] /\ m # 1
      /\ 1 \in DOMAIN calls /\ Head(calls) = calls[1]
  BY <1>1, Taken DEF IInv, StartsOK
<1>3. o \in Objects /\ i \in Indices /\ o # NoObject
  BY <1>1, <1>2, NobodyAssumption DEF Calls, Kinds, Objects
<1>4. starting[i] = o /\ phase[o] = "started"
  BY <1>1, <1>2 DEF IInv, StartsOK, Expected, IsStart
<1>5. /\ running' = [running EXCEPT ![i] = o]
      /\ starting' = [starting EXCEPT ![i] = NoObject]
      /\ pending' = [pending EXCEPT ![i] = NoClient]
      /\ fireStarter' = IF fireStarter > 0 THEN fireStarter - 1 ELSE 0
      /\ services' = (services \/ fireStarter = 1)
      /\ UNCHANGED <<database, clients, network>>
      /\ Release
  BY <1>3, <1>4 DEF HandleInstanceJustStarted
<1>6. \A k \in DOMAIN calls' : IsStart(calls'[k]) => calls'[k].object # o
  BY <1>1, <1>2 DEF IInv, StartsOK, AnnouncedOnce, IsStart
<1> HIDE DEF o, i
<1>7. i = o[1]
  BY DEF i
<1>8. /\ running' \in [Indices -> Objects \cup {NoObject}]
      /\ starting' \in [Indices -> Objects \cup {NoObject}]
      /\ running'[i] = o /\ starting'[i] = NoObject
      /\ \A j \in Indices : j # i => running'[j] = running[j] /\ starting'[j] = starting[j]
  BY <1>3, <1>5 DEF IInv, TypeOK
<1>9. TypeOK'
  <2>1. phase' \in [Objects -> {"none", "starting", "started"}]
    BY <1>5, Released DEF IInv
  <2>2. pending' \in [Indices -> Clients \cup {NoClient}]
    BY <1>5 DEF IInv, TypeOK
  <2>3. fireStarter' \in Nat
    BY <1>5 DEF IInv, TypeOK
  <2>4. services' \in BOOLEAN
    BY <1>5 DEF IInv, TypeOK
  <2>5. QED
    BY <1>2, <1>5, <1>8, <2>1, <2>2, <2>3, <2>4
       DEF IInv, TypeOK, database, clients, network
<1>10. ManagedOK'
  <2>1. ASSUME NEW j \in Indices, starting'[j] # NoObject
        PROVE  starting'[j][1] = j /\ phase'[starting'[j]] # "none"
               /\ running'[j] = NoObject
    <3>1. j # i /\ starting'[j] = starting[j] /\ running'[j] = running[j]
      BY <1>8, <2>1
    <3>2. phase'[starting'[j]] = phase[starting'[j]]
      BY <1>5, <1>8, <2>1, Released DEF IInv
    <3>3. QED
      BY <2>1, <3>1, <3>2 DEF IInv, ManagedOK
  <2>2. ASSUME NEW j \in Indices, running'[j] # NoObject
        PROVE  running'[j][1] = j /\ phase'[running'[j]] = "started"
    <3>1. phase'[running'[j]] = phase[running'[j]]
      BY <1>5, <1>8, <2>2, Released DEF IInv
    <3>2. CASE j = i
      BY <1>4, <1>7, <1>8, <3>1, <3>2
    <3>3. CASE j # i
      BY <1>8, <2>2, <3>1, <3>3 DEF IInv, ManagedOK
    <3>4. QED
      BY <3>2, <3>3
  <2>3. starting'[0] # NoObject \/ running'[0] # NoObject
    <3>1. 0 \in Indices
      BY IndicesAssumption
    <3>2. QED
      BY <1>3, <1>8, <3>1 DEF IInv, ManagedOK
  <2>4. QED
    BY <2>1, <2>2, <2>3 DEF ManagedOK
<1>11. StartsOK'
  <2>1. ASSUME NEW p \in Objects, phase'[p] = "starting" PROVE starting'[p[1]] = p
    <3>1. phase[p] = "starting" /\ starting[p[1]] = p
      BY <1>5, <2>1, Released DEF IInv, StartsOK
    <3>2. p[1] \in Indices /\ p[1] # i
      BY <1>4, <3>1 DEF Objects
    <3>3. QED
      BY <1>8, <3>1, <3>2
  <2>2. ASSUME NEW k \in DOMAIN calls', IsStart(calls'[k])
        PROVE  /\ starting'[calls'[k].object[1]] = calls'[k].object
               /\ phase'[calls'[k].object] = "started"
    <3>1. PICK m \in DOMAIN calls : calls'[k] = calls[m]
      BY <1>2
    <3>2. PICK p : p = calls'[k].object
      OBVIOUS
    <3>3. starting[p[1]] = p /\ phase[p] = "started"
      BY <2>2, <3>1, <3>2 DEF IInv, StartsOK, Expected
    <3>4. p \in Objects /\ p # o
      <4>1. calls[m] \in Calls
        BY ElementOfSeq, LenProperties DEF IInv, TypeOK
      <4>2. QED
        BY <1>6, <2>2, <3>1, <3>2, <4>1 DEF Calls, IsStart, Kinds
    <3>5. p[1] \in Indices /\ p[1] # i
      BY <1>4, <3>3, <3>4 DEF Objects
    <3>6. starting'[p[1]] = p
      BY <1>8, <3>3, <3>5
    <3>7. phase'[p] = phase[p]
      BY <1>5, <3>4, <3>5, <3>6, Released DEF IInv
    <3>8. QED
      BY <3>2, <3>3, <3>6, <3>7
  <2>3. QED
    BY <1>2, <2>1, <2>2 DEF StartsOK, Expected, IsStart
<1>12. IsFiniteSet(Waiting) /\ i \in Waiting /\ Waiting' = Waiting \ {i}
  <2>1. IsFiniteSet(Waiting)
    BY IndicesAssumption, FS_Subset DEF Waiting
  <2>2. QED
    BY <1>3, <1>4, <1>8, <2>1 DEF Waiting
<1>13. /\ Cardinality(Waiting) \in Nat
       /\ IsFiniteSet(Waiting')
       /\ Cardinality(Waiting') = Cardinality(Waiting) - 1
  BY <1>12, FS_RemoveElement, FS_CardinalityType
<1>14. ServicesOK'
  <2>1. SUFFICES ASSUME ~services'
                 PROVE  /\ fireStarter' = Cardinality(Waiting')
                        /\ handling' = NoClient
                        /\ \A c \in Clients : held'[c] = NoObject
                        /\ \A k \in DOMAIN calls' : IsStart(calls'[k])
    BY DEF ServicesOK, IsStart
  <2>2. ~services /\ fireStarter # 1
    BY <1>5, <2>1
  <2>3. fireStarter' = Cardinality(Waiting')
    <3>1. Waiting # {}
      BY <1>12
    <3>2. Cardinality(Waiting) # 0
      BY <1>12, <3>1, FS_EmptySet
    <3>3. fireStarter = Cardinality(Waiting)
      BY <2>2 DEF IInv, ServicesOK
    <3>4. QED
      BY <1>5, <1>13, <3>2, <3>3
  <2>4. QED
    BY <1>2, <1>5, <2>2, <2>3 DEF IInv, ServicesOK, clients, network
<1>15. ClientsHoldStartedInstances'
  <2>1. ASSUME services' PROVE running'[0] # NoObject
    <3>1. 0 \in Indices
      BY IndicesAssumption
    <3>2. CASE services
      BY <1>3, <1>8, <3>1, <3>2 DEF IInv, ClientsHoldStartedInstances
    <3>3. CASE ~services
      <4>1. Cardinality(Waiting) = 1
        BY <1>5, <2>1, <3>3 DEF IInv, ServicesOK
      <4>2. Waiting' = {}
        BY <1>13, <4>1, FS_EmptySet
      <4>3. QED
        BY <1>10, <3>1, <4>2 DEF Waiting, ManagedOK
    <3>4. QED
      BY <3>2, <3>3
  <2>2. held' = held
    BY <1>5 DEF clients
  <2>3. \A c \in Clients : held'[c] # NoObject => phase'[held'[c]] = "started"
    BY <1>5, <2>2, Released DEF IInv, TypeOK, ClientsHoldStartedInstances
  <2>4. QED
    BY <2>1, <2>3 DEF ClientsHoldStartedInstances
<1>16. QED
  BY <1>9, <1>10, <1>11, <1>14, <1>15 DEF IInv

-----------------------------------------------------------------------------
(***************************************************************************)
(* Answers                                                                 *)
(***************************************************************************)

(* The calls for which the network thread waits.                           *)
Blocking == {"start", "create", "get", "isRunning"}

Blocks(call) == call.kind \in Blocking

(* While a client's message is handled, either its instance was found      *)
(* running, or exactly one question of it waits in the queue; without a    *)
(* message there is none.                                                  *)
OneAnswerIsAwaited ==
    /\ \A k, m \in DOMAIN calls : Blocks(calls[k]) /\ Blocks(calls[m]) => k = m
    /\ handling # NoClient /\ ~passed <=> \E k \in DOMAIN calls : Blocks(calls[k])

(* Nothing but the first call leaves the queue.                            *)
LEMMA TakenFirst ==
    ASSUME TypeOK, NEW kind, Take(kind)
    PROVE  /\ 1 \in DOMAIN calls /\ Head(calls) = calls[1] /\ calls[1].kind = kind
           /\ calls[1] \in Calls
           /\ \A k \in DOMAIN calls' :
                k \in Nat /\ k + 1 # 1 /\ k + 1 \in DOMAIN calls /\ calls'[k] = calls[k + 1]
           /\ \A k \in DOMAIN calls : k # 1 => \E m \in DOMAIN calls' : calls'[m] = calls[k]
<1>1. calls \in Seq(Calls) /\ calls # <<>> /\ calls' = Tail(calls)
  BY DEF TypeOK, Take
<1>2. /\ 1 \in DOMAIN calls /\ Head(calls) = calls[1] /\ calls[1] \in Calls
      /\ \A k \in DOMAIN calls' :
           k \in Nat /\ k + 1 # 1 /\ k + 1 \in DOMAIN calls /\ calls'[k] = calls[k + 1]
  BY <1>1, HandledFirst
<1>3. /\ DOMAIN calls = 1 .. Len(calls) /\ Len(calls) \in Nat
      /\ DOMAIN calls' = 1 .. Len(calls) - 1
  BY <1>1, LenProperties, HeadTailProperties
<1>4. ASSUME NEW k \in DOMAIN calls, k # 1
      PROVE  \E m \in DOMAIN calls' : calls'[m] = calls[k]
  <2>1. k - 1 \in DOMAIN calls' /\ (k - 1) + 1 = k
    BY <1>3, <1>4
  <2>2. QED
    BY <1>2, <2>1
<1>5. QED
  BY <1>2, <1>4 DEF Take

(* A queued call is behind all others, which stay.                         *)
LEMMA QueuedLast ==
    ASSUME TypeOK, NEW e \in Calls, calls' = Append(calls, e)
    PROVE  /\ \A k \in DOMAIN calls : k \in DOMAIN calls' /\ calls'[k] = calls[k]
           /\ \A k \in DOMAIN calls' : k \in DOMAIN calls \/ k = Len(calls) + 1
           /\ Len(calls) + 1 \in DOMAIN calls' /\ calls'[Len(calls) + 1] = e
<1>1. calls \in Seq(Calls)
  BY DEF TypeOK
<1>2. /\ Len(calls') = Len(calls) + 1 /\ Len(calls) \in Nat /\ calls' \in Seq(Calls)
      /\ \A k \in 1 .. Len(calls) : calls'[k] = calls[k]
      /\ calls'[Len(calls) + 1] = e
  BY <1>1, AppendProperties, LenProperties
<1>3. DOMAIN calls = 1 .. Len(calls) /\ DOMAIN calls' = 1 .. Len(calls) + 1
  BY <1>1, <1>2, LenProperties
<1>4. QED
  BY <1>2, <1>3

(* Taking the question answers it; other calls leave it alone.             *)
LEMMA TakenQuestion ==
    ASSUME TypeOK, OneAnswerIsAwaited, NEW kind, Take(kind)
    PROVE  /\ kind \in Blocking =>
                /\ handling # NoClient /\ ~passed
                /\ \A k \in DOMAIN calls : Blocks(calls[k]) => k = 1
                /\ \A k \in DOMAIN calls' : ~Blocks(calls'[k])
           /\ kind \notin Blocking /\ UNCHANGED network => OneAnswerIsAwaited'
<1>1. /\ 1 \in DOMAIN calls /\ calls[1].kind = kind
      /\ \A k \in DOMAIN calls' :
           k \in Nat /\ k + 1 # 1 /\ k + 1 \in DOMAIN calls /\ calls'[k] = calls[k + 1]
      /\ \A k \in DOMAIN calls : k # 1 => \E m \in DOMAIN calls' : calls'[m] = calls[k]
  BY TakenFirst
<1>2. CASE kind \in Blocking
  BY <1>1, <1>2 DEF OneAnswerIsAwaited, Blocks
<1>3. ASSUME kind \notin Blocking, UNCHANGED network PROVE OneAnswerIsAwaited'
  <2>1. ASSUME NEW k \in DOMAIN calls', NEW m \in DOMAIN calls',
               Blocks(calls'[k]), Blocks(calls'[m])
        PROVE  k = m
    <3>1. k + 1 = m + 1
      BY <1>1, <2>1 DEF OneAnswerIsAwaited
    <3>2. QED
      BY <1>1, <3>1
  <2>2. (\E k \in DOMAIN calls' : Blocks(calls'[k])) <=> \E k \in DOMAIN calls : Blocks(calls[k])
    BY <1>1, <1>3 DEF Blocks
  <2>3. QED
    BY <1>3, <2>1, <2>2 DEF OneAnswerIsAwaited, Blocks, network
<1>4. QED
  BY <1>2, <1>3

(* When nothing is asked, a client may ask.                                *)
LEMMA AskedQuestion ==
    ASSUME TypeOK, OneAnswerIsAwaited, handling = NoClient \/ passed,
           NEW c \in Clients, NEW kind \in Blocking, NEW i \in Indices,
           Ask(c, Call(kind, i))
    PROVE  OneAnswerIsAwaited'
<1> DEFINE e == Call(kind, i)
<1>1. e \in Calls /\ Blocks(e)
  BY CallOK DEF Blocking, Kinds, Blocks, Call
<1>2. calls' = Append(calls, e) /\ handling' = c /\ passed' = FALSE
  BY DEF Ask
<1> HIDE DEF e
<1>3. \A k \in DOMAIN calls : ~Blocks(calls[k])
  BY DEF OneAnswerIsAwaited
<1>4. /\ \A k \in DOMAIN calls : k \in DOMAIN calls' /\ calls'[k] = calls[k]
      /\ \A k \in DOMAIN calls' : k \in DOMAIN calls \/ k = Len(calls) + 1
      /\ Len(calls) + 1 \in DOMAIN calls' /\ calls'[Len(calls) + 1] = e
  BY <1>1, <1>2, QueuedLast
<1>5. \A k \in DOMAIN calls' : Blocks(calls'[k]) <=> k = Len(calls) + 1
  BY <1>1, <1>3, <1>4
<1>6. handling' # NoClient
  BY <1>2, NobodyAssumption
<1>7. QED
  BY <1>2, <1>4, <1>5, <1>6 DEF OneAnswerIsAwaited, Blocks

(* Other calls change nothing of it.                                       *)
LEMMA QueuedOther ==
    ASSUME TypeOK, OneAnswerIsAwaited, NEW e \in Calls, ~Blocks(e), calls' = Append(calls, e),
           (handling # NoClient /\ ~passed) <=> (handling' # NoClient /\ ~passed')
    PROVE  OneAnswerIsAwaited'
<1>1. /\ \A k \in DOMAIN calls : k \in DOMAIN calls' /\ calls'[k] = calls[k]
      /\ \A k \in DOMAIN calls' : k \in DOMAIN calls \/ k = Len(calls) + 1
      /\ calls'[Len(calls) + 1] = e
  BY QueuedLast
<1>2. \A k \in DOMAIN calls' : Blocks(calls'[k]) => k \in DOMAIN calls /\ Blocks(calls[k])
  BY <1>1
<1>3. (\E k \in DOMAIN calls' : Blocks(calls'[k])) <=> \E k \in DOMAIN calls : Blocks(calls[k])
  BY <1>1, <1>2
<1>4. QED
  BY <1>2, <1>3 DEF OneAnswerIsAwaited, Blocks

LEMMA QuestionsOK ==
    ASSUME IInv, OneAnswerIsAwaited, [Next]_vars
    PROVE  OneAnswerIsAwaited'
<1>0. TypeOK /\ 0 \in Indices
  BY IndicesAssumption DEF IInv
<1>1. ASSUME NEW o \in Objects, Start(o) PROVE OneAnswerIsAwaited'
  <2>1. JustStarted(o) \in Calls /\ ~Blocks(JustStarted(o))
    BY DEF JustStarted, Calls, Blocks, Blocking
  <2>2. calls' = Append(calls, JustStarted(o)) /\ UNCHANGED <<handling, passed>>
    BY <1>1 DEF Start, network
  <2>3. QED
    BY <1>0, <2>1, <2>2, QueuedOther
<1>2. ASSUME NEW kind \in {"JustStarted", "stop", "delete"}, Take(kind), UNCHANGED network
      PROVE  OneAnswerIsAwaited'
  BY <1>0, <1>2, TakenQuestion DEF Blocking
<1>3. ASSUME NEW kind \in Blocking, Take(kind),
             Answered \/ (passed' = TRUE /\ UNCHANGED handling)
      PROVE  OneAnswerIsAwaited'
  <2>1. \A k \in DOMAIN calls' : ~Blocks(calls'[k])
    BY <1>0, <1>3, TakenQuestion
  <2>2. handling' = NoClient \/ passed'
    BY <1>3 DEF Answered
  <2>3. QED
    BY <2>1, <2>2 DEF OneAnswerIsAwaited, Blocks
<1>4. CASE Main
  <2>1. CASE HandleInstanceJustStarted \/ StopInstance \/ DeleteInstance
    BY <1>2, <2>1 DEF HandleInstanceJustStarted, StopInstance, DeleteInstance
  <2>2. CASE StartInstance \/ CreateInstance \/ GetAmbilightAppInstance \/ IsInstanceRunning
    BY <1>3, <2>2 DEF StartInstance, CreateInstance, GetAmbilightAppInstance,
                      IsInstanceRunning, Blocking
  <2>3. QED
    BY <1>4, <2>1, <2>2 DEF Main
<1>5. ASSUME handling = NoClient \/ passed,
             NEW c \in Clients, NEW kind \in Blocking, NEW i \in Indices,
             Ask(c, Call(kind, i))
      PROVE  OneAnswerIsAwaited'
  BY <1>0, <1>5, AskedQuestion
<1>6. CASE UNCHANGED <<calls, network>>
  BY <1>6 DEF OneAnswerIsAwaited, Blocks, network
<1>7. ASSUME NEW c \in Clients,
             Connect(c) \/ Disconnect(c) \/ HandleMessage(c) \/ HandleInstanceStateChange(c)
      PROVE  OneAnswerIsAwaited'
  <2>1. current[c] \in Indices
    BY <1>0 DEF TypeOK
  <2>2. QED
    BY <1>0, <1>5, <1>6, <1>7, <2>1
       DEF Connect, Disconnect, HandleMessage, HandleInstanceStateChange, Idle, Blocking
<1>8. CASE HandleInstanceCommand
  <2>1. handling \in Clients /\ passed
    BY <1>0, <1>8 DEF HandleInstanceCommand, TypeOK
  <2>2. CASE \/ \E i \in Indices : Ask(handling, Call("get", i))
             \/ \E i \in Indices : Ask(handling, Call("start", i))
             \/ Ask(handling, Call("create", 0))
    BY <1>0, <1>5, <2>1, <2>2 DEF Blocking
  <2>3. CASE Answered /\ \E i \in Indices, kind \in {"stop", "delete"} :
                            calls' = Append(calls, Call(kind, i))
    <3>1. PICK i \in Indices, kind \in {"stop", "delete"} :
             calls' = Append(calls, Call(kind, i))
      BY <2>3
    <3>2. Call(kind, i) \in Calls /\ ~Blocks(Call(kind, i))
      BY CallOK DEF Kinds, Blocks, Blocking, Call
    <3>3. ~(handling # NoClient /\ ~passed) /\ ~(handling' # NoClient /\ ~passed')
      BY <2>1, <2>3 DEF Answered
    <3>4. QED
      BY <1>0, <3>1, <3>2, <3>3, QueuedOther
  <2>4. CASE Answered /\ UNCHANGED calls
    <3>1. ~(handling # NoClient /\ ~passed) /\ ~(handling' # NoClient /\ ~passed')
      BY <2>1, <2>4 DEF Answered
    <3>2. QED
      BY <2>4, <3>1 DEF OneAnswerIsAwaited, Blocks
  <2>5. QED
    BY <1>8, <2>2, <2>3, <2>4 DEF HandleInstanceCommand
<1>9. QED
  BY <1>1, <1>4, <1>6, <1>7, <1>8 DEF Next, vars

(* A client that may go on, or that asks whether its instance runs, holds  *)
(* one.                                                                    *)
IsRunningAsked == \E k \in DOMAIN calls : calls[k].kind = "isRunning"

AskersHold ==
    passed \/ IsRunningAsked => handling \in Clients /\ held[handling] # NoObject

LEMMA AskersOK ==
    ASSUME IInv, OneAnswerIsAwaited, OneAnswerIsAwaited', AskersHold, [Next]_vars
    PROVE  AskersHold'
<1>0. TypeOK /\ 0 \in Indices
  BY IndicesAssumption DEF IInv
<1>1. ASSUME Answered PROVE AskersHold'
  <2>1. \A k \in DOMAIN calls' : ~Blocks(calls'[k])
    BY <1>1 DEF Answered, OneAnswerIsAwaited, Blocks
  <2>2. QED
    BY <1>1, <2>1 DEF AskersHold, IsRunningAsked, Answered, Blocks, Blocking
<1>2. ASSUME UNCHANGED <<handling, held>>, passed' => passed \/ IsRunningAsked,
             IsRunningAsked' => IsRunningAsked
      PROVE  AskersHold'
  BY <1>2 DEF AskersHold
<1>3. ASSUME NEW kind, Take(kind)
      PROVE  /\ IsRunningAsked' => IsRunningAsked
             /\ kind = "isRunning" => IsRunningAsked
  BY <1>0, <1>3, TakenFirst DEF IsRunningAsked
<1>4. ASSUME NEW e \in Calls, e.kind # "isRunning", calls' = Append(calls, e)
      PROVE  IsRunningAsked' => IsRunningAsked
  BY <1>0, <1>4, QueuedLast DEF IsRunningAsked
<1>5. ASSUME handling = NoClient \/ passed, NEW c \in Clients,
             NEW kind \in Blocking \ {"isRunning"}, NEW i \in Indices,
             Ask(c, Call(kind, i))
      PROVE  AskersHold'
  <2>1. Call(kind, i) \in Calls /\ Call(kind, i).kind # "isRunning"
    BY CallOK DEF Blocking, Kinds, Call
  <2>2. ~IsRunningAsked
    BY <1>5 DEF OneAnswerIsAwaited, IsRunningAsked, Blocks, Blocking
  <2>3. QED
    BY <1>4, <1>5, <2>1, <2>2 DEF AskersHold, Ask
<1>6. ASSUME NEW o \in Objects, Start(o) PROVE AskersHold'
  <2>1. JustStarted(o) \in Calls /\ JustStarted(o).kind # "isRunning"
    BY DEF JustStarted, Calls
  <2>2. calls' = Append(calls, JustStarted(o)) /\ UNCHANGED <<handling, passed, held>>
    BY <1>6 DEF Start, network, clients
  <2>3. QED
    BY <1>2, <1>4, <2>1, <2>2
<1>7. CASE Main
  <2>1. CASE HandleInstanceJustStarted \/ StopInstance \/ DeleteInstance
    <3>1. UNCHANGED <<handling, passed, held>> /\ (IsRunningAsked' => IsRunningAsked)
      BY <1>3, <2>1 DEF HandleInstanceJustStarted, StopInstance, DeleteInstance, network,
                        clients
    <3>2. QED
      BY <1>2, <3>1
  <2>2. CASE StartInstance \/ CreateInstance \/ GetAmbilightAppInstance
    BY <1>1, <2>2 DEF StartInstance, CreateInstance, GetAmbilightAppInstance
  <2>3. CASE IsInstanceRunning
    BY <1>1, <1>2, <1>3, <2>3 DEF IsInstanceRunning, clients
  <2>4. QED
    BY <1>7, <2>1, <2>2, <2>3 DEF Main
<1>8. ASSUME NEW c \in Clients,
             Connect(c) \/ Disconnect(c) \/ HandleMessage(c) \/ HandleInstanceStateChange(c)
      PROVE  AskersHold'
  <2>1. CASE Connect(c)
    BY <1>0, <1>5, <2>1 DEF Connect, Idle, Blocking
  <2>2. CASE Disconnect(c)
    <3>1. handling = NoClient /\ UNCHANGED <<handling, passed, calls>>
      BY <2>2 DEF Disconnect, Idle, network
    <3>2. ~passed /\ ~IsRunningAsked
      BY <3>1, NobodyAssumption DEF AskersHold
    <3>3. QED
      BY <3>1, <3>2 DEF AskersHold, IsRunningAsked
  <2>3. CASE HandleMessage(c)
    BY <2>3 DEF HandleMessage, Ask, clients, AskersHold
  <2>4. CASE HandleInstanceStateChange(c)
    <3>1. CASE current[c] = Head(news[c])
      BY <1>0, <1>5, <2>4, <3>1 DEF HandleInstanceStateChange, Idle, Blocking
    <3>2. CASE current[c] # Head(news[c])
      <4>1. UNCHANGED <<handling, passed, held, calls>>
        BY <2>4, <3>2 DEF HandleInstanceStateChange, network
      <4>2. QED
        BY <1>2, <4>1 DEF IsRunningAsked
    <3>3. QED
      BY <3>1, <3>2
  <2>5. QED
    BY <1>8, <2>1, <2>2, <2>3, <2>4
<1>9. CASE HandleInstanceCommand
  <2>1. handling \in Clients /\ passed
    BY <1>0, <1>9 DEF HandleInstanceCommand, TypeOK
  <2>2. CASE \/ \E i \in Indices : Ask(handling, Call("get", i))
             \/ \E i \in Indices : Ask(handling, Call("start", i))
             \/ Ask(handling, Call("create", 0))
    BY <1>0, <1>5, <2>1, <2>2 DEF Blocking
  <2>3. CASE Answered
    BY <1>1, <2>3
  <2>4. QED
    BY <1>9, <2>2, <2>3 DEF HandleInstanceCommand
<1>10. CASE UNCHANGED vars
  <2>1. UNCHANGED <<handling, passed, held, calls>>
    BY <1>10 DEF vars, network, clients
  <2>2. QED
    BY <1>2, <2>1 DEF IsRunningAsked
<1>11. QED
  BY <1>6, <1>7, <1>8, <1>9, <1>10 DEF Next

-----------------------------------------------------------------------------
(***************************************************************************)
(* Starts                                                                  *)
(***************************************************************************)

(* Who asked for a start asked for one that is under way: the thread of    *)
(* the instance is still at it, or its announcement waits in the queue.    *)
StartsAreUnderWay ==
    \A i \in Indices :
        /\ pending[i] # NoClient => starting[i] # NoObject
        /\ starting[i] # NoObject =>
             \/ phase[starting[i]] = "starting"
             \/ \E k \in DOMAIN calls : calls[k] = JustStarted(starting[i])

(* A step that neither starts an instance nor handles an announcement.     *)
LEMMA StartsStay ==
    ASSUME TypeOK, StartsAreUnderWay, Release \/ UNCHANGED phase,
           UNCHANGED <<starting, pending>>,
           \A k \in DOMAIN calls : IsStart(calls[k]) =>
                \E m \in DOMAIN calls' : calls'[m] = calls[k]
    PROVE  StartsAreUnderWay'
<1>1. ASSUME NEW i \in Indices, starting[i] # NoObject
      PROVE  phase'[starting'[i]] = phase[starting[i]]
  BY <1>1, Released DEF TypeOK
<1>2. ASSUME NEW i \in Indices, NEW k \in DOMAIN calls, calls[k] = JustStarted(starting[i])
      PROVE  \E m \in DOMAIN calls' : calls'[m] = JustStarted(starting[i])
  BY <1>2 DEF IsStart, JustStarted
<1>3. QED
  BY <1>1, <1>2 DEF StartsAreUnderWay, JustStarted

LEMMA UnderWayOK ==
    ASSUME IInv, StartsAreUnderWay, [Next]_vars
    PROVE  StartsAreUnderWay'
<1>0. TypeOK
  BY DEF IInv
<1>1. ASSUME NEW o \in Objects, Start(o) PROVE StartsAreUnderWay'
  <2> DEFINE e == JustStarted(o)
  <2>1. /\ calls' = Append(calls, e) /\ e \in Calls
        /\ phase' = [phase EXCEPT ![o] = "started"]
        /\ UNCHANGED <<starting, pending>>
    BY <1>1 DEF Start, manager, JustStarted, Calls
  <2> HIDE DEF e
  <2>2. /\ \A k \in DOMAIN calls : k \in DOMAIN calls' /\ calls'[k] = calls[k]
        /\ Len(calls) + 1 \in DOMAIN calls' /\ calls'[Len(calls) + 1] = e
    BY <1>0, <2>1, QueuedLast
  <2>3. ASSUME NEW i \in Indices, starting[i] # NoObject
        PROVE  \/ phase'[starting[i]] = "starting"
               \/ \E k \in DOMAIN calls' : calls'[k] = JustStarted(starting[i])
    <3>1. CASE starting[i] = o
      BY <2>2, <3>1 DEF e
    <3>2. CASE starting[i] # o
      <4>1. starting[i] \in Objects
        BY <1>0, <2>3 DEF TypeOK
      <4>2. phase'[starting[i]] = phase[starting[i]]
        BY <1>0, <2>1, <3>2, <4>1 DEF TypeOK
      <4>3. QED
        BY <2>2, <2>3, <4>2 DEF StartsAreUnderWay
    <3>3. QED
      BY <3>1, <3>2
  <2>4. QED
    BY <2>1, <2>3 DEF StartsAreUnderWay, JustStarted
<1>2. ASSUME NEW kind, kind # "JustStarted", Take(kind), Release \/ UNCHANGED phase,
             UNCHANGED <<starting, pending>>
      PROVE  StartsAreUnderWay'
  <2>1. \A k \in DOMAIN calls : IsStart(calls[k]) => \E m \in DOMAIN calls' : calls'[m] = calls[k]
    BY <1>0, <1>2, TakenFirst DEF IsStart
  <2>2. QED
    BY <1>0, <1>2, <2>1, StartsStay
<1>3. CASE StopInstance \/ DeleteInstance \/ CreateInstance \/ GetAmbilightAppInstance
           \/ IsInstanceRunning
  <2>1. \E kind \in Kinds : Take(kind)
    BY <1>3 DEF StopInstance, DeleteInstance, CreateInstance, GetAmbilightAppInstance,
                IsInstanceRunning, Kinds
  <2>2. (Release \/ UNCHANGED phase) /\ UNCHANGED <<starting, pending>>
    BY <1>3 DEF StopInstance, DeleteInstance, CreateInstance, GetAmbilightAppInstance,
                IsInstanceRunning, manager
  <2>3. QED
    BY <1>2, <2>1, <2>2 DEF Kinds
<1>4. CASE StartInstance
  <2> DEFINE i == Head(calls).index
  <2>1. Take("start")
    BY <1>4 DEF StartInstance
  <2>2. i \in Indices
    BY <2>1, TakenOK
  <2>3. CASE UNCHANGED <<phase, starting, enabled, pending>>
    BY <1>2, <2>1, <2>3
  <2>4. CASE \E life \in Lives :
                /\ starting[i] = NoObject
                /\ phase' = [phase EXCEPT ![<<i, life>>] = "starting"]
                /\ starting' = [starting EXCEPT ![i] = <<i, life>>]
                /\ pending' = IF pending[i] = NoClient
                              THEN [pending EXCEPT ![i] = handling] ELSE pending
    <3> HIDE DEF i
    <3>1. PICK o \in Objects :
             /\ o[1] = i /\ o # NoObject
             /\ phase' = [phase EXCEPT ![o] = "starting"]
             /\ starting' = [starting EXCEPT ![i] = o]
             /\ \A j \in Indices : j # i => pending'[j] = pending[j]
      <4>1. \A life \in Lives : /\ <<i, life>> \in Objects /\ <<i, life>>[1] = i
                                /\ <<i, life>> # NoObject
        BY <2>2, NobodyAssumption DEF Objects
      <4>2. \A j \in Indices : j # i => pending'[j] = pending[j]
        BY <1>0, <2>4 DEF TypeOK
      <4>3. QED
        BY <2>4, <4>1, <4>2
    <3>2. starting'[i] # NoObject /\ phase'[starting'[i]] = "starting"
      BY <1>0, <2>2, <3>1 DEF TypeOK
    <3>3. ASSUME NEW j \in Indices, j # i
          PROVE  /\ starting'[j] = starting[j]
                 /\ starting[j] # NoObject => phase'[starting[j]] = phase[starting[j]]
      <4>1. starting'[j] = starting[j]
        BY <1>0, <3>1, <3>3 DEF TypeOK
      <4>2. ASSUME starting[j] # NoObject PROVE phase'[starting[j]] = phase[starting[j]]
        <5>1. starting[j] \in Objects /\ starting[j][1] = j
          BY <1>0, <4>2 DEF TypeOK, IInv, ManagedOK
        <5>2. QED
          BY <1>0, <3>1, <3>3, <5>1 DEF TypeOK
      <4>3. QED
        BY <4>1, <4>2
    <3>4. \A k \in DOMAIN calls : IsStart(calls[k]) =>
             \E m \in DOMAIN calls' : calls'[m] = calls[k]
      BY <1>0, <2>1, TakenFirst DEF IsStart
    <3>5. ASSUME NEW j \in Indices
          PROVE  /\ pending'[j] # NoClient => starting'[j] # NoObject
                 /\ starting'[j] # NoObject =>
                      \/ phase'[starting'[j]] = "starting"
                      \/ \E k \in DOMAIN calls' : calls'[k] = JustStarted(starting'[j])
      <4>1. CASE j = i
        BY <3>2, <4>1
      <4>2. CASE j # i
        <5>1. IsStart(JustStarted(starting[j]))
          BY DEF IsStart, JustStarted
        <5>2. QED
          BY <3>1, <3>3, <3>4, <4>2, <5>1 DEF StartsAreUnderWay
      <4>3. QED
        BY <4>1, <4>2
    <3>6. QED
      BY <3>5 DEF StartsAreUnderWay, JustStarted
  <2>5. QED
    BY <1>4, <2>3, <2>4 DEF StartInstance
<1>5. CASE HandleInstanceJustStarted
  <2> DEFINE o == Head(calls).object
             i == o[1]
  <2>1. Take("JustStarted")
    BY <1>5 DEF HandleInstanceJustStarted
  <2>2. /\ 1 \in DOMAIN calls /\ Head(calls) = calls[1] /\ IsStart(calls[1])
        /\ calls[1] \in Calls
        /\ \A k \in DOMAIN calls : k # 1 => \E m \in DOMAIN calls' : calls'[m] = calls[k]
    BY <1>0, <2>1, TakenFirst DEF IsStart
  <2>3. o \in Objects /\ i \in Indices /\ o # NoObject
    BY <2>2, NobodyAssumption DEF Calls, Kinds, Objects, IsStart
  <2>4. starting[i] = o
    BY <2>2 DEF IInv, StartsOK, Expected
  <2>5. /\ starting' = [starting EXCEPT ![i] = NoObject]
        /\ running' = [running EXCEPT ![i] = o]
        /\ pending' = [pending EXCEPT ![i] = NoClient]
        /\ Release
    BY <1>5, <2>3, <2>4 DEF HandleInstanceJustStarted
  <2>6. o = calls[1].object
    BY <2>2
  <2> HIDE DEF i, o
  <2>7. ASSUME NEW j \in Indices, j # i
        PROVE  /\ starting'[j] = starting[j] /\ pending'[j] = pending[j]
               /\ starting[j] # NoObject =>
                    \/ phase'[starting[j]] = "starting"
                    \/ \E k \in DOMAIN calls' : calls'[k] = JustStarted(starting[j])
    <3>1. starting'[j] = starting[j] /\ pending'[j] = pending[j]
      BY <1>0, <2>5, <2>7 DEF TypeOK
    <3>2. ASSUME starting[j] # NoObject
          PROVE  phase'[starting[j]] = phase[starting[j]] /\ starting[j] # o
      <4>1. starting[j] \in Objects /\ starting[j][1] = j
        BY <1>0, <3>2 DEF TypeOK, IInv, ManagedOK
      <4>2. phase'[starting[j]] = phase[starting[j]]
        BY <1>0, <2>5, <3>1, <4>1, Released
      <4>3. QED
        BY <2>7, <4>1, <4>2 DEF i
    <3>3. JustStarted(starting[j]).object = starting[j]
      BY DEF JustStarted
    <3>4. QED
      BY <2>2, <2>6, <3>1, <3>2, <3>3 DEF StartsAreUnderWay
  <2>8. starting'[i] = NoObject /\ pending'[i] = NoClient
    BY <1>0, <2>3, <2>5 DEF TypeOK
  <2>9. QED
    BY <2>7, <2>8 DEF StartsAreUnderWay, JustStarted
<1>6. ASSUME UNCHANGED calls \/ \E e \in Calls : calls' = Append(calls, e),
             Release \/ UNCHANGED phase, UNCHANGED <<starting, pending>>
      PROVE  StartsAreUnderWay'
  <2>1. \A k \in DOMAIN calls : \E m \in DOMAIN calls' : calls'[m] = calls[k]
    BY <1>0, <1>6, QueuedLast
  <2>2. QED
    BY <1>0, <1>6, <2>1, StartsStay
<1>7. ASSUME NEW c \in Clients,
             Connect(c) \/ Disconnect(c) \/ HandleMessage(c) \/ HandleInstanceStateChange(c)
      PROVE  StartsAreUnderWay'
  <2>1. \A i \in Indices : Call("get", i) \in Calls /\ Call("isRunning", i) \in Calls
    BY CallOK DEF Kinds
  <2>2. 0 \in Indices /\ current[c] \in Indices
    BY <1>0, IndicesAssumption DEF TypeOK
  <2>3. UNCHANGED calls \/ \E e \in Calls : calls' = Append(calls, e)
    BY <1>7, <2>1, <2>2
       DEF Connect, Disconnect, HandleMessage, HandleInstanceStateChange, Ask
  <2>4. (Release \/ UNCHANGED phase) /\ UNCHANGED <<starting, pending>>
    BY <1>7 DEF Connect, Disconnect, HandleMessage, HandleInstanceStateChange, manager
  <2>5. QED
    BY <1>6, <2>3, <2>4
<1>8. CASE HandleInstanceCommand
  <2>1. \A kind \in Kinds, i \in Indices : Call(kind, i) \in Calls
    BY CallOK
  <2>2. UNCHANGED calls \/ \E e \in Calls : calls' = Append(calls, e)
    BY <1>8, <2>1, IndicesAssumption DEF HandleInstanceCommand, Ask, Kinds
  <2>3. QED
    BY <1>6, <1>8, <2>2 DEF HandleInstanceCommand, manager
<1>9. CASE UNCHANGED vars
  BY <1>6, <1>9 DEF vars, manager
<1>10. QED
  BY <1>1, <1>3, <1>4, <1>5, <1>7, <1>8, <1>9 DEF Next, Main

-----------------------------------------------------------------------------
(***************************************************************************)
(* What clients hold                                                       *)
(***************************************************************************)

(* A client knows the index of what it holds, unless the main instance     *)
(* stands in for another one.                                              *)
IndexIsKnown ==
    \A c \in Clients : held[c] # NoObject /\ held[c][1] # 0 => current[c] = held[c][1]

(* A client on its way to another instance: the stop of the one it holds   *)
(* waits for it, or it is asking for another one.                          *)
HearsOfStop(c) ==
    /\ current[c] = held[c][1]
    /\ \E k \in DOMAIN news[c] : news[c][k] = held[c][1]

Fetches(c) == handling = c /\ \E k \in DOMAIN calls : calls[k].kind = "get"

(* Whoever holds an instance that was stopped will let go of it, and       *)
(* nothing else keeps an instance.                                         *)
StoppedAreLetGo ==
    \A c \in Clients :
        held[c] # NoObject => held[c] \in Managed \/ HearsOfStop(c) \/ Fetches(c)

NothingLeaks == \A o \in Objects : phase[o] # "none" => o \in Kept

(* An instance that was stopped and still lives is held by clients only,   *)
(* each of which is about to let go of it.                                 *)
StoppedInstancesAreLeaving ==
    \A o \in Objects \ Managed : phase[o] # "none" =>
        /\ \E c \in Clients : held[c] = o
        /\ \A c \in Clients : held[c] = o => HearsOfStop(c) \/ Fetches(c)

(* A step that touches no client and stops nothing.                        *)
LEMMA HoldersStay ==
    ASSUME TypeOK, IndexIsKnown, StoppedAreLetGo, UNCHANGED <<held, current, news>>,
           \A o \in Objects : o \in Managed => o \in Managed',
           \A c \in Clients : Fetches(c) => Fetches(c)'
    PROVE  IndexIsKnown' /\ StoppedAreLetGo'
<1>1. IndexIsKnown'
  BY DEF IndexIsKnown
<1>2. ASSUME NEW c \in Clients, held[c] # NoObject
      PROVE  held[c] \in Managed' \/ HearsOfStop(c)' \/ Fetches(c)'
  <2>1. held[c] \in Objects
    BY <1>2 DEF TypeOK
  <2>2. HearsOfStop(c) => HearsOfStop(c)'
    BY DEF HearsOfStop
  <2>3. QED
    BY <1>2, <2>1, <2>2 DEF StoppedAreLetGo
<1>3. QED
  BY <1>1, <1>2 DEF StoppedAreLetGo

(* The main thread takes a call that is not about clients.                 *)
LEMMA FetchesStays ==
    ASSUME TypeOK, OneAnswerIsAwaited, NEW kind, Take(kind), kind # "get",
           kind \in Blocking \/ UNCHANGED handling
    PROVE  \A c \in Clients : Fetches(c) => Fetches(c)'
<1>1. CASE kind \in Blocking
  <2>1. calls[1].kind = kind /\ \A k \in DOMAIN calls : Blocks(calls[k]) => k = 1
    BY <1>1, TakenFirst, TakenQuestion
  <2>2. \A k \in DOMAIN calls : calls[k].kind # "get"
    BY <2>1 DEF Blocks, Blocking
  <2>3. QED
    BY <2>2 DEF Fetches
<1>2. CASE UNCHANGED handling
  BY <1>2, TakenFirst DEF Fetches
<1>3. QED
  BY <1>1, <1>2

(* When nothing is asked, nobody fetches.                                  *)
LEMMA NobodyFetches ==
    ASSUME OneAnswerIsAwaited, handling = NoClient \/ passed
    PROVE  \A c \in Clients : ~Fetches(c)
BY DEF OneAnswerIsAwaited, Fetches, Blocks, Blocking

(* The holders of an instance that is stopped are told.                    *)
LEMMA StopTells ==
    ASSUME IInv, OneAnswerIsAwaited, IndexIsKnown, StoppedAreLetGo,
           StopInstance \/ DeleteInstance
    PROVE  IndexIsKnown' /\ StoppedAreLetGo'
<1> DEFINE i == Head(calls).index
<1>0. TypeOK
  BY DEF IInv
<1>1. PICK kind \in {"stop", "delete"} : Take(kind)
  BY DEF StopInstance, DeleteInstance
<1>2. i \in Indices
  BY <1>1, TakenOK
<1>3. \/ CanBeStopped(i) /\ Stop(i)
      \/ UNCHANGED <<running, news>>
  BY DEF StopInstance, DeleteInstance
<1>4. UNCHANGED <<starting, current, held, handling>>
  BY DEF StopInstance, DeleteInstance, network
<1> HIDE DEF i
<1>5. \A c \in Clients : Fetches(c) => Fetches(c)'
  BY <1>0, <1>1, <1>4, FetchesStays
<1>6. CASE UNCHANGED <<running, news>>
  <2>1. \A o \in Objects : o \in Managed => o \in Managed'
    BY <1>4, <1>6 DEF Managed
  <2>2. QED
    BY <1>0, <1>4, <1>5, <1>6, <2>1, HoldersStay
<1>7. CASE CanBeStopped(i) /\ Stop(i)
  <2>1. /\ running' = [running EXCEPT ![i] = NoObject]
        /\ i # 0 /\ running[i] # NoObject
    BY <1>7 DEF CanBeStopped, Stop
  <2>2. ASSUME NEW c \in Clients, held[c] # NoObject
        PROVE  held[c] \in Managed' \/ HearsOfStop(c)' \/ Fetches(c)'
    <3>1. /\ news[c] \in Seq(Indices) /\ news'[c] = Append(news[c], i)
          /\ held[c] \in Objects
      BY <1>0, <1>7, <2>2 DEF TypeOK, Stop
    <3>2. /\ Len(news[c]) + 1 \in DOMAIN news'[c]
          /\ news'[c][Len(news[c]) + 1] = i
          /\ \A k \in DOMAIN news[c] : k \in DOMAIN news'[c] /\ news'[c][k] = news[c][k]
      <4>1. /\ Len(news'[c]) = Len(news[c]) + 1 /\ Len(news[c]) \in Nat
            /\ news'[c] \in Seq(Indices)
            /\ \A k \in 1 .. Len(news[c]) : news'[c][k] = news[c][k]
            /\ news'[c][Len(news[c]) + 1] = i
        BY <1>2, <3>1, AppendProperties, LenProperties
      <4>2. DOMAIN news[c] = 1 .. Len(news[c]) /\ DOMAIN news'[c] = 1 .. Len(news[c]) + 1
        BY <3>1, <4>1, LenProperties
      <4>3. QED
        BY <4>1, <4>2
    <3>3. HearsOfStop(c) => HearsOfStop(c)'
      BY <1>4, <3>2 DEF HearsOfStop
    <3>4. CASE held[c] = running[i]
      <4>1. held[c][1] = i
        BY <1>2, <2>1, <3>4 DEF IInv, ManagedOK
      <4>2. current[c] = i
        BY <2>1, <2>2, <4>1 DEF IndexIsKnown
      <4>3. HearsOfStop(c)'
        BY <1>4, <3>2, <4>1, <4>2 DEF HearsOfStop
      <4>4. QED
        BY <4>3
    <3>5. CASE held[c] # running[i] /\ held[c] \in Managed
      <4>1. \A j \in Indices : j # i => running'[j] = running[j]
        BY <1>0, <2>1 DEF TypeOK
      <4>2. held[c] \in Managed'
        BY <1>4, <3>5, <4>1 DEF Managed
      <4>3. QED
        BY <4>2
    <3>6. QED
      BY <1>5, <2>2, <3>3, <3>4, <3>5 DEF StoppedAreLetGo
  <2>3. IndexIsKnown'
    BY <1>4 DEF IndexIsKnown
  <2>4. QED
    BY <1>4, <2>2, <2>3 DEF StoppedAreLetGo
<1>8. QED
  BY <1>3, <1>6, <1>7

(* Who asks for an instance gets one that the manager knows.               *)
LEMMA GetFetches ==
    ASSUME IInv, OneAnswerIsAwaited, IndexIsKnown, StoppedAreLetGo, GetAmbilightAppInstance
    PROVE  IndexIsKnown' /\ StoppedAreLetGo'
<1> DEFINE i == Head(calls).index
           o == IF running[i] # NoObject THEN running[i] ELSE running[0]
<1>0. TypeOK
  BY DEF IInv
<1>1. Take("get")
  BY DEF GetAmbilightAppInstance
<1>2. i \in Indices /\ services /\ 0 \in Indices
  BY <1>1, TakenOK, IndicesAssumption
<1>3. /\ held' = [held EXCEPT ![handling] = o]
      /\ current' = [current EXCEPT ![handling] = i]
      /\ UNCHANGED <<starting, running, news>>
  BY DEF GetAmbilightAppInstance, manager
<1>4. handling \in Clients
  <2>1. handling # NoClient
    BY <1>0, <1>1, TakenQuestion DEF Blocking
  <2>2. QED
    BY <1>0, <2>1 DEF TypeOK
<1>5. o \in Managed /\ o # NoObject /\ (o[1] = i \/ o[1] = 0)
  <2>1. running[0] # NoObject
    BY <1>2 DEF IInv, ClientsHoldStartedInstances
  <2>2. QED
    BY <1>2, <2>1 DEF IInv, ManagedOK, Managed
<1> HIDE DEF i, o
<1>6. Managed' = Managed
  BY <1>3 DEF Managed
<1>7. /\ held'[handling] = o /\ current'[handling] = i
      /\ \A c \in Clients : c # handling => held'[c] = held[c] /\ current'[c] = current[c]
  BY <1>0, <1>3, <1>4 DEF TypeOK
<1>8. IndexIsKnown'
  BY <1>5, <1>7 DEF IndexIsKnown
<1>9. ASSUME NEW c \in Clients, held'[c] # NoObject
      PROVE  held'[c] \in Managed' \/ HearsOfStop(c)'
  <2>1. CASE c = handling
    BY <1>5, <1>6, <1>7, <2>1
  <2>2. CASE c # handling
    BY <1>3, <1>6, <1>7, <1>9, <2>2 DEF StoppedAreLetGo, Fetches, HearsOfStop
  <2>3. QED
    BY <2>1, <2>2
<1>10. QED
  BY <1>8, <1>9 DEF StoppedAreLetGo

(* A client that hears that its instance was stopped asks for another one. *)
LEMMA StateChangeAsks ==
    ASSUME IInv, OneAnswerIsAwaited, IndexIsKnown, StoppedAreLetGo,
           NEW c \in Clients, HandleInstanceStateChange(c)
    PROVE  IndexIsKnown' /\ StoppedAreLetGo'
<1>0. TypeOK
  BY DEF IInv
<1>1. /\ handling = NoClient /\ news[c] # <<>>
      /\ news' = [news EXCEPT ![c] = Tail(news[c])]
      /\ UNCHANGED <<starting, running, current, held>>
  BY DEF HandleInstanceStateChange, Idle, manager
<1>2. Managed' = Managed
  BY <1>1 DEF Managed
<1>3. \A d \in Clients : ~Fetches(d)
  BY <1>1, NobodyFetches
<1>4. \A d \in Clients : d # c => news'[d] = news[d]
  BY <1>0, <1>1 DEF TypeOK
<1>5. \A d \in Clients : d # c => (HearsOfStop(d) => HearsOfStop(d)')
  BY <1>1, <1>4 DEF HearsOfStop
<1>6. ASSUME HearsOfStop(c) PROVE HearsOfStop(c)' \/ Fetches(c)'
  <2>1. CASE current[c] = Head(news[c])
    <3>1. Ask(c, Call("get", 0))
      BY <2>1 DEF HandleInstanceStateChange
    <3>2. Call("get", 0) \in Calls /\ Call("get", 0).kind = "get"
      BY CallOK, IndicesAssumption DEF Kinds, Call
    <3>3. Len(calls) + 1 \in DOMAIN calls' /\ calls'[Len(calls) + 1] = Call("get", 0)
      BY <1>0, <3>1, <3>2, QueuedLast DEF Ask
    <3>4. QED
      BY <3>1, <3>2, <3>3 DEF Fetches, Ask
  <2>2. CASE current[c] # Head(news[c])
    <3> DEFINE s == news[c]
    <3>1. s \in Seq(Indices) /\ s # <<>> /\ news'[c] = Tail(s)
      BY <1>0, <1>1 DEF TypeOK
    <3>2. PICK k \in DOMAIN s : s[k] = held[c][1] /\ current[c] = held[c][1]
      BY <1>6 DEF HearsOfStop
    <3> HIDE DEF s
    <3>3. /\ DOMAIN s = 1 .. Len(s) /\ Len(s) \in Nat
          /\ Head(s) = s[1] /\ Len(Tail(s)) = Len(s) - 1 /\ Tail(s) \in Seq(Indices)
          /\ \A m \in 1 .. Len(Tail(s)) : Tail(s)[m] = s[m + 1]
      BY <3>1, LenProperties, HeadTailProperties
    <3>4. DOMAIN Tail(s) = 1 .. Len(Tail(s))
      BY <3>3, LenProperties
    <3>5. k # 1
      BY <2>2, <3>2, <3>3 DEF s
    <3>6. k - 1 \in DOMAIN Tail(s) /\ Tail(s)[k - 1] = s[k]
      BY <3>2, <3>3, <3>4, <3>5
    <3>7. QED
      BY <1>1, <3>1, <3>2, <3>6 DEF HearsOfStop
  <2>3. QED
    BY <2>1, <2>2
<1>7. StoppedAreLetGo'
  BY <1>1, <1>2, <1>3, <1>5, <1>6 DEF StoppedAreLetGo
<1>8. IndexIsKnown'
  BY <1>1 DEF IndexIsKnown
<1>9. QED
  BY <1>7, <1>8

LEMMA HoldersOK ==
    ASSUME IInv, OneAnswerIsAwaited, IndexIsKnown, StoppedAreLetGo, [Next]_vars
    PROVE  IndexIsKnown' /\ StoppedAreLetGo'
<1> DEFINE Goal == IndexIsKnown' /\ StoppedAreLetGo'
<1>0. TypeOK
  BY DEF IInv
<1>1. ASSUME NEW o \in Objects, Start(o) PROVE Goal
  <2>1. /\ UNCHANGED <<held, current, news, handling, starting, running>>
        /\ calls' = Append(calls, JustStarted(o)) /\ JustStarted(o) \in Calls
    BY <1>1 DEF Start, manager, clients, network, JustStarted, Calls
  <2>2. \A c \in Clients : Fetches(c) => Fetches(c)'
    BY <1>0, <2>1, QueuedLast DEF Fetches
  <2>3. \A p \in Objects : p \in Managed => p \in Managed'
    BY <2>1 DEF Managed
  <2>4. QED
    BY <1>0, <2>1, <2>2, <2>3, HoldersStay
<1>2. CASE HandleInstanceJustStarted
  <2> DEFINE o == Head(calls).object
             i == o[1]
  <2>1. Take("JustStarted") /\ UNCHANGED <<held, current, news, handling>>
    BY <1>2 DEF HandleInstanceJustStarted, clients, network
  <2>2. calls[1] \in Calls /\ Head(calls) = calls[1] /\ IsStart(calls[1])
    BY <1>0, <2>1, TakenFirst DEF IsStart
  <2>3. i \in Indices
    BY <2>2 DEF Calls, Kinds, Objects, IsStart
  <2>4. \/ UNCHANGED <<starting, running>>
        \/ /\ starting[i] # NoObject
           /\ running' = [running EXCEPT ![i] = starting[i]]
           /\ starting' = [starting EXCEPT ![i] = NoObject]
    BY <1>2 DEF HandleInstanceJustStarted, manager
  <2> HIDE DEF i
  <2>5. ASSUME NEW p \in Objects, p \in Managed PROVE p \in Managed'
    <3>1. CASE UNCHANGED <<starting, running>>
      BY <2>5, <3>1 DEF Managed
    <3>2. CASE /\ starting[i] # NoObject
               /\ running' = [running EXCEPT ![i] = starting[i]]
               /\ starting' = [starting EXCEPT ![i] = NoObject]
      <4>1. running'[i] = starting[i] /\ running[i] = NoObject /\ p # NoObject
        BY <1>0, <2>3, <3>2, NobodyAssumption DEF TypeOK, IInv, ManagedOK
      <4>2. \A j \in Indices : j # i => running'[j] = running[j] /\ starting'[j] = starting[j]
        BY <1>0, <3>2 DEF TypeOK
      <4>3. QED
        BY <2>3, <2>5, <4>1, <4>2 DEF Managed
    <3>3. QED
      BY <2>4, <3>1, <3>2
  <2>6. \A c \in Clients : Fetches(c) => Fetches(c)'
    BY <1>0, <2>1, FetchesStays
  <2>7. QED
    BY <1>0, <2>1, <2>5, <2>6, HoldersStay
<1>3. CASE StartInstance \/ CreateInstance \/ IsInstanceRunning
  <2>1. /\ \E kind \in {"start", "create", "isRunning"} : Take(kind)
        /\ UNCHANGED <<held, current, news, running>>
    BY <1>3 DEF StartInstance, CreateInstance, IsInstanceRunning, clients, manager
  <2>2. \A c \in Clients : Fetches(c) => Fetches(c)'
    BY <1>0, <2>1, FetchesStays DEF Blocking
  <2>3. \A j \in Indices : starting'[j] = starting[j] \/ starting[j] = NoObject
    BY <1>0, <1>3 DEF StartInstance, CreateInstance, IsInstanceRunning, manager, TypeOK
  <2>4. \A o \in Objects : o \in Managed => o \in Managed'
    BY <2>1, <2>3, NobodyAssumption DEF Managed
  <2>5. QED
    BY <1>0, <2>1, <2>2, <2>4, HoldersStay
<1>4. CASE StopInstance \/ DeleteInstance
  BY <1>4, StopTells
<1>5. CASE GetAmbilightAppInstance
  BY <1>5, GetFetches
<1>6. ASSUME handling = NoClient \/ passed,
             UNCHANGED <<held, current, news, starting, running>>
      PROVE  Goal
  <2>1. \A c \in Clients : ~Fetches(c)
    BY <1>6, NobodyFetches
  <2>2. \A o \in Objects : o \in Managed => o \in Managed'
    BY <1>6 DEF Managed
  <2>3. QED
    BY <1>0, <1>6, <2>1, <2>2, HoldersStay
<1>7. ASSUME NEW c \in Clients, Connect(c) \/ HandleMessage(c) PROVE Goal
  BY <1>6, <1>7 DEF Connect, HandleMessage, Idle, clients, manager
<1>8. CASE HandleInstanceCommand
  BY <1>6, <1>8 DEF HandleInstanceCommand, clients, manager
<1>9. ASSUME NEW c \in Clients, Disconnect(c) PROVE Goal
  <2>1. /\ held'[c] = NoObject
        /\ UNCHANGED <<starting, running, calls, handling>>
        /\ \A d \in Clients : d # c => /\ held'[d] = held[d] /\ current'[d] = current[d]
                                       /\ news'[d] = news[d]
    BY <1>0, <1>9 DEF Disconnect, TypeOK, manager, network
  <2>2. Managed' = Managed
    BY <2>1 DEF Managed
  <2>3. \A d \in Clients : d # c => (HearsOfStop(d) => HearsOfStop(d)')
    BY <2>1 DEF HearsOfStop
  <2>4. \A d \in Clients : Fetches(d) => Fetches(d)'
    BY <2>1 DEF Fetches
  <2>5. IndexIsKnown'
    BY <2>1 DEF IndexIsKnown
  <2>6. StoppedAreLetGo'
    BY <2>1, <2>2, <2>3, <2>4 DEF StoppedAreLetGo
  <2>7. QED
    BY <2>5, <2>6
<1>10. ASSUME NEW c \in Clients, HandleInstanceStateChange(c) PROVE Goal
  BY <1>10, StateChangeAsks
<1>11. CASE UNCHANGED vars
  BY <1>11 DEF vars, clients, manager, network, IndexIsKnown, StoppedAreLetGo, Managed,
               HearsOfStop, Fetches
<1>12. QED
  BY <1>1, <1>2, <1>3, <1>4, <1>5, <1>7, <1>8, <1>9, <1>10, <1>11 DEF Next, Main

(* A new object is the one that starts, and every step that may take the   *)
(* last pointer away looks for it.                                         *)
LEMMA LeaksOK ==
    ASSUME TypeOK, NothingLeaks, [Next]_vars
    PROVE  NothingLeaks'
<1>1. CASE Release
  BY <1>1 DEF Release, NothingLeaks
<1>2. ASSUME UNCHANGED <<starting, running, held>>,
             \A o \in Objects : phase'[o] # "none" => phase[o] # "none"
      PROVE  NothingLeaks'
  BY <1>2 DEF NothingLeaks, Kept, Managed
<1>3. ASSUME NEW o \in Objects, Start(o) PROVE NothingLeaks'
  BY <1>2, <1>3 DEF Start, manager, clients, TypeOK
<1>4. CASE StartInstance
  <2> DEFINE i == Head(calls).index
  <2>1. UNCHANGED <<running, held>> /\ Take("start")
    BY <1>4 DEF StartInstance, clients
  <2>2. CASE UNCHANGED <<phase, starting>>
    BY <1>2, <2>1, <2>2
  <2>3. CASE \E life \in Lives :
                /\ starting[i] = NoObject
                /\ phase' = [phase EXCEPT ![<<i, life>>] = "starting"]
                /\ starting' = [starting EXCEPT ![i] = <<i, life>>]
    <3>1. i \in Indices
      <4>1. calls[1] \in Calls /\ Head(calls) = calls[1] /\ calls[1].kind = "start"
        BY <2>1, TakenFirst
      <4>2. QED
        BY <4>1 DEF Calls
    <3> HIDE DEF i
    <3>2. PICK o \in Objects : /\ starting[i] = NoObject
                               /\ phase' = [phase EXCEPT ![o] = "starting"]
                               /\ starting' = [starting EXCEPT ![i] = o]
      BY <2>3, <3>1 DEF Objects
    <3>3. starting'[i] = o /\ \A j \in Indices : j # i => starting'[j] = starting[j]
      BY <3>1, <3>2 DEF TypeOK
    <3>4. ASSUME NEW p \in Objects, p \in Kept PROVE p \in Kept'
      <4>1. p # NoObject
        BY NobodyAssumption
      <4>2. QED
        BY <2>1, <3>1, <3>2, <3>3, <3>4, <4>1 DEF Kept, Managed
    <3>5. o \in Kept'
      BY <3>1, <3>3 DEF Kept, Managed
    <3>6. \A p \in Objects : p # o => phase'[p] = phase[p]
      BY <3>2 DEF TypeOK
    <3>7. QED
      BY <3>4, <3>5, <3>6 DEF NothingLeaks
  <2>4. QED
    BY <1>4, <2>2, <2>3 DEF StartInstance
<1>5. CASE CreateInstance \/ IsInstanceRunning \/ HandleInstanceCommand
  BY <1>2, <1>5 DEF CreateInstance, IsInstanceRunning, HandleInstanceCommand, manager, clients
<1>6. CASE \E c \in Clients : Connect(c) \/ HandleMessage(c) \/ HandleInstanceStateChange(c)
  BY <1>2, <1>6 DEF Connect, HandleMessage, HandleInstanceStateChange, manager, clients
<1>7. CASE UNCHANGED vars
  BY <1>2, <1>7 DEF vars, manager, clients
<1>8. QED
  BY <1>1, <1>3, <1>4, <1>5, <1>6, <1>7
     DEF Next, Main, HandleInstanceJustStarted, StopInstance, DeleteInstance,
         GetAmbilightAppInstance, Disconnect

-----------------------------------------------------------------------------
(***************************************************************************)
(* The life of an index                                                    *)
(***************************************************************************)
lives == [i \in Indices |-> LifeOf(i)]

(* A step that concerns one index changes the life of that one only.       *)
LEMMA OneChanges ==
    ASSUME NEW i \in Indices,
           \A j \in Indices : j # i => starting'[j] = starting[j] /\ running'[j] = running[j]
    PROVE  lives' = [lives EXCEPT ![i] = LifeOf(i)']
BY DEF lives, LifeOf

LEMMA NobodyChanges ==
    UNCHANGED <<starting, running, services>> => UNCHANGED <<lives, services>>
BY DEF lives, LifeOf

(* Until the services start, the counter is at 1 exactly if the instance   *)
(* that gets ready is the last one that starts.                            *)
LEMMA CountIsLast ==
    ASSUME IInv, ~services, NEW i \in Indices, starting[i] # NoObject
    PROVE  fireStarter = 1 <=> \A j \in Indices \ {i} : starting[j] = NoObject
<1>1. i \in Waiting /\ Waiting \subseteq Indices /\ fireStarter = Cardinality(Waiting)
  BY DEF IInv, ServicesOK, Waiting
<1>2. IsFiniteSet(Waiting)
  BY <1>1, IndicesAssumption, FS_Subset
<1>3. fireStarter = 1 <=> \E x : Waiting = {x}
  BY <1>1, <1>2, FS_Singleton
<1>4. (\E x : Waiting = {x}) <=> Waiting = {i}
  BY <1>1
<1>5. Waiting = {i} <=> \A j \in Indices \ {i} : starting[j] = NoObject
  BY <1>1 DEF Waiting
<1>6. QED
  BY <1>3, <1>4, <1>5

LEMMA GetsReady ==
    ASSUME IInv, HandleInstanceJustStarted
    PROVE  \E i \in Indices : Life!BecomesOn(i)
<1> DEFINE o == Head(calls).object
<1>1. calls \in Seq(Calls) /\ calls # <<>> /\ IsStart(Head(calls))
  BY DEF IInv, TypeOK, HandleInstanceJustStarted, Take, IsStart
<1>2. 1 \in DOMAIN calls /\ Head(calls) = calls[1] /\ Head(calls) \in Calls
  BY <1>1, HandledFirst
<1>3. o \in Objects /\ starting[o[1]] = o
  BY <1>1, <1>2 DEF IInv, StartsOK, Expected, IsStart, Calls, Kinds
<1>4. PICK i \in Indices : i = o[1] /\ starting[i] # NoObject
  BY <1>3, NobodyAssumption DEF Objects
<1>5. /\ running' = [running EXCEPT ![i] = starting[i]]
      /\ starting' = [starting EXCEPT ![i] = NoObject]
      /\ services' = (services \/ fireStarter = 1)
  BY <1>4 DEF HandleInstanceJustStarted
<1>6. /\ starting \in [Indices -> Objects \cup {NoObject}]
      /\ running \in [Indices -> Objects \cup {NoObject}]
  BY DEF IInv, TypeOK
<1> HIDE DEF o
<1>7. /\ starting'[i] = NoObject /\ running'[i] # NoObject
      /\ \A j \in Indices : j # i => starting'[j] = starting[j] /\ running'[j] = running[j]
  BY <1>4, <1>5, <1>6
<1>8. LifeOf(i) = "starting" /\ LifeOf(i)' = "on"
  BY <1>4, <1>7 DEF LifeOf
<1>9. lives' = [lives EXCEPT ![i] = "on"] /\ lives[i] = "starting"
  BY <1>4, <1>7, <1>8, OneChanges DEF lives
<1>10. (\A j \in Indices : lives'[j] # "starting")
          <=> \A j \in Indices \ {i} : starting[j] = NoObject
  BY <1>4, <1>7, <1>8 DEF lives, LifeOf
<1>11. services' = (services \/ \A j \in Indices : lives'[j] # "starting")
  <2>1. CASE services
    BY <1>5, <2>1
  <2>2. CASE ~services
    <3>1. fireStarter = 1 <=> \A j \in Indices : lives'[j] # "starting"
      BY <1>4, <1>10, <2>2, CountIsLast
    <3>2. QED
      BY <1>5, <3>1
  <2>3. QED
    BY <2>1, <2>2
<1>12. QED
  BY <1>4, <1>9, <1>11 DEF Life!BecomesOn, lives

LEMMA IsStarted ==
    ASSUME IInv, StartInstance
    PROVE  (\E i \in Indices : Life!BecomesStarting(i)) \/ UNCHANGED <<lives, services>>
<1>0. services /\ Head(calls).index \in Indices
  BY TakenOK DEF StartInstance
<1>1. PICK i \in Indices : services /\ i = Head(calls).index
  BY <1>0
<1>2. UNCHANGED <<running, services>>
  BY DEF StartInstance
<1>3. CASE UNCHANGED starting
  BY <1>2, <1>3, NobodyChanges
<1>4. CASE ~UNCHANGED starting
  <2>1. starting[i] = NoObject /\ running[i] = NoObject
    BY <1>1, <1>4 DEF StartInstance
  <2>2. PICK life \in Lives : starting' = [starting EXCEPT ![i] = <<i, life>>]
    BY <1>1, <1>4 DEF StartInstance
  <2>3. <<i, life>> # NoObject
    BY <1>1, NobodyAssumption DEF Objects
  <2>4. starting \in [Indices -> Objects \cup {NoObject}]
    BY DEF IInv, TypeOK
  <2>5. /\ starting'[i] # NoObject
        /\ \A j \in Indices : j # i => starting'[j] = starting[j] /\ running'[j] = running[j]
    BY <1>1, <1>2, <2>2, <2>3, <2>4
  <2>6. LifeOf(i) = "off" /\ LifeOf(i)' = "starting"
    BY <2>1, <2>5 DEF LifeOf
  <2>7. lives' = [lives EXCEPT ![i] = "starting"] /\ lives[i] = "off"
    BY <1>1, <2>5, <2>6, OneChanges DEF lives
  <2>8. QED
    BY <1>1, <1>2, <2>7 DEF Life!BecomesStarting, lives
<1>5. QED
  BY <1>3, <1>4

LEMMA IsStopped ==
    ASSUME IInv, services, NEW i \in Indices, CanBeStopped(i), Stop(i),
           UNCHANGED <<starting, services>>
    PROVE  Life!BecomesOff(i)
<1>1. i # 0 /\ running[i] # NoObject /\ running' = [running EXCEPT ![i] = NoObject]
  BY DEF CanBeStopped, Stop
<1>2. running \in [Indices -> Objects \cup {NoObject}] /\ starting[i] = NoObject
  BY <1>1 DEF IInv, TypeOK, ManagedOK
<1>3. /\ starting'[i] = NoObject /\ running'[i] = NoObject
      /\ \A j \in Indices : j # i => starting'[j] = starting[j] /\ running'[j] = running[j]
  BY <1>1, <1>2
<1>4. LifeOf(i) = "on" /\ LifeOf(i)' = "off"
  BY <1>1, <1>2, <1>3 DEF LifeOf
<1>5. lives' = [lives EXCEPT ![i] = "off"] /\ lives[i] = "on"
  BY <1>3, <1>4, OneChanges DEF lives
<1>6. QED
  BY <1>1, <1>5 DEF Life!BecomesOff, lives

LEMMA StepOfLife ==
    ASSUME IInv, [Next]_vars
    PROVE  Life!Next \/ UNCHANGED <<lives, services>>
<1>1. CASE HandleInstanceJustStarted
  BY <1>1, GetsReady DEF Life!Next
<1>2. CASE StartInstance
  BY <1>2, IsStarted DEF Life!Next
<1>3. CASE StopInstance \/ DeleteInstance
  <2>0. services /\ Head(calls).index \in Indices
    BY <1>3, TakenOK DEF StopInstance, DeleteInstance
  <2>1. PICK i \in Indices : services /\ i = Head(calls).index
    BY <2>0
  <2>2. UNCHANGED <<starting, services>>
    BY <1>3 DEF StopInstance, DeleteInstance
  <2>3. (CanBeStopped(i) /\ Stop(i)) \/ UNCHANGED running
    BY <1>3, <2>1 DEF StopInstance, DeleteInstance
  <2>4. QED
    BY <2>1, <2>2, <2>3, IsStopped, NobodyChanges DEF Life!Next
<1>4. CASE \/ \E o \in Objects : Start(o)
           \/ CreateInstance \/ GetAmbilightAppInstance \/ IsInstanceRunning
           \/ \E c \in Clients : Connect(c) \/ Disconnect(c) \/ HandleMessage(c)
           \/ HandleInstanceCommand
           \/ \E c \in Clients : HandleInstanceStateChange(c)
           \/ UNCHANGED vars
  <2>1. UNCHANGED manager
    BY <1>4 DEF Start, CreateInstance, GetAmbilightAppInstance, IsInstanceRunning, Connect,
                Disconnect, HandleMessage, HandleInstanceCommand, HandleInstanceStateChange,
                vars
  <2>2. QED
    BY <2>1, NobodyChanges DEF manager
<1>5. QED
  BY <1>1, <1>2, <1>3, <1>4 DEF Next, Main

LEMMA StartOfLife == Init => Life!Init
<1> SUFFICES ASSUME Init PROVE Life!Init
  OBVIOUS
<1>1. PICK life \in Lives :
        starting = [i \in Indices |-> IF i \in enabled THEN <<i, life>> ELSE NoObject]
  BY DEF Init
<1>2. \A i \in Indices : running[i] = NoObject /\ LifeOf(i) \in {"off", "starting"}
  BY DEF Init, LifeOf
<1>3. 0 \in Indices /\ 0 \in enabled
  BY IndicesAssumption DEF Init
<1>4. starting[0] # NoObject
  BY <1>1, <1>3, NobodyAssumption DEF Objects
<1>5. LifeOf(0) = "starting"
  BY <1>4 DEF LifeOf
<1>6. QED
  BY <1>2, <1>3, <1>5 DEF Init, Life!Init

-----------------------------------------------------------------------------
(***************************************************************************)
(* The theorems                                                            *)
(***************************************************************************)

(* The inductive invariant holds in every reachable state.                 *)
THEOREM Invariance == Spec => []IInv
<1>1. IInv /\ [Next]_vars => IInv'
  <2> SUFFICES ASSUME IInv, [Next]_vars PROVE IInv'
    OBVIOUS
  <2>1. ASSUME NEW o \in Objects, Start(o) PROVE IInv'
    BY <2>1, StartOK
  <2>2. CASE Main
    BY <2>2, HandleInstanceJustStartedOK, StartInstanceOK, StopInstanceOK,
       CreateInstanceOK, GetAmbilightAppInstanceOK DEF Main
  <2>3. ASSUME NEW c \in Clients,
               Connect(c) \/ Disconnect(c) \/ HandleMessage(c) \/ HandleInstanceStateChange(c)
        PROVE  IInv'
    BY <2>3, ConnectOK, DisconnectOK, HandleMessageOK, HandleInstanceStateChangeOK
  <2>4. CASE HandleInstanceCommand
    BY <2>4, HandleInstanceCommandOK
  <2>5. CASE UNCHANGED vars
    BY <2>5 DEF vars, database, manager, clients, network, IInv, TypeOK, ManagedOK,
                StartsOK, AnnouncedOnce, Expected, IsStart, ServicesOK, Waiting,
                ClientsHoldStartedInstances
  <2>6. QED
    BY <2>1, <2>2, <2>3, <2>4, <2>5 DEF Next
<1>2. QED
  BY <1>1, InitOK, PTL DEF Spec

(* Type correctness: only instances of the table are enabled, the main one *)
(* is always there.                                                        *)
THEOREM TypeCorrect == Spec => []TypeOK
<1>1. IInv => TypeOK
  BY DEF IInv
<1>2. QED
  BY <1>1, Invariance, PTL

(* Clients come when the main instance runs, and what they hold has been   *)
(* started and was not deleted, whatever is started and stopped meanwhile. *)
THEOREM ClientsHoldInstances == Spec => []ClientsHoldStartedInstances
<1>1. IInv => ClientsHoldStartedInstances
  BY DEF IInv
<1>2. QED
  BY <1>1, Invariance, PTL

(* No index has two instances that the manager knows of, and the start of  *)
(* each is announced once.                                                 *)
THEOREM OneInstanceEach == Spec => [](ManagedOK /\ StartsOK)
<1>1. IInv => ManagedOK /\ StartsOK
  BY DEF IInv
<1>2. QED
  BY <1>1, Invariance, PTL

(* The network thread waits for exactly one answer at a time, so that no   *)
(* answer of the main thread reaches another client than the one that      *)
(* asked.                                                                  *)
THEOREM AnswersReachTheirAsker == Spec => []OneAnswerIsAwaited
<1>1. Init => OneAnswerIsAwaited
  <2>1. ASSUME Init PROVE DOMAIN calls = {} /\ handling = NoClient
    BY <2>1, EmptySeq, LenProperties DEF Init
  <2>2. QED
    BY <2>1 DEF OneAnswerIsAwaited
<1>2. IInv /\ OneAnswerIsAwaited /\ [Next]_vars => OneAnswerIsAwaited'
  BY QuestionsOK
<1>3. QED
  BY <1>1, <1>2, Invariance, PTL DEF Spec

(* Whoever waits for a start waits for one that is under way: the safety   *)
(* half of StartsAreAnswered, which a lost announcement would break.       *)
THEOREM StartsAreNotForgotten == Spec => []StartsAreUnderWay
<1>1. Init => StartsAreUnderWay
  <2> SUFFICES ASSUME Init PROVE StartsAreUnderWay
    OBVIOUS
  <2>1. TypeOK
    BY InitOK DEF IInv
  <2>2. \A i \in Indices : starting[i] # NoObject => phase[starting[i]] = "starting"
    BY <2>1 DEF Init, TypeOK, Managed
  <2>3. \A i \in Indices : pending[i] = NoClient
    BY DEF Init
  <2>4. QED
    BY <2>2, <2>3 DEF StartsAreUnderWay
<1>2. IInv /\ StartsAreUnderWay /\ [Next]_vars => StartsAreUnderWay'
  BY UnderWayOK
<1>3. QED
  BY <1>1, <1>2, Invariance, PTL DEF Spec

(* What a client holds is the instance of its index or the main one, and   *)
(* whoever holds a stopped instance lets go of it.                         *)
HInv == IndexIsKnown /\ StoppedAreLetGo /\ NothingLeaks

LEMMA HoldersInvariance == Spec => []HInv
<1>1. Init => HInv
  <2> SUFFICES ASSUME Init PROVE HInv
    OBVIOUS
  <2>1. \A c \in Clients : held[c] = NoObject
    BY DEF Init
  <2>2. \A o \in Objects : phase[o] # "none" => o \in Managed
    BY DEF Init
  <2>3. QED
    BY <2>1, <2>2 DEF HInv, IndexIsKnown, StoppedAreLetGo, NothingLeaks, Kept
<1>2. IInv /\ OneAnswerIsAwaited /\ HInv /\ [Next]_vars => HInv'
  BY HoldersOK, LeaksOK DEF IInv, HInv
<1>3. QED
  BY <1>1, <1>2, Invariance, AnswersReachTheirAsker, PTL DEF Spec

(* Nothing leaks: a stopped instance that still lives has a holder, and    *)
(* every holder is about to let go of it.  This is the safety half of      *)
(* StoppedInstancesGo, which a missed signal or a pointer that somebody    *)
(* else keeps would break.                                                 *)
THEOREM StoppedInstancesLeave == Spec => []StoppedInstancesAreLeaving
<1>1. HInv => StoppedInstancesAreLeaving
  <2> SUFFICES ASSUME HInv, NEW o \in Objects \ Managed, phase[o] # "none"
               PROVE  /\ \E c \in Clients : held[c] = o
                      /\ \A c \in Clients : held[c] = o => HearsOfStop(c) \/ Fetches(c)
    BY DEF StoppedInstancesAreLeaving
  <2>1. o # NoObject
    BY NobodyAssumption
  <2>2. QED
    BY <2>1 DEF HInv, StoppedAreLetGo, NothingLeaks, Kept
<1>2. QED
  BY <1>1, HoldersInvariance, PTL

(* A client that may go on drives the instance it selected, or the main    *)
(* one in its place, and never another: the one way in which               *)
(* ClientsDriveTheirInstance fails.                                        *)
THEOREM OnlyTheMainStandsIn ==
    Spec => [](passed => held[handling][1] \in {0, current[handling]})
<1>1. Init => AskersHold
  BY DEF Init, AskersHold, IsRunningAsked
<1>2. IInv /\ OneAnswerIsAwaited /\ OneAnswerIsAwaited' /\ AskersHold /\ [Next]_vars
        => AskersHold'
  BY AskersOK
<1>3. HInv /\ AskersHold /\ passed => held[handling][1] \in {0, current[handling]}
  BY DEF HInv, IndexIsKnown, AskersHold
<1>4. QED
  BY <1>1, <1>2, <1>3, Invariance, AnswersReachTheirAsker, HoldersInvariance, PTL DEF Spec
(* The manager keeps the promise of InstanceLife: each index has one       *)
(* instance, which is off, starts or is on, the main one is never stopped, *)
(* and the services start with the last instance of the start of the       *)
(* daemon, although fireStarter only counts announcements.                 *)
THEOREM InstancesImplementInstanceLife == Spec => ImplementsInstanceLife
<1>1. Init => Life!Init
  BY StartOfLife
<1>2. IInv /\ [Next]_vars => [Life!Next]_(Life!lifeVars)
  BY StepOfLife DEF Life!lifeVars, lives
<1>3. QED
  BY <1>1, <1>2, Invariance, PTL DEF Spec, Life!Spec, ImplementsInstanceLife
=============================================================================
