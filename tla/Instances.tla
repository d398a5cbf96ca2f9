----------------------------- MODULE Instances -----------------------------
(***************************************************************************)
(* The life of instances.  AmbilightAppManager, on the main thread, keeps  *)
(* the table of instances and those that start and run; every instance has *)
(* a thread of its own; the clients of the API live on the network thread, *)
(* which holds shared pointers to instances and waits for the main thread  *)
(* in blocking calls.  An instance is deleted with its last pointer.       *)
(*                                                                         *)
(* Left out: sleep, names, settings, music devices, the way to exit.       *)
(***************************************************************************)
EXTENDS Naturals, Sequences, FiniteSets

CONSTANTS Indices,        \* 0 is the main instance
          Lives,          \* tell the objects that have the same index apart
          Clients,        \* connections of the API
          NoObject, NoClient,
          MaxCalls        \* bound of the queues

Objects == Indices \X Lives

ASSUME IndicesAssumption ==
    Indices \subseteq Nat /\ 0 \in Indices /\ IsFiniteSet(Indices)
ASSUME NobodyAssumption == NoObject \notin Objects /\ NoClient \notin Clients

VARIABLES
    rows, enabled,      \* the table in the database
    starting, running,  \* _startingInstances, _runningInstances
    pending,            \* _pendingRequests: who asked for a start
    fireStarter,        \* _fireStarter
    services,           \* the network thread was started
    calls,              \* event queue of the main thread
    phase,              \* of the objects
    current, held,      \* _currentInstanceIndex and _ambilightapp of a client
    news,               \* queued STOP signals for a client
    handling,           \* the client whose message the network thread handles
    passed              \* ... and whether its instance was found running

database == <<rows, enabled>>
manager == <<starting, running, pending, fireStarter, services>>
clients == <<current, held, news>>
network == <<handling, passed>>
vars == <<database, manager, calls, phase, clients, network>>

Kinds == {"stop", "delete", "start", "create", "get", "isRunning"}
Calls == [kind : {"JustStarted"}, object : Objects]
         \cup [kind : Kinds, index : Indices]

Call(kind, i) == [kind |-> kind, index |-> i]
JustStarted(o) == [kind |-> "JustStarted", object |-> o]

Managed == {starting[i] : i \in Indices} \cup {running[i] : i \in Indices}
Kept == Managed \cup {held[c] : c \in Clients}

TypeOK ==
    /\ rows \subseteq Indices /\ 0 \in rows
    /\ enabled \subseteq rows
    /\ starting \in [Indices -> Objects \cup {NoObject}]
    /\ running \in [Indices -> Objects \cup {NoObject}]
    /\ pending \in [Indices -> Clients \cup {NoClient}]
    /\ fireStarter \in Nat
    /\ services \in BOOLEAN
    /\ calls \in Seq(Calls)
    /\ phase \in [Objects -> {"none", "starting", "started"}]
    /\ current \in [Clients -> Indices]
    /\ held \in [Clients -> Objects \cup {NoObject}]
    /\ news \in [Clients -> Seq(Indices)]
    /\ handling \in Clients \cup {NoClient}
    /\ passed \in BOOLEAN

(* startAll, with a table as an earlier run of the daemon left it.         *)
Init ==
    /\ rows \in {r \in SUBSET Indices : 0 \in r}
    /\ enabled \in {e \in SUBSET rows : 0 \in e}
    /\ \E life \in Lives :
         starting = [i \in Indices |-> IF i \in enabled THEN <<i, life>> ELSE NoObject]
    /\ running = [i \in Indices |-> NoObject]
    /\ pending = [i \in Indices |-> NoClient]
    /\ fireStarter = Cardinality(enabled)
    /\ services = FALSE
    /\ calls = <<>>
    /\ phase = [o \in Objects |-> IF o \in Managed THEN "starting" ELSE "none"]
    /\ current = [c \in Clients |-> 0]
    /\ held = [c \in Clients |-> NoObject]
    /\ news = [c \in Clients |-> <<>>]
    /\ handling = NoClient
    /\ passed = FALSE

-----------------------------------------------------------------------------
(***************************************************************************)
(* The thread of an instance: start ends and is announced.                 *)
(***************************************************************************)
Start(o) ==
    /\ phase[o] = "starting"
    /\ phase' = [phase EXCEPT ![o] = "started"]
    /\ calls' = Append(calls, JustStarted(o))
    /\ UNCHANGED <<database, manager, clients, network>>

-----------------------------------------------------------------------------
(***************************************************************************)
(* The main thread takes the next call.  What nobody points at any more is *)
(* deleted (THREAD_REMOVER waits for that).                                *)
(***************************************************************************)
Take(kind) ==
    /\ calls # <<>>
    /\ Head(calls).kind = kind
    /\ calls' = Tail(calls)

Release ==
    phase' = [o \in Objects |-> IF o \in Kept' THEN phase[o] ELSE "none"]

Answered == handling' = NoClient /\ passed' = FALSE

HandleInstanceJustStartedLate ==
    /\ Take("JustStarted")
    /\ LET o == Head(calls).object
           i == o[1]
       IN  IF starting[i] # NoObject
           THEN /\ running' = [running EXCEPT ![i] = starting[i]]
                /\ starting' = [starting EXCEPT ![i] = NoObject]
                /\ pending' = [pending EXCEPT ![i] = NoClient]
                /\ fireStarter' = IF fireStarter > 0 THEN fireStarter - 1 ELSE 0
                /\ services' = (services \/ fireStarter = 0)
           ELSE UNCHANGED manager
    /\ UNCHANGED <<database, clients, network>>
    /\ Release

(* handleInstanceJustStarted; the START signal makes the daemon count, and *)
(* start the network thread with the last one.                             *)
HandleInstanceJustStarted ==
    /\ Take("JustStarted")
    /\ LET o == Head(calls).object
           i == o[1]
       IN  IF starting[i] # NoObject
           THEN /\ running' = [running EXCEPT ![i] = starting[i]]
                /\ starting' = [starting EXCEPT ![i] = NoObject]
                /\ pending' = [pending EXCEPT ![i] = NoClient]
                /\ fireStarter' = IF fireStarter > 0 THEN fireStarter - 1 ELSE 0
                /\ services' = (services \/ fireStarter = 1)
           ELSE UNCHANGED manager
    /\ UNCHANGED <<database, clients, network>>
    /\ Release

StartRecordsAlways ==
    /\ Take("start")
    /\ LET i == Head(calls).index
       IN  /\ IF i \in rows /\ starting[i] = NoObject /\ running[i] = NoObject
              THEN \E life \in Lives :
                     /\ phase[<<i, life>>] = "none"
                     /\ phase' = [phase EXCEPT ![<<i, life>>] = "starting"]
                     /\ starting' = [starting EXCEPT ![i] = <<i, life>>]
                     /\ enabled' = enabled \cup {i}
              ELSE UNCHANGED <<phase, starting, enabled>>
           /\ pending' = IF pending[i] = NoClient
                         THEN [pending EXCEPT ![i] = handling] ELSE pending
    /\ Answered
    /\ UNCHANGED <<rows, running, fireStarter, services, clients>>

(* startInstance, called by the network thread, which goes on at once; a   *)
(* client hears of the success when the instance runs.                     *)
StartInstance ==
    /\ Take("start")
    /\ LET i == Head(calls).index
       IN  IF i \in rows /\ starting[i] = NoObject /\ running[i] = NoObject
           THEN \E life \in Lives :
                  /\ phase[<<i, life>>] = "none"
                  /\ phase' = [phase EXCEPT ![<<i, life>>] = "starting"]
                  /\ starting' = [starting EXCEPT ![i] = <<i, life>>]
                  /\ enabled' = enabled \cup {i}
                  /\ pending' = IF pending[i] = NoClient
                                THEN [pending EXCEPT ![i] = handling] ELSE pending
           ELSE UNCHANGED <<phase, starting, enabled, pending>>
    /\ Answered
    /\ UNCHANGED <<rows, running, fireStarter, services, clients>>

(* stopInstance, also as a part of deleteInstance.  The main instance      *)
(* cannot be stopped.  Connected clients are told.                         *)
Stop(i) ==
    /\ running' = [running EXCEPT ![i] = NoObject]
    /\ enabled' = enabled \ {i}
    /\ news' = [c \in Clients |-> IF held[c] # NoObject THEN Append(news[c], i)
                                                        ELSE news[c]]

CanBeStopped(i) == i # 0 /\ i \in rows /\ running[i] # NoObject

StopDeletesAtOnce ==
    /\ Take("stop")
    /\ LET i == Head(calls).index
       IN  IF CanBeStopped(i)
           THEN Stop(i) /\ phase' = [phase EXCEPT ![running[i]] = "none"]
           ELSE UNCHANGED <<running, enabled, news, phase>>
    /\ UNCHANGED <<rows, starting, pending, fireStarter, services, current, held, network>>

StopInstance ==
    /\ Take("stop")
    /\ LET i == Head(calls).index
       IN  IF CanBeStopped(i) THEN Stop(i) ELSE UNCHANGED <<running, enabled, news>>
    /\ UNCHANGED <<rows, starting, pending, fireStarter, services, current, held, network>>
    /\ Release

DeleteInstanceKeepsEnabled ==
    /\ Take("delete")
    /\ LET i == Head(calls).index
       IN  /\ rows' = rows \ ({i} \ {0})
           /\ IF CanBeStopped(i) THEN Stop(i) ELSE UNCHANGED <<running, enabled, news>>
    /\ UNCHANGED <<starting, pending, fireStarter, services, current, held, network>>
    /\ Release

DeleteInstance ==
    /\ Take("delete")
    /\ LET i == Head(calls).index
       IN  \/ i = 0 /\ UNCHANGED <<rows, running, enabled, news>>
           \/ i # 0 /\ CanBeStopped(i) /\ Stop(i) /\ rows' = rows \ {i}
           \/ /\ i # 0 /\ ~CanBeStopped(i)
              /\ rows' = rows \ {i}
              /\ enabled' = enabled \ {i}
              /\ UNCHANGED <<running, news>>
    /\ UNCHANGED <<starting, pending, fireStarter, services, current, held, network>>
    /\ Release

(* createInstance: a row for the first free index, not started, unless the *)
(* name is in use.                                                         *)
CreateInstance ==
    /\ Take("create")
    /\ rows' \in {rows \cup {i} : i \in {j \in Indices :
                    \A k \in Indices : k < j => k \in rows}}
    /\ Answered
    /\ UNCHANGED <<enabled, manager, phase, clients>>

(* getAmbilightAppInstance: the main instance stands in for one that does  *)
(* not run.  The client stores the index it asked for.                     *)
GetAmbilightAppInstance ==
    /\ Take("get")
    /\ LET i == Head(calls).index
       IN  /\ held' = [held EXCEPT ![handling] =
                         IF running[i] # NoObject THEN running[i] ELSE running[0]]
           /\ current' = [current EXCEPT ![handling] = i]
    /\ Answered
    /\ UNCHANGED <<database, manager, news>>
    /\ Release

(* IsInstanceRunning; without, the reply is "Not ready".                   *)
IsInstanceRunning ==
    /\ Take("isRunning")
    /\ IF running[Head(calls).index] # NoObject
       THEN passed' = TRUE /\ UNCHANGED handling
       ELSE Answered
    /\ UNCHANGED <<database, manager, phase, clients>>

Main ==
    \/ HandleInstanceJustStarted
    \/ StartInstance
    \/ StopInstance
    \/ DeleteInstance
    \/ CreateInstance
    \/ GetAmbilightAppInstance
    \/ IsInstanceRunning

-----------------------------------------------------------------------------
(***************************************************************************)
(* The network thread                                                      *)
(***************************************************************************)
Idle == services /\ handling = NoClient

Ask(c, call) ==
    /\ calls' = Append(calls, call)
    /\ handling' = c
    /\ passed' = FALSE

(* A connection begins with the main instance.                             *)
Connect(c) ==
    /\ Idle
    /\ held[c] = NoObject
    /\ Len(calls) < MaxCalls
    /\ Ask(c, Call("get", 0))
    /\ UNCHANGED <<database, manager, phase, clients>>

Disconnect(c) ==
    /\ Idle
    /\ held[c] # NoObject
    /\ held' = [held EXCEPT ![c] = NoObject]
    /\ current' = [current EXCEPT ![c] = 0]
    /\ news' = [news EXCEPT ![c] = <<>>]
    /\ UNCHANGED <<database, manager, calls, network>>
    /\ Release

(* handleMessage: is the instance of the client running?                   *)
HandleMessage(c) ==
    /\ Idle
    /\ held[c] # NoObject
    /\ Len(calls) < MaxCalls
    /\ Ask(c, Call("isRunning", current[c]))
    /\ UNCHANGED <<database, manager, phase, clients>>

(* handleInstanceCommand, and every command that concerns no instance.     *)
HandleInstanceCommand ==
    /\ handling # NoClient
    /\ passed
    /\ \/ \E i \in Indices :
            /\ i # current[handling]
            /\ Ask(handling, Call("get", i))
       \/ \E i \in Indices : Ask(handling, Call("start", i))
       \/ Ask(handling, Call("create", 0))
       \/ /\ \A c \in Clients : Len(calls) + Len(news[c]) < MaxCalls
          /\ \E i \in Indices, kind \in {"stop", "delete"} :
               calls' = Append(calls, Call(kind, i))
          /\ Answered
       \/ Answered /\ UNCHANGED calls
    /\ UNCHANGED <<database, manager, phase, clients>>

(* handleInstanceStateChange: a client of the stopped instance goes to the *)
(* main one.                                                               *)
HandleInstanceStateChangeByIndex(c) ==
    /\ Idle
    /\ news[c] # <<>>
    /\ news' = [news EXCEPT ![c] = Tail(@)]
    /\ current' = IF current[c] = Head(news[c]) THEN [current EXCEPT ![c] = 0]
                                                ELSE current
    /\ UNCHANGED <<database, manager, calls, phase, held, network>>

HandleInstanceStateChange(c) ==
    /\ Idle
    /\ news[c] # <<>>
    /\ news' = [news EXCEPT ![c] = Tail(@)]
    /\ IF current[c] = Head(news[c])
       THEN Ask(c, Call("get", 0))
       ELSE UNCHANGED <<calls, network>>
    /\ UNCHANGED <<database, manager, phase, current, held>>

-----------------------------------------------------------------------------
Next ==
    \/ \E o \in Objects : Start(o)
    \/ Main
    \/ \E c \in Clients : Connect(c) \/ Disconnect(c) \/ HandleMessage(c)
    \/ HandleInstanceCommand
    \/ \E c \in Clients : HandleInstanceStateChange(c)

Spec == Init /\ [][Next]_vars

(* Instances start, the main thread takes its calls, a message that was    *)
(* let through is handled, and posted signals are delivered although there *)
(* are always more messages: the event queue is in order.                  *)
Fairness ==
    /\ \A o \in Objects : WF_vars(Start(o))
    /\ WF_vars(Main)
    /\ WF_vars(HandleInstanceCommand)
    /\ \A c \in Clients : SF_vars(HandleInstanceStateChange(c))

FairSpec == Spec /\ Fairness

-----------------------------------------------------------------------------
(***************************************************************************)
(* Properties                                                              *)
(***************************************************************************)

(* Clients come when the main instance runs, and the instance a client     *)
(* holds exists and is started, whoever stops, deletes or starts it.       *)
ClientsHoldStartedInstances ==
    /\ services => running[0] # NoObject
    /\ \A c \in Clients : held[c] # NoObject => phase[held[c]] = "started"

(* An instance that was stopped is deleted, although clients still held it *)
(* at that time.                                                           *)
StoppedInstancesGo ==
    \A o \in Objects : phase[o] # "none" /\ o \notin Managed ~> phase[o] = "none"

(* "SignalStartInstanceResponse": a client that asked for a start that was *)
(* not refused hears when the instance runs.                               *)
StartsAreAnswered ==
    \A i \in Indices : pending[i] # NoClient ~> pending[i] = NoClient

(* "Selected Ambilight App instance isn't running" is an error: a client   *)
(* that may go on drives an instance of the index it selected.             *)
ClientsDriveTheirInstance ==
    passed => held[handling][1] = current[handling]

(* What the manager promises the rest of the daemon (InstanceLife): an     *)
(* index goes through off, starting and on, and fireStarter, which only    *)
(* counts announcements, starts the services when nothing starts any more. *)
LifeOf(i) ==
    IF starting[i] # NoObject THEN "starting"
    ELSE IF running[i] # NoObject THEN "on"
    ELSE "off"

Life == INSTANCE InstanceLife WITH life <- [i \in Indices |-> LifeOf(i)]

ImplementsInstanceLife == Life!Spec
=============================================================================
