---------------------------- MODULE InstanceLife ----------------------------
(***************************************************************************)
(* What the instance manager promises those who hear its START and STOP    *)
(* signals, and the daemon, which waits for the instances of its start     *)
(* before it starts the services of the network: one instance per index,   *)
(* which is off, starting or on.  When the services start, no instance is  *)
(* starting; before that nobody starts or stops one; and the main instance *)
(* is never stopped.                                                       *)
(***************************************************************************)
CONSTANT Indices          \* 0 is the main instance

VARIABLES life,
          services        \* the services of the network were started

lifeVars == <<life, services>>

Init ==
    /\ life \in [Indices -> {"off", "starting"}]
    /\ life[0] = "starting"
    /\ services = FALSE

BecomesStarting(i) ==
    /\ services
    /\ life[i] = "off"
    /\ life' = [life EXCEPT ![i] = "starting"]
    /\ UNCHANGED services

(* The last instance of the start of the daemon starts the services.       *)
BecomesOn(i) ==
    /\ life[i] = "starting"
    /\ life' = [life EXCEPT ![i] = "on"]
    /\ services' = (services \/ \A j \in Indices : life'[j] # "starting")

BecomesOff(i) ==
    /\ services
    /\ i # 0
    /\ life[i] = "on"
    /\ life' = [life EXCEPT ![i] = "off"]
    /\ UNCHANGED services

Next == \E i \in Indices : BecomesStarting(i) \/ BecomesOn(i) \/ BecomesOff(i)

Spec == Init /\ [][Next]_lifeVars
=============================================================================
