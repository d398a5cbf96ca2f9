--------------------------- MODULE CaptureHistory ---------------------------
(***************************************************************************)
(* CaptureClients with a history variable: the indices that two objects    *)
(* had at the same time, since when an object of that index lives.  What   *)
(* the capture knows by an index is then a mixture of what the two say.    *)
(***************************************************************************)
EXTENDS CaptureClients

VARIABLE shared

HistoryInit == Init /\ shared = {}

Shared ==
    {x \in Indices : \E i \in Instances :
        /\ index'[i] = x
        /\ x \in shared \/ \E j \in Instances \ {i} : index'[j] = x}

HistoryNext == Next /\ shared' = IF index' = index THEN shared ELSE Shared

historyVars == <<vars, shared>>

HistorySpec == HistoryInit /\ [][HistoryNext]_historyVars

FairHistorySpec == HistorySpec /\ Fairness

(* When every request with an index has arrived, the index is a client of  *)
(* the capture only if an instance of that index wants images, whatever    *)
(* was switched, changed, stopped, started again or destroyed meanwhile;   *)
(* and it is one if an instance wants them that never had to share its     *)
(* index (the end of an older object of the index ends the request of the  *)
(* newer one as well).                                                     *)
Wanted(x) == \E i \in Instances : index[i] = x /\ UsbCaptEnabled(i)

ClientsConverge ==
    \A x \in Indices :
        (\A k \in DOMAIN requests : requests[k].instance # x) =>
            /\ x \in runningClients => Wanted(x)
            /\ Wanted(x) => x \in runningClients \cup shared

(* "Turn off the USB gripper completely after 10 seconds when all LED      *)
(* devices are off": a client whose LEDs are on gets images, once the news *)
(* of its LEDs has arrived and the timer is through; again, if it does not *)
(* share its index.                                                        *)
Lit(x) == \E i \in lit : index[i] = x

Settled(x) == ~trigger /\ \A k \in DOMAIN pauses : pauses[k].instance # x

LitClientsAreFilmed ==
    \A x \in runningClients \ shared : Lit(x) /\ Settled(x) => capturing

(* That holds as long as only clients are counted as dark.                 *)
LitClientsAreFilmedAmongClients ==
    pausedClients \subseteq runningClients => LitClientsAreFilmed
=============================================================================
