------------------------------- MODULE Muxer -------------------------------
(***************************************************************************)
(* The priority muxer of one LED instance (sources/base/Muxer.cpp).        *)
(*                                                                         *)
(* Every source of colours (capture, effect, network client, API) owns a   *)
(* priority; a lower number is more important.  The muxer keeps the table  *)
(* of registered inputs and decides which of them is visible: the most     *)
(* important active one, or the one the user pinned.                       *)
(*                                                                         *)
(* All operations run on the thread of the instance, one at a time; only   *)
(* the passing of time is concurrent.  A finite expiry stamp is kept as    *)
(* the time that is left until it, in units of the clock: 0 means that the *)
(* stamp has been reached.  The colour, the origin and the owner of an     *)
(* input are not kept, and neither is the throttle of the UI broadcast     *)
(* (_timer, _blockTimer, timeTrigger), which decides nothing.              *)
(***************************************************************************)
EXTENDS Integers

CONSTANTS InputPriorities,    \* the priorities sources may register
          LOWEST_PRIORITY,    \* the built-in black input, always registered
          Components,         \* the kinds of source
          COMP_COLOR, COMP_EFFECT, COMP_IMAGE,
          COMP_INVALID,       \* "nothing has been visible yet"
          MaxTimeout          \* bound: the longest finite timeout

ASSUME PrioritiesAssumption ==
    /\ LOWEST_PRIORITY \in Nat
    /\ InputPriorities \subseteq 0 .. (LOWEST_PRIORITY - 1)

ASSUME ComponentsAssumption ==
    /\ {COMP_COLOR, COMP_EFFECT, COMP_IMAGE} \subseteq Components
    /\ COMP_INVALID \notin Components

ASSUME TimeoutAssumption == MaxTimeout \in Nat

VARIABLES activeInputs,             \* priority -> [timeout, componentId]
          currentPriority,          \* the visible priority
          previousPriority,         \* the one visible before it
          manualSelectedPriority,   \* the pinned priority
          sourceAutoSelectEnabled,  \* FALSE while the user pins an input
          prevVisComp,              \* the component listeners were last told
          clearing                  \* the priorities clearAll still has to clear

vars == <<activeInputs, currentPriority, previousPriority, manualSelectedPriority,
          sourceAutoSelectEnabled, prevVisComp, clearing>>

-----------------------------------------------------------------------------
(***************************************************************************)
(* The table of inputs                                                     *)
(***************************************************************************)
TIMEOUT_INACTIVE == -100
ENDLESS == -1             \* any stored timeout in -99 .. 0 never expires

LOWEST_EFFECT_PRIORITY == LOWEST_PRIORITY - 1
NO_MANUAL_PRIORITY == LOWEST_PRIORITY + 1    \* 256 in the constructor

AllPriorities == InputPriorities \cup {LOWEST_PRIORITY}
Timeouts == {TIMEOUT_INACTIVE, ENDLESS} \cup 0 .. MaxTimeout
InputInfo == [timeout : Timeouts, componentId : Components]

Registered == DOMAIN activeInputs
Due(info) == info.timeout = 0
Active(table) == {p \in DOMAIN table : table[p].timeout > TIMEOUT_INACTIVE}
MostImportant(S) == CHOOSE p \in S : \A q \in S : p <= q

UnexpiredInputsNeverErased(table) == table

UnexpiredInputs(table) ==
    [p \in {q \in DOMAIN table : ~Due(table[q])} |-> table[p]]

WithTimeout(info, t) == [timeout |-> t, componentId |-> info.componentId]

LaterUnguarded(t) == t - 1
Later(t) == IF t > 0 THEN t - 1 ELSE t      \* a stamp, one unit of time later

WithInput(table, p, info) ==
    [q \in DOMAIN table \cup {p} |-> IF q = p THEN info ELSE table[q]]

WithoutInput(table, p) == [q \in DOMAIN table \ {p} |-> table[q]]

TypeOK ==
    /\ Registered \subseteq AllPriorities
    /\ activeInputs \in [Registered -> InputInfo]
    /\ currentPriority \in AllPriorities
    /\ previousPriority \in AllPriorities
    /\ manualSelectedPriority \in AllPriorities \cup {NO_MANUAL_PRIORITY}
    /\ sourceAutoSelectEnabled \in BOOLEAN
    /\ prevVisComp \in Components \cup {COMP_INVALID}
    /\ clearing \subseteq AllPriorities

Init ==
    /\ activeInputs = [p \in {LOWEST_PRIORITY} |->
                          [timeout |-> ENDLESS, componentId |-> COMP_COLOR]]
    /\ currentPriority = LOWEST_PRIORITY
    /\ previousPriority = LOWEST_PRIORITY
    /\ manualSelectedPriority = NO_MANUAL_PRIORITY
    /\ sourceAutoSelectEnabled = TRUE
    /\ prevVisComp = COMP_INVALID
    /\ clearing = {}

-----------------------------------------------------------------------------
(***************************************************************************)
(* setCurrentTime on the table `table` with the selection mode `auto` and  *)
(* the pinned priority `pinned`: expired inputs are erased, a pin on an    *)
(* input that is gone falls back to automatic selection, and listeners are *)
(* told when the visible priority or its component differs from what they  *)
(* know (that is, when currentPriority or prevVisComp changes).            *)
(***************************************************************************)
SetCurrentTimeLosesPrevious(table, auto, pinned) ==
    LET alive == UnexpiredInputs(table)
        pinHolds == ~auto /\ pinned \in DOMAIN alive
        newPriority == IF pinHolds THEN pinned ELSE MostImportant(Active(alive))
        comp == alive[newPriority].componentId
    IN  /\ activeInputs' = alive
        /\ manualSelectedPriority' = pinned
        /\ sourceAutoSelectEnabled' = ~pinHolds
        /\ IF currentPriority # newPriority \/ comp # prevVisComp
           THEN /\ previousPriority' = newPriority
                /\ currentPriority' = newPriority
                /\ prevVisComp' = comp
           ELSE UNCHANGED <<previousPriority, currentPriority, prevVisComp>>

SetCurrentTime(table, auto, pinned) ==
    LET alive == UnexpiredInputs(table)
        pinHolds == ~auto /\ pinned \in DOMAIN alive
        newPriority == IF pinHolds THEN pinned ELSE MostImportant(Active(alive))
        comp == alive[newPriority].componentId
    IN  /\ activeInputs' = alive
        /\ manualSelectedPriority' = pinned
        /\ sourceAutoSelectEnabled' = ~pinHolds
        /\ IF currentPriority # newPriority \/ comp # prevVisComp
           THEN /\ previousPriority' = currentPriority
                /\ currentPriority' = newPriority
                /\ prevVisComp' = comp
           ELSE UNCHANGED <<previousPriority, currentPriority, prevVisComp>>

(* The 250 ms timer of the constructor; it is never stopped.               *)
UpdateTimerTickOnlyExpires ==
    /\ clearing = {}
    /\ \E p \in Registered : Due(activeInputs[p])
    /\ SetCurrentTime(activeInputs, sourceAutoSelectEnabled, manualSelectedPriority)
    /\ UNCHANGED clearing

UpdateTimerTick ==
    /\ clearing = {}
    /\ SetCurrentTime(activeInputs, sourceAutoSelectEnabled, manualSelectedPriority)
    /\ UNCHANGED clearing

(* Time passes, also while a handler runs.                                 *)
Elapse ==
    /\ \E p \in Registered : activeInputs[p].timeout > 0
    /\ activeInputs' = [p \in Registered |->
                           WithTimeout(activeInputs[p], Later(activeInputs[p].timeout))]
    /\ UNCHANGED <<currentPriority, previousPriority, manualSelectedPriority,
                   sourceAutoSelectEnabled, prevVisComp, clearing>>

-----------------------------------------------------------------------------
(***************************************************************************)
(* The operations                                                          *)
(***************************************************************************)

(* A new input waits for data; a known one keeps its timeout and changes   *)
(* its component.  Nothing is selected anew.                               *)
RegisterInput(p, component) ==
    /\ clearing = {}
    /\ activeInputs' = WithInput(activeInputs, p,
           [timeout |-> IF p \in Registered THEN activeInputs[p].timeout
                                            ELSE TIMEOUT_INACTIVE,
            componentId |-> component])
    /\ UNCHANGED <<currentPriority, previousPriority, manualSelectedPriority,
                   sourceAutoSelectEnabled, prevVisComp, clearing>>

(* setInput and setInputInactive: data (or the end of it) for input p.     *)
(* The selection runs only when the input changes between active and       *)
(* inactive; a call for an input that is gone fails and changes nothing.   *)
SetInputNeverReselects(p, timeout) ==
    /\ clearing = {}
    /\ p \in Registered
    /\ activeInputs' = WithInput(activeInputs, p, WithTimeout(activeInputs[p], timeout))
    /\ UNCHANGED <<currentPriority, previousPriority, manualSelectedPriority,
                   sourceAutoSelectEnabled, prevVisComp, clearing>>

SetInput(p, timeout) ==
    /\ clearing = {}
    /\ p \in Registered
    /\ LET table == WithInput(activeInputs, p, WithTimeout(activeInputs[p], timeout))
           activeChange == (activeInputs[p].timeout = TIMEOUT_INACTIVE)
                              # (timeout = TIMEOUT_INACTIVE)
       IN  IF activeChange
           THEN SetCurrentTime(table, sourceAutoSelectEnabled, manualSelectedPriority)
           ELSE /\ activeInputs' = table
                /\ UNCHANGED <<currentPriority, previousPriority,
                               manualSelectedPriority, sourceAutoSelectEnabled,
                               prevVisComp>>
    /\ UNCHANGED clearing

(* clearInput: the built-in input cannot be cleared.                       *)
ClearOf(p) ==
    /\ p < LOWEST_PRIORITY
    /\ p \in Registered
    /\ SetCurrentTime(WithoutInput(activeInputs, p), sourceAutoSelectEnabled,
                      manualSelectedPriority)

ClearInput(p) ==
    /\ clearing = {}
    /\ ClearOf(p)
    /\ UNCHANGED clearing

(* clearAll(false), one clearInput per user input in ascending order: the  *)
(* listeners see every intermediate selection.  The forced variant has no  *)
(* caller.                                                                 *)
IsUserInputOfAnyKind(p) == p < LOWEST_EFFECT_PRIORITY

IsUserInput(p) ==
    /\ activeInputs[p].componentId \in {COMP_COLOR, COMP_EFFECT, COMP_IMAGE}
    /\ p < LOWEST_EFFECT_PRIORITY

ClearAll ==
    /\ clearing = {}
    /\ clearing' = {p \in Registered : IsUserInput(p)}
    /\ UNCHANGED <<activeInputs, currentPriority, previousPriority,
                   manualSelectedPriority, sourceAutoSelectEnabled, prevVisComp>>

ClearAllStep ==
    /\ clearing # {}
    /\ LET key == MostImportant(clearing)
       IN  /\ IF key \in Registered
              THEN ClearOf(key)
              ELSE UNCHANGED <<activeInputs, currentPriority, previousPriority,
                               manualSelectedPriority, sourceAutoSelectEnabled,
                               prevVisComp>>
           /\ clearing' = clearing \ {key}

(* setPriority: pin input p.  When another input is already pinned,        *)
(* setSourceAutoSelectEnabled(false) finds nothing to change, so the new   *)
(* pin shows only at the next selection.                                   *)
SetPriority(p) ==
    /\ clearing = {}
    /\ p \in Registered
    /\ IF sourceAutoSelectEnabled
       THEN SetCurrentTime(activeInputs, FALSE, p)
       ELSE /\ manualSelectedPriority' = p
            /\ UNCHANGED <<activeInputs, currentPriority, previousPriority,
                           sourceAutoSelectEnabled, prevVisComp>>
    /\ UNCHANGED clearing

(* setSourceAutoSelectEnabled: switching to manual mode fails when the     *)
(* input pinned last is gone.                                              *)
SetSourceAutoSelectEnabled(enable) ==
    /\ clearing = {}
    /\ sourceAutoSelectEnabled # enable
    /\ enable \/ manualSelectedPriority \in Registered
    /\ SetCurrentTime(activeInputs, enable, manualSelectedPriority)
    /\ UNCHANGED clearing

Next ==
    \/ UpdateTimerTick
    \/ Elapse
    \/ \E p \in InputPriorities, c \in Components : RegisterInput(p, c)
    \/ \E p \in InputPriorities, t \in Timeouts \ {0} : SetInput(p, t)
    \/ \E p \in InputPriorities : ClearInput(p)
    \/ ClearAll
    \/ ClearAllStep
    \/ \E p \in AllPriorities : SetPriority(p)
    \/ \E enable \in BOOLEAN : SetSourceAutoSelectEnabled(enable)

Spec == Init /\ [][Next]_vars

(* The timer of the muxer keeps firing, a loop that has begun goes on, and *)
(* time passes.  No caller is obliged to do anything.                      *)
Fairness ==
    /\ WF_vars(UpdateTimerTick)
    /\ WF_vars(ClearAllStep)
    /\ WF_vars(Elapse)

FairSpec == Spec /\ Fairness

-----------------------------------------------------------------------------
(***************************************************************************)
(* Properties                                                              *)
(***************************************************************************)

(* In automatic mode the visible input is at every moment the most         *)
(* important active one, although only some operations run the selection   *)
(* (registering, refreshing and pinning do not).                           *)
AutoShowsMostImportant ==
    sourceAutoSelectEnabled => currentPriority = MostImportant(Active(activeInputs))

(* A pin never dangles: in manual mode the pinned input is registered.     *)
(* Removing or expiring it must fall back to automatic selection in the    *)
(* same step.                                                              *)
PinIsRegistered ==
    ~sourceAutoSelectEnabled => manualSelectedPriority \in Registered

(* What is visible can be looked up, also while a new pin waits to be      *)
(* applied: getInputInfo(currentPriority) never takes its fallback.        *)
VisibleIsRegistered == currentPriority \in Registered

(* Clearing user inputs one after the other never removes a capture, a     *)
(* network source or an input at the reserved lowest priorities: those go  *)
(* only when their own timeout is reached.                                 *)
SparesOthers ==
    clearing # {} =>
        \A p \in Registered :
            \/ /\ activeInputs[p].componentId \in {COMP_COLOR, COMP_EFFECT, COMP_IMAGE}
               /\ p < LOWEST_EFFECT_PRIORITY
            \/ Due(activeInputs[p])
            \/ p \in Registered'

ClearAllSparesOthers == [][SparesOthers]_vars

(* Something waits for a selection: a pin, or the component of the visible *)
(* input, was changed by a call that does not select.                      *)
VisibleComponent == activeInputs[currentPriority].componentId

PinWaits == ~sourceAutoSelectEnabled /\ currentPriority # manualSelectedPriority

SelectionIsDue == PinWaits \/ VisibleComponent # prevVisComp

(* It does not wait for ever: the pin is applied and the component is      *)
(* announced, although no further call need come.                          *)
SelectionsAreMade == SelectionIsDue ~> ~SelectionIsDue

(* What listeners learn from the announcements implements the abstract     *)
(* VisibleSource: "a new source" is said exactly when there was none (the  *)
(* LED device is switched on only then), "no source left" exactly when the *)
(* last one went, although a listener sees only the visible and the        *)
(* previous priority.                                                      *)
Announcement ==
    IF prevVisComp = COMP_INVALID THEN "none"
    ELSE IF currentPriority = LOWEST_PRIORITY THEN "off"
    ELSE IF previousPriority = LOWEST_PRIORITY THEN "on"
    ELSE "keep"

Source == INSTANCE VisibleSource
              WITH sourceVisible <- currentPriority # LOWEST_PRIORITY,
                   announcement <- Announcement

ImplementsVisibleSource == Source!Spec

(* An input with a timeout that nobody refreshes does not stay.            *)
ExpiredInputsGo ==
    \A p \in InputPriorities :
        (p \in Registered /\ Due(activeInputs[p])) ~>
            (p \notin Registered \/ ~Due(activeInputs[p]))

=============================================================================
