---------------------------- MODULE MuxerProofs ----------------------------
(***************************************************************************)
(* Proofs about the muxer for any set of priorities, any components and    *)
(* any bound on the timeouts.                                              *)
(***************************************************************************)
EXTENDS Muxer, WellFoundedInduction, TLAPS

-----------------------------------------------------------------------------
(***************************************************************************)
(* The most important priority of a set                                    *)
(***************************************************************************)
LessThan == {pair \in Nat \X Nat : pair[1] < pair[2]}

(* The order of the natural numbers has no infinite descent: the library   *)
(* fact, for the relation written out.                                     *)
LEMMA LessThanWellFounded == IsWellFoundedOn(LessThan, Nat)
  BY NatLessThanWellFounded DEF OpToRel, LessThan

(* Every non-empty set of priorities has a most important one: the choice  *)
(* the muxer makes is always well defined.                                 *)
LEMMA MostImportantIsLeast ==
    ASSUME NEW S \in SUBSET Nat, S # {}
    PROVE  /\ MostImportant(S) \in S
           /\ \A q \in S : MostImportant(S) <= q
<1>1. \E x \in S : \A y \in S : ~(<<y, x>> \in LessThan)
  BY LessThanWellFounded, WFMin
<1>2. PICK x \in S : \A y \in S : ~(<<y, x>> \in LessThan)
  BY <1>1
<1>3. ASSUME NEW y \in S
      PROVE  x <= y
  <2>1. x \in Nat /\ y \in Nat
    OBVIOUS
  <2>2. y < x => <<y, x>> \in LessThan
    BY <2>1 DEF LessThan
  <2>3. ~(y < x)
    BY <1>2, <2>2
  <2>4. QED
    BY <2>1, <2>3
<1>4. QED
  BY <1>3 DEF MostImportant

-----------------------------------------------------------------------------
(***************************************************************************)
(* Tables of inputs                                                        *)
(***************************************************************************)

(* A table the muxer may hold: well typed, with the built-in input in it,  *)
(* which never expires and stays a colour.                                 *)
TableOK(table) ==
    /\ DOMAIN table \subseteq AllPriorities
    /\ table \in [DOMAIN table -> InputInfo]
    /\ LOWEST_PRIORITY \in DOMAIN table
    /\ table[LOWEST_PRIORITY].timeout = ENDLESS
    /\ table[LOWEST_PRIORITY].componentId = COMP_COLOR

(* Priorities are natural numbers, which is what makes a choice possible.  *)
LEMMA PrioritiesAreNaturals ==
    /\ AllPriorities \subseteq Nat
    /\ LOWEST_PRIORITY \in AllPriorities
    /\ LOWEST_PRIORITY \notin InputPriorities
    /\ \A p \in InputPriorities : p < LOWEST_PRIORITY
  BY PrioritiesAssumption DEF AllPriorities

(* The built-in input makes sure that some input is active, so that there  *)
(* is always something to show.                                            *)
LEMMA SomethingIsActive ==
    ASSUME NEW table, TableOK(table)
    PROVE  /\ MostImportant(Active(table)) \in Active(table)
           /\ Active(table) \subseteq DOMAIN table
<1>1. Active(table) \subseteq Nat
  BY PrioritiesAreNaturals DEF TableOK, Active
<1>2. LOWEST_PRIORITY \in Active(table)
  BY DEF TableOK, Active, ENDLESS, TIMEOUT_INACTIVE
<1>3. Active(table) \subseteq DOMAIN table
  BY DEF Active
<1>4. QED
  BY <1>1, <1>2, <1>3, MostImportantIsLeast

(* Erasing the expired inputs leaves a table the muxer may hold.           *)
LEMMA UnexpiredInputsOK ==
    ASSUME NEW table, TableOK(table)
    PROVE  TableOK(UnexpiredInputs(table))
  BY DEF TableOK, UnexpiredInputs, Due, ENDLESS

-----------------------------------------------------------------------------
(***************************************************************************)
(* The inductive invariant                                                 *)
(***************************************************************************)
SelectionOK ==
    /\ AutoShowsMostImportant
    /\ PinIsRegistered
    /\ VisibleIsRegistered

IInv ==
    /\ TypeOK
    /\ TableOK(activeInputs)
    /\ clearing \subseteq InputPriorities
    /\ SelectionOK

(* Whatever table it is given, the selection ends in a state in which the  *)
(* three facts hold: it repairs the selection, it does not preserve it.    *)
LEMMA SetCurrentTimeSelects ==
    ASSUME TypeOK, NEW table, TableOK(table), NEW auto \in BOOLEAN,
           NEW pinned \in AllPriorities \cup {NO_MANUAL_PRIORITY},
           SetCurrentTime(table, auto, pinned), clearing' \subseteq InputPriorities
    PROVE  IInv'
<1> DEFINE alive == UnexpiredInputs(table)
           pinHolds == ~auto /\ pinned \in DOMAIN alive
           chosen == IF pinHolds THEN pinned ELSE MostImportant(Active(alive))
<1>1. TableOK(alive)
  BY UnexpiredInputsOK
<1>2. MostImportant(Active(alive)) \in Active(alive) /\ Active(alive) \subseteq DOMAIN alive
  BY <1>1, SomethingIsActive
<1>3. chosen \in DOMAIN alive
  BY <1>2
<1>4. alive[chosen].componentId \in Components
  BY <1>1, <1>3 DEF TableOK, InputInfo
<1> HIDE DEF alive
<1>5. /\ activeInputs' = alive
      /\ manualSelectedPriority' = pinned
      /\ sourceAutoSelectEnabled' = ~pinHolds
  BY DEF SetCurrentTime, alive
<1>6. currentPriority' = chosen
  BY DEF SetCurrentTime, alive
<1>7. /\ previousPriority' \in AllPriorities
      /\ prevVisComp' \in Components \cup {COMP_INVALID}
  BY <1>4 DEF SetCurrentTime, alive, TypeOK
<1>8. TypeOK'
  BY <1>1, <1>3, <1>5, <1>6, <1>7 DEF TypeOK, TableOK, Registered, AllPriorities
<1>9. SelectionOK'
  BY <1>2, <1>3, <1>5, <1>6
     DEF SelectionOK, AutoShowsMostImportant, PinIsRegistered, VisibleIsRegistered,
         Registered
<1>10. QED
  BY <1>1, <1>5, <1>8, <1>9 DEF IInv

(* A step that leaves the selection alone preserves the invariant when it  *)
(* changes neither which inputs are registered nor which are active,       *)
(* except for new inputs that wait for data.                               *)
LEMMA UnselectedStepOK ==
    ASSUME IInv, TableOK(activeInputs'),
           Registered \subseteq Registered',
           Active(activeInputs') = Active(activeInputs),
           UNCHANGED <<currentPriority, previousPriority, manualSelectedPriority,
                       sourceAutoSelectEnabled, prevVisComp>>,
           clearing' \subseteq InputPriorities
    PROVE  IInv'
<1>1. TypeOK'
  BY DEF IInv, TypeOK, TableOK, Registered, AllPriorities
<1>2. SelectionOK'
  BY DEF IInv, SelectionOK, AutoShowsMostImportant, PinIsRegistered,
         VisibleIsRegistered
<1>3. QED
  BY <1>1, <1>2 DEF IInv

THEOREM InitOK == Init => IInv
<1> SUFFICES ASSUME Init
             PROVE  IInv
  OBVIOUS
<1>1. TableOK(activeInputs) /\ Registered = {LOWEST_PRIORITY}
  BY ComponentsAssumption
     DEF Init, TableOK, Registered, InputInfo, Timeouts, ENDLESS, AllPriorities
<1>2. Active(activeInputs) = {LOWEST_PRIORITY}
  BY <1>1 DEF Init, Active, Registered, ENDLESS, TIMEOUT_INACTIVE
<1>3. MostImportant({LOWEST_PRIORITY}) = LOWEST_PRIORITY
  BY PrioritiesAreNaturals, MostImportantIsLeast
<1>4. TypeOK
  BY <1>1 DEF Init, TypeOK, TableOK, Registered, AllPriorities
<1>5. SelectionOK
  BY <1>1, <1>2, <1>3 DEF Init, SelectionOK, AutoShowsMostImportant,
                          PinIsRegistered, VisibleIsRegistered
<1>6. QED
  BY <1>1, <1>4, <1>5 DEF Init, IInv

-----------------------------------------------------------------------------
(***************************************************************************)
(* One lemma per group of operations                                       *)
(***************************************************************************)

(* Registering adds at most an inactive input, or renames the component of *)
(* a known one.                                                            *)
LEMMA RegisterInputOK ==
    ASSUME IInv, NEW p \in InputPriorities, NEW component \in Components,
           RegisterInput(p, component)
    PROVE  IInv'
<1> DEFINE stamp == IF p \in Registered THEN activeInputs[p].timeout
                                        ELSE TIMEOUT_INACTIVE
           info == [timeout |-> stamp, componentId |-> component]
<1>1. stamp \in Timeouts /\ info \in InputInfo
  BY DEF IInv, TableOK, InputInfo, Timeouts, Registered
<1>2. activeInputs' = WithInput(activeInputs, p, info)
  BY DEF RegisterInput
<1>3. info.timeout = stamp
  OBVIOUS
<1> HIDE DEF info
<1>4. TableOK(activeInputs')
  BY <1>1, <1>2, PrioritiesAreNaturals DEF IInv, TableOK, WithInput, AllPriorities
<1>5. Active(activeInputs') = Active(activeInputs)
  BY <1>2, <1>3 DEF WithInput, Active, Registered, TIMEOUT_INACTIVE
<1>6. Registered \subseteq Registered'
  BY <1>2 DEF WithInput, Registered
<1>7. QED
  BY <1>4, <1>5, <1>6, UnselectedStepOK DEF RegisterInput, IInv

(* Data for an input selects anew exactly when the set of active inputs    *)
(* changes.                                                                *)
LEMMA SetInputOK ==
    ASSUME IInv, NEW p \in InputPriorities, NEW timeout \in Timeouts \ {0},
           SetInput(p, timeout)
    PROVE  IInv'
<1> DEFINE table == WithInput(activeInputs, p, WithTimeout(activeInputs[p], timeout))
           activeChange == (activeInputs[p].timeout = TIMEOUT_INACTIVE)
                              # (timeout = TIMEOUT_INACTIVE)
<1>1. p \in Registered /\ p # LOWEST_PRIORITY
  BY PrioritiesAreNaturals DEF SetInput
<1>2. /\ DOMAIN table = Registered
      /\ table[p].timeout = timeout
      /\ \A q \in Registered \ {p} : table[q] = activeInputs[q]
  BY <1>1 DEF Registered, WithInput, WithTimeout
<1>3. TableOK(table)
  BY <1>1, <1>2 DEF IInv, TableOK, InputInfo, Registered, WithInput, WithTimeout
<1>4. CASE activeChange
  <2>1. SetCurrentTime(table, sourceAutoSelectEnabled, manualSelectedPriority)
    BY <1>4 DEF SetInput
  <2>2. QED
    BY <1>3, <2>1, SetCurrentTimeSelects DEF SetInput, IInv, TypeOK
<1>5. CASE ~activeChange
  <2>1. activeInputs' = table
    BY <1>5 DEF SetInput
  <2>2. activeInputs[p].timeout \in Timeouts
    BY <1>1 DEF IInv, TableOK, InputInfo, Registered
  <2>3. activeInputs[p].timeout > TIMEOUT_INACTIVE <=> timeout > TIMEOUT_INACTIVE
    BY <1>5, <2>2, TimeoutAssumption DEF Timeouts, TIMEOUT_INACTIVE, ENDLESS
  <2>4. Active(table) = Active(activeInputs)
    BY <1>1, <1>2, <2>3 DEF Active, Registered
  <2>5. QED
    BY <1>2, <1>3, <1>5, <2>1, <2>4, UnselectedStepOK DEF SetInput, IInv, Registered
<1>6. QED
  BY <1>4, <1>5

(* Clearing an input selects among the rest.                               *)
LEMMA ClearOfOK ==
    ASSUME IInv, NEW p \in InputPriorities, ClearOf(p), clearing' \subseteq InputPriorities
    PROVE  IInv'
<1>1. TableOK(WithoutInput(activeInputs, p))
  BY PrioritiesAreNaturals DEF IInv, TableOK, WithoutInput
<1>2. SetCurrentTime(WithoutInput(activeInputs, p), sourceAutoSelectEnabled,
                     manualSelectedPriority)
  BY DEF ClearOf
<1>3. QED
  BY <1>1, <1>2, SetCurrentTimeSelects DEF IInv, TypeOK

(* The loop of clearAll visits keys of the table other than the built-in   *)
(* input, each one once.                                                   *)
LEMMA ClearAllOK ==
    ASSUME IInv, ClearAll \/ ClearAllStep
    PROVE  IInv'
<1>1. CASE ClearAll
  <2>1. clearing' \subseteq InputPriorities
    BY <1>1, PrioritiesAreNaturals
       DEF ClearAll, IsUserInput, IInv, TypeOK, AllPriorities, LOWEST_EFFECT_PRIORITY
  <2>2. QED
    BY <1>1, <2>1, UnselectedStepOK DEF ClearAll, IInv, Registered
<1>2. CASE ClearAllStep
  <2> DEFINE key == MostImportant(clearing)
  <2>1. clearing \subseteq Nat /\ clearing # {}
    BY <1>2, PrioritiesAssumption DEF ClearAllStep, IInv
  <2>2. key \in InputPriorities
    BY <2>1, MostImportantIsLeast DEF IInv
  <2> HIDE DEF key
  <2>3. clearing' \subseteq InputPriorities
    BY <1>2 DEF ClearAllStep, IInv
  <2>4. CASE key \in Registered
    <3>1. ClearOf(key)
      BY <1>2, <2>4 DEF ClearAllStep, key
    <3>2. QED
      BY <2>2, <2>3, <3>1, ClearOfOK
  <2>5. CASE key \notin Registered
    <3>1. UNCHANGED <<activeInputs, currentPriority, previousPriority,
                      manualSelectedPriority, sourceAutoSelectEnabled, prevVisComp>>
      BY <1>2, <2>5 DEF ClearAllStep, key
    <3>2. QED
      BY <2>3, <3>1, UnselectedStepOK DEF IInv, Registered
  <2>6. QED
    BY <2>4, <2>5
<1>3. QED
  BY <1>1, <1>2

(* Time may pass at any moment: a stamp that is reached stays active until *)
(* the next selection erases it.                                           *)
LEMMA ElapseOK ==
    ASSUME IInv, Elapse
    PROVE  IInv'
<1>1. \A p \in Registered : activeInputs[p] \in InputInfo /\ activeInputs[p].timeout \in Timeouts
  BY DEF IInv, TableOK, InputInfo, Registered
<1>2. /\ Registered' = Registered
      /\ \A p \in Registered :
            activeInputs'[p] =
                WithTimeout(activeInputs[p], Later(activeInputs[p].timeout))
  BY DEF Elapse, Registered
<1>3. ASSUME NEW p \in Registered
      PROVE  /\ activeInputs'[p] \in InputInfo
             /\ activeInputs'[p].componentId = activeInputs[p].componentId
             /\ activeInputs[p].timeout <= 0 =>
                    activeInputs'[p].timeout = activeInputs[p].timeout
             /\ activeInputs'[p].timeout > TIMEOUT_INACTIVE
                    <=> activeInputs[p].timeout > TIMEOUT_INACTIVE
  <2> DEFINE stamp == Later(activeInputs[p].timeout)
  <2>1. /\ stamp \in Timeouts
        /\ activeInputs[p].timeout <= 0 => stamp = activeInputs[p].timeout
        /\ stamp > TIMEOUT_INACTIVE <=> activeInputs[p].timeout > TIMEOUT_INACTIVE
    BY <1>1, TimeoutAssumption DEF Later, Timeouts, TIMEOUT_INACTIVE, ENDLESS
  <2> HIDE DEF stamp
  <2>2. activeInputs'[p] = [timeout |-> stamp, componentId |-> activeInputs[p].componentId]
    BY <1>2 DEF WithTimeout, stamp
  <2>3. QED
    BY <1>1, <2>1, <2>2 DEF InputInfo
<1>4. TableOK(activeInputs')
  BY <1>2, <1>3 DEF IInv, TableOK, Registered, Elapse, ENDLESS
<1>5. Active(activeInputs') = Active(activeInputs)
  BY <1>2, <1>3 DEF Active, Registered
<1>6. QED
  BY <1>2, <1>4, <1>5, UnselectedStepOK DEF Elapse, IInv

(* Pinning an input, and switching between the modes.                      *)
LEMMA PinningOK ==
    ASSUME IInv,
           \/ \E p \in AllPriorities : SetPriority(p)
           \/ \E enable \in BOOLEAN : SetSourceAutoSelectEnabled(enable)
    PROVE  IInv'
<1>1. ASSUME NEW p \in AllPriorities, SetPriority(p)
      PROVE  IInv'
  <2>1. CASE sourceAutoSelectEnabled
    BY <1>1, <2>1, SetCurrentTimeSelects DEF SetPriority, IInv
  <2>2. CASE ~sourceAutoSelectEnabled
    <3>1. /\ p \in Registered
          /\ manualSelectedPriority' = p
          /\ UNCHANGED <<activeInputs, currentPriority, previousPriority,
                         sourceAutoSelectEnabled, prevVisComp, clearing>>
      BY <1>1, <2>2 DEF SetPriority
    <3>2. QED
      BY <2>2, <3>1 DEF IInv, TypeOK, SelectionOK, AutoShowsMostImportant,
                        PinIsRegistered, VisibleIsRegistered, Registered
  <2>3. QED
    BY <2>1, <2>2
<1>2. ASSUME NEW enable \in BOOLEAN, SetSourceAutoSelectEnabled(enable)
      PROVE  IInv'
  BY <1>2, SetCurrentTimeSelects DEF SetSourceAutoSelectEnabled, IInv, TypeOK
<1>3. QED
  BY <1>1, <1>2

(* The invariant is inductive.                                             *)
THEOREM NextOK == IInv /\ [Next]_vars => IInv'
<1> SUFFICES ASSUME IInv, [Next]_vars
             PROVE  IInv'
  OBVIOUS
<1>1. CASE UpdateTimerTick
  BY <1>1, SetCurrentTimeSelects DEF UpdateTimerTick, IInv, TypeOK
<1>2. CASE Elapse
  BY <1>2, ElapseOK
<1>3. CASE \E p \in InputPriorities, c \in Components : RegisterInput(p, c)
  BY <1>3, RegisterInputOK
<1>4. CASE \E p \in InputPriorities, t \in Timeouts \ {0} : SetInput(p, t)
  BY <1>4, SetInputOK
<1>5. CASE \E p \in InputPriorities : ClearInput(p)
  BY <1>5, ClearOfOK DEF ClearInput, IInv
<1>6. CASE ClearAll \/ ClearAllStep
  BY <1>6, ClearAllOK
<1>7. CASE \E p \in AllPriorities : SetPriority(p)
  BY <1>7, PinningOK
<1>8. CASE \E enable \in BOOLEAN : SetSourceAutoSelectEnabled(enable)
  BY <1>8, PinningOK
<1>9. CASE UNCHANGED vars
  BY <1>9, UnselectedStepOK DEF vars, IInv, Registered
<1>10. QED
  BY <1>1, <1>2, <1>3, <1>4, <1>5, <1>6, <1>7, <1>8, <1>9 DEF Next

-----------------------------------------------------------------------------
(***************************************************************************)
(* The theorems                                                            *)
(***************************************************************************)

(* The invariant holds in every reachable state.                           *)
THEOREM Invariance == Spec => []IInv
  BY InitOK, NextOK, PTL DEF Spec

(* The variables keep their types, whatever the callers do.                *)
THEOREM TypeCorrect == Spec => []TypeOK
<1>1. IInv => TypeOK
  BY DEF IInv
<1>2. QED
  BY <1>1, Invariance, PTL

(* In automatic mode the visible input is always the most important active *)
(* one.                                                                    *)
THEOREM AutoSelectionCorrect == Spec => []AutoShowsMostImportant
<1>1. IInv => AutoShowsMostImportant
  BY DEF IInv, SelectionOK
<1>2. QED
  BY <1>1, Invariance, PTL

(* The pinned input is registered as long as manual mode lasts.            *)
THEOREM PinNeverDangles == Spec => []PinIsRegistered
<1>1. IInv => PinIsRegistered
  BY DEF IInv, SelectionOK
<1>2. QED
  BY <1>1, Invariance, PTL

(* The visible priority always names a registered input.                   *)
THEOREM VisibleNeverDangles == Spec => []VisibleIsRegistered
<1>1. IInv => VisibleIsRegistered
  BY DEF IInv, SelectionOK
<1>2. QED
  BY <1>1, Invariance, PTL

-----------------------------------------------------------------------------
(***************************************************************************)
(* What clearAll spares                                                    *)
(***************************************************************************)

(* The keys that clearAll has still to visit are user inputs: nothing can  *)
(* take another component while the loop runs.                             *)
ClearingUserInputs == \A p \in clearing \cap Registered : IsUserInput(p)

(* A selection keeps every input that is not due, with its component.      *)
LEMMA SetCurrentTimeKeepsInputs ==
    ASSUME NEW table, NEW auto, NEW pinned, SetCurrentTime(table, auto, pinned)
    PROVE  /\ \A p \in DOMAIN table : Due(table[p]) \/ p \in Registered'
           /\ \A p \in Registered' : p \in DOMAIN table /\ activeInputs'[p] = table[p]
  BY DEF SetCurrentTime, UnexpiredInputs, Registered

LEMMA ClearAllStepVisits ==
    ASSUME IInv, ClearAllStep
    PROVE  \E key \in clearing :
              /\ clearing' = clearing \ {key}
              /\ \A p \in Registered \ {key} : Due(activeInputs[p]) \/ p \in Registered'
              /\ \A p \in Registered' :
                    p \in Registered /\ activeInputs'[p] = activeInputs[p]
<1> DEFINE key == MostImportant(clearing)
           rest == WithoutInput(activeInputs, key)
<1>1. key \in clearing
  BY MostImportantIsLeast, PrioritiesAssumption DEF ClearAllStep, IInv
<1>2. clearing' = clearing \ {key}
  BY DEF ClearAllStep
<1>3. /\ DOMAIN rest = Registered \ {key}
      /\ \A p \in DOMAIN rest : rest[p] = activeInputs[p]
  BY DEF WithoutInput, Registered
<1>4. CASE key \in Registered
  <2>1. SetCurrentTime(rest, sourceAutoSelectEnabled, manualSelectedPriority)
    BY <1>4 DEF ClearAllStep, ClearOf
  <2> HIDE DEF rest, key
  <2>2. QED
    BY <1>1, <1>2, <1>3, <2>1, SetCurrentTimeKeepsInputs
<1>5. CASE key \notin Registered
  BY <1>1, <1>2, <1>5 DEF ClearAllStep, Registered
<1>6. QED
  BY <1>4, <1>5

LEMMA ClearingNext == IInv /\ ClearingUserInputs /\ [Next]_vars => ClearingUserInputs'
<1> SUFFICES ASSUME IInv, ClearingUserInputs, [Next]_vars
             PROVE  ClearingUserInputs'
  OBVIOUS
<1>1. CASE ClearAll
  BY <1>1 DEF ClearAll, ClearingUserInputs, IsUserInput, Registered
<1>2. CASE ClearAllStep
  BY <1>2, ClearAllStepVisits DEF ClearingUserInputs, IsUserInput
<1>3. CASE Elapse
  BY <1>3 DEF Elapse, ClearingUserInputs, IsUserInput, WithTimeout, Registered
<1>4. CASE UNCHANGED vars
  BY <1>4 DEF vars, ClearingUserInputs, IsUserInput, Registered
<1>5. CASE clearing' = {}
  BY <1>5 DEF ClearingUserInputs
<1>6. QED
  BY <1>1, <1>2, <1>3, <1>4, <1>5
     DEF Next, UpdateTimerTick, RegisterInput, SetInput, ClearInput, SetPriority,
         SetSourceAutoSelectEnabled

LEMMA SparesNext == IInv /\ ClearingUserInputs /\ [Next]_vars => [SparesOthers]_vars
<1> SUFFICES ASSUME IInv, ClearingUserInputs, Next, clearing # {}
             PROVE  SparesOthers
  BY DEF SparesOthers
<1>1. CASE ClearAllStep
  BY <1>1, ClearAllStepVisits DEF SparesOthers, ClearingUserInputs, IsUserInput
<1>2. CASE Elapse
  BY <1>2 DEF Elapse, SparesOthers, Registered
<1>3. QED
  BY <1>1, <1>2
     DEF Next, UpdateTimerTick, RegisterInput, SetInput, ClearInput, ClearAll,
         SetPriority, SetSourceAutoSelectEnabled

(* clearAll never removes a capture, a network source or an input at the   *)
(* reserved priorities, however many steps its loop takes and whatever     *)
(* expires meanwhile.                                                      *)
THEOREM ClearAllSpares == Spec => ClearAllSparesOthers
<1>1. Init => ClearingUserInputs
  BY DEF Init, ClearingUserInputs
<1>2. QED
  BY <1>1, ClearingNext, SparesNext, Invariance, PTL DEF Spec, ClearAllSparesOthers

-----------------------------------------------------------------------------
(***************************************************************************)
(* Selections that are due                                                 *)
(***************************************************************************)

LoopRuns == clearing # {}

(* The guards of the two actions whose fairness makes a selection: the     *)
(* timer fires whenever no loop keeps it waiting, and a loop can go on.    *)
(* The provers know nothing of ENABLED, so this is a hypothesis of the     *)
(* theorem below; it says nothing of what the actions do.                  *)
GuardsAreMet ==
    /\ SelectionIsDue /\ ~LoopRuns => ENABLED <<UpdateTimerTick>>_vars
    /\ LoopRuns => ENABLED <<ClearAllStep>>_vars

(* As long as a selection is due, the loop has not cleared anything, and   *)
(* the input it comes to is still there.                                   *)
LoopIsFresh == SelectionIsDue /\ clearing # {} => clearing \subseteq Registered

(* Every selection settles what was due.                                   *)
LEMMA SelectionSettles ==
    ASSUME NEW table, NEW auto \in BOOLEAN, NEW pinned, SetCurrentTime(table, auto, pinned)
    PROVE  ~SelectionIsDue'
<1> DEFINE alive == UnexpiredInputs(table)
           pinHolds == ~auto /\ pinned \in DOMAIN alive
           chosen == IF pinHolds THEN pinned ELSE MostImportant(Active(alive))
<1>1. /\ activeInputs' = alive
      /\ manualSelectedPriority' = pinned
      /\ sourceAutoSelectEnabled' = ~pinHolds
      /\ currentPriority' = chosen
      /\ prevVisComp' = alive[chosen].componentId
  BY DEF SetCurrentTime
<1> HIDE DEF alive
<1>2. VisibleComponent' = prevVisComp'
  BY <1>1 DEF VisibleComponent
<1>3. ~PinWaits'
  BY <1>1 DEF PinWaits
<1>4. QED
  BY <1>2, <1>3 DEF SelectionIsDue

(* The loop goes on with a selection while one is due.                     *)
LEMMA LoopSettles ==
    ASSUME IInv, LoopIsFresh, SelectionIsDue, ClearAllStep
    PROVE  ~SelectionIsDue'
<1> DEFINE key == MostImportant(clearing)
<1>1. key \in clearing
  BY MostImportantIsLeast, PrioritiesAssumption DEF ClearAllStep, IInv
<1>2. key \in Registered
  BY <1>1 DEF LoopIsFresh
<1>3. SetCurrentTime(WithoutInput(activeInputs, key), sourceAutoSelectEnabled,
                     manualSelectedPriority)
  BY <1>2 DEF ClearAllStep, ClearOf
<1>4. sourceAutoSelectEnabled \in BOOLEAN
  BY DEF IInv, TypeOK
<1> HIDE DEF key
<1>5. QED
  BY <1>3, <1>4, SelectionSettles

(* While the loop runs, nothing but it and time goes on.                   *)
LEMMA LoopRunsAlone ==
    ASSUME IInv, clearing # {}, [Next]_vars
    PROVE  \/ ClearAllStep
           \/ /\ clearing' = clearing /\ Registered' = Registered
              /\ SelectionIsDue' = SelectionIsDue
<1>1. CASE Elapse
  <2>1. /\ Registered' = Registered
        /\ UNCHANGED <<currentPriority, manualSelectedPriority, sourceAutoSelectEnabled,
                       prevVisComp, clearing>>
    BY <1>1 DEF Elapse, Registered
  <2>2. VisibleComponent' = VisibleComponent
    BY <1>1 DEF Elapse, VisibleComponent, WithTimeout, IInv, SelectionOK,
                VisibleIsRegistered, Registered
  <2>3. QED
    BY <2>1, <2>2 DEF SelectionIsDue, PinWaits
<1>2. CASE UNCHANGED vars
  BY <1>2 DEF vars, Registered, SelectionIsDue, PinWaits, VisibleComponent
<1>3. QED
  BY <1>1, <1>2
     DEF Next, UpdateTimerTick, RegisterInput, SetInput, ClearInput, ClearAll,
         SetPriority, SetSourceAutoSelectEnabled

LEMMA FreshNext == IInv /\ LoopIsFresh /\ [Next]_vars => LoopIsFresh'
<1> SUFFICES ASSUME IInv, LoopIsFresh, [Next]_vars, SelectionIsDue', clearing' # {}
             PROVE  clearing' \subseteq Registered'
  BY DEF LoopIsFresh, Registered
<1>1. CASE clearing # {}
  <2>1. CASE ClearAllStep
    <3>1. ~SelectionIsDue
      BY <2>1, LoopSettles
    <3> DEFINE key == MostImportant(clearing)
    <3>2. sourceAutoSelectEnabled \in BOOLEAN
      BY DEF IInv, TypeOK
    <3>3. CASE key \in Registered
      <4>1. SetCurrentTime(WithoutInput(activeInputs, key), sourceAutoSelectEnabled,
                           manualSelectedPriority)
        BY <2>1, <3>3 DEF ClearAllStep, ClearOf
      <4> HIDE DEF key
      <4>2. QED
        BY <3>2, <4>1, SelectionSettles
    <3>4. CASE key \notin Registered
      <4>1. SelectionIsDue' = SelectionIsDue
        BY <2>1, <3>4 DEF ClearAllStep, SelectionIsDue, PinWaits, VisibleComponent
      <4>2. QED
        BY <3>1, <4>1
    <3>5. QED
      BY <3>3, <3>4
  <2>2. CASE clearing' = clearing /\ Registered' = Registered
             /\ SelectionIsDue' = SelectionIsDue
    BY <1>1, <2>2 DEF LoopIsFresh
  <2>3. QED
    BY <1>1, <2>1, <2>2, LoopRunsAlone
<1>2. CASE clearing = {}
  <2>1. ClearAll
    BY <1>2 DEF Next, vars, UpdateTimerTick, Elapse, RegisterInput, SetInput, ClearInput,
                ClearAllStep, SetPriority, SetSourceAutoSelectEnabled
  <2>2. QED
    BY <2>1 DEF ClearAll, Registered
<1>3. QED
  BY <1>1, <1>2

(* A selection that is due is made: at the latest by the next tick of the  *)
(* timer, or by the first step of a loop that keeps the timer waiting.     *)
THEOREM SelectionsSettle == FairSpec /\ []GuardsAreMet => SelectionsAreMade
<1>1. Init => LoopIsFresh
  BY DEF Init, LoopIsFresh
<1>2. IInv /\ <<UpdateTimerTick>>_vars => ~SelectionIsDue'
  BY SelectionSettles DEF UpdateTimerTick, IInv, TypeOK
<1>3. SelectionIsDue /\ IInv /\ LoopIsFresh /\ <<ClearAllStep>>_vars => ~SelectionIsDue'
  BY LoopSettles
<1>4. SelectionIsDue /\ LoopRuns /\ IInv /\ LoopIsFresh /\ [Next]_vars
        => ~SelectionIsDue' \/ LoopRuns'
  BY LoopRunsAlone, LoopSettles DEF LoopRuns
<1>5. Spec => [](IInv /\ LoopIsFresh)
  BY <1>1, FreshNext, Invariance, PTL DEF Spec
<1>6. QED
  BY <1>2, <1>3, <1>4, <1>5, PTL
     DEF FairSpec, Fairness, Spec, GuardsAreMet, SelectionsAreMade
=============================================================================
