----------------------- MODULE MuxerRefinementProofs -----------------------
(***************************************************************************)
(* The muxer implements VisibleSource: what those who switch the LEDs      *)
(* learn from its announcements is true, for any set of priorities.        *)
(***************************************************************************)
EXTENDS MuxerProofs

(* What listeners were told last agrees with what is visible: before the   *)
(* first announcement nothing is, and the built-in input is announced as   *)
(* the colour it always is, so that it is not announced twice.             *)
AnnouncedOK ==
    /\ prevVisComp = COMP_INVALID => currentPriority = LOWEST_PRIORITY
    /\ currentPriority = LOWEST_PRIORITY => prevVisComp \in {COMP_INVALID, COMP_COLOR}

selection == <<currentPriority, previousPriority, prevVisComp>>

(* A selection either leaves what listeners know alone, or announces a     *)
(* visible input together with the one before it.                          *)
Announces ==
    /\ previousPriority' = currentPriority
    /\ prevVisComp' \in Components
    /\ currentPriority' # currentPriority \/ prevVisComp' # prevVisComp
    /\ currentPriority' = LOWEST_PRIORITY => prevVisComp' = COMP_COLOR

LEMMA SetCurrentTimeAnnounces ==
    ASSUME NEW table, TableOK(table), NEW auto \in BOOLEAN, NEW pinned,
           SetCurrentTime(table, auto, pinned)
    PROVE  Announces \/ UNCHANGED selection
<1> DEFINE alive == UnexpiredInputs(table)
           pinHolds == ~auto /\ pinned \in DOMAIN alive
           chosen == IF pinHolds THEN pinned ELSE MostImportant(Active(alive))
<1>1. TableOK(alive)
  BY UnexpiredInputsOK
<1>2. chosen \in DOMAIN alive
  BY <1>1, SomethingIsActive
<1>3. /\ alive[chosen].componentId \in Components
      /\ chosen = LOWEST_PRIORITY => alive[chosen].componentId = COMP_COLOR
  BY <1>1, <1>2 DEF TableOK, InputInfo
<1> HIDE DEF alive
<1>4. IF currentPriority # chosen \/ alive[chosen].componentId # prevVisComp
      THEN /\ previousPriority' = currentPriority
           /\ currentPriority' = chosen
           /\ prevVisComp' = alive[chosen].componentId
      ELSE UNCHANGED <<previousPriority, currentPriority, prevVisComp>>
  BY DEF SetCurrentTime, alive
<1> HIDE DEF chosen
<1>5. QED
  BY <1>3, <1>4 DEF Announces, selection

(* Every step of the muxer announces, or changes nothing a listener knows. *)
LEMMA StepAnnounces ==
    ASSUME IInv, [Next]_vars
    PROVE  Announces \/ UNCHANGED selection
<1>1. TableOK(activeInputs) /\ sourceAutoSelectEnabled \in BOOLEAN
  BY DEF IInv, TypeOK
<1>2. CASE UpdateTimerTick
  BY <1>1, <1>2, SetCurrentTimeAnnounces DEF UpdateTimerTick
<1>3. ASSUME NEW p \in InputPriorities, NEW t \in Timeouts \ {0}, SetInput(p, t)
      PROVE  Announces \/ UNCHANGED selection
  <2> DEFINE table == WithInput(activeInputs, p, WithTimeout(activeInputs[p], t))
  <2>1. p \in Registered /\ p # LOWEST_PRIORITY
    BY <1>3, PrioritiesAreNaturals DEF SetInput
  <2>2. /\ DOMAIN table = Registered
        /\ table[p] = WithTimeout(activeInputs[p], t)
        /\ \A q \in Registered \ {p} : table[q] = activeInputs[q]
    BY <2>1 DEF Registered, WithInput
  <2>3. TableOK(table)
    BY <1>1, <2>1, <2>2 DEF TableOK, InputInfo, Registered, WithInput, WithTimeout
  <2>4. \/ SetCurrentTime(table, sourceAutoSelectEnabled, manualSelectedPriority)
        \/ UNCHANGED selection
    BY <1>3 DEF SetInput, selection
  <2> HIDE DEF table
  <2>5. QED
    BY <1>1, <2>3, <2>4, SetCurrentTimeAnnounces
<1>4. ASSUME NEW p \in InputPriorities, ClearOf(p)
      PROVE  Announces \/ UNCHANGED selection
  <2>1. TableOK(WithoutInput(activeInputs, p))
    BY <1>1, PrioritiesAreNaturals DEF TableOK, WithoutInput
  <2>2. SetCurrentTime(WithoutInput(activeInputs, p), sourceAutoSelectEnabled,
                       manualSelectedPriority)
    BY <1>4 DEF ClearOf
  <2>3. QED
    BY <1>1, <2>1, <2>2, SetCurrentTimeAnnounces
<1>5. CASE ClearAllStep
  <2>1. clearing \in SUBSET Nat /\ clearing # {} /\ clearing \subseteq InputPriorities
    BY <1>5, PrioritiesAssumption DEF ClearAllStep, IInv
  <2>2. MostImportant(clearing) \in InputPriorities
    BY <2>1, MostImportantIsLeast
  <2>3. QED
    BY <1>4, <1>5, <2>2 DEF ClearAllStep, selection
<1>6. ASSUME NEW p \in AllPriorities, SetPriority(p)
      PROVE  Announces \/ UNCHANGED selection
  BY <1>1, <1>6, SetCurrentTimeAnnounces DEF SetPriority, selection
<1>7. ASSUME NEW enable \in BOOLEAN, SetSourceAutoSelectEnabled(enable)
      PROVE  Announces \/ UNCHANGED selection
  BY <1>1, <1>7, SetCurrentTimeAnnounces DEF SetSourceAutoSelectEnabled
<1>8. CASE UNCHANGED vars
  BY <1>8 DEF vars, selection
<1>9. CASE Elapse
  BY <1>9 DEF Elapse, selection
<1>10. CASE ClearAll
  BY <1>10 DEF ClearAll, selection
<1>11. ASSUME NEW p \in InputPriorities, NEW c \in Components, RegisterInput(p, c)
       PROVE  UNCHANGED selection
  BY <1>11 DEF RegisterInput, selection
<1>12. QED
  BY <1>2, <1>3, <1>4, <1>5, <1>6, <1>7, <1>8, <1>9, <1>10, <1>11
     DEF Next, ClearInput

LEMMA AnnouncedNext == IInv /\ AnnouncedOK /\ [Next]_vars => AnnouncedOK'
<1> SUFFICES ASSUME IInv, AnnouncedOK, [Next]_vars
             PROVE  AnnouncedOK'
  OBVIOUS
<1>1. CASE Announces
  BY <1>1, ComponentsAssumption DEF Announces, AnnouncedOK
<1>2. CASE UNCHANGED selection
  BY <1>2 DEF selection, AnnouncedOK
<1>3. QED
  BY <1>1, <1>2, StepAnnounces

(* An announcement is a step of VisibleSource: which one is read off the   *)
(* visible priority before and after.                                      *)
LEMMA AnnouncementRefines ==
    ASSUME AnnouncedOK, Announces
    PROVE  Source!Next
<1>1. prevVisComp' # COMP_INVALID
  BY ComponentsAssumption DEF Announces
<1>2. CASE currentPriority' = LOWEST_PRIORITY
  <2>1. Announcement' = "off"
    BY <1>1, <1>2 DEF Announcement
  <2>2. currentPriority # LOWEST_PRIORITY \/ Announcement = "none"
    BY <1>2 DEF AnnouncedOK, Announces, Announcement
  <2>3. QED
    BY <1>2, <2>1, <2>2 DEF Source!Next, Source!Goes
<1>3. CASE currentPriority' # LOWEST_PRIORITY /\ currentPriority = LOWEST_PRIORITY
  <2>1. Announcement' = "on"
    BY <1>1, <1>3 DEF Announcement, Announces
  <2>2. QED
    BY <1>3, <2>1 DEF Source!Next, Source!Appears
<1>4. CASE currentPriority' # LOWEST_PRIORITY /\ currentPriority # LOWEST_PRIORITY
  <2>1. Announcement' = "keep"
    BY <1>1, <1>4 DEF Announcement, Announces
  <2>2. QED
    BY <1>4, <2>1 DEF Source!Next, Source!TakenOver
<1>5. QED
  BY <1>2, <1>3, <1>4

LEMMA StepRefines == IInv /\ AnnouncedOK /\ [Next]_vars => [Source!Next]_(Source!sourceVars)
<1> SUFFICES ASSUME IInv, AnnouncedOK, [Next]_vars
             PROVE  Source!Next \/ UNCHANGED Source!sourceVars
  OBVIOUS
<1>1. CASE Announces
  BY <1>1, AnnouncementRefines
<1>2. CASE UNCHANGED selection
  BY <1>2 DEF selection, Announcement, Source!sourceVars
<1>3. QED
  BY <1>1, <1>2, StepAnnounces

(* "New source" and "no source left" are announced exactly when they are   *)
(* true: the muxer implements VisibleSource.                               *)
THEOREM MuxerImplementsVisibleSource == Spec => ImplementsVisibleSource
<1>1. Init => AnnouncedOK /\ Source!Init
  BY ComponentsAssumption DEF Init, AnnouncedOK, Source!Init, Announcement
<1>2. QED
  BY <1>1, AnnouncedNext, StepRefines, Invariance, PTL
     DEF Spec, ImplementsVisibleSource, Source!Spec

=============================================================================
