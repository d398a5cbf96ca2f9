---------------------------- MODULE BorderProofs ----------------------------
(***************************************************************************)
(* Proofs about the map from images to LEDs and the detection of black     *)
(* borders, for all borders, sizes and frame counts.                       *)
(***************************************************************************)
EXTENDS BorderHistory, TLAPS

-----------------------------------------------------------------------------
(***************************************************************************)
(* The inductive invariant                                                 *)
(***************************************************************************)

(* The count of consistent frames is not more than an observer has seen of *)
(* that border by itself.                                                  *)
SeenOK ==
    \/ previousDetectedBorder = Unknown /\ currentBorder = Unknown
    \/ seen[previousDetectedBorder] > consistentCnt
    \/ seen[previousDetectedBorder] = MaxFrames

GapOK == gap[previousDetectedBorder] <= inconsistentCnt

(* As long as nobody changes the settings, the count has not gone past the *)
(* value at which the border changes.                                      *)
Fixed == \A s, t \in Settings : s = t

NotOvershot ==
    \/ currentBorder \in {previousDetectedBorder, Unknown}
    \/ consistentCnt < SwitchCnt(previousDetectedBorder)

(* Where a border that was shown in `run` frames stands: it was taken      *)
(* over, or is on its way, or was ignored each time.                       *)
RunOK ==
    run > 0 =>
        \/ currentBorder = last
        \/ /\ previousDetectedBorder = last
           /\ run <= settings.maxInconsistentCnt + 1 + consistentCnt
           /\ consistentCnt < SwitchCnt(last)
        \/ /\ previousDetectedBorder # last
           /\ run <= inconsistentCnt
           /\ inconsistentCnt <= settings.maxInconsistentCnt

IInv ==
    /\ TypeOK
    /\ HistoryTypeOK
    /\ EnabledIsWanted
    /\ MapIsNeverStale
    /\ SeenOK
    /\ GapOK
    /\ Fixed => NotOvershot /\ RunOK

-----------------------------------------------------------------------------
(* What the settings are.                                                  *)
LEMMA SettingsOK ==
    ASSUME NEW s \in Settings
    PROVE  /\ s.unknownSwitchCnt \in Nat
           /\ s.borderSwitchCnt \in Nat
           /\ s.maxInconsistentCnt \in Nat
           /\ s.maxInconsistentCnt + 1 + s.unknownSwitchCnt <= MaxFrames
           /\ s.maxInconsistentCnt + 1 + s.borderSwitchCnt <= MaxFrames
  BY SettingsAssumption

LEMMA SwitchCntOK ==
    ASSUME settings \in Settings, NEW border
    PROVE  SwitchCnt(border) \in Nat /\ SwitchCnt(border) < MaxFrames
<1>1. /\ settings.unknownSwitchCnt \in Nat /\ settings.unknownSwitchCnt < MaxFrames
      /\ settings.borderSwitchCnt \in Nat /\ settings.borderSwitchCnt < MaxFrames
  BY SettingsOK, FramesAssumption
<1>2. QED
  BY <1>1 DEF SwitchCnt

LEMMA IncrementedOK ==
    ASSUME NEW count \in Counts
    PROVE  /\ Incremented(count) \in Counts
           /\ Incremented(count) <= count + 1
           /\ Incremented(count) > 0 \/ MaxFrames = 0
           /\ Incremented(count) = count + 1 \/ Incremented(count) = MaxFrames
  BY FramesAssumption DEF Counts, Incremented

(* What an observed frame does to the history.                             *)
LEMMA ObserveOK ==
    ASSUME HistoryTypeOK, settings \in Settings, NEW size, NEW border \in Borders,
           Observe(size, border)
    PROVE  /\ HistoryTypeOK'
           /\ last' = border
           /\ run' = 1 \/ (border = last /\ run' <= run + 1)
           /\ seen'[border] = Incremented(seen[border]) /\ gap'[border] = 0
           /\ \A b \in Borders \ {border} :
                gap[b] < settings.maxInconsistentCnt =>
                    seen'[b] = seen[b] /\ gap'[b] <= gap[b] + 1
<1>1. /\ settings.maxInconsistentCnt \in Nat
      /\ MaxFrames \in Nat /\ MaxFrames >= 1
  BY SettingsOK, FramesAssumption
<1>2. \A b \in Borders : seen[b] \in Counts /\ gap[b] \in Counts
  BY DEF HistoryTypeOK
<1>3. \A b \in Borders : /\ Incremented(seen[b]) \in Counts
                         /\ Incremented(gap[b]) \in Counts
                         /\ Incremented(gap[b]) <= gap[b] + 1
  BY <1>2, IncrementedOK
<1>4. 0 \in Counts /\ 1 \in Counts
  BY <1>1 DEF Counts
<1>5. seen' \in [Borders -> Counts] /\ gap' \in [Borders -> Counts]
  BY <1>2, <1>3, <1>4 DEF Observe
<1>6. run' \in Counts /\ (run' = 1 \/ (border = last /\ run' <= run + 1))
  BY <1>4, IncrementedOK DEF Observe, HistoryTypeOK
<1>7. seen'[border] = Incremented(seen[border]) /\ gap'[border] = 0
  BY DEF Observe
<1>8. \A b \in Borders \ {border} :
        gap[b] < settings.maxInconsistentCnt =>
            seen'[b] = seen[b] /\ gap'[b] <= gap[b] + 1
  BY <1>3 DEF Observe
<1>9. QED
  BY <1>5, <1>6, <1>7, <1>8 DEF Observe, HistoryTypeOK

(* A frame keeps the map in step with the border.                          *)
LEMMA FrameKeepsMap ==
    ASSUME TypeOK, MapIsNeverStale, currentBorder' \in Borders,
           NEW size, NEW border, enabled, ProcessFrame(size, border)
    PROVE  mapBorder' \in KnownBorders /\ MapIsNeverStale'
<1> DEFINE old == IF size = mapSize THEN mapBorder ELSE NoBars
<1>1. old \in KnownBorders /\ (old # NoBars => old = currentBorder)
  BY BordersAssumption DEF TypeOK, MapIsNeverStale
<1>2. mapBorder' = IF currentBorder' # currentBorder THEN Cut(currentBorder') ELSE old
  BY DEF ProcessFrame, EnabledFrame
<1>3. Cut(currentBorder') \in KnownBorders
  BY BordersAssumption DEF Cut, Borders
<1>4. Cut(currentBorder') # NoBars => Cut(currentBorder') = currentBorder'
  BY DEF Cut
<1> HIDE DEF old
<1>5. QED
  BY <1>1, <1>2, <1>3, <1>4 DEF MapIsNeverStale

-----------------------------------------------------------------------------
(***************************************************************************)
(* The steps                                                               *)
(***************************************************************************)

(* A frame that is ignored.                                                *)
LEMMA IgnoreOK ==
    ASSUME IInv, NEW size \in Sizes, NEW border \in Borders,
           Frame(size, border), enabled, IsIgnored(border)
    PROVE  IInv'
<1>1. /\ ProcessFrame(size, border) /\ Observe(size, border) /\ Ignore
      /\ mapSize' = size
      /\ UNCHANGED <<settings, userEnabled, hardDisabled, enabled, ledString, layout>>
  BY DEF Frame, ProcessFrame, EnabledFrame, UpdateBorder, switchVars
<1>2. /\ border # previousDetectedBorder
      /\ inconsistentCnt < settings.maxInconsistentCnt
      /\ inconsistentCnt' = inconsistentCnt + 1
      /\ UNCHANGED <<currentBorder, previousDetectedBorder, consistentCnt>>
  BY <1>1 DEF IsIgnored, Ignore
<1>3. /\ settings.maxInconsistentCnt \in Nat
      /\ settings.maxInconsistentCnt < MaxFrames
      /\ consistentCnt \in Nat /\ inconsistentCnt \in Nat /\ MaxFrames \in Nat
  BY SettingsOK, FramesAssumption DEF IInv, TypeOK, ProcessorTypeOK, Counts
<1>4. currentBorder' \in Borders
  BY <1>2 DEF IInv, TypeOK, ProcessorTypeOK
<1>5. mapBorder' \in KnownBorders /\ MapIsNeverStale'
  BY <1>1, <1>4, FrameKeepsMap DEF IInv
<1>6. inconsistentCnt' \in Counts
  BY <1>2, <1>3 DEF Counts
<1>7. TypeOK'
  BY <1>1, <1>2, <1>5, <1>6 DEF IInv, TypeOK, ProcessorTypeOK
<1>8. /\ HistoryTypeOK'
      /\ last' = border
      /\ run' = 1 \/ (border = last /\ run' <= run + 1)
      /\ \A b \in Borders \ {border} :
           gap[b] < settings.maxInconsistentCnt =>
               seen'[b] = seen[b] /\ gap'[b] <= gap[b] + 1
  BY <1>1, ObserveOK DEF IInv, TypeOK, ProcessorTypeOK
<1>9. previousDetectedBorder \in Borders \ {border}
  BY <1>2 DEF IInv, TypeOK, ProcessorTypeOK
<1>10. gap[previousDetectedBorder] \in Nat /\ gap'[previousDetectedBorder] \in Nat
  BY <1>8, <1>9 DEF IInv, HistoryTypeOK, Counts
<1>11. /\ seen'[previousDetectedBorder] = seen[previousDetectedBorder]
       /\ gap'[previousDetectedBorder] <= inconsistentCnt + 1
  BY <1>2, <1>3, <1>8, <1>9, <1>10 DEF IInv, GapOK
<1>12. SeenOK' /\ GapOK'
  BY <1>2, <1>11 DEF IInv, SeenOK, GapOK
<1>13. ASSUME Fixed
       PROVE  NotOvershot' /\ RunOK'
  <2>1. NotOvershot'
    BY <1>1, <1>2, <1>13 DEF IInv, NotOvershot, SwitchCnt
  <2>2. run \in Nat /\ run' \in Nat
    BY <1>8 DEF IInv, HistoryTypeOK, Counts
  <2>3. run' <= inconsistentCnt' \/ currentBorder' = border
    <3>1. CASE run' = 1
      BY <1>2, <1>3, <3>1
    <3>2. CASE border = last /\ run = 0 /\ run' <= run + 1
      BY <1>2, <1>3, <2>2, <3>2
    <3>3. CASE border = last /\ run > 0 /\ run' <= run + 1
      <4>1. currentBorder = last \/ run <= inconsistentCnt
        BY <1>2, <1>13, <3>3 DEF IInv, RunOK
      <4>2. QED
        BY <1>2, <1>3, <2>2, <3>3, <4>1
    <3>4. QED
      BY <1>8, <2>2, <3>1, <3>2, <3>3
  <2>4. inconsistentCnt' <= settings'.maxInconsistentCnt
    BY <1>1, <1>2, <1>3
  <2>5. QED
    BY <1>2, <1>8, <2>1, <2>3, <2>4 DEF RunOK
<1>14. EnabledIsWanted'
  BY <1>1 DEF IInv, EnabledIsWanted
<1>15. QED
  BY <1>5, <1>7, <1>8, <1>12, <1>13, <1>14 DEF IInv, Fixed

(* A frame that counts.                                                    *)
LEMMA ConsiderOK ==
    ASSUME IInv, NEW size \in Sizes, NEW border \in Borders,
           Frame(size, border), enabled, ~IsIgnored(border)
    PROVE  IInv' /\ (currentBorder = Unknown \/ currentBorder' = currentBorder
                        \/ seen'[currentBorder'] > SwitchCnt(currentBorder'))
<1>1. /\ ProcessFrame(size, border) /\ Observe(size, border) /\ Consider(border)
      /\ mapSize' = size
      /\ UNCHANGED <<settings, userEnabled, hardDisabled, enabled, ledString, layout>>
  BY DEF Frame, ProcessFrame, EnabledFrame, UpdateBorder, switchVars
<1>2. /\ consistentCnt \in Nat /\ inconsistentCnt \in Nat /\ MaxFrames \in Nat
      /\ consistentCnt < MaxFrames /\ inconsistentCnt < MaxFrames
      /\ settings.maxInconsistentCnt \in Nat /\ run \in Nat
      /\ SwitchCnt(border) \in Nat /\ SwitchCnt(border) < MaxFrames
  BY <1>1, SettingsOK, SwitchCntOK, FramesAssumption
     DEF IInv, TypeOK, ProcessorTypeOK, HistoryTypeOK, Counts, Consider
<1>3. /\ previousDetectedBorder' = border
      /\ consistentCnt' = IF border = previousDetectedBorder THEN consistentCnt + 1 ELSE 0
      /\ inconsistentCnt' = 0 \/ inconsistentCnt' = inconsistentCnt + 1
      /\ \/ currentBorder' = border /\ (currentBorder = Unknown \/ consistentCnt' = SwitchCnt(border))
         \/ /\ currentBorder' = currentBorder
            /\ currentBorder # Unknown
            /\ consistentCnt' # SwitchCnt(border)
  BY <1>1 DEF Consider
<1>4. currentBorder' \in Borders
  BY <1>3 DEF IInv, TypeOK, ProcessorTypeOK
<1>5. mapBorder' \in KnownBorders /\ MapIsNeverStale'
  BY <1>1, <1>4, FrameKeepsMap DEF IInv
<1>6. consistentCnt' \in Counts /\ inconsistentCnt' \in Counts
  BY <1>2, <1>3 DEF Counts
<1>7. TypeOK'
  BY <1>1, <1>3, <1>4, <1>5, <1>6 DEF IInv, TypeOK, ProcessorTypeOK
<1>8. /\ HistoryTypeOK'
      /\ last' = border
      /\ run' = 1 \/ (border = last /\ run' <= run + 1)
      /\ seen'[border] = Incremented(seen[border]) /\ gap'[border] = 0
  BY <1>1, ObserveOK DEF IInv, TypeOK, ProcessorTypeOK
<1>9. /\ seen[border] \in Counts
      /\ Incremented(seen[border]) = seen[border] + 1 \/ Incremented(seen[border]) = MaxFrames
  BY IncrementedOK DEF IInv, HistoryTypeOK
<1>10. GapOK'
  BY <1>3, <1>6, <1>8 DEF GapOK, Counts
<1>11. SeenOK'
  <2>1. CASE border # previousDetectedBorder
    <3>1. consistentCnt' = 0
      BY <1>3, <2>1
    <3>2. seen'[border] > 0 \/ seen'[border] = MaxFrames
      BY <1>2, <1>8, <1>9 DEF Counts
    <3>3. QED
      BY <1>3, <3>1, <3>2 DEF SeenOK
  <2>2. CASE /\ border = previousDetectedBorder
             /\ ~(border = Unknown /\ currentBorder = Unknown)
    <3>1. seen[border] > consistentCnt \/ seen[border] = MaxFrames
      BY <2>2 DEF IInv, SeenOK
    <3>2. consistentCnt' = consistentCnt + 1
      BY <1>3, <2>2
    <3>3. seen[border] = MaxFrames => Incremented(seen[border]) = MaxFrames
      BY <1>2 DEF Incremented
    <3>4. seen'[border] > consistentCnt' \/ seen'[border] = MaxFrames
      BY <1>2, <1>8, <1>9, <3>1, <3>2, <3>3 DEF Counts
    <3>5. QED
      BY <1>3, <3>4 DEF SeenOK
  <2>3. CASE border = previousDetectedBorder /\ border = Unknown /\ currentBorder = Unknown
    BY <1>3, <2>3 DEF SeenOK
  <2>4. QED
    BY <2>1, <2>2, <2>3
<1>12. \/ currentBorder = Unknown
       \/ currentBorder' = currentBorder
       \/ seen'[currentBorder'] > SwitchCnt(currentBorder')
  <2>1. SUFFICES ASSUME currentBorder # Unknown, currentBorder' # currentBorder
                 PROVE  seen'[currentBorder'] > SwitchCnt(currentBorder')
    OBVIOUS
  <2>2. /\ currentBorder' = border /\ previousDetectedBorder' = border
        /\ consistentCnt' = SwitchCnt(border)
    BY <1>3, <2>1
  <2>3. seen'[border] > consistentCnt' \/ seen'[border] = MaxFrames
    <3>1. CASE border # previousDetectedBorder
      BY <1>2, <1>3, <1>8, <1>9, <3>1 DEF Counts
    <3>2. CASE border = previousDetectedBorder
      <4>1. seen[border] > consistentCnt \/ seen[border] = MaxFrames
        BY <2>1, <3>2 DEF IInv, SeenOK
      <4>2. seen[border] = MaxFrames => Incremented(seen[border]) = MaxFrames
        BY <1>2 DEF Incremented
      <4>3. QED
        BY <1>2, <1>3, <1>8, <1>9, <3>2, <4>1, <4>2 DEF Counts
    <3>3. QED
      BY <3>1, <3>2
  <2>4. QED
    BY <1>2, <2>2, <2>3
<1>13. ASSUME Fixed
       PROVE  NotOvershot' /\ RunOK'
  <2>1. CASE currentBorder' = border
    BY <1>3, <1>8, <2>1 DEF NotOvershot, RunOK
  <2>2. CASE currentBorder' # border
    <3>1. /\ currentBorder' = currentBorder
          /\ currentBorder # Unknown /\ currentBorder # border
          /\ consistentCnt' # SwitchCnt(border)
      BY <1>3, <2>2
    <3>2. consistentCnt' < SwitchCnt(border)
      <4>1. CASE border = previousDetectedBorder
        <5>1. consistentCnt < SwitchCnt(border)
          BY <1>13, <3>1, <4>1 DEF IInv, NotOvershot
        <5>2. QED
          BY <1>2, <1>3, <3>1, <4>1, <5>1
      <4>2. CASE border # previousDetectedBorder
        BY <1>2, <1>3, <3>1, <4>2
      <4>3. QED
        BY <4>1, <4>2
    <3>3. run' \in Nat
      BY <1>8 DEF HistoryTypeOK, Counts
    <3>4. run' <= settings.maxInconsistentCnt + 1 + consistentCnt'
      <4>1. CASE run' = 1
        BY <1>2, <1>3, <4>1
      <4>2. CASE border = last /\ run = 0 /\ run' <= run + 1
        BY <1>2, <1>3, <3>3, <4>2
      <4>3. CASE border = last /\ run > 0 /\ run' <= run + 1
        <5>1. CASE border = previousDetectedBorder
          <6>1. run <= settings.maxInconsistentCnt + 1 + consistentCnt
            BY <1>13, <3>1, <4>3, <5>1 DEF IInv, RunOK
          <6>2. QED
            BY <1>2, <1>3, <3>3, <4>3, <5>1, <6>1
        <5>2. CASE border # previousDetectedBorder
          <6>1. run <= inconsistentCnt /\ inconsistentCnt <= settings.maxInconsistentCnt
            BY <1>13, <3>1, <4>3, <5>2 DEF IInv, RunOK
          <6>2. QED
            BY <1>2, <1>3, <3>3, <4>3, <5>2, <6>1
        <5>3. QED
          BY <5>1, <5>2
      <4>4. QED
        BY <1>2, <1>8, <4>1, <4>2, <4>3
    <3>5. QED
      BY <1>1, <1>3, <1>8, <3>2, <3>4 DEF NotOvershot, RunOK, SwitchCnt
  <2>3. QED
    BY <2>1, <2>2
<1>14. EnabledIsWanted'
  BY <1>1 DEF IInv, EnabledIsWanted
<1>15. QED
  BY <1>5, <1>7, <1>8, <1>10, <1>11, <1>12, <1>13, <1>14 DEF IInv, Fixed

(* A frame while the detection is disabled.                                *)
LEMMA DisabledFrameOK ==
    ASSUME IInv, NEW size \in Sizes, NEW border \in Borders,
           Frame(size, border), ~enabled
    PROVE  IInv'
<1>1. /\ currentBorder' \in {currentBorder, Unknown}
      /\ mapBorder' = NoBars /\ mapSize' = size /\ run' = 0
      /\ UNCHANGED <<previousDetectedBorder, consistentCnt, inconsistentCnt, settings,
                     userEnabled, hardDisabled, enabled, ledString, layout, seen, gap, last>>
  BY DEF Frame, ProcessFrame, DisabledFrame, ProcessDisabled, switchVars, detectionVars
<1>2. TypeOK' /\ HistoryTypeOK'
  BY <1>1, BordersAssumption, FramesAssumption
     DEF IInv, TypeOK, ProcessorTypeOK, HistoryTypeOK, Borders, Counts
<1>3. EnabledIsWanted' /\ MapIsNeverStale' /\ SeenOK' /\ GapOK'
  BY <1>1 DEF IInv, EnabledIsWanted, MapIsNeverStale, SeenOK, GapOK
<1>4. Fixed => NotOvershot' /\ RunOK'
  BY <1>1 DEF IInv, NotOvershot, RunOK, SwitchCnt
<1>5. QED
  BY <1>2, <1>3, <1>4 DEF IInv, Fixed

(* Everything that builds a new map or changes the settings.               *)
LEMMA DisturbanceOK ==
    ASSUME IInv, Disturbance
    PROVE  IInv'
<1>1. /\ run' = 0
      /\ mapBorder' \in {mapBorder, NoBars}
      /\ settings' \in Settings /\ userEnabled' \in BOOLEAN /\ enabled' \in BOOLEAN
      /\ ledString' \in Layouts /\ layout' \in Layouts
      /\ enabled' <=> userEnabled' /\ ~hardDisabled'
      /\ UNCHANGED <<hardDisabled, currentBorder, previousDetectedBorder, consistentCnt,
                     inconsistentCnt, mapSize, seen, gap, last>>
  <2>1. run' = 0 /\ UNCHANGED <<seen, gap, last>>
    BY DEF Disturbance
  <2>2. CASE ChangeAveraging
    BY <2>1, <2>2 DEF IInv, TypeOK, ProcessorTypeOK, EnabledIsWanted, ChangeAveraging,
                      switchVars, detectionVars
  <2>3. ASSUME NEW newLayout \in Layouts, SetLedString(newLayout)
        PROVE  <1>1!:
    BY <2>1, <2>3 DEF IInv, TypeOK, ProcessorTypeOK, EnabledIsWanted, SetLedString,
                      switchVars, detectionVars
  <2>4. ASSUME NEW s \in Settings, NEW enable \in BOOLEAN, HandleSettingsUpdate(s, enable),
               UNCHANGED mapVars
        PROVE  <1>1!:
    BY <2>1, <2>4 DEF IInv, TypeOK, ProcessorTypeOK, EnabledIsWanted, HandleSettingsUpdate,
                      Request, detectionVars, mapVars
  <2>5. QED
    BY <2>2, <2>3, <2>4 DEF Disturbance, ChangeSettings
<1>2. TypeOK' /\ HistoryTypeOK'
  BY <1>1, BordersAssumption, FramesAssumption
     DEF IInv, TypeOK, ProcessorTypeOK, HistoryTypeOK, Counts
<1>3. EnabledIsWanted' /\ MapIsNeverStale' /\ SeenOK' /\ GapOK'
  BY <1>1 DEF IInv, EnabledIsWanted, MapIsNeverStale, SeenOK, GapOK
<1>4. ASSUME Fixed
      PROVE  NotOvershot' /\ RunOK'
  <2>1. settings' = settings
    BY <1>1, <1>4 DEF Fixed, IInv, TypeOK, ProcessorTypeOK
  <2>2. QED
    BY <1>1, <1>4, <2>1 DEF IInv, NotOvershot, RunOK, SwitchCnt
<1>5. QED
  BY <1>2, <1>3, <1>4 DEF IInv, Fixed

(* The switches of the user and of the visible component.                  *)
LEMMA SwitchOK ==
    ASSUME IInv, Switch, UNCHANGED historyVars
    PROVE  IInv'
<1>1. /\ userEnabled' \in BOOLEAN /\ hardDisabled' \in BOOLEAN /\ enabled' \in BOOLEAN
      /\ enabled' <=> userEnabled' /\ ~hardDisabled'
      /\ UNCHANGED <<settings, currentBorder, previousDetectedBorder, consistentCnt,
                     inconsistentCnt, mapSize, mapBorder, ledString, layout, seen, gap, last,
                     run>>
  <2>1. UNCHANGED <<mapSize, mapBorder, ledString, layout, seen, gap, last, run>>
    BY DEF Switch, mapVars, historyVars
  <2>2. /\ userEnabled \in BOOLEAN /\ hardDisabled \in BOOLEAN /\ enabled \in BOOLEAN
        /\ enabled <=> userEnabled /\ ~hardDisabled
    BY DEF IInv, TypeOK, ProcessorTypeOK, EnabledIsWanted
  <2>3. PICK value \in BOOLEAN : HandleCompStateChangeRequest(value) \/ SetHardDisable(value)
    BY DEF Switch
  <2>4. CASE HandleCompStateChangeRequest(value)
    <3>1. /\ userEnabled' = value
          /\ enabled' = IF value /\ hardDisabled THEN enabled ELSE value
          /\ UNCHANGED <<settings, hardDisabled, currentBorder, previousDetectedBorder,
                         consistentCnt, inconsistentCnt>>
      BY <2>4 DEF HandleCompStateChangeRequest, Request, detectionVars
    <3>2. CASE value = TRUE
      BY <2>1, <2>2, <3>1, <3>2
    <3>3. CASE value = FALSE
      BY <2>1, <2>2, <3>1, <3>3
    <3>4. QED
      BY <3>2, <3>3
  <2>5. CASE SetHardDisable(value)
    <3>1. /\ hardDisabled' = value
          /\ enabled' = IF value THEN FALSE ELSE enabled \/ userEnabled
          /\ UNCHANGED <<settings, userEnabled, currentBorder, previousDetectedBorder,
                         consistentCnt, inconsistentCnt>>
      BY <2>5 DEF SetHardDisable, detectionVars
    <3>2. CASE value = TRUE
      BY <2>1, <2>2, <3>1, <3>2
    <3>3. CASE value = FALSE
      BY <2>1, <2>2, <3>1, <3>3
    <3>4. QED
      BY <3>2, <3>3
  <2>6. QED
    BY <2>3, <2>4, <2>5
<1>2. TypeOK' /\ HistoryTypeOK'
  BY <1>1 DEF IInv, TypeOK, ProcessorTypeOK, HistoryTypeOK
<1>3. EnabledIsWanted' /\ MapIsNeverStale' /\ SeenOK' /\ GapOK'
  BY <1>1 DEF IInv, EnabledIsWanted, MapIsNeverStale, SeenOK, GapOK
<1>4. Fixed => NotOvershot' /\ RunOK'
  BY <1>1 DEF IInv, NotOvershot, RunOK, SwitchCnt
<1>5. QED
  BY <1>2, <1>3, <1>4 DEF IInv, Fixed

-----------------------------------------------------------------------------
(***************************************************************************)
(* The theorems                                                            *)
(***************************************************************************)

(* A new instance satisfies the invariant.                                 *)
THEOREM Initially == HistoryInit => IInv
<1> SUFFICES ASSUME HistoryInit PROVE IInv
  OBVIOUS
<1>1. Unknown \in Borders /\ 0 \in Counts
  BY FramesAssumption DEF Borders, Counts
<1>2. TypeOK /\ HistoryTypeOK
  BY <1>1, BordersAssumption, FramesAssumption
     DEF HistoryInit, Init, ProcessorInit, TypeOK, ProcessorTypeOK, HistoryTypeOK
<1>3. EnabledIsWanted /\ MapIsNeverStale /\ SeenOK
  BY DEF HistoryInit, Init, ProcessorInit, EnabledIsWanted, MapIsNeverStale, SeenOK
<1>4. GapOK
  BY <1>1, FramesAssumption DEF HistoryInit, Init, ProcessorInit, GapOK, Counts
<1>5. NotOvershot /\ RunOK
  BY DEF HistoryInit, Init, ProcessorInit, NotOvershot, RunOK
<1>6. QED
  BY <1>2, <1>3, <1>4, <1>5 DEF IInv

(* Every step keeps the invariant, and switches only to stable borders.    *)
THEOREM Inductive ==
    IInv /\ [HistoryNext]_allVars =>
        /\ IInv'
        /\ [enabled /\ currentBorder # Unknown /\ currentBorder' # currentBorder
            => seen'[currentBorder'] > SwitchCnt(currentBorder')]_allVars
<1> DEFINE Stable == enabled /\ currentBorder # Unknown /\ currentBorder' # currentBorder
                     => seen'[currentBorder'] > SwitchCnt(currentBorder')
<1> SUFFICES ASSUME IInv, [HistoryNext]_allVars
             PROVE  IInv' /\ (Stable \/ UNCHANGED allVars)
  OBVIOUS
<1>1. ASSUME NEW size \in Sizes, NEW border \in Borders, Frame(size, border)
      PROVE  IInv' /\ Stable
  <2>1. CASE enabled /\ IsIgnored(border)
    <3>1. UNCHANGED currentBorder
      BY <1>1, <2>1 DEF Frame, ProcessFrame, EnabledFrame, UpdateBorder, Ignore
    <3>2. QED
      BY <1>1, <2>1, <3>1, IgnoreOK
  <2>2. CASE enabled /\ ~IsIgnored(border)
    BY <1>1, <2>2, ConsiderOK
  <2>3. CASE ~enabled
    BY <1>1, <2>3, DisabledFrameOK
  <2>4. QED
    BY <2>1, <2>2, <2>3
<1>2. CASE Disturbance
  <2>1. UNCHANGED currentBorder
    BY <1>2 DEF Disturbance, ChangeAveraging, SetLedString, ChangeSettings,
                HandleSettingsUpdate, detectionVars
  <2>2. QED
    BY <1>2, <2>1, DisturbanceOK
<1>3. CASE Switch /\ UNCHANGED historyVars
  <2>1. UNCHANGED currentBorder
    BY <1>3 DEF Switch, HandleCompStateChangeRequest, SetHardDisable, detectionVars
  <2>2. QED
    BY <1>3, <2>1, SwitchOK
<1>4. CASE UNCHANGED allVars
  <2>1. TypeOK' /\ HistoryTypeOK' /\ EnabledIsWanted' /\ MapIsNeverStale'
    BY <1>4 DEF IInv, TypeOK, ProcessorTypeOK, HistoryTypeOK, EnabledIsWanted,
                MapIsNeverStale, allVars, vars, switchVars, detectionVars, mapVars,
                historyVars
  <2>2. SeenOK' /\ GapOK'
    BY <1>4 DEF IInv, SeenOK, GapOK, allVars, vars, detectionVars, historyVars
  <2>3. Fixed => NotOvershot' /\ RunOK'
    BY <1>4 DEF IInv, NotOvershot, RunOK, SwitchCnt, allVars, vars, switchVars,
                detectionVars, historyVars
  <2>4. QED
    BY <1>4, <2>1, <2>2, <2>3 DEF IInv, Fixed
<1>5. QED
  BY <1>1, <1>2, <1>3, <1>4 DEF HistoryNext

(* The inductive invariant holds in every reachable state.                 *)
THEOREM Invariance == HistorySpec => []IInv
  BY Initially, Inductive, PTL DEF HistorySpec

(* Type correctness: in particular the map is always built for a border    *)
(* with sizes, never for an unknown one.                                   *)
THEOREM TypeCorrect == HistorySpec => []TypeOK
<1>1. IInv => TypeOK
  BY DEF IInv
<1>2. QED
  BY <1>1, Invariance, PTL

(* The user has the last word, whatever came in which order.               *)
THEOREM UserHasLastWord == HistorySpec => []EnabledIsWanted
<1>1. IInv => EnabledIsWanted
  BY DEF IInv
<1>2. QED
  BY <1>1, Invariance, PTL

(* The map never cuts a border that was given up.                          *)
THEOREM MapFollowsBorder == HistorySpec => []MapIsNeverStale
<1>1. IInv => MapIsNeverStale
  BY DEF IInv
<1>2. QED
  BY <1>1, Invariance, PTL

(* One pair of counters for all borders suffices: a border is replaced     *)
(* only by one that was stable when looked at by itself, also when the     *)
(* settings change meanwhile.                                              *)
THEOREM OnlyStableBorders == HistorySpec => SwitchesOnlyToStableBorders
  BY Initially, Inductive, PTL DEF HistorySpec, SwitchesOnlyToStableBorders

(* While the settings stay as they are, every border that is shown long    *)
(* enough is taken over.                                                   *)
THEOREM StableBordersAreApplied == HistorySpec => [](Fixed => ConsistentBorderIsApplied)
<1>1. ASSUME IInv, Fixed
      PROVE  ConsistentBorderIsApplied
  <2>1. SUFFICES ASSUME run >= Enough PROVE currentBorder = last
    BY DEF ConsistentBorderIsApplied
  <2>2. /\ run \in Nat /\ consistentCnt \in Nat /\ inconsistentCnt \in Nat
        /\ settings.maxInconsistentCnt \in Nat /\ SwitchCnt(last) \in Nat
    BY <1>1, SettingsOK, SwitchCntOK, FramesAssumption
       DEF IInv, TypeOK, ProcessorTypeOK, HistoryTypeOK, Counts
  <2>3. run > settings.maxInconsistentCnt
        /\ run >= settings.maxInconsistentCnt + 1 + SwitchCnt(last)
    BY <2>1, <2>2 DEF Enough
  <2>4. RunOK
    BY <1>1 DEF IInv
  <2>5. QED
    BY <2>2, <2>3, <2>4 DEF RunOK
<1>2. IInv => (Fixed => ConsistentBorderIsApplied)
  BY <1>1
<1>3. QED
  BY <1>2, Invariance, PTL

=============================================================================
