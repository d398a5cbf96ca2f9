--------------------------- MODULE BorderHistory ---------------------------
(***************************************************************************)
(* LedMapping with what an observer of the frames would write down, to say *)
(* of each border by itself how steadily it has been shown, while the code *)
(* has one pair of counters for all.                                       *)
(***************************************************************************)
EXTENDS LedMapping

VARIABLES seen,    \* frames that showed a border, with at most
                   \* maxInconsistentCnt others in a row between them
          gap,     \* frames since a border was shown
          last,    \* the border of the last frame
          run      \* frames that showed it, since anything else happened to
                   \* the map or the settings

historyVars == <<seen, gap, last, run>>
allVars == <<vars, historyVars>>

HistoryTypeOK ==
    /\ seen \in [Borders -> Counts]
    /\ gap \in [Borders -> Counts]
    /\ last \in Borders
    /\ run \in Counts

HistoryInit ==
    /\ Init
    /\ seen = [b \in Borders |-> 0]
    /\ gap = [b \in Borders |-> 0]
    /\ last = Unknown
    /\ run = 0

Incremented(count) == IF count < MaxFrames THEN count + 1 ELSE MaxFrames

(* A frame in which a border was looked for.                               *)
Observe(size, border) ==
    /\ seen' = [b \in Borders |->
                   IF b = border THEN Incremented(seen[b])
                   ELSE IF gap[b] < settings.maxInconsistentCnt THEN seen[b] ELSE 0]
    /\ gap' = [b \in Borders |->
                   IF b = border THEN 0
                   ELSE IF gap[b] < settings.maxInconsistentCnt THEN Incremented(gap[b])
                   ELSE 0]
    /\ last' = border
    /\ run' = IF border = last /\ size = mapSize THEN Incremented(run) ELSE 1

Frame(size, border) ==
    /\ ProcessFrame(size, border)
    /\ IF enabled THEN Observe(size, border)
                  ELSE run' = 0 /\ UNCHANGED <<seen, gap, last>>

Disturbance ==
    /\ ChangeAveraging \/ ChangeSettings \/ \E newLayout \in Layouts : SetLedString(newLayout)
    /\ run' = 0
    /\ UNCHANGED <<seen, gap, last>>

HistoryNext ==
    \/ \E size \in Sizes, border \in Borders : Frame(size, border)
    \/ Disturbance
    \/ Switch /\ UNCHANGED historyVars

HistorySpec == HistoryInit /\ [][HistoryNext]_allVars

-----------------------------------------------------------------------------
(***************************************************************************)
(* Properties                                                              *)
(***************************************************************************)

(* "will only switch to a new border if it is realy detected stable": a    *)
(* border that replaces another, known one was shown in more frames than   *)
(* the settings ask for, without a longer interruption than they allow.    *)
SwitchesOnlyToStableBorders ==
    [][enabled /\ currentBorder # Unknown /\ currentBorder' # currentBorder
        => seen'[currentBorder'] > SwitchCnt(currentBorder')]_allVars

Enough == settings.maxInconsistentCnt + 1 + SwitchCnt(last)

(* "apply the detected border if it has been detected consistently": one   *)
(* that enough frames in a row have shown is the current one.              *)
ConsistentBorderIsApplied == run >= Enough => currentBorder = last

(* ... and is what the map cuts away.                                      *)
ConsistentBorderIsCut == run >= Enough => mapBorder = Cut(last)

=============================================================================
