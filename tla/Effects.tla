------------------------------ MODULE Effects ------------------------------
(***************************************************************************)
(* The effects of one priority of an instance: EffectEngine.cpp and        *)
(* Effect.cpp of sources/effectengine, and the calls of                    *)
(* AmbilightAppInstance that set or clear that priority.                   *)
(*                                                                         *)
(* Every effect runs on a thread of its own, driven by a timer.  It is     *)
(* interrupted by a flag it looks at in its next run, hears of the visible *)
(* priority from queued calls, and sends its frames and its end to the     *)
(* thread of the instance, which handles them in the order they were sent, *)
(* among the calls of clients.  The handlers of the instance are atomic.   *)
(*                                                                         *)
(* The priority is one entry of the muxer's table; what the other entries  *)
(* do to it is whether something more important is visible.  A finite      *)
(* timeout is either the remaining time of an effect or just finite.       *)
(* Pixels, smoothing and sound are left out, and so are images set by      *)
(* clients, which do to an effect what a colour does.                      *)
(***************************************************************************)
EXTENDS Integers, Sequences

CONSTANTS Effects,     \* effects that can exist at the same time
          NoEffect,    \* the sender of an event whose effect was deleted
          MaxNews,     \* bound: calls of visiblePriorityChanged that wait
          MaxEvents    \* bound: events that wait

ASSUME EffectsAssumption ==
    /\ NoEffect \notin Effects
    /\ (Effects \cup {NoEffect}) \cap {"inactive", "endless", "finite"} = {}
ASSUME BoundsAssumption == MaxNews \in Nat /\ MaxEvents \in Nat

VARIABLES input,            \* the entry of the muxer, or NoInput
          announced,        \* what the muxer last said is visible
          moreImportant,    \* a more important input is active
          active,           \* _activeEffects
          timed,            \* effects with a timeout
          ticking,          \* effects whose timer is active
          starting,         \* effects whose start is still queued
          interrupted,      \* _interrupt
          hidden,           \* _visiblePriority < _priority
          ended,            \* the time is over or the animation has stopped
          news,             \* effect -> the visible priorities it will hear of
          events            \* frames and ends on their way to the instance

muxerVars == <<input, announced, moreImportant>>
threadVars == <<timed, ticking, starting, hidden>>
vars == <<muxerVars, active, threadVars, interrupted, ended, news, events>>

NoInput == [componentId |-> "none", timeout |-> "inactive", owner |-> NoEffect]
Timeouts == {"inactive", "endless", "finite"} \cup Effects
Inputs == [componentId : {"color", "effect"}, timeout : Timeouts,
           owner : Effects \cup {NoEffect}]
Visible == {"above", "color", "effect", "below"}
Priorities == {"higher", "other"}
Events == [effect : Effects \cup {NoEffect}, kind : {"frame", "ended", "interrupted"}]

TypeOK ==
    /\ input \in Inputs \cup {NoInput}
    /\ announced \in Visible
    /\ moreImportant \in BOOLEAN
    /\ active \subseteq Effects
    /\ timed \subseteq active
    /\ ticking \subseteq active
    /\ starting \subseteq active
    /\ interrupted \subseteq active
    /\ hidden \subseteq active
    /\ ended \subseteq active
    /\ news \in [Effects -> Seq(Priorities)]
    /\ events \in Seq(Events)

Init ==
    /\ input = NoInput
    /\ announced = "below"
    /\ moreImportant = FALSE
    /\ active = {}
    /\ timed = {}
    /\ ticking = {}
    /\ starting = {}
    /\ interrupted = {}
    /\ hidden = {}
    /\ ended = {}
    /\ news = [e \in Effects |-> <<>>]
    /\ events = <<>>

-----------------------------------------------------------------------------
(***************************************************************************)
(* The muxer, as far as this priority sees it                              *)
(***************************************************************************)
VisibleWith(entry, above) ==
    IF above THEN "above"
    ELSE IF entry.timeout = "inactive" THEN "below"
    ELSE entry.componentId

(* What an effect makes of a visible priority: it is hidden, or not.       *)
Priority(visible) == IF visible = "above" THEN "higher" ELSE "other"

(* EffectEngine::visiblePriorityChanged for every change on the way from   *)
(* what was announced over `first` to `last`.                              *)
Told(first, last) ==
    (IF first # announced THEN <<Priority(first)>> ELSE <<>>)
        \o (IF last # first THEN <<Priority(last)>> ELSE <<>>)

Announce(first, last) ==
    /\ announced' = last
    /\ news' = [e \in Effects |-> IF e \in active THEN news[e] \o Told(first, last)
                                                  ELSE news[e]]

Select(entry) ==
    LET visible == VisibleWith(entry, moreImportant)
    IN  Announce(visible, visible)

Expired == input.timeout = "finite" \/ input.timeout \in ended

Cleared == input' = NoInput /\ Select(NoInput)

(* channelCleared *)
InterruptAll == interrupted' = active

-----------------------------------------------------------------------------
(***************************************************************************)
(* The instance: calls of clients.  Clients do not flood the effects.      *)
(***************************************************************************)
Calm == \A e \in active : Len(news[e]) < MaxNews

(* runEffectScript: the entry keeps its timeout, and no selection runs.    *)
RunEffectClearsNothing(e, isTimed, cannotPlay) ==
    /\ Calm
    /\ e \notin active
    /\ active' = active \cup {e}
    /\ timed' = IF isTimed THEN timed \cup {e} ELSE timed
    /\ starting' = starting \cup {e}
    /\ hidden' = IF announced = "above" THEN hidden \cup {e} ELSE hidden
    /\ ended' = IF cannotPlay THEN ended \cup {e} ELSE ended
    /\ input' = [componentId |-> "effect", timeout |-> input.timeout, owner |-> e]
    /\ UNCHANGED <<announced, moreImportant, ticking, interrupted, news, events>>

RunEffectAssumesVisible(e, isTimed, cannotPlay) ==
    /\ Calm
    /\ e \notin active
    /\ InterruptAll
    /\ active' = active \cup {e}
    /\ timed' = IF isTimed THEN timed \cup {e} ELSE timed
    /\ starting' = starting \cup {e}
    /\ ended' = IF cannotPlay THEN ended \cup {e} ELSE ended
    /\ input' = [componentId |-> "effect", timeout |-> input.timeout, owner |-> e]
    /\ UNCHANGED <<announced, moreImportant, ticking, hidden, news, events>>

RunEffect(e, isTimed, cannotPlay) ==
    /\ Calm
    /\ e \notin active
    /\ InterruptAll
    /\ active' = active \cup {e}
    /\ timed' = IF isTimed THEN timed \cup {e} ELSE timed
    /\ starting' = starting \cup {e}
    /\ hidden' = IF announced = "above" THEN hidden \cup {e} ELSE hidden
    /\ ended' = IF cannotPlay THEN ended \cup {e} ELSE ended
    /\ input' = [componentId |-> "effect", timeout |-> input.timeout, owner |-> e]
    /\ UNCHANGED <<announced, moreImportant, ticking, news, events>>

(* setColor: another component is cleared first.                           *)
SetColor(timeout) ==
    /\ Calm
    /\ InterruptAll
    /\ LET entry == [componentId |-> "color", timeout |-> timeout, owner |-> NoEffect]
           last == VisibleWith(entry, moreImportant)
       IN  /\ input' = entry
           /\ Announce(IF input.componentId = "effect"
                       THEN VisibleWith(NoInput, moreImportant) ELSE last, last)
    /\ UNCHANGED <<moreImportant, active, threadVars, ended, events>>

(* Once deleted, effect e is unknown to later events and to timeouts.      *)
Orphaned(queue, e) ==
    [i \in DOMAIN queue |->
        IF queue[i].effect = e THEN [queue[i] EXCEPT !.effect = NoEffect] ELSE queue[i]]

(* clear(priority), also when nothing is registered                        *)
ClearDeletesAtOnce ==
    /\ Calm
    /\ \E e \in active :
        /\ active' = active \ {e}
        /\ timed' = timed \ {e}
        /\ ticking' = ticking \ {e}
        /\ starting' = starting \ {e}
        /\ hidden' = hidden \ {e}
        /\ ended' = ended \ {e}
        /\ interrupted' = interrupted \ {e}
        /\ events' = Orphaned(events, e)
        /\ news' = [news EXCEPT ![e] = <<>>]
    /\ input' = NoInput
    /\ UNCHANGED <<announced, moreImportant>>

Clear ==
    /\ Calm
    /\ InterruptAll
    /\ IF input = NoInput THEN UNCHANGED <<input, announced, news>> ELSE Cleared
    /\ UNCHANGED <<moreImportant, active, threadVars, ended, events>>

(* Another input becomes visible above this one, or none is any more.      *)
MoreImportantChanges ==
    /\ Calm
    /\ moreImportant' = ~moreImportant
    /\ LET visible == VisibleWith(input, moreImportant')
       IN  Announce(visible, visible)
    /\ UNCHANGED <<input, active, threadVars, interrupted, ended, events>>

AnotherMoreImportant ==
    /\ Calm
    /\ announced = "above"
    /\ news' = [e \in Effects |-> IF e \in active THEN Append(news[e], "higher") ELSE news[e]]
    /\ UNCHANGED <<muxerVars, active, threadVars, interrupted, ended, events>>

(* The timer of the muxer notices an expired entry or a new component.     *)
MuxerTick ==
    /\ IF Expired THEN Cleared ELSE Select(input) /\ UNCHANGED input
    /\ UNCHANGED <<moreImportant, active, threadVars, interrupted, ended, events>>

-----------------------------------------------------------------------------
(***************************************************************************)
(* The instance: events of effects                                         *)
(***************************************************************************)

(* A frame refreshes the entry with the remaining time of its effect,      *)
(* whoever registered it; without an entry it is dropped.                  *)
HandleFrame ==
    /\ events # <<>>
    /\ Head(events).kind = "frame"
    /\ events' = Tail(events)
    /\ LET e == Head(events).effect
           entry == [input EXCEPT !.timeout = IF e \in timed THEN e ELSE "endless"]
       IN  IF input = NoInput
           THEN UNCHANGED <<input, announced, news>>
           ELSE /\ input' = entry
                /\ IF input.timeout = "inactive" THEN Select(entry)
                                                 ELSE UNCHANGED <<announced, news>>
    /\ UNCHANGED <<moreImportant, active, threadVars, interrupted, ended>>

Outlived(entry, e) ==
    IF entry.timeout = e THEN [entry EXCEPT !.timeout = "finite"] ELSE entry

(* handlerEffectFinished: an effect that was not forced to stop clears its *)
(* priority, whoever uses it now, and with that interrupts every effect.   *)
(* The effect is deleted with all that was queued to it, which waits for   *)
(* its thread.                                                             *)
HandleFinishedKeepsInput ==
    /\ events # <<>>
    /\ Head(events).kind # "frame"
    /\ LET e == Head(events).effect
       IN  /\ active' = active \ {e}
           /\ timed' = timed \ {e}
           /\ ticking' = ticking \ {e}
           /\ starting' = starting \ {e}
           /\ hidden' = hidden \ {e}
           /\ ended' = ended \ {e}
           /\ events' = Orphaned(Tail(events), e)
           /\ interrupted' = interrupted \ {e}
           /\ input' = Outlived(input, e)
           /\ UNCHANGED announced
           /\ news' = [news EXCEPT ![e] = <<>>]
    /\ UNCHANGED moreImportant

HandleFinished ==
    /\ events # <<>>
    /\ Head(events).kind # "frame"
    /\ LET e == Head(events).effect
           visible == VisibleWith(NoInput, moreImportant)
       IN  /\ active' = active \ {e}
           /\ timed' = timed \ {e}
           /\ ticking' = ticking \ {e}
           /\ starting' = starting \ {e}
           /\ hidden' = hidden \ {e}
           /\ ended' = ended \ {e}
           /\ events' = Orphaned(Tail(events), e)
           /\ IF Head(events).kind = "ended"
              THEN /\ interrupted' = active \ {e}
                   /\ input' = NoInput
                   /\ announced' = IF input = NoInput THEN announced ELSE visible
              ELSE /\ interrupted' = interrupted \ {e}
                   /\ input' = Outlived(input, e)
                   /\ UNCHANGED announced
           /\ news' = [f \in Effects |->
                          IF f = e THEN <<>>
                          ELSE IF f \in active /\ announced' # announced
                          THEN Append(news[f], Priority(announced'))
                          ELSE news[f]]
    /\ UNCHANGED moreImportant

-----------------------------------------------------------------------------
(***************************************************************************)
(* The threads of the effects                                              *)
(***************************************************************************)
Send(e, kind) ==
    /\ Len(events) < MaxEvents
    /\ events' = Append(events, [effect |-> e, kind |-> kind])

(* run: what an effect does at every tick of its timer.                    *)
Quits(e) == e \in interrupted \/ e \in ended

Quit(e) == Send(e, IF e \in interrupted THEN "interrupted" ELSE "ended")

Play(e) ==
    IF e \in hidden
    THEN UNCHANGED <<events, ended>>
    ELSE \/ Send(e, "frame") /\ UNCHANGED ended
         \/ UNCHANGED <<events, ended>>                      \* no image yet
         \/ /\ e \notin timed                                \* the animation stops
            /\ ended' = ended \cup {e}
            /\ UNCHANGED events

(* start: the timer starts after the first run, even if that run quit.     *)
Start(e) ==
    /\ e \in starting
    /\ starting' = starting \ {e}
    /\ ticking' = ticking \cup {e}
    /\ IF Quits(e) THEN Quit(e) /\ UNCHANGED ended ELSE Play(e)
    /\ UNCHANGED <<muxerVars, active, timed, hidden, interrupted, news>>

Tick(e) ==
    /\ e \in ticking
    /\ IF Quits(e)
       THEN Quit(e) /\ ticking' = ticking \ {e} /\ UNCHANGED ended
       ELSE Play(e) /\ UNCHANGED ticking
    /\ UNCHANGED <<muxerVars, active, timed, starting, hidden, interrupted, news>>

(* visiblePriorityChanged: an effect without a timeout rests while hidden. *)
TakeNewsAlwaysRests(e) ==
    /\ news[e] # <<>>
    /\ e \notin starting
    /\ hidden' = IF Head(news[e]) = "higher" THEN hidden \cup {e} ELSE hidden \ {e}
    /\ ticking' = IF Head(news[e]) = "higher" THEN ticking \ {e} ELSE ticking
    /\ news' = [news EXCEPT ![e] = Tail(news[e])]
    /\ UNCHANGED <<muxerVars, active, timed, starting, interrupted, ended, events>>

TakeNews(e) ==
    /\ news[e] # <<>>
    /\ e \notin starting
    /\ hidden' = IF Head(news[e]) = "higher" THEN hidden \cup {e} ELSE hidden \ {e}
    /\ ticking' = IF e \in timed THEN ticking
                  ELSE IF Head(news[e]) = "higher" THEN ticking \ {e} ELSE ticking \cup {e}
    /\ news' = [news EXCEPT ![e] = Tail(news[e])]
    /\ UNCHANGED <<muxerVars, active, timed, starting, interrupted, ended, events>>

(* The time of an effect is over.                                          *)
TimePassesUnguarded(e) ==
    /\ ended' = ended \cup {e}
    /\ UNCHANGED <<muxerVars, active, threadVars, interrupted, news, events>>

TimePasses(e) ==
    /\ e \in timed \ starting
    /\ ended' = ended \cup {e}
    /\ UNCHANGED <<muxerVars, active, threadVars, interrupted, news, events>>

EffectStep(e) == Start(e) \/ Tick(e) \/ TakeNews(e)

Next ==
    \/ \E e \in Effects, isTimed, cannotPlay \in BOOLEAN : RunEffect(e, isTimed, cannotPlay)
    \/ \E timeout \in {"endless", "finite"} : SetColor(timeout)
    \/ Clear
    \/ MoreImportantChanges
    \/ AnotherMoreImportant
    \/ MuxerTick
    \/ HandleFrame
    \/ HandleFinished
    \/ \E e \in Effects : EffectStep(e)
    \/ \E e \in Effects : TimePasses(e)

Spec == Init /\ [][Next]_vars

(* Threads and their timers run, the instance handles what it is sent, and *)
(* time passes.  Clients, and more important sources, need not do anything. *)
(* Fairness is strong where the bound on the events may keep an effect     *)
(* from sending again and again; the queue of the program has no bound.    *)
Fairness ==
    /\ \A e \in Effects :
        /\ SF_vars(Start(e))
        /\ SF_vars(Quits(e) /\ Tick(e))
        /\ WF_vars(TakeNews(e))
        /\ WF_vars(TimePasses(e))
    /\ WF_vars(HandleFrame \/ HandleFinished)
    /\ WF_vars(MuxerTick)

FairSpec == Spec /\ Fairness

-----------------------------------------------------------------------------
(***************************************************************************)
(* Properties                                                              *)
(***************************************************************************)

(* However many effects are still winding down, only one has not been told *)
(* to stop.                                                                *)
OneEffectPlays == \A e, f \in active \ interrupted : e = f

(* An entry that was registered for an effect is never left behind by it:  *)
(* whichever way the effect ends, somebody clears or takes over the entry  *)
(* before the effect is deleted.                                           *)
NoOrphanInput == input.owner \in Effects => input.owner \in active

(* A frame is handled while its effect still exists: the end of an effect  *)
(* overtakes none of its frames, and none follows it.                      *)
FramesDoNotOutlive ==
    \A i \in DOMAIN events : events[i].effect = NoEffect => events[i].kind # "frame"

(* What an effect believes about its visibility, once it has heard         *)
(* everything, is what the muxer announced last, also when it was created  *)
(* while announcements were under way.                                     *)
HiddenIsTrue ==
    \A e \in active :
        IF news[e] = <<>> THEN e \in hidden <=> announced = "above"
                          ELSE news[e][Len(news[e])] = Priority(announced)

(* An effect that was told to stop, or whose time is over, is deleted; the *)
(* exception is one without a timeout that rests behind a more important   *)
(* source.                                                                 *)
EffectsEnd ==
    \A e \in Effects : e \in interrupted \cup ended ~> e \notin active \/ e \in hidden \ timed

(* "clear current effect on the channel", "start the effect", and an error *)
(* for input "used without registerInput()": an effect that was started,   *)
(* and was neither stopped nor at its end, has an entry for its frames.    *)
RunningEffectIsRegistered ==
    \A e \in active \ (interrupted \cup ended) : input # NoInput

=============================================================================
