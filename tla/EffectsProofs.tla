--------------------------- MODULE EffectsProofs ---------------------------
(***************************************************************************)
(* Proofs about the effects of a priority for any number of effects and    *)
(* any bound on the calls and events that wait.                            *)
(***************************************************************************)
EXTENDS Effects, SequenceTheorems, TLAPS

-----------------------------------------------------------------------------
(***************************************************************************)
(* The inductive invariant                                                 *)
(***************************************************************************)

(* The entry of an effect belongs to one that was not told to stop.        *)
OwnerPlays == input.owner \in Effects => input.owner \in active \ interrupted

(* An event of an effect that exists: its end was sent for a reason, and   *)
(* after it comes no frame.                                                *)
EventOK(ev, alive, told, over) ==
    /\ ev.effect = NoEffect => ev.kind # "frame"
    /\ ev.effect # NoEffect => ev.effect \in alive
    /\ ev.effect # NoEffect /\ ev.kind # "frame" => ev.effect \in told \cup over
    /\ ev.effect # NoEffect /\ ev.kind = "interrupted" => ev.effect \in told

NoFrameAfterEnd(queue) ==
    \A i, j \in DOMAIN queue :
        i < j /\ queue[i].effect = queue[j].effect /\ queue[i].effect # NoEffect
              /\ queue[i].kind # "frame"
        => queue[j].kind # "frame"

EventsOK ==
    /\ \A i \in DOMAIN events : EventOK(events[i], active, interrupted, ended)
    /\ NoFrameAfterEnd(events)

NewsOK ==
    /\ HiddenIsTrue
    /\ \A e \in Effects \ active : news[e] = <<>>

IInv ==
    /\ TypeOK
    /\ OneEffectPlays
    /\ OwnerPlays
    /\ EventsOK
    /\ NewsOK

-----------------------------------------------------------------------------
(***************************************************************************)
(* Queues                                                                  *)
(***************************************************************************)

(* The events of a deleted effect stay events, and lose their effect.      *)
LEMMA OrphanedEvents ==
    ASSUME NEW queue \in Seq(Events), NEW e
    PROVE  /\ Orphaned(queue, e) \in Seq(Events)
           /\ DOMAIN Orphaned(queue, e) = DOMAIN queue
           /\ \A i \in DOMAIN queue :
                /\ Orphaned(queue, e)[i].kind = queue[i].kind
                /\ Orphaned(queue, e)[i].effect =
                       IF queue[i].effect = e THEN NoEffect ELSE queue[i].effect
<1>1. \A i \in DOMAIN queue : queue[i] \in Events
  OBVIOUS
<1>2. \A i \in DOMAIN queue :
        LET ev == [queue[i] EXCEPT !.effect = NoEffect]
        IN  /\ ev \in Events
            /\ ev.kind = queue[i].kind
            /\ ev.effect = NoEffect
  BY <1>1 DEF Events
<1>3. Orphaned(queue, e) \in [1 .. Len(queue) -> Events]
  BY <1>1, <1>2 DEF Orphaned
<1>4. Orphaned(queue, e) \in Seq(Events)
  BY <1>3, SeqDef
<1>5. QED
  BY <1>1, <1>2, <1>4 DEF Orphaned

(* The last value of a queue that something was appended to.               *)
LEMMA LastOfConcat ==
    ASSUME NEW s \in Seq(Priorities), NEW t \in Seq(Priorities)
    PROVE  /\ s \o t \in Seq(Priorities)
           /\ t = <<>> => s \o t = s
           /\ t # <<>> => s \o t # <<>> /\ (s \o t)[Len(s \o t)] = t[Len(t)]
<1>1. t = <<>> => s \o t = s
  OBVIOUS
<1>2. ASSUME t # <<>>
      PROVE  s \o t # <<>> /\ (s \o t)[Len(s \o t)] = t[Len(t)]
  <2>1. Len(t) \in Nat /\ Len(t) > 0 /\ Len(s) \in Nat
    BY <1>2
  <2>2. Len(s \o t) = Len(s) + Len(t)
    OBVIOUS
  <2>3. (s \o t)[Len(s) + Len(t)] = t[Len(t)]
    BY <2>1
  <2>4. QED
    BY <2>1, <2>2, <2>3
<1>3. QED
  BY <1>1, <1>2

(* Telling something appends at most two values; what was told last is     *)
(* what is visible last.                                                   *)
LEMMA ToldLast ==
    ASSUME NEW first, NEW last
    PROVE  /\ Told(first, last) \in Seq(Priorities)
           /\ Told(first, last) = <<>> => last = announced
           /\ Told(first, last) # <<>> =>
                Told(first, last)[Len(Told(first, last))] = Priority(last)
<1> DEFINE s == IF first # announced THEN <<Priority(first)>> ELSE <<>>
           t == IF last # first THEN <<Priority(last)>> ELSE <<>>
<1>0. Priority(first) \in Priorities /\ Priority(last) \in Priorities
  BY DEF Priority, Priorities
<1>1. s \in Seq(Priorities) /\ t \in Seq(Priorities) /\ Told(first, last) = s \o t
  <2>1. <<Priority(first)>> \in Seq(Priorities) /\ <<Priority(last)>> \in Seq(Priorities)
    BY <1>0
  <2>2. <<>> \in Seq(Priorities)
    BY EmptySeq
  <2>3. s \in Seq(Priorities)
    BY <2>1, <2>2
  <2>4. t \in Seq(Priorities)
    BY <2>1, <2>2
  <2>5. Told(first, last) = s \o t
    BY DEF Told
  <2>6. QED
    BY <2>3, <2>4, <2>5
<1>2. CASE last # first
  <2>1. t # <<>> /\ t[Len(t)] = Priority(last)
    BY <1>2
  <2> HIDE DEF s, t
  <2>2. QED
    BY <1>1, <2>1, LastOfConcat
<1>3. CASE last = first
  <2>1. t = <<>>
    BY <1>3
  <2>2. Told(first, last) = s
    BY <1>1, <2>1, LastOfConcat
  <2>3. s # <<>> => s[Len(s)] = Priority(first)
    OBVIOUS
  <2>4. s = <<>> => first = announced
    OBVIOUS
  <2> HIDE DEF s, t
  <2>5. QED
    BY <1>1, <1>3, <2>2, <2>3, <2>4
<1>4. QED
  BY <1>2, <1>3

-----------------------------------------------------------------------------
(***************************************************************************)
(* The parts of the invariant                                              *)
(***************************************************************************)

(* After an announcement every effect has been told what is visible, and   *)
(* the announcement is one the muxer makes.                                *)
LEMMA AnnounceOK ==
    ASSUME TypeOK, NewsOK, NEW first, NEW last \in Visible,
           Announce(first, last), UNCHANGED <<active, hidden>>
    PROVE  /\ announced' \in Visible
           /\ news' \in [Effects -> Seq(Priorities)]
           /\ NewsOK'
<1> DEFINE told == Told(first, last)
<1>1. /\ told \in Seq(Priorities)
      /\ told = <<>> => last = announced
      /\ told # <<>> => told[Len(told)] = Priority(last)
  BY ToldLast
<1> HIDE DEF told
<1>2. /\ announced' = last
      /\ news' = [e \in Effects |-> IF e \in active THEN news[e] \o told ELSE news[e]]
  BY DEF Announce, told
<1>3. \A e \in Effects : news[e] \in Seq(Priorities)
  BY DEF TypeOK
<1>4. \A e \in Effects : news[e] \o told \in Seq(Priorities)
  BY <1>1, <1>3, LastOfConcat
<1>5. news' \in [Effects -> Seq(Priorities)]
  BY <1>2, <1>3, <1>4
<1>6. \A e \in Effects \ active' : news'[e] = <<>>
  BY <1>2 DEF NewsOK
<1>7. ASSUME NEW e \in active
      PROVE  IF news'[e] = <<>> THEN e \in hidden' <=> announced' = "above"
                                ELSE news'[e][Len(news'[e])] = Priority(announced')
  <2>1. e \in Effects /\ news'[e] = news[e] \o told
    BY <1>2 DEF TypeOK
  <2>2. CASE told = <<>>
    <3>1. news'[e] = news[e] /\ announced' = announced
      BY <1>1, <1>2, <1>3, <2>1, <2>2, LastOfConcat
    <3>2. QED
      BY <3>1 DEF NewsOK, HiddenIsTrue
  <2>3. CASE told # <<>>
    BY <1>1, <1>2, <1>3, <2>1, <2>3, LastOfConcat
  <2>4. QED
    BY <2>2, <2>3
<1>8. HiddenIsTrue'
  BY <1>7 DEF HiddenIsTrue
<1>9. QED
  BY <1>2, <1>5, <1>6, <1>8 DEF NewsOK

(* A selection announces what an entry of the table makes visible.         *)
LEMMA VisibleWithOK ==
    ASSUME NEW entry \in Inputs \cup {NoInput}, NEW above \in BOOLEAN
    PROVE  VisibleWith(entry, above) \in Visible
  BY DEF VisibleWith, Inputs, NoInput, Visible

(* Events stay as they should be when effects are only told to stop, or    *)
(* come to their end.                                                      *)
LEMMA SameEventsOK ==
    ASSUME EventsOK, UNCHANGED events, active \subseteq active',
           interrupted \subseteq interrupted', ended \subseteq ended'
    PROVE  EventsOK'
  BY DEF EventsOK, EventOK, NoFrameAfterEnd

(* Sending an event: one that an effect may send now.                      *)
LEMMA SendOK ==
    ASSUME TypeOK, EventsOK, NEW e \in active, NEW kind \in {"frame", "ended", "interrupted"},
           Send(e, kind), UNCHANGED <<active, interrupted>>, ended \subseteq ended',
           kind = "frame" => ~Quits(e),
           kind # "frame" => Quits(e),
           kind = "interrupted" => e \in interrupted
    PROVE  events' \in Seq(Events) /\ EventsOK'
<1> DEFINE ev == [effect |-> e, kind |-> kind]
           n == Len(events)
<1>1. ev \in Events /\ ev.effect = e /\ ev.kind = kind /\ e # NoEffect
  BY EffectsAssumption DEF TypeOK, Events
<1> HIDE DEF ev
<1>2. events \in Seq(Events) /\ n \in Nat
  BY DEF TypeOK
<1>3. events' = Append(events, ev)
  BY DEF Send, ev
<1>4. events' \in Seq(Events) /\ DOMAIN events' = 1 .. (n + 1) /\ DOMAIN events = 1 .. n
  BY <1>1, <1>2, <1>3
<1>5. events'[n + 1] = ev /\ \A i \in 1 .. n : events'[i] = events[i]
  BY <1>1, <1>2, <1>3
<1>6. EventOK(ev, active', interrupted', ended')
  BY <1>1 DEF EventOK, Quits
<1>7. \A i \in 1 .. n : EventOK(events[i], active', interrupted', ended')
  BY <1>4 DEF EventsOK, EventOK
<1>8. \A i \in DOMAIN events' : EventOK(events'[i], active', interrupted', ended')
  BY <1>2, <1>4, <1>5, <1>6, <1>7
<1>9. ASSUME NEW i \in DOMAIN events', NEW j \in DOMAIN events',
             i < j, events'[i].effect = events'[j].effect, events'[i].effect # NoEffect,
             events'[i].kind # "frame"
      PROVE  events'[j].kind # "frame"
  <2>1. i \in 1 .. n /\ events'[i] = events[i]
    BY <1>2, <1>4, <1>5, <1>9
  <2>2. CASE j \in 1 .. n
    BY <1>4, <1>5, <1>9, <2>1, <2>2 DEF EventsOK, NoFrameAfterEnd
  <2>3. CASE j = n + 1
    <3>1. events[i].effect = e /\ events[i].kind # "frame"
      BY <1>1, <1>5, <1>9, <2>1, <2>3
    <3>2. Quits(e)
      BY <1>1, <1>4, <2>1, <3>1 DEF EventsOK, EventOK, Quits
    <3>3. QED
      BY <1>1, <1>5, <2>3, <3>2
  <2>4. QED
    BY <1>2, <1>4, <2>2, <2>3
<1>10. QED
  BY <1>4, <1>8, <1>9 DEF EventsOK, NoFrameAfterEnd

-----------------------------------------------------------------------------
(***************************************************************************)
(* The calls of clients, and the muxer                                     *)
(***************************************************************************)
LEMMA RunEffectOK ==
    ASSUME IInv, NEW e \in Effects, NEW isTimed \in BOOLEAN, NEW cannotPlay \in BOOLEAN,
           RunEffect(e, isTimed, cannotPlay)
    PROVE  IInv'
<1>1. TypeOK'
  <2>1. input' \in Inputs
    BY DEF IInv, TypeOK, RunEffect, Inputs, NoInput, Timeouts
  <2>2. QED
    BY <2>1 DEF IInv, TypeOK, RunEffect, InterruptAll
<1>2. OneEffectPlays'
  BY DEF RunEffect, InterruptAll, OneEffectPlays
<1>3. OwnerPlays'
  BY DEF RunEffect, InterruptAll, OwnerPlays
<1>4. EventsOK'
  <2>1. /\ UNCHANGED events
        /\ active \subseteq active'
        /\ interrupted \subseteq interrupted'
        /\ ended \subseteq ended'
    BY DEF IInv, TypeOK, RunEffect, InterruptAll
  <2>2. QED
    BY <2>1, SameEventsOK DEF IInv
<1>5. NewsOK'
  <2>1. /\ UNCHANGED <<news, announced>>
        /\ active' = active \cup {e}
        /\ e \notin active /\ e \notin hidden
        /\ hidden' = IF announced = "above" THEN hidden \cup {e} ELSE hidden
        /\ news[e] = <<>>
    BY DEF IInv, TypeOK, RunEffect, NewsOK
  <2>2. QED
    BY <2>1 DEF IInv, NewsOK, HiddenIsTrue
<1>6. QED
  BY <1>1, <1>2, <1>3, <1>4, <1>5 DEF IInv

LEMMA SetColorOK ==
    ASSUME IInv, NEW timeout \in {"endless", "finite"}, SetColor(timeout)
    PROVE  IInv'
<1> DEFINE entry == [componentId |-> "color", timeout |-> timeout, owner |-> NoEffect]
           last == VisibleWith(entry, moreImportant)
           first == IF input.componentId = "effect"
                    THEN VisibleWith(NoInput, moreImportant) ELSE last
<1>1. entry \in Inputs /\ entry.owner = NoEffect
  BY DEF Inputs, Timeouts
<1>2. last \in Visible
  BY <1>1, VisibleWithOK DEF IInv, TypeOK
<1>3. /\ input' = entry
      /\ interrupted' = active
      /\ Announce(first, last)
      /\ UNCHANGED <<moreImportant, active, timed, ticking, starting, hidden, ended, events>>
  BY DEF SetColor, InterruptAll, threadVars
<1> HIDE DEF entry, last, first
<1>4. announced' \in Visible /\ news' \in [Effects -> Seq(Priorities)] /\ NewsOK'
  BY <1>2, <1>3, AnnounceOK DEF IInv
<1>5. TypeOK'
  BY <1>1, <1>3, <1>4 DEF IInv, TypeOK
<1>6. OneEffectPlays' /\ OwnerPlays'
  BY <1>1, <1>3, EffectsAssumption DEF OneEffectPlays, OwnerPlays
<1>7. EventsOK'
  <2>1. interrupted \subseteq interrupted'
    BY <1>3 DEF IInv, TypeOK
  <2>2. QED
    BY <1>3, <2>1, SameEventsOK DEF IInv
<1>8. QED
  BY <1>4, <1>5, <1>6, <1>7 DEF IInv

(* What the muxer does to the entry alone: it is erased, or it stays as it *)
(* is, and what is visible is announced.                                   *)
LEMMA MuxerStepOK ==
    ASSUME IInv, NEW first, NEW last \in Visible, Announce(first, last),
           input' = input \/ input' = NoInput, moreImportant' \in BOOLEAN,
           interrupted' = interrupted \/ (interrupted' = active /\ input' = NoInput),
           UNCHANGED <<active, timed, ticking, starting, hidden, ended, events>>
    PROVE  IInv'
<1>1. announced' \in Visible /\ news' \in [Effects -> Seq(Priorities)] /\ NewsOK'
  BY AnnounceOK DEF IInv
<1>2. interrupted \subseteq interrupted' /\ interrupted' \subseteq active
  BY DEF IInv, TypeOK
<1>3. TypeOK'
  BY <1>1, <1>2 DEF IInv, TypeOK
<1>4. OneEffectPlays'
  BY <1>2 DEF IInv, OneEffectPlays
<1>5. NoInput.owner \notin Effects
  BY EffectsAssumption DEF NoInput
<1>6. OwnerPlays'
  BY <1>5 DEF IInv, OwnerPlays
<1>7. EventsOK'
  BY <1>2, SameEventsOK DEF IInv
<1>8. QED
  BY <1>1, <1>3, <1>4, <1>6, <1>7 DEF IInv

LEMMA ClearOK ==
    ASSUME IInv, Clear
    PROVE  IInv'
<1>1. NoInput \in Inputs \cup {NoInput} /\ moreImportant \in BOOLEAN
  BY DEF IInv, TypeOK
<1>2. CASE input = NoInput
  <2>1. /\ UNCHANGED <<input, announced, news, moreImportant, active, timed, ticking,
                       starting, hidden, ended, events>>
        /\ interrupted' = active
    BY <1>2 DEF Clear, InterruptAll, threadVars
  <2>2. TypeOK' /\ OneEffectPlays'
    BY <2>1 DEF IInv, TypeOK, OneEffectPlays
  <2>3. NoInput.owner \notin Effects
    BY EffectsAssumption DEF NoInput
  <2>4. OwnerPlays'
    BY <1>2, <2>1, <2>3 DEF OwnerPlays
  <2>5. interrupted \subseteq interrupted'
    BY <2>1 DEF IInv, TypeOK
  <2>6. EventsOK'
    BY <2>1, <2>5, SameEventsOK DEF IInv
  <2>7. NewsOK'
    BY <2>1 DEF IInv, NewsOK, HiddenIsTrue
  <2>8. QED
    BY <2>2, <2>4, <2>6, <2>7 DEF IInv
<1>3. CASE input # NoInput
  <2> DEFINE visible == VisibleWith(NoInput, moreImportant)
  <2>1. visible \in Visible
    BY <1>1, VisibleWithOK
  <2>2. /\ Announce(visible, visible)
        /\ input' = NoInput
        /\ interrupted' = active
        /\ UNCHANGED <<moreImportant, active, timed, ticking, starting, hidden, ended, events>>
    BY <1>3 DEF Clear, Cleared, Select, InterruptAll, threadVars
  <2> HIDE DEF visible
  <2>3. QED
    BY <1>1, <2>1, <2>2, MuxerStepOK
<1>4. QED
  BY <1>2, <1>3

LEMMA MoreImportantChangesOK ==
    ASSUME IInv, MoreImportantChanges
    PROVE  IInv'
<1> DEFINE visible == VisibleWith(input, moreImportant')
<1>1. moreImportant' \in BOOLEAN /\ input \in Inputs \cup {NoInput}
  BY DEF IInv, TypeOK, MoreImportantChanges
<1>2. visible \in Visible
  BY <1>1, VisibleWithOK
<1>3. /\ Announce(visible, visible)
      /\ UNCHANGED <<input, active, timed, ticking, starting, hidden, interrupted, ended,
                     events>>
  BY DEF MoreImportantChanges, threadVars
<1> HIDE DEF visible
<1>4. QED
  BY <1>1, <1>2, <1>3, MuxerStepOK

LEMMA MuxerTickOK ==
    ASSUME IInv, MuxerTick
    PROVE  IInv'
<1>1. moreImportant \in BOOLEAN /\ input \in Inputs \cup {NoInput}
  BY DEF IInv, TypeOK
<1>2. UNCHANGED <<moreImportant, active, timed, ticking, starting, hidden, interrupted,
                  ended, events>>
  BY DEF MuxerTick, threadVars
<1>3. PICK entry \in {input, NoInput} : input' = entry /\ Select(entry)
  BY DEF MuxerTick, Cleared
<1> DEFINE visible == VisibleWith(entry, moreImportant)
<1>4. visible \in Visible
  BY <1>1, VisibleWithOK
<1>5. Announce(visible, visible)
  BY <1>3 DEF Select
<1> HIDE DEF visible
<1>6. QED
  BY <1>1, <1>2, <1>3, <1>4, <1>5, MuxerStepOK

LEMMA AnotherMoreImportantOK ==
    ASSUME IInv, AnotherMoreImportant
    PROVE  IInv'
<1>1. /\ announced = "above"
      /\ news' = [e \in Effects |->
                     IF e \in active THEN Append(news[e], "higher") ELSE news[e]]
      /\ UNCHANGED <<input, announced, moreImportant, active, timed, ticking, starting,
                     hidden, interrupted, ended, events>>
  BY DEF AnotherMoreImportant, threadVars, muxerVars
<1>2. \A e \in Effects : news[e] \in Seq(Priorities)
  BY DEF IInv, TypeOK
<1>3. \A e \in Effects : Append(news[e], "higher") \in Seq(Priorities)
  <2>1. "higher" \in Priorities
    BY DEF Priorities
  <2>2. QED
    BY <1>2, <2>1, AppendProperties
<1>4. news' \in [Effects -> Seq(Priorities)]
  BY <1>1, <1>2, <1>3
<1>5. TypeOK' /\ OneEffectPlays' /\ OwnerPlays' /\ EventsOK'
  BY <1>1, <1>4, SameEventsOK DEF IInv, TypeOK, OneEffectPlays, OwnerPlays
<1>6. ASSUME NEW e \in active
      PROVE  news'[e] # <<>> /\ news'[e][Len(news'[e])] = "higher"
  <2>1. e \in Effects /\ news'[e] = Append(news[e], "higher") /\ news[e] \in Seq(Priorities)
    BY <1>1, <1>2 DEF IInv, TypeOK
  <2>2. QED
    BY <2>1
<1>7. NewsOK'
  BY <1>1, <1>6 DEF IInv, NewsOK, HiddenIsTrue, Priority
<1>8. QED
  BY <1>5, <1>7 DEF IInv

-----------------------------------------------------------------------------
(***************************************************************************)
(* The events of effects                                                   *)
(***************************************************************************)
LEMMA TailOfEvents ==
    ASSUME NEW queue \in Seq(Events), queue # <<>>
    PROVE  /\ Tail(queue) \in Seq(Events)
           /\ 1 \in DOMAIN queue /\ Head(queue) = queue[1]
           /\ \A i \in DOMAIN Tail(queue) :
                i \in Nat /\ i > 0 /\ i + 1 \in DOMAIN queue /\ Tail(queue)[i] = queue[i + 1]
<1>1. Len(queue) \in Nat /\ Len(queue) > 0 /\ DOMAIN queue = 1 .. Len(queue)
  OBVIOUS
<1>2. Tail(queue) \in Seq(Events) /\ DOMAIN Tail(queue) = 1 .. (Len(queue) - 1)
  BY <1>1
<1>3. \A i \in 1 .. (Len(queue) - 1) : Tail(queue)[i] = queue[i + 1]
  BY <1>1
<1>4. QED
  BY <1>1, <1>2, <1>3

LEMMA HandleFrameOK ==
    ASSUME IInv, HandleFrame
    PROVE  IInv'
<1> DEFINE e == Head(events).effect
           entry == [input EXCEPT !.timeout = IF e \in timed THEN e ELSE "endless"]
           visible == VisibleWith(entry, moreImportant)
<1>1. /\ events \in Seq(Events)
      /\ events # <<>>
      /\ events' = Tail(events)
      /\ UNCHANGED <<moreImportant, active, timed, ticking, starting, hidden, interrupted,
                     ended>>
  BY DEF IInv, TypeOK, HandleFrame, threadVars
<1>2. \/ UNCHANGED <<input, announced, news>>
      \/ /\ input # NoInput
         /\ input' = entry
         /\ Announce(visible, visible) \/ UNCHANGED <<announced, news>>
  BY DEF HandleFrame, Select
<1>3. EventsOK'
  <2>1. \A i \in DOMAIN events' :
          i \in Nat /\ i + 1 \in DOMAIN events /\ events'[i] = events[i + 1]
    BY <1>1, TailOfEvents
  <2>2. \A i \in DOMAIN events' : EventOK(events'[i], active', interrupted', ended')
    BY <1>1, <2>1 DEF IInv, EventsOK
  <2>3. ASSUME NEW i \in DOMAIN events', NEW j \in DOMAIN events',
               i < j, events'[i].effect = events'[j].effect, events'[i].effect # NoEffect,
               events'[i].kind # "frame"
        PROVE  events'[j].kind # "frame"
    <3>1. i + 1 < j + 1
      BY <2>1, <2>3
    <3>2. QED
      BY <2>1, <2>3, <3>1 DEF IInv, EventsOK, NoFrameAfterEnd
  <2>4. QED
    BY <2>2, <2>3 DEF EventsOK, NoFrameAfterEnd
<1>4. input # NoInput => entry \in Inputs /\ entry.owner = input.owner
  BY DEF IInv, TypeOK, Inputs, Timeouts
<1>5. input' \in Inputs \cup {NoInput} /\ input'.owner = input.owner
  BY <1>2, <1>4 DEF IInv, TypeOK
<1>6. input # NoInput => visible \in Visible
  BY <1>4, VisibleWithOK DEF IInv, TypeOK
<1> HIDE DEF visible, entry
<1>7. announced' \in Visible /\ news' \in [Effects -> Seq(Priorities)] /\ NewsOK'
  <2>1. CASE UNCHANGED <<announced, news>>
    BY <1>1, <2>1 DEF IInv, TypeOK, NewsOK, HiddenIsTrue
  <2>2. CASE input # NoInput /\ Announce(visible, visible)
    BY <1>1, <1>6, <2>2, AnnounceOK DEF IInv
  <2>3. QED
    BY <1>2, <2>1, <2>2
<1>8. TypeOK'
  <2>1. events' \in Seq(Events)
    BY <1>1, TailOfEvents
  <2>2. QED
    BY <1>1, <1>5, <1>7, <2>1 DEF IInv, TypeOK
<1>9. OneEffectPlays' /\ OwnerPlays'
  BY <1>1, <1>5 DEF IInv, OneEffectPlays, OwnerPlays
<1>10. QED
  BY <1>3, <1>7, <1>8, <1>9 DEF IInv

(* The end of effect e leaves nothing of it behind.                        *)
LEMMA HandleFinishedOK ==
    ASSUME IInv, HandleFinished
    PROVE  IInv'
<1> DEFINE e == Head(events).effect
           kind == Head(events).kind
           visible == VisibleWith(NoInput, moreImportant)
<1>1. /\ active' = active \ {e}
      /\ timed' = timed \ {e}
      /\ ticking' = ticking \ {e}
      /\ starting' = starting \ {e}
      /\ hidden' = hidden \ {e}
      /\ ended' = ended \ {e}
      /\ events' = Orphaned(Tail(events), e)
      /\ moreImportant' = moreImportant
      /\ news' = [f \in Effects |->
                     IF f = e THEN <<>>
                     ELSE IF f \in active /\ announced' # announced
                     THEN Append(news[f], Priority(announced'))
                     ELSE news[f]]
  BY DEF HandleFinished
<1>2. /\ events \in Seq(Events)
      /\ events # <<>>
      /\ kind # "frame"
      /\ kind = "ended" => /\ interrupted' = active \ {e}
                           /\ input' = NoInput
                           /\ announced' = announced \/ announced' = visible
      /\ kind # "ended" => /\ interrupted' = interrupted \ {e}
                           /\ input' = Outlived(input, e)
                           /\ announced' = announced
  BY DEF IInv, TypeOK, HandleFinished
<1>3. Head(events) = events[1] /\ 1 \in DOMAIN events
  BY <1>2, TailOfEvents
<1>4. /\ Head(events) \in Events
      /\ EventOK(Head(events), active, interrupted, ended)
  BY <1>2, <1>3 DEF IInv, EventsOK
<1>5. visible \in Visible
  BY DEF IInv, TypeOK, VisibleWith, NoInput, Visible
<1>6. e \in Effects \cup {NoEffect} /\ kind \in {"frame", "ended", "interrupted"}
  BY <1>4 DEF Events
<1>7. kind = "interrupted" => e \in interrupted \/ e = NoEffect
  BY <1>4 DEF EventOK
<1> HIDE DEF visible
<1>8. announced' \in Visible
  BY <1>2, <1>5 DEF IInv, TypeOK
<1>9. interrupted \ {e} \subseteq interrupted' /\ interrupted' \subseteq active'
  BY <1>1, <1>2 DEF IInv, TypeOK
<1>10. OneEffectPlays'
  BY <1>1, <1>9 DEF IInv, OneEffectPlays
<1>11. input' = NoInput \/ (kind = "interrupted" /\ input' = Outlived(input, e))
  BY <1>2, <1>6
<1>12. input' \in Inputs \cup {NoInput}
  <2>1. CASE input' = NoInput
    BY <2>1
  <2>2. CASE input' = Outlived(input, e)
    <3>1. "finite" \in Timeouts
      BY DEF Timeouts
    <3>2. input \in Inputs => Outlived(input, e) \in Inputs
      BY <3>1 DEF Outlived, Inputs
    <3>3. "inactive" # e
      BY <1>6, EffectsAssumption
    <3>4. Outlived(NoInput, e) = NoInput
      BY <3>3 DEF Outlived, NoInput
    <3>5. QED
      BY <2>2, <3>2, <3>4 DEF IInv, TypeOK
  <2>3. QED
    BY <1>11, <2>1, <2>2
<1>13. OwnerPlays'
  <2>1. CASE input' = NoInput
    BY <2>1, EffectsAssumption DEF OwnerPlays, NoInput
  <2>2. CASE kind = "interrupted" /\ input' = Outlived(input, e)
    <3>1. input'.owner = input.owner
      BY <2>2 DEF Outlived, IInv, TypeOK, Inputs, NoInput
    <3>2. ASSUME input.owner \in Effects
          PROVE  input.owner \in active \ interrupted /\ input.owner # e
      BY <1>7, <2>2, <3>2, EffectsAssumption DEF IInv, OwnerPlays
    <3>3. interrupted' = interrupted \ {e}
      BY <1>2, <2>2
    <3>4. QED
      BY <1>1, <3>1, <3>2, <3>3 DEF OwnerPlays
  <2>3. QED
    BY <1>11, <2>1, <2>2
<1>14. /\ Tail(events) \in Seq(Events)
       /\ \A i \in DOMAIN Tail(events) :
            /\ i \in Nat /\ i > 0 /\ i + 1 \in DOMAIN events
            /\ Tail(events)[i] = events[i + 1]
  BY <1>2, TailOfEvents
<1>15. /\ events' \in Seq(Events)
       /\ DOMAIN events' = DOMAIN Tail(events)
       /\ \A i \in DOMAIN events' :
            /\ i \in Nat /\ i > 0 /\ i + 1 \in DOMAIN events
            /\ events'[i].kind = events[i + 1].kind
            /\ events'[i].effect = IF events[i + 1].effect = e THEN NoEffect
                                                               ELSE events[i + 1].effect
  <2>1. /\ Orphaned(Tail(events), e) \in Seq(Events)
        /\ DOMAIN Orphaned(Tail(events), e) = DOMAIN Tail(events)
        /\ \A i \in DOMAIN Tail(events) :
             /\ Orphaned(Tail(events), e)[i].kind = Tail(events)[i].kind
             /\ Orphaned(Tail(events), e)[i].effect =
                    IF Tail(events)[i].effect = e THEN NoEffect ELSE Tail(events)[i].effect
    <3> DEFINE queue == Tail(events)
    <3>1. queue \in Seq(Events)
      BY <1>14
    <3> HIDE DEF queue, e
    <3>2. /\ Orphaned(queue, e) \in Seq(Events)
          /\ DOMAIN Orphaned(queue, e) = DOMAIN queue
          /\ \A i \in DOMAIN queue :
               /\ Orphaned(queue, e)[i].kind = queue[i].kind
               /\ Orphaned(queue, e)[i].effect =
                      IF queue[i].effect = e THEN NoEffect ELSE queue[i].effect
      BY <3>1, OrphanedEvents
    <3>3. QED
      BY <3>2 DEF queue
  <2>2. QED
    BY <1>1, <1>14, <2>1
<1>16. ASSUME NEW i \in DOMAIN events'
       PROVE  EventOK(events'[i], active', interrupted', ended')
  <2>1. /\ i \in Nat /\ i > 0 /\ i + 1 \in DOMAIN events
        /\ EventOK(events[i + 1], active, interrupted, ended)
    BY <1>15 DEF IInv, EventsOK
  <2>2. CASE events[i + 1].effect = e
    <3>1. events[i + 1].kind # "frame"
      <4>1. CASE e = NoEffect
        BY <2>1, <2>2, <4>1 DEF EventOK
      <4>2. CASE e # NoEffect
        <5>1. /\ 1 < i + 1
              /\ events[1].effect = events[i + 1].effect
              /\ events[1].effect # NoEffect
              /\ events[1].kind # "frame"
          BY <1>2, <1>3, <2>1, <2>2, <4>2
        <5>2. QED
          BY <1>3, <2>1, <5>1 DEF IInv, EventsOK, NoFrameAfterEnd
      <4>3. QED
        BY <4>1, <4>2
    <3>2. QED
      BY <1>15, <2>2, <3>1 DEF EventOK
  <2>3. CASE events[i + 1].effect # e
    <3>1. events'[i].effect = events[i + 1].effect /\ events'[i].kind = events[i + 1].kind
      BY <1>15, <2>3
    <3>2. QED
      BY <1>1, <1>9, <2>1, <2>3, <3>1 DEF EventOK
  <2>4. QED
    BY <2>2, <2>3
<1>17. NoFrameAfterEnd(events')
  <2>1. ASSUME NEW i \in DOMAIN events', NEW j \in DOMAIN events',
               i < j, events'[i].effect = events'[j].effect, events'[i].effect # NoEffect,
               events'[i].kind # "frame"
        PROVE  events'[j].kind # "frame"
    <3>1. /\ i + 1 \in DOMAIN events /\ j + 1 \in DOMAIN events /\ i + 1 < j + 1
          /\ events[i + 1].effect = events[j + 1].effect
          /\ events[i + 1].effect # NoEffect
          /\ events[i + 1].kind # "frame"
          /\ events'[j].kind = events[j + 1].kind
      BY <1>15, <2>1
    <3>2. QED
      BY <3>1 DEF IInv, EventsOK, NoFrameAfterEnd
  <2>2. QED
    BY <2>1 DEF NoFrameAfterEnd
<1>18. EventsOK'
  BY <1>16, <1>17 DEF EventsOK, NoFrameAfterEnd
<1>19. \A f \in Effects : news[f] \in Seq(Priorities)
  BY DEF IInv, TypeOK
<1>20. Priority(announced') \in Priorities
  BY DEF Priority, Priorities
<1>21. news' \in [Effects -> Seq(Priorities)]
  <2>1. \A f \in Effects : Append(news[f], Priority(announced')) \in Seq(Priorities)
    BY <1>19, <1>20
  <2>2. <<>> \in Seq(Priorities)
    BY EmptySeq
  <2>3. QED
    BY <1>1, <1>19, <2>1, <2>2
<1>22. ASSUME NEW f \in active'
       PROVE  IF news'[f] = <<>> THEN f \in hidden' <=> announced' = "above"
                                 ELSE news'[f][Len(news'[f])] = Priority(announced')
  <2>1. f \in Effects /\ f \in active /\ f # e /\ (f \in hidden' <=> f \in hidden)
    BY <1>1 DEF IInv, TypeOK
  <2>2. CASE announced' = announced
    BY <1>1, <2>1, <2>2 DEF IInv, NewsOK, HiddenIsTrue
  <2>3. CASE announced' # announced
    <3>1. news'[f] = Append(news[f], Priority(announced'))
      BY <1>1, <2>1, <2>3
    <3>2. QED
      BY <1>19, <1>20, <2>1, <3>1
  <2>4. QED
    BY <2>2, <2>3
<1>23. NewsOK'
  <2>1. \A f \in Effects \ active' : news'[f] = <<>>
    BY <1>1 DEF IInv, NewsOK
  <2>2. QED
    BY <1>22, <2>1 DEF NewsOK, HiddenIsTrue
<1>24. TypeOK'
  BY <1>1, <1>8, <1>9, <1>12, <1>15, <1>21 DEF IInv, TypeOK
<1>25. QED
  BY <1>10, <1>13, <1>18, <1>23, <1>24 DEF IInv

-----------------------------------------------------------------------------
(***************************************************************************)
(* The threads of the effects                                              *)
(***************************************************************************)

(* A run of an effect sends an event or nothing, and at most comes to its  *)
(* end.                                                                    *)
LEMMA RunOK ==
    ASSUME IInv, NEW e \in active,
           ticking' \subseteq active, starting' \subseteq active,
           Quits(e) => Quit(e) /\ UNCHANGED ended,
           ~Quits(e) => Play(e),
           UNCHANGED <<muxerVars, active, timed, hidden, interrupted, news>>
    PROVE  IInv'
<1>1. UNCHANGED <<input, announced, moreImportant, active, timed, hidden, interrupted, news>>
  BY DEF muxerVars
<1>2. ended \subseteq ended' /\ ended' \subseteq active
  BY DEF IInv, TypeOK, Play
<1>3. events' \in Seq(Events) /\ EventsOK'
  <2>1. CASE Quits(e)
    <3> DEFINE kind == IF e \in interrupted THEN "interrupted" ELSE "ended"
    <3>1. /\ kind \in {"frame", "ended", "interrupted"}
          /\ kind # "frame"
          /\ kind = "interrupted" => e \in interrupted
          /\ Send(e, kind)
      BY <2>1 DEF Quit
    <3> HIDE DEF kind
    <3>2. QED
      BY <1>1, <1>2, <2>1, <3>1, SendOK DEF IInv
  <2>2. CASE ~Quits(e) /\ UNCHANGED events
    <3>1. EventsOK'
      BY <1>1, <1>2, <2>2, SameEventsOK DEF IInv
    <3>2. QED
      BY <2>2, <3>1 DEF IInv, TypeOK
  <2>3. CASE ~Quits(e) /\ Send(e, "frame")
    BY <1>1, <1>2, <2>3, SendOK DEF IInv
  <2>4. QED
    BY <2>1, <2>2, <2>3 DEF Play
<1>4. TypeOK'
  BY <1>1, <1>2, <1>3 DEF IInv, TypeOK
<1>5. OneEffectPlays' /\ OwnerPlays' /\ NewsOK'
  BY <1>1 DEF IInv, OneEffectPlays, OwnerPlays, NewsOK, HiddenIsTrue
<1>6. QED
  BY <1>3, <1>4, <1>5 DEF IInv

LEMMA StartOK ==
    ASSUME IInv, NEW e \in Effects, Start(e)
    PROVE  IInv'
<1>1. /\ e \in active
      /\ ticking' \subseteq active /\ starting' \subseteq active
      /\ UNCHANGED <<muxerVars, active, timed, hidden, interrupted, news>>
  BY DEF IInv, TypeOK, Start
<1>2. (Quits(e) => Quit(e) /\ UNCHANGED ended) /\ (~Quits(e) => Play(e))
  BY DEF Start
<1>3. QED
  BY <1>1, <1>2, RunOK

LEMMA TickOK ==
    ASSUME IInv, NEW e \in Effects, Tick(e)
    PROVE  IInv'
<1>1. /\ e \in active
      /\ ticking' \subseteq active /\ starting' \subseteq active
      /\ UNCHANGED <<muxerVars, active, timed, hidden, interrupted, news>>
  BY DEF IInv, TypeOK, Tick
<1>2. (Quits(e) => Quit(e) /\ UNCHANGED ended) /\ (~Quits(e) => Play(e))
  BY DEF Tick
<1>3. QED
  BY <1>1, <1>2, RunOK

LEMMA TakeNewsOK ==
    ASSUME IInv, NEW e \in Effects, TakeNews(e)
    PROVE  IInv'
<1> DEFINE s == news[e]
<1>1. /\ s \in Seq(Priorities) /\ s # <<>>
      /\ UNCHANGED <<input, announced, moreImportant, active, timed, starting, interrupted,
                     ended, events>>
      /\ news' = [news EXCEPT ![e] = Tail(s)]
      /\ hidden' = IF Head(s) = "higher" THEN hidden \cup {e} ELSE hidden \ {e}
      /\ ticking' \subseteq ticking \cup {e}
  BY DEF IInv, TypeOK, TakeNews, muxerVars
<1>2. e \in active
  BY <1>1 DEF IInv, NewsOK
<1>3. Len(s) \in Nat /\ Len(s) > 0 /\ Tail(s) \in Seq(Priorities) /\ Len(Tail(s)) = Len(s) - 1
  BY <1>1
<1>4. TypeOK'
  BY <1>1, <1>2, <1>3 DEF IInv, TypeOK
<1>5. OneEffectPlays' /\ OwnerPlays' /\ EventsOK'
  BY <1>1, SameEventsOK DEF IInv, OneEffectPlays, OwnerPlays
<1>6. news \in [Effects -> Seq(Priorities)] /\ news'[e] = Tail(s)
  BY <1>1 DEF IInv, TypeOK
<1>7. s[Len(s)] = Priority(announced)
  BY <1>1, <1>2 DEF IInv, NewsOK, HiddenIsTrue
<1>8. IF news'[e] = <<>> THEN e \in hidden' <=> announced' = "above"
                         ELSE news'[e][Len(news'[e])] = Priority(announced')
  <2>1. CASE Tail(s) = <<>>
    <3>1. Len(Tail(s)) = 0 /\ Head(s) = s[1]
      <4>1. Head(s) = s[1]
        BY <1>1
      <4>2. Len(<<>>) = 0
        OBVIOUS
      <4> HIDE DEF s
      <4>3. QED
        BY <2>1, <4>1, <4>2
    <3>2. Len(s) = 1
      BY <1>3, <3>1
    <3>3. Head(s) = Priority(announced)
      BY <1>7, <3>1, <3>2
    <3>4. e \in hidden' <=> announced' = "above"
      BY <1>1, <3>3 DEF Priority
    <3>5. QED
      BY <1>6, <2>1, <3>4
  <2>2. CASE Tail(s) # <<>>
    <3>1. Tail(s)[Len(Tail(s))] = s[Len(s)]
      BY <1>1, <1>3, <2>2
    <3>2. QED
      BY <1>1, <1>6, <1>7, <2>2, <3>1 DEF Priority
  <2>3. QED
    BY <2>1, <2>2
<1>9. ASSUME NEW f \in active, f # e
      PROVE  IF news'[f] = <<>> THEN f \in hidden' <=> announced' = "above"
                                ELSE news'[f][Len(news'[f])] = Priority(announced')
  <2>1. news'[f] = news[f] /\ (f \in hidden' <=> f \in hidden) /\ announced' = announced
    BY <1>1, <1>6, <1>9 DEF IInv, TypeOK
  <2>2. QED
    BY <2>1 DEF IInv, NewsOK, HiddenIsTrue, Priority
<1>10. \A f \in Effects \ active' : news'[f] = <<>>
  BY <1>1, <1>2, <1>6 DEF IInv, NewsOK
<1>11. HiddenIsTrue'
  BY <1>1, <1>8, <1>9 DEF HiddenIsTrue
<1>12. QED
  BY <1>4, <1>5, <1>10, <1>11 DEF IInv, NewsOK

LEMMA TimePassesOK ==
    ASSUME IInv, NEW e \in Effects, TimePasses(e)
    PROVE  IInv'
<1>1. /\ e \in active
      /\ ended' = ended \cup {e}
      /\ UNCHANGED <<input, announced, moreImportant, active, timed, ticking, starting,
                     hidden, interrupted, news, events>>
  BY DEF IInv, TypeOK, TimePasses, muxerVars, threadVars
<1>2. TypeOK'
  BY <1>1 DEF IInv, TypeOK
<1>3. EventsOK'
  BY <1>1, SameEventsOK DEF IInv
<1>4. OneEffectPlays' /\ OwnerPlays' /\ NewsOK'
  BY <1>1 DEF IInv, OneEffectPlays, OwnerPlays, NewsOK, HiddenIsTrue
<1>5. QED
  BY <1>2, <1>3, <1>4 DEF IInv

-----------------------------------------------------------------------------
(***************************************************************************)
(* No effect is forgotten                                                  *)
(***************************************************************************)

(* The end of effect e was sent, and not handled yet.                      *)
EndUnderWay(e) ==
    \E i \in DOMAIN events : events[i].effect = e /\ events[i].kind # "frame"

(* What can still bring an effect to its end: its queued start, its timer, *)
(* or the event of its end.  Only an effect without a timeout may have     *)
(* none of them, while it rests behind a more important source.            *)
EffectsAreDriven ==
    \A e \in active :
        e \in starting \cup ticking \/ EndUnderWay(e) \/ e \in hidden \ timed

(* An end stays under way when an event is sent.                           *)
LEMMA SendKeepsEnds ==
    ASSUME TypeOK, NEW e \in active, NEW kind \in {"frame", "ended", "interrupted"},
           Send(e, kind)
    PROVE  /\ kind # "frame" => EndUnderWay(e)'
           /\ \A f \in Effects : EndUnderWay(f) => EndUnderWay(f)'
<1> DEFINE ev == [effect |-> e, kind |-> kind]
           n == Len(events)
<1>1. ev \in Events /\ ev.effect = e /\ ev.kind = kind
  BY DEF TypeOK, Events
<1> HIDE DEF ev
<1>2. events \in Seq(Events) /\ n \in Nat /\ DOMAIN events = 1 .. n
  BY DEF TypeOK
<1>3. events' = Append(events, ev)
  BY DEF Send, ev
<1>4. DOMAIN events' = 1 .. (n + 1)
  BY <1>1, <1>2, <1>3
<1>5. events'[n + 1] = ev /\ \A i \in 1 .. n : events'[i] = events[i]
  BY <1>1, <1>2, <1>3
<1>6. n + 1 \in DOMAIN events' /\ DOMAIN events \subseteq DOMAIN events'
  BY <1>2, <1>4
<1>7. QED
  BY <1>1, <1>2, <1>5, <1>6 DEF EndUnderWay

(* A run of an effect keeps every end under way, and sends its own if it   *)
(* quits.                                                                  *)
LEMMA RunKeepsEnds ==
    ASSUME TypeOK, NEW e \in active, Quits(e) => Quit(e), ~Quits(e) => Play(e)
    PROVE  /\ Quits(e) => EndUnderWay(e)'
           /\ \A f \in Effects : EndUnderWay(f) => EndUnderWay(f)'
<1>1. CASE Quits(e)
  <2> DEFINE kind == IF e \in interrupted THEN "interrupted" ELSE "ended"
  <2>1. kind \in {"frame", "ended", "interrupted"} /\ kind # "frame" /\ Send(e, kind)
    BY <1>1 DEF Quit
  <2> HIDE DEF kind
  <2>2. QED
    BY <2>1, SendKeepsEnds
<1>2. CASE ~Quits(e) /\ UNCHANGED events
  BY <1>2 DEF EndUnderWay
<1>3. CASE ~Quits(e) /\ Send(e, "frame")
  BY <1>3, SendKeepsEnds
<1>4. QED
  BY <1>1, <1>2, <1>3 DEF Play

(* Handling an event takes away no end but that of the effect it is about, *)
(* which is deleted.                                                       *)
LEMMA HandlingKeepsEnds ==
    ASSUME TypeOK, HandleFrame \/ HandleFinished
    PROVE  \A f \in active' : EndUnderWay(f) => EndUnderWay(f)'
<1>1. events \in Seq(Events) /\ events # <<>>
  BY DEF TypeOK, HandleFrame, HandleFinished
<1>2. DOMAIN Tail(events) = 1 .. (Len(events) - 1) /\ DOMAIN events = 1 .. Len(events)
      /\ Len(events) \in Nat
  BY <1>1
<1>3. \A i \in DOMAIN events : i # 1 => i - 1 \in DOMAIN Tail(events)
  BY <1>2
<1>4. /\ Tail(events) \in Seq(Events)
      /\ Head(events) = events[1]
      /\ \A i \in DOMAIN Tail(events) : Tail(events)[i] = events[i + 1]
  BY <1>1, TailOfEvents
<1>5. \A i \in DOMAIN events : i # 1 => Tail(events)[i - 1] = events[i]
  <2>1. \A i \in DOMAIN events : (i - 1) + 1 = i
    BY <1>2
  <2>2. QED
    BY <1>3, <1>4, <2>1
<1>6. ASSUME NEW f \in active', NEW i \in DOMAIN events,
             events[i].effect = f, events[i].kind # "frame"
      PROVE  EndUnderWay(f)'
  <2>1. CASE HandleFrame
    <3>1. events' = Tail(events) /\ i # 1
      BY <1>4, <1>6, <2>1 DEF HandleFrame
    <3>2. QED
      BY <1>3, <1>5, <1>6, <3>1 DEF EndUnderWay
  <2>2. CASE HandleFinished
    <3> DEFINE e == events[1].effect
               queue == Tail(events)
    <3>1. events' = Orphaned(queue, e) /\ f # e /\ i # 1
      BY <1>4, <1>6, <2>2 DEF HandleFinished
    <3>2. queue[i - 1].effect = f /\ queue[i - 1].kind # "frame" /\ i - 1 \in DOMAIN queue
      BY <1>3, <1>5, <1>6, <3>1
    <3>3. queue \in Seq(Events)
      BY <1>4
    <3> HIDE DEF e, queue
    <3>4. /\ i - 1 \in DOMAIN events'
          /\ events'[i - 1].effect = f
          /\ events'[i - 1].kind # "frame"
      BY <3>1, <3>2, <3>3, OrphanedEvents
    <3>5. QED
      BY <3>4 DEF EndUnderWay
  <2>3. QED
    BY <2>1, <2>2
<1>7. QED
  BY <1>6 DEF EndUnderWay

(* The threads keep every effect driven.                                   *)
LEMMA EffectStepKeepsDriven ==
    ASSUME TypeOK, NewsOK, EffectsAreDriven, NEW e \in Effects, EffectStep(e)
    PROVE  EffectsAreDriven'
<1>1. CASE Start(e)
  <2>1. /\ e \in active
        /\ starting' = starting \ {e}
        /\ ticking' = ticking \cup {e}
        /\ Quits(e) => Quit(e)
        /\ ~Quits(e) => Play(e)
        /\ UNCHANGED <<active, timed, hidden>>
    BY <1>1 DEF Start, TypeOK
  <2>2. \A f \in Effects : EndUnderWay(f) => EndUnderWay(f)'
    BY <2>1, RunKeepsEnds
  <2>3. QED
    BY <2>1, <2>2 DEF EffectsAreDriven, TypeOK
<1>2. CASE Tick(e)
  <2>1. /\ e \in active
        /\ ticking' = IF Quits(e) THEN ticking \ {e} ELSE ticking
        /\ Quits(e) => Quit(e)
        /\ ~Quits(e) => Play(e)
        /\ UNCHANGED <<active, timed, starting, hidden>>
    BY <1>2 DEF Tick, TypeOK
  <2>2. /\ Quits(e) => EndUnderWay(e)'
        /\ \A f \in Effects : EndUnderWay(f) => EndUnderWay(f)'
    BY <2>1, RunKeepsEnds
  <2>3. QED
    BY <2>1, <2>2 DEF EffectsAreDriven, TypeOK
<1>3. CASE TakeNews(e)
  <2>1. /\ UNCHANGED <<active, timed, starting, events>>
        /\ hidden' = IF Head(news[e]) = "higher" THEN hidden \cup {e} ELSE hidden \ {e}
        /\ ticking' = IF e \in timed THEN ticking
                      ELSE IF Head(news[e]) = "higher" THEN ticking \ {e}
                                                       ELSE ticking \cup {e}
    BY <1>3 DEF TakeNews
  <2>2. ASSUME NEW f \in active
        PROVE  f \in starting' \cup ticking' \/ EndUnderWay(f)' \/ f \in hidden' \ timed'
    <3>1. EndUnderWay(f) => EndUnderWay(f)'
      BY <2>1 DEF EndUnderWay
    <3>2. QED
      BY <2>1, <3>1 DEF EffectsAreDriven
  <2>3. QED
    BY <2>1, <2>2 DEF EffectsAreDriven
<1>4. QED
  BY <1>1, <1>2, <1>3 DEF EffectStep

-----------------------------------------------------------------------------
(***************************************************************************)
(* The theorems                                                            *)
(***************************************************************************)

(* Without effects, and with nothing announced, the invariant holds.       *)
THEOREM Initially == Init => IInv
<1> SUFFICES ASSUME Init PROVE IInv
  OBVIOUS
<1>1. events = <<>> /\ <<>> \in Seq(Events) /\ DOMAIN events = {}
  BY EmptySeq DEF Init
<1>2. news \in [Effects -> Seq(Priorities)]
  <2>1. <<>> \in Seq(Priorities)
    BY EmptySeq
  <2>2. QED
    BY <2>1 DEF Init
<1>3. TypeOK
  BY <1>1, <1>2 DEF Init, TypeOK, Visible
<1>4. OneEffectPlays /\ OwnerPlays
  BY EffectsAssumption DEF Init, OneEffectPlays, OwnerPlays, NoInput
<1>5. EventsOK
  BY <1>1 DEF EventsOK, NoFrameAfterEnd
<1>6. NewsOK
  BY DEF Init, NewsOK, HiddenIsTrue
<1>7. QED
  BY <1>3, <1>4, <1>5, <1>6 DEF IInv

(* No step of a client, the muxer, the instance or a thread breaks it.     *)
THEOREM Inductive == IInv /\ [Next]_vars => IInv'
<1> SUFFICES ASSUME IInv, [Next]_vars PROVE IInv'
  OBVIOUS
<1>1. ASSUME NEW e \in Effects, NEW isTimed \in BOOLEAN, NEW cannotPlay \in BOOLEAN,
             RunEffect(e, isTimed, cannotPlay)
      PROVE  IInv'
  BY <1>1, RunEffectOK
<1>2. ASSUME NEW timeout \in {"endless", "finite"}, SetColor(timeout)
      PROVE  IInv'
  BY <1>2, SetColorOK
<1>3. CASE Clear
  BY <1>3, ClearOK
<1>4. CASE MoreImportantChanges
  BY <1>4, MoreImportantChangesOK
<1>5. CASE AnotherMoreImportant
  BY <1>5, AnotherMoreImportantOK
<1>6. CASE MuxerTick
  BY <1>6, MuxerTickOK
<1>7. CASE HandleFrame
  BY <1>7, HandleFrameOK
<1>8. CASE HandleFinished
  BY <1>8, HandleFinishedOK
<1>9. ASSUME NEW e \in Effects, EffectStep(e) \/ TimePasses(e)
      PROVE  IInv'
  BY <1>9, StartOK, TickOK, TakeNewsOK, TimePassesOK DEF EffectStep
<1>10. CASE UNCHANGED vars
  BY <1>10, SameEventsOK
     DEF IInv, TypeOK, OneEffectPlays, OwnerPlays, NewsOK, HiddenIsTrue, vars, muxerVars,
         threadVars
<1>11. QED
  BY <1>1, <1>2, <1>3, <1>4, <1>5, <1>6, <1>7, <1>8, <1>9, <1>10 DEF Next

(* The inductive invariant holds in every reachable state, for any number  *)
(* of effects and any length of the queues.                                *)
THEOREM Invariance == Spec => []IInv
  BY Initially, Inductive, PTL DEF Spec

(* Type correctness: in particular no timer, flag or deadline belongs to   *)
(* an effect that was deleted.                                             *)
THEOREM TypeCorrect == Spec => []TypeOK
<1>1. IInv => TypeOK
  BY DEF IInv
<1>2. QED
  BY <1>1, Invariance, PTL

(* Starting, clearing and finishing, in any order with the threads, leave  *)
(* at most one effect of the priority that was not told to stop.           *)
THEOREM OnlyOneEffectPlays == Spec => []OneEffectPlays
<1>1. IInv => OneEffectPlays
  BY DEF IInv
<1>2. QED
  BY <1>1, Invariance, PTL

(* The entry of an effect goes before the effect is deleted.               *)
THEOREM NoInputIsOrphaned == Spec => []NoOrphanInput
<1>1. IInv => NoOrphanInput
  BY DEF IInv, OwnerPlays, NoOrphanInput
<1>2. QED
  BY <1>1, Invariance, PTL

(* Every frame is handled while its effect exists.                         *)
THEOREM FramesAreTimely == Spec => []FramesDoNotOutlive
<1>1. IInv => FramesDoNotOutlive
  BY DEF IInv, EventsOK, EventOK, FramesDoNotOutlive
<1>2. QED
  BY <1>1, Invariance, PTL

(* An effect that has heard everything knows whether it is hidden.         *)
THEOREM HiddenIsKnown == Spec => []HiddenIsTrue
<1>1. IInv => HiddenIsTrue
  BY DEF IInv, NewsOK
<1>2. QED
  BY <1>1, Invariance, PTL

(* Told to stop or not, an effect is never forgotten by its thread: while  *)
(* it exists, its start waits, its timer runs or its end is on the way,    *)
(* unless it has no timeout and rests.  This is the safety half of         *)
(* EffectsEnd: a lost timer or a lost end would break it.                  *)
THEOREM NoEffectIsForgotten == Spec => []EffectsAreDriven
<1>1. Init => EffectsAreDriven
  BY DEF Init, EffectsAreDriven
<1>2. IInv /\ EffectsAreDriven /\ [Next]_vars => EffectsAreDriven'
  <2> SUFFICES ASSUME TypeOK, NewsOK, EffectsAreDriven, [Next]_vars
               PROVE  EffectsAreDriven'
    BY DEF IInv
  <2>1. CASE \E e \in Effects, isTimed, cannotPlay \in BOOLEAN :
                RunEffect(e, isTimed, cannotPlay)
    <3>1. PICK e \in Effects, isTimed \in BOOLEAN, cannotPlay \in BOOLEAN :
             RunEffect(e, isTimed, cannotPlay)
      BY <2>1
    <3>2. /\ active' = active \cup {e} /\ starting' = starting \cup {e} /\ e \notin active
          /\ timed' \subseteq timed \cup {e} /\ hidden \subseteq hidden'
          /\ UNCHANGED <<ticking, events>>
      BY <3>1 DEF RunEffect
    <3>3. \A f \in active : EndUnderWay(f) => EndUnderWay(f)'
      BY <3>2 DEF EndUnderWay
    <3>4. QED
      BY <3>2, <3>3 DEF EffectsAreDriven
  <2>2. ASSUME UNCHANGED <<active, timed, ticking, starting, hidden, events>>
        PROVE  EffectsAreDriven'
    BY <2>2 DEF EffectsAreDriven, EndUnderWay
  <2>3. CASE HandleFrame \/ HandleFinished
    <3>1. \A f \in active' : EndUnderWay(f) => EndUnderWay(f)'
      BY <2>3, HandlingKeepsEnds
    <3>2. \E e : /\ active' = active \ e /\ timed' = timed \ e
                 /\ ticking' = ticking \ e /\ starting' = starting \ e
                 /\ hidden' = hidden \ e
      <4>1. CASE HandleFrame
        <5>1. UNCHANGED <<active, timed, ticking, starting, hidden>>
          BY <4>1 DEF HandleFrame, threadVars
        <5>2. QED
          BY <5>1
      <4>2. CASE HandleFinished
        BY <4>2 DEF HandleFinished
      <4>3. QED
        BY <2>3, <4>1, <4>2
    <3>3. QED
      BY <3>1, <3>2 DEF EffectsAreDriven
  <2>4. ASSUME NEW e \in Effects, EffectStep(e)
        PROVE  EffectsAreDriven'
    BY <2>4, EffectStepKeepsDriven
  <2>5. QED
    BY <2>1, <2>2, <2>3, <2>4
       DEF Next, SetColor, Clear, MoreImportantChanges, AnotherMoreImportant, MuxerTick,
           TimePasses, threadVars, vars
<1>3. QED
  BY <1>1, <1>2, Invariance, PTL DEF Spec

=============================================================================
