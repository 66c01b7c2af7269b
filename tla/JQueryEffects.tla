---------------------------- MODULE JQueryEffects ----------------------------
(***************************************************************************)
(* jQuery's animations: the "fx" queue of an element, which runs them one  *)
(* after the other; the timers of the properties that an animation moves;  *)
(* and the interval that steps all timers of the page.                     *)
(*                                                                         *)
(* The only animation is the one of the results page, toggle("slow").      *)
(* It shows a hidden element and hides a shown one, which it finds out     *)
(* when it starts.                                                         *)
(*                                                                         *)
(* Fields of the window:                                                   *)
(*   timers   jQuery.timers                                                *)
(*   opt      opt[e]: the options of the animation that runs on e          *)
(*   timerId  whether the interval is set                                  *)
(*   fxNow    how long ago the cached time was read, or undefined          *)
(* Time is counted in intervals of the timer, and relative to now: a timer *)
(* carries its age, the time since its animation started.                  *)
(***************************************************************************)
EXTENDS JQueryCore

CONSTANTS
  Props,      \* the properties that toggle moves, in the order of genFx
  Duration    \* jQuery.fx.speeds.slow

ASSUME EffectsAssumption == /\ Range(Props) # {}
                            /\ Duration \in Nat \ {0}

FxQueue       == Key("fx", "queue")
FxRun         == Key("fx", ".run")
ToggleData(p) == Key("toggle", p)
FxShowData(p) == Key("fxshow", p)
OldDisplay    == Key("olddisplay", "")

(***************************************************************************)
(* Styles.  A property is "" when the element has no inline style for it;  *)
(* an animation sets it to "moving" and, at its end, to "natural" or       *)
(* "zero".  Without a style sheet, an element without an inline display is *)
(* displayed as a block.                                                   *)
(***************************************************************************)
Style(w, e, name) == w.nodes[e].style[name]

SetStyle(w, e, name, value) == [w EXCEPT !.nodes[e].style[name] = value]

\* curCSS: the browser's computed style; "natural" without an inline one.
CurCSS(w, e, name) ==
  IF Style(w, e, name) # "" THEN Style(w, e, name)
  ELSE IF name = "display" THEN "block" ELSE "natural"

CssDisplay(w, e) == CurCSS(w, e, "display")

\* offsetWidth or offsetHeight, external: a node that is not displayed has none
Offset(w, e, p) == IF CssDisplay(w, e) = "none" THEN "zero" ELSE CurCSS(w, e, p)

\* getWH: what is not there to be measured is what its style says, and "auto"
\* is zero.
GetWH(w, e, p) ==
  IF Offset(w, e, p) # "zero" THEN Offset(w, e, p)
  ELSE IF Style(w, e, p) = "" THEN "zero" ELSE Style(w, e, p)

\* jQuery.swap: what its callback measures; the styles are put back afterwards.
Swap(w, e, display) == SetStyle(w, e, "display", display)

\* cssHooks.height and .width: an element that is not displayed is measured
\* as if it were.
BoxHook(w, e, p) ==
  IF Offset(w, e, "width") # "zero" THEN GetWH(w, e, p)
  ELSE GetWH(Swap(w, e, "block"), e, p)

\* jQuery.css
Css(w, e, p) == IF p \in {"height", "width"} THEN BoxHook(w, e, p) ELSE CurCSS(w, e, p)

\* fx.cur
Cur(w, e, p) == Css(w, e, p)

\* The filter :hidden.
Hidden(w, e) ==
  \/ Offset(w, e, "width") = "zero" /\ Offset(w, e, "height") = "zero"
  \/ ~ w.support.reliableHiddenOffsets /\ CssDisplay(w, e) = "none"

\* .show() without a speed
ShowNow(w, e) ==
  LET old     == Data(w, e, OldDisplay)
      reset   == IF old = undefined /\ Style(w, e, "display") = "none"
                 THEN SetStyle(w, e, "display", "") ELSE w
  IN  IF Style(reset, e, "display") \in {"", "none"}
      THEN SetStyle(reset, e, "display", IF old = undefined THEN "" ELSE old)
      ELSE reset

\* .hide() without a speed
HideNow(w, e) ==
  LET display == CssDisplay(w, e)
      saved   == IF display # "none" /\ Data(w, e, OldDisplay) = undefined
                 THEN SetData(w, e, OldDisplay, display) ELSE w
  IN  SetStyle(saved, e, "display", "none")

(***************************************************************************)
(* Timers.                                                                 *)
(***************************************************************************)

\* fxNow || createFxNow(), which also asks for clearFxNow() to be called.
ReadNow(w) == IF w.fxNow = undefined THEN [w EXCEPT !.fxNow = 0] ELSE w

\* t >= options.duration + this.startTime, t being the cached time
Due(w, timer) == timer.age >= w.fxNow + Duration

\* fx.update: every property of Props is one of style.
Update(w, e, p, now) == SetStyle(w, e, p, now)

\* fx.custom: the first step of the timer, then the timer is pushed and the
\* interval set.  The first step is never the last: no time has passed.
Custom(w, e, p, end) ==
  LET now   == ReadNow(w)
      timer == [elem |-> e, prop |-> p, end |-> end, age |-> now.fxNow]
  IN  [Update(now, e, p, "moving") EXCEPT !.timers  = Append(@, timer),
                                            !.timerId = TRUE]

SetOrig(w, e, p, value) == [w EXCEPT !.opt[e].orig = (p :> value) @@ @]

FxShow(w, e, p) ==
  LET dataShow == Data(w, e, FxShowData(p))
      orig     == SetOrig(w, e, p, IF dataShow # undefined THEN dataShow ELSE Style(w, e, p))
      shows    == [orig EXCEPT !.opt[e].show = TRUE]
  IN  ShowNow(Custom(shows, e, p, IF dataShow # undefined THEN dataShow ELSE Cur(w, e, p)), e)

FxHide(w, e, p) ==
  LET dataShow == Data(w, e, FxShowData(p))
      orig     == SetOrig(w, e, p, IF dataShow # undefined THEN dataShow ELSE Style(w, e, p))
  IN  Custom([orig EXCEPT !.opt[e].hide = TRUE], e, p, "zero")

\* What jQuery.speed makes of "slow" for every animation to copy; complete
\* is the call that dequeues the next animation.
Speed == [complete |-> TRUE, show |-> FALSE, hide |-> FALSE, overflow |-> "",
          orig |-> << >>, animated |-> {}]

\* A step of doAnimation, for one of the properties of toggle, each of which finds in the data
\* which way it goes.
StartProp(w, e, p, hidden) ==
  LET data   == Data(w, e, ToggleData(p))
      method == IF data # undefined THEN data ELSE IF hidden THEN "show" ELSE "hide"
      marked == SetData(w, e, ToggleData(p), IF method = "show" THEN "hide" ELSE "show")
  IN  IF method = "show" THEN FxShow(marked, e, p) ELSE FxHide(marked, e, p)

DoAnimation(w, e) ==
  LET opt   == Extend(Speed, [overflow |-> Style(w, e, "overflow")])
      begun == [w EXCEPT !.opt = (e :> opt) @@ @]
  IN  FoldLeft(LAMBDA v, p : StartProp(v, e, p, Hidden(w, e)),
               SetStyle(begun, e, "overflow", "hidden"), Props)

(***************************************************************************)
(* The queue of an element.                                                *)
(***************************************************************************)
Queue(w, e) == IF Data(w, e, FxQueue) = undefined THEN << >> ELSE Data(w, e, FxQueue)

\* jQuery.dequeue: the sentinel "inprogress" leaves, and comes back with the
\* animation that is started next.
Dequeue(w, e) ==
  LET queue   == Queue(w, e)
      waiting == IF queue # << >> /\ Head(queue) = "inprogress" THEN Tail(queue) ELSE queue
  IN  IF waiting = << >> THEN RemoveData(w, e, {FxQueue, FxRun})
      ELSE DoAnimation(SetData(SetData(w, e, FxQueue, <<"inprogress">> \o Tail(waiting)),
                               e, FxRun, "hooks"), e)

\* Variant: what runs already does not keep the next from being started.
EnqueueAtOnce(w, e) ==
  Dequeue(SetData(w, e, FxQueue, Append(Queue(w, e), "animation")), e)

\* .queue("fx", doAnimation) for one element
Enqueue(w, e) ==
  LET queued == SetData(w, e, FxQueue, Append(Queue(w, e), "animation"))
  IN  IF Head(Queue(queued, e)) # "inprogress" THEN Dequeue(queued, e) ELSE queued

\* .toggle("slow"), by animate()
Toggle(w, set) == FoldLeft(LAMBDA v, e : Enqueue(v, e), w, set)

(***************************************************************************)
(* A step of the timer at index i, as fx.tick takes it: fx.step, and the   *)
(* timer leaves the list when that was its last one.                       *)
(***************************************************************************)
\* Variant: the direction of the next toggle stays in the data.
RestoreKeepingToggle(w, e) ==
  LET opt      == w.opt[e]
      overflow == IF w.support.shrinkWrapBlocks THEN w
                  ELSE SetStyle(w, e, "overflow", opt.overflow)
      hidden   == IF opt.hide THEN HideNow(overflow, e) ELSE overflow
      Back(v, p) == RemoveData(SetStyle(v, e, p, opt.orig[p]), e, {FxShowData(p)})
  IN  IF opt.hide \/ opt.show THEN FoldLeft(Back, hidden, Props) ELSE hidden

Restore(w, e) ==
  LET opt      == w.opt[e]
      overflow == IF w.support.shrinkWrapBlocks THEN w
                  ELSE SetStyle(w, e, "overflow", opt.overflow)
      hidden   == IF opt.hide THEN HideNow(overflow, e) ELSE overflow
      Back(v, p) == RemoveData(SetStyle(v, e, p, opt.orig[p]), e, {FxShowData(p), ToggleData(p)})
  IN  IF opt.hide \/ opt.show THEN FoldLeft(Back, hidden, Props) ELSE hidden

Complete(w, e) ==
  IF w.opt[e].complete THEN Dequeue([w EXCEPT !.opt[e].complete = FALSE], e) ELSE w

LastStep(w, timer) ==
  LET e     == timer.elem
      ended == [Update(w, e, timer.prop, timer.end)
                  EXCEPT !.opt[e].animated = @ \cup {timer.prop}]
  IN  IF ended.opt[e].animated = Range(Props) THEN Complete(Restore(ended, e), e) ELSE ended

StepTimer(w, i) ==
  LET now   == ReadNow(w)
      timer == w.timers[i]
  IN  IF Due(now, timer)
      THEN [LastStep(now, timer) EXCEPT !.timers = RemoveAt(@, i)]
      ELSE Update(now, timer.elem, timer.prop, "moving")

\* Variant: the interval ends with every tick.
StopAtOnce(w) == [w EXCEPT !.timerId = FALSE]

\* fx.stop, once no timer is left
StopInterval(w) == [w EXCEPT !.timerId = w.timers # << >>]

ClearFxNow(w) == [w EXCEPT !.fxNow = undefined]

\* Time passes.
Later(w) ==
  [w EXCEPT !.timers = [i \in DOMAIN @ |-> [@[i] EXCEPT !.age = @ + 1]],
            !.fxNow  = IF @ = undefined THEN undefined ELSE @ + 1]
===============================================================================
