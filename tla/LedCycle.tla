----------------------------- MODULE LedCycle ------------------------------
(***************************************************************************)
(* The LED half of the cap's main loop (main.c) on top of led-graphics.c,  *)
(* led-scroll.c and led-tree.c: tree, red dots, "Go Trees!", wipe,         *)
(* "CS240LX", wipe, tree.  Nothing runs concurrently: one action LedTick   *)
(* is the part of one iteration that works on the LEDs, Poll the rest of   *)
(* it (the touch panel and delay_ms), which takes some ticks of the        *)
(* wrapping microsecond timer or, when the I2C bus hangs, never ends.      *)
(*                                                                         *)
(* `strip' is what the LEDs show, as a description of the frame rather     *)
(* than 64 colours.  A time stamp is part of the state only while the code *)
(* still reads it: fields of a record that exists in that phase.           *)
(***************************************************************************)
EXTENDS LedMatrix, FiniteSets

CONSTANTS
    Wrap,           \* the timer's range: 2^32 microseconds, in ticks
    MaxLoop,        \* bound: ticks that the rest of an iteration takes
    TreeTicks,      \* tree_show_ms
    ScrollTicks,    \* scroll_step_ms
    SweepTicks,     \* red_dot_sweep_step_ms
    BlinkTicks,     \* LED_SCROLL_BLINK_MS
    CharCols,       \* LED_SCROLL_COLS_PER_CHAR
    GoLen, CsLen,   \* the lengths of the two messages
    BlinkChar       \* go_trees_blink_char

ASSUME TimesAssumption ==
    /\ {MaxLoop, TreeTicks, ScrollTicks, SweepTicks, BlinkTicks} \subseteq Nat \ {0}
    /\ Wrap \in Nat
    /\ \A t \in {TreeTicks, ScrollTicks, SweepTicks, BlinkTicks} : t + MaxLoop < Wrap
    /\ {CharCols, GoLen, CsLen} \subseteq Nat \ {0} /\ BlinkChar \in Nat

VARIABLES
    pc,         \* "leds", "poll", "hung" in the I2C driver, "panic"
    now,        \* timer_get_usec()
    phase,      \* cycle_phase, with phase_start_usec in the tree's
    trans,      \* gfx.trans, its step, and the pending_phase behind it
    mode,       \* gfx.mode
    scroll,     \* gfx.scroll and scroll_last_usec
    strip,      \* the frame that the LEDs show
    dwell,      \* history: ticks that the frame's text or tree has been up
    seen        \* history: columns at which this pass has shown its text

vars == <<pc, now, phase, trans, mode, scroll, strip, dwell, seen>>

Messages == {"go", "cs"}
Length(msg) == IF msg = "go" THEN GoLen ELSE CsLen

(* The columns until the message has left at the left edge. *)
EndCol(msg) == Length(msg) * CharCols

Since(last) == (now - last) % Wrap

(* Whether `ticks' have passed since a stamp: the subtraction of unsigned  *)
(* numbers is right across the wrap.                                       *)
Due_NoWrap(last, ticks) == now >= (last + ticks) % Wrap
Due(last, ticks) == Since(last) >= ticks

----------------------------------------------------------------------------
(* Frames.  `upto' is the last column that is not masked.                  *)

TreeFrame(upto) == [kind |-> "tree", upto |-> upto]
DotsFrame(front) == [kind |-> "dots", front |-> front]
TextFrame(s, upto) == [kind |-> "text", msg |-> s.msg, col |-> s.col, on |-> s.on, upto |-> upto]

Full == Width - 1

(* The colours in a frame: led_scroll_render, the tree and its sparkle at  *)
(* every phase of its cycle, the dots.                                     *)
TextColors(msg) == IF msg = "go" THEN {Red, ForestGreen} ELSE {Blue}
Leaves == {c \in Columns \X Rows : c[1] \in LeafColumns(c[2])}
TreeColors == {LeafGreen, Trunk} \cup
              UNION {{SparkleColor(p, c[1], c[2]) : c \in Leaves} : p \in 0 .. 255}
DotColors == {DotColor(f, x, y) : f \in 0 .. SweepSteps - 1, x \in Columns, y \in Rows}

(* Whether led_matrix_set_pixel and led_matrix_show accept the colours. *)
TreeFits == \A c \in TreeColors : Allowed(c)
DotsFit == \A c \in DotColors : Allowed(c)
Fits(frame) == CASE frame.kind = "tree" -> TreeFits
                 [] frame.kind = "dots" -> DotsFit
                 [] OTHER -> \A c \in TextColors(frame.msg) : Allowed(c)

(* led_matrix_show. *)
Put(frame) == /\ strip' = frame
              /\ pc' = IF Fits(frame) THEN "poll" ELSE "panic"

(* led_scroll_blink_tick: only of a message with a character that blinks. *)
Blinked(s) ==
    IF s.msg = "go" /\ BlinkChar < GoLen /\ Due(s.blink, BlinkTicks)
    THEN [s EXCEPT !.on = ~@, !.blink = now] ELSE s

(* gfx_render, masked beyond `upto', and led_matrix_show. *)
Render(m, s, upto) ==
    /\ mode' = m
    /\ scroll' = IF m = "text" THEN Blinked(s) ELSE s
    /\ Put(IF m = "text" THEN TextFrame(Blinked(s), upto) ELSE TreeFrame(upto))

(* led_gfx_set_scroll_text_...: a message at its start. *)
NoText == [msg |-> "none"]
StartText(msg) ==
    [msg |-> msg, col |-> 0, last |-> now, on |-> TRUE, blink |-> IF msg = "go" THEN now ELSE 0]

NoTrans == [kind |-> "none"]
Tree == [name |-> "tree", start |-> now]
Phase(name) == [name |-> name]
Transition == Phase("transition")

(* led_gfx_start_wipe and matrix_begin_wipe: the first column at once. *)
StartWipe_None(pending) == NoTrans
StartWipe(pending) == [kind |-> "wipe", step |-> 0, pending |-> pending]

BeginWipe(m, s, pending) ==
    /\ trans' = StartWipe(pending) /\ phase' = Transition
    /\ Render(m, s, 0)

(* led_gfx_start_red_dot_sweep. *)
BeginSweep(pending) ==
    /\ trans' = [kind |-> "sweep", step |-> 0, last |-> now, pending |-> pending]
    /\ phase' = Transition
    /\ Put(DotsFrame(0))

----------------------------------------------------------------------------
(* One iteration's LED part, by the phase it is in. *)

(* What is up stays up, or something new has come up. *)
Stays == dwell' = dwell
Restarts == dwell' = 0
NothingShown == pc' = "poll" /\ UNCHANGED strip

(* The transition is over: the pending phase begins. *)
Arrive(s) ==
    /\ trans' = NoTrans
    /\ phase' = IF trans.pending = "tree" THEN Tree ELSE Phase(trans.pending)
    /\ Render(mode, s, Full)
    /\ Restarts /\ seen' = IF mode = "text" THEN 1 ELSE 0

(* gfx_tick_wipe: one more column in every iteration. *)
TickWipe ==
    /\ trans.kind = "wipe"
    /\ \/ trans.step + 1 >= Width /\ Arrive(scroll)
       \/ /\ trans.step + 1 < Width
          /\ trans' = [trans EXCEPT !.step = @ + 1]
          /\ Render(mode, scroll, trans.step + 1)
          /\ Stays /\ UNCHANGED <<phase, seen>>

(* gfx_tick_red_dot_sweep: one column every SweepTicks; at its end the     *)
(* scrolling's clock starts anew.                                          *)
TickSweep ==
    /\ trans.kind = "sweep" /\ Due(trans.last, SweepTicks)
    /\ \/ trans.step + 1 >= SweepSteps /\ Arrive([scroll EXCEPT !.last = now])
       \/ /\ trans.step + 1 < SweepSteps
          /\ trans' = [trans EXCEPT !.step = @ + 1, !.last = now]
          /\ Put(DotsFrame(trans.step + 1))
          /\ Stays /\ UNCHANGED <<phase, seen, mode, scroll>>

(* The next column is not due yet; a transition of no known kind never is. *)
TransitionWaits ==
    /\ trans.kind = "sweep" => ~ Due(trans.last, SweepTicks)
    /\ trans.kind # "wipe"
    /\ NothingShown /\ Stays /\ UNCHANGED <<phase, trans, mode, scroll, seen>>

(* phase_tree: a sparkling frame, and after TreeTicks the sweep towards    *)
(* "Go Trees!", whose text is set up before the dots are shown.            *)
TickTree ==
    /\ UNCHANGED seen
    /\ IF Due(phase.start, TreeTicks)
       THEN mode' = "text" /\ scroll' = StartText("go") /\ BeginSweep("go_trees") /\ Restarts
       ELSE Put(TreeFrame(Full)) /\ Stays /\ UNCHANGED <<phase, trans, mode, scroll>>

(* led_scroll_step. *)
NextCol_Skips(col) == col + 2
NextCol(col) == col + 1
Over_Late(s) == NextCol(s.col) > EndCol(s.msg)
Over(s) == NextCol(s.col) >= EndCol(s.msg)

(* led_gfx_tick_scroll_anim and led_gfx_tick_scroll_pass: the blinking     *)
(* first, then, when it is due, the next column or the end of the pass.    *)
TextStays_StaleOn(s) ==
    /\ ~ Due(s.last, ScrollTicks)
    /\ scroll' = s /\ NothingShown
    /\ Stays /\ UNCHANGED <<phase, trans, mode, seen>>
TextStays(s) ==
    /\ ~ Due(s.last, ScrollTicks)
    /\ scroll' = s
    /\ IF s.on # scroll.on THEN Put(TextFrame(s, Full)) ELSE NothingShown
    /\ Stays /\ UNCHANGED <<phase, trans, mode, seen>>
TextMoves(s) ==
    /\ Due(s.last, ScrollTicks) /\ ~ Over(s)
    /\ Render("text", [s EXCEPT !.last = now, !.col = NextCol(@)], Full)
    /\ Restarts /\ seen' = seen + 1 /\ UNCHANGED <<phase, trans>>
TextEnds(s) == Due(s.last, ScrollTicks) /\ Over(s)

TickGoTrees ==
    LET s == Blinked(scroll)
    IN  \/ TextStays(s)
        \/ TextMoves(s)
        \/ /\ TextEnds(s) /\ BeginWipe("text", StartText("cs"), "cs240lx")
           /\ Restarts /\ UNCHANGED seen

TickCs240lx ==
    \/ TextStays(scroll)
    \/ TextMoves(scroll)
    \/ /\ TextEnds(scroll) /\ BeginWipe("tree", NoText, "tree")
       /\ Restarts /\ UNCHANGED seen

LedTick ==
    /\ pc = "leds" /\ UNCHANGED now
    /\ CASE phase.name = "transition" -> TickWipe \/ TickSweep \/ TransitionWaits
         [] phase.name = "tree" -> TickTree
         [] phase.name = "go_trees" -> TickGoTrees
         [] OTHER -> TickCs240lx

(* The rest of the iteration: the touch panel and delay_ms. *)
Capped(n) == IF n > TreeTicks + ScrollTicks THEN TreeTicks + ScrollTicks ELSE n
Poll ==
    /\ pc = "poll" /\ pc' = "leds"
    /\ \E ticks \in 1 .. MaxLoop :
          /\ now' = (now + ticks) % Wrap
          /\ dwell' = IF phase.name = "transition" THEN 0 ELSE Capped(dwell + ticks)
    /\ UNCHANGED <<phase, trans, mode, scroll, strip, seen>>

(* The touch panel's I2C transfer never ends. *)
Hang == /\ pc = "poll" /\ pc' = "hung"
        /\ UNCHANGED <<now, phase, trans, mode, scroll, strip, dwell, seen>>

(* notmain up to the loop: the tree is shown, its time starts now. *)
Init ==
    /\ now \in 0 .. Wrap - 1
    /\ pc = "leds" /\ phase = Tree /\ trans = NoTrans
    /\ mode = "tree" /\ scroll = NoText /\ strip = TreeFrame(Full)
    /\ dwell = 0 /\ seen = 0

Stopped == pc \in {"hung", "panic"} /\ UNCHANGED vars

Next == LedTick \/ Poll \/ Hang \/ Stopped

(* The loop runs on: an iteration's part is taken unless it hangs. *)
Spec == Init /\ [][Next]_vars /\ WF_vars(LedTick) /\ WF_vars(Poll)

----------------------------------------------------------------------------
Stamps == 0 .. Wrap - 1

(* What the variables hold; the step and the column stay inside the matrix *)
(* and the message that they index.                                        *)
TypeOK ==
    /\ pc \in {"leds", "poll", "hung"} /\ now \in Stamps
    /\ phase \in [name : {"tree"}, start : Stamps] \cup
                 [name : {"transition", "go_trees", "cs240lx"}]
    /\ \/ trans = NoTrans /\ phase.name # "transition"
       \/ trans \in [kind : {"wipe"}, step : 0 .. Width - 1, pending : {"cs240lx", "tree"}]
       \/ trans \in [kind : {"sweep"}, step : 0 .. SweepSteps - 1, last : Stamps, pending : {"go_trees"}]
    /\ \/ mode = "tree" /\ scroll = NoText
       \/ /\ mode = "text"
          /\ scroll \in [msg : Messages, col : Nat, last : Stamps, on : BOOLEAN, blink : Stamps]
          /\ scroll.col < EndCol(scroll.msg)

(* The LEDs show what the state says: the phase's tree or text at the      *)
(* current column with the current blinking, all of it outside transitions *)
(* and in them as far as the wipe has come, or the dots at the sweep's     *)
(* front.  Several functions change that state, and each must render it.   *)
StripShowsState ==
    /\ phase.name = "tree" => strip = TreeFrame(Full)
    /\ phase.name \in {"go_trees", "cs240lx"} => strip = TextFrame(scroll, Full)
    /\ phase.name = "transition" /\ trans.kind = "sweep" => strip = DotsFrame(trans.step)
    /\ phase.name = "transition" /\ trans.kind = "wipe" =>
           strip = IF mode = "text" THEN TextFrame(scroll, trans.step) ELSE TreeFrame(trans.step)

(* No animation computes a colour that is brighter than the port's current *)
(* allows, on which led_matrix_set_pixel panics.                           *)
NeverPanics == pc # "panic"

(* What has come up stays for its time, in ticks that really passed, also  *)
(* when the timer wraps meanwhile: the tree TreeTicks, each column of a    *)
(* text ScrollTicks.  "CS240LX" leaves its first column earlier, since     *)
(* only the red dots, and not the wipe, restart the scrolling's clock.     *)
StaysItsTime ==
    [][/\ phase.name = "tree" /\ phase'.name # "tree" => dwell >= TreeTicks
       /\ phase.name \in {"go_trees", "cs240lx"} /\ scroll' # scroll
          /\ (phase.name = "cs240lx" => scroll.col > 0)
          => (scroll'.msg = scroll.msg /\ scroll'.col = scroll.col) \/ dwell >= ScrollTicks]_vars

(* A pass shows its text at every column before the next phase begins. *)
PassIsComplete ==
    [][phase.name \in {"go_trees", "cs240lx"} /\ phase'.name = "transition"
       => seen = EndCol(scroll.msg)]_vars

(* Unless the bus hangs, every phase comes round again and again. *)
CycleGoesOn ==
    <>[](pc = "hung") \/ \A name \in {"tree", "go_trees", "cs240lx"} : []<>(phase.name = name)

=============================================================================
