----------------------------- MODULE LedProofs -----------------------------
(***************************************************************************)
(* For all times, all lengths of the messages and wherever the timer       *)
(* stands: no animation computes a colour that panics the cap, no index    *)
(* leaves the matrix or the message, the LEDs show what the state says,    *)
(* each frame stays for its time and each pass shows all its columns.      *)
(***************************************************************************)
EXTENDS LedCycle, TLAPS

----------------------------------------------------------------------------
(* The colours. *)

Level == 0 .. MaxBright

(* A component between two others, as led-tree.c blends them: the product  *)
(* may be negative, and C's division rounds it towards zero.               *)
LEMMA BlendStaysBetween ==
    ASSUME NEW f \in Level, NEW s \in Level, NEW b \in 0 .. 255
    PROVE  Byte(f + Div256((s - f) * b)) \in Level
<1> DEFINE d == s - f
           p == d * b
<1>1. d \in Int /\ f + d = s
    BY DEF Level, MaxBright
<1>2. CASE d >= 0
    <2>1. p \in Nat /\ p <= 256 * d
        BY <1>1, <1>2, SMT
    <2> HIDE DEF p, d
    <2>2. p \div 256 \in 0 .. d
        BY <1>1, <1>2, <2>1, SMT
    <2>3. Div256(p) = p \div 256
        BY <2>1 DEF Div256
    <2>4. f + Div256(p) \in Level
        BY <1>1, <2>2, <2>3 DEF Level, MaxBright
    <2>5. Byte(f + Div256(p)) = f + Div256(p)
        BY <2>4, SMT DEF Byte, Level, MaxBright
    <2> QED BY <2>4, <2>5 DEF p, d
<1>3. CASE d < 0
    <2>1. p \in Int /\ p <= 0 /\ - p <= 256 * (- d)
        BY <1>1, <1>3, SMT
    <2> HIDE DEF p, d
    <2>2. (- p) \div 256 \in 0 .. - d
        BY <1>1, <1>3, <2>1, SMT
    <2>3. Div256(p) \in d .. 0
        BY <1>1, <2>1, <2>2, SMT DEF Div256
    <2>4. f + Div256(p) \in Level
        BY <1>1, <2>3 DEF Level, MaxBright
    <2>5. Byte(f + Div256(p)) = f + Div256(p)
        BY <2>4, SMT DEF Byte, Level, MaxBright
    <2> QED BY <2>4, <2>5 DEF p, d
<1> QED BY <1>1, <1>2, <1>3

LEMMA PaletteLevels ==
    \A i \in 1 .. NPalette, j \in 1 .. 3 : Palette[i][j] \in Level
    BY DEF Palette, NPalette, LeafGreen, Level, MaxBright

(* Every hue of the sparkling tree is within what the port allows. *)
LEMMA HueAllowed ==
    ASSUME NEW hue \in 0 .. 255
    PROVE  Allowed(HueColor(hue))
<1> DEFINE k == (hue * NPalette) \div 256
           first == Palette[1 + k]
           second == Palette[1 + ((k + 1) % NPalette)]
<1>1. k \in 0 .. 5
    BY SMT DEF NPalette
<1>2. 1 + k \in 1 .. NPalette /\ 1 + ((k + 1) % NPalette) \in 1 .. NPalette
    BY <1>1, SMT DEF NPalette
<1>3. Blend(hue) \in 0 .. 255
    BY SMT DEF Blend, NPalette
<1>4. HueColor(hue) = [i \in 1 .. 3 |-> Byte(first[i] + Div256((second[i] - first[i]) * Blend(hue)))]
    BY DEF HueColor
<1>5. ASSUME NEW i \in 1 .. 3 PROVE HueColor(hue)[i] <= MaxBright
    <2>1. first[i] \in Level /\ second[i] \in Level
        BY <1>2, PaletteLevels
    <2>2. Byte(first[i] + Div256((second[i] - first[i]) * Blend(hue))) \in Level
        BY <1>3, <2>1, BlendStaysBetween
    <2> HIDE DEF first, second
    <2> QED BY <1>4, <2>2 DEF Level, MaxBright
<1> QED BY <1>5 DEF Allowed

LEMMA SparkleAllowed ==
    ASSUME NEW p \in 0 .. 255, NEW x \in Columns, NEW y \in Rows
    PROVE  Allowed(SparkleColor(p, x, y))
<1>1. (p + ((x * 17 + y * 31) % 64)) % 256 \in 0 .. 255
    BY SMT DEF Columns, Rows, Width, Height
<1> QED BY <1>1, HueAllowed DEF SparkleColor

LEMMA DotAllowed ==
    ASSUME NEW f \in 0 .. SweepSteps - 1, NEW x \in Columns, NEW y \in Rows
    PROVE  Allowed(DotColor(f, x, y))
<1>1. DotLevel(f, x) <= MaxBright
    BY SMT DEF DotLevel, SweepSteps, Width, Gradient, Columns, MaxBright
<1> QED BY <1>1 DEF DotColor, Allowed, Black, MaxBright

(* led_matrix_show never panics, whatever the animation shows. *)
LEMMA EveryFrameFits == ASSUME NEW frame PROVE Fits(frame)
<1>1. TreeFits
    <2>1. Allowed(LeafGreen) /\ Allowed(Trunk)
        BY DEF Allowed, LeafGreen, Trunk, MaxBright
    <2>2. ASSUME NEW p \in 0 .. 255, NEW c \in Leaves
          PROVE  Allowed(SparkleColor(p, c[1], c[2]))
        BY SparkleAllowed DEF Leaves
    <2> QED BY <2>1, <2>2 DEF TreeFits, TreeColors
<1>2. DotsFit
    BY DotAllowed DEF DotsFit, DotColors
<1>3. \A msg : \A c \in TextColors(msg) : Allowed(c)
    BY DEF TextColors, Red, ForestGreen, Blue, Allowed, MaxBright
<1> QED BY <1>1, <1>2, <1>3 DEF Fits

----------------------------------------------------------------------------
(* The invariant: which text or tree is set up in which phase. *)

Scrolls == [msg : Messages, col : Nat, last : Stamps, on : BOOLEAN, blink : Stamps]
ShowsText(msg) == mode = "text" /\ scroll \in Scrolls /\ scroll.msg = msg /\ scroll.col < EndCol(msg)
ShowsTree == mode = "tree" /\ scroll = NoText

(* What the pending phase will find. *)
SetUpFor(pending) ==
    CASE pending = "tree" -> ShowsTree
      [] pending = "go_trees" -> ShowsText("go")
      [] OTHER -> ShowsText("cs")

InTree == phase \in [name : {"tree"}, start : Stamps] /\ trans = NoTrans /\ ShowsTree
InGoTrees == phase = Phase("go_trees") /\ trans = NoTrans /\ ShowsText("go")
InCs240lx == phase = Phase("cs240lx") /\ trans = NoTrans /\ ShowsText("cs")
InWipe ==
    /\ phase = Transition
    /\ trans \in [kind : {"wipe"}, step : 0 .. Width - 1, pending : {"cs240lx", "tree"}]
    /\ SetUpFor(trans.pending)
InSweep ==
    /\ phase = Transition
    /\ trans \in [kind : {"sweep"}, step : 0 .. SweepSteps - 1, last : Stamps, pending : {"go_trees"}]
    /\ ShowsText("go")

PhaseInv == InTree \/ InGoTrees \/ InCs240lx \/ InWipe \/ InSweep

IInv ==
    /\ pc \in {"leds", "poll", "hung"} /\ now \in Stamps
    /\ PhaseInv
    /\ StripShowsState

LEMMA Numbers ==
    /\ Wrap \in Nat /\ 0 \in Stamps
    /\ \A t \in Int : (t % Wrap) \in Stamps
    /\ \A msg \in Messages : EndCol(msg) \in Nat /\ EndCol(msg) > 0
<1>1. /\ MaxLoop \in Nat /\ MaxLoop > 0 /\ TreeTicks \in Nat /\ TreeTicks > 0
      /\ CharCols \in Nat /\ CharCols > 0 /\ GoLen \in Nat /\ GoLen > 0
      /\ CsLen \in Nat /\ CsLen > 0 /\ Wrap \in Nat /\ TreeTicks + MaxLoop < Wrap
    BY TimesAssumption
<1>2. 0 \in Stamps
    BY <1>1 DEF Stamps
<1>3. ASSUME NEW t \in Int PROVE (t % Wrap) \in Stamps
    BY <1>1, SMT DEF Stamps
<1>4. ASSUME NEW msg \in Messages PROVE EndCol(msg) \in Nat /\ EndCol(msg) > 0
    <2>1. Length(msg) \in Nat /\ Length(msg) > 0
        BY <1>1 DEF Length
    <2> QED BY <1>1, <2>1, SMT DEF EndCol
<1> QED BY <1>1, <1>2, <1>3, <1>4

(* Blinking changes nothing but whether the character is lit. *)
LEMMA BlinkedFacts ==
    ASSUME now \in Stamps, NEW s \in Scrolls
    PROVE  /\ Blinked(s) \in Scrolls
           /\ Blinked(s).msg = s.msg /\ Blinked(s).col = s.col /\ Blinked(s).last = s.last
    BY DEF Blinked, Scrolls

(* A message at its start. *)
LEMMA StartTextFacts ==
    ASSUME now \in Stamps, NEW msg \in Messages
    PROVE  /\ StartText(msg) \in Scrolls
           /\ StartText(msg).msg = msg /\ StartText(msg).col < EndCol(msg)
    BY Numbers DEF StartText, Scrolls

(* Showing a frame: no panic. *)
LEMMA PutFacts ==
    ASSUME NEW frame, Put(frame)
    PROVE  strip' = frame /\ pc' = "poll"
    BY EveryFrameFits DEF Put

LEMMA RenderText ==
    ASSUME now \in Stamps, NEW s \in Scrolls, NEW upto, Render("text", s, upto),
           s.col < EndCol(s.msg)
    PROVE  /\ pc' = "poll" /\ mode' = "text"
           /\ scroll' \in Scrolls /\ scroll'.msg = s.msg /\ scroll'.col < EndCol(s.msg)
           /\ strip' = TextFrame(scroll', upto)
<1>1. scroll' = Blinked(s) /\ mode' = "text" /\ Put(TextFrame(Blinked(s), upto))
    BY DEF Render
<1> QED BY <1>1, BlinkedFacts, PutFacts

LEMMA RenderTree ==
    ASSUME NEW s, NEW upto, Render("tree", s, upto)
    PROVE  pc' = "poll" /\ mode' = "tree" /\ scroll' = s /\ strip' = TreeFrame(upto)
<1>1. scroll' = s /\ mode' = "tree" /\ Put(TreeFrame(upto))
    BY DEF Render
<1> QED BY <1>1, PutFacts

----------------------------------------------------------------------------
(* How a phase is entered. *)

LEMMA EnterWipe ==
    ASSUME now \in Stamps, now' \in Stamps,
           \/ BeginWipe("text", StartText("cs"), "cs240lx")
           \/ BeginWipe("tree", NoText, "tree")
    PROVE  IInv'
<1>1. /\ phase' = Transition
      /\ trans' \in [kind : {"wipe"}, step : 0 .. Width - 1, pending : {"cs240lx", "tree"}]
      /\ trans'.step = 0
    BY DEF BeginWipe, StartWipe, Width
<1>2. CASE BeginWipe("text", StartText("cs"), "cs240lx")
    <2>1. /\ StartText("cs") \in Scrolls /\ StartText("cs").msg = "cs"
          /\ StartText("cs").col < EndCol("cs")
        BY StartTextFacts DEF Messages
    <2>2. /\ pc' = "poll" /\ mode' = "text"
          /\ scroll' \in Scrolls /\ scroll'.msg = "cs" /\ scroll'.col < EndCol("cs")
          /\ strip' = TextFrame(scroll', 0)
        BY <1>2, <2>1, RenderText DEF BeginWipe
    <2>3. trans'.pending = "cs240lx" /\ trans'.kind = "wipe"
        BY <1>2 DEF BeginWipe, StartWipe
    <2>4. InWipe'
        BY <1>1, <2>2, <2>3 DEF InWipe, SetUpFor, ShowsText
    <2>5. StripShowsState'
        BY <1>1, <2>2, <2>3 DEF StripShowsState, Transition, Phase
    <2> QED BY <2>2, <2>4, <2>5 DEF IInv, PhaseInv
<1>3. CASE BeginWipe("tree", NoText, "tree")
    <2>1. /\ pc' = "poll" /\ mode' = "tree" /\ scroll' = NoText /\ strip' = TreeFrame(0)
        BY <1>3, RenderTree DEF BeginWipe
    <2>2. trans'.pending = "tree" /\ trans'.kind = "wipe"
        BY <1>3 DEF BeginWipe, StartWipe
    <2>3. InWipe'
        BY <1>1, <2>1, <2>2 DEF InWipe, SetUpFor, ShowsTree
    <2>4. StripShowsState'
        BY <1>1, <2>1, <2>2 DEF StripShowsState, Transition, Phase
    <2> QED BY <2>1, <2>3, <2>4 DEF IInv, PhaseInv
<1> QED BY <1>2, <1>3

(* The end of a transition whose pending phase has been set up. *)
LEMMA ArriveInv ==
    ASSUME now \in Stamps, now' \in Stamps, NEW s,
           trans.pending \in {"tree", "go_trees", "cs240lx"},
           trans.pending = "tree" => mode = "tree" /\ s = NoText,
           trans.pending # "tree" =>
               /\ mode = "text" /\ s \in Scrolls /\ s.col < EndCol(s.msg)
               /\ s.msg = IF trans.pending = "go_trees" THEN "go" ELSE "cs",
           Arrive(s)
    PROVE  IInv'
<1>1. trans' = NoTrans /\ Render(mode, s, Full)
    BY DEF Arrive
<1>2. CASE trans.pending = "tree"
    <2>1. pc' = "poll" /\ mode' = "tree" /\ scroll' = NoText /\ strip' = TreeFrame(Full)
        BY <1>1, <1>2, RenderTree
    <2>2. phase' = [name |-> "tree", start |-> now]
        BY <1>2 DEF Arrive, Tree
    <2>3. InTree'
        BY <1>1, <2>1, <2>2 DEF InTree, ShowsTree
    <2> QED BY <2>1, <2>2, <2>3 DEF IInv, PhaseInv, StripShowsState
<1>3. CASE trans.pending # "tree"
    <2>1. /\ pc' = "poll" /\ mode' = "text"
          /\ scroll' \in Scrolls /\ scroll'.msg = s.msg /\ scroll'.col < EndCol(s.msg)
          /\ strip' = TextFrame(scroll', Full)
        BY <1>1, <1>3, RenderText
    <2>2. phase' = Phase(trans.pending)
        BY <1>3 DEF Arrive
    <2>3. InGoTrees' \/ InCs240lx'
        BY <1>1, <1>3, <2>1, <2>2 DEF InGoTrees, InCs240lx, ShowsText
    <2>4. StripShowsState'
        BY <1>3, <2>1, <2>2 DEF StripShowsState, Phase
    <2> QED BY <2>1, <2>3, <2>4 DEF IInv, PhaseInv
<1> QED BY <1>2, <1>3

----------------------------------------------------------------------------
(* Each kind of iteration keeps the invariant. *)

(* A scrolling text, whose last column leads into a wipe. *)
LEMMA TextTickInv ==
    ASSUME IInv, now' = now, NEW s \in Scrolls, NEW msg \in Messages,
           phase = Phase(IF msg = "go" THEN "go_trees" ELSE "cs240lx"),
           trans = NoTrans, mode = "text", scroll \in Scrolls,
           scroll.msg = msg, scroll.col < EndCol(msg),
           s.msg = msg, s.col = scroll.col,
           TextStays(s) \/ TextMoves(s)
    PROVE  IInv'
<1>1. now \in Stamps /\ now' \in Stamps
    BY DEF IInv
<1>2. strip = TextFrame(scroll, Full)
    BY DEF IInv, StripShowsState, Phase
<1>3. CASE TextStays(s)
    <2>1. UNCHANGED <<phase, trans, mode>> /\ scroll' = s
        BY <1>3 DEF TextStays
    <2>2. pc' = "poll" /\ strip' = TextFrame(s, Full)
        BY <1>2, <1>3, PutFacts DEF TextStays, NothingShown, TextFrame
    <2>3. InGoTrees' \/ InCs240lx'
        BY <2>1 DEF InGoTrees, InCs240lx, ShowsText, Messages
    <2>4. StripShowsState'
        BY <2>1, <2>2 DEF StripShowsState, Phase
    <2> QED BY <1>1, <2>2, <2>3, <2>4 DEF IInv, PhaseInv
<1>4. CASE TextMoves(s)
    <2> DEFINE t == [s EXCEPT !.last = now, !.col = NextCol(@)]
    <2>1. s.col \in Nat /\ EndCol(msg) \in Nat
        BY Numbers DEF Scrolls
    <2>2. s.col + 1 < EndCol(msg)
        BY <1>4, <2>1 DEF TextMoves, Over, NextCol
    <2>3. t.msg = msg /\ t.col = s.col + 1 /\ t \in Scrolls
        <3>1. t = [s EXCEPT !.last = now, !.col = s.col + 1] /\ s.col + 1 \in Nat
            BY <2>1 DEF NextCol, Scrolls
        <3> HIDE DEF t
        <3> QED BY <1>1, <3>1 DEF Scrolls
    <2>4. UNCHANGED <<phase, trans>> /\ Render("text", t, Full)
        BY <1>4 DEF TextMoves
    <2> HIDE DEF t
    <2>5. /\ pc' = "poll" /\ mode' = "text"
          /\ scroll' \in Scrolls /\ scroll'.msg = msg /\ scroll'.col < EndCol(msg)
          /\ strip' = TextFrame(scroll', Full)
        BY <1>1, <2>2, <2>3, <2>4, RenderText
    <2>6. InGoTrees' \/ InCs240lx'
        BY <2>4, <2>5 DEF InGoTrees, InCs240lx, ShowsText, Messages
    <2>7. StripShowsState'
        BY <2>4, <2>5 DEF StripShowsState, Phase
    <2> QED BY <1>1, <2>5, <2>6, <2>7 DEF IInv, PhaseInv
<1> QED BY <1>3, <1>4

LEMMA TickTextInv ==
    ASSUME IInv, now' = now, (InGoTrees /\ TickGoTrees) \/ (InCs240lx /\ TickCs240lx)
    PROVE  IInv'
<1>1. now \in Stamps /\ now' \in Stamps
    BY DEF IInv
<1>2. CASE InGoTrees /\ TickGoTrees
    <2>1. /\ Blinked(scroll) \in Scrolls
          /\ Blinked(scroll).msg = "go" /\ Blinked(scroll).col = scroll.col
        BY <1>1, <1>2, BlinkedFacts DEF InGoTrees, ShowsText
    <2>2. CASE TextStays(Blinked(scroll)) \/ TextMoves(Blinked(scroll))
        BY <1>2, <2>1, <2>2, TextTickInv DEF InGoTrees, ShowsText, Messages
    <2>3. CASE BeginWipe("text", StartText("cs"), "cs240lx")
        BY <1>1, <2>3, EnterWipe
    <2> QED BY <1>2, <2>2, <2>3 DEF TickGoTrees
<1>3. CASE InCs240lx /\ TickCs240lx
    <2>1. CASE TextStays(scroll) \/ TextMoves(scroll)
        BY <1>3, <2>1, TextTickInv DEF InCs240lx, ShowsText, Messages
    <2>2. CASE BeginWipe("tree", NoText, "tree")
        BY <1>1, <2>2, EnterWipe
    <2> QED BY <1>3, <2>1, <2>2 DEF TickCs240lx
<1> QED BY <1>2, <1>3

LEMMA TickTreeInv ==
    ASSUME IInv, now' = now, InTree, TickTree
    PROVE  IInv'
<1>1. now \in Stamps /\ now' \in Stamps
    BY DEF IInv
<1>2. CASE Due(phase.start, TreeTicks)
    <2>1. /\ mode' = "text" /\ scroll' = StartText("go") /\ phase' = Transition
          /\ trans' = [kind |-> "sweep", step |-> 0, last |-> now, pending |-> "go_trees"]
          /\ Put(DotsFrame(0))
        BY <1>2 DEF TickTree, BeginSweep
    <2>2. pc' = "poll" /\ strip' = DotsFrame(0)
        BY <2>1, PutFacts
    <2>3. ShowsText("go")'
        BY <1>1, <2>1, StartTextFacts DEF ShowsText, Messages
    <2>4. InSweep'
        BY <1>1, <2>1, <2>3 DEF InSweep, SweepSteps, Width, Gradient
    <2>5. StripShowsState'
        BY <2>1, <2>2 DEF StripShowsState, Transition, Phase
    <2> QED BY <1>1, <2>2, <2>4, <2>5 DEF IInv, PhaseInv
<1>3. CASE ~ Due(phase.start, TreeTicks)
    <2>1. UNCHANGED <<phase, trans, mode, scroll>> /\ Put(TreeFrame(Full))
        BY <1>3 DEF TickTree
    <2>2. pc' = "poll" /\ strip' = TreeFrame(Full)
        BY <2>1, PutFacts
    <2>3. InTree'
        BY <2>1 DEF InTree, ShowsTree
    <2>4. StripShowsState'
        BY <2>1, <2>2 DEF StripShowsState, InTree
    <2> QED BY <1>1, <2>2, <2>3, <2>4 DEF IInv, PhaseInv
<1> QED BY <1>2, <1>3

LEMMA TickWipeInv ==
    ASSUME IInv, now' = now, InWipe, TickWipe
    PROVE  IInv'
<1>1. now \in Stamps /\ now' \in Stamps
    BY DEF IInv
<1>2. /\ trans.kind = "wipe" /\ trans.step \in 0 .. Width - 1
      /\ trans.pending \in {"cs240lx", "tree"}
    BY DEF InWipe
<1>3. CASE trans.step + 1 >= Width /\ Arrive(scroll)
    BY <1>1, <1>2, <1>3, ArriveInv DEF InWipe, SetUpFor, ShowsTree, ShowsText
<1>4. CASE /\ trans.step + 1 < Width
           /\ trans' = [trans EXCEPT !.step = @ + 1]
           /\ Render(mode, scroll, trans.step + 1)
           /\ phase' = phase
    <2>1. /\ phase' = Transition
          /\ trans' \in [kind : {"wipe"}, step : 0 .. Width - 1, pending : {"cs240lx", "tree"}]
          /\ trans'.kind = "wipe" /\ trans'.step = trans.step + 1
          /\ trans'.pending = trans.pending
        BY <1>2, <1>4 DEF InWipe, Width
    <2>2. CASE trans.pending = "tree"
        <3>1. mode = "tree" /\ scroll = NoText
            BY <2>2 DEF InWipe, SetUpFor, ShowsTree
        <3>2. /\ pc' = "poll" /\ mode' = "tree" /\ scroll' = NoText
              /\ strip' = TreeFrame(trans'.step)
            BY <1>4, <2>1, <3>1, RenderTree
        <3>3. InWipe'
            BY <2>1, <2>2, <3>2 DEF InWipe, SetUpFor, ShowsTree
        <3>4. StripShowsState'
            BY <2>1, <3>2 DEF StripShowsState, Transition, Phase
        <3> QED BY <1>1, <3>2, <3>3, <3>4 DEF IInv, PhaseInv
    <2>3. CASE trans.pending = "cs240lx"
        <3>1. ShowsText("cs")
            BY <2>3 DEF InWipe, SetUpFor
        <3>2. /\ pc' = "poll" /\ mode' = "text"
              /\ scroll' \in Scrolls /\ scroll'.msg = "cs" /\ scroll'.col < EndCol("cs")
              /\ strip' = TextFrame(scroll', trans'.step)
            BY <1>1, <1>4, <2>1, <3>1, RenderText DEF ShowsText
        <3>3. InWipe'
            BY <2>1, <2>3, <3>2 DEF InWipe, SetUpFor, ShowsText
        <3>4. StripShowsState'
            BY <2>1, <3>2 DEF StripShowsState, Transition, Phase
        <3> QED BY <1>1, <3>2, <3>3, <3>4 DEF IInv, PhaseInv
    <2> QED BY <1>2, <2>2, <2>3
<1> QED BY <1>3, <1>4 DEF TickWipe

LEMMA TickSweepInv ==
    ASSUME IInv, now' = now, InSweep, TickSweep
    PROVE  IInv'
<1>1. now \in Stamps /\ now' \in Stamps
    BY DEF IInv
<1>2. /\ trans.kind = "sweep" /\ trans.step \in 0 .. SweepSteps - 1
      /\ trans.pending = "go_trees"
    BY DEF InSweep
<1>3. CASE Arrive([scroll EXCEPT !.last = now])
    <2> DEFINE s == [scroll EXCEPT !.last = now]
    <2>1. s \in Scrolls /\ s.msg = "go" /\ s.col < EndCol(s.msg) /\ mode = "text"
        BY <1>1 DEF InSweep, ShowsText, Scrolls
    <2>2. Arrive(s)
        BY <1>3
    <2> HIDE DEF s
    <2> QED BY <1>1, <1>2, <2>1, <2>2, ArriveInv
<1>4. CASE /\ trans.step + 1 < SweepSteps
           /\ trans' = [trans EXCEPT !.step = @ + 1, !.last = now]
           /\ Put(DotsFrame(trans.step + 1))
           /\ UNCHANGED <<phase, mode, scroll>>
    <2>1. pc' = "poll" /\ strip' = DotsFrame(trans.step + 1)
        BY <1>4, PutFacts
    <2>2. /\ trans' \in [kind : {"sweep"}, step : 0 .. SweepSteps - 1, last : Stamps,
                         pending : {"go_trees"}]
          /\ trans'.kind = "sweep" /\ trans'.step = trans.step + 1
        <3>1. trans' = [trans EXCEPT !.step = trans.step + 1, !.last = now]
            BY <1>4
        <3>2. trans.step + 1 \in 0 .. SweepSteps - 1
            BY <1>2, <1>4 DEF SweepSteps, Width, Gradient
        <3> QED BY <1>1, <3>1, <3>2 DEF InSweep
    <2>3. InSweep'
        BY <1>4, <2>2 DEF InSweep, ShowsText
    <2>4. StripShowsState'
        BY <1>4, <2>1, <2>2 DEF InSweep, StripShowsState, Transition, Phase
    <2> QED BY <1>1, <2>1, <2>3, <2>4 DEF IInv, PhaseInv
<1> QED BY <1>3, <1>4 DEF TickSweep

LEMMA LedTickInv == IInv /\ LedTick => IInv'
<1> SUFFICES ASSUME IInv, LedTick PROVE IInv'
    OBVIOUS
<1>1. now' = now
    BY DEF LedTick
<1>2. CASE InTree
    <2>1. phase.name = "tree"
        BY <1>2 DEF InTree
    <2>2. TickTree
        BY <2>1 DEF LedTick
    <2> QED BY <1>1, <1>2, <2>2, TickTreeInv
<1>3. CASE InGoTrees
    <2>1. phase.name = "go_trees"
        BY <1>3 DEF InGoTrees, Phase
    <2>2. TickGoTrees
        BY <2>1 DEF LedTick
    <2>3. (InGoTrees /\ TickGoTrees) \/ (InCs240lx /\ TickCs240lx)
        BY <1>3, <2>2
    <2> QED BY <1>1, <2>3, TickTextInv
<1>4. CASE InCs240lx
    <2>1. phase.name = "cs240lx"
        BY <1>4 DEF InCs240lx, Phase
    <2>2. TickCs240lx
        BY <2>1 DEF LedTick
    <2>3. (InGoTrees /\ TickGoTrees) \/ (InCs240lx /\ TickCs240lx)
        BY <1>4, <2>2
    <2> QED BY <1>1, <2>3, TickTextInv
<1>5. CASE InWipe
    <2>1. phase.name = "transition" /\ trans.kind = "wipe"
        BY <1>5 DEF InWipe, Transition, Phase
    <2>2. TickWipe
        BY <2>1 DEF LedTick, TickSweep, TransitionWaits
    <2> QED BY <1>1, <1>5, <2>2, TickWipeInv
<1>6. CASE InSweep
    <2>1. phase.name = "transition" /\ trans.kind = "sweep"
        BY <1>6 DEF InSweep, Transition, Phase
    <2>2. CASE TickSweep
        BY <1>1, <1>6, <2>2, TickSweepInv
    <2>3. CASE TransitionWaits
        <3>1. pc' = "poll" /\ UNCHANGED <<strip, phase, trans, mode, scroll>>
            BY <2>3 DEF TransitionWaits, NothingShown
        <3> QED BY <1>1, <1>6, <3>1 DEF IInv, PhaseInv, InSweep, ShowsText, StripShowsState
    <2> QED BY <2>1, <2>2, <2>3 DEF LedTick, TickWipe
<1> QED BY <1>2, <1>3, <1>4, <1>5, <1>6 DEF IInv, PhaseInv

(* The rest of an iteration changes the time only. *)
LEMMA OthersInv == IInv /\ (Poll \/ Hang \/ UNCHANGED vars) => IInv'
<1> SUFFICES ASSUME IInv, Poll \/ Hang \/ UNCHANGED vars PROVE IInv'
    OBVIOUS
<1>1. UNCHANGED <<phase, trans, mode, scroll, strip>> /\ pc' \in {"leds", "poll", "hung"}
    BY DEF Poll, Hang, vars, IInv
<1>2. now' \in Stamps
    <2>1. CASE Poll
        <3>1. PICK ticks \in 1 .. MaxLoop : now' = (now + ticks) % Wrap
            BY <2>1 DEF Poll
        <3>2. now + ticks \in Int
            BY DEF IInv, Stamps
        <3> QED BY <3>1, <3>2, Numbers
    <2>2. CASE Hang \/ UNCHANGED vars
        BY <2>2 DEF Hang, vars, IInv
    <2> QED BY <2>1, <2>2
<1>3. PhaseInv' /\ StripShowsState'
    BY <1>1 DEF IInv, PhaseInv, InTree, InGoTrees, InCs240lx, InWipe, InSweep, ShowsText,
        ShowsTree, SetUpFor, StripShowsState
<1> QED BY <1>1, <1>2, <1>3 DEF IInv

LEMMA InitInv == Init => IInv
    BY DEF Init, IInv, Stamps, PhaseInv, InTree, ShowsTree, Tree, StripShowsState

LEMMA AlwaysInv == Spec => []IInv
<1>1. IInv /\ [Next]_vars => IInv'
    BY LedTickInv, OthersInv DEF Next, Stopped
<1> QED BY <1>1, InitInv, PTL DEF Spec

----------------------------------------------------------------------------
(* The theorems. *)

(* No index leaves the matrix or the message, and no colour is brighter    *)
(* than the port's current allows (led-matrix.c's led_matrix_check_rgb,    *)
(* on which the cap panics: pc = "panic" is not among the values).         *)
THEOREM TypeCorrect == Spec => []TypeOK
<1>1. IInv => TypeOK
    BY DEF IInv, TypeOK, PhaseInv, InTree, InGoTrees, InCs240lx, InWipe, InSweep, ShowsText,
        ShowsTree, SetUpFor, Scrolls, Phase, Transition
<1> QED BY <1>1, AlwaysInv, PTL

(* The LEDs show the phase, the text, its column and blinking, and the     *)
(* transition as the state has them, at every instant.                     *)
THEOREM StripIsCurrent == Spec => []StripShowsState
<1>1. IInv => StripShowsState
    BY DEF IInv
<1> QED BY <1>1, AlwaysInv, PTL

----------------------------------------------------------------------------
(* The history: how long what is shown has been up, and at how many        *)
(* columns a text has been shown.                                          *)

(* The ticks a stamp claims to have passed have passed, or enough have. *)
Waited(stamp, ticks) == dwell >= ticks \/ dwell >= Since(stamp)

HistoryInv ==
    /\ dwell \in Nat
    /\ phase.name = "tree" => Waited(phase.start, TreeTicks)
    /\ phase.name = "go_trees" => Waited(scroll.last, ScrollTicks)
    /\ phase.name = "cs240lx" /\ scroll.col > 0 => Waited(scroll.last, ScrollTicks)
    /\ phase.name \in {"go_trees", "cs240lx"} => seen = scroll.col + 1
    /\ phase.name = "transition" /\ mode = "text" => scroll.col = 0

(* Remainders: equal for numbers a multiple apart, zero at zero, and no    *)
(* larger than before plus what was added.                                 *)
LEMMA RemainderOf ==
    ASSUME NEW W \in Nat \ {0}, NEW a \in Int
    PROVE  \E q \in Int, r \in 0 .. W - 1 : a % W = r /\ a \div W = q /\ a = W * q + r
    OBVIOUS

(* Less than one round apart is the same round. *)
LEMMA NoRound ==
    ASSUME NEW W \in Nat \ {0}, NEW m \in Int
    PROVE  (m >= 1 => W * m >= W) /\ (m <= -1 => W * m <= - W)
    OBVIOUS

LEMMA SameRemainder ==
    ASSUME NEW W \in Nat \ {0}, NEW a \in Int, NEW b \in Int, NEW k \in Int, a = b + W * k
    PROVE  a % W = b % W
<1>1. PICK p \in Int, r \in 0 .. W - 1 : a % W = r /\ a = W * p + r
    BY RemainderOf
<1>2. PICK q \in Int, s \in 0 .. W - 1 : b % W = s /\ b = W * q + s
    BY RemainderOf
<1> DEFINE m == q + k - p
<1>3. m \in Int /\ r - s = W * m
    BY <1>1, <1>2
<1> HIDE DEF m
<1>4. m = 0
    BY <1>3, NoRound
<1> QED BY <1>1, <1>2, <1>3, <1>4

LEMMA RemainderGrows ==
    ASSUME NEW W \in Nat \ {0}, NEW a \in Int, NEW t \in Nat
    PROVE  (a + t) % W <= (a % W) + t
<1>1. PICK p \in Int, r \in 0 .. W - 1 : a % W = r /\ a = W * p + r
    BY RemainderOf
<1>2. PICK q \in Int, s \in 0 .. W - 1 : (a + t) % W = s /\ a + t = W * q + s
    <2> DEFINE c == a + t
    <2>1. c \in Int
        OBVIOUS
    <2> HIDE DEF c
    <2>2. \E q \in Int, s \in 0 .. W - 1 : c % W = s /\ c = W * q + s
        BY <2>1, RemainderOf
    <2> QED BY <2>2 DEF c
<1> DEFINE m == q - p
<1>3. m \in Int /\ s = r + t - W * m
    BY <1>1, <1>2
<1> HIDE DEF m
<1>4. m <= -1 => s >= r + t + W
    BY <1>3, NoRound
<1>5. m >= 0 => W * m >= 0
    BY <1>3
<1>6. m >= 0
    BY <1>3, <1>4
<1> QED BY <1>1, <1>2, <1>3, <1>5, <1>6

(* What the timer shows of a stamp's age grows by no more than the ticks   *)
(* that pass, wherever it wraps.                                           *)
LEMMA AgeGrows ==
    ASSUME now \in Stamps, NEW stamp \in Stamps, NEW ticks \in Nat, now' = (now + ticks) % Wrap
    PROVE  Since(stamp)' <= Since(stamp) + ticks /\ Since(stamp) \in Nat /\ Since(stamp)' \in Nat
<1>1. Wrap \in Nat \ {0} /\ now \in Int /\ stamp \in Int
    BY TimesAssumption DEF Stamps
<1>2. (now + ticks) % Wrap = (now + ticks) + Wrap * (- ((now + ticks) \div Wrap))
    <2>1. PICK q \in Int, r \in 0 .. Wrap - 1 :
              (now + ticks) % Wrap = r /\ (now + ticks) \div Wrap = q /\ now + ticks = Wrap * q + r
        BY <1>1, RemainderOf
    <2>2. r = Wrap * q + r + Wrap * (- q)
        BY <1>1
    <2> QED BY <2>1, <2>2
<1>3. ((now + ticks) % Wrap) - stamp = (now + ticks - stamp) + Wrap * (- ((now + ticks) \div Wrap))
    BY <1>1, <1>2, RemainderOf
<1>4. (((now + ticks) % Wrap) - stamp) % Wrap = (now + ticks - stamp) % Wrap
    <2>1. /\ ((now + ticks) % Wrap) - stamp \in Int /\ now + ticks - stamp \in Int
          /\ - ((now + ticks) \div Wrap) \in Int
        BY <1>1, RemainderOf
    <2> QED BY <1>1, <1>3, <2>1, SameRemainder
<1>5. now + ticks - stamp = (now - stamp) + ticks /\ now - stamp \in Int
    BY <1>1
<1>6. (now + ticks - stamp) % Wrap <= ((now - stamp) % Wrap) + ticks
    BY <1>1, <1>5, RemainderGrows
<1>7. Since(stamp)' = (now + ticks - stamp) % Wrap
    BY <1>4 DEF Since
<1>8. Since(stamp) \in Nat /\ Since(stamp)' \in Nat
    BY <1>1, <1>5, <1>7, RemainderOf DEF Since
<1> QED BY <1>6, <1>7, <1>8 DEF Since

LEMMA NewStamp == now \in Stamps => Since(now) = 0
<1>1. ASSUME now \in Stamps PROVE Wrap \in Nat \ {0} /\ now - now = 0
    BY <1>1, TimesAssumption DEF Stamps
<1> QED BY <1>1, SMT DEF Since

(* What one iteration does to the history, by its phase. *)

LEMMA ArriveHistory ==
    ASSUME now \in Stamps, now' = now, NEW s, trans.pending \in {"tree", "go_trees", "cs240lx"},
           trans.pending = "tree" => mode = "tree",
           trans.pending # "tree" => mode = "text" /\ s \in Scrolls /\ s.col = 0,
           trans.pending = "go_trees" => s.last = now,
           Arrive(s)
    PROVE  HistoryInv'
<1>1. /\ dwell' = 0 /\ seen' = IF mode = "text" THEN 1 ELSE 0
      /\ phase' = IF trans.pending = "tree" THEN Tree ELSE Phase(trans.pending)
      /\ scroll' = IF mode = "text" THEN Blinked(s) ELSE s
    BY DEF Arrive, Restarts, Render
<1>2. CASE trans.pending = "tree"
    <2>1. phase'.name = "tree" /\ phase'.start = now
        BY <1>1, <1>2 DEF Tree
    <2>2. dwell' >= Since(phase.start)'
        BY <1>1, <2>1, NewStamp DEF Since
    <2> QED BY <1>1, <2>1, <2>2 DEF HistoryInv, Waited
<1>3. CASE trans.pending # "tree"
    <2>1. phase'.name = trans.pending
        BY <1>1, <1>3 DEF Phase
    <2>2. scroll'.col = 0 /\ scroll'.last = s.last /\ seen' = 1
        BY <1>1, <1>3, BlinkedFacts
    <2>3. trans.pending = "go_trees" => dwell' >= Since(scroll.last)'
        BY <1>1, <2>2, NewStamp DEF Since
    <2> QED BY <1>1, <1>3, <2>1, <2>2, <2>3 DEF HistoryInv, Waited
<1> QED BY <1>2, <1>3

LEMMA TransitionHistory ==
    ASSUME IInv, HistoryInv, now' = now,
           (InWipe /\ TickWipe) \/ (InSweep /\ (TickSweep \/ TransitionWaits))
    PROVE  HistoryInv'
<1>1. now \in Stamps /\ phase.name = "transition" /\ (mode = "text" => scroll.col = 0)
    BY DEF IInv, InWipe, InSweep, Transition, Phase, HistoryInv
<1>2. ASSUME UNCHANGED <<phase, mode, dwell>>,
             mode = "text" => scroll'.col = scroll.col
      PROVE  HistoryInv'
    BY <1>1, <1>2 DEF HistoryInv
<1>3. CASE InWipe /\ Arrive(scroll)
    BY <1>1, <1>3, ArriveHistory DEF InWipe, SetUpFor, ShowsTree, ShowsText
<1>4. CASE InWipe /\ Render(mode, scroll, trans.step + 1) /\ UNCHANGED <<phase, dwell>>
    <2>1. mode = "text" => scroll \in Scrolls
        BY <1>4 DEF InWipe, SetUpFor, ShowsTree, ShowsText
    <2>2. mode' = mode /\ (mode = "text" => scroll' = Blinked(scroll))
        BY <1>4 DEF Render
    <2> QED BY <1>1, <1>2, <1>4, <2>1, <2>2, BlinkedFacts
<1>5. CASE InSweep /\ Arrive([scroll EXCEPT !.last = now])
    <2> DEFINE s == [scroll EXCEPT !.last = now]
    <2>1. s \in Scrolls /\ s.col = 0 /\ s.last = now /\ mode = "text"
        BY <1>1, <1>5 DEF InSweep, ShowsText, Scrolls
    <2>2. Arrive(s) /\ trans.pending = "go_trees"
        BY <1>5 DEF InSweep
    <2> HIDE DEF s
    <2> QED BY <1>1, <2>1, <2>2, ArriveHistory
<1>6. CASE UNCHANGED <<phase, mode, scroll, dwell>>
    BY <1>2, <1>6
<1> QED BY <1>3, <1>4, <1>5, <1>6 DEF TickWipe, TickSweep, TransitionWaits, Stays

LEMMA TreeHistory ==
    ASSUME IInv, HistoryInv, now' = now, InTree, TickTree
    PROVE  /\ HistoryInv'
           /\ phase'.name # "tree" => dwell >= TreeTicks
<1>1. /\ now \in Stamps /\ phase.name = "tree" /\ phase.start \in Stamps
      /\ dwell \in Nat /\ Waited(phase.start, TreeTicks)
    BY DEF IInv, InTree, HistoryInv
<1>2. TreeTicks \in Nat /\ Since(phase.start) \in Int
    <2>1. /\ Wrap \in Nat \ {0} /\ TreeTicks \in Nat
          /\ now - phase.start \in Int
        BY <1>1, TimesAssumption DEF Stamps
    <2> QED BY <2>1, Numbers DEF Since, Stamps
<1>3. CASE Due(phase.start, TreeTicks)
    <2>1. /\ mode' = "text" /\ scroll' = StartText("go") /\ phase' = Transition /\ dwell' = 0
        BY <1>3 DEF TickTree, BeginSweep, Restarts
    <2>2. HistoryInv'
        BY <2>1 DEF HistoryInv, Transition, Phase, StartText
    <2>3. dwell >= TreeTicks
        BY <1>1, <1>2, <1>3 DEF Due, Waited
    <2> QED BY <2>2, <2>3
<1>4. CASE ~ Due(phase.start, TreeTicks)
    <2>1. UNCHANGED <<phase, mode, scroll, dwell>>
        BY <1>4 DEF TickTree, Stays
    <2> QED BY <1>1, <2>1 DEF HistoryInv, Waited, Since
<1> QED BY <1>3, <1>4

(* A text that scrolls, after its blinking. *)
LEMMA TextHistory ==
    ASSUME IInv, HistoryInv, now' = now, InGoTrees \/ InCs240lx, NEW s \in Scrolls,
           s.msg = scroll.msg, s.col = scroll.col, s.last = scroll.last,
           TextStays(s) \/ TextMoves(s) \/
           (TextEnds(s) /\ phase' = Transition /\ dwell' = 0 /\ (mode' = "text" => scroll'.col = 0))
    PROVE  /\ HistoryInv'
           /\ (phase.name = "cs240lx" => scroll.col > 0)
              => (scroll'.msg = scroll.msg /\ scroll'.col = scroll.col) \/ dwell >= ScrollTicks
           /\ phase'.name = "transition" => seen = EndCol(scroll.msg)
<1>1. /\ now \in Stamps /\ phase.name \in {"go_trees", "cs240lx"} /\ mode = "text"
      /\ scroll \in Scrolls /\ scroll.col < EndCol(scroll.msg) /\ scroll.msg \in Messages
      /\ dwell \in Nat /\ seen = scroll.col + 1
      /\ (phase.name = "cs240lx" => scroll.col > 0) => Waited(scroll.last, ScrollTicks)
    BY DEF IInv, InGoTrees, InCs240lx, Phase, ShowsText, HistoryInv, Messages
<1>2. /\ ScrollTicks \in Nat /\ Since(scroll.last) \in Int /\ scroll.col \in Nat
      /\ EndCol(scroll.msg) \in Nat
    <2>1. /\ Wrap \in Nat \ {0} /\ ScrollTicks \in Nat /\ scroll.last \in Stamps /\ scroll.col \in Nat
          /\ now - scroll.last \in Int
        BY <1>1, TimesAssumption DEF Stamps, Scrolls
    <2> QED BY <1>1, <2>1, Numbers DEF Since, Stamps
<1>3. Due(s.last, ScrollTicks) /\ (phase.name = "cs240lx" => scroll.col > 0) => dwell >= ScrollTicks
    BY <1>1, <1>2 DEF Due, Waited
<1>4. CASE TextStays(s)
    <2>1. scroll' = s /\ UNCHANGED <<phase, mode, dwell, seen>>
        BY <1>4 DEF TextStays, Stays
    <2>2. HistoryInv'
        BY <1>1, <2>1 DEF HistoryInv, Waited, Since
    <2> QED BY <1>1, <2>1, <2>2
<1>5. CASE TextMoves(s)
    <2> DEFINE t == [s EXCEPT !.last = now, !.col = s.col + 1]
    <2>1. t \in Scrolls /\ t.last = now /\ t.col = s.col + 1
        <3>1. s.col + 1 \in Nat
            BY <1>2
        <3> QED BY <1>1, <3>1 DEF Scrolls
    <2>2. Render("text", t, Full) /\ Due(s.last, ScrollTicks)
        BY <1>5 DEF TextMoves, NextCol
    <2>3. dwell' = 0 /\ seen' = seen + 1 /\ phase' = phase
        BY <1>5 DEF TextMoves, Restarts
    <2> HIDE DEF t
    <2>4. scroll' = Blinked(t) /\ mode' = "text"
        BY <2>2 DEF Render
    <2>5. scroll'.last = now /\ scroll'.col = scroll.col + 1
        BY <1>1, <2>1, <2>4, BlinkedFacts
    <2>6. dwell' >= Since(scroll.last)'
        BY <1>1, <2>3, <2>5, NewStamp DEF Since
    <2>7. HistoryInv'
        BY <1>1, <1>2, <2>3, <2>5, <2>6 DEF HistoryInv, Waited
    <2> QED BY <1>1, <1>3, <2>2, <2>3, <2>7
<1>6. CASE TextEnds(s) /\ phase' = Transition /\ dwell' = 0 /\ (mode' = "text" => scroll'.col = 0)
    <2>1. phase'.name = "transition"
        BY <1>6 DEF Transition, Phase
    <2>2. HistoryInv'
        BY <1>6, <2>1 DEF HistoryInv
    <2>3. scroll.col + 1 >= EndCol(scroll.msg)
        BY <1>6 DEF TextEnds, Over, NextCol
    <2>4. seen = EndCol(scroll.msg)
        BY <1>1, <1>2, <2>3
    <2> QED BY <1>3, <1>6, <2>2, <2>4 DEF TextEnds
<1> QED BY <1>4, <1>5, <1>6

(* The two properties, of one iteration's part. *)
StaysInStep ==
    /\ phase.name = "tree" /\ phase'.name # "tree" => dwell >= TreeTicks
    /\ phase.name \in {"go_trees", "cs240lx"} /\ scroll' # scroll
       /\ (phase.name = "cs240lx" => scroll.col > 0)
       => (scroll'.msg = scroll.msg /\ scroll'.col = scroll.col) \/ dwell >= ScrollTicks

CompleteInStep ==
    phase.name \in {"go_trees", "cs240lx"} /\ phase'.name = "transition"
    => seen = EndCol(scroll.msg)

LEMMA LedTickHistory ==
    ASSUME IInv, HistoryInv, LedTick
    PROVE  HistoryInv' /\ StaysInStep /\ CompleteInStep
<1>1. now' = now /\ now \in Stamps
    BY DEF LedTick, IInv
<1>2. CASE InTree
    <2>1. phase.name = "tree" /\ TickTree
        BY <1>2 DEF InTree, LedTick
    <2> QED BY <1>1, <1>2, <2>1, TreeHistory DEF StaysInStep, CompleteInStep
<1>3. CASE InGoTrees
    <2>1. phase.name = "go_trees" /\ scroll \in Scrolls
        BY <1>3 DEF InGoTrees, Phase, ShowsText
    <2>2. TickGoTrees
        BY <2>1 DEF LedTick
    <2> DEFINE s == Blinked(scroll)
    <2>3. s \in Scrolls /\ s.msg = scroll.msg /\ s.col = scroll.col /\ s.last = scroll.last
        BY <1>1, <2>1, BlinkedFacts
    <2>4. \/ TextStays(s) \/ TextMoves(s)
          \/ TextEnds(s) /\ BeginWipe("text", StartText("cs"), "cs240lx") /\ dwell' = 0
        BY <2>2 DEF TickGoTrees, Restarts
    <2> HIDE DEF s
    <2>5. BeginWipe("text", StartText("cs"), "cs240lx") => phase' = Transition /\ scroll'.col = 0
        <3>1. StartText("cs") \in Scrolls /\ StartText("cs").col = 0
            BY <1>1, StartTextFacts DEF Messages, StartText
        <3> QED BY <1>1, <3>1, BlinkedFacts DEF BeginWipe, Render
    <2> QED BY <1>1, <1>3, <2>1, <2>3, <2>4, <2>5, TextHistory DEF StaysInStep, CompleteInStep
<1>4. CASE InCs240lx
    <2>1. phase.name = "cs240lx" /\ scroll \in Scrolls
        BY <1>4 DEF InCs240lx, Phase, ShowsText
    <2>2. TickCs240lx
        BY <2>1 DEF LedTick
    <2>3. \/ TextStays(scroll) \/ TextMoves(scroll)
          \/ TextEnds(scroll) /\ phase' = Transition /\ mode' = "tree" /\ dwell' = 0
        BY <2>2 DEF TickCs240lx, Restarts, BeginWipe, Render
    <2> QED BY <1>1, <1>4, <2>1, <2>3, TextHistory DEF StaysInStep, CompleteInStep
<1>5. CASE InWipe \/ InSweep
    <2>1. phase.name = "transition" /\ phase = Transition
        BY <1>5 DEF InWipe, InSweep, Transition, Phase
    <2>2. (InWipe /\ TickWipe) \/ (InSweep /\ (TickSweep \/ TransitionWaits))
        BY <1>5, <2>1 DEF InWipe, InSweep, LedTick, TickWipe, TickSweep, TransitionWaits
    <2> QED BY <1>1, <2>1, <2>2, TransitionHistory DEF StaysInStep, CompleteInStep
<1> QED BY <1>2, <1>3, <1>4, <1>5 DEF IInv, PhaseInv

(* Time passes: a stamp's age grows by no more than dwell does, which      *)
(* stops at more than any frame is to be shown for.                        *)
LEMMA PollHistory ==
    ASSUME IInv, HistoryInv, Poll
    PROVE  HistoryInv'
<1>1. PICK ticks \in 1 .. MaxLoop :
          /\ now' = (now + ticks) % Wrap
          /\ dwell' = IF phase.name = "transition" THEN 0 ELSE Capped(dwell + ticks)
    BY DEF Poll
<1>2. /\ UNCHANGED <<phase, mode, scroll, seen>> /\ now \in Stamps /\ dwell \in Nat
      /\ TreeTicks \in Nat /\ ScrollTicks \in Nat /\ ticks \in Nat
    BY TimesAssumption DEF Poll, IInv, HistoryInv
<1>3. dwell' \in Nat
    BY <1>1, <1>2 DEF Capped
<1>4. ASSUME NEW stamp \in Stamps, NEW t \in {TreeTicks, ScrollTicks}, Waited(stamp, t),
             phase.name # "transition"
      PROVE  dwell' >= t \/ dwell' >= ((now' - stamp) % Wrap)
    <2>1. /\ ((now' - stamp) % Wrap) <= Since(stamp) + ticks /\ Since(stamp) \in Nat
          /\ ((now' - stamp) % Wrap) \in Nat
        BY <1>1, <1>2, AgeGrows DEF Since
    <2>2. dwell' = Capped(dwell + ticks)
        BY <1>1, <1>4
    <2>3. t \in Nat /\ TreeTicks + ScrollTicks >= t
        BY <1>2
    <2>4. CASE dwell + ticks > TreeTicks + ScrollTicks
        BY <1>2, <2>2, <2>3, <2>4 DEF Capped
    <2>5. CASE ~ (dwell + ticks > TreeTicks + ScrollTicks)
        BY <1>2, <1>4, <2>1, <2>2, <2>3, <2>5 DEF Capped, Waited
    <2> QED BY <2>4, <2>5
<1>5. phase.name = "tree" => phase.start \in Stamps
    BY DEF IInv, PhaseInv, InTree, InGoTrees, InCs240lx, InWipe, InSweep, Transition, Phase
<1>6. phase.name \in {"go_trees", "cs240lx"} => scroll.last \in Stamps
    BY DEF IInv, PhaseInv, InTree, InGoTrees, InCs240lx, InWipe, InSweep, Transition, Phase,
       ShowsText, Scrolls
<1> QED BY <1>2, <1>3, <1>4, <1>5, <1>6 DEF HistoryInv, Waited, Since

LEMMA HistoryInit == Init => HistoryInv
<1> SUFFICES ASSUME Init PROVE HistoryInv
    OBVIOUS
<1>1. now \in Stamps /\ phase.name = "tree" /\ phase.start = now /\ dwell = 0 /\ mode = "tree"
    BY DEF Init, Stamps, Tree
<1>2. Since(phase.start) = 0
    BY <1>1, NewStamp
<1> QED BY <1>1, <1>2 DEF HistoryInv, Waited

LEMMA HistoryStep ==
    ASSUME IInv, HistoryInv, [Next]_vars
    PROVE  HistoryInv' /\ StaysInStep /\ CompleteInStep
<1>1. CASE LedTick
    BY <1>1, LedTickHistory
<1>2. CASE Poll
    <2>1. UNCHANGED <<phase, scroll>>
        BY <1>2 DEF Poll
    <2> QED BY <1>2, <2>1, PollHistory DEF StaysInStep, CompleteInStep
<1>3. CASE Hang \/ UNCHANGED vars
    <2>1. UNCHANGED <<now, phase, mode, scroll, dwell, seen>>
        BY <1>3 DEF Hang, vars
    <2> QED BY <2>1 DEF HistoryInv, Waited, Since, StaysInStep, CompleteInStep
<1> QED BY <1>1, <1>2, <1>3 DEF Next, Stopped

LEMMA AlwaysHistory == Spec => [](IInv /\ HistoryInv)
<1>1. IInv /\ HistoryInv /\ [Next]_vars => (IInv /\ HistoryInv)'
    BY LedTickInv, OthersInv, HistoryStep DEF Next, Stopped
<1> QED BY <1>1, InitInv, HistoryInit, PTL DEF Spec

(* What has come up stays for its time, however long the iterations are    *)
(* and wherever the microsecond timer wraps: the subtraction of unsigned   *)
(* stamps never makes a frame look older than it is.                       *)
THEOREM FramesStay == Spec => StaysItsTime
<1>1. IInv /\ HistoryInv /\ [Next]_vars => StaysInStep
    BY HistoryStep
<1> QED BY <1>1, AlwaysHistory, PTL DEF Spec, StaysItsTime, StaysInStep

(* A text passes through all its columns before the next phase begins,     *)
(* for messages of any length.                                             *)
THEOREM PassesComplete == Spec => PassIsComplete
<1>1. IInv /\ HistoryInv /\ [Next]_vars => CompleteInStep
    BY HistoryStep
<1> QED BY <1>1, AlwaysHistory, PTL DEF Spec, PassIsComplete, CompleteInStep
=============================================================================
