-------------------------- MODULE TouchPanelProofs --------------------------
(***************************************************************************)
(* The display never shows what came from uninitialised memory, for every  *)
(* geometry of panel and display, every FIFO size and every bus fault; and *)
(* an accepted reading is one of a place where the finger was.             *)
(*                                                                         *)
(* First the arithmetic: a pixel computed from any reading is one of the   *)
(* display's, and what is written with it is at most one byte behind the   *)
(* buffer.  Then what one transfer can do: on a bus that has failed     *)
(* once nothing passes, and a bus that is idle after a transfer has passed *)
(* all of it.                                                              *)
(***************************************************************************)
EXTENDS TouchPanel, SequenceTheorems, TLAPS

USE DEF Idle

LEMMA ConstantsAreNat ==
    /\ Max \in Nat /\ Max > 0 /\ Columns \in Nat /\ Columns > 0
    /\ Pages \in Nat /\ Pages > 0 /\ PageBits \in Nat /\ PageBits > 0
    /\ ShowEvery \in Nat /\ ShowEvery > 0 /\ InitCommands \in Nat /\ InitCommands > 0
    /\ MaxMoves \in Nat /\ MaxPoints \in Nat
    /\ Leftovers \subseteq 0 .. Max
    BY PanelAssumption

(* The quotient of the C program's unsigned division. *)
LEMMA DivBounds ==
    ASSUME NEW a \in Nat, NEW b \in Nat \ {0}
    PROVE  /\ a \div b \in Nat
           /\ b * (a \div b) <= a
           /\ a < b * (a \div b) + b
    BY SMT

(* A reading is mapped into the display. *)
LEMMA ScaledInRange ==
    ASSUME NEW t \in 0 .. Max, NEW range \in Nat \ {0}
    PROVE  Scaled(t, range) \in 0 .. range - 1
<1> DEFINE a == (Max - t) * range
           q == a \div (Max + 1)
<1>1. Max \in Nat \ {0}
    BY PanelAssumption
<1>2. Max - t \in Nat /\ Max - t <= Max
    BY <1>1
<1>3. a \in Nat
    BY <1>2, SMT
<1>4. q \in Nat /\ (Max + 1) * q <= a
    <2>1. Max + 1 \in Nat \ {0}
        BY <1>1
    <2> HIDE DEF a
    <2> QED BY <1>3, <2>1, DivBounds
<1>5. a <= Max * range
    BY <1>1, <1>2, SMT
<1>6. Max * range < (Max + 1) * range
    BY <1>1, SMT
<1>7. SUFFICES ASSUME q >= range PROVE FALSE
    BY <1>4 DEF Scaled
<1>8. (Max + 1) * q >= (Max + 1) * range
    BY <1>1, <1>4, <1>7, SMT
<1> QED
    <2> HIDE DEF q, a
    <2> QED BY <1>1, <1>3, <1>4, <1>5, <1>6, <1>8, SMT

(* The pixel is on the display; its neighbour in the next byte is, or it   *)
(* is in the byte behind the buffer.                                       *)
LEMMA LitInMemory ==
    ASSUME NEW x \in 0 .. Columns - 1, NEW y \in 0 .. Height - 1
    PROVE  Lit(x, y) \subseteq Memory
<1> DEFINE row == Height - 1 - y
           page == row \div PageBits
           byte == page * Columns + (Columns - 1 - x)
<1>1. Columns \in Nat \ {0} /\ Pages \in Nat \ {0} /\ PageBits \in Nat \ {0}
    BY PanelAssumption
<1>2. Height \in Nat /\ row \in 0 .. Height - 1
    BY <1>1, SMT DEF Height
<1>3. page \in Nat /\ PageBits * page <= row
    BY <1>1, <1>2, DivBounds
<1>4. page <= Pages - 1
    <2> HIDE DEF page, row
    <2>1. SUFFICES ASSUME page >= Pages PROVE FALSE
        BY <1>1, <1>3
    <2>2. PageBits * page >= PageBits * Pages
        BY <1>1, <1>3, <2>1, SMT
    <2> QED BY <1>1, <1>2, <1>3, <2>2, SMT DEF Height
<1>5. page * Columns <= (Pages - 1) * Columns
    <2> HIDE DEF page
    <2> QED BY <1>1, <1>3, <1>4, SMT
<1>6. page * Columns \in Nat
    <2> HIDE DEF page
    <2> QED BY <1>1, <1>3, SMT
<1>7. (Pages - 1) * Columns + Columns = Size /\ Size \in Nat
    BY <1>1, SMT DEF Size
<1>8. byte \in 0 .. Size - 1
    <2> DEFINE pc_ == page * Columns
               last == (Pages - 1) * Columns
    <2>1. last \in Int
        BY <1>1, SMT
    <2> HIDE DEF page, pc_, last
    <2>2. pc_ \in Nat /\ pc_ <= last /\ last + Columns = Size
        BY <1>5, <1>6, <1>7 DEF pc_, last
    <2> QED BY <1>1, <1>7, <2>1, <2>2 DEF pc_
<1>9. row % PageBits \in 0 .. PageBits - 1
    BY <1>1, <1>2, SMT
<1> HIDE DEF byte, row, page
<1>10. byte \in 0 .. Size /\ byte + 1 \in 0 .. Size
    BY <1>7, <1>8
<1>11. Lit(x, y) = {<<byte, row % PageBits>>, <<byte + 1, row % PageBits>>}
    BY DEF Lit, byte, row, page
<1> QED
    BY <1>9, <1>10, <1>11 DEF Memory

LEMMA PointInMemory ==
    ASSUME NEW s \in Seq(0 .. Max), Len(s) = 4
    PROVE  Point(s) \subseteq Memory
<1> DEFINE x == Scaled(s[2], Columns)
           y == Scaled(s[1], Height)
<1>1. s[1] \in 0 .. Max /\ s[2] \in 0 .. Max
    <2>1. 1 \in 1 .. Len(s) /\ 2 \in 1 .. Len(s)
        OBVIOUS
    <2> QED BY <2>1, ElementOfSeq, Zenon
<1>2. Columns \in Nat \ {0} /\ Height \in Nat \ {0}
    BY PanelAssumption, SMT DEF Height
<1>3. x \in 0 .. Columns - 1 /\ y \in 0 .. Height - 1
    BY <1>1, <1>2, ScaledInRange
<1> HIDE DEF x, y
<1>4. Cross(x, y) \subseteq Memory
    BY <1>3, LitInMemory DEF Cross
<1> QED
    BY <1>4 DEF Point, x, y

----------------------------------------------------------------------------
(* One transfer. *)

LEMMA StickyBits ==
    ASSUME bus \in Bus
    PROVE  /\ [bus EXCEPT !.err = TRUE] \in Bus \ {Idle}
           /\ [bus EXCEPT !.clkt = TRUE] \in Bus \ {Idle}
    BY DEF Bus

(* A write on a bus that has failed passes nothing and the bus stays so; a *)
(* bus that is idle afterwards has passed everything.                      *)
LEMMA WriteFacts ==
    ASSUME bus \in Bus, NEW n \in Nat \ {0}, NEW o \in WriteOutcomes(bus, n, Faults)
    PROVE  /\ o.bus \in Bus /\ o.passed \in 0 .. n
           /\ bus # Idle => o.passed = 0 /\ o.bus # Idle
           /\ o.bus = Idle => o.passed = n /\ o.end = "done"
<1>1. CASE bus # Idle
    <2>1. ~ Ready(bus)
        BY <1>1 DEF Ready, Bus
    <2>2. o = [end |-> "failed", bus |-> bus, passed |-> 0]
        BY <2>1 DEF WriteOutcomes, Refused, Outcome
    <2> QED BY <1>1, <2>2
<1>2. CASE bus = Idle
    <2>1. \/ o = Outcome("done", bus, n)
          \/ \E k \in 0 .. n - 1, end \in {"done", "hung", "failed"}, b \in Bus \ {Idle} :
                o = Outcome(end, b, k)
        BY <1>2, StickyBits DEF WriteOutcomes, Ready
    <2>2. CASE o = Outcome("done", bus, n)
        BY <1>2, <2>2 DEF Outcome
    <2>3. ASSUME NEW k \in 0 .. n - 1, NEW end, NEW b \in Bus \ {Idle},
                 o = Outcome(end, b, k)
          PROVE  o.bus \in Bus /\ o.bus # Idle /\ o.passed \in 0 .. n
        <3>1. o.bus = b /\ o.passed = k
            BY <2>3 DEF Outcome
        <3> QED BY <3>1
    <2> QED BY <1>2, <2>1, <2>2, <2>3
<1> QED
    BY <1>1, <1>2

LEMMA ReadFacts ==
    ASSUME bus \in Bus, NEW n \in Nat \ {0}, NEW o \in ReadOutcomes(bus, n, Faults)
    PROVE  /\ o.bus \in Bus
           /\ bus # Idle => o.bus # Idle
           /\ o.bus = Idle => o.end = "done"
<1>1. CASE bus # Idle
    <2>1. ~ Ready(bus)
        BY <1>1 DEF Ready, Bus
    <2>2. o = [end |-> "failed", bus |-> bus, passed |-> 0]
        BY <2>1 DEF ReadOutcomes, Refused, Outcome
    <2> QED BY <1>1, <2>2
<1>2. CASE bus = Idle
    <2>1. \/ o = Outcome("done", bus, n)
          \/ \E k \in 0 .. n - 1, b \in Bus \ {Idle} : o = Outcome("hung", b, k)
        BY <1>2, StickyBits DEF ReadOutcomes, Ready
    <2>2. CASE o = Outcome("done", bus, n)
        BY <1>2, <2>2 DEF Outcome
    <2>3. ASSUME NEW k, NEW b \in Bus \ {Idle}, o = Outcome("hung", b, k)
          PROVE  o.bus \in Bus /\ o.bus # Idle
        <3>1. o.bus = b
            BY <2>3 DEF Outcome
        <3> QED BY <3>1
    <2> QED BY <1>2, <2>1, <2>2, <2>3
<1> QED
    BY <1>1, <1>2

(* The buffer as one transfer: what the display newly shows comes from it, *)
(* nothing does on a bus that has failed, and on one that is still idle    *)
(* the display shows the buffer.                                           *)
LEMMA ShowFacts ==
    ASSUME bus \in Bus, panel \subseteq Pixels,
           NEW contents \in SUBSET Memory, NEW next, Show(contents, next)
    PROVE  /\ bus' \in Bus /\ panel' \subseteq Pixels
           /\ pc' \in {"hung", next}
           /\ bus # Idle => bus' # Idle /\ panel' \subseteq panel
           /\ bus' = Idle => panel' = contents \cap Pixels
           /\ panel' \subseteq panel \cup contents
<1>1. Size \in Nat
    BY PanelAssumption, SMT DEF Size
<1>2. PICK o \in WriteOutcomes(bus, 1 + Size, Faults) :
        /\ Goto(o, next)
        /\ panel' = {p \in Pixels : p \in IF p[1] < o.passed - 1 THEN contents ELSE panel}
    BY DEF Show
<1>3. 1 + Size \in Nat \ {0}
    BY <1>1
<1>4. /\ o.bus \in Bus /\ o.passed \in 0 .. 1 + Size
      /\ bus # Idle => o.passed = 0 /\ o.bus # Idle
      /\ o.bus = Idle => o.passed = 1 + Size /\ o.end = "done"
    BY <1>3, WriteFacts
<1>5. bus' = o.bus /\ pc' \in {"hung", next}
    BY <1>2 DEF Goto
<1>6. \A p \in Pixels : p[1] \in 0 .. Size - 1
    BY DEF Pixels
<1>7. ASSUME bus # Idle PROVE panel' \subseteq panel
    BY <1>2, <1>4, <1>6, <1>7
<1>8. ASSUME bus' = Idle PROVE panel' = contents \cap Pixels
    <2>1. o.passed - 1 = Size
        BY <1>1, <1>4, <1>5, <1>8
    <2>2. panel' = {p \in Pixels : p \in contents}
        BY <1>1, <1>2, <1>6, <2>1
    <2> QED BY <2>2
<1> QED
    BY <1>2, <1>4, <1>5, <1>7, <1>8

----------------------------------------------------------------------------
(* The invariant. *)

(* How many of the four coordinates have been read before command n. *)
Taken(n) == IF n <= 3 THEN 0 ELSE IF n >= 7 THEN 4 ELSE n - 3

Reading == pc \in {"command", "answer", "touched"}

(* The reading's bookkeeping. *)
ReadingInv ==
    /\ pc \in {"command", "answer"} => step <= 7
    /\ pc = "touched" => step = 8
    /\ Reading => Len(sample) = Taken(step)

(* The buffer, its honest part and the display. *)
PanelInv ==
    /\ pc = "boot" => points = 0 /\ buffer = {} /\ honest = {}
    /\ Alive => buffer = honest
    /\ Reading /\ Alive /\ points % ShowEvery = 0 => panel = buffer \cap Pixels

IInv == TypeOK /\ ReadingInv /\ PanelInv

LEMMA CommandsShape ==
    /\ Len(Commands) = 7
    /\ \A n \in 1 .. 7 : Commands[n] \in {"x", "y"} <=> n \in 3 .. 6
    BY DEF Commands

LEMMA FingerOnPanel ==
    ASSUME NEW f \in Positions \cup {Up}
    PROVE  f[1] \in 0 .. Max /\ f[2] \in 0 .. Max
    BY PanelAssumption DEF Up

LEMMA InitInv == Init => IInv
<1> SUFFICES ASSUME Init PROVE IInv
    OBVIOUS
<1> USE ConstantsAreNat DEF Init
<1>1. TypeOK
    <2>1. sample \in Seq(0 .. Max) /\ Len(sample) <= 4
        OBVIOUS
    <2>2. bus \in Bus
        BY DEF Bus, Initialised
    <2> QED BY <2>1, <2>2 DEF TypeOK
<1>2. ReadingInv /\ PanelInv
    BY DEF ReadingInv, PanelInv, Reading
<1> QED BY <1>1, <1>2 DEF IInv

(* Each action keeps the invariant. *)
LEMMA BootCommandInv == IInv /\ BootCommand => IInv'
<1> SUFFICES ASSUME IInv, BootCommand PROVE IInv'
    OBVIOUS
<1> USE ConstantsAreNat DEF BootCommand, IInv, oledVars
<1>1. PICK o \in WriteOutcomes(bus, 2, Faults) : Goto(o, "boot")
    OBVIOUS
<1>2. /\ o.bus \in Bus
      /\ bus # Idle => o.passed = 0 /\ o.bus # Idle
      /\ o.bus = Idle => o.passed = 2 /\ o.end = "done"
    BY WriteFacts DEF TypeOK
<1>3. bus' \in Bus /\ pc' \in {"boot", "hung"} /\ (bus # Idle => bus' # Idle)
    BY <1>1, <1>2 DEF Goto
<1>4. TypeOK'
    BY <1>3 DEF TypeOK
<1>5. ReadingInv' /\ PanelInv'
    BY <1>3 DEF ReadingInv, PanelInv, Reading, Alive
<1> QED BY <1>4, <1>5

LEMMA StartReadingInv ==
    ASSUME StartReading
    PROVE  /\ step' = 1 /\ sample' = <<>> /\ moves' = 0 /\ adc' = adc
           /\ sample' \in Seq(0 .. Max) /\ Len(sample') = 0
           /\ finger' \in Positions \cup {Up} /\ held' \subseteq Positions \cup {Up}
    BY DEF StartReading

LEMMA BootShowInv == IInv /\ BootShow => IInv'
<1> SUFFICES ASSUME IInv, BootShow PROVE IInv'
    OBVIOUS
<1> USE ConstantsAreNat DEF IInv
<1>1. pc = "boot" /\ buffer' = {} /\ UNCHANGED <<points, honest>>
    BY DEF BootShow
<1>2. points = 0 /\ honest = {} /\ bus \in Bus /\ panel \subseteq Pixels
    BY <1>1 DEF TypeOK, PanelInv
<1>3. CASE /\ step = InitCommands + 1 /\ Show({}, "boot")
           /\ step' = step + 1 /\ UNCHANGED <<finger, adc, sample, moves, held>>
    <2>1. /\ bus' \in Bus /\ panel' \subseteq Pixels /\ pc' \in {"hung", "boot"}
        BY <1>2, <1>3, ShowFacts
    <2>2. step' \in 1 .. InitCommands + 2 /\ sample' \in Seq(0 .. Max) /\ Len(sample') <= 4
        BY <1>3 DEF TypeOK
    <2>3. TypeOK'
        BY <1>1, <1>2, <1>3, <2>1, <2>2 DEF TypeOK
    <2>4. ReadingInv' /\ PanelInv'
        BY <1>1, <1>2, <2>1 DEF ReadingInv, PanelInv, Reading, Alive
    <2> QED BY <2>3, <2>4
<1>4. CASE step = InitCommands + 2 /\ Show({}, "command") /\ StartReading
    <2>1. /\ bus' \in Bus /\ panel' \subseteq Pixels /\ pc' \in {"hung", "command"}
          /\ bus' = Idle => panel' = {}
        BY <1>2, <1>4, ShowFacts
    <2>2. /\ step' = 1 /\ sample' \in Seq(0 .. Max) /\ Len(sample') = 0
          /\ moves' = 0 /\ adc' = adc
          /\ finger' \in Positions \cup {Up} /\ held' \subseteq Positions \cup {Up}
        BY <1>4, StartReadingInv
    <2>3. TypeOK'
        BY <1>1, <1>2, <2>1, <2>2, CommandsShape DEF TypeOK
    <2>4. ReadingInv' /\ PanelInv'
        BY <1>1, <1>2, <2>1, <2>2 DEF ReadingInv, PanelInv, Reading, Alive, Taken
    <2> QED BY <2>3, <2>4
<1> QED
    BY <1>3, <1>4 DEF BootShow

LEMMA CommandInv == IInv /\ Command => IInv'
<1> SUFFICES ASSUME IInv, Command PROVE IInv'
    OBVIOUS
<1> USE ConstantsAreNat DEF Command, IInv, oledVars
<1>1. PICK o \in WriteOutcomes(bus, 1, Faults) :
        /\ Goto(o, "answer")
        /\ adc' = IF o.passed = 1 THEN Converted(Commands[step]) ELSE adc
    OBVIOUS
<1>2. o.bus \in Bus /\ (bus # Idle => o.bus # Idle)
    BY WriteFacts DEF TypeOK
<1>3. bus' \in Bus /\ pc' \in {"answer", "hung"} /\ (bus # Idle => bus' # Idle)
    BY <1>1, <1>2 DEF Goto
<1>4. finger[1] \in 0 .. Max /\ finger[2] \in 0 .. Max
    BY FingerOnPanel DEF TypeOK
<1>5. adc' \in 0 .. Max
    BY <1>1, <1>4 DEF TypeOK, Converted
<1>6. TypeOK'
    BY <1>3, <1>5 DEF TypeOK
<1>7. ReadingInv' /\ PanelInv'
    BY <1>3 DEF ReadingInv, PanelInv, Reading, Alive
<1> QED BY <1>6, <1>7

LEMMA AnswerInv == IInv /\ Answer => IInv'
<1> SUFFICES ASSUME IInv, Answer PROVE IInv'
    OBVIOUS
<1> USE ConstantsAreNat DEF IInv
<1>1. PICK o \in ReadOutcomes(bus, 2, Faults) :
        /\ Goto(o, IF step = Len(Commands) THEN "touched" ELSE "command")
        /\ \E raw \in IF o.end = "done" THEN {adc} ELSE Leftovers :
              sample' = IF Commands[step] \in {"x", "y"} THEN Append(sample, raw) ELSE sample
    BY DEF Answer
<1>2. o.bus \in Bus /\ (bus # Idle => o.bus # Idle)
    BY ReadFacts DEF TypeOK
<1>3. /\ bus' \in Bus /\ (bus # Idle => bus' # Idle)
      /\ pc' \in {"hung", IF step = 7 THEN "touched" ELSE "command"}
    BY <1>1, <1>2, CommandsShape DEF Goto
<1>4. step \in 1 .. 7 /\ Len(sample) = Taken(step) /\ sample \in Seq(0 .. Max)
    BY CommandsShape DEF Answer, TypeOK, ReadingInv, Reading
<1>5. PICK raw \in 0 .. Max :
        sample' = IF step \in 3 .. 6 THEN Append(sample, raw) ELSE sample
    BY <1>1, <1>4, CommandsShape DEF TypeOK
<1>6. sample' \in Seq(0 .. Max) /\ Len(sample') = Taken(step + 1)
    <2>1. Append(sample, raw) \in Seq(0 .. Max) /\ Len(Append(sample, raw)) = Len(sample) + 1
        BY <1>4
    <2>2. CASE step \in 3 .. 6
        <3>1. Taken(step + 1) = Taken(step) + 1
            BY <2>2 DEF Taken
        <3> QED BY <1>4, <1>5, <2>1, <2>2, <3>1
    <2>3. CASE step \notin 3 .. 6
        <3>1. Taken(step + 1) = Taken(step)
            BY <1>4, <2>3 DEF Taken
        <3> QED BY <1>4, <1>5, <2>3, <3>1
    <2> QED BY <2>2, <2>3
<1>7. /\ step' = step + 1 /\ pc = "answer"
      /\ UNCHANGED <<finger, adc, moves, held, points, buffer, panel, honest>>
    BY DEF Answer, oledVars
<1>8. TypeOK'
    BY <1>3, <1>4, <1>6, <1>7, CommandsShape DEF TypeOK, Taken
<1>9. ReadingInv' /\ PanelInv'
    BY <1>3, <1>4, <1>6, <1>7 DEF ReadingInv, PanelInv, Reading, Alive
<1> QED BY <1>8, <1>9

LEMMA NoPointInv == IInv /\ NoPoint => IInv'
<1> SUFFICES ASSUME IInv, NoPoint PROVE IInv'
    OBVIOUS
<1> USE ConstantsAreNat DEF NoPoint, IInv, oledVars
<1>1. /\ step' = 1 /\ sample' \in Seq(0 .. Max) /\ Len(sample') = 0
      /\ moves' = 0 /\ adc' = adc
      /\ finger' \in Positions \cup {Up} /\ held' \subseteq Positions \cup {Up}
    BY StartReadingInv
<1>2. TypeOK'
    BY <1>1, CommandsShape DEF TypeOK
<1>3. ReadingInv' /\ PanelInv'
    BY <1>1 DEF ReadingInv, PanelInv, Reading, Alive, Taken
<1> QED BY <1>2, <1>3

(* A point that is drawn; while the bus works it is an honest one. *)
LEMMA DrawFacts ==
    ASSUME IInv, Draw
    PROVE  /\ bus' \in Bus /\ panel' \subseteq Pixels /\ pc' \in {"hung", "command"}
           /\ bus # Idle => bus' # Idle /\ panel' \subseteq panel
           /\ bus = Idle => buffer' = honest'
           /\ bus' = Idle /\ points' % ShowEvery = 0 => panel' = buffer' \cap Pixels
           /\ panel' \subseteq panel \cup buffer'
           /\ buffer' \subseteq Memory /\ honest' \subseteq Memory
<1> USE ConstantsAreNat DEF IInv
<1>1. Point(sample) \subseteq Memory
    BY PointInMemory DEF Draw, TypeOK, ReadingInv, Reading, Taken
<1>2. buffer' \subseteq Memory /\ honest' \subseteq Memory
    BY <1>1 DEF Draw, TypeOK
<1>3. bus = Idle => buffer' = honest'
    BY DEF Draw, PanelInv, Alive
<1>4. bus \in Bus /\ panel \subseteq Pixels
    BY DEF TypeOK
<1>5. CASE ShowDue(points')
    <2>1. Show(buffer', "command")
        BY <1>5 DEF Draw
    <2>2. buffer' \in SUBSET Memory
        BY <1>2
    <2> HIDE DEF IInv
    <2>3. /\ bus' \in Bus /\ panel' \subseteq Pixels /\ pc' \in {"hung", "command"}
          /\ bus # Idle => bus' # Idle /\ panel' \subseteq panel
          /\ bus' = Idle => panel' = buffer' \cap Pixels
          /\ panel' \subseteq panel \cup buffer'
        BY <1>4, <2>1, <2>2, ShowFacts
    <2> QED BY <1>2, <1>3, <2>3
<1>6. CASE ~ ShowDue(points')
    <2>1. pc' = "command" /\ UNCHANGED <<bus, panel>> /\ points' % ShowEvery # 0
        BY <1>6 DEF Draw, ShowDue
    <2> QED BY <1>2, <1>3, <1>4, <2>1
<1> QED BY <1>5, <1>6

LEMMA DrawInv == IInv /\ Draw => IInv'
<1> SUFFICES ASSUME IInv, Draw PROVE IInv'
    OBVIOUS
<1>1. /\ bus' \in Bus /\ panel' \subseteq Pixels /\ pc' \in {"hung", "command"}
      /\ bus # Idle => bus' # Idle /\ panel' \subseteq panel
      /\ bus = Idle => buffer' = honest'
      /\ bus' = Idle /\ points' % ShowEvery = 0 => panel' = buffer' \cap Pixels
      /\ buffer' \subseteq Memory /\ honest' \subseteq Memory
    BY DrawFacts
<1>2. /\ step' = 1 /\ sample' \in Seq(0 .. Max) /\ Len(sample') = 0
      /\ moves' = 0 /\ adc' = adc
      /\ finger' \in Positions \cup {Up} /\ held' \subseteq Positions \cup {Up}
    BY StartReadingInv DEF Draw
<1>3. points' \in 0 .. MaxPoints
    BY ConstantsAreNat DEF Draw, IInv, TypeOK
<1>4. TypeOK'
    BY <1>1, <1>2, <1>3, ConstantsAreNat, CommandsShape DEF IInv, TypeOK
<1>5. ReadingInv' /\ PanelInv'
    BY <1>1, <1>2 DEF ReadingInv, PanelInv, Reading, Alive, Taken
<1> QED BY <1>4, <1>5 DEF IInv

LEMMA MoveFingerInv == IInv /\ MoveFinger => IInv'
<1> SUFFICES ASSUME IInv, MoveFinger PROVE IInv'
    OBVIOUS
<1> USE ConstantsAreNat DEF MoveFinger, IInv, oledVars
<1>1. TypeOK'
    BY DEF TypeOK
<1>2. ReadingInv' /\ PanelInv'
    BY DEF ReadingInv, PanelInv, Reading, Alive
<1> QED BY <1>1, <1>2

LEMMA Invariance == IInv /\ [Next]_vars => IInv'
<1> SUFFICES ASSUME IInv, [Next]_vars PROVE IInv'
    OBVIOUS
<1>1. CASE UNCHANGED vars
    BY <1>1 DEF vars, touchVars, oledVars, IInv, TypeOK, ReadingInv, PanelInv, Reading, Alive
<1> QED
    BY <1>1, BootCommandInv, BootShowInv, CommandInv, AnswerInv, NoPointInv, DrawInv,
       MoveFingerInv DEF Next

LEMMA AlwaysInv == Spec => []IInv
    BY InitInv, Invariance, PTL DEF Spec

----------------------------------------------------------------------------
(* The theorems. *)

(* The type invariant: for every display, panel and reading, of            *)
(* uninitialised memory too, drawing writes no farther than the one byte   *)
(* behind the buffer (where ssd1306-display-driver.c:111 does write), and  *)
(* a reading has its four coordinates when it is judged.                   *)
THEOREM TypeCorrect == Spec => []TypeOK
<1>1. IInv => TypeOK
    BY DEF IInv
<1> QED
    BY <1>1, AlwaysInv, PTL

(* While the bus works the display shows every point drawn up to the last  *)
(* multiple of ShowEvery (main.c:193-195).                                 *)
THEOREM DisplayCatchesUp == Spec => []PanelCatchesUp
<1>1. IInv => PanelCatchesUp
    BY DEF IInv, PanelInv, Reading, PanelCatchesUp
<1> QED
    BY <1>1, AlwaysInv, PTL

(* No point drawn from uninitialised memory ever reaches the display,      *)
(* although nobody looks at what i2c_read returns (main.c:83): the error   *)
(* that spoils a reading stops every later write.                          *)
THEOREM NothingUnreadShown == Spec => PanelIsReal
<1>1. IInv /\ [Next]_vars => [panel' \ panel \subseteq honest']_vars
    <2> SUFFICES ASSUME IInv, Next PROVE panel' \ panel \subseteq honest'
        OBVIOUS
    <2>1. CASE Draw
        BY <2>1, DrawFacts DEF IInv, TypeOK
    <2>2. CASE BootShow
        <3>1. bus \in Bus /\ panel \subseteq Pixels
            BY DEF IInv, TypeOK
        <3>2. \E next \in {"boot", "command"} : Show({}, next)
            BY <2>2 DEF BootShow
        <3> QED BY <3>1, <3>2, ShowFacts
    <2>3. CASE BootCommand \/ Command \/ Answer \/ NoPoint \/ MoveFinger \/ UNCHANGED vars
        BY <2>3 DEF BootCommand, Command, Answer, NoPoint, MoveFinger, vars, oledVars
    <2> QED BY <2>1, <2>2, <2>3 DEF Next
<1> QED
    BY <1>1, AlwaysInv, PTL DEF Spec, PanelIsReal

----------------------------------------------------------------------------
(* Where the finger was, in order. *)

Whereabouts == Positions \cup {Up}

(* The coordinate that the k-th reading is of. *)
Axis(k) == IF k \in {1, 3} THEN 1 ELSE 2

(* The finger was at f[0], then at f[1], f[2]; the k-th reading is of its  *)
(* at[k]-th place, and no reading of an earlier place than the one before. *)
Followed(f, at) ==
    /\ f \in [0 .. 2 -> Whereabouts] /\ at \in [1 .. 4 -> 0 .. 2]
    /\ finger = f[moves] /\ \A i \in 0 .. moves : f[i] \in held
    /\ \A k \in 1 .. Len(sample) : at[k] <= moves /\ sample[k] = f[at[k]][Axis(k)]
    /\ \A j, k \in 1 .. Len(sample) : j <= k => at[j] <= at[k]

FingerInv ==
    /\ pc = "answer" /\ Alive => adc = Converted(Commands[step])
    /\ Reading /\ Alive => \E f \in [0 .. 2 -> Whereabouts], at \in [1 .. 4 -> 0 .. 2] : Followed(f, at)

LEMMA FollowNew ==
    ASSUME StartReading
    PROVE  \E f \in [0 .. 2 -> Whereabouts], at \in [1 .. 4 -> 0 .. 2] : Followed(f, at)'
<1>1. finger' \in Whereabouts /\ held' = {finger'} /\ moves' = 0 /\ sample' = <<>>
    BY DEF StartReading, Whereabouts
<1>2. PICK f \in [0 .. 2 -> Whereabouts], at \in [1 .. 4 -> 0 .. 2] : f[0] = finger'
    <2> DEFINE f == [i \in 0 .. 2 |-> finger']
               at == [k \in 1 .. 4 |-> 0]
    <2>1. f \in [0 .. 2 -> Whereabouts] /\ at \in [1 .. 4 -> 0 .. 2] /\ f[0] = finger'
        BY <1>1
    <2> HIDE DEF f, at
    <2> QED BY <2>1
<1>3. Len(sample') = 0
    BY <1>1
<1>4. Followed(f, at)'
    BY <1>1, <1>2, <1>3 DEF Followed
<1> QED BY <1>2, <1>4

(* The finger moves on to its next place. *)
LEMMA FollowMove ==
    ASSUME MaxMoves <= 2, TypeOK, MoveFinger,
           NEW f \in [0 .. 2 -> Whereabouts], NEW at \in [1 .. 4 -> 0 .. 2], Followed(f, at)
    PROVE  \E g \in [0 .. 2 -> Whereabouts] : Followed(g, at)'
<1>1. /\ finger' \in Whereabouts /\ held' = held \cup {finger'} /\ moves' = moves + 1
      /\ sample' = sample /\ moves \in 0 .. 1 /\ moves + 1 \in 0 .. 2
    BY ConstantsAreNat DEF MoveFinger, TypeOK, Whereabouts
<1>2. PICK g \in [0 .. 2 -> Whereabouts] :
        g[moves + 1] = finger' /\ \A i \in 0 .. moves : g[i] = f[i]
    <2> DEFINE g == [f EXCEPT ![moves + 1] = finger']
    <2>1. /\ g \in [0 .. 2 -> Whereabouts] /\ g[moves + 1] = finger'
          /\ \A i \in 0 .. moves : g[i] = f[i]
        BY <1>1
    <2> HIDE DEF g
    <2> QED BY <2>1
<1>3. \A i \in 0 .. moves + 1 : g[i] \in held'
    BY <1>1, <1>2 DEF Followed
<1>4. \A k \in 1 .. Len(sample) : at[k] <= moves + 1 /\ sample[k] = g[at[k]][Axis(k)]
    <2> SUFFICES ASSUME NEW k \in 1 .. Len(sample)
                 PROVE  at[k] <= moves + 1 /\ sample[k] = g[at[k]][Axis(k)]
        OBVIOUS
    <2>1. k \in 1 .. 4
        BY DEF TypeOK
    <2>2. at[k] \in 0 .. moves /\ sample[k] = f[at[k]][Axis(k)]
        BY <1>1, <2>1 DEF Followed
    <2> QED BY <1>1, <1>2, <2>2
<1>5. Followed(g, at)'
    BY <1>1, <1>2, <1>3, <1>4 DEF Followed
<1> QED BY <1>2, <1>5

(* A coordinate of the finger's last place is read. *)
LEMMA FollowRead ==
    ASSUME TypeOK, sample' = Append(sample, finger[Axis(Len(sample) + 1)]), Len(sample) <= 3,
           UNCHANGED <<finger, moves, held>>, moves \in 0 .. 2,
           NEW f \in [0 .. 2 -> Whereabouts], NEW at \in [1 .. 4 -> 0 .. 2], Followed(f, at)
    PROVE  \E to \in [1 .. 4 -> 0 .. 2] : Followed(f, to)'
<1> DEFINE n == Len(sample) + 1
<1>1. /\ n \in 1 .. 4 /\ Len(sample') = n /\ sample'[n] = finger[Axis(n)]
      /\ \A k \in 1 .. Len(sample) : sample'[k] = sample[k]
    BY DEF TypeOK
<1>2. PICK to \in [1 .. 4 -> 0 .. 2] :
        to[n] = moves /\ \A k \in 1 .. Len(sample) : to[k] = at[k] /\ k # n
    <2>1. [at EXCEPT ![n] = moves] \in [1 .. 4 -> 0 .. 2]
        BY <1>1
    <2>2. \A k \in 1 .. Len(sample) : k \in 1 .. 4 /\ k # n
        BY <1>1 DEF TypeOK
    <2> QED BY <1>1, <2>1, <2>2
<1>3. 1 .. n = 1 .. Len(sample) \cup {n}
    BY <1>1 DEF TypeOK
<1> HIDE DEF n
<1>4. \A k \in 1 .. n : to[k] <= moves /\ sample'[k] = f[to[k]][Axis(k)]
    BY <1>1, <1>2, <1>3 DEF Followed
<1>5. \A j, k \in 1 .. n : j <= k => to[j] <= to[k]
    <2> SUFFICES ASSUME NEW j \in 1 .. n, NEW k \in 1 .. n, j <= k PROVE to[j] <= to[k]
        OBVIOUS
    <2>1. CASE k = n
        BY <1>2, <1>4, <2>1
    <2>2. CASE k # n
        <3>1. k \in 1 .. Len(sample) /\ j \in 1 .. Len(sample)
            BY <1>1, <1>3, <2>2 DEF n, TypeOK
        <3> QED BY <1>2, <3>1 DEF Followed
    <2> QED BY <2>1, <2>2
<1>6. Followed(f, to)'
    BY <1>1, <1>2, <1>4, <1>5 DEF Followed
<1> QED BY <1>2, <1>6

LEMMA FollowSame ==
    ASSUME UNCHANGED <<finger, moves, held, sample>>, NEW f, NEW at, Followed(f, at)
    PROVE  Followed(f, at)'
    BY DEF Followed

(* A bus that works now has worked before. *)
LEMMA StillAlive ==
    ASSUME IInv, [Next]_vars, Alive'
    PROVE  Alive
<1>1. bus \in Bus
    BY DEF IInv, TypeOK
<1>2. CASE Command
    <2>1. PICK o \in WriteOutcomes(bus, 1, Faults) : bus' = o.bus
        BY <1>2 DEF Command, Goto
    <2>2. o.bus = Idle => bus = Idle
        BY <1>1, WriteFacts
    <2> QED BY <2>1, <2>2 DEF Alive
<1>3. CASE Answer
    <2>1. PICK o \in ReadOutcomes(bus, 2, Faults) : bus' = o.bus
        BY <1>3 DEF Answer, Goto
    <2>2. o.bus = Idle => bus = Idle
        BY <1>1, ReadFacts
    <2> QED BY <2>1, <2>2 DEF Alive
<1>4. CASE BootCommand
    <2>1. PICK o \in WriteOutcomes(bus, 2, Faults) : bus' = o.bus
        BY <1>4 DEF BootCommand, Goto
    <2>2. o.bus = Idle => bus = Idle
        BY <1>1, WriteFacts
    <2> QED BY <2>1, <2>2 DEF Alive
<1>5. CASE BootShow
    <2>1. \E next : Show({}, next)
        BY <1>5 DEF BootShow
    <2>2. panel \subseteq Pixels
        BY DEF IInv, TypeOK
    <2> QED BY <1>1, <2>1, <2>2, ShowFacts DEF Alive
<1>6. CASE Draw
    BY <1>6, DrawFacts DEF Alive
<1>7. CASE NoPoint \/ MoveFinger \/ UNCHANGED vars
    BY <1>7 DEF NoPoint, MoveFinger, vars, Alive
<1> QED BY <1>2, <1>3, <1>4, <1>5, <1>6, <1>7 DEF Next

LEMMA CommandFinger ==
    ASSUME IInv, FingerInv, Command
    PROVE  FingerInv'
<1>1. PICK o \in WriteOutcomes(bus, 1, Faults) :
        /\ Goto(o, "answer")
        /\ adc' = IF o.passed = 1 THEN Converted(Commands[step]) ELSE adc
    BY DEF Command
<1>2. /\ pc = "command" /\ bus' = o.bus /\ (o.bus = Idle => o.passed = 1)
      /\ UNCHANGED <<finger, step, sample, moves, held>>
    BY <1>1, WriteFacts DEF Command, Goto, IInv, TypeOK
<1>3. Alive' => Alive
    BY StillAlive DEF Next
<1>4. Alive' => adc' = Converted(Commands[step])
    BY <1>1, <1>2 DEF Alive
<1>5. Converted(Commands[step])' = Converted(Commands[step])
    BY <1>2 DEF Converted, Commands
<1>6. Alive' => \E f \in [0 .. 2 -> Whereabouts], at \in [1 .. 4 -> 0 .. 2] : Followed(f, at)'
    BY <1>2, <1>3, FollowSame DEF FingerInv, Reading
<1> QED BY <1>4, <1>5, <1>6 DEF FingerInv

LEMMA AnswerFinger ==
    ASSUME MaxMoves <= 2, IInv, FingerInv, Answer
    PROVE  FingerInv'
<1>1. PICK o \in ReadOutcomes(bus, 2, Faults) :
        /\ Goto(o, IF step = Len(Commands) THEN "touched" ELSE "command")
        /\ \E raw \in IF o.end = "done" THEN {adc} ELSE Leftovers :
              sample' = IF Commands[step] \in {"x", "y"} THEN Append(sample, raw) ELSE sample
    BY DEF Answer
<1>2. /\ pc = "answer" /\ bus' = o.bus /\ (o.bus = Idle => o.end = "done")
      /\ UNCHANGED <<finger, moves, held>> /\ pc' # "answer"
    BY <1>1, ReadFacts DEF Answer, Goto, IInv, TypeOK
<1>3. Alive' => Alive
    BY StillAlive DEF Next
<1>4. SUFFICES ASSUME Alive'
               PROVE  \E f \in [0 .. 2 -> Whereabouts], at \in [1 .. 4 -> 0 .. 2] : Followed(f, at)'
    BY <1>2 DEF FingerInv
<1>5. /\ sample' = IF Commands[step] \in {"x", "y"} THEN Append(sample, adc) ELSE sample
      /\ adc = Converted(Commands[step])
    BY <1>1, <1>2, <1>3, <1>4 DEF Alive, FingerInv
<1>6. PICK f \in [0 .. 2 -> Whereabouts], at \in [1 .. 4 -> 0 .. 2] : Followed(f, at)
    BY <1>2, <1>3, <1>4 DEF FingerInv, Reading
<1>7. step \in 1 .. 7 /\ Len(sample) = Taken(step) /\ moves \in 0 .. 2
    BY <1>2, CommandsShape, ConstantsAreNat DEF IInv, TypeOK, ReadingInv, Reading
<1>8. CASE step \in 3 .. 6
    <2>1. Commands[step] \in {"x", "y"} /\ Len(sample) = step - 3 /\ Len(sample) <= 3
        BY <1>7, <1>8, CommandsShape DEF Taken
    <2>2. adc = finger[Axis(step - 2)]
        BY <1>5, <1>8 DEF Commands, Converted, Axis
    <2>3. step - 2 = Len(sample) + 1
        BY <2>1, <1>7
    <2>4. sample' = Append(sample, finger[Axis(Len(sample) + 1)])
        BY <1>5, <2>1, <2>2, <2>3
    <2>5. TypeOK
        BY DEF IInv
    <2> QED BY <1>2, <1>6, <1>7, <2>1, <2>4, <2>5, FollowRead
<1>9. CASE step \notin 3 .. 6
    BY <1>2, <1>5, <1>6, <1>7, <1>9, CommandsShape, FollowSame
<1> QED BY <1>8, <1>9

LEMMA FingerStep ==
    ASSUME MaxMoves <= 2, IInv, FingerInv, [Next]_vars
    PROVE  FingerInv'
<1>1. Alive' => Alive
    BY StillAlive
<1>2. CASE BootCommand
    <2>1. pc' \notin {"command", "answer", "touched"}
        BY <1>2 DEF BootCommand, Goto
    <2> QED BY <2>1 DEF FingerInv, Reading
<1>3. CASE StartReading /\ pc' # "answer"
    BY <1>3, FollowNew DEF FingerInv
<1>4. CASE BootShow
    <2>1. CASE Show({}, "boot")
        <3>1. pc' \notin {"command", "answer", "touched"}
            BY <2>1 DEF Show, Goto
        <3> QED BY <3>1 DEF FingerInv, Reading
    <2>2. CASE Show({}, "command") /\ StartReading
        <3>1. pc' # "answer"
            BY <2>2 DEF Show, Goto
        <3> QED BY <1>3, <2>2, <3>1
    <2> QED BY <1>4, <2>1, <2>2 DEF BootShow
<1>5. CASE NoPoint
    BY <1>3, <1>5 DEF NoPoint
<1>6. CASE Draw
    BY <1>3, <1>6, DrawFacts DEF Draw
<1>7. CASE MoveFinger
    <2>1. pc = "command" /\ pc' = "command"
        BY <1>7 DEF MoveFinger
    <2>2. ASSUME Alive'
          PROVE  \E f \in [0 .. 2 -> Whereabouts], at \in [1 .. 4 -> 0 .. 2] : Followed(f, at)'
        <3>1. PICK f \in [0 .. 2 -> Whereabouts], at \in [1 .. 4 -> 0 .. 2] : Followed(f, at)
            BY <1>1, <2>1, <2>2 DEF FingerInv, Reading
        <3>2. TypeOK
            BY DEF IInv
        <3> QED BY <1>7, <3>1, <3>2, FollowMove
    <2> QED BY <2>1, <2>2 DEF FingerInv
<1>8. CASE UNCHANGED vars
    <2>1. UNCHANGED <<pc, bus, finger, adc, step, moves, held, sample>>
        BY <1>8 DEF vars, touchVars
    <2>2. Converted(Commands[step])' = Converted(Commands[step])
        BY <2>1 DEF Converted, Commands
    <2>3. Alive' /\ Reading' => \E f \in [0 .. 2 -> Whereabouts], at \in [1 .. 4 -> 0 .. 2] : Followed(f, at)'
        BY <2>1, FollowSame DEF FingerInv, Reading, Alive
    <2> QED BY <2>1, <2>2, <2>3 DEF FingerInv, Alive
<1> QED BY <1>2, <1>4, <1>5, <1>6, <1>7, <1>8, CommandFinger, AnswerFinger DEF Next

(* Two of four readings that follow one another are of one of the three    *)
(* places.                                                                 *)
LEMMA SampleOfAPlace ==
    ASSUME MaxMoves <= 2, TypeOK, Len(sample) = 4, Accepted(sample),
           \A p, q \in Positions : p[1] + Tolerance < Max \/ q[2] + Tolerance < Max,
           NEW f \in [0 .. 2 -> Whereabouts], NEW at \in [1 .. 4 -> 0 .. 2], Followed(f, at)
    PROVE  \E p \in held \ {Up} : Near(sample[1], p[1]) /\ Near(sample[2], p[2])
<1> DEFINE a == at[1]
           b == at[2]
           c == at[3]
           d == at[4]
<1>1. /\ a \in 0 .. 2 /\ b \in 0 .. 2 /\ c \in 0 .. 2 /\ d \in 0 .. 2
      /\ a <= b /\ b <= c /\ c <= d /\ d <= moves /\ moves \in 0 .. 2
    BY ConstantsAreNat DEF Followed, TypeOK
<1>2. /\ sample[1] = f[a][1] /\ sample[2] = f[b][2]
      /\ sample[3] = f[c][1] /\ sample[4] = f[d][2]
    BY DEF Followed, Axis
<1> HIDE DEF a, b, c, d
<1>3. \A i \in {a, b, c, d} : f[i] \in held /\ f[i] \in Whereabouts
    BY <1>1 DEF Followed
<1>4. \A p \in Whereabouts : p[1] \in 0 .. Max /\ p[2] \in 0 .. Max
    BY FingerOnPanel DEF Whereabouts
<1>5. /\ Near(sample[1], sample[3]) /\ Near(sample[2], sample[4])
      /\ sample[1] # Max /\ sample[2] # Max
    BY DEF Accepted, Agree
<1>6. f[a] # Up /\ f[b] # Up
    BY <1>2, <1>5 DEF Up
<1>7. \A m \in 0 .. Max : Near(m, m)
    BY PanelAssumption DEF Near
<1>8. CASE a = b
    BY <1>2, <1>3, <1>4, <1>6, <1>7, <1>8
<1>9. CASE b = c
    BY <1>2, <1>3, <1>4, <1>5, <1>6, <1>7, <1>9
<1>10. CASE c = d
    <2>1. f[c] # Up
        <3>1. SUFFICES ASSUME f[c] = Up PROVE FALSE
            OBVIOUS
        <3>2. f[a] \in Positions /\ f[b] \in Positions
            BY <1>3, <1>6 DEF Whereabouts
        <3>3. Near(f[a][1], Max) /\ Near(f[b][2], Max)
            BY <1>2, <1>5, <1>10, <3>1 DEF Up
        <3>4. f[a][1] + Tolerance >= Max /\ f[b][2] + Tolerance >= Max
            BY <1>3, <1>4, <3>3, PanelAssumption DEF Near
        <3>5. f[a][1] + Tolerance < Max \/ f[b][2] + Tolerance < Max
            BY <3>2
        <3>6. f[a][1] + Tolerance \in Int /\ f[b][2] + Tolerance \in Int /\ Max \in Int
            BY <1>3, <1>4, PanelAssumption
        <3> QED BY <3>4, <3>5, <3>6
    <2> QED BY <1>2, <1>3, <1>5, <1>10, <2>1
<1>11. a = b \/ b = c \/ c = d
    BY <1>1
<1> QED BY <1>8, <1>9, <1>10, <1>11

(* An accepted reading is one of a place where the finger was, for every   *)
(* tolerance and all places, when the finger moves or is lifted no more    *)
(* than twice meanwhile and the panel's far edges read less than Max by    *)
(* more than the tolerance in one coordinate: what a lifted finger reads   *)
(* then agrees with no place.                                              *)
THEOREM AcceptedIsReal ==
    ASSUME MaxMoves <= 2,
           \A p, q \in Positions : p[1] + Tolerance < Max \/ q[2] + Tolerance < Max
    PROVE  Spec => []SampleIsReal
<1>1. Init => FingerInv
    BY DEF Init, FingerInv, Reading
<1>2. IInv /\ FingerInv /\ [Next]_vars => (IInv /\ FingerInv)'
    BY Invariance, FingerStep
<1>3. IInv /\ FingerInv => SampleIsReal
    <2> SUFFICES ASSUME IInv, FingerInv, pc = "touched", Accepted(sample), Alive
                 PROVE  \E p \in held \ {Up} : Near(sample[1], p[1]) /\ Near(sample[2], p[2])
        BY DEF SampleIsReal
    <2>1. TypeOK /\ Len(sample) = 4
        BY DEF IInv, ReadingInv, Reading, Taken
    <2>2. PICK f \in [0 .. 2 -> Whereabouts], at \in [1 .. 4 -> 0 .. 2] : Followed(f, at)
        BY DEF FingerInv, Reading
    <2> QED BY <2>1, <2>2, SampleOfAPlace
<1> QED BY <1>1, <1>2, <1>3, InitInv, PTL DEF Spec
=============================================================================
