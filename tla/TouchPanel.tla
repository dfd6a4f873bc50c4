---------------------------- MODULE TouchPanel -----------------------------
(***************************************************************************)
(* The other half of the cap's main loop (main.c): the OLED display's      *)
(* start (ssd1306-display-driver.c), then in every iteration one reading   *)
(* of the touch panel by seven commands to its controller, the point drawn *)
(* into the display's buffer and, at every fifth point, the buffer sent to *)
(* the display.  All of it goes over one I2C bus, whose failures nobody    *)
(* looks at.  The finger moves, comes and goes between any two transfers.  *)
(*                                                                         *)
(* A pixel of the buffer is the index of its byte and its bit in it; byte  *)
(* Size is the one behind the buffer, which drawing writes as well.  The   *)
(* display is scaled down by Columns, Pages and PageBits, the touch        *)
(* controller's 12 bits to 0 .. Max.                                       *)
(***************************************************************************)
EXTENDS I2c, Sequences, FiniteSets

CONSTANTS
    Max,            \* 4095: the highest reading, and that of a panel untouched
    Tolerance,      \* 100: how far two readings of one point may differ
    Positions,      \* where the finger may press
    Columns,        \* SSD1306_DISPLAY_WIDTH
    Pages,          \* SSD1306_DISPLAY_HEIGHT / PageBits
    PageBits,       \* 8 rows to a byte
    Leftovers,      \* readings that uninitialised memory may look like
    ShowEvery,      \* 5 points
    InitCommands,   \* 27: the commands of ssd1306_display_init
    Faults,         \* what may go wrong on the bus
    MaxMoves,       \* bound: moves of the finger during one reading
    MaxPoints       \* bound: points that are drawn

ASSUME PanelAssumption ==
    /\ {Max, Columns, Pages, PageBits, ShowEvery, InitCommands} \subseteq Nat \ {0}
    /\ {Tolerance, MaxMoves, MaxPoints} \subseteq Nat
    /\ Positions \subseteq (0 .. Max - 1) \X (0 .. Max - 1)
    /\ Leftovers \subseteq 0 .. Max
    /\ Faults \subseteq {"nak", "stretch"}

VARIABLES
    pc,         \* "boot", "command", "answer", "touched", "hung"
    step,       \* the command that is next, of the display's or of a reading's
    bus,        \* the I2C controller's sticky status
    finger,     \* where the panel is pressed, or Up
    adc,        \* what the touch controller has converted last
    sample,     \* the readings of X, Y, X, Y so far
    moves,      \* moves of the finger in this reading
    points,     \* point_count
    buffer,     \* display_buffer and the byte behind it: the bits that are set
    panel,      \* the pixels that the display shows
    held,       \* history: where the finger was during this reading
    honest      \* history: pixels drawn from readings without a failure

touchVars == <<step, adc, sample, moves, held>>
oledVars == <<points, buffer, panel, honest>>
vars == <<pc, bus, finger, touchVars, oledVars>>

Up == <<Max, Max>>

(* The driver's own commands: pressure, pressure, X, Y, X, Y, power down. *)
Commands == <<"z1", "z2", "x", "y", "x", "y", "powerdown">>
Converted(command) == CASE command = "x" -> finger[1]
                        [] command = "y" -> finger[2]
                        [] OTHER -> 0

----------------------------------------------------------------------------
(* The display's buffer. *)

Size == Columns * Pages
Height == Pages * PageBits
Pixels == (0 .. Size - 1) \X (0 .. PageBits - 1)
Memory == (0 .. Size) \X (0 .. PageBits - 1)

(* ssd1306_display_draw_pixel in white sets the pixel, turned by 180       *)
(* degrees, and the one in the next byte.  After the last byte that one is *)
(* no pixel: the write goes past i2c_buffer.                               *)
Lit(x, y) ==
    LET row == Height - 1 - y
        byte == (row \div PageBits) * Columns + (Columns - 1 - x)
    IN  {<<byte, row % PageBits>>, <<byte + 1, row % PageBits>>}

(* oled_draw_touch_point: the point and its neighbours on the display. *)
Cross(x, y) ==
    UNION {Lit(c[1], c[2]) : c \in {<<x, y>>} \cup
        {n \in {<<x - 1, y>>, <<x + 1, y>>, <<x, y - 1>>, <<x, y + 1>>} :
            n[1] \in 0 .. Columns - 1 /\ n[2] \in 0 .. Height - 1}}

(* map_touch_to_pixel turns the panel by 90 degrees. *)
Scaled_ByMax(touch, range) == ((Max - touch) * range) \div Max
Scaled(touch, range) == ((Max - touch) * range) \div (Max + 1)
Point(s) == Cross(Scaled(s[2], Columns), Scaled(s[1], Height))

----------------------------------------------------------------------------
(* Where the program goes on after a transfer. *)
Goto(outcome, next) ==
    /\ bus' = outcome.bus
    /\ pc' = IF outcome.end = "hung" THEN "hung" ELSE next

(* ssd1306_display_show of a buffer: a control byte, then the buffer's     *)
(* bytes, of which a display that missed the rest shows the first.         *)
Show(contents, next) ==
    \E o \in WriteOutcomes(bus, 1 + Size, Faults) :
        /\ Goto(o, next)
        /\ panel' = {p \in Pixels : p \in IF p[1] < o.passed - 1 THEN contents ELSE panel}

(* ssd1306_display_init's commands of two bytes each; nobody looks at what *)
(* became of them.                                                         *)
BootCommand ==
    /\ pc = "boot" /\ step <= InitCommands
    /\ \E o \in WriteOutcomes(bus, 2, Faults) : Goto(o, "boot")
    /\ step' = step + 1
    /\ UNCHANGED <<finger, adc, sample, moves, held, oledVars>>

StartReading ==
    /\ step' = 1 /\ sample' = <<>> /\ moves' = 0
    /\ finger' \in Positions \cup {Up} /\ held' = {finger'}
    /\ UNCHANGED adc

(* The display is cleared twice, by its own init and by notmain. *)
BootShow ==
    /\ pc = "boot" /\ step > InitCommands
    /\ buffer' = {}
    /\ \/ /\ step = InitCommands + 1
          /\ Show({}, "boot")
          /\ step' = step + 1 /\ UNCHANGED <<finger, adc, sample, moves, held>>
       \/ step = InitCommands + 2 /\ Show({}, "command") /\ StartReading
    /\ UNCHANGED <<points, honest>>

(* tsc2007_cmd: the command, on which the touch controller converts, and   *)
(* half a millisecond later the answer.  A failed i2c_read leaves raw[]    *)
(* uninitialised: Leftovers of the stack.                                  *)
Command ==
    /\ pc = "command"
    /\ \E o \in WriteOutcomes(bus, 1, Faults) :
          /\ Goto(o, "answer")
          /\ adc' = IF o.passed = 1 THEN Converted(Commands[step]) ELSE adc
    /\ UNCHANGED <<finger, step, sample, moves, held, oledVars>>

Answer ==
    /\ pc = "answer"
    /\ \E o \in ReadOutcomes(bus, 2, Faults) :
          /\ Goto(o, IF step = Len(Commands) THEN "touched" ELSE "command")
          /\ \E raw \in IF o.end = "done" THEN {adc} ELSE Leftovers :
                sample' = IF Commands[step] \in {"x", "y"} THEN Append(sample, raw) ELSE sample
    /\ step' = step + 1
    /\ UNCHANGED <<finger, adc, moves, held, oledVars>>

(* tsc2007_read_touch: two readings that agree, of a panel that is touched. *)
Near(a, b) == a - b \in - Tolerance .. Tolerance
Agree_XOnly(s) == Near(s[1], s[3])
Agree(s) == Near(s[1], s[3]) /\ Near(s[2], s[4])
Accepted(s) == Agree(s) /\ s[1] # Max /\ s[2] # Max

(* The display is sent at every ShowEvery-th point. *)
ShowDue_Before(n) == (n - 1) % ShowEvery = 0
ShowDue(n) == n % ShowEvery = 0

Alive == bus = Idle

NoPoint ==
    /\ pc = "touched" /\ ~ Accepted(sample)
    /\ pc' = "command" /\ StartReading
    /\ UNCHANGED <<bus, oledVars>>

Draw ==
    /\ pc = "touched" /\ Accepted(sample) /\ points < MaxPoints
    /\ buffer' = buffer \cup Point(sample)
    /\ honest' = IF Alive THEN honest \cup Point(sample) ELSE honest
    /\ points' = points + 1
    /\ IF ShowDue(points') THEN Show(buffer', "command")
                           ELSE pc' = "command" /\ UNCHANGED <<bus, panel>>
    /\ StartReading

(* The finger moves; only the commands look at it. *)
MoveFinger ==
    /\ pc = "command" /\ moves < MaxMoves
    /\ finger' \in (Positions \cup {Up}) \ {finger}
    /\ held' = held \cup {finger'} /\ moves' = moves + 1
    /\ UNCHANGED <<pc, bus, step, adc, sample, oledVars>>

(* i2c_init on whatever the last program left; the display shows noise. *)
Init ==
    /\ pc = "boot" /\ step = 1 /\ bus \in {Initialised(b) : b \in Bus}
    /\ finger = Up /\ adc = 0 /\ sample = <<>> /\ moves = 0 /\ held = {}
    /\ points = 0 /\ buffer = {} /\ panel = Pixels /\ honest = {}

Stopped == \/ pc = "hung"
           \/ pc = "touched" /\ Accepted(sample) /\ points = MaxPoints

Next == \/ BootCommand \/ BootShow \/ Command \/ Answer \/ NoPoint \/ Draw \/ MoveFinger
        \/ Stopped /\ UNCHANGED vars

Spec == Init /\ [][Next]_vars

----------------------------------------------------------------------------
(* What the variables hold.  Whatever was read, be it uninitialised memory, *)
(* drawing writes the buffer and at most the one byte behind it, which      *)
(* ssd1306-display-driver.c:111 does write; the display gets pixels only.   *)
TypeOK ==
    /\ pc \in {"boot", "command", "answer", "touched", "hung"}
    /\ step \in Nat
    /\ pc # "hung" => step \in 1 .. (IF pc = "boot" THEN InitCommands + 2 ELSE Len(Commands) + 1)
    /\ bus \in Bus /\ finger \in Positions \cup {Up} /\ adc \in 0 .. Max
    /\ sample \in Seq(0 .. Max) /\ Len(sample) <= 4 /\ moves \in 0 .. MaxMoves
    /\ points \in 0 .. MaxPoints
    /\ buffer \subseteq Memory /\ honest \subseteq Memory /\ panel \subseteq Pixels
    /\ held \subseteq Positions \cup {Up}

(* The coordinates of an accepted reading come from four instants.  While  *)
(* the bus works they are those of one place, up to the tolerance, where   *)
(* the finger was during the reading, even if it moved or was lifted twice *)
(* meanwhile; unless one place is within the tolerance of Max in X and one *)
(* in Y, with which the readings of a lifted finger then agree.            *)
SampleIsReal ==
    pc = "touched" /\ Accepted(sample) /\ Alive
    => \E p \in held \ {Up} : Near(sample[1], p[1]) /\ Near(sample[2], p[2])

(* Once a transfer has failed, points are drawn from uninitialised memory. *)
(* They never reach the display: what newly lights up on it comes from     *)
(* readings in which every transfer was good.                              *)
PanelIsReal == [][panel' \ panel \subseteq honest']_vars

(* While the bus works the display shows all points drawn up to the last   *)
(* multiple of ShowEvery, and nothing else.                                *)
PanelCatchesUp ==
    pc = "command" /\ Alive /\ points % ShowEvery = 0 => panel = buffer \cap Pixels
=============================================================================
