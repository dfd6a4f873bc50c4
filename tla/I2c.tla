------------------------------- MODULE I2c ---------------------------------
(***************************************************************************)
(* The polled I2C driver (libs/i2c/i2c.c) at the grain of one transfer.    *)
(* Nothing else uses the controller, so that a transfer is one step; what  *)
(* it meets on the bus is the environment's choice.  A transfer ends in    *)
(* one of these ways: "done" (the function returns 1), "failed" (it        *)
(* returns 0) or "hung" (a loop on a status bit that never comes).         *)
(*                                                                         *)
(* Of the status register the bits count that outlive a transfer: ERR, set *)
(* by a missing acknowledgement, and CLKT, set by a clock that is held too *)
(* long.  Both stay set until a one is written to them; the transfers      *)
(* write back a register in which they are clear, and i2c_init writes one  *)
(* to ERR and DONE alone.                                                  *)
(***************************************************************************)
EXTENDS Integers

CONSTANT Fifo       \* bytes that the controller buffers: 16
ASSUME FifoAssumption == Fifo \in Nat /\ Fifo >= 2     \* a command fits into it

Bus == [err : BOOLEAN, clkt : BOOLEAN]
Idle == [err |-> FALSE, clkt |-> FALSE]

(* The checks before a transfer (the FIFO is empty unless ERR is set). *)
Ready_NoCheck(bus) == TRUE
Ready(bus) == ~ bus.err /\ ~ bus.clkt

(* What became of n bytes of a transfer: how the call ended and how many   *)
(* of them have passed, of which the device, for a write, has all or, for  *)
(* a read, the program.                                                    *)
Outcome(end, bus, passed) == [end |-> end, bus |-> bus, passed |-> passed]

Refused(bus) == Outcome("failed", bus, 0)

(* i2c_write.  The device may stop acknowledging after any byte.  The loop *)
(* that fills the FIFO then hangs on TXD if more bytes are left than it    *)
(* holds; otherwise DONE comes and the last check finds ERR.  A stretched  *)
(* clock is not looked at after the transfer: 1 is returned.               *)
WriteOutcomes(bus, n, faults) ==
    IF ~ Ready(bus) THEN {Refused(bus)} ELSE
    {Outcome("done", bus, n)}
      \cup {Outcome(IF n - k > Fifo THEN "hung" ELSE "failed", [bus EXCEPT !.err = TRUE], k) :
              k \in {j \in 0 .. n - 1 : "nak" \in faults}}
      \cup {Outcome("done", [bus EXCEPT !.clkt = TRUE], k) :
              k \in {j \in 0 .. n - 1 : "stretch" \in faults}}

(* i2c_read.  A device that does not acknowledge its address sends no      *)
(* byte, for which the loop on RXD waits forever.                          *)
ReadOutcomes(bus, n, faults) ==
    IF ~ Ready(bus) THEN {Refused(bus)} ELSE
    {Outcome("done", bus, n)}
      \cup {Outcome("hung", [bus EXCEPT !.err = TRUE], 0) : f \in faults \cap {"nak"}}
      \cup {Outcome("hung", [bus EXCEPT !.clkt = TRUE], k) :
              k \in {j \in 0 .. n - 1 : "stretch" \in faults}}

(* i2c_init clears ERR and DONE, but not CLKT. *)
Initialised(bus) == [bus EXCEPT !.err = FALSE]
=============================================================================
