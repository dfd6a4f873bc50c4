-------------------------------- MODULE Pl011 --------------------------------
(***************************************************************************)
(* The UART driver of 10-bluetooth: the interrupt handler and the program  *)
(* feed one receive queue from one hardware FIFO, and the program's        *)
(* instructions may be interrupted between any two.                        *)
(*                                                                         *)
(* Two builds share the model.  pl011.c looks into the hardware FIFO       *)
(* itself while its queue is empty; staff-pl011.c waits for the queue.     *)
(*                                                                         *)
(* The queue (circular.h) is not in the repository.  Its push takes the    *)
(* index of the end, writes the slot there and moves the end.  The handler *)
(* does the three at once, as the program stands still within it; the      *)
(* program's push may be interrupted between any two of them.              *)
(*                                                                         *)
(* A byte is known by its position in the stream: 1, 2, ...                *)
(***************************************************************************)
EXTENDS Integers, Sequences

CONSTANTS
    FifoSize,  \* 16 in the hardware
    Trigger,   \* the level of the receive interrupt: IFLS = 0, an eighth
    NBytes,    \* bound: bytes the controller sends
    NPuts      \* bound: bytes the program sends

ASSUME FifoAssumption ==
    /\ FifoSize \in Nat /\ Trigger \in 1 .. FifoSize
    /\ NBytes \in Nat /\ NPuts \in Nat

Drivers == {"pl011", "staff"}

VARIABLES
    driver,    \* which of the two builds runs
    sent,      \* bytes that have come in over the line
    fifo,      \* the receive FIFO
    ris,       \* raw interrupt status: a subset of {"rx", "timeout"}
    armed,     \* the receive timeout counts since the last byte
    isr,       \* where the interrupt handler is
    mis,       \* the handler's copy of the status
    rx_buffer,
    pc,        \* where the program is
    reg,       \* what pl011_get8 has read from the data register
    end,       \* the end of the queue when pl011_get8's push looked at it
    contested, \* history: bytes two pushes had in hand at the same time
    got,       \* bytes returned by pl011_get8
    tx,        \* bytes in the transmit FIFO
    busy,      \* the transmitter is shifting one out
    puts       \* bytes put so far

pushVars == <<end, contested>>
rxVars == <<sent, fifo, ris, armed, isr, mis, rx_buffer, reg, got, pushVars>>
txVars == <<tx, busy, puts>>
vars == <<driver, sent, fifo, ris, armed, isr, mis, rx_buffer, pc, reg, got,
          end, contested, tx, busy, puts>>

Bytes == 1 .. NBytes

\* What a read of an empty FIFO returns, and what a slot of the queue holds
\* that nobody has written in this round, is zero or an old byte.
Stale == 0 .. sent

\* The state is well formed; in particular the handler never comes to its
\* panic, "Unexpected UART interrupt" (no place of isr here).
TypeOK ==
    /\ driver \in Drivers
    /\ sent \in 0 .. NBytes
    /\ fifo \in Seq(Bytes) /\ Len(fifo) <= FifoSize
    /\ ris \subseteq {"rx", "timeout"} /\ mis \subseteq {"rx", "timeout"}
    /\ armed \in BOOLEAN
    /\ isr \in {"off", "entry", "drain", "clear_rx", "clear_timeout"}
    /\ rx_buffer \in Seq(0 .. NBytes)
    /\ pc \in {"flush", "idle", "pop", "poll", "read", "push", "store", "advance"}
    /\ reg \in 0 .. NBytes
    /\ end \in 0 .. Len(rx_buffer) /\ contested \subseteq 0 .. NBytes
    /\ got \in Seq(0 .. NBytes)
    /\ tx \in 0 .. FifoSize /\ busy \in BOOLEAN /\ puts \in 0 .. NPuts

\* pl011_init is entered; the previous program's last byte may be on its way.
Init ==
    /\ driver \in Drivers
    /\ sent = 0 /\ fifo = <<>> /\ ris = {} /\ armed = FALSE
    /\ isr = "off" /\ mis = {} /\ rx_buffer = <<>>
    /\ pc = "flush" /\ reg = 0 /\ got = <<>> /\ end = 0 /\ contested = {}
    /\ tx = 0 /\ busy \in BOOLEAN /\ puts = 0
-----------------------------------------------------------------------------
(***************************************************************************)
(* The hardware.  The handler is assumed to be fast enough for the FIFO,   *)
(* which holds 16 bytes of 87 microseconds each.  The timeout counts from  *)
(* the last byte: one that was cleared comes back with the next byte only. *)
(***************************************************************************)
Arrive ==
    /\ pc # "flush" /\ sent < NBytes /\ Len(fifo) < FifoSize
    /\ sent' = sent + 1
    /\ fifo' = Append(fifo, sent + 1)
    /\ ris' = ris \union (IF Len(fifo') = Trigger THEN {"rx"} ELSE {})
    /\ armed' = TRUE
    /\ UNCHANGED <<driver, isr, mis, rx_buffer, pc, reg, got, pushVars, txVars>>

LineIdle ==
    /\ armed /\ fifo # <<>>
    /\ ris' = ris \union {"timeout"} /\ armed' = FALSE
    /\ UNCHANGED <<driver, sent, fifo, isr, mis, rx_buffer, pc, reg, got, pushVars, txVars>>

Shift ==
    /\ tx > 0 \/ busy
    /\ IF tx > 0 THEN tx' = tx - 1 /\ busy' = TRUE
                 ELSE tx' = 0 /\ busy' = FALSE
    /\ UNCHANGED <<driver, rxVars, pc, puts>>

\* A read of the data register takes the oldest byte; the interrupts that its
\* presence justified are withdrawn with it.
ReadFifo ==
    /\ fifo' = Tail(fifo)
    /\ ris' = {i \in ris : IF i = "rx" THEN Len(fifo') >= Trigger ELSE fifo' # <<>>}
-----------------------------------------------------------------------------
(***************************************************************************)
(* interrupt_vector.  No instruction of the program runs within it, but    *)
(* bytes arrive.                                                           *)
(***************************************************************************)
Interrupt ==
    /\ isr = "off" /\ ris # {} /\ pc # "flush"
    /\ isr' = "entry"
    /\ UNCHANGED <<driver, sent, fifo, ris, armed, mis, rx_buffer, pc, reg, got, pushVars, txVars>>

\* Without a masked interrupt set the handler panics.
ReadStatus ==
    /\ isr = "entry" /\ mis' = ris
    /\ isr' = IF ris = {} THEN "panic" ELSE "drain"
    /\ UNCHANGED <<driver, sent, fifo, ris, armed, rx_buffer, pc, reg, got, pushVars, txVars>>

\* The program is in its push, between the look at the end and the move of it.
InPush == pc \in {"store", "advance"}

Drain ==
    /\ isr = "drain"
    /\ IF fifo # <<>>
         THEN /\ ReadFifo
              /\ rx_buffer' = Append(rx_buffer, Head(fifo))
              /\ contested' = contested \union (IF InPush THEN {reg, Head(fifo)} ELSE {})
              /\ UNCHANGED isr
         ELSE isr' = "clear_rx" /\ UNCHANGED <<fifo, ris, rx_buffer, contested>>
    /\ UNCHANGED <<driver, sent, armed, mis, pc, reg, got, end, txVars>>

ClearRx ==
    /\ isr = "clear_rx" /\ isr' = "clear_timeout"
    /\ ris' = ris \ (mis \intersect {"rx"})
    /\ UNCHANGED <<driver, sent, fifo, armed, mis, rx_buffer, pc, reg, got, pushVars, txVars>>

ClearTimeout ==
    /\ isr = "clear_timeout" /\ isr' = "off" /\ mis' = {}
    /\ ris' = ris \ (mis \intersect {"timeout"})
    /\ UNCHANGED <<driver, sent, fifo, armed, rx_buffer, pc, reg, got, pushVars, txVars>>
-----------------------------------------------------------------------------
(***************************************************************************)
(* The program, one access to the queue or to a register at a time.        *)
(***************************************************************************)
\* pl011_tx_is_empty.  staff-pl011.c wants the transmitter's busy bit set.
TxIsEmpty == tx = 0 /\ (driver = "pl011") = ~busy

\* pl011_flush_tx, which pl011_init calls.
Flushed ==
    /\ pc = "flush" /\ TxIsEmpty
    /\ pc' = "idle"
    /\ UNCHANGED <<driver, rxVars, txVars>>

Call ==
    /\ pc = "idle" /\ isr = "off"
    /\ pc' = "pop"
    /\ UNCHANGED <<driver, rxVars, txVars>>

Waits_InQueue(d) == "pop"

Waits_Polling(d) == "poll"

\* Where pl011_get8 goes when the queue is empty.
Waits(d) == IF d = "pl011" THEN "poll" ELSE "pop"

\* cq_pop_nonblock, or one look of cq_pop.
Pop ==
    /\ pc = "pop" /\ isr = "off"
    /\ IF rx_buffer # <<>>
         THEN /\ rx_buffer' = Tail(rx_buffer)
              /\ got' = Append(got, Head(rx_buffer))
              /\ pc' = "idle"
         ELSE pc' = Waits(driver) /\ UNCHANGED <<rx_buffer, got>>
    /\ UNCHANGED <<driver, sent, fifo, ris, armed, isr, mis, reg, pushVars, txVars>>

Poll ==
    /\ pc = "poll" /\ isr = "off"
    /\ pc' = IF fifo # <<>> THEN "read" ELSE "pop"
    /\ UNCHANGED <<driver, rxVars, txVars>>

\* The handler may have emptied the FIFO since Poll.
ReadData ==
    /\ pc = "read" /\ isr = "off"
    /\ IF fifo # <<>>
         THEN ReadFifo /\ reg' = Head(fifo)
         ELSE reg' \in Stale /\ UNCHANGED <<fifo, ris>>
    /\ pc' = "push"
    /\ UNCHANGED <<driver, sent, armed, isr, mis, rx_buffer, got, pushVars, txVars>>

\* cq_push takes the end of the queue.
PushRead ==
    /\ pc = "push" /\ isr = "off"
    /\ end' = Len(rx_buffer) /\ pc' = "store"
    /\ UNCHANGED <<driver, sent, fifo, ris, armed, isr, mis, rx_buffer, reg, got, contested, txVars>>

\* It writes the slot there: a byte the handler has put into it is gone.
PushStore ==
    /\ pc = "store" /\ isr = "off"
    /\ rx_buffer' = [i \in DOMAIN rx_buffer |-> IF i = end + 1 THEN reg ELSE rx_buffer[i]]
    /\ pc' = "advance"
    /\ UNCHANGED <<driver, sent, fifo, ris, armed, isr, mis, reg, got, pushVars, txVars>>

Advanced_IfEmpty ==
    IF end = Len(rx_buffer) THEN {IF end = 0 THEN <<reg>> ELSE rx_buffer}
    ELSE {SubSeq(rx_buffer, 1, end + 1)} \union {Append(rx_buffer, b) : b \in Stale}

\* The queue after the end was moved.  Where the handler has pushed meanwhile,
\* the end goes behind the slot written, or one further than the handler left
\* it: which of the two is the queue's affair.
Advanced ==
    IF end = Len(rx_buffer) THEN {Append(rx_buffer, reg)}
    ELSE {SubSeq(rx_buffer, 1, end + 1)} \union {Append(rx_buffer, b) : b \in Stale}

PushAdvance ==
    /\ pc = "advance" /\ isr = "off"
    /\ rx_buffer' \in Advanced
    /\ reg' = 0 /\ end' = 0 /\ pc' = "pop"
    /\ UNCHANGED <<driver, sent, fifo, ris, armed, isr, mis, got, contested, txVars>>

Put_NoCheck ==
    /\ pc = "idle" /\ isr = "off" /\ puts < NPuts
    /\ tx' = tx + 1 /\ puts' = puts + 1
    /\ UNCHANGED <<driver, rxVars, pc, busy>>

\* pl011_put8, once pl011_can_put8.
Put ==
    /\ pc = "idle" /\ isr = "off" /\ tx < FifoSize /\ puts < NPuts
    /\ tx' = tx + 1 /\ puts' = puts + 1
    /\ UNCHANGED <<driver, rxVars, pc, busy>>

Hardware == Arrive \/ LineIdle \/ Shift
Handler  == Interrupt \/ ReadStatus \/ Drain \/ ClearRx \/ ClearTimeout
Reader   == Flushed \/ Pop \/ Poll \/ ReadData \/ PushRead \/ PushStore \/ PushAdvance

Next == Hardware \/ Handler \/ Reader \/ Call \/ Put

\* The processor runs; a handler that has an interrupt to serve is entered.
\* Nobody promises that bytes come, that the line goes idle, or a call.
Spec == Init /\ [][Next]_vars
             /\ WF_vars(Reader) /\ WF_vars(Handler) /\ WF_vars(Shift)
-----------------------------------------------------------------------------
Sequential(s) == \A i \in DOMAIN s : s[i] = i

\* Bytes come out of pl011_get8 in the order they came in, none missing and
\* none twice.
BytesInOrder == Sequential(got \o rx_buffer)

\* In the build whose handler alone feeds the queue, every byte is where its
\* order says: delivered, in the queue, or in the FIFO.
StaffInOrder ==
    driver = "staff" => /\ Sequential(got \o rx_buffer \o fifo)
                        /\ Len(got \o rx_buffer \o fifo) = sent

\* No byte is lost but where the handler comes between two steps of
\* pl011_get8's own push: only what the two then have in hand is in danger, not
\* what was in the queue before, what comes later, or any byte of the staff
\* build, whose reader never pushes.
NothingLost ==
    \A b \in 1 .. sent :
        \/ driver = "pl011" /\ b \in contested
        \/ reg = b
        \/ \E i \in DOMAIN (got \o rx_buffer \o fifo) : (got \o rx_buffer \o fifo)[i] = b

\* pl011.c's reader gets a byte that is there, even one whose interrupt the
\* handler has cleared without seeing it.
ReaderServed ==
    (driver = "pl011" /\ pc = "pop" /\ (fifo # <<>> \/ rx_buffer # <<>>)) ~> (pc = "idle")

\* pl011_init ends, whatever was still being sent.  Not in staff-pl011.c, whose
\* flush waits for a busy bit that an idle line never sets.
InitEnds == <>(pc # "flush")
=============================================================================
