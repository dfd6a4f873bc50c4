-------------------------------- MODULE Emmc --------------------------------
(***************************************************************************)
(* The EMMC driver (libs/sd/emmc.c) with the controller and the SD card it *)
(* drives: emmc_init's identification of the card with its ten attempts,   *)
(* and emmc_read and emmc_write with their three tries, called as pi-sd.c  *)
(* calls them (a failure is a panic).                                      *)
(*                                                                         *)
(* The driver shares int_flags with the controller.  It waits for a flag   *)
(* or for its own timer, reads the flags, clears some of them and goes on: *)
(* what it leaves set is seen by the command after.  The controller and    *)
(* the card are external; they are modelled from the SD protocol as the    *)
(* driver uses it.  At most MaxFaults times a command is lost, garbled or  *)
(* answered late, or a data transfer fails.                                *)
(***************************************************************************)
EXTENDS Integers, Sequences, FiniteSets

CONSTANTS Kinds,        \* the cards tried, of {"v1", "v2", "hc"}
          NSectors,     \* sectors on the card
          Values,       \* what a sector can hold
          Junk,         \* what a buffer holds that nothing was read into
          MaxResets,    \* emmc_init's attempts (emmc.c:786)
          MaxTries,     \* do_data_command's tries (emmc.c:712)
          MaxBusy,      \* bound: how often a card says that it is not ready yet
          Noisy,        \* the commands that a fault can hit
          Faults,       \* what can go wrong, of FaultKinds
          MaxFaults     \* bound on the faults of a behaviour

FaultKinds == {"lost", "garbled", "late", "stuck data", "late data", "corrupt", "reset"}

ASSUME EmmcAssumption ==
    /\ Faults \subseteq FaultKinds
    /\ Kinds \subseteq {"v1", "v2", "hc"}
    /\ NSectors \in Nat \ {0} /\ MaxResets \in Nat \ {0} /\ MaxTries \in Nat \ {0}
    /\ MaxBusy \in Nat /\ MaxFaults \in Nat
    /\ Junk \notin Values

VARIABLES pc,        \* where the driver is
          step,      \* the command of the identification sequence, or "call"
          attempts,  \* emmc_card_reset's failures so far
          dev,       \* the driver's `device`
          call,      \* the data command asked for
          tries,     \* its failed tries
          buffer,    \* device.buffer, block by block
          block,     \* do_data_transfer's loop variable
          flags,     \* int_flags
          host,      \* the controller: command line and data lines
          card,      \* the card's protocol state
          disk,      \* the card's sectors
          faults     \* faults so far

driver == <<pc, step, attempts, dev, call, tries, buffer, block>>
vars == <<driver, flags, host, card, disk, faults>>

Sectors == 0 .. NSectors - 1
Errors == {"cto", "crc", "dto", "dcrc"}          \* int_flags' upper half
None == [cmd |-> "none"]
NoCall == [op |-> "none", sector |-> 0, n |-> 0]

-----------------------------------------------------------------------------
(* Commands *)

CommandAt ==
    [goidle |-> "GoIdle", ifcond |-> "SendIfCond", iocond |-> "IOSetOpCond",
     ocr_app |-> "App", ocr |-> "OcrCheck", up_app |-> "App", up |-> "OcrCheck",
     cid |-> "SendCide", rca |-> "SendRelativeAddr", select |-> "SelectCard",
     blocklen |-> "SetBlockLen", scr_app |-> "App", scr |-> "SendSCR"]

After ==
    [goidle |-> "ifcond", ifcond |-> "iocond", iocond |-> "ocr_app",
     ocr_app |-> "ocr", ocr |-> "up_app", up_app |-> "up", up |-> "cid",
     cid |-> "rca", rca |-> "select", select |-> "blocklen",
     blocklen |-> "scr_app", scr_app |-> "scr"]

Steps == DOMAIN CommandAt \cup {"call"}

DataCommand ==
    IF call.op = "write" THEN IF call.n > 1 THEN "WriteMultiple" ELSE "WriteBlock"
                         ELSE IF call.n > 1 THEN "ReadMultiple" ELSE "ReadBlock"

Command == IF step = "call" THEN DataCommand ELSE CommandAt[step]

DataCommands == {"ReadBlock", "ReadMultiple", "WriteBlock", "WriteMultiple"}
IsData(c) == c \in DataCommands \cup {"SendSCR"}
IsWrite(c) == c \in {"WriteBlock", "WriteMultiple"}
UsesDataLines(c) == IsData(c) \/ c = "SelectCard"

Address_Unscaled == call.sector

\* The block number, which a card that is not high-capacity takes in bytes.
Address == IF dev.sdhc THEN call.sector ELSE 512 * call.sector

Argument ==
    [cmd |-> Command, rca |-> dev.rca, hcs |-> dev.v2, query |-> step = "ocr",
     addr |-> IF step = "call" THEN Address ELSE 0, n |-> dev.blocks]

Ready(c) == IF IsWrite(c) THEN "wready" ELSE "rready"

-----------------------------------------------------------------------------
(* The card: which commands it answers in which state, and what they do.   *)

Answers(c) ==
    \/ c.cmd = "SendIfCond" /\ card.state = "idle" /\ card.kind # "v1"
    \/ c.cmd = "App" /\ card.state \in {"idle", "stby", "tran"} /\ c.rca = card.rca
    \/ c.cmd = "OcrCheck" /\ card.state = "idle" /\ card.app
    \/ c.cmd = "SendCide" /\ card.state = "ready"
    \/ c.cmd = "SendRelativeAddr" /\ card.state \in {"ident", "stby"}
    \/ c.cmd = "SelectCard" /\ card.state = "stby" /\ c.rca = card.rca
    \/ c.cmd = "SendSCR" /\ card.state = "tran" /\ card.app
    \/ c.cmd \in DataCommands \cup {"SetBlockLen"} /\ card.state = "tran"

\* A high-capacity card never becomes ready for a host without HCS.
ComesUp(c) == ~c.query /\ card.busy = 0 /\ (card.kind = "hc" => c.hcs)

StateAfter(c) ==
    CASE c.cmd = "OcrCheck" -> IF ComesUp(c) THEN "ready" ELSE "idle"
      [] c.cmd = "SendCide" -> "ident"
      [] c.cmd = "SendRelativeAddr" -> "stby"
      [] c.cmd = "SelectCard" -> "tran"
      [] IsData(c.cmd) -> "data"
      [] OTHER -> card.state

Obeyed(c) ==
    [card EXCEPT !.state = StateAfter(c), !.app = c.cmd = "App",
                 !.rca = @ \/ c.cmd = "SendRelativeAddr",
                 !.busy = IF c.cmd = "OcrCheck" /\ ~c.query /\ @ > 0 THEN @ - 1 ELSE @]

Reset(busy) == [card EXCEPT !.state = "idle", !.app = FALSE, !.rca = FALSE, !.busy = busy]

\* The card after the controller gave up a transfer of n blocks: a single block
\* ends by itself, several wait for a stop command that nobody sends.
GivenUp(c, n) == [c EXCEPT !.state = IF n = 1 THEN "tran" ELSE "data"]

Transfer(c) ==
    [cmd |-> c.cmd,
     at |-> IF card.kind = "hc" THEN c.addr ELSE c.addr \div 512,
     left |-> IF IsData(c.cmd) THEN c.n ELSE 0, n |-> c.n,
     fifo |-> "empty", value |-> Junk, pace |-> "normal"]

-----------------------------------------------------------------------------
(* The controller *)

\* It takes a command unless the lines it needs are in use.
Accept(c) ==
    host' = IF host.cmd = None /\ (UsesDataLines(c.cmd) => host.data = None)
            THEN [host EXCEPT !.cmd = c, !.late = FALSE] ELSE host

Respond ==
    /\ host.cmd # None
    /\ LET c == host.cmd IN
       IF c.cmd = "GoIdle"
       THEN /\ \E busy \in 0 .. MaxBusy : card' = Reset(busy)
            /\ host' = [host EXCEPT !.cmd = None]
            /\ flags' = flags \cup {"cmd"}
       ELSE IF Answers(c)
       THEN /\ card' = Obeyed(c)
            /\ host' = [host EXCEPT !.cmd = None, !.up = c.cmd = "OcrCheck" /\ ComesUp(c),
                              !.data = IF UsesDataLines(c.cmd) THEN Transfer(c) ELSE @]
            /\ flags' = flags \cup {"cmd"}
       ELSE /\ host' = [host EXCEPT !.cmd = None]
            /\ card' = [card EXCEPT !.app = FALSE]
            /\ flags' = flags \cup {"cto"}
    /\ UNCHANGED <<driver, disk, faults>>

Fault(kind) == kind \in Faults /\ faults < MaxFaults /\ faults' = faults + 1

\* The command does not reach the card.
Lose ==
    /\ host.cmd # None /\ host.cmd.cmd \in Noisy /\ Fault("lost")
    /\ host' = [host EXCEPT !.cmd = None]
    /\ flags' = flags \cup {IF host.cmd.cmd = "GoIdle" THEN "cmd" ELSE "cto"}
    /\ UNCHANGED <<driver, card, disk>>

\* The card obeys, but its response arrives with a wrong checksum.
Garble ==
    /\ host.cmd # None /\ host.cmd.cmd \in Noisy \ {"GoIdle"} /\ Answers(host.cmd) /\ Fault("garbled")
    /\ host' = [host EXCEPT !.cmd = None]
    /\ card' = IF IsData(host.cmd.cmd) /\ ~IsWrite(host.cmd.cmd)
               THEN GivenUp(Obeyed(host.cmd), host.cmd.n) ELSE Obeyed(host.cmd)
    /\ flags' = flags \cup {"crc"}
    /\ UNCHANGED <<driver, disk>>

\* The response will come, but the driver's timer may run out first.
Stall ==
    /\ host.cmd # None /\ host.cmd.cmd \in Noisy /\ ~host.late /\ Fault("late")
    /\ host' = [host EXCEPT !.late = TRUE]
    /\ UNCHANGED <<driver, flags, card, disk>>

Moving == host.data # None /\ host.data.pace # "stuck"

\* A block read from the card is in the FIFO, or there is room for one to write.
OfferBlock ==
    /\ Moving /\ host.data.left > 0 /\ host.data.fifo = "empty"
    /\ host' = [host EXCEPT !.data.fifo = "ready",
                           !.data.value = IF host.data.cmd \in {"ReadBlock", "ReadMultiple"}
                                          THEN disk[host.data.at] ELSE Junk]
    /\ flags' = flags \cup {Ready(host.data.cmd)}
    /\ UNCHANGED <<driver, card, disk, faults>>

SendBlock ==
    /\ Moving /\ IsWrite(host.data.cmd) /\ host.data.fifo = "full"
    /\ disk' = [disk EXCEPT ![host.data.at] = host.data.value]
    /\ host' = [host EXCEPT !.data.fifo = "empty", !.data.at = @ + 1, !.data.left = @ - 1]
    /\ UNCHANGED <<driver, flags, card, faults>>

\* All blocks are through, or the card is no longer busy.
Finish ==
    /\ Moving /\ host.data.left = 0 /\ host.data.fifo = "empty"
    /\ host' = [host EXCEPT !.data = None]
    /\ card' = [card EXCEPT !.state = "tran"]
    /\ flags' = flags \cup {"xfer"}
    /\ UNCHANGED <<driver, disk, faults>>

\* The data lines are silent for too long: the transfer is late or stuck, and
\* the controller may or may not report a time-out.
SlowData ==
    /\ Moving /\ host.data.pace = "normal" /\ host.data.cmd \in Noisy
    /\ \E pace \in {"late", "stuck"} :
         /\ host' = [host EXCEPT !.data.pace = pace]
         /\ Fault(IF pace = "late" THEN "late data" ELSE "stuck data")
    /\ \E reported \in SUBSET {"dto"} : flags' = flags \cup reported
    /\ UNCHANGED <<driver, card, disk>>

\* A block arrives with a wrong checksum and the controller gives the transfer up,
\* or holds on to the data lines until it is reset.
CorruptData ==
    /\ Moving /\ host.data.left > 0 /\ host.data.cmd \in Noisy /\ Fault("corrupt")
    /\ flags' = flags \cup {"dcrc"}
    /\ \/ /\ host' = [host EXCEPT !.data = None]
          /\ card' = GivenUp(card, host.data.n)
       \/ /\ host' = [host EXCEPT !.data.pace = "stuck"]
          /\ UNCHANGED card
    /\ UNCHANGED <<driver, disk>>

Controller == Respond \/ OfferBlock \/ SendBlock \/ Finish

-----------------------------------------------------------------------------
(* The driver *)

GoTo(where, s) == pc' = where /\ step' = s

FailReset_GivesUp ==
    /\ attempts' = attempts + 1
    /\ GoTo("failed", "goidle")
    /\ UNCHANGED <<call, tries, buffer, block>>

\* emmc_card_reset fails, and emmc_init tries again or gives up.
FailReset ==
    /\ attempts' = attempts + 1
    /\ GoTo(IF attempts' < MaxResets THEN "reset" ELSE "failed", "goidle")
    /\ UNCHANGED <<call, tries, buffer, block>>

\* emmc_card_reset up to its first command: the host circuit is reset and the
\* flags are cleared.  device.rca, sdhc and last_error stay as they are.
CardReset ==
    /\ pc = "reset"
    /\ host' = [host EXCEPT !.cmd = None, !.late = FALSE, !.data = None]
    /\ flags' = {}
    /\ dev' = [dev EXCEPT !.blocks = 0]
    /\ GoTo("issue", "goidle")
    /\ UNCHANGED <<attempts, call, tries, buffer, block, card, disk, faults>>

\* The host circuit's reset or its clock is not done in time.
CardResetFails ==
    /\ pc = "reset" /\ Fault("reset")
    /\ FailReset
    /\ UNCHANGED <<dev, flags, host, card, disk>>

\* emmc_issue_command, up to the loop.
Issue ==
    /\ pc = "issue"
    /\ Accept(Argument)
    /\ pc' = "command"
    /\ UNCHANGED <<step, attempts, dev, call, tries, buffer, block, flags, card, disk, faults>>

FailCall_OneMore ==
    /\ tries' = tries + 1
    /\ GoTo(IF tries' <= MaxTries THEN "issue" ELSE "panic", "call")
    /\ UNCHANGED <<attempts, call, buffer, block>>

\* do_data_command tries again or gives up, and pi-sd.c panics.
FailCall ==
    /\ tries' = tries + 1
    /\ GoTo(IF tries' < MaxTries THEN "issue" ELSE "panic", "call")
    /\ UNCHANGED <<attempts, call, buffer, block>>

Continue(next, d) ==
    /\ dev' = d
    /\ GoTo("issue", next)
    /\ UNCHANGED <<attempts, call, tries, buffer, block, host>>

\* reset_command: what is on the command line is dropped.
ResetCommandLine == host' = [host EXCEPT !.cmd = None, !.late = FALSE]

\* The command returns to its caller; err is device.last_error.
Succeed ==
    CASE step = "call" ->
           /\ GoTo("idle", "call")
           /\ UNCHANGED <<attempts, dev, call, tries, buffer, block, host>>
      [] step = "ifcond" -> Continue("iocond", [dev EXCEPT !.v2 = TRUE])
      [] step = "up" ->
           IF host.up THEN Continue("cid", [dev EXCEPT !.sdhc = card.kind = "hc"])
                      ELSE Continue("up_app", dev)
      [] step = "rca" -> Continue("select", [dev EXCEPT !.rca = TRUE])
      [] step = "select" ->
           IF dev.sdhc THEN Continue("scr_app", [dev EXCEPT !.blocks = 1])
                       ELSE Continue("blocklen", dev)
      [] step = "blocklen" -> Continue("scr_app", [dev EXCEPT !.blocks = 1])
      [] step = "scr" ->
           /\ GoTo("idle", "call")
           /\ UNCHANGED <<attempts, dev, call, tries, buffer, block, host>>
      [] OTHER -> Continue(After[step], dev)

Failed(err) ==
    LET d == [dev EXCEPT !.error = err] IN
    CASE step = "call" -> dev' = d /\ FailCall /\ UNCHANGED host
      [] step = "ifcond" ->
           /\ dev' = [d EXCEPT !.v2 = FALSE]
           /\ GoTo("issue", "iocond")
           /\ IF err = "cto" THEN ResetCommandLine ELSE UNCHANGED host
           /\ UNCHANGED <<attempts, call, tries, buffer, block>>
      [] step = "iocond" /\ err = "cto" ->
           /\ dev' = d
           /\ GoTo("issue", "ocr_app")
           /\ ResetCommandLine
           /\ UNCHANGED <<attempts, call, tries, buffer, block>>
      [] step = "iocond" /\ err = "none" -> Continue("ocr_app", d)
      [] OTHER -> dev' = d /\ FailReset /\ UNCHANGED host

\* set_last_error, with the errors that the callers tell apart.
LastError(intr) == IF intr \cap Errors = {} THEN "none" ELSE IF "cto" \in intr THEN "cto" ELSE "other"

\* The loop on int_flags ends, with a flag or with its time over.
NoAnswerInTime == host.cmd = None \/ host.late

CommandEnds ==
    /\ pc = "command"
    /\ flags \cap (Errors \cup {"cmd"}) # {}
    /\ flags' = flags \ (Errors \cup {"cmd"})
    /\ IF flags \cap (Errors \cup {"cmd"}) # {"cmd"} THEN Failed(LastError(flags))
       ELSE IF UsesDataLines(Command)
       THEN /\ pc' = IF IsData(Command) THEN "block" ELSE "transfer"
            /\ block' = 1
            /\ UNCHANGED <<step, attempts, dev, call, tries, buffer, host>>
       ELSE Succeed
    /\ UNCHANGED <<card, disk, faults>>

CommandTimesOut ==
    /\ pc = "command"
    /\ flags \cap (Errors \cup {"cmd"}) = {} /\ NoAnswerInTime
    /\ Failed(dev.error)
    /\ UNCHANGED <<flags, card, disk, faults>>

\* reset_command waits in vain (its callers give up).
CommandLineStuck ==
    /\ pc = "command" /\ step \in {"ifcond", "iocond"} /\ "cto" \in flags /\ Fault("reset")
    /\ flags' = flags \ (Errors \cup {"cmd"})
    /\ IF step = "ifcond"
       THEN Continue("iocond", [dev EXCEPT !.error = "cto", !.v2 = FALSE])
       ELSE dev' = [dev EXCEPT !.error = "cto"] /\ FailReset /\ UNCHANGED host
    /\ UNCHANGED <<card, disk>>

NoDataInTime_Never == FALSE

\* The blocks of the transfer that the driver has still to take or to give.
Unserved == host.data.left - IF host.data.fifo = "full" THEN 1 ELSE 0

\* The flags of the data lines that nothing will set before the timer runs out.
NoDataInTime ==
    host.data # None /\ host.data.pace = "normal"
        => (Unserved = 0) = (pc = "block")

\* One turn of do_data_transfer's loop.
TransferBlock ==
    LET r == Ready(Command)
        served == flags \cap (Errors \cup {r}) = {r}
        here == host.data # None /\ host.data.fifo = "ready" IN
    /\ pc = "block"
    /\ flags \cap (Errors \cup {r}) = {} => NoDataInTime
    /\ flags' = flags \ {r}
    /\ IF served
       THEN /\ buffer' = IF IsWrite(Command) \/ step = "scr" THEN buffer
                         ELSE [buffer EXCEPT ![block] = IF here THEN host.data.value ELSE Junk]
            /\ host' = IF ~here THEN host
                       ELSE IF IsWrite(Command)
                       THEN [host EXCEPT !.data.fifo = "full", !.data.value = buffer[block]]
                       ELSE [host EXCEPT !.data.fifo = "empty", !.data.at = @ + 1,
                                         !.data.left = @ - 1]
            /\ block' = block + 1
            /\ pc' = IF block = dev.blocks THEN "transfer" ELSE "block"
            /\ UNCHANGED dev
       ELSE /\ pc' = "transfer"
            /\ dev' = [dev EXCEPT !.error = LastError(flags)]
            /\ UNCHANGED <<buffer, block, host>>
    /\ UNCHANGED <<step, attempts, call, tries, card, disk, faults>>

\* The end of emmc_issue_command, which has not looked at do_data_transfer's
\* result: a transfer is complete also when a time-out is reported with it.
Complete(intr) == intr \cap (Errors \cup {"xfer"}) \in {{"xfer"}, {"xfer", "dto"}}

TransferEnds ==
    /\ pc = "transfer"
    /\ flags \cap (Errors \cup {"xfer"}) = {} => NoDataInTime
    /\ flags' = IF step = "scr" /\ Complete(flags) THEN {} ELSE flags \ (Errors \cup {"xfer"})
    /\ IF Complete(flags) THEN Succeed ELSE Failed(LastError(flags))
    /\ UNCHANGED <<card, disk, faults>>

\* emmc_read and emmc_write, up to do_data_command's loop; nothing is asked of
\* a driver whose emmc_init failed (pi_sd_init panics).
Call ==
    /\ pc = "idle"
    /\ \E op \in {"read", "write"}, s \in Sectors, n \in 0 .. NSectors :
         /\ s + n <= NSectors
         /\ call' = [op |-> op, sector |-> s, n |-> n]
         /\ IF n = 0
            THEN pc' = "panic" /\ UNCHANGED <<dev, buffer>>
            ELSE /\ pc' = "issue"
                 /\ dev' = [dev EXCEPT !.blocks = n]
                 /\ buffer' \in IF op = "write" THEN [1 .. n -> Values]
                                              ELSE {[i \in 1 .. n |-> Junk]}
    /\ step' = "call" /\ tries' = 0
    /\ UNCHANGED <<attempts, block, flags, host, card, disk, faults>>

Driver == CardReset \/ Issue \/ CommandEnds \/ CommandTimesOut \/ TransferBlock \/ TransferEnds

Faulty == Lose \/ Garble \/ Stall \/ SlowData \/ CorruptData \/ CardResetFails \/ CommandLineStuck

\* emmc_init's first lines, and a card that was just powered on.
Init ==
    /\ pc = "reset" /\ step = "goidle"
    /\ attempts = 0 /\ tries = 0 /\ block = 0 /\ buffer = <<>> /\ call = NoCall
    /\ dev = [rca |-> FALSE, sdhc |-> FALSE, v2 |-> FALSE, error |-> "none", blocks |-> 0]
    /\ flags = {} /\ faults = 0
    /\ host = [cmd |-> None, late |-> FALSE, up |-> FALSE, data |-> None]
    /\ \E kind \in Kinds : card = [kind |-> kind, state |-> "idle", app |-> FALSE,
                                   rca |-> FALSE, busy |-> 0]
    /\ disk \in [Sectors -> Values]

Next == Driver \/ Call \/ Controller \/ Faulty

Spec == Init /\ [][Next]_vars

\* The driver runs on, and the controller and the card go on with what they have.
FairSpec == Spec /\ WF_vars(Driver) /\ WF_vars(Controller)

-----------------------------------------------------------------------------
(* Properties *)

TypeOK ==
    /\ pc \in {"reset", "issue", "command", "block", "transfer", "idle", "failed", "panic"}
    /\ step \in Steps /\ attempts \in 0 .. MaxResets /\ tries \in 0 .. MaxTries
    /\ dev \in [rca : BOOLEAN, sdhc : BOOLEAN, v2 : BOOLEAN,
               error : {"none", "cto", "other"}, blocks : 0 .. NSectors]
    /\ block \in 0 .. NSectors + 1
    /\ flags \subseteq Errors \cup {"cmd", "xfer", "rready", "wready"}
    /\ card.state \in {"idle", "ready", "ident", "stby", "tran", "data"}
    /\ disk \in [Sectors -> Values]
    /\ pc \in {"block", "transfer"} /\ step = "call" => Len(buffer) = dev.blocks

\* The block device that pi-sd.h promises, seen through the driver's variables.
\* A call that returns (its failure would have been a panic) has moved every
\* block it was asked for and no other, whatever flags, transfers and late
\* answers the tries before have left behind: a read filled the buffer although
\* do_data_transfer's result is ignored (emmc.c:301), a write was carried out
\* although a time-out may be taken for a completion (emmc.c:310), and nothing
\* is written once the call is over.
Request ==
    IF pc \in {"panic", "failed"} THEN [op |-> "failed", sector |-> 0, n |-> 0]
    ELSE IF step = "call" /\ pc # "idle" THEN call ELSE NoCall

Device == INSTANCE BlockDevice WITH request <- Request, data <- buffer

ImplementsDevice == Device!Spec

\* Every emmc_read and emmc_write ends, be it in a panic.
CallsEnd == (step = "call" /\ pc = "issue") ~> (pc \in {"idle", "panic"})

\* What no further attempt repairs: device.rca of a failed attempt goes to a card
\* that has forgotten its address (emmc.c:365-369), and a high-capacity card
\* that was taken for an older one is asked without HCS forever (emmc.c:436).
LostCause ==
    \/ dev.rca /\ pc = "reset"
    \/ card.kind = "hc" /\ ~dev.v2 /\ step \in {"iocond", "ocr_app", "ocr", "up_app", "up"}

\* Apart from that emmc_init ends with a usable card, since a fault that passes
\* costs at most one of its attempts ("Failed to reset card, trying again",
\* emmc.c:794).
InitRecovers == <>(step = "call" \/ LostCause)
=============================================================================
