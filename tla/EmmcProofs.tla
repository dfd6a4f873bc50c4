----------------------------- MODULE EmmcProofs -----------------------------
(***************************************************************************)
(* Proofs about Emmc: its variables keep their types, and the driver       *)
(* implements the block device of BlockDevice.                             *)
(***************************************************************************)
EXTENDS Emmc, SequenceTheorems, TLAPS

-----------------------------------------------------------------------------
(* What the driver's commands are, and where its operators lead. *)

StepNames == {"goidle", "ifcond", "iocond", "ocr_app", "ocr", "up_app", "up", "cid",
              "rca", "select", "blocklen", "scr_app", "scr", "call"}

\* The steps are those that CommandAt lists, and the data commands' one.
LEMMA StepsAre == Steps = StepNames
  BY DEF Steps, StepNames, CommandAt

\* Every command of the sequence before "scr" is followed by another one.
LEMMA AfterIsAStep == ASSUME NEW s \in StepNames \ {"call", "scr"} PROVE After[s] \in StepNames
  BY DEF StepNames, After

\* The command of every step.
LEMMA CommandsAre ==
  /\ step = "ocr_app" => Command = "App"
  /\ step = "up_app" => Command = "App"
  /\ step = "scr_app" => Command = "App"
  /\ step = "goidle" => Command = "GoIdle"
  /\ step = "ifcond" => Command = "SendIfCond"
  /\ step = "iocond" => Command = "IOSetOpCond"
  /\ step = "ocr" => Command = "OcrCheck"
  /\ step = "up" => Command = "OcrCheck"
  /\ step = "cid" => Command = "SendCide"
  /\ step = "rca" => Command = "SendRelativeAddr"
  /\ step = "select" => Command = "SelectCard"
  /\ step = "blocklen" => Command = "SetBlockLen"
  /\ step = "scr" => Command = "SendSCR"
  /\ step = "call" => Command = DataCommand
  BY DEF Command, CommandAt

\* The data command of a read reads and that of a write writes.
LEMMA DataCommandIs ==
  /\ DataCommand \in DataCommands
  /\ IsWrite(DataCommand) <=> call.op = "write"
  /\ DataCommand \in {"ReadBlock", "ReadMultiple"} <=> call.op # "write"
  /\ IsData(DataCommand)
  /\ UsesDataLines(DataCommand)
  BY DEF DataCommand, DataCommands, IsWrite, IsData, UsesDataLines

\* The data lines are used by the selection of the card, by SendSCR and by the
\* data commands; SendSCR and the data commands move blocks.
LEMMA DataStepsAre ==
  ASSUME step \in StepNames
  PROVE  /\ UsesDataLines(Command) <=> step \in {"select", "scr", "call"}
         /\ IsData(Command) <=> step \in {"scr", "call"}
         /\ step # "call" => ~IsWrite(Command)
  BY CommandsAre, DataCommandIs DEF StepNames, UsesDataLines, IsData, IsWrite, DataCommands

\* Where a command that succeeded leads.
Succeeded ==
  \/ /\ step \in {"call", "scr"} /\ pc' = "idle" /\ step' = "call" /\ dev' = dev
  \/ /\ pc' = "issue"
     /\ \/ step = "ifcond" /\ step' = "iocond" /\ dev' = [dev EXCEPT !.v2 = TRUE]
        \/ step = "up" /\ host.up /\ step' = "cid" /\ dev' = [dev EXCEPT !.sdhc = card.kind = "hc"]
        \/ step = "up" /\ ~host.up /\ step' = "up_app" /\ dev' = dev
        \/ step = "rca" /\ step' = "select" /\ dev' = [dev EXCEPT !.rca = TRUE]
        \/ step = "select" /\ ~dev.sdhc /\ step' = "blocklen" /\ dev' = dev
        \/ step \in {"select", "blocklen"} /\ step' = "scr_app" /\ dev' = [dev EXCEPT !.blocks = 1]
        \/ step = "goidle" /\ step' = "ifcond" /\ dev' = dev
        \/ step = "iocond" /\ step' = "ocr_app" /\ dev' = dev
        \/ step = "ocr_app" /\ step' = "ocr" /\ dev' = dev
        \/ step = "ocr" /\ step' = "up_app" /\ dev' = dev
        \/ step = "up_app" /\ step' = "up" /\ dev' = dev
        \/ step = "cid" /\ step' = "rca" /\ dev' = dev
        \/ step = "scr_app" /\ step' = "scr" /\ dev' = dev

LEMMA SucceedLeads ==
  ASSUME step \in StepNames, Succeed
  PROVE  /\ Succeeded
         /\ UNCHANGED <<attempts, call, tries, buffer, block, host>>
  <1> USE DEF Succeeded, Succeed, Continue, GoTo, After
  <1>1. CASE step \in {"call", "scr"}
    BY <1>1
  <1>2. CASE step \in {"ifcond", "up", "rca"}
    BY <1>2
  <1>3. CASE step \in {"select", "blocklen"}
    BY <1>3
  <1>4. CASE step \in {"goidle", "iocond", "ocr_app", "ocr", "up_app", "cid", "scr_app"}
    BY <1>4
  <1>5. QED
    BY <1>1, <1>2, <1>3, <1>4 DEF StepNames

\* Where a command that failed leads.
DropsCommand == host' = [host EXCEPT !.cmd = None, !.late = FALSE]

FailedWith(err) ==
  \/ /\ step = "call" /\ dev' = [dev EXCEPT !.error = err]
     /\ FailCall /\ UNCHANGED host
  \/ /\ step = "ifcond" /\ dev' = [[dev EXCEPT !.error = err] EXCEPT !.v2 = FALSE]
     /\ pc' = "issue" /\ step' = "iocond"
     /\ UNCHANGED <<attempts, call, tries, buffer, block>>
     /\ DropsCommand \/ (err # "cto" /\ UNCHANGED host)
  \/ /\ step = "iocond" /\ dev' = [dev EXCEPT !.error = err]
     /\ pc' = "issue" /\ step' = "ocr_app"
     /\ UNCHANGED <<attempts, call, tries, buffer, block>>
     /\ DropsCommand \/ (err = "none" /\ UNCHANGED host)
  \/ /\ step # "call" /\ dev' = [dev EXCEPT !.error = err]
     /\ FailReset /\ UNCHANGED host

LEMMA FailedLeads ==
  ASSUME NEW err, step \in StepNames, Failed(err)
  PROVE  FailedWith(err)
  <1> USE DEF FailedWith, Failed, Continue, GoTo, DropsCommand, ResetCommandLine
  <1>1. CASE step = "call"
    BY <1>1
  <1>2. CASE step = "ifcond"
    BY <1>2
  <1>3. CASE step = "iocond"
    BY <1>3
  <1>4. CASE step \notin {"call", "ifcond", "iocond"}
    BY <1>4
  <1>5. QED
    BY <1>1, <1>2, <1>3, <1>4

LEMMA LastErrorIs == ASSUME NEW intr PROVE LastError(intr) \in {"none", "cto", "other"}
  BY DEF LastError
-----------------------------------------------------------------------------
(* The types.  TypeOK is not inductive: the driver counts its failures only *)
(* while it goes on, a command that moves blocks has at least one to move,  *)
(* and what is written was given to the driver by its caller.               *)

HostFields == {"cmd", "late", "up", "data"}
TransferFields == {"cmd", "at", "left", "n", "fifo", "value", "pace"}
CardStates == {"idle", "ready", "ident", "stby", "tran", "data"}

\* A call that was begun has a buffer of its blocks.
BufferTyped ==
  /\ dev.blocks \in 1 .. NSectors
  /\ buffer = [i \in 1 .. dev.blocks |-> buffer[i]]
  /\ call.op = "write" => \A i \in 1 .. dev.blocks : buffer[i] \in Values

DriverTyped ==
  /\ pc \in {"reset", "issue", "command", "block", "transfer", "idle", "failed", "panic"}
  /\ step \in StepNames
  /\ attempts \in 0 .. MaxResets /\ (pc # "failed" => attempts < MaxResets)
  /\ tries \in 0 .. MaxTries /\ (pc # "panic" => tries < MaxTries)
  /\ dev \in [rca : BOOLEAN, sdhc : BOOLEAN, v2 : BOOLEAN,
              error : {"none", "cto", "other"}, blocks : 0 .. NSectors]
  /\ block \in 0 .. NSectors + 1
  /\ pc = "block" => block \in 1 .. dev.blocks /\ step \in {"scr", "call"}
  /\ pc = "transfer" => step \in {"select", "scr", "call"}
  /\ pc \in {"reset", "failed"} => step = "goidle"
  /\ pc \in {"idle", "panic"} => step = "call"
  /\ step \in {"scr_app", "scr"} => dev.blocks = 1
  /\ step = "call" /\ pc \notin {"idle", "panic"} => BufferTyped

FlagsTyped == flags \subseteq Errors \cup {"cmd", "xfer", "rready", "wready"}

HostTyped ==
  /\ DOMAIN host = HostFields
  /\ host.data # None =>
       /\ DOMAIN host.data = TransferFields
       /\ host.data.fifo = "full" => host.data.value \in Values

CardTyped == card \in [kind : Kinds, state : CardStates, app : BOOLEAN, rca : BOOLEAN, busy : Nat]

DiskTyped == disk \in [Sectors -> Values]

Typed == DriverTyped /\ FlagsTyped /\ HostTyped /\ CardTyped /\ DiskTyped

\* A function on 1 .. n is a sequence of length n.
LEMMA LengthOf ==
  ASSUME NEW f, NEW n \in Nat, f = [i \in 1 .. n |-> f[i]]
  PROVE  Len(f) = n
  <1> DEFINE S == {f[i] : i \in 1 .. n}
  <1>1. f \in [1 .. n -> S]
    OBVIOUS
  <1>2. f \in Seq(S)
    BY <1>1
  <1>3. DOMAIN f = 1 .. n
    BY <1>1
  <1>4. Len(f) \in Nat /\ DOMAIN f = 1 .. Len(f)
    BY <1>2, LenProperties
  <1>5. QED
    BY <1>3, <1>4

LEMMA TypedImpliesTypeOK == Typed => TypeOK
  <1> SUFFICES ASSUME Typed PROVE TypeOK
    OBVIOUS
  <1>1. pc \in {"block", "transfer"} /\ step = "call" => Len(buffer) = dev.blocks
    BY LengthOf, EmmcAssumption DEF Typed, DriverTyped, BufferTyped
  <1>2. QED
    BY <1>1, StepsAre DEF TypeOK, Typed, DriverTyped, FlagsTyped, CardTyped, CardStates, DiskTyped

LEMMA TypedInit == Init => Typed
  <1> SUFFICES ASSUME Init PROVE Typed
    OBVIOUS
  <1>1. DriverTyped
    BY EmmcAssumption DEF Init, DriverTyped, StepNames
  <1>2. FlagsTyped /\ DiskTyped
    BY DEF Init, FlagsTyped, DiskTyped
  <1>3. HostTyped
    BY DEF Init, HostTyped, HostFields
  <1>4. CardTyped
    BY DEF Init, CardTyped, CardStates
  <1>5. QED
    BY <1>1, <1>2, <1>3, <1>4 DEF Typed

LEMMA FailResetTyped ==
  ASSUME DriverTyped, pc # "failed", step # "call", FailReset,
         dev' \in [rca : BOOLEAN, sdhc : BOOLEAN, v2 : BOOLEAN,
                   error : {"none", "cto", "other"}, blocks : 0 .. NSectors]
  PROVE  DriverTyped'
  <1>1. /\ pc' \in {"reset", "failed"} /\ step' = "goidle"
        /\ attempts' \in 0 .. MaxResets /\ (pc' # "failed" => attempts' < MaxResets)
        /\ UNCHANGED <<call, tries, buffer, block>>
    BY EmmcAssumption DEF DriverTyped, FailReset, GoTo
  <1>2. tries' < MaxTries /\ tries' \in 0 .. MaxTries
    BY <1>1, EmmcAssumption DEF DriverTyped
  <1>3. block' \in 0 .. NSectors + 1
    BY <1>1 DEF DriverTyped
  <1>4. QED
    BY <1>1, <1>2, <1>3 DEF DriverTyped, StepNames

LEMMA FailCallTyped ==
  ASSUME DriverTyped, pc \in {"command", "transfer"}, step = "call", FailCall,
         dev' \in [rca : BOOLEAN, sdhc : BOOLEAN, v2 : BOOLEAN,
                   error : {"none", "cto", "other"}, blocks : 0 .. NSectors],
         dev'.blocks = dev.blocks
  PROVE  DriverTyped'
  <1>1. /\ pc' \in {"issue", "panic"} /\ step' = "call"
        /\ tries' \in 0 .. MaxTries /\ (pc' # "panic" => tries' < MaxTries)
        /\ UNCHANGED <<attempts, call, buffer, block>>
    BY EmmcAssumption DEF DriverTyped, FailCall, GoTo
  <1>2. attempts' < MaxResets /\ attempts' \in 0 .. MaxResets
    BY <1>1, EmmcAssumption DEF DriverTyped
  <1>3. block' \in 0 .. NSectors + 1
    BY <1>1 DEF DriverTyped
  <1>4. BufferTyped'
    BY <1>1 DEF DriverTyped, BufferTyped
  <1>5. QED
    BY <1>1, <1>2, <1>3, <1>4 DEF DriverTyped, StepNames

LEMMA FailedTyped ==
  ASSUME DriverTyped, pc \in {"command", "transfer"},
         NEW err \in {"none", "cto", "other"}, FailedWith(err)
  PROVE  DriverTyped'
  <1>1. CASE step = "call" /\ dev' = [dev EXCEPT !.error = err] /\ FailCall
    BY <1>1, FailCallTyped DEF DriverTyped
  <1>2. CASE /\ step = "ifcond" /\ dev' = [[dev EXCEPT !.error = err] EXCEPT !.v2 = FALSE]
             /\ pc' = "issue" /\ step' = "iocond"
             /\ UNCHANGED <<attempts, call, tries, buffer, block>>
    BY <1>2 DEF DriverTyped, StepNames
  <1>3. CASE /\ step = "iocond" /\ dev' = [dev EXCEPT !.error = err]
             /\ pc' = "issue" /\ step' = "ocr_app"
             /\ UNCHANGED <<attempts, call, tries, buffer, block>>
    BY <1>3 DEF DriverTyped, StepNames
  <1>4. CASE step # "call" /\ dev' = [dev EXCEPT !.error = err] /\ FailReset
    BY <1>4, FailResetTyped DEF DriverTyped
  <1>5. QED
    BY <1>1, <1>2, <1>3, <1>4 DEF FailedWith

LEMMA SucceededTyped ==
  ASSUME DriverTyped, pc \in {"command", "transfer"}, Succeeded,
         UNCHANGED <<attempts, call, tries, buffer, block>>
  PROVE  DriverTyped'
  <1>1. CASE step \in {"call", "scr"} /\ pc' = "idle" /\ step' = "call" /\ dev' = dev
    BY <1>1 DEF DriverTyped, StepNames
  <1>2. CASE pc' = "issue" /\ step \notin {"call", "scr"}
    <2>1. step' \in StepNames \ {"call"}
      BY <1>2 DEF Succeeded, StepNames
    <2>2. dev' \in [rca : BOOLEAN, sdhc : BOOLEAN, v2 : BOOLEAN,
                    error : {"none", "cto", "other"}, blocks : 0 .. NSectors]
      <3>1. 1 \in 0 .. NSectors
        BY EmmcAssumption
      <3>2. dev' \in {dev, [dev EXCEPT !.v2 = TRUE], [dev EXCEPT !.sdhc = card.kind = "hc"],
                      [dev EXCEPT !.rca = TRUE], [dev EXCEPT !.blocks = 1]}
        BY <1>2 DEF Succeeded
      <3>3. (card.kind = "hc") \in BOOLEAN
        OBVIOUS
      <3> HIDE DEF Succeeded
      <3>4. QED
        BY <3>1, <3>2, <3>3 DEF DriverTyped
    <2>3. step' \in {"scr_app", "scr"} => dev'.blocks = 1
      BY <1>2 DEF Succeeded, DriverTyped
    <2>4. QED
      BY <1>2, <2>1, <2>2, <2>3 DEF DriverTyped
  <1>3. QED
    BY <1>1, <1>2 DEF Succeeded

\* What a failure leaves of the controller: itself, or with no command.
LEMMA FailedHost ==
  ASSUME NEW err, FailedWith(err)
  PROVE  UNCHANGED host \/ (step \in {"ifcond", "iocond"} /\ DropsCommand)
  BY DEF FailedWith

LEMMA DropTyped == ASSUME HostTyped, DropsCommand PROVE HostTyped'
  BY DEF HostTyped, DropsCommand, HostFields

\* What an action of the controller or the card leaves alone.
LEMMA DriverStays == ASSUME DriverTyped, UNCHANGED driver PROVE DriverTyped'
  BY DEF DriverTyped, BufferTyped, driver

LEMMA FlagAdded ==
  ASSUME FlagsTyped, NEW extra \in SUBSET (Errors \cup {"cmd", "xfer", "rready", "wready"}),
         flags' = flags \cup extra
  PROVE  FlagsTyped'
  BY DEF FlagsTyped

LEMMA FlagsCleared == ASSUME FlagsTyped, NEW gone, flags' = flags \ gone PROVE FlagsTyped'
  BY DEF FlagsTyped

LEMMA ErrorNames == Errors = {"cto", "crc", "dto", "dcrc"}
  BY DEF Errors

\* The card's states after a command, a reset and a transfer that was given up.
LEMMA ObeyedTyped == ASSUME NEW c, CardTyped PROVE
  Obeyed(c) \in [kind : Kinds, state : CardStates, app : BOOLEAN, rca : BOOLEAN, busy : Nat]
  <1>1. StateAfter(c) \in CardStates
    BY DEF StateAfter, CardStates, CardTyped
  <1>2. (c.cmd = "App") \in BOOLEAN /\ (card.rca \/ c.cmd = "SendRelativeAddr") \in BOOLEAN
    OBVIOUS
  <1>3. (IF c.cmd = "OcrCheck" /\ ~c.query /\ card.busy > 0 THEN card.busy - 1 ELSE card.busy) \in Nat
    BY DEF CardTyped
  <1>4. QED
    BY <1>1, <1>2, <1>3 DEF Obeyed, CardTyped

LEMMA GivenUpTyped ==
  ASSUME NEW c, c \in [kind : Kinds, state : CardStates, app : BOOLEAN, rca : BOOLEAN, busy : Nat],
         NEW n
  PROVE  GivenUp(c, n) \in [kind : Kinds, state : CardStates, app : BOOLEAN, rca : BOOLEAN, busy : Nat]
  BY DEF GivenUp, CardStates

LEMMA TransferTyped ==
  ASSUME NEW c
  PROVE  DOMAIN Transfer(c) = TransferFields /\ Transfer(c).fifo = "empty"
  BY DEF Transfer, TransferFields

LEMMA RespondTyped == ASSUME Typed, Respond PROVE Typed'
  <1> USE DEF Typed
  <1>1. DriverTyped' /\ DiskTyped'
    BY DriverStays DEF Respond, DiskTyped
  <1>2. FlagsTyped'
    BY ErrorNames DEF Respond, FlagsTyped
  <1>3. CardTyped'
    <2>1. CASE host.cmd.cmd = "GoIdle"
      <3>1. PICK busy \in 0 .. MaxBusy : card' = Reset(busy)
        BY <2>1 DEF Respond
      <3>2. busy \in Nat
        BY EmmcAssumption
      <3>3. QED
        BY <3>1, <3>2 DEF Reset, CardTyped, CardStates
    <2>2. CASE host.cmd.cmd # "GoIdle" /\ Answers(host.cmd)
      BY <2>2, ObeyedTyped DEF Respond, CardTyped
    <2>3. CASE host.cmd.cmd # "GoIdle" /\ ~Answers(host.cmd)
      BY <2>3 DEF Respond, CardTyped
    <2>4. QED
      BY <2>1, <2>2, <2>3
  <1>4. HostTyped'
    <2>1. CASE host' = [host EXCEPT !.cmd = None]
      BY <2>1 DEF HostTyped, HostFields
    <2>2. CASE host' = [host EXCEPT !.cmd = None, !.up = host.cmd.cmd = "OcrCheck" /\ ComesUp(host.cmd),
                                    !.data = IF UsesDataLines(host.cmd.cmd) THEN Transfer(host.cmd) ELSE host.data]
      BY <2>2, TransferTyped DEF HostTyped, HostFields
    <2>3. QED
      BY <2>1, <2>2 DEF Respond
  <1>5. QED
    BY <1>1, <1>2, <1>3, <1>4

LEMMA DataActionsTyped ==
  ASSUME Typed, OfferBlock \/ SendBlock \/ Finish \/ SlowData \/ CorruptData
  PROVE  Typed'
  <1> USE DEF Typed, Moving
  <1>1. DriverTyped'
    BY DriverStays DEF OfferBlock, SendBlock, Finish, SlowData, CorruptData
  <1>2. FlagsTyped'
    <2>1. \A c : Ready(c) \in {"rready", "wready"}
      BY DEF Ready
    <2>2. ASSUME NEW e \in SUBSET {"dto"} PROVE e \subseteq Errors
      BY ErrorNames
    <2>3. QED
      BY <2>1, <2>2, ErrorNames DEF OfferBlock, SendBlock, Finish, SlowData, CorruptData, FlagsTyped
  <1>3. CardTyped'
    <2>1. CASE Finish
      BY <2>1 DEF Finish, CardTyped, CardStates
    <2>2. CASE card' = GivenUp(card, host.data.n)
      BY <2>2, GivenUpTyped DEF CardTyped
    <2>3. CASE UNCHANGED card
      BY <2>3 DEF CardTyped
    <2>4. QED
      BY <2>1, <2>2, <2>3 DEF OfferBlock, SendBlock, SlowData, CorruptData
  <1>4. DiskTyped'
    <2>1. CASE SendBlock
      BY <2>1 DEF SendBlock, DiskTyped, HostTyped
    <2>2. CASE UNCHANGED disk
      BY <2>2 DEF DiskTyped
    <2>3. QED
      BY <2>1, <2>2 DEF OfferBlock, Finish, SlowData, CorruptData
  <1>5. HostTyped'
    <2>1. CASE OfferBlock
      BY <2>1 DEF OfferBlock, HostTyped, HostFields, TransferFields
    <2>2. CASE SendBlock
      BY <2>2 DEF SendBlock, HostTyped, HostFields, TransferFields
    <2>3. CASE Finish
      BY <2>3 DEF Finish, HostTyped, HostFields
    <2>4. CASE SlowData
      BY <2>4 DEF SlowData, HostTyped, HostFields, TransferFields
    <2>5. CASE CorruptData
      BY <2>5 DEF CorruptData, HostTyped, HostFields, TransferFields
    <2>6. QED
      BY <2>1, <2>2, <2>3, <2>4, <2>5
  <1>6. QED
    BY <1>1, <1>2, <1>3, <1>4, <1>5

LEMMA CommandFaultsTyped == ASSUME Typed, Lose \/ Garble \/ Stall PROVE Typed'
  <1> USE DEF Typed
  <1>1. DriverTyped' /\ DiskTyped'
    BY DriverStays DEF Lose, Garble, Stall, DiskTyped
  <1>2. FlagsTyped'
    BY ErrorNames DEF Lose, Garble, Stall, FlagsTyped
  <1>3. CardTyped'
    BY ObeyedTyped, GivenUpTyped DEF Lose, Garble, Stall, CardTyped
  <1>4. HostTyped'
    BY DEF Lose, Garble, Stall, HostTyped, HostFields
  <1>5. QED
    BY <1>1, <1>2, <1>3, <1>4

LEMMA ResetTyped == ASSUME Typed, CardReset \/ CardResetFails PROVE Typed'
  <1> USE DEF Typed
  <1>1. CASE CardReset
    <2>1. DriverTyped'
      BY <1>1, EmmcAssumption DEF CardReset, GoTo, DriverTyped, StepNames
    <2>2. FlagsTyped' /\ CardTyped' /\ DiskTyped' /\ HostTyped'
      BY <1>1 DEF CardReset, FlagsTyped, CardTyped, DiskTyped, HostTyped, HostFields
    <2>3. QED
      BY <2>1, <2>2
  <1>2. CASE CardResetFails
    <2>1. DriverTyped'
      BY <1>2, FailResetTyped DEF CardResetFails, DriverTyped
    <2>2. FlagsTyped' /\ CardTyped' /\ DiskTyped' /\ HostTyped'
      BY <1>2 DEF CardResetFails, FlagsTyped, CardTyped, DiskTyped, HostTyped
    <2>3. QED
      BY <2>1, <2>2
  <1>3. QED
    BY <1>1, <1>2

LEMMA IssueTyped == ASSUME Typed, Issue PROVE Typed'
  <1> USE DEF Typed
  <1>1. DriverTyped'
    BY DEF Issue, DriverTyped, BufferTyped
  <1>2. FlagsTyped' /\ CardTyped' /\ DiskTyped'
    BY DEF Issue, FlagsTyped, CardTyped, DiskTyped
  <1>3. HostTyped'
    BY DEF Issue, Accept, HostTyped, HostFields
  <1>4. QED
    BY <1>1, <1>2, <1>3

LEMMA CommandEndsTyped == ASSUME Typed, CommandEnds PROVE Typed'
  <1> USE DEF Typed
  <1>1. step \in StepNames /\ pc \in {"command", "transfer"}
    BY DEF DriverTyped, CommandEnds
  <1>2. FlagsTyped' /\ CardTyped' /\ DiskTyped'
    BY DEF CommandEnds, FlagsTyped, CardTyped, DiskTyped
  <1>3. CASE Failed(LastError(flags))
    <2>1. FailedWith(LastError(flags))
      BY <1>1, <1>3, FailedLeads
    <2>2. DriverTyped' /\ HostTyped'
      BY <1>1, <2>1, FailedTyped, FailedHost, DropTyped, LastErrorIs DEF HostTyped
    <2>3. QED
      BY <1>2, <2>2
  <1>4. CASE Succeed
    <2>1. Succeeded /\ UNCHANGED <<attempts, call, tries, buffer, block, host>>
      BY <1>1, <1>4, SucceedLeads
    <2>2. DriverTyped' /\ HostTyped'
      BY <1>1, <2>1, SucceededTyped DEF HostTyped
    <2>3. QED
      BY <1>2, <2>2
  <1>5. CASE /\ UsesDataLines(Command)
             /\ pc' = IF IsData(Command) THEN "block" ELSE "transfer"
             /\ block' = 1
             /\ UNCHANGED <<step, attempts, dev, call, tries, buffer, host>>
    <2>1. pc' = "block" => step \in {"scr", "call"}
      BY <1>1, <1>5, DataStepsAre
    <2>2. pc' = "transfer" => step = "select"
      BY <1>1, <1>5, DataStepsAre
    <2>3. BufferTyped => BufferTyped'
      BY <1>5 DEF BufferTyped
    <2>4. pc' = "block" => dev.blocks >= 1
      BY <1>1, <2>1 DEF DriverTyped, BufferTyped, CommandEnds
    <2>5. DriverTyped'
      BY <1>1, <1>5, <2>1, <2>2, <2>3, <2>4, EmmcAssumption DEF DriverTyped, CommandEnds
    <2>6. HostTyped'
      BY <1>5 DEF HostTyped
    <2>7. QED
      BY <1>2, <2>5, <2>6
  <1>6. QED
    BY <1>3, <1>4, <1>5 DEF CommandEnds

LEMMA CommandTimesOutTyped == ASSUME Typed, CommandTimesOut PROVE Typed'
  <1> USE DEF Typed
  <1>1. step \in StepNames /\ pc \in {"command", "transfer"} /\ dev.error \in {"none", "cto", "other"}
    BY DEF DriverTyped, CommandTimesOut
  <1>2. FlagsTyped' /\ CardTyped' /\ DiskTyped'
    BY DEF CommandTimesOut, FlagsTyped, CardTyped, DiskTyped
  <1>3. FailedWith(dev.error)
    BY <1>1, FailedLeads DEF CommandTimesOut
  <1>4. DriverTyped' /\ HostTyped'
    BY <1>1, <1>3, FailedTyped, FailedHost, DropTyped DEF HostTyped
  <1>5. QED
    BY <1>2, <1>4

LEMMA CommandLineStuckTyped == ASSUME Typed, CommandLineStuck PROVE Typed'
  <1> USE DEF Typed
  <1>1. FlagsTyped' /\ CardTyped' /\ DiskTyped' /\ HostTyped'
    BY DEF CommandLineStuck, Continue, FlagsTyped, CardTyped, DiskTyped, HostTyped
  <1>2. DriverTyped'
    <2>1. CASE step = "ifcond"
      BY <2>1 DEF CommandLineStuck, Continue, GoTo, DriverTyped, StepNames
    <2>2. CASE step = "iocond"
      BY <2>2, FailResetTyped DEF CommandLineStuck, DriverTyped
    <2>3. QED
      BY <2>1, <2>2 DEF CommandLineStuck
  <1>3. QED
    BY <1>1, <1>2

LEMMA TransferBlockTyped == ASSUME Typed, TransferBlock PROVE Typed'
  <1> USE DEF Typed
  <1> DEFINE r == Ready(Command)
             served == flags \cap (Errors \cup {r}) = {r}
             here == host.data # None /\ host.data.fifo = "ready"
  <1>1. FlagsTyped' /\ CardTyped' /\ DiskTyped'
    BY DEF TransferBlock, FlagsTyped, CardTyped, DiskTyped
  <1>2. pc = "block" /\ block \in 1 .. dev.blocks /\ step \in {"scr", "call"} /\ dev.blocks \in 0 .. NSectors
    BY DEF TransferBlock, DriverTyped
  <1>3. CASE served
    <2>1. /\ buffer' = IF IsWrite(Command) \/ step = "scr" THEN buffer
                       ELSE [buffer EXCEPT ![block] = IF here THEN host.data.value ELSE Junk]
          /\ block' = block + 1
          /\ pc' = IF block = dev.blocks THEN "transfer" ELSE "block"
          /\ UNCHANGED <<step, attempts, call, tries, dev>>
      BY <1>3 DEF TransferBlock
    <2>2. step = "call" => BufferTyped'
      <3> SUFFICES ASSUME step = "call" PROVE BufferTyped'
        OBVIOUS
      <3>1. BufferTyped
        BY <1>2 DEF DriverTyped
      <3>2. IsWrite(Command) <=> call.op = "write"
        BY CommandsAre, DataCommandIs
      <3>3. CASE IsWrite(Command)
        BY <2>1, <3>1, <3>3 DEF BufferTyped
      <3>4. CASE ~IsWrite(Command)
        BY <1>2, <2>1, <3>1, <3>2, <3>4 DEF BufferTyped
      <3>5. QED
        BY <3>3, <3>4
    <2>3. DriverTyped'
      BY <1>2, <2>1, <2>2, EmmcAssumption DEF DriverTyped
    <2>4. HostTyped'
      <3>1. CASE ~here
        BY <1>3, <3>1 DEF TransferBlock, HostTyped
      <3>2. CASE here /\ ~IsWrite(Command)
        <4>1. host' = [host EXCEPT !.data.fifo = "empty", !.data.at = @ + 1, !.data.left = @ - 1]
          BY <1>3, <3>2 DEF TransferBlock
        <4>2. QED
          BY <3>2, <4>1 DEF HostTyped, HostFields, TransferFields
      <3>3. CASE here /\ IsWrite(Command)
        <4>1. host' = [host EXCEPT !.data.fifo = "full", !.data.value = buffer[block]]
          BY <1>3, <3>3 DEF TransferBlock
        <4>2. step = "call" /\ call.op = "write"
          BY <1>2, <3>3, DataStepsAre, CommandsAre, DataCommandIs DEF DriverTyped
        <4>3. buffer[block] \in Values
          BY <1>2, <4>2 DEF DriverTyped, BufferTyped
        <4>4. QED
          BY <3>3, <4>1, <4>3 DEF HostTyped, HostFields, TransferFields
      <3>4. QED
        BY <3>1, <3>2, <3>3
    <2>5. QED
      BY <1>1, <2>3, <2>4
  <1>4. CASE ~served
    <2>1. /\ pc' = "transfer" /\ dev' = [dev EXCEPT !.error = LastError(flags)]
          /\ UNCHANGED <<step, attempts, call, tries, buffer, block, host>>
      BY <1>4 DEF TransferBlock
    <2>2. BufferTyped => BufferTyped'
      BY <1>2, <2>1 DEF BufferTyped, DriverTyped
    <2>3. DriverTyped'
      BY <1>2, <2>1, <2>2, LastErrorIs DEF DriverTyped
    <2>4. HostTyped'
      BY <2>1 DEF HostTyped
    <2>5. QED
      BY <1>1, <2>3, <2>4
  <1>5. QED
    BY <1>3, <1>4

LEMMA TransferEndsTyped == ASSUME Typed, TransferEnds PROVE Typed'
  <1> USE DEF Typed
  <1>1. step \in StepNames /\ pc \in {"command", "transfer"}
    BY DEF DriverTyped, TransferEnds
  <1>2. FlagsTyped' /\ CardTyped' /\ DiskTyped'
    BY DEF TransferEnds, FlagsTyped, CardTyped, DiskTyped
  <1>3. CASE Failed(LastError(flags))
    <2>1. FailedWith(LastError(flags))
      BY <1>1, <1>3, FailedLeads
    <2>2. DriverTyped' /\ HostTyped'
      BY <1>1, <2>1, FailedTyped, FailedHost, DropTyped, LastErrorIs DEF HostTyped
    <2>3. QED
      BY <1>2, <2>2
  <1>4. CASE Succeed
    <2>1. Succeeded /\ UNCHANGED <<attempts, call, tries, buffer, block, host>>
      BY <1>1, <1>4, SucceedLeads
    <2>2. DriverTyped' /\ HostTyped'
      BY <1>1, <2>1, SucceededTyped DEF HostTyped
    <2>3. QED
      BY <1>2, <2>2
  <1>5. QED
    BY <1>3, <1>4 DEF TransferEnds

LEMMA CallTyped == ASSUME Typed, Call PROVE Typed'
  <1> USE DEF Typed
  <1>1. PICK op \in {"read", "write"}, s \in Sectors, n \in 0 .. NSectors :
          /\ call' = [op |-> op, sector |-> s, n |-> n]
          /\ IF n = 0
             THEN pc' = "panic" /\ UNCHANGED <<dev, buffer>>
             ELSE /\ pc' = "issue"
                  /\ dev' = [dev EXCEPT !.blocks = n]
                  /\ buffer' \in IF op = "write" THEN [1 .. n -> Values]
                                               ELSE {[i \in 1 .. n |-> Junk]}
    BY DEF Call
  <1>2. FlagsTyped' /\ CardTyped' /\ DiskTyped' /\ HostTyped'
    BY DEF Call, FlagsTyped, CardTyped, DiskTyped, HostTyped
  <1>3. /\ step' = "call" /\ tries' = 0 /\ UNCHANGED <<attempts, block>> /\ pc = "idle"
    BY DEF Call
  <1>4. CASE n = 0
    BY <1>1, <1>2, <1>3, <1>4, EmmcAssumption DEF DriverTyped, StepNames
  <1>5. CASE n # 0
    <2>1. n \in 1 .. NSectors
      BY <1>5, EmmcAssumption
    <2>2. dev'.blocks = n /\ pc' = "issue"
      BY <1>1, <1>5 DEF DriverTyped
    <2>3. BufferTyped'
      BY <1>1, <1>5, <2>1, <2>2 DEF BufferTyped
    <2>4. dev' \in [rca : BOOLEAN, sdhc : BOOLEAN, v2 : BOOLEAN,
                    error : {"none", "cto", "other"}, blocks : 0 .. NSectors]
      BY <1>1, <1>5, <2>1 DEF DriverTyped
    <2>5. DriverTyped'
      BY <1>3, <2>1, <2>2, <2>3, <2>4, EmmcAssumption DEF DriverTyped, StepNames
    <2>6. QED
      BY <1>2, <2>5
  <1>6. QED
    BY <1>4, <1>5

LEMMA TypedStep == ASSUME Typed, [Next]_vars PROVE Typed'
  <1>1. CASE UNCHANGED vars
    BY <1>1 DEF Typed, DriverTyped, BufferTyped, FlagsTyped, HostTyped, CardTyped, DiskTyped, vars, driver
  <1>2. CASE Driver
    BY <1>2, ResetTyped, IssueTyped, CommandEndsTyped, CommandTimesOutTyped, TransferBlockTyped,
       TransferEndsTyped DEF Driver
  <1>3. CASE Call
    BY <1>3, CallTyped
  <1>4. CASE Controller
    BY <1>4, RespondTyped, DataActionsTyped DEF Controller
  <1>5. CASE Faulty
    BY <1>5, CommandFaultsTyped, DataActionsTyped, ResetTyped, CommandLineStuckTyped DEF Faulty
  <1>6. QED
    BY <1>1, <1>2, <1>3, <1>4, <1>5 DEF Next

LEMMA TypedAlways == Spec => []Typed
  BY TypedInit, TypedStep, PTL DEF Spec

\* Every variable of the driver, the controller and the card keeps its type,
\* whatever goes wrong: do_data_transfer stays within the blocks asked for, and
\* emmc_init and do_data_command stop at their limits.
THEOREM EmmcTypeCorrect == Spec => []TypeOK
  BY TypedAlways, TypedImpliesTypeOK, PTL

-----------------------------------------------------------------------------
(* The command line.  A response that arrives after its time-out is taken   *)
(* for the answer to the command after, so the driver may run one command   *)
(* ahead of the card.  It is in step again when IOSetOpCond's busy bit is   *)
(* seen, which only the answer to that very command can carry.              *)

InStepSteps == {"cid", "rca", "select", "blocklen", "scr_app", "scr"}

\* At most one command is outstanding, also when the driver runs ahead.
OneAhead ==
  /\ pc = "issue" /\ "cmd" \in flags => host.cmd = None
  /\ step = "up_app" /\ pc = "command" /\ "cmd" \in flags /\ host.cmd # None => host.cmd.cmd = "App"

\* The busy bit that the driver acts on is not an older one.
BusyBitFresh ==
  /\ step = "up" /\ pc = "issue" /\ host.cmd # None => host.cmd.cmd = "App"
  /\ step = "up" /\ pc = "issue" /\ "cmd" \in flags => ~host.up
  /\ step = "up" /\ pc = "command" /\ "cmd" \in flags /\ host.cmd # None => ~host.up

\* From then on a response answers the command that was issued last.
InStep ==
  /\ step \in InStepSteps /\ pc = "issue" => host.cmd = None /\ "cmd" \notin flags
  /\ step \in InStepSteps /\ pc = "command" /\ "cmd" \in flags => host.cmd = None
  /\ pc \in {"block", "transfer"} => host.cmd = None /\ "cmd" \notin flags
  /\ step \in InStepSteps \cup {"call"} => dev.sdhc = (card.kind = "hc")

\* The data lines are in use only from the command that needs them to the end
\* of its transfer, or to the end of the attempt.
DataLines ==
  /\ "xfer" \in flags => host.data = None
  /\ host.cmd # None /\ UsesDataLines(host.cmd.cmd) => "xfer" \notin flags /\ host.data = None
  /\ step \notin {"select", "scr", "call"} /\ pc \notin {"reset", "failed"} =>
       /\ host.data = None /\ "xfer" \notin flags
       /\ host.cmd # None => ~UsesDataLines(host.cmd.cmd)
  /\ step \in {"select", "scr"} /\ pc = "issue" => host.data = None /\ "xfer" \notin flags

\* The card is not written to before the first call.
NothingWritten ==
  step # "call" => /\ host.cmd # None => ~IsWrite(host.cmd.cmd)
                   /\ host.data # None => ~IsWrite(host.data.cmd)

\* Between two calls nothing of the last one is left.
Quiet == pc = "idle" => host.cmd = None /\ host.data = None /\ flags = {}

Lines == OneAhead /\ BusyBitFresh /\ InStep /\ DataLines /\ NothingWritten /\ Quiet

-----------------------------------------------------------------------------
(* A call.  Every try of it issues the same command, so that a command or a *)
(* transfer of an earlier try that is still under way serves the later one. *)

Calling == step = "call" /\ pc \in {"issue", "command", "block", "transfer"}
ReadyFlag == Ready(DataCommand)
Same(i) == buffer[i] = disk[call.sector + i - 1]

\* The call was asked for in its range, and the buffer has its blocks.
CallShape ==
  /\ call.op \in {"read", "write"}
  /\ call.sector \in Nat /\ call.n \in Nat \ {0} /\ call.sector + call.n <= NSectors
  /\ dev.blocks = call.n
  /\ buffer \in [1 .. call.n -> Values \cup {Junk}]

\* What is on the command line is this call's command.
CommandOfCall ==
  /\ host.cmd # None => /\ host.cmd.cmd = DataCommand /\ host.cmd.addr = Address
                        /\ host.cmd.n = call.n /\ host.data = None
  /\ flags \cap {"rready", "wready"} \subseteq {ReadyFlag}

\* What is on the data lines is a transfer of this call: where it stands, and
\* what it has moved.
TransferOfCall == host.data # None =>
  LET d == host.data IN
  /\ d.cmd = DataCommand /\ d.n = call.n
  /\ d.left \in 0 .. call.n /\ d.at = call.sector + call.n - d.left
  /\ d.fifo \in {"empty", "ready", "full"} /\ (d.fifo # "empty" => d.left > 0)
  /\ d.pace \in {"normal", "stuck"} /\ d.value \in Values \cup {Junk}
  /\ call.op = "read" => d.fifo # "full" /\ (d.fifo = "ready" => d.value = disk[d.at])
  /\ d.fifo = "full" => d.value = buffer[call.n - d.left + 1]
  /\ call.op = "write" => \A i \in 1 .. call.n - d.left : Same(i)

\* Before the driver has seen the response of a try: a response without an error
\* comes with a transfer of which no block was moved, and no transfer ends.
BeforeTransfer == pc \in {"issue", "command"} =>
  /\ "cmd" \in flags /\ flags \cap Errors = {} =>
       host.cmd = None /\ host.data # None /\ host.data.left = call.n /\ host.data.fifo # "full"
  /\ "xfer" \notin flags
  /\ host.data # None /\ host.data.pace = "normal" => host.data.fifo # "full" /\ host.data.left > 0

\* A block flag without a block in the FIFO is left by a transfer of several
\* blocks that failed: the card waits for a stop command and answers no more.
StaleFlag == call.n > 1 /\ ReadyFlag \in flags =>
  \/ host.data # None /\ host.data.fifo = "ready"
  \/ host.data = None /\ card.state = "data"

\* do_data_transfer's loop and the transfer go together; they can part only on
\* a single block, whose transfer then does not end.
InTransfer == pc \in {"block", "transfer"} =>
  /\ block \in 1 .. call.n + 1 /\ (pc = "block" => block <= call.n)
  /\ flags \cap Errors # {} => host.data = None \/ host.data.pace = "stuck"
  /\ host.data # None =>
       /\ call.n - Unserved <= block - 1
       /\ call.n > 1 => call.n - Unserved = block - 1
       /\ call.op = "read" /\ call.n - Unserved = block - 1 => \A i \in 1 .. block - 1 : Same(i)
       /\ block > 1 /\ ReadyFlag \in flags => host.data.fifo = "ready"
       /\ pc = "transfer" /\ host.data.pace = "normal" => block = call.n + 1
  /\ "xfer" \in flags => /\ pc = "transfer" /\ ReadyFlag \notin flags
                         /\ \A i \in 1 .. call.n : Same(i)

CallInv == Calling =>
  CallShape /\ CommandOfCall /\ TransferOfCall /\ BeforeTransfer /\ StaleFlag /\ InTransfer

\* After the driver's panic the controller may go on, but writes nothing.
PanicInv == pc = "panic" => (host.data # None => host.data.fifo # "full" \/ host.data.pace = "stuck")

\* The inductive invariant of the refinement.
IInv == Typed /\ Lines /\ CallInv /\ PanicInv

-----------------------------------------------------------------------------
(* What the controller's and the card's actions do to the two lines. *)

OnLines == Respond \/ OfferBlock \/ SendBlock \/ Finish \/ Lose \/ Garble \/ Stall \/ SlowData \/ CorruptData

\* The command stays, or it goes and its answer's flag comes.
CommandLineStep ==
  \/ host'.cmd = host.cmd /\ host'.up = host.up /\ ("cmd" \in flags' <=> "cmd" \in flags)
  \/ /\ host.cmd # None /\ host'.cmd = None
     /\ "cmd" \in flags' /\ host.cmd.cmd = "App" => "cmd" \in flags \/ ~host'.up

\* The data lines stay in use or free, are taken by the command, or are freed.
DataLineStep ==
  \/ /\ host'.cmd = host.cmd \/ host'.cmd = None
     /\ host.data = None <=> host'.data = None
     /\ host.data # None => host'.data.cmd = host.data.cmd
     /\ "xfer" \in flags' <=> "xfer" \in flags
  \/ /\ host.cmd # None /\ UsesDataLines(host.cmd.cmd) /\ host'.cmd = None
     /\ host'.data # None /\ host'.data.cmd = host.cmd.cmd
     /\ "xfer" \in flags' <=> "xfer" \in flags
  \/ host.data # None /\ host'.cmd = host.cmd /\ host'.data = None

\* A record of a command is not the absence of one.
LEMMA TransferIsSomething == ASSUME NEW c, c.cmd # "none" PROVE Transfer(c) # None /\ Transfer(c).cmd = c.cmd
  BY DEF Transfer, None

\* Changing a field of a transfer leaves a transfer.
LEMMA StillSomething ==
  ASSUME NEW d, DOMAIN d = TransferFields
  PROVE  d # None
  <1>1. "at" \in DOMAIN d /\ "at" \notin DOMAIN None
    BY DEF TransferFields, None
  <1>2. QED
    BY <1>1

LEMMA OnLinesCommand == ASSUME Typed, OnLines PROVE CommandLineStep
  <1> USE DEF Typed, HostTyped, HostFields
  <1>1. CASE Respond
    <2> USE <1>1 DEF Respond
    <2>1. CASE host.cmd.cmd = "GoIdle"
      BY <2>1 DEF CommandLineStep
    <2>2. CASE host.cmd.cmd # "GoIdle" /\ Answers(host.cmd)
      BY <2>2 DEF CommandLineStep
    <2>3. CASE host.cmd.cmd # "GoIdle" /\ ~Answers(host.cmd)
      BY <2>3 DEF CommandLineStep
    <2>4. QED
      BY <2>1, <2>2, <2>3
  <1>2. CASE Lose \/ Garble \/ Stall
    BY <1>2 DEF Lose, Garble, Stall, CommandLineStep
  <1>3. CASE OfferBlock \/ SendBlock \/ Finish
    <2>1. \A c : Ready(c) # "cmd"
      BY DEF Ready
    <2>2. QED
      BY <1>3, <2>1 DEF OfferBlock, SendBlock, Finish, CommandLineStep
  <1>4. CASE SlowData \/ CorruptData
    BY <1>4 DEF SlowData, CorruptData, CommandLineStep
  <1>5. QED
    BY <1>1, <1>2, <1>3, <1>4 DEF OnLines

LEMMA OnLinesData == ASSUME Typed, OnLines PROVE DataLineStep
  <1> USE DEF Typed, HostTyped, HostFields, TransferFields
  <1>1. CASE Respond
    <2> USE <1>1 DEF Respond
    <2>1. CASE host.cmd.cmd = "GoIdle"
      BY <2>1 DEF DataLineStep
    <2>2. CASE host.cmd.cmd # "GoIdle" /\ Answers(host.cmd)
      <3>1. host.cmd.cmd # "none"
        BY <2>2 DEF Answers, DataCommands
      <3>2. CASE UsesDataLines(host.cmd.cmd)
        BY <2>2, <3>1, <3>2, TransferIsSomething DEF DataLineStep
      <3>3. CASE ~UsesDataLines(host.cmd.cmd)
        BY <2>2, <3>3 DEF DataLineStep
      <3>4. QED
        BY <3>2, <3>3
    <2>3. CASE host.cmd.cmd # "GoIdle" /\ ~Answers(host.cmd)
      BY <2>3 DEF DataLineStep
    <2>4. QED
      BY <2>1, <2>2, <2>3
  <1>2. CASE Lose \/ Garble \/ Stall
    BY <1>2 DEF Lose, Garble, Stall, DataLineStep
  <1>3. CASE OfferBlock
    <2>1. \A c : Ready(c) # "xfer"
      BY DEF Ready
    <2>2. DOMAIN host.data = TransferFields /\ DOMAIN host'.data = TransferFields /\ host'.data.cmd = host.data.cmd
      BY <1>3 DEF OfferBlock, Moving
    <2>3. host.data # None /\ host'.data # None
      BY <2>2, StillSomething
    <2>4. QED
      BY <1>3, <2>1, <2>2, <2>3 DEF OfferBlock, DataLineStep
  <1>4. CASE SendBlock
    <2>1. DOMAIN host.data = TransferFields /\ DOMAIN host'.data = TransferFields /\ host'.data.cmd = host.data.cmd
      BY <1>4 DEF SendBlock, Moving
    <2>2. host.data # None /\ host'.data # None
      BY <2>1, StillSomething
    <2>3. QED
      BY <1>4, <2>1, <2>2 DEF SendBlock, DataLineStep
  <1>5. CASE Finish
    BY <1>5 DEF Finish, Moving, DataLineStep
  <1>6. CASE SlowData
    <2>1. DOMAIN host.data = TransferFields /\ DOMAIN host'.data = TransferFields /\ host'.data.cmd = host.data.cmd
      BY <1>6 DEF SlowData, Moving
    <2>2. host.data # None /\ host'.data # None
      BY <2>1, StillSomething
    <2>3. QED
      BY <1>6, <2>1, <2>2 DEF SlowData, DataLineStep
  <1>7. CASE CorruptData
    <2>1. CASE host' = [host EXCEPT !.data = None]
      BY <1>7, <2>1 DEF CorruptData, Moving, DataLineStep
    <2>2. CASE host' = [host EXCEPT !.data.pace = "stuck"]
      <3>1. DOMAIN host.data = TransferFields /\ DOMAIN host'.data = TransferFields /\ host'.data.cmd = host.data.cmd
        BY <1>7, <2>2 DEF CorruptData, Moving
      <3>2. host.data # None /\ host'.data # None
        BY <3>1, StillSomething
      <3>3. QED
        BY <1>7, <2>2, <3>1, <3>2 DEF CorruptData, DataLineStep
    <2>3. QED
      BY <1>7, <2>1, <2>2 DEF CorruptData
  <1>8. QED
    BY <1>1, <1>2, <1>3, <1>4, <1>5, <1>6, <1>7 DEF OnLines

LEMMA OnLinesRest ==
  ASSUME Typed, OnLines
  PROVE  /\ UNCHANGED driver /\ card'.kind = card.kind /\ (flags' = {} => flags = {})
         /\ host.cmd # None \/ host.data # None
  <1> USE DEF Typed, CardTyped
  <1>1. UNCHANGED driver /\ (flags' = {} => flags = {})
    BY DEF OnLines, Respond, Lose, Garble, Stall, OfferBlock, SendBlock, Finish, SlowData, CorruptData
  <1>2. card'.kind = card.kind
    <2>1. \A c : Obeyed(c).kind = card.kind
      BY DEF Obeyed
    <2>2. \A c, n : c.kind = card.kind /\ "state" \in DOMAIN c => GivenUp(c, n).kind = card.kind
      BY DEF GivenUp
    <2>3. \A c : "state" \in DOMAIN Obeyed(c)
      BY DEF Obeyed
    <2>4. \A b : Reset(b).kind = card.kind
      BY DEF Reset
    <2>5. CASE Respond
      BY <2>1, <2>4, <2>5 DEF Respond
    <2>6. CASE Lose \/ Garble \/ Stall
      BY <2>1, <2>2, <2>3, <2>6 DEF Lose, Garble, Stall
    <2>7. CASE OfferBlock \/ SendBlock \/ Finish \/ SlowData \/ CorruptData
      <3>1. card.kind = card.kind /\ "state" \in DOMAIN card
        OBVIOUS
      <3>2. GivenUp(card, host.data.n).kind = card.kind
        BY <2>2, <3>1
      <3>3. card' \in {card, GivenUp(card, host.data.n), [card EXCEPT !.state = "tran"]}
        BY <2>7 DEF OfferBlock, SendBlock, Finish, SlowData, CorruptData
      <3>4. QED
        BY <3>1, <3>2, <3>3
    <2>8. QED
      BY <2>5, <2>6, <2>7 DEF OnLines
  <1>3. ~(host.cmd = None /\ host.data = None)
    BY DEF OnLines, Respond, Lose, Garble, Stall, OfferBlock, SendBlock, Finish, SlowData, CorruptData, Moving
  <1>4. QED
    BY <1>1, <1>2, <1>3

LEMMA LinesOnLines == ASSUME Typed, Lines, OnLines PROVE Lines'
  <1>1. CommandLineStep
    BY OnLinesCommand
  <1>2. DataLineStep
    BY OnLinesData
  <1>3. /\ UNCHANGED <<pc, step, dev>> /\ card'.kind = card.kind
        /\ host.cmd # None \/ host.data # None
    BY OnLinesRest DEF driver
  <1> USE DEF Lines
  <1>4. OneAhead'
    BY <1>1, <1>3 DEF CommandLineStep, OneAhead
  <1>5. BusyBitFresh'
    BY <1>1, <1>3 DEF CommandLineStep, BusyBitFresh, OneAhead
  <1>6. InStep'
    BY <1>1, <1>3 DEF CommandLineStep, InStep
  <1>7. DataLines'
    <2>1. CASE /\ host'.cmd = host.cmd \/ host'.cmd = None
               /\ host.data = None <=> host'.data = None
               /\ "xfer" \in flags' <=> "xfer" \in flags
      BY <1>3, <2>1 DEF DataLines
    <2>2. CASE /\ host.cmd # None /\ UsesDataLines(host.cmd.cmd) /\ host'.cmd = None
               /\ host'.data # None
               /\ "xfer" \in flags' <=> "xfer" \in flags
      BY <1>3, <2>2 DEF DataLines, InStep, InStepSteps
    <2>3. CASE host.data # None /\ host'.cmd = host.cmd /\ host'.data = None
      BY <1>3, <2>3 DEF DataLines
    <2>4. QED
      BY <1>2, <2>1, <2>2, <2>3 DEF DataLineStep
  <1>8. NothingWritten'
    BY <1>2, <1>3 DEF DataLineStep, NothingWritten
  <1>9. Quiet'
    BY <1>3 DEF Quiet
  <1>10. QED
    BY <1>4, <1>5, <1>6, <1>7, <1>8, <1>9

LEMMA LinesInit == Init => Lines
  BY DEF Init, Lines, OneAhead, BusyBitFresh, InStep, InStepSteps, DataLines, NothingWritten, Quiet

\* A new attempt, which resets the controller.
LEMMA LinesReset == ASSUME Typed, Lines, CardReset \/ CardResetFails PROVE Lines'
  <1> USE DEF Lines, Typed, DriverTyped, HostTyped, HostFields
  <1>1. CASE CardReset
    BY <1>1 DEF CardReset, GoTo, OneAhead, BusyBitFresh, InStep, InStepSteps, DataLines, NothingWritten, Quiet
  <1>2. CASE CardResetFails
    <2>1. step' = "goidle" /\ pc' \in {"reset", "failed"} /\ UNCHANGED <<host, flags, card>> /\ step = "goidle"
      BY <1>2 DEF CardResetFails, FailReset, GoTo
    <2>2. QED
      BY <2>1 DEF OneAhead, BusyBitFresh, InStep, InStepSteps, DataLines, NothingWritten, Quiet
  <1>3. QED
    BY <1>1, <1>2

\* A command is taken, or one that is still outstanding stays.
LEMMA IssueTakes ==
  ASSUME Typed, Issue
  PROVE  /\ pc = "issue" /\ pc' = "command"
         /\ UNCHANGED <<step, attempts, dev, call, tries, buffer, block, flags, card, disk>>
         /\ host'.data = host.data /\ host'.up = host.up
         /\ \/ host' = host /\ (host.cmd # None \/ (UsesDataLines(Command) /\ host.data # None))
            \/ /\ host.cmd = None /\ host'.cmd = Argument
               /\ UsesDataLines(Command) => host.data = None
  <1>1. Argument.cmd = Command
    BY DEF Argument
  <1>2. QED
    BY <1>1 DEF Issue, Accept, Typed, HostTyped, HostFields

LEMMA LinesIssue == ASSUME Typed, Lines, CallInv, Issue PROVE Lines'
  <1> USE DEF Lines, Typed
  <1>1. Argument.cmd = Command
    BY DEF Argument
  <1>2. step \in StepNames
    BY DEF DriverTyped
  <1>3. OneAhead'
    BY <1>1, IssueTakes, CommandsAre, DataStepsAre, <1>2 DEF OneAhead
  <1>4. BusyBitFresh'
    BY <1>1, IssueTakes DEF BusyBitFresh, OneAhead
  <1>5. InStep'
    BY IssueTakes DEF InStep, InStepSteps
  <1>6. DataLines'
    <2>1. UsesDataLines(Command) => "xfer" \notin flags
      BY <1>2, DataStepsAre, IssueTakes DEF DataLines, CallInv, Calling, BeforeTransfer
    <2>2. UsesDataLines(Command) <=> step \in {"select", "scr", "call"}
      BY <1>2, DataStepsAre
    <2>3. QED
      BY <1>1, <2>1, <2>2, IssueTakes DEF DataLines
  <1>7. NothingWritten'
    BY <1>1, <1>2, IssueTakes, DataStepsAre DEF NothingWritten
  <1>8. Quiet'
    BY IssueTakes DEF Quiet
  <1>9. QED
    BY <1>3, <1>4, <1>5, <1>6, <1>7, <1>8

\* A failed command leaves a controller whose answers the next one can tell.
LEMMA LinesFailed ==
  ASSUME Typed, Lines, CallInv, NEW err, FailedWith(err),
         pc \in {"command", "transfer"}, "cmd" \notin flags', flags' \subseteq flags,
         pc = "transfer" => "xfer" \notin flags', UNCHANGED card
  PROVE  Lines'
  <1> USE DEF Lines, Typed, DriverTyped, HostTyped, HostFields
  <1>1. CASE step = "call"
    <2>1. /\ step' = "call" /\ pc' \in {"issue", "panic"} /\ UNCHANGED host
          /\ dev'.sdhc = dev.sdhc
      BY <1>1 DEF FailedWith, FailCall, GoTo
    <2>2. QED
      BY <1>1, <2>1 DEF OneAhead, BusyBitFresh, InStep, InStepSteps, DataLines, NothingWritten, Quiet
  <1>2. CASE step \in {"ifcond", "iocond"} /\ pc' = "issue"
    <2>1. step' \in {"iocond", "ocr_app"} /\ host'.data = host.data /\ (host' = host \/ host'.cmd = None)
      BY <1>2 DEF FailedWith, DropsCommand, FailReset, GoTo
    <2>2. QED
      BY <1>2, <2>1 DEF OneAhead, BusyBitFresh, InStep, InStepSteps, DataLines, NothingWritten, Quiet
  <1>3. CASE step # "call" /\ FailReset /\ UNCHANGED host
    <2>1. step' = "goidle" /\ pc' \in {"reset", "failed"}
      BY <1>3 DEF FailReset, GoTo
    <2>2. QED
      BY <1>3, <2>1 DEF OneAhead, BusyBitFresh, InStep, InStepSteps, DataLines, NothingWritten, Quiet
  <1>4. QED
    BY <1>1, <1>2, <1>3 DEF FailedWith

LEMMA LinesCommandEnds == ASSUME Typed, Lines, CallInv, CommandEnds PROVE Lines'
  <1> USE DEF Lines, Typed
  <1>1. /\ step \in StepNames /\ pc = "command" /\ "cmd" \notin flags' /\ flags' \subseteq flags /\ UNCHANGED card
        /\ "xfer" \in flags' <=> "xfer" \in flags
    BY ErrorNames DEF DriverTyped, CommandEnds
  <1>2. CASE Failed(LastError(flags))
    BY <1>1, <1>2, FailedLeads, LinesFailed
  <1>3. CASE Succeed /\ ~UsesDataLines(Command) /\ "cmd" \in flags
    <2>1. Succeeded /\ UNCHANGED host /\ step \notin {"select", "scr", "call"}
      BY <1>1, <1>3, SucceedLeads, DataStepsAre
    <2>2. OneAhead'
      BY <1>1, <2>1 DEF OneAhead, Succeeded
    <2>3. BusyBitFresh'
      BY <1>1, <1>3, <2>1 DEF BusyBitFresh, OneAhead, Succeeded
    <2>4. InStep'
      <3>1. step' \in InStepSteps => host.cmd = None
        BY <1>1, <1>3, <2>1 DEF InStep, InStepSteps, BusyBitFresh, Succeeded
      <3>2. step' \in InStepSteps => dev'.sdhc = (card.kind = "hc")
        BY <1>1, <2>1 DEF InStep, InStepSteps, Succeeded, DriverTyped
      <3>3. step' # "call" /\ pc' = "issue"
        BY <2>1 DEF Succeeded
      <3>4. QED
        BY <1>1, <2>1, <3>1, <3>2, <3>3 DEF InStep, InStepSteps
    <2>5. DataLines'
      BY <1>1, <2>1 DEF DataLines, Succeeded, DriverTyped
    <2>6. NothingWritten' /\ Quiet'
      BY <1>1, <2>1 DEF NothingWritten, Quiet, Succeeded
    <2>7. QED
      BY <2>2, <2>3, <2>4, <2>5, <2>6
  <1>4. CASE /\ UsesDataLines(Command) /\ "cmd" \in flags /\ flags \cap Errors = {}
             /\ pc' = IF IsData(Command) THEN "block" ELSE "transfer"
             /\ UNCHANGED <<step, dev, host>>
    <2>1. step \in {"select", "scr", "call"}
      BY <1>1, <1>4, DataStepsAre
    <2>2. host.cmd = None
      BY <1>1, <1>4, <2>1 DEF InStep, InStepSteps, CallInv, Calling, BeforeTransfer
    <2>3. OneAhead' /\ BusyBitFresh' /\ NothingWritten' /\ Quiet'
      BY <1>4, <2>1 DEF OneAhead, BusyBitFresh, NothingWritten, Quiet
    <2>4. InStep'
      BY <1>1, <1>4, <2>2 DEF InStep, InStepSteps
    <2>5. DataLines'
      BY <1>1, <1>4, <2>1 DEF DataLines
    <2>6. QED
      BY <2>3, <2>4, <2>5
  <1>5. QED
    <2>1. CASE flags \cap (Errors \cup {"cmd"}) # {"cmd"}
      BY <1>2, <2>1 DEF CommandEnds
    <2>2. CASE flags \cap (Errors \cup {"cmd"}) = {"cmd"} /\ UsesDataLines(Command)
      <3>1. "cmd" \in flags /\ flags \cap Errors = {}
        BY <2>2, ErrorNames
      <3>2. QED
        BY <1>4, <2>2, <3>1 DEF CommandEnds
    <2>3. CASE flags \cap (Errors \cup {"cmd"}) = {"cmd"} /\ ~UsesDataLines(Command)
      BY <1>3, <2>3 DEF CommandEnds
    <2>4. QED
      BY <2>1, <2>2, <2>3

LEMMA LinesCommandTimesOut == ASSUME Typed, Lines, CallInv, CommandTimesOut PROVE Lines'
  <1>1. /\ step \in StepNames /\ pc = "command" /\ "cmd" \notin flags' /\ flags' = flags /\ UNCHANGED card
    BY DEF Typed, DriverTyped, CommandTimesOut
  <1>2. FailedWith(dev.error)
    BY <1>1, FailedLeads DEF CommandTimesOut
  <1>3. QED
    BY <1>1, <1>2, LinesFailed

LEMMA LinesCommandLineStuck == ASSUME Typed, Lines, CallInv, CommandLineStuck PROVE Lines'
  <1> USE DEF Lines, Typed, DriverTyped
  <1>1. /\ "cmd" \notin flags' /\ flags' \subseteq flags /\ UNCHANGED <<card, host>> /\ pc = "command"
        /\ "xfer" \in flags' <=> "xfer" \in flags
        /\ \/ step = "ifcond" /\ step' = "iocond" /\ pc' = "issue"
           \/ step = "iocond" /\ step' = "goidle" /\ pc' \in {"reset", "failed"}
    BY ErrorNames DEF CommandLineStuck, Continue, FailReset, GoTo
  <1>2. QED
    BY <1>1 DEF OneAhead, BusyBitFresh, InStep, InStepSteps, DataLines, NothingWritten, Quiet

\* A turn of do_data_transfer's loop leaves the command line alone.
LEMMA TurnOnLines ==
  ASSUME Typed, TransferBlock
  PROVE  /\ pc = "block" /\ pc' \in {"block", "transfer"} /\ UNCHANGED <<step, card>>
         /\ dev'.sdhc = dev.sdhc
         /\ host'.cmd = host.cmd /\ host'.up = host.up
         /\ host.data = None <=> host'.data = None
         /\ host.data # None => host'.data.cmd = host.data.cmd
         /\ flags' \subseteq flags /\ ("xfer" \in flags' <=> "xfer" \in flags)
  <1> USE DEF Typed, HostTyped, HostFields, TransferFields
  <1>1. \A c : Ready(c) # "xfer"
    BY DEF Ready
  <1>2. /\ pc = "block" /\ pc' \in {"block", "transfer"} /\ UNCHANGED <<step, card>>
        /\ flags' \subseteq flags /\ ("xfer" \in flags' <=> "xfer" \in flags)
        /\ dev'.sdhc = dev.sdhc
    BY <1>1 DEF TransferBlock, DriverTyped
  <1>3. CASE host' = host
    BY <1>2, <1>3
  <1>4. CASE host.data # None /\ host' = [host EXCEPT !.data.fifo = "full", !.data.value = buffer[block]]
    <2>1. DOMAIN host'.data = TransferFields /\ host'.data.cmd = host.data.cmd
      BY <1>4
    <2>2. QED
      BY <1>2, <1>4, <2>1, StillSomething
  <1>5. CASE host.data # None /\ host' = [host EXCEPT !.data.fifo = "empty", !.data.at = @ + 1, !.data.left = @ - 1]
    <2>1. DOMAIN host'.data = TransferFields /\ host'.data.cmd = host.data.cmd
      BY <1>5
    <2>2. QED
      BY <1>2, <1>5, <2>1, StillSomething
  <1>6. QED
    BY <1>3, <1>4, <1>5 DEF TransferBlock

LEMMA LinesTransferBlock == ASSUME Typed, Lines, TransferBlock PROVE Lines'
  <1> USE DEF Lines, Typed, DriverTyped
  <1>1. step \in {"scr", "call"}
    BY DEF TransferBlock
  <1>2. QED
    BY <1>1, TurnOnLines DEF OneAhead, BusyBitFresh, InStep, InStepSteps, DataLines, NothingWritten, Quiet

LEMMA LinesTransferEnds == ASSUME Typed, Lines, CallInv, TransferEnds PROVE Lines'
  <1> USE DEF Lines, Typed
  <1>1. /\ step \in {"select", "scr", "call"} /\ pc = "transfer" /\ "cmd" \notin flags' /\ flags' \subseteq flags
        /\ "xfer" \notin flags' /\ UNCHANGED card /\ host.cmd = None
    BY DEF DriverTyped, TransferEnds, InStep
  <1>2. CASE Failed(LastError(flags))
    BY <1>1, <1>2, FailedLeads, LinesFailed DEF StepNames
  <1>3. CASE Succeed /\ Complete(flags)
    <2>1. Succeeded /\ UNCHANGED host
      BY <1>1, <1>3, SucceedLeads DEF StepNames
    <2>2. "xfer" \in flags /\ host.data = None
      BY <1>3, ErrorNames DEF Complete, DataLines
    <2>3. CASE step = "select"
      <3>1. pc' = "issue" /\ step' \in {"blocklen", "scr_app"} /\ dev'.sdhc = dev.sdhc
        BY <2>1, <2>3 DEF Succeeded, DriverTyped
      <3>2. QED
        BY <1>1, <2>1, <2>2, <2>3, <3>1 DEF OneAhead, BusyBitFresh, InStep, InStepSteps, DataLines, NothingWritten, Quiet
    <2>4. CASE step \in {"scr", "call"}
      <3>1. pc' = "idle" /\ step' = "call" /\ dev' = dev
        BY <2>1, <2>4 DEF Succeeded
      <3>2. flags' = {}
        <4>1. CASE step = "scr"
          BY <1>3, <4>1 DEF TransferEnds
        <4>2. CASE step = "call"
          <5>1. flags \cap {"rready", "wready"} \subseteq {ReadyFlag} /\ ReadyFlag \notin flags
            BY <1>1, <2>2, <4>2 DEF CallInv, Calling, CommandOfCall, InTransfer
          <5>2. flags' = flags \ (Errors \cup {"xfer"})
            BY <4>2 DEF TransferEnds
          <5>3. QED
            BY <1>1, <5>1, <5>2, ErrorNames DEF FlagsTyped
        <4>3. QED
          BY <2>4, <4>1, <4>2
      <3>3. QED
        BY <1>1, <2>1, <2>2, <2>4, <3>1, <3>2 DEF OneAhead, BusyBitFresh, InStep, InStepSteps, DataLines, NothingWritten, Quiet
    <2>5. QED
      BY <1>1, <2>3, <2>4
  <1>4. QED
    BY <1>2, <1>3 DEF TransferEnds

LEMMA LinesCall == ASSUME Typed, Lines, Call PROVE Lines'
  <1> USE DEF Lines, Typed, DriverTyped
  <1>1. /\ pc = "idle" /\ step = "call" /\ step' = "call" /\ pc' \in {"issue", "panic"}
        /\ UNCHANGED <<host, flags, card>> /\ dev'.sdhc = dev.sdhc
    BY DEF Call
  <1>2. QED
    BY <1>1 DEF OneAhead, BusyBitFresh, InStep, InStepSteps, DataLines, NothingWritten, Quiet

LEMMA LinesStep == ASSUME Typed, Lines, CallInv, [Next]_vars PROVE Lines'
  <1>1. CASE UNCHANGED vars
    BY <1>1 DEF Lines, OneAhead, BusyBitFresh, InStep, DataLines, NothingWritten, Quiet, vars, driver
  <1>2. CASE Driver
    BY <1>2, LinesReset, LinesIssue, LinesCommandEnds, LinesCommandTimesOut, LinesTransferBlock,
       LinesTransferEnds DEF Driver
  <1>3. CASE Call
    BY <1>3, LinesCall
  <1>4. CASE Controller
    BY <1>4, LinesOnLines DEF Controller, OnLines
  <1>5. CASE Faulty
    BY <1>5, LinesOnLines, LinesReset, LinesCommandLineStuck DEF Faulty, OnLines
  <1>6. QED
    BY <1>1, <1>2, <1>3, <1>4, <1>5 DEF Next

-----------------------------------------------------------------------------
(* The call's invariant under the controller's and the card's actions. *)

InCall == CallShape /\ CommandOfCall /\ TransferOfCall /\ BeforeTransfer /\ StaleFlag /\ InTransfer

LEMMA ReadyFlagIs ==
  /\ ReadyFlag \in {"rready", "wready"} /\ ReadyFlag \notin Errors
  /\ Ready(DataCommand) = ReadyFlag
  BY ErrorNames DEF ReadyFlag, Ready

LEMMA CallStays == ASSUME UNCHANGED driver PROVE
  /\ Calling' <=> Calling
  /\ DataCommand' = DataCommand /\ ReadyFlag' = ReadyFlag /\ Address' = Address
  /\ UNCHANGED <<pc, step, call, buffer, block, dev>>
  /\ CallShape' <=> CallShape
  <1>1. UNCHANGED <<pc, step, call, buffer, block, dev>>
    BY DEF driver
  <1>2. DataCommand' = DataCommand
    BY <1>1 DEF DataCommand
  <1>3. QED
    BY <1>1, <1>2 DEF Calling, ReadyFlag, Ready, Address, CallShape

\* A command of this call, once obeyed, is a transfer of it from its start.
LEMMA TransferStarts ==
  ASSUME Typed, Lines, CallShape, step = "call", NEW c,
         c.cmd = DataCommand, c.addr = Address, c.n = call.n
  PROVE  /\ Transfer(c).at = call.sector /\ Transfer(c).left = call.n
         /\ Transfer(c).cmd = DataCommand /\ Transfer(c).n = call.n /\ Transfer(c).fifo = "empty"
         /\ Transfer(c).value = Junk /\ Transfer(c).pace = "normal" /\ Transfer(c) # None
  <1>1. IsData(c.cmd) /\ c.cmd # "none"
    BY DataCommandIs DEF DataCommands
  <1>2. dev.sdhc = (card.kind = "hc")
    BY DEF Lines, InStep
  <1>3. (IF card.kind = "hc" THEN c.addr ELSE c.addr \div 512) = call.sector
    <2>1. CASE card.kind = "hc"
      BY <1>2, <2>1 DEF Address
    <2>2. CASE card.kind # "hc"
      <3>1. c.addr = 512 * call.sector
        BY <1>2, <2>2 DEF Address
      <3>2. \A x \in Nat : (512 * x) \div 512 = x
        OBVIOUS
      <3>3. call.sector \in Nat
        BY DEF CallShape
      <3>4. QED
        BY <2>2, <3>1, <3>2, <3>3
    <2>3. QED
      BY <2>1, <2>2
  <1>4. QED
    BY <1>1, <1>3, TransferIsSomething DEF Transfer

LEMMA CallRespond ==
  ASSUME Typed, Lines, Calling, InCall, Respond
  PROVE  InCall'
  <1> USE DEF InCall
  <1>0. UNCHANGED driver
    BY DEF Respond
  <1>1. /\ host.cmd # None /\ host.cmd.cmd = DataCommand /\ host.cmd.addr = Address
        /\ host.cmd.n = call.n /\ host.data = None /\ pc \in {"issue", "command"} /\ step = "call"
    BY DEF Respond, CommandOfCall, Lines, InStep, Calling
  <1>2. DataCommand # "GoIdle" /\ DataCommand \in DataCommands /\ UsesDataLines(DataCommand)
    BY DataCommandIs DEF DataCommands
  <1>3. "xfer" \notin flags
    BY <1>1 DEF BeforeTransfer
  <1>4. CASE Answers(host.cmd)
    <2>1. /\ host' = [host EXCEPT !.cmd = None, !.up = host.cmd.cmd = "OcrCheck" /\ ComesUp(host.cmd),
                                  !.data = Transfer(host.cmd)]
          /\ flags' = flags \cup {"cmd"} /\ UNCHANGED disk
      BY <1>1, <1>2, <1>4 DEF Respond
    <2>2. host'.cmd = None /\ host'.data = Transfer(host.cmd)
      BY <2>1 DEF Typed, HostTyped, HostFields
    <2>3. card.state = "tran"
      BY <1>1, <1>2, <1>4 DEF Answers, DataCommands
    <2> HIDE DEF InCall
    <2>4. CallShape /\ CommandOfCall /\ BeforeTransfer /\ StaleFlag
      BY DEF InCall
    <2>5. CallShape' /\ CommandOfCall'
      BY <1>0, <2>1, <2>2, <2>4, CallStays, ReadyFlagIs DEF CommandOfCall
    <2>6. TransferOfCall'
      BY <1>0, <1>1, <2>1, <2>2, <2>4, CallStays, TransferStarts DEF TransferOfCall, CallShape
    <2>7. BeforeTransfer'
      BY <1>0, <1>1, <1>3, <2>1, <2>2, <2>4, CallStays, TransferStarts DEF BeforeTransfer, CallShape
    <2>8. call.n > 1 => ReadyFlag \notin flags
      BY <1>1, <2>3, <2>4 DEF StaleFlag
    <2>9. StaleFlag'
      BY <1>0, <2>1, <2>8, CallStays, ReadyFlagIs DEF StaleFlag
    <2>10. InTransfer'
      BY <1>0, <1>1, CallStays DEF InTransfer
    <2>11. QED
      BY <2>5, <2>6, <2>7, <2>9, <2>10 DEF InCall
  <1>5. CASE ~Answers(host.cmd)
    <2>1. /\ host' = [host EXCEPT !.cmd = None] /\ card' = [card EXCEPT !.app = FALSE]
          /\ flags' = flags \cup {"cto"} /\ UNCHANGED disk
      BY <1>1, <1>2, <1>5 DEF Respond
    <2>2. host'.cmd = None /\ host'.data = None /\ card'.state = card.state
      BY <1>1, <2>1 DEF Typed, HostTyped, HostFields, CardTyped
    <2>3. CallShape' /\ CommandOfCall'
      BY <1>0, <2>1, <2>2, CallStays, ReadyFlagIs DEF CommandOfCall
    <2>4. TransferOfCall'
      BY <2>2 DEF TransferOfCall
    <2>5. BeforeTransfer'
      BY <1>3, <2>1, <2>2, ErrorNames DEF BeforeTransfer
    <2>6. StaleFlag'
      BY <1>0, <1>1, <2>1, <2>2, CallStays, ReadyFlagIs, ErrorNames DEF StaleFlag
    <2>7. InTransfer'
      BY <1>0, <1>1, CallStays DEF InTransfer
    <2>8. QED
      BY <2>3, <2>4, <2>5, <2>6, <2>7
  <1>6. QED
    BY <1>4, <1>5

LEMMA CallCommandFaults ==
  ASSUME Typed, Lines, Calling, InCall, Lose \/ Garble
  PROVE  InCall'
  <1>0. UNCHANGED driver /\ UNCHANGED disk
    BY DEF Lose, Garble
  <1>1. /\ host.cmd # None /\ host.cmd.cmd = DataCommand
        /\ host.data = None /\ pc \in {"issue", "command"} /\ step = "call"
    BY DEF Lose, Garble, InCall, CommandOfCall, Lines, InStep, Calling
  <1>2. DataCommand # "GoIdle" /\ DataCommand \in DataCommands
    BY DataCommandIs DEF DataCommands
  <1>3. "xfer" \notin flags
    BY <1>1 DEF InCall, BeforeTransfer
  <1>4. PICK e \in {"cto", "crc"} : flags' = flags \cup {e}
    BY <1>1, <1>2 DEF Lose, Garble
  <1>5. host'.cmd = None /\ host'.data = None
    BY <1>1 DEF Lose, Garble, Typed, HostTyped, HostFields
  <1>6. card' = card \/ card.state = "tran"
    BY <1>1, <1>2 DEF Lose, Garble, Answers, DataCommands
  <1>7. CallShape' /\ CommandOfCall'
    BY <1>0, <1>4, <1>5, CallStays, ReadyFlagIs DEF InCall, CommandOfCall
  <1>8. TransferOfCall'
    BY <1>5 DEF TransferOfCall
  <1>9. BeforeTransfer'
    BY <1>3, <1>4, <1>5, ErrorNames DEF BeforeTransfer
  <1>10. StaleFlag'
    BY <1>0, <1>1, <1>4, <1>5, <1>6, CallStays, ReadyFlagIs, ErrorNames DEF InCall, StaleFlag
  <1>11. InTransfer'
    BY <1>0, <1>1, CallStays DEF InTransfer
  <1>12. QED
    BY <1>7, <1>8, <1>9, <1>10, <1>11 DEF InCall

LEMMA CallStall ==
  ASSUME Typed, Calling, InCall, Stall
  PROVE  InCall'
  <1>1. UNCHANGED driver /\ UNCHANGED <<flags, card, disk>>
    BY DEF Stall
  <1>2. host'.cmd = host.cmd /\ host'.data = host.data
    BY DEF Stall, Typed, HostTyped, HostFields
  <1>3. CallShape' /\ CommandOfCall'
    BY <1>1, <1>2, CallStays DEF InCall, CommandOfCall
  <1>4. TransferOfCall'
    BY <1>1, <1>2, CallStays DEF InCall, TransferOfCall, Same
  <1>5. BeforeTransfer' /\ StaleFlag'
    BY <1>1, <1>2, CallStays DEF InCall, BeforeTransfer, StaleFlag
  <1>6. InTransfer'
    BY <1>1, <1>2, CallStays DEF InCall, InTransfer, Unserved, Same
  <1>7. QED
    BY <1>3, <1>4, <1>5, <1>6 DEF InCall

\* The fields of a transfer after a step of it.
LEMMA OfferedBlock ==
  ASSUME Typed, OfferBlock
  PROVE  /\ host.data # None /\ host'.data # None /\ host'.cmd = host.cmd
         /\ host.data.pace # "stuck" /\ host.data.left > 0 /\ host.data.fifo = "empty"
         /\ host'.data.fifo = "ready" /\ host'.data.left = host.data.left
         /\ host'.data.at = host.data.at /\ host'.data.n = host.data.n
         /\ host'.data.cmd = host.data.cmd /\ host'.data.pace = host.data.pace
         /\ host'.data.value = IF host.data.cmd \in {"ReadBlock", "ReadMultiple"} THEN disk[host.data.at] ELSE Junk
         /\ flags' = flags \cup {Ready(host.data.cmd)}
         /\ UNCHANGED driver /\ UNCHANGED <<card, disk>>
  <1> USE DEF Typed, HostTyped, HostFields, TransferFields, OfferBlock, Moving
  <1>1. DOMAIN host'.data = TransferFields
    OBVIOUS
  <1>2. host'.data # None
    BY <1>1, StillSomething
  <1>3. QED
    BY <1>2

LEMMA CallOfferBlock ==
  ASSUME Typed, Lines, Calling, InCall, OfferBlock
  PROVE  InCall'
  <1> DEFINE d == host.data
             e == host'.data
  <1>1. /\ d # None /\ e # None /\ host'.cmd = host.cmd /\ d.pace # "stuck" /\ d.left > 0 /\ d.fifo = "empty"
        /\ e.fifo = "ready" /\ e.left = d.left /\ e.at = d.at /\ e.n = d.n /\ e.cmd = d.cmd /\ e.pace = d.pace
        /\ e.value = IF d.cmd \in {"ReadBlock", "ReadMultiple"} THEN disk[d.at] ELSE Junk
        /\ flags' = flags \cup {Ready(d.cmd)}
        /\ UNCHANGED driver /\ UNCHANGED <<card, disk>>
    BY OfferedBlock
  <1>2. d.cmd = DataCommand /\ flags' = flags \cup {ReadyFlag}
    BY <1>1, ReadyFlagIs DEF InCall, TransferOfCall
  <1>3. host.cmd = None
    BY <1>1 DEF InCall, CommandOfCall
  <1>4. CallShape' /\ CommandOfCall'
    BY <1>1, <1>2, <1>3, CallStays, ReadyFlagIs DEF InCall, CommandOfCall
  <1>5. TransferOfCall'
    <2>1. d.left \in 1 .. call.n /\ d.at \in Sectors /\ disk[d.at] \in Values
      <3>1. call.n \in Nat /\ call.sector \in Nat /\ call.sector + call.n <= NSectors
        BY DEF InCall, CallShape
      <3>2. d.left \in 0 .. call.n /\ d.at = call.sector + call.n - d.left
        BY <1>1 DEF InCall, TransferOfCall
      <3>3. d.left \in 1 .. call.n
        BY <1>1, <3>1, <3>2
      <3>4. d.at \in Sectors
        BY <3>1, <3>2, <3>3, EmmcAssumption DEF Sectors
      <3>5. QED
        BY <3>3, <3>4 DEF Typed, DiskTyped
    <2>2. DataCommand \in {"ReadBlock", "ReadMultiple"} <=> call.op # "write"
      BY DataCommandIs
    <2>3. e.value \in Values \cup {Junk}
      BY <1>1, <2>1
    <2>4. call.op = "read" => e.value = disk[e.at]
      BY <1>1, <1>2, <2>2
    <2>5. \A i : Same(i)' <=> Same(i)
      BY <1>1, CallStays DEF Same
    <2>6. QED
      BY <1>1, <2>1, <2>3, <2>4, <2>5, CallStays DEF InCall, TransferOfCall
  <1>6. BeforeTransfer'
    BY <1>1, <1>2, <1>3, CallStays, ReadyFlagIs DEF InCall, BeforeTransfer
  <1>7. StaleFlag'
    BY <1>1 DEF StaleFlag
  <1>8. InTransfer'
    <2>1. Unserved' = Unserved
      BY <1>1 DEF Unserved
    <2>2. \A i : Same(i)' <=> Same(i)
      BY <1>1, CallStays DEF Same
    <2>3. "xfer" \notin flags'
      BY <1>1, <1>2, ReadyFlagIs DEF Lines, DataLines
    <2>4. flags' \cap Errors = flags \cap Errors
      BY <1>2, ReadyFlagIs
    <2>5. QED
      BY <1>1, <2>1, <2>2, <2>3, <2>4, CallStays DEF InCall, InTransfer
  <1>9. QED
    BY <1>4, <1>5, <1>6, <1>7, <1>8 DEF InCall

LEMMA SentBlock ==
  ASSUME Typed, SendBlock
  PROVE  /\ host.data # None /\ host'.data # None /\ host'.cmd = host.cmd
         /\ host.data.pace # "stuck" /\ host.data.fifo = "full" /\ IsWrite(host.data.cmd)
         /\ host'.data.fifo = "empty" /\ host'.data.left = host.data.left - 1
         /\ host'.data.at = host.data.at + 1 /\ host'.data.n = host.data.n
         /\ host'.data.cmd = host.data.cmd /\ host'.data.pace = host.data.pace
         /\ host'.data.value = host.data.value
         /\ disk' = [disk EXCEPT ![host.data.at] = host.data.value]
         /\ UNCHANGED driver /\ UNCHANGED <<card, flags>>
  <1> USE DEF Typed, HostTyped, HostFields, TransferFields, SendBlock, Moving
  <1>1. DOMAIN host'.data = TransferFields
    OBVIOUS
  <1>2. host'.data # None
    BY <1>1, StillSomething
  <1>3. QED
    BY <1>2

\* A block goes to its place on the card only while the driver is in the
\* transfer of a write.
LEMMA SendBlockWrites ==
  ASSUME Typed, Calling, InCall, SendBlock
  PROVE  /\ pc \in {"block", "transfer"} /\ call.op = "write"
         /\ call.n - host.data.left + 1 \in 1 .. call.n
         /\ host.data.at = call.sector + (call.n - host.data.left + 1) - 1
         /\ host.data.at \in Sectors
         /\ disk' = [disk EXCEPT ![host.data.at] = buffer[call.n - host.data.left + 1]]
  <1>1. /\ host.data # None /\ host.data.pace # "stuck" /\ host.data.fifo = "full"
        /\ disk' = [disk EXCEPT ![host.data.at] = host.data.value]
    BY SentBlock
  <1>2. /\ host.data.cmd = DataCommand /\ IsWrite(host.data.cmd)
        /\ host.data.left \in 1 .. call.n
        /\ host.data.at = call.sector + call.n - host.data.left
        /\ host.data.value = buffer[call.n - host.data.left + 1]
        /\ host.data.pace = "normal"
    BY <1>1, SentBlock DEF InCall, TransferOfCall, CallShape
  <1>3. pc \in {"block", "transfer"}
    BY <1>1, <1>2 DEF InCall, BeforeTransfer, Calling
  <1>4. call.op = "write"
    BY <1>2, DataCommandIs
  <1>5. call.n \in Nat /\ call.sector \in Nat /\ call.sector + call.n <= NSectors
    BY DEF InCall, CallShape
  <1>6. call.n - host.data.left + 1 \in 1 .. call.n
    BY <1>2, <1>5
  <1>7. host.data.at = call.sector + (call.n - host.data.left + 1) - 1
    BY <1>2, <1>5
  <1>8. host.data.at \in Sectors
    BY <1>2, <1>5, EmmcAssumption DEF Sectors
  <1>9. QED
    BY <1>1, <1>2, <1>3, <1>4, <1>6, <1>7, <1>8

LEMMA CallSendBlock ==
  ASSUME Typed, Lines, Calling, InCall, SendBlock
  PROVE  InCall'
  <1> DEFINE d == host.data
             e == host'.data
             k == call.n - d.left + 1
  <1>1. /\ d # None /\ e # None /\ host'.cmd = host.cmd /\ d.fifo = "full"
        /\ e.fifo = "empty" /\ e.left = d.left - 1 /\ e.at = d.at + 1 /\ e.n = d.n /\ e.cmd = d.cmd
        /\ e.pace = d.pace /\ e.value = d.value
        /\ UNCHANGED driver /\ UNCHANGED <<card, flags>>
    BY SentBlock
  <1>2. /\ pc \in {"block", "transfer"} /\ call.op = "write" /\ k \in 1 .. call.n
        /\ d.at = call.sector + k - 1 /\ d.at \in Sectors
        /\ disk' = [disk EXCEPT ![d.at] = buffer[k]]
    BY SendBlockWrites
  <1>3. d.left \in 1 .. call.n /\ call.n \in Nat /\ call.sector \in Nat
    BY <1>1 DEF InCall, TransferOfCall, CallShape
  <1>4. CallShape' /\ CommandOfCall'
    BY <1>1, CallStays DEF InCall, CommandOfCall
  <1>5. \A i \in 1 .. k : Same(i)'
    <2>1. SUFFICES ASSUME NEW i \in 1 .. k PROVE Same(i)'
      OBVIOUS
    <2>2. Same(i)' <=> buffer[i] = disk'[call.sector + i - 1]
      BY <1>1, CallStays DEF Same
    <2>3. disk \in [Sectors -> Values]
      BY DEF Typed, DiskTyped
    <2>4. CASE i = k
      BY <1>2, <2>2, <2>3, <2>4
    <2>5. CASE i # k
      <3>1. Same(i)
        BY <1>1, <1>2, <1>3, <2>5 DEF InCall, TransferOfCall
      <3>2. call.sector + i - 1 # d.at
        BY <1>2, <1>3, <2>5
      <3>3. QED
        BY <1>2, <2>2, <2>3, <3>1, <3>2 DEF Same
    <2>6. QED
      BY <2>4, <2>5
  <1>6. TransferOfCall'
    BY <1>1, <1>2, <1>3, <1>5, CallStays DEF InCall, TransferOfCall
  <1>7. BeforeTransfer'
    BY <1>1, <1>2, CallStays DEF BeforeTransfer
  <1>8. StaleFlag'
    BY <1>1, CallStays DEF InCall, StaleFlag
  <1>9. InTransfer'
    <2>1. Unserved' = Unserved
      BY <1>1, <1>3 DEF Unserved
    <2>2. "xfer" \notin flags
      BY <1>1 DEF Lines, DataLines
    <2>3. block > 1
      BY <1>1, <1>2, <1>3 DEF InCall, InTransfer, Unserved
    <2>4. QED
      BY <1>1, <1>2, <2>1, <2>2, <2>3, CallStays DEF InCall, InTransfer
  <1>10. QED
    BY <1>4, <1>6, <1>7, <1>8, <1>9 DEF InCall

LEMMA CallFinish ==
  ASSUME Typed, Lines, Calling, InCall, Finish
  PROVE  InCall'
  <1>1. /\ host.data # None /\ host.data.pace # "stuck" /\ host.data.left = 0 /\ host.data.fifo = "empty"
        /\ host'.data = None /\ host'.cmd = host.cmd /\ flags' = flags \cup {"xfer"}
        /\ UNCHANGED driver /\ UNCHANGED disk
    BY DEF Finish, Moving, Typed, HostTyped, HostFields
  <1>2. host.data.pace = "normal" /\ host.cmd = None
    BY <1>1 DEF InCall, TransferOfCall, CommandOfCall
  <1>3. pc \in {"block", "transfer"}
    BY <1>1, <1>2 DEF InCall, BeforeTransfer, Calling
  <1>4. call.n \in Nat \ {0} /\ call.op \in {"read", "write"}
    BY DEF InCall, CallShape
  <1>5. Unserved = 0
    BY <1>1 DEF Unserved
  <1>6. block = call.n + 1 /\ pc = "transfer"
    BY <1>1, <1>3, <1>4, <1>5 DEF InCall, InTransfer
  <1>7. ReadyFlag \notin flags /\ flags \cap Errors = {}
    BY <1>1, <1>2, <1>3, <1>4, <1>6 DEF InCall, InTransfer
  <1>8. \A i \in 1 .. call.n : Same(i)
    <2>1. CASE call.op = "read"
      BY <1>1, <1>3, <1>4, <1>5, <1>6, <2>1 DEF InCall, InTransfer
    <2>2. CASE call.op = "write"
      BY <1>1, <1>4, <2>2 DEF InCall, TransferOfCall
    <2>3. QED
      BY <1>4, <2>1, <2>2
  <1>9. CallShape' /\ CommandOfCall'
    BY <1>1, <1>2, CallStays, ReadyFlagIs DEF InCall, CommandOfCall
  <1>10. TransferOfCall'
    BY <1>1 DEF TransferOfCall
  <1>11. BeforeTransfer'
    BY <1>1, <1>6, CallStays DEF BeforeTransfer
  <1>12. StaleFlag'
    BY <1>1, <1>7, CallStays, ReadyFlagIs DEF StaleFlag
  <1>13. InTransfer'
    BY <1>1, <1>4, <1>6, <1>7, <1>8, CallStays, ReadyFlagIs, ErrorNames DEF InTransfer, Same
  <1>14. QED
    BY <1>9, <1>10, <1>11, <1>12, <1>13 DEF InCall

LEMMA CallSlowData ==
  ASSUME "late data" \notin Faults, Typed, Lines, Calling, InCall, SlowData
  PROVE  InCall'
  <1> DEFINE d == host.data
             e == host'.data
  <1>1. host' = [host EXCEPT !.data.pace = "stuck"] /\ d # None
    BY DEF SlowData, Fault, Moving
  <1>2. DOMAIN e = TransferFields
    BY <1>1 DEF Typed, HostTyped, HostFields, TransferFields
  <1>3. /\ e # None /\ host'.cmd = host.cmd /\ e.pace = "stuck"
        /\ e.fifo = d.fifo /\ e.left = d.left /\ e.at = d.at /\ e.n = d.n /\ e.cmd = d.cmd /\ e.value = d.value
    BY <1>1, <1>2, StillSomething DEF Typed, HostTyped, HostFields, TransferFields
  <1>4. UNCHANGED driver /\ UNCHANGED <<card, disk>>
    BY DEF SlowData
  <1>5. PICK reported \in SUBSET {"dto"} : flags' = flags \cup reported
    BY DEF SlowData
  <1>6. CallShape' /\ CommandOfCall'
    BY <1>1, <1>3, <1>4, <1>5, CallStays, ReadyFlagIs DEF InCall, CommandOfCall
  <1>7. \A i : Same(i)' <=> Same(i)
    BY <1>4, CallStays DEF Same
  <1>8. TransferOfCall'
    BY <1>1, <1>3, <1>4, <1>7, CallStays DEF InCall, TransferOfCall
  <1>9. BeforeTransfer'
    BY <1>1, <1>3, <1>4, <1>5, CallStays, ErrorNames DEF InCall, BeforeTransfer
  <1>10. StaleFlag'
    BY <1>1, <1>3, <1>4, <1>5, CallStays, ReadyFlagIs, ErrorNames DEF InCall, StaleFlag
  <1>11. InTransfer'
    <2>1. Unserved' = Unserved
      BY <1>3 DEF Unserved
    <2>2. "xfer" \notin flags'
      BY <1>1, <1>5 DEF Lines, DataLines
    <2>3. ReadyFlag \in flags' <=> ReadyFlag \in flags
      BY <1>5, ReadyFlagIs, ErrorNames
    <2>4. QED
      BY <1>1, <1>3, <1>4, <1>7, <2>1, <2>2, <2>3, CallStays DEF InCall, InTransfer
  <1>12. QED
    BY <1>6, <1>8, <1>9, <1>10, <1>11 DEF InCall

LEMMA CallCorruptData ==
  ASSUME Typed, Lines, Calling, InCall, CorruptData
  PROVE  InCall'
  <1> DEFINE d == host.data
             e == host'.data
  <1>1. d # None /\ flags' = flags \cup {"dcrc"} /\ UNCHANGED driver /\ UNCHANGED disk
    BY DEF CorruptData, Moving
  <1>2. "xfer" \notin flags' /\ "dcrc" \in Errors /\ host.cmd = None
    BY <1>1, ErrorNames DEF Lines, DataLines, InCall, CommandOfCall
  <1>3. \A i : Same(i)' <=> Same(i)
    BY <1>1, CallStays DEF Same
  <1>4. ReadyFlag \in flags' <=> ReadyFlag \in flags
    BY <1>1, ReadyFlagIs, ErrorNames
  <1>5. CASE host' = [host EXCEPT !.data = None] /\ card' = GivenUp(card, d.n)
    <2>1. e = None /\ host'.cmd = None
      BY <1>2, <1>5 DEF Typed, HostTyped, HostFields
    <2>2. CallShape' /\ CommandOfCall'
      BY <1>1, <2>1, CallStays, ReadyFlagIs DEF InCall, CommandOfCall
    <2>3. TransferOfCall'
      BY <2>1 DEF TransferOfCall
    <2>4. BeforeTransfer'
      BY <1>1, <1>2, <2>1 DEF BeforeTransfer
    <2>5. StaleFlag'
      <3>1. call.n > 1 => d.n # 1
        BY <1>1 DEF InCall, TransferOfCall
      <3>2. call.n > 1 => card'.state = "data"
        BY <1>5, <3>1 DEF GivenUp, Typed, CardTyped
      <3>3. QED
        BY <1>1, <2>1, <3>2, CallStays DEF StaleFlag
    <2>6. InTransfer'
      BY <1>1, <1>2, <2>1, CallStays DEF InCall, InTransfer
    <2>7. QED
      BY <2>2, <2>3, <2>4, <2>5, <2>6 DEF InCall
  <1>6. CASE host' = [host EXCEPT !.data.pace = "stuck"] /\ UNCHANGED card
    <2>1. DOMAIN e = TransferFields
      BY <1>1, <1>6 DEF Typed, HostTyped, HostFields, TransferFields
    <2>2. /\ e # None /\ host'.cmd = host.cmd /\ e.pace = "stuck"
          /\ e.fifo = d.fifo /\ e.left = d.left /\ e.at = d.at /\ e.n = d.n /\ e.cmd = d.cmd /\ e.value = d.value
      BY <1>1, <1>6, <2>1, StillSomething DEF Typed, HostTyped, HostFields, TransferFields
    <2>3. CallShape' /\ CommandOfCall'
      BY <1>1, <1>2, <2>2, CallStays, ReadyFlagIs DEF InCall, CommandOfCall
    <2>4. TransferOfCall'
      BY <1>1, <1>3, <2>2, CallStays DEF InCall, TransferOfCall
    <2>5. BeforeTransfer'
      BY <1>1, <1>2, <2>2 DEF BeforeTransfer
    <2>6. StaleFlag'
      BY <1>1, <1>4, <1>6, <2>2, CallStays DEF InCall, StaleFlag
    <2>7. InTransfer'
      <3>1. Unserved' = Unserved
        BY <2>2 DEF Unserved
      <3>2. QED
        BY <1>1, <1>2, <1>3, <1>4, <2>2, <3>1, CallStays DEF InCall, InTransfer
    <2>8. QED
      BY <2>3, <2>4, <2>5, <2>6, <2>7 DEF InCall
  <1>7. QED
    BY <1>5, <1>6 DEF CorruptData

-----------------------------------------------------------------------------
(* The call's invariant under the driver's actions. *)

\* What a call's operators depend on.
LEMMA CallKept ==
  ASSUME UNCHANGED <<call, buffer, disk>>, dev'.blocks = dev.blocks, dev'.sdhc = dev.sdhc
  PROVE  /\ DataCommand' = DataCommand /\ ReadyFlag' = ReadyFlag /\ Address' = Address
         /\ \A i : Same(i)' <=> Same(i)
         /\ CallShape => CallShape'
  <1>1. DataCommand' = DataCommand
    BY DEF DataCommand
  <1>2. QED
    BY <1>1 DEF ReadyFlag, Ready, Address, Same, CallShape

LEMMA CallIssue ==
  ASSUME Typed, Lines, Calling, InCall, Issue
  PROVE  InCall' /\ PanicInv'
  <1>1. /\ pc = "issue" /\ pc' = "command" /\ step = "call" /\ step' = "call"
        /\ UNCHANGED <<dev, call, tries, buffer, block, flags, card, disk>>
        /\ host'.data = host.data
    BY IssueTakes DEF Calling
  <1>2. Command = DataCommand /\ UsesDataLines(Command)
    BY <1>1, CommandsAre, DataCommandIs
  <1>3. \/ host' = host
        \/ host.cmd = None /\ host.data = None /\ host'.cmd = Argument
    BY <1>2, IssueTakes
  <1>4. Argument.cmd = DataCommand /\ Argument.addr = Address /\ Argument.n = dev.blocks
    BY <1>1, <1>2 DEF Argument
  <1>5. CallShape' /\ CommandOfCall'
    BY <1>1, <1>3, <1>4, CallKept DEF InCall, CommandOfCall, CallShape
  <1>6. TransferOfCall'
    BY <1>1, CallKept DEF InCall, TransferOfCall
  <1>7. BeforeTransfer'
    BY <1>1, <1>3 DEF InCall, BeforeTransfer
  <1>8. StaleFlag'
    BY <1>1, CallKept DEF InCall, StaleFlag
  <1>9. InTransfer' /\ PanicInv'
    BY <1>1 DEF InTransfer, PanicInv
  <1>10. QED
    BY <1>5, <1>6, <1>7, <1>8, <1>9 DEF InCall

\* A try that fails leaves nothing that a later one could take for its own.
LEMMA CallFails ==
  ASSUME Typed, Calling, InCall, pc \in {"command", "transfer"}, NEW err, FailedWith(err),
         flags' \subseteq flags, "cmd" \notin flags', "xfer" \notin flags', UNCHANGED <<card, disk>>,
         host.data # None /\ host.data.pace = "normal" => host.data.fifo # "full" /\ host.data.left > 0
  PROVE  (Calling' => InCall') /\ PanicInv'
  <1>1. /\ step' = "call" /\ pc' \in {"issue", "panic"} /\ UNCHANGED <<call, buffer, block, host>>
        /\ dev'.blocks = dev.blocks /\ dev'.sdhc = dev.sdhc
    BY DEF FailedWith, FailCall, GoTo, Calling, Typed, DriverTyped
  <1>2. host.data # None => host.data.pace \in {"normal", "stuck"}
    BY DEF InCall, TransferOfCall
  <1>3. PanicInv'
    BY <1>1, <1>2 DEF PanicInv
  <1>4. ASSUME Calling' PROVE InCall'
    <2>1. pc' = "issue"
      BY <1>1, <1>4 DEF Calling
    <2>2. CallShape' /\ CommandOfCall'
      BY <1>1, CallKept DEF InCall, CommandOfCall
    <2>3. TransferOfCall'
      BY <1>1, CallKept DEF InCall, TransferOfCall
    <2>4. BeforeTransfer'
      BY <1>1 DEF BeforeTransfer
    <2>5. StaleFlag'
      BY <1>1, CallKept DEF InCall, StaleFlag
    <2>6. InTransfer'
      BY <2>1 DEF InTransfer
    <2>7. QED
      BY <2>2, <2>3, <2>4, <2>5, <2>6 DEF InCall
  <1>5. QED
    BY <1>3, <1>4

LEMMA CallCommandEnds ==
  ASSUME Typed, Lines, Calling, InCall, CommandEnds
  PROVE  (Calling' => InCall') /\ PanicInv'
  <1>1. /\ pc = "command" /\ step = "call" /\ step \in StepNames /\ UNCHANGED <<card, disk>>
        /\ flags' \subseteq flags /\ "cmd" \notin flags' /\ flags' \cap Errors = {}
        /\ "xfer" \notin flags
    BY DEF CommandEnds, Calling, InCall, BeforeTransfer, StepNames
  <1>2. UsesDataLines(Command) /\ IsData(Command)
    BY <1>1, DataStepsAre
  <1>3. CASE Failed(LastError(flags))
    <2>1. FailedWith(LastError(flags))
      BY <1>1, <1>3, FailedLeads
    <2>2. host.data # None /\ host.data.pace = "normal" => host.data.fifo # "full" /\ host.data.left > 0
      BY <1>1 DEF InCall, BeforeTransfer
    <2>3. QED
      BY <1>1, <2>1, <2>2, CallFails
  <1>4. CASE /\ flags \cap (Errors \cup {"cmd"}) = {"cmd"}
             /\ pc' = "block" /\ block' = 1
             /\ UNCHANGED <<step, attempts, dev, call, tries, buffer, host>>
    <2>1. "cmd" \in flags /\ flags \cap Errors = {}
      BY <1>4, ErrorNames
    <2>2. host.cmd = None /\ host.data # None /\ host.data.left = call.n /\ host.data.fifo # "full"
      BY <1>1, <2>1 DEF InCall, BeforeTransfer
    <2>3. call.n \in Nat \ {0}
      BY DEF InCall, CallShape
    <2>4. CallShape' /\ CommandOfCall'
      BY <1>1, <1>4, <2>2, CallKept DEF InCall, CommandOfCall
    <2>5. TransferOfCall'
      BY <1>1, <1>4, CallKept DEF InCall, TransferOfCall
    <2>6. BeforeTransfer' /\ PanicInv'
      BY <1>4 DEF BeforeTransfer, PanicInv
    <2>7. StaleFlag'
      BY <1>1, <1>4, CallKept DEF InCall, StaleFlag
    <2>8. Unserved' = call.n
      BY <1>4, <2>2, <2>3 DEF Unserved
    <2>9. InTransfer'
      BY <1>1, <1>4, <2>3, <2>8 DEF InTransfer
    <2>10. QED
      BY <2>4, <2>5, <2>6, <2>7, <2>9 DEF InCall
  <1>5. QED
    BY <1>2, <1>3, <1>4 DEF CommandEnds

LEMMA CallCommandTimesOut ==
  ASSUME Typed, Calling, InCall, CommandTimesOut
  PROVE  (Calling' => InCall') /\ PanicInv'
  <1>1. /\ pc = "command" /\ step = "call" /\ step \in StepNames /\ UNCHANGED <<card, disk, flags>>
        /\ "cmd" \notin flags /\ "xfer" \notin flags
        /\ host.data # None /\ host.data.pace = "normal" => host.data.fifo # "full" /\ host.data.left > 0
    BY DEF CommandTimesOut, Calling, InCall, BeforeTransfer, StepNames
  <1>2. FailedWith(dev.error)
    BY <1>1, FailedLeads DEF CommandTimesOut
  <1>3. QED
    BY <1>1, <1>2, CallFails

LEMMA CallTransferEnds ==
  ASSUME Typed, Lines, Calling, InCall, TransferEnds
  PROVE  (Calling' => InCall') /\ PanicInv'
  <1>1. /\ pc = "transfer" /\ step = "call" /\ step \in StepNames /\ UNCHANGED <<card, disk>>
        /\ flags' \subseteq flags /\ "cmd" \notin flags' /\ "xfer" \notin flags'
    BY DEF TransferEnds, Calling, StepNames, Lines, InStep
  <1>2. CASE Succeed
    <2>1. pc' = "idle"
      BY <1>1, <1>2, SucceedLeads DEF Succeeded
    <2>2. QED
      BY <2>1 DEF Calling, PanicInv
  <1>3. CASE ~Complete(flags) /\ Failed(LastError(flags))
    <2>1. FailedWith(LastError(flags))
      BY <1>1, <1>3, FailedLeads
    <2>2. ASSUME host.data # None, host.data.pace = "normal"
          PROVE  host.data.fifo # "full" /\ host.data.left > 0
      <3>1. flags \cap Errors = {} /\ "xfer" \notin flags
        BY <1>1, <2>2 DEF InCall, InTransfer, Lines, DataLines
      <3>2. NoDataInTime
        BY <3>1 DEF TransferEnds
      <3>3. Unserved # 0
        BY <1>1, <2>2, <3>2 DEF NoDataInTime
      <3>4. /\ call.n \in Nat \ {0} /\ block = call.n + 1 /\ host.data.left \in 0 .. call.n
            /\ host.data.fifo # "empty" => host.data.left > 0
        BY <1>1, <2>2 DEF InCall, InTransfer, TransferOfCall, CallShape
      <3>5. CASE call.n > 1
        BY <1>1, <2>2, <3>3, <3>4, <3>5 DEF InCall, InTransfer, Unserved
      <3>6. CASE call.n = 1
        BY <2>2, <3>3, <3>4, <3>6 DEF Unserved
      <3>7. QED
        BY <3>4, <3>5, <3>6
    <2>3. QED
      BY <1>1, <2>1, <2>2, CallFails
  <1>4. QED
    BY <1>2, <1>3 DEF TransferEnds

\* A turn of do_data_transfer's loop that finds its flag: the block in the FIFO
\* is taken or given, and junk is read if there is none.
TurnHere == host.data # None /\ host.data.fifo = "ready"

LEMMA TurnInCall ==
  ASSUME Typed, Calling, InCall, TransferBlock
  PROVE  /\ pc = "block" /\ step = "call" /\ step' = "call" /\ UNCHANGED <<call, card, disk>>
         /\ dev'.blocks = dev.blocks /\ dev'.sdhc = dev.sdhc
         /\ block \in 1 .. call.n /\ call.n \in Nat \ {0}
         /\ flags' = flags \ {ReadyFlag}
         /\ \/ /\ ReadyFlag \in flags /\ flags \cap Errors = {}
               /\ block' = block + 1 /\ pc' = IF block = call.n THEN "transfer" ELSE "block"
               /\ buffer' = IF call.op = "write" THEN buffer
                            ELSE [buffer EXCEPT ![block] = IF TurnHere THEN host.data.value ELSE Junk]
               /\ host' = IF ~TurnHere THEN host
                          ELSE IF call.op = "write"
                          THEN [host EXCEPT !.data.fifo = "full", !.data.value = buffer[block]]
                          ELSE [host EXCEPT !.data.fifo = "empty", !.data.at = @ + 1, !.data.left = @ - 1]
            \/ /\ pc' = "transfer" /\ UNCHANGED <<buffer, block, host>>
               /\ flags \cap (Errors \cup {ReadyFlag}) # {ReadyFlag}
               /\ flags \cap (Errors \cup {ReadyFlag}) = {} => NoDataInTime
  <1>1. pc = "block" /\ step = "call" /\ step' = "call" /\ UNCHANGED <<call, card, disk>>
    BY DEF TransferBlock, Calling, Typed, DriverTyped
  <1>2. Ready(Command) = ReadyFlag /\ (IsWrite(Command) <=> call.op = "write")
    BY <1>1, CommandsAre, DataCommandIs DEF ReadyFlag
  <1>3. dev.blocks = call.n /\ call.n \in Nat \ {0} /\ block \in 1 .. call.n
    BY <1>1 DEF InCall, CallShape, InTransfer
  <1>4. dev'.blocks = dev.blocks /\ dev'.sdhc = dev.sdhc
    BY DEF TransferBlock, Typed, DriverTyped
  <1>5. flags \cap (Errors \cup {ReadyFlag}) = {ReadyFlag} <=> (ReadyFlag \in flags /\ flags \cap Errors = {})
    BY ReadyFlagIs
  <1>6. CASE flags \cap (Errors \cup {ReadyFlag}) = {ReadyFlag}
    BY <1>1, <1>2, <1>3, <1>4, <1>5, <1>6 DEF TransferBlock, TurnHere
  <1>7. CASE flags \cap (Errors \cup {ReadyFlag}) # {ReadyFlag}
    BY <1>1, <1>2, <1>3, <1>4, <1>7 DEF TransferBlock
  <1>8. QED
    BY <1>6, <1>7

\* The fields of a transfer whose block was given, or taken.
LEMMA BlockGiven ==
  ASSUME HostTyped, host.data # None, NEW v,
         host' = [host EXCEPT !.data.fifo = "full", !.data.value = v]
  PROVE  /\ host'.data # None /\ host'.data.fifo = "full" /\ host'.data.value = v
         /\ host'.data.left = host.data.left /\ host'.data.at = host.data.at
         /\ host'.data.n = host.data.n /\ host'.data.cmd = host.data.cmd /\ host'.data.pace = host.data.pace
  <1>1. DOMAIN host'.data = TransferFields
    BY DEF HostTyped, HostFields, TransferFields
  <1>2. host'.data # None
    BY <1>1, StillSomething
  <1>3. QED
    BY <1>2 DEF HostTyped, HostFields, TransferFields

LEMMA BlockTaken ==
  ASSUME HostTyped, host.data # None,
         host' = [host EXCEPT !.data.fifo = "empty", !.data.at = @ + 1, !.data.left = @ - 1]
  PROVE  /\ host'.data # None /\ host'.data.fifo = "empty" /\ host'.data.value = host.data.value
         /\ host'.data.left = host.data.left - 1 /\ host'.data.at = host.data.at + 1
         /\ host'.data.n = host.data.n /\ host'.data.cmd = host.data.cmd /\ host'.data.pace = host.data.pace
  <1>1. DOMAIN host'.data = TransferFields
    BY DEF HostTyped, HostFields, TransferFields
  <1>2. host'.data # None
    BY <1>1, StillSomething
  <1>3. QED
    BY <1>2 DEF HostTyped, HostFields, TransferFields

LEMMA CallTurnServed ==
  ASSUME Typed, Lines, Calling, InCall, TransferBlock,
         ReadyFlag \in flags, flags \cap Errors = {},
         block' = block + 1, pc' = IF block = call.n THEN "transfer" ELSE "block",
         buffer' = IF call.op = "write" THEN buffer
                   ELSE [buffer EXCEPT ![block] = IF TurnHere THEN host.data.value ELSE Junk],
         host' = IF ~TurnHere THEN host
                 ELSE IF call.op = "write"
                 THEN [host EXCEPT !.data.fifo = "full", !.data.value = buffer[block]]
                 ELSE [host EXCEPT !.data.fifo = "empty", !.data.at = @ + 1, !.data.left = @ - 1]
  PROVE  InCall'
  <1>1. /\ pc = "block" /\ UNCHANGED <<call, card, disk>>
        /\ dev'.blocks = dev.blocks /\ dev'.sdhc = dev.sdhc
        /\ block \in 1 .. call.n /\ call.n \in Nat \ {0}
        /\ flags' = flags \ {ReadyFlag} /\ "xfer" \notin flags' /\ flags' \cap Errors = {}
    BY TurnInCall DEF InCall, InTransfer
  <1>2. DataCommand' = DataCommand /\ ReadyFlag' = ReadyFlag /\ Address' = Address
    <2>1. DataCommand' = DataCommand
      BY <1>1 DEF DataCommand
    <2>2. QED
      BY <1>1, <2>1 DEF ReadyFlag, Ready, Address
  <1>3. call.op \in {"read", "write"} /\ buffer \in [1 .. call.n -> Values \cup {Junk}] /\ call.sector \in Nat
    BY DEF InCall, CallShape
  <1>4. host.cmd = None /\ host'.cmd = None
    BY <1>1, TurnOnLines DEF Lines, InStep
  <1>5. BeforeTransfer' /\ block' \in 1 .. call'.n + 1 /\ (pc' = "block" => block' <= call'.n)
        /\ pc' \in {"block", "transfer"} /\ (pc' = "transfer" => block' = call'.n + 1)
    BY <1>1 DEF BeforeTransfer
  <1>6. StaleFlag'
    BY <1>1, <1>2 DEF StaleFlag
  <1>7. CASE host.data = None
    <2>1. host' = host
      BY <1>7 DEF TurnHere
    <2>2. buffer' \in [1 .. call.n -> Values \cup {Junk}]
      BY <1>3, <1>7 DEF TurnHere
    <2>3. CallShape' /\ CommandOfCall'
      BY <1>1, <1>2, <1>4, <2>1, <2>2, <1>7 DEF InCall, CallShape, CommandOfCall
    <2>4. TransferOfCall' /\ InTransfer'
      BY <1>1, <1>5, <1>7, <2>1 DEF TransferOfCall, InTransfer
    <2>5. QED
      BY <1>5, <1>6, <2>3, <2>4 DEF InCall
  <1> DEFINE d == host.data
             e == host'.data
  <1>8. CASE host.data # None /\ ~TurnHere
    <2>1. host' = host /\ call.n = 1 /\ block = 1
      BY <1>1, <1>8 DEF TurnHere, InCall, StaleFlag
    <2>2. buffer' \in [1 .. call.n -> Values \cup {Junk}]
      BY <1>3, <1>8
    <2>3. CallShape' /\ CommandOfCall'
      BY <1>1, <1>2, <1>4, <2>1, <2>2 DEF InCall, CallShape, CommandOfCall
    <2>4. call.op = "write" => \A i : Same(i)' <=> Same(i)
      BY <1>1 DEF Same
    <2>5. d.fifo # "full" \/ call.op = "write"
      BY <1>1, <1>3, <1>8 DEF InCall, TransferOfCall
    <2>6. d.fifo # "full"
      <3>1. d.left \in 0 .. 1 /\ (d.fifo = "full" => d.left = 1)
        BY <1>8, <2>1 DEF InCall, TransferOfCall
      <3>2. call.n - Unserved <= 0
        BY <1>1, <1>8, <2>1 DEF InCall, InTransfer
      <3>3. QED
        BY <2>1, <3>1, <3>2 DEF Unserved
    <2>7. TransferOfCall'
      BY <1>1, <1>2, <1>3, <1>8, <2>1, <2>4, <2>6 DEF InCall, TransferOfCall
    <2>8. Unserved' = Unserved /\ Unserved \in Int /\ call.n - Unserved <= 0
      BY <1>1, <1>8, <2>1 DEF Unserved, InCall, InTransfer, TransferOfCall
    <2>9. InTransfer'
      BY <1>1, <1>2, <1>5, <2>1, <2>8 DEF InTransfer
    <2>10. QED
      BY <1>5, <1>6, <2>3, <2>7, <2>9 DEF InCall
  <1>9. CASE TurnHere
    <2>1. /\ d # None /\ d.fifo = "ready" /\ d.left \in 1 .. call.n /\ d.value \in Values \cup {Junk}
          /\ d.at = call.sector + call.n - d.left
          /\ d.cmd = DataCommand /\ d.n = call.n /\ d.pace \in {"normal", "stuck"}
          /\ call.op = "read" => d.value = disk[d.at]
          /\ call.op = "write" => \A i \in 1 .. call.n - d.left : Same(i)
      BY <1>9, <1>1 DEF TurnHere, InCall, TransferOfCall
    <2>2. Unserved = d.left
      BY <2>1 DEF Unserved
    <2>3. call.n - d.left = block - 1
      BY <1>1, <2>1, <2>2 DEF InCall, InTransfer
    <2>4. CASE call.op = "write"
      <3>1. host' = [host EXCEPT !.data.fifo = "full", !.data.value = buffer[block]] /\ buffer' = buffer
        BY <1>9, <2>4
      <3>2. HostTyped
        BY DEF Typed
      <3>3. /\ e # None /\ e.fifo = "full" /\ e.value = buffer[block]
            /\ e.left = d.left /\ e.at = d.at /\ e.n = d.n /\ e.cmd = d.cmd /\ e.pace = d.pace
        BY <2>1, <3>1, <3>2, BlockGiven
      <3>4. \A i : Same(i)' <=> Same(i)
        BY <1>1, <3>1 DEF Same
      <3>5. CallShape' /\ CommandOfCall'
        BY <1>1, <1>2, <1>4, <3>1 DEF InCall, CallShape, CommandOfCall
      <3>6. buffer[block] \in Values \cup {Junk} /\ block = call.n - d.left + 1
        BY <1>1, <1>3, <2>1, <2>3
      <3>7. TransferOfCall'
        BY <1>1, <1>2, <2>1, <2>4, <3>1, <3>3, <3>4, <3>6 DEF TransferOfCall
      <3>8. call'.n - Unserved' = block' - 1
        BY <1>1, <2>1, <2>3, <3>3 DEF Unserved
      <3>9. InTransfer'
        BY <1>1, <1>2, <1>5, <2>4, <3>3, <3>8 DEF InTransfer
      <3>10. QED
        BY <1>5, <1>6, <3>5, <3>7, <3>9 DEF InCall
    <2>5. CASE call.op = "read"
      <3>1. /\ host' = [host EXCEPT !.data.fifo = "empty", !.data.at = @ + 1, !.data.left = @ - 1]
            /\ buffer' = [buffer EXCEPT ![block] = d.value]
        BY <1>9, <2>5
      <3>2. HostTyped
        BY DEF Typed
      <3>3. /\ e # None /\ e.fifo = "empty" /\ e.left = d.left - 1 /\ e.at = d.at + 1
            /\ e.value = d.value /\ e.n = d.n /\ e.cmd = d.cmd /\ e.pace = d.pace
        BY <2>1, <3>1, <3>2, BlockTaken
      <3>4. buffer' \in [1 .. call.n -> Values \cup {Junk}]
        BY <1>1, <1>3, <2>1, <3>1
      <3>5. CallShape' /\ CommandOfCall'
        BY <1>1, <1>2, <1>4, <3>4 DEF InCall, CallShape, CommandOfCall
      <3>6. TransferOfCall'
        BY <1>1, <1>2, <1>3, <2>1, <2>5, <3>3 DEF TransferOfCall
      <3>7. call'.n - Unserved' = block' - 1
        BY <1>1, <2>1, <2>3, <3>3 DEF Unserved
      <3>8. \A i \in 1 .. block : Same(i)'
        <4>1. SUFFICES ASSUME NEW i \in 1 .. block PROVE Same(i)'
          OBVIOUS
        <4>2. Same(i)' <=> buffer'[i] = disk[call.sector + i - 1]
          BY <1>1 DEF Same
        <4>3. CASE i = block
          <5>1. d.at = call.sector + i - 1
            BY <1>1, <1>3, <2>1, <2>3, <4>3
          <5>2. QED
            BY <1>1, <1>3, <2>1, <2>5, <3>1, <4>2, <4>3, <5>1
        <4>4. CASE i # block
          <5>1. Same(i)
            BY <1>1, <2>1, <2>2, <2>3, <2>5, <4>4 DEF InCall, InTransfer
          <5>2. QED
            BY <1>1, <1>3, <3>1, <4>2, <4>4, <5>1 DEF Same
        <4>5. QED
          BY <4>3, <4>4
      <3>9. InTransfer'
        BY <1>1, <1>2, <1>5, <3>3, <3>7, <3>8 DEF InTransfer
      <3>10. QED
        BY <1>5, <1>6, <3>5, <3>6, <3>9 DEF InCall
    <2>6. QED
      BY <1>3, <2>4, <2>5
  <1>10. QED
    BY <1>7, <1>8, <1>9

LEMMA CallTurnFails ==
  ASSUME Typed, Lines, Calling, InCall, TransferBlock,
         pc' = "transfer", UNCHANGED <<buffer, block, host>>,
         flags \cap (Errors \cup {ReadyFlag}) # {ReadyFlag},
         flags \cap (Errors \cup {ReadyFlag}) = {} => NoDataInTime
  PROVE  InCall'
  <1>1. /\ pc = "block" /\ UNCHANGED <<call, card, disk>>
        /\ dev'.blocks = dev.blocks /\ dev'.sdhc = dev.sdhc
        /\ block \in 1 .. call.n /\ call.n \in Nat \ {0}
        /\ flags' = flags \ {ReadyFlag} /\ "xfer" \notin flags'
    BY TurnInCall DEF InCall, InTransfer
  <1>2. host.data # None => host.data.pace # "normal"
    <2>1. SUFFICES ASSUME host.data # None, host.data.pace = "normal" PROVE FALSE
      OBVIOUS
    <2>2. flags \cap Errors = {}
      BY <1>1, <2>1 DEF InCall, InTransfer
    <2>3. flags \cap (Errors \cup {ReadyFlag}) = {}
      BY <2>2
    <2>4. Unserved = 0
      BY <1>1, <2>1, <2>3 DEF NoDataInTime
    <2>5. QED
      BY <1>1, <2>1, <2>4 DEF InCall, InTransfer
  <1>3. flags' \cap Errors # {} => flags \cap Errors # {}
    BY <1>1
  <1>4. Unserved' = Unserved
    BY DEF Unserved
  <1>5. CallShape' /\ CommandOfCall'
    BY <1>1, CallKept DEF InCall, CommandOfCall
  <1>6. TransferOfCall'
    BY <1>1, CallKept DEF InCall, TransferOfCall
  <1>7. BeforeTransfer'
    BY DEF BeforeTransfer
  <1>8. StaleFlag'
    BY <1>1, CallKept DEF StaleFlag
  <1>9. InTransfer'
    BY <1>1, <1>2, <1>3, <1>4, CallKept DEF InCall, InTransfer
  <1>10. QED
    BY <1>5, <1>6, <1>7, <1>8, <1>9 DEF InCall

LEMMA CallTransferBlock ==
  ASSUME Typed, Lines, Calling, InCall, TransferBlock
  PROVE  InCall' /\ PanicInv'
  <1>1. PanicInv'
    BY TurnInCall DEF PanicInv
  <1>2. InCall'
    BY TurnInCall, CallTurnServed, CallTurnFails
  <1>3. QED
    BY <1>1, <1>2

-----------------------------------------------------------------------------
(* The inductive invariant. *)

LEMMA CallBegins ==
  ASSUME Typed, Lines, Call
  PROVE  CallInv' /\ PanicInv'
  <1>1. PICK op \in {"read", "write"}, s \in Sectors, n \in 0 .. NSectors :
          /\ s + n <= NSectors
          /\ call' = [op |-> op, sector |-> s, n |-> n]
          /\ IF n = 0
             THEN pc' = "panic" /\ UNCHANGED <<dev, buffer>>
             ELSE /\ pc' = "issue"
                  /\ dev' = [dev EXCEPT !.blocks = n]
                  /\ buffer' \in IF op = "write" THEN [1 .. n -> Values]
                                               ELSE {[i \in 1 .. n |-> Junk]}
    BY DEF Call
  <1>2. /\ pc = "idle" /\ host' = host /\ flags' = flags
        /\ host.cmd = None /\ host.data = None /\ flags = {}
    BY DEF Call, Lines, Quiet
  <1>3. PanicInv'
    BY <1>2 DEF PanicInv
  <1>4. ASSUME Calling' PROVE InCall'
    <2>1. n # 0 /\ pc' = "issue"
      BY <1>1, <1>4 DEF Calling
    <2>2. n \in Nat \ {0} /\ s \in Nat
      BY <2>1, EmmcAssumption DEF Sectors
    <2>3. dev'.blocks = n /\ buffer' \in [1 .. n -> Values \cup {Junk}]
      BY <1>1, <2>1 DEF Typed, DriverTyped
    <2>4. call'.op \in {"read", "write"} /\ call'.sector = s /\ call'.n = n
      BY <1>1
    <2>5. CallShape'
      BY <1>1, <2>2, <2>3, <2>4 DEF CallShape
    <2>6. CommandOfCall' /\ TransferOfCall' /\ BeforeTransfer' /\ StaleFlag' /\ InTransfer'
      BY <1>2, <2>1 DEF CommandOfCall, TransferOfCall, BeforeTransfer, StaleFlag, InTransfer
    <2>7. QED
      BY <2>5, <2>6 DEF InCall
  <1>5. QED
    BY <1>3, <1>4 DEF CallInv, InCall

LEMMA PanicOnLines == ASSUME Typed, PanicInv, OnLines, pc = "panic" PROVE PanicInv'
  <1> USE DEF PanicInv, Typed, HostTyped, HostFields, TransferFields
  <1>1. CASE Respond
    <2>1. host'.data = host.data \/ host'.data.fifo = "empty"
      <3>1. CASE host' = [host EXCEPT !.cmd = None]
        BY <3>1
      <3>2. CASE host' = [host EXCEPT !.cmd = None, !.up = host.cmd.cmd = "OcrCheck" /\ ComesUp(host.cmd),
                                      !.data = IF UsesDataLines(host.cmd.cmd) THEN Transfer(host.cmd) ELSE host.data]
        BY <3>2, TransferTyped
      <3>3. QED
        BY <1>1, <3>1, <3>2 DEF Respond
    <2>2. QED
      BY <1>1, <2>1 DEF Respond, driver
  <1>2. CASE Lose \/ Garble \/ Stall
    BY <1>2 DEF Lose, Garble, Stall
  <1>3. CASE OfferBlock
    BY <1>3, OfferedBlock
  <1>4. CASE SendBlock
    BY <1>4, SentBlock
  <1>5. CASE Finish
    BY <1>5 DEF Finish
  <1>6. CASE SlowData
    <2>1. host'.data.fifo = host.data.fifo /\ host.data # None /\ host.data.pace # "stuck"
      BY <1>6 DEF SlowData, Moving
    <2>2. QED
      BY <1>6, <2>1
  <1>7. CASE CorruptData
    BY <1>7 DEF CorruptData, Moving
  <1>8. QED
    BY <1>1, <1>2, <1>3, <1>4, <1>5, <1>6, <1>7 DEF OnLines

\* Only a call begins a call, and only a call's failure is a panic.
LEMMA OutsideCalls ==
  ASSUME Typed, Lines, ~Calling, [Next]_vars, ~Call
  PROVE  ~Calling' /\ (pc' = "panic" => pc = "panic" /\ (OnLines \/ UNCHANGED vars))
  <1> USE DEF Typed, DriverTyped
  <1>1. CASE UNCHANGED vars
    BY <1>1 DEF Calling, vars, driver
  <1>2. CASE OnLines
    BY <1>2, OnLinesRest DEF Calling, driver
  <1>3. CASE CardReset \/ CardResetFails
    BY <1>3 DEF CardReset, CardResetFails, FailReset, GoTo, Calling
  <1>4. CASE Issue
    BY <1>4, IssueTakes DEF Calling
  <1>5. CASE CommandEnds \/ CommandTimesOut \/ TransferEnds
    <2>1. step \in StepNames /\ step # "call"
      BY <1>5 DEF CommandEnds, CommandTimesOut, TransferEnds, Calling
    <2>2. CASE \E err : Failed(err)
      <3>1. PICK err : FailedWith(err)
        BY <2>1, <2>2, FailedLeads
      <3>2. QED
        BY <2>1, <3>1 DEF FailedWith, FailReset, GoTo, Calling
    <2>3. CASE Succeed
      BY <2>1, <2>3, SucceedLeads DEF Succeeded, Calling
    <2>4. CASE step' = step /\ pc' \in {"block", "transfer"}
      BY <2>1, <2>4 DEF Calling
    <2>5. QED
      BY <1>5, <2>2, <2>3, <2>4 DEF CommandEnds, CommandTimesOut, TransferEnds
  <1>6. CASE TransferBlock
    BY <1>6 DEF TransferBlock, Calling
  <1>7. CASE CommandLineStuck
    BY <1>7 DEF CommandLineStuck, Continue, FailReset, GoTo, Calling
  <1>8. QED
    BY <1>1, <1>2, <1>3, <1>4, <1>5, <1>6, <1>7 DEF Next, Driver, Controller, Faulty, OnLines

LEMMA CallOnLines ==
  ASSUME "late data" \notin Faults, Typed, Lines, Calling, InCall, OnLines
  PROVE  InCall' /\ PanicInv'
  <1>1. PanicInv'
    BY OnLinesRest DEF PanicInv, Calling, driver
  <1>2. InCall'
    BY CallRespond, CallCommandFaults, CallStall, CallOfferBlock, CallSendBlock, CallFinish,
       CallSlowData, CallCorruptData DEF OnLines
  <1>3. QED
    BY <1>1, <1>2

LEMMA CallStep ==
  ASSUME "late data" \notin Faults, Typed, Lines, CallInv, PanicInv, [Next]_vars
  PROVE  CallInv' /\ PanicInv'
  <1>1. CASE UNCHANGED vars
    <2>1. UNCHANGED <<driver, flags, host, card, disk>> /\ UNCHANGED <<pc, step, block>>
      BY <1>1 DEF vars, driver
    <2>2. \A i : Same(i)' <=> Same(i)
      BY <2>1, CallStays DEF Same
    <2>3. Unserved' = Unserved
      BY <2>1 DEF Unserved
    <2>4. CommandOfCall' <=> CommandOfCall
      BY <2>1, CallStays DEF CommandOfCall
    <2>5. TransferOfCall' <=> TransferOfCall
      BY <2>1, <2>2, CallStays DEF TransferOfCall
    <2>6. (BeforeTransfer' <=> BeforeTransfer) /\ (StaleFlag' <=> StaleFlag)
      BY <2>1, CallStays DEF BeforeTransfer, StaleFlag
    <2>7. InTransfer' <=> InTransfer
      BY <2>1, <2>2, <2>3, CallStays DEF InTransfer
    <2>8. QED
      BY <2>1, <2>4, <2>5, <2>6, <2>7, CallStays DEF CallInv, PanicInv
  <1>2. CASE Call
    BY <1>2, CallBegins
  <1>3. CASE ~Calling /\ ~Call /\ ~UNCHANGED vars
    <2>1. ~Calling' /\ (pc' = "panic" => pc = "panic" /\ OnLines)
      BY <1>3, OutsideCalls
    <2>2. PanicInv'
      BY <2>1, PanicOnLines DEF PanicInv
    <2>3. QED
      BY <2>1, <2>2 DEF CallInv
  <1>4. CASE Calling /\ Next /\ ~Call
    <2>1. InCall
      BY <1>4 DEF CallInv, InCall
    <2>2. CASE OnLines
      BY <1>4, <2>1, <2>2, CallOnLines DEF CallInv, InCall
    <2>3. CASE CardReset \/ CardResetFails
      BY <1>4, <2>3 DEF CardReset, CardResetFails, Calling
    <2>4. CASE Issue
      BY <1>4, <2>1, <2>4, CallIssue DEF CallInv, InCall
    <2>5. CASE CommandEnds
      BY <1>4, <2>1, <2>5, CallCommandEnds DEF CallInv, InCall
    <2>6. CASE CommandTimesOut
      BY <1>4, <2>1, <2>6, CallCommandTimesOut DEF CallInv, InCall
    <2>7. CASE TransferBlock
      BY <1>4, <2>1, <2>7, CallTransferBlock DEF CallInv, InCall
    <2>8. CASE TransferEnds
      BY <1>4, <2>1, <2>8, CallTransferEnds DEF CallInv, InCall
    <2>9. CASE CommandLineStuck
      BY <1>4, <2>9 DEF CommandLineStuck, Calling
    <2>10. QED
      BY <1>4, <2>2, <2>3, <2>4, <2>5, <2>6, <2>7, <2>8, <2>9 DEF Next, Driver, Controller, Faulty, OnLines
  <1>5. QED
    BY <1>1, <1>2, <1>3, <1>4

LEMMA IInvInit == Init => IInv
  <1> SUFFICES ASSUME Init PROVE IInv
    OBVIOUS
  <1>1. Typed /\ Lines
    BY TypedInit, LinesInit
  <1>2. CallInv /\ PanicInv
    BY DEF Init, CallInv, Calling, PanicInv
  <1>3. QED
    BY <1>1, <1>2 DEF IInv

LEMMA IInvStep == ASSUME "late data" \notin Faults, IInv, [Next]_vars PROVE IInv'
  BY TypedStep, LinesStep, CallStep DEF IInv

-----------------------------------------------------------------------------
(* The refinement. *)

\* What the block device sees of a state.
LEMMA RequestIs ==
  /\ pc \in {"panic", "failed"} => Request = Device!Failed
  /\ pc \notin {"panic", "failed", "idle"} /\ step = "call" => Request = call
  /\ pc \notin {"panic", "failed"} /\ (step # "call" \/ pc = "idle") => Request = Device!Idle
  BY DEF Request, NoCall, Device!Idle, Device!Failed

LEMMA RequestBecomes ==
  /\ pc' \in {"panic", "failed"} => Request' = Device!Failed
  /\ pc' \notin {"panic", "failed", "idle"} /\ step' = "call" => Request' = call'
  /\ pc' \notin {"panic", "failed"} /\ (step' # "call" \/ pc' = "idle") => Request' = Device!Idle
  BY DEF Request, NoCall, Device!Idle, Device!Failed

LEMMA InitIsDeviceInit == Init => Device!Init
  BY RequestIs DEF Init, Device!Init, Sectors

DeviceStep == [Device!Next]_<<Request, buffer, disk>>

LEMMA RequestKept ==
  ASSUME UNCHANGED <<pc, step, call>>
  PROVE  Request' = Request
  BY DEF Request, NoCall

\* Only SendBlock writes to the card, and only a block of the buffer, to its
\* place.
LEMMA OnLinesIsDeviceStep == ASSUME IInv, OnLines PROVE DeviceStep
  <1> USE DEF IInv
  <1>1. UNCHANGED driver
    BY OnLinesRest
  <1>2. Request' = Request /\ buffer' = buffer
    BY <1>1, RequestKept DEF driver
  <1>3. CASE SendBlock
    <2>1. /\ host.data # None /\ host.data.pace # "stuck" /\ host.data.fifo = "full" /\ IsWrite(host.data.cmd)
      BY <1>3, SentBlock
    <2>2. Calling
      BY <2>1 DEF Lines, NothingWritten, Quiet, PanicInv, Calling, Typed, DriverTyped
    <2>3. InCall
      BY <2>2 DEF CallInv, InCall
    <2>4. /\ call.op = "write" /\ host.data.at = call.sector + (call.n - host.data.left + 1) - 1
          /\ call.n - host.data.left + 1 \in 1 .. call.n
          /\ disk' = [disk EXCEPT ![host.data.at] = buffer[call.n - host.data.left + 1]]
      BY <1>3, <2>2, <2>3, SendBlockWrites
    <2>5. Request = call
      BY <2>2, RequestIs, RequestBecomes DEF Calling
    <2>6. Device!WriteBlock
      BY <1>2, <2>4, <2>5 DEF Device!WriteBlock, Device!Asked, Device!Sector
    <2>7. QED
      BY <2>6 DEF DeviceStep, Device!Next
  <1>4. CASE ~SendBlock
    <2>1. disk' = disk
      BY <1>4 DEF OnLines, Respond, OfferBlock, Finish, Lose, Garble, Stall, SlowData, CorruptData
    <2>2. QED
      BY <1>2, <2>1 DEF DeviceStep
  <1>5. QED
    BY <1>3, <1>4

\* Outside a call the driver does not touch the buffer or the disk; it can only
\* give up.
LEMMA OutsideIsDeviceStep ==
  ASSUME IInv, ~Calling, [Next]_vars, ~Call, ~OnLines
  PROVE  DeviceStep
  <1> USE DEF IInv, Typed, DriverTyped
  <1>1. ~Calling' /\ (pc' = "panic" => pc = "panic" /\ UNCHANGED vars)
    BY OutsideCalls
  <1>2. CASE UNCHANGED vars
    BY <1>2, RequestKept DEF vars, driver, DeviceStep
  <1>3. CASE CardReset \/ CardResetFails
    <2>1. UNCHANGED <<buffer, disk>> /\ pc = "reset" /\ step = "goidle" /\ step' = "goidle" /\ pc' \in {"issue", "reset", "failed"}
      BY <1>3 DEF CardReset, CardResetFails, FailReset, GoTo
    <2>2. Request = Device!Idle /\ (Request' = Device!Idle \/ Request' = Device!Failed)
      BY <2>1, RequestIs, RequestBecomes
    <2>3. QED
      BY <2>1, <2>2 DEF DeviceStep, Device!Next, Device!Fail, Device!Idle, Device!Failed
  <1>4. CASE Issue
    <2>1. UNCHANGED <<buffer, disk, step, call>> /\ pc = "issue" /\ pc' = "command" /\ step # "call"
      BY <1>4, IssueTakes DEF Calling
    <2>2. Request = Device!Idle /\ Request' = Device!Idle
      BY <2>1, RequestIs, RequestBecomes
    <2>3. QED
      BY <2>1, <2>2 DEF DeviceStep
  <1>5. CASE CommandEnds \/ CommandTimesOut \/ TransferEnds \/ CommandLineStuck
    <2>1. step \in StepNames /\ step # "call" /\ pc \in {"command", "transfer"} /\ disk' = disk
      BY <1>5 DEF CommandEnds, CommandTimesOut, TransferEnds, CommandLineStuck, Calling
    <2>2. UNCHANGED buffer /\ (step' # "call" \/ pc' = "idle") /\ pc' # "panic"
      <3>1. CASE \E err : Failed(err)
        <4>1. PICK err : FailedWith(err)
          BY <2>1, <3>1, FailedLeads
        <4>2. QED
          BY <2>1, <4>1 DEF FailedWith, FailReset, GoTo
      <3>2. CASE Succeed
        BY <2>1, <3>2, SucceedLeads DEF Succeeded
      <3>3. CASE step' = step /\ pc' \in {"block", "transfer"} /\ buffer' = buffer
        BY <2>1, <3>3
      <3>4. CASE CommandLineStuck
        BY <3>4 DEF CommandLineStuck, Continue, FailReset, GoTo
      <3>5. QED
        BY <1>5, <3>1, <3>2, <3>3, <3>4 DEF CommandEnds, CommandTimesOut, TransferEnds
    <2>3. Request = Device!Idle /\ (Request' = Device!Idle \/ Request' = Device!Failed)
      BY <2>1, <2>2, RequestIs, RequestBecomes
    <2>4. QED
      BY <2>1, <2>2, <2>3 DEF DeviceStep, Device!Next, Device!Fail, Device!Idle, Device!Failed
  <1>6. CASE TransferBlock
    <2>1. step = "scr" /\ step' = "scr" /\ pc = "block" /\ pc' \in {"block", "transfer"} /\ UNCHANGED <<buffer, disk>>
      BY <1>6 DEF TransferBlock, Calling
    <2>2. Request = Device!Idle /\ Request' = Device!Idle
      BY <2>1, RequestIs, RequestBecomes
    <2>3. QED
      BY <2>1, <2>2 DEF DeviceStep
  <1>7. QED
    BY <1>2, <1>3, <1>4, <1>5, <1>6 DEF Next, Driver, Controller, Faulty, OnLines

\* A try of a call that fails leads to another one or to a panic.
LEMMA FailureIsDeviceStep ==
  ASSUME IInv, Calling, NEW err, FailedWith(err), UNCHANGED disk
  PROVE  DeviceStep
  <1>1. step' = "call" /\ pc' \in {"issue", "panic"} /\ UNCHANGED <<call, buffer>>
    BY DEF FailedWith, FailCall, GoTo, Calling
  <1>2. Request = call /\ (Request' = call \/ Request' = Device!Failed)
    BY <1>1, RequestIs, RequestBecomes DEF Calling
  <1>3. call # Device!Failed
    BY DEF IInv, CallInv, CallShape, Device!Failed
  <1>4. QED
    BY <1>1, <1>2, <1>3 DEF DeviceStep, Device!Next, Device!Fail

LEMMA CallIsDeviceStep ==
  ASSUME IInv, Calling, Driver
  PROVE  DeviceStep
  <1>1. step = "call" /\ step \in StepNames /\ Request = call
    BY RequestIs DEF Calling, StepNames
  <1>2. Typed /\ Lines /\ InCall
    BY DEF IInv, CallInv, InCall
  <1>3. CASE CardReset
    BY <1>3 DEF CardReset, Calling
  <1>4. CASE Issue
    <2>1. UNCHANGED <<buffer, disk, step, call>> /\ pc' = "command"
      BY <1>2, <1>4, IssueTakes
    <2>2. Request' = call
      BY <1>1, <2>1, RequestIs, RequestBecomes
    <2>3. QED
      BY <1>1, <2>1, <2>2 DEF DeviceStep
  <1>5. CASE CommandEnds
    <2>1. CASE Failed(LastError(flags))
      <3>1. UNCHANGED disk
        BY <1>5 DEF CommandEnds
      <3>2. QED
        BY <1>1, <2>1, <3>1, FailedLeads, FailureIsDeviceStep
    <2>2. CASE UsesDataLines(Command) /\ pc' = "block" /\ UNCHANGED <<step, call, buffer, disk>>
      <3>1. Request' = call
        BY <1>1, <2>2, RequestIs, RequestBecomes
      <3>2. QED
        BY <1>1, <2>2, <3>1 DEF DeviceStep
    <2>3. UsesDataLines(Command) /\ IsData(Command)
      BY <1>1, DataStepsAre
    <2>4. QED
      BY <1>5, <2>1, <2>2, <2>3 DEF CommandEnds
  <1>6. CASE CommandTimesOut
    <2>1. UNCHANGED disk /\ Failed(dev.error)
      BY <1>6 DEF CommandTimesOut
    <2>2. QED
      BY <1>1, <2>1, FailedLeads, FailureIsDeviceStep
  <1>7. CASE TransferBlock
    <2>1. /\ step' = "call" /\ pc' \in {"block", "transfer"} /\ UNCHANGED <<call, disk>> /\ block \in 1 .. call.n
          /\ \/ buffer' = buffer
             \/ /\ call.op # "write"
                /\ buffer' = [buffer EXCEPT ![block] = IF TurnHere THEN host.data.value ELSE Junk]
      BY <1>2, <1>7, TurnInCall
    <2>2. Request' = call
      BY <2>1, RequestIs, RequestBecomes
    <2>3. CASE buffer' = buffer
      BY <1>1, <2>1, <2>2, <2>3 DEF DeviceStep
    <2>4. CASE call.op # "write" /\ buffer' = [buffer EXCEPT ![block] = IF TurnHere THEN host.data.value ELSE Junk]
      <3>1. call.op = "read"
        BY <1>2, <2>4 DEF InCall, CallShape
      <3>2. (IF TurnHere THEN host.data.value ELSE Junk) \in Values \cup {Junk}
        BY <1>2 DEF TurnHere, InCall, TransferOfCall
      <3>3. Device!ReadBlock
        BY <1>1, <2>1, <2>2, <2>4, <3>1, <3>2 DEF Device!ReadBlock, Device!Asked
      <3>4. QED
        BY <3>3 DEF DeviceStep, Device!Next
    <2>5. QED
      BY <2>1, <2>3, <2>4
  <1>8. CASE TransferEnds
    <2>1. UNCHANGED disk /\ pc = "transfer"
      BY <1>8 DEF TransferEnds
    <2>2. CASE Failed(LastError(flags))
      BY <1>1, <2>1, <2>2, FailedLeads, FailureIsDeviceStep
    <2>3. CASE Complete(flags) /\ Succeed
      <3>1. pc' = "idle" /\ step' = "call" /\ UNCHANGED <<buffer, call>>
        BY <1>1, <2>3, SucceedLeads DEF Succeeded
      <3>2. Request' = Device!Idle
        BY <3>1, RequestIs, RequestBecomes
      <3>3. "xfer" \in flags
        BY <2>3, ErrorNames DEF Complete
      <3>4. \A i \in 1 .. call.n : buffer[i] = disk[call.sector + i - 1]
        BY <1>2, <2>1, <3>3 DEF InCall, InTransfer, Same
      <3>5. call.op \in {"read", "write"}
        BY <1>2 DEF InCall, CallShape
      <3>6. Device!Return
        BY <1>1, <2>1, <3>1, <3>2, <3>4, <3>5 DEF Device!Return, Device!Asked, Device!Sector
      <3>7. QED
        BY <3>6 DEF DeviceStep, Device!Next
    <2>4. QED
      BY <1>8, <2>2, <2>3 DEF TransferEnds
  <1>9. QED
    BY <1>3, <1>4, <1>5, <1>6, <1>7, <1>8 DEF Driver

LEMMA CallIsDeviceStart == ASSUME IInv, Call PROVE DeviceStep
  <1>1. PICK op \in {"read", "write"}, s \in Sectors, n \in 0 .. NSectors :
          /\ s + n <= NSectors
          /\ call' = [op |-> op, sector |-> s, n |-> n]
          /\ IF n = 0
             THEN pc' = "panic" /\ UNCHANGED <<dev, buffer>>
             ELSE /\ pc' = "issue"
                  /\ dev' = [dev EXCEPT !.blocks = n]
                  /\ buffer' \in IF op = "write" THEN [1 .. n -> Values]
                                               ELSE {[i \in 1 .. n |-> Junk]}
    BY DEF Call
  <1>2. pc = "idle" /\ step' = "call" /\ UNCHANGED disk
    BY DEF Call
  <1>3. Request = Device!Idle
    BY <1>2, RequestIs, RequestBecomes
  <1>4. CASE n = 0
    <2>1. Request' = Device!Failed /\ UNCHANGED buffer
      BY <1>1, <1>4, RequestIs, RequestBecomes
    <2>2. QED
      BY <1>2, <1>3, <2>1 DEF DeviceStep, Device!Next, Device!Fail, Device!Idle, Device!Failed
  <1>5. CASE n # 0
    <2>1. Request' = [op |-> op, sector |-> s, n |-> n]
      BY <1>1, <1>2, <1>5, RequestIs, RequestBecomes
    <2>2. n \in 1 .. NSectors /\ s \in 0 .. NSectors - 1
      BY <1>5, EmmcAssumption DEF Sectors
    <2>3. buffer' \in [1 .. n -> Values \cup {Junk}]
      BY <1>1, <1>5
    <2>4. Device!Start
      BY <1>1, <1>2, <1>3, <2>1, <2>2, <2>3 DEF Device!Start
    <2>5. QED
      BY <2>4 DEF DeviceStep, Device!Next
  <1>6. QED
    BY <1>4, <1>5

LEMMA StepIsDeviceStep == ASSUME IInv, [Next]_vars PROVE DeviceStep
  <1>1. CASE Call
    BY <1>1, CallIsDeviceStart
  <1>2. CASE OnLines
    BY <1>2, OnLinesIsDeviceStep
  <1>3. CASE ~Calling /\ ~Call /\ ~OnLines
    BY <1>3, OutsideIsDeviceStep
  <1>4. CASE Calling /\ Driver
    BY <1>4, CallIsDeviceStep
  <1>5. CASE Calling /\ (CardResetFails \/ CommandLineStuck)
    BY <1>5 DEF CardResetFails, CommandLineStuck, Calling
  <1>6. CASE UNCHANGED vars
    BY <1>6, RequestKept DEF vars, driver, DeviceStep
  <1>7. QED
    BY <1>1, <1>2, <1>3, <1>4, <1>5, <1>6 DEF Next, Controller, Faulty, OnLines

\* The driver implements the block device of pi-sd.h, with any number of faults
\* of every kind but one: lost, garbled and late responses, transfers that get
\* stuck or fail their checksum, resets that take too long.  A call that returns
\* has moved every block it was asked for and no other, and nothing is written
\* outside a call.  The kind left out, a transfer that goes on after its time-out
\* was reported, is the one whose completion a later try may take for its own
\* (emmc.c:310).
THEOREM EmmcImplementsDevice == ASSUME "late data" \notin Faults PROVE Spec => ImplementsDevice
  <1>1. Spec => []IInv
    BY IInvInit, IInvStep, PTL DEF Spec
  <1>2. IInv /\ [Next]_vars => [Device!Next]_<<Request, buffer, disk>>
    BY StepIsDeviceStep DEF DeviceStep
  <1>3. QED
    BY <1>1, <1>2, InitIsDeviceInit, PTL DEF Spec, ImplementsDevice, Device!Spec
=============================================================================
