------------------------------ MODULE BtConnect ------------------------------
(***************************************************************************)
(* The programs 5-connect.c and 5-accept-connection.c, each on its own Pi, *)
(* over bt.c: both upload the firmware patch and ask their controller a    *)
(* few things, Alice connects, Bob accepts, and then what is typed at one  *)
(* comes out at the other until the link is lost.                          *)
(***************************************************************************)
EXTENDS Hci

CONSTANTS
    Alice, Bob,
    NChunks,    \* commands in the firmware file (121)
    MaxData,    \* bytes in an ACL packet (1021)
    AclSlots,   \* ACL packets the controller can hold
    NTyped,     \* bound: bytes typed at each host
    Terse,      \* bound: hosts at which one packet is typed at most
    LinkMayFail

ASSUME PeerAssumption ==
    /\ Alice # Bob /\ Hosts = {Alice, Bob}
    /\ NChunks \in Nat /\ MaxData \in Nat \ {0}
    /\ AclSlots \in Nat \ {0} /\ NTyped \in Nat
    /\ Terse \subseteq Hosts /\ LinkMayFail \in BOOLEAN

ASSUME OpcodeAssumption ==
    {"reset", "load_firmware", "write_ram", "launch_ram", "read_bd_addr",
     "write_local_name", "read_local_name", "read_buffer_size", "create_connection",
     "write_scan_enable", "accept_connection_request"} \subseteq Opcodes

Peer(h) == IF h = Alice THEN Bob ELSE Alice
-----------------------------------------------------------------------------
(***************************************************************************)
(* notmain as a list: commands to send, and events to receive and assert.  *)
(***************************************************************************)
Send(opcode)        == [do |-> "send", code |-> "none", opcode |-> opcode]
Await(code, opcode) == [do |-> "await", code |-> code, opcode |-> opcode]
Find(opcode)        == [do |-> "find", code |-> "command_complete", opcode |-> opcode]

Ask(opcode) == <<Send(opcode), Await("command_complete", opcode)>>

StatusOf_Complete(opcode) == Await("command_complete", opcode)

\* What a command that takes time is answered with.
StatusOf(opcode) == Await("command_status", opcode)

\* The firmware file: a table of commands, the last of which launches it.
Firmware == [i \in 1 .. NChunks |-> IF i < NChunks THEN "write_ram" ELSE "launch_ram"]

Purge_OneShort(sent) == [i \in 1 .. Len(sent) - 1 |-> Await("command_complete", "any")]

\* The events that are taken from the queue after the upload.
Purge(sent) == [i \in 1 .. Len(sent) |-> Await("command_complete", "any")]

\* bt_upload_firmware.
Upload == <<Send("reset"), Send("load_firmware"), Find("load_firmware")>>
            \o [i \in 1 .. Len(Firmware) |-> Send(Firmware[i])]
            \o Purge(Firmware)

Greeting == Upload \o Ask("read_bd_addr") \o Ask("write_local_name")
                   \o Ask("read_local_name") \o Ask("read_buffer_size")

ConnectSteps ==
    <<Send("create_connection"), StatusOf("create_connection"),
      Await("connection_complete", NoOpcode)>>

AcceptSteps ==
    Ask("write_scan_enable")
      \o <<Await("connection_request", NoOpcode),
           Send("accept_connection_request"), StatusOf("accept_connection_request"),
           Await("connection_complete", NoOpcode)>>

Program == [h \in Hosts |-> Greeting \o IF h = Alice THEN ConnectSteps ELSE AcceptSteps]

VARIABLES
    pc,        \* in its program, in its loop, or stopped
    step,      \* the host's place in its program
    typed,     \* bytes typed at the host, each known by its number
    shown,     \* bytes the host has printed
    link,      \* the connection
    scanning,  \* Bob's controller answers pages
    acl_out,   \* ACL packets that a controller holds for its peer
    lost       \* history: bytes typed at a host for which its controller had no room

airVars == <<link, scanning, acl_out, lost>>
vars == <<hciVars, pc, step, typed, shown, airVars>>

Loop  == {"event", "acl", "term"}
Stops == {"closed", "panic"}
Step(h) == Program[h][step[h]]

TypeOK ==
    /\ HciTypeOK
    /\ pc \in [Hosts -> {"program"} \union Loop \union Stops]
    /\ \A h \in Hosts : step[h] \in 1 .. Len(Program[h])
    /\ typed \in [Hosts -> 0 .. NTyped]
    /\ shown \in [Hosts -> Seq(1 .. NTyped)]
    /\ link \in {"none", "paging", "requested", "accepted", "failed", "up", "down"}
    /\ scanning \in BOOLEAN
    /\ acl_out \in [Hosts -> Seq(Acls)] /\ \A h \in Hosts : Len(acl_out[h]) <= AclSlots
    /\ lost \in [Hosts -> SUBSET (1 .. NTyped)]

Init ==
    /\ HciInit
    /\ pc = [h \in Hosts |-> "program"] /\ step = [h \in Hosts |-> 1]
    /\ typed = [h \in Hosts |-> 0] /\ shown = [h \in Hosts |-> <<>>]
    /\ link = "none" /\ scanning = FALSE
    /\ acl_out = [h \in Hosts |-> <<>>] /\ lost = [h \in Hosts |-> {}]

Goto(h, where) == pc' = [pc EXCEPT ![h] = where] /\ UNCHANGED step

\* On to the next step of the program, or into the loop.
NextStep(h) ==
    IF step[h] = Len(Program[h]) THEN Goto(h, "event")
                                 ELSE step' = [step EXCEPT ![h] = @ + 1] /\ UNCHANGED pc
-----------------------------------------------------------------------------
SendStep(h) ==
    /\ pc[h] = "program" /\ Step(h).do = "send"
    /\ \/ AwaitCredit(h) /\ UNCHANGED <<pc, step>>
       \/ SendCommand(h, Step(h).opcode) /\ NextStep(h)
    /\ UNCHANGED <<typed, shown, airVars>>

Matches(s, e) == e.code = s.code /\ s.opcode \in {e.opcode, "any"}

\* The assertions after bt_receive_event, on the event's kind and on its status,
\* or the search for one event.
ReceiveStep(h) ==
    /\ pc[h] = "program" /\ Step(h).do \in {"await", "find"}
    /\ \/ AwaitEvent(h) /\ UNCHANGED <<pc, step>>
       \/ /\ PopEvent(h)
          /\ LET e == Head(event_rx_buffer[h]) IN
             IF Matches(Step(h), e) /\ e.ok THEN NextStep(h)
             ELSE IF Step(h).do = "find" THEN UNCHANGED <<pc, step>>
             ELSE Goto(h, "panic")
    /\ UNCHANGED <<typed, shown, airVars>>

LoopEvent_Waits(h) ==
    /\ pc[h] = "event"
    /\ \/ NoEventAsync(h) /\ Goto(h, IF up[h] = <<>> THEN "acl" ELSE "event")
       \/ /\ ReceiveEventAsync(h)
          /\ Goto(h, IF NextEvent(h).code = "disconnection_complete" THEN "closed" ELSE "acl")
    /\ UNCHANGED <<typed, shown, airVars>>

\* The loop: one event, one data packet, what has been typed.
LoopEvent(h) ==
    /\ pc[h] = "event"
    /\ \/ NoEventAsync(h) /\ Goto(h, "acl")
       \/ /\ ReceiveEventAsync(h)
          /\ Goto(h, IF NextEvent(h).code = "disconnection_complete" THEN "closed" ELSE "acl")
    /\ UNCHANGED <<typed, shown, airVars>>

LoopAcl(h) ==
    /\ pc[h] = "acl" /\ Goto(h, "term")
    /\ \/ NoAclAsync(h) /\ UNCHANGED shown
       \/ /\ ReceiveAclAsync(h)
          /\ shown' = [shown EXCEPT ![h] = @ \o NextAcl(h).data]
    /\ UNCHANGED <<typed, airVars>>

Batch_Overrun(first, n) == [i \in 1 .. n + 1 |-> first + i]

Batch(first, n) == [i \in 1 .. n |-> first + i]

\* Bytes that the user has typed since go into one packet, MaxData at most.
LoopTerm(h) ==
    /\ pc[h] = "term" /\ Goto(h, "event")
    /\ \/ UNCHANGED <<hciVars, typed>>
       \/ \E n \in 1 .. MaxData :
            /\ typed[h] + n <= NTyped /\ (h \in Terse => typed[h] = 0)
            /\ SendAcl(h, Batch(typed[h], n))
            /\ typed' = [typed EXCEPT ![h] = @ + n]
    /\ UNCHANGED <<shown, airVars>>
-----------------------------------------------------------------------------
(***************************************************************************)
(* The controllers and the air between them.                               *)
(***************************************************************************)
Deferred == {"create_connection", "accept_connection_request"}

\* Commands that take time get a status; the others are done when answered.
Execute(h) ==
    /\ inbox[h] # <<>>
    /\ LET opcode == Head(inbox[h]) IN
       /\ Answer(h, IF opcode \in Deferred THEN "command_status" ELSE "command_complete")
       /\ link' = CASE opcode = "create_connection" -> "paging"
                    [] opcode = "accept_connection_request" /\ link = "requested" -> "accepted"
                    [] OTHER -> link
       /\ scanning' = (scanning \/ opcode = "write_scan_enable")
    /\ UNCHANGED <<pc, step, typed, shown, acl_out, lost>>

Notify(to, code, ok) ==
    up' = [h \in Hosts |-> IF h \in to THEN Append(up[h], Event(code, NoOpcode, ok, 0)) ELSE up[h]]

OverAir == UNCHANGED <<n_commands_can_send, event_rx_buffer, acl_rx_buffer, inbox,
                       pc, step, typed, shown, scanning>>

PageHeard ==
    /\ link = "paging" /\ scanning
    /\ link' = "requested" /\ Notify({Bob}, "connection_request", TRUE)
    /\ UNCHANGED <<down, acl_out, lost>> /\ OverAir

Established ==
    /\ link = "accepted"
    /\ link' = "up" /\ Notify(Hosts, "connection_complete", TRUE)
    /\ UNCHANGED <<down, acl_out, lost>> /\ OverAir

\* Nobody answers the page, Bob's answer is too late, or the link breaks off
\* while it is made.
PageFails ==
    /\ LinkMayFail /\ link \in {"paging", "requested", "accepted"}
    /\ link' = "failed"
    /\ Notify(IF link = "paging" THEN {Alice} ELSE Hosts, "connection_complete", FALSE)
    /\ UNCHANGED <<down, acl_out, lost>> /\ OverAir

BytesOf(packet) == {packet.data[i] : i \in DOMAIN packet.data}

HasRoom(h) == Len(acl_out[h]) < AclSlots

\* A data packet with no room for it is lost, as is one for a link that is down.
TakeAcl(h) ==
    /\ down[h] # <<>> /\ Head(down[h]).type = "acl"
    /\ down' = [down EXCEPT ![h] = Tail(@)]
    /\ acl_out' = IF link = "up" /\ HasRoom(h)
                    THEN [acl_out EXCEPT ![h] = Append(@, Head(down[h]))] ELSE acl_out
    /\ lost' = IF link = "up" /\ ~HasRoom(h)
                 THEN [lost EXCEPT ![h] = @ \union BytesOf(Head(down[h]))] ELSE lost
    /\ UNCHANGED <<up, link>> /\ OverAir

Deliver(h) ==
    /\ link = "up" /\ acl_out[h] # <<>>
    /\ acl_out' = [acl_out EXCEPT ![h] = Tail(@)]
    /\ up' = [up EXCEPT ![Peer(h)] = Append(@, Head(acl_out[h])),
                        ![h] = Append(@, Event("number_of_completed_packets", NoOpcode, TRUE, 0))]
    /\ UNCHANGED <<down, link, lost>> /\ OverAir

LinkLost ==
    /\ LinkMayFail /\ link = "up"
    /\ link' = "down" /\ Notify(Hosts, "disconnection_complete", TRUE)
    /\ acl_out' = [h \in Hosts |-> <<>>]
    /\ UNCHANGED <<down, lost>> /\ OverAir

Host(h) == SendStep(h) \/ ReceiveStep(h) \/ LoopEvent(h) \/ LoopAcl(h) \/ LoopTerm(h)
Controller(h) == (Intake(h) /\ UNCHANGED <<pc, step, typed, shown, airVars>>)
                   \/ Execute(h) \/ TakeAcl(h) \/ Deliver(h)
Air == PageHeard \/ Established \/ PageFails

Next == (\E h \in Hosts : Host(h) \/ Controller(h)) \/ Air \/ LinkLost

Spec == Init /\ [][Next]_vars

\* Programs and controllers run, and a page ends one way or the other; nothing
\* makes a user type or a link break.
FairSpec == Spec /\ \A h \in Hosts : WF_vars(Host(h)) /\ WF_vars(Controller(h)) /\ WF_vars(Air)
-----------------------------------------------------------------------------
\* A program panics on an event only when its attempt to connect has failed: the
\* events come in the order the programs expect them in, all with good status.
EventsAsExpected == \A h \in Hosts : pc[h] = "panic" => link = "failed"

\* What is typed at one host comes out at the other in order, none twice, and
\* without gaps but those of the bytes its own controller had no room for.
StreamInOrder ==
    \A h \in Hosts : \A i \in DOMAIN shown[h] :
        LET before == IF i = 1 THEN 0 ELSE shown[h][i - 1] IN
        /\ before < shown[h][i]
        /\ \A n \in before + 1 .. shown[h][i] - 1 : n \in lost[Peer(h)]

\* A host that stops at the disconnection has printed all it had received.
NothingUnread == \A h \in Hosts : pc[h] = "closed" => acl_rx_buffer[h] = <<>>

\* Both come out of their firmware upload, whatever the interleaving.
UploadEnds == \A h \in Hosts : <>(pc[h] # "program" \/ step[h] > Len(Upload))

\* Alice comes into her loop or panics on the failed attempt, and once she is in
\* hers Bob has come into his, and out of it at the disconnection at the earliest.
ConnectEnds == /\ <>(pc[Alice] \in Loop \/ (pc[Alice] = "panic" /\ link = "failed"))
               /\ (pc[Alice] \in Loop) ~> (pc[Bob] \in Loop \union {"closed"})

\* What was typed is shown, unless the controller had no room for it or the link
\* breaks.
TypedIsShown ==
    \A h \in Hosts : \A n \in 1 .. NTyped :
        (typed[h] >= n /\ link = "up")
            ~> (\/ \E i \in DOMAIN shown[Peer(h)] : shown[Peer(h)][i] = n
                \/ n \in lost[h]
                \/ link = "down")
=============================================================================
