--------------------------------- MODULE Hci ---------------------------------
(***************************************************************************)
(* The HCI host of 10-bluetooth/code/bt.c, for every host in a set of      *)
(* them: packets over the UART, the queues of received packets, and the    *)
(* credits for sending commands.                                           *)
(*                                                                         *)
(* A packet crosses the UART in one step, whole and in order.  That is an  *)
(* assumption on the driver below, which staff-pl011.c meets and pl011.c   *)
(* does not always (Pl011): with it the third case of _receive_packet, a   *)
(* panic on a packet of any other type, is never entered.                  *)
(***************************************************************************)
EXTENDS Integers, Sequences

CONSTANTS
    Hosts,
    Opcodes,       \* the commands that the programs send
    CommandSlots   \* commands the controller can hold

ASSUME SlotsAssumption == CommandSlots \in Nat \ {0}

EventCodes == {"command_complete", "command_status", "connection_request",
               "connection_complete", "disconnection_complete",
               "number_of_completed_packets"}

NoOpcode == "none"

\* The fields of an event that bt.c and the programs look at: ok is a status of
\* zero, credits is Num_HCI_Command_Packets.
Event(code, opcode, ok, credits) ==
    [type |-> "event", code |-> code, opcode |-> opcode, ok |-> ok, credits |-> credits]

Command(opcode) == [type |-> "command", opcode |-> opcode]
AclData(data)   == [type |-> "acl", data |-> data]

Events   == [type : {"event"}, code : EventCodes, opcode : Opcodes \union {NoOpcode},
             ok : BOOLEAN, credits : 0 .. CommandSlots]
Commands == [type : {"command"}, opcode : Opcodes]
Acls     == [type : {"acl"}, data : Seq(Nat)]

VARIABLES
    n_commands_can_send,
    event_rx_buffer,
    acl_rx_buffer,
    up,      \* packets on their way from a controller to its host
    down,    \* packets on their way from a host to its controller
    inbox    \* commands that a controller holds

hciVars == <<n_commands_can_send, event_rx_buffer, acl_rx_buffer, up, down, inbox>>

HciTypeOK ==
    /\ n_commands_can_send \in [Hosts -> 0 .. CommandSlots]
    /\ event_rx_buffer \in [Hosts -> Seq(Events)]
    /\ acl_rx_buffer \in [Hosts -> Seq(Acls)]
    /\ up   \in [Hosts -> Seq(Events \union Acls)]
    /\ down \in [Hosts -> Seq(Commands \union Acls)]
    /\ inbox \in [Hosts -> Seq(Opcodes)]

\* bt_init.
HciInit ==
    /\ n_commands_can_send = [h \in Hosts |-> 1]
    /\ event_rx_buffer = [h \in Hosts |-> <<>>]
    /\ acl_rx_buffer = [h \in Hosts |-> <<>>]
    /\ up = [h \in Hosts |-> <<>>] /\ down = [h \in Hosts |-> <<>>]
    /\ inbox = [h \in Hosts |-> <<>>]
-----------------------------------------------------------------------------
\* The events that carry credits.
CarriesCredits(p) == p.code \in {"command_complete", "command_status"}

\* _receive_event: the credits of h after event p.
CreditsAfter(h, p) ==
    IF CarriesCredits(p) THEN p.credits ELSE n_commands_can_send[h]

\* _receive_packet.
Receive(h) ==
    /\ up[h] # <<>>
    /\ up' = [up EXCEPT ![h] = Tail(@)]
    /\ LET p == Head(up[h]) IN
       \/ /\ p.type = "event"
          /\ n_commands_can_send' = [n_commands_can_send EXCEPT ![h] = CreditsAfter(h, p)]
          /\ event_rx_buffer' = [event_rx_buffer EXCEPT ![h] = Append(@, p)]
          /\ UNCHANGED acl_rx_buffer
       \/ /\ p.type = "acl"
          /\ acl_rx_buffer' = [acl_rx_buffer EXCEPT ![h] = Append(@, p)]
          /\ UNCHANGED <<n_commands_can_send, event_rx_buffer>>
    /\ UNCHANGED <<down, inbox>>

AwaitCredit_Spin(h) == n_commands_can_send[h] = 0 /\ UNCHANGED hciVars

\* bt_send_command waits for a credit by receiving whatever comes.
AwaitCredit(h) == n_commands_can_send[h] = 0 /\ Receive(h)

SendCommand_Uncounted(h, opcode) ==
    /\ n_commands_can_send[h] > 0
    /\ down' = [down EXCEPT ![h] = Append(@, Command(opcode))]
    /\ UNCHANGED <<n_commands_can_send, event_rx_buffer, acl_rx_buffer, up, inbox>>

SendCommand(h, opcode) ==
    /\ n_commands_can_send[h] > 0
    /\ n_commands_can_send' = [n_commands_can_send EXCEPT ![h] = @ - 1]
    /\ down' = [down EXCEPT ![h] = Append(@, Command(opcode))]
    /\ UNCHANGED <<event_rx_buffer, acl_rx_buffer, up, inbox>>

\* bt_send_acl_data counts nothing.
SendAcl(h, data) ==
    /\ down' = [down EXCEPT ![h] = Append(@, AclData(data))]
    /\ UNCHANGED <<n_commands_can_send, event_rx_buffer, acl_rx_buffer, up, inbox>>

\* bt_receive_event, while the queue is empty and then.
AwaitEvent(h) == event_rx_buffer[h] = <<>> /\ Receive(h)

PopEvent(h) ==
    /\ event_rx_buffer[h] # <<>>
    /\ event_rx_buffer' = [event_rx_buffer EXCEPT ![h] = Tail(@)]
    /\ UNCHANGED <<n_commands_can_send, acl_rx_buffer, up, down, inbox>>

PopAcl(h) ==
    /\ acl_rx_buffer[h] # <<>>
    /\ acl_rx_buffer' = [acl_rx_buffer EXCEPT ![h] = Tail(@)]
    /\ UNCHANGED <<n_commands_can_send, event_rx_buffer, up, down, inbox>>

\* A packet of the wanted type that has just come is handed on at once: its
\* queue was empty.
HandOver(h, type) ==
    /\ up[h] # <<>> /\ Head(up[h]).type = type
    /\ up' = [up EXCEPT ![h] = Tail(@)]
    /\ n_commands_can_send' = IF type = "event"
                                THEN [n_commands_can_send EXCEPT ![h] = CreditsAfter(h, Head(up[h]))]
                                ELSE n_commands_can_send
    /\ UNCHANGED <<event_rx_buffer, acl_rx_buffer, down, inbox>>

\* bt_receive_event_async and bt_receive_acl_async return the next packet ...
NextEvent(h) == Head(IF event_rx_buffer[h] # <<>> THEN event_rx_buffer[h] ELSE up[h])
NextAcl(h)   == Head(IF acl_rx_buffer[h] # <<>> THEN acl_rx_buffer[h] ELSE up[h])

ReceiveEventAsync(h) ==
    \/ PopEvent(h)
    \/ event_rx_buffer[h] = <<>> /\ HandOver(h, "event")

ReceiveAclAsync_FreshFirst(h) == HandOver(h, "acl") \/ PopAcl(h)

ReceiveAclAsync(h) ==
    \/ PopAcl(h)
    \/ acl_rx_buffer[h] = <<>> /\ HandOver(h, "acl")

NoEventAsync_Discards(h) ==
    /\ event_rx_buffer[h] = <<>>
    /\ \/ up[h] = <<>> /\ UNCHANGED hciVars
       \/ HandOver(h, "acl")

\* ... or NULL: there is nothing, or one packet of the other type, now queued.
NoEventAsync(h) ==
    /\ event_rx_buffer[h] = <<>>
    /\ \/ up[h] = <<>> /\ UNCHANGED hciVars
       \/ up[h] # <<>> /\ Head(up[h]).type = "acl" /\ Receive(h)

NoAclAsync(h) ==
    /\ acl_rx_buffer[h] = <<>>
    /\ \/ up[h] = <<>> /\ UNCHANGED hciVars
       \/ up[h] # <<>> /\ Head(up[h]).type = "event" /\ Receive(h)
-----------------------------------------------------------------------------
(***************************************************************************)
(* The controller's side of the commands.  It answers one at a time, in    *)
(* order, and grants as many commands as it has room for.                  *)
(***************************************************************************)
Intake(h) ==
    /\ down[h] # <<>> /\ Head(down[h]).type = "command"
    /\ down' = [down EXCEPT ![h] = Tail(@)]
    /\ inbox' = [inbox EXCEPT ![h] = Append(@, Head(down[h]).opcode)]
    /\ UNCHANGED <<n_commands_can_send, event_rx_buffer, acl_rx_buffer, up>>

\* The answer to the oldest command, with event code `code'.
Answer(h, code) ==
    /\ inbox[h] # <<>>
    /\ inbox' = [inbox EXCEPT ![h] = Tail(@)]
    /\ up' = [up EXCEPT ![h] =
                Append(@, Event(code, Head(inbox[h]), TRUE,
                                CommandSlots - Len(Tail(inbox[h]))))]
    /\ UNCHANGED <<n_commands_can_send, event_rx_buffer, acl_rx_buffer, down>>

\* The controller is never sent more commands than it can hold.
CommandsFit == \A h \in Hosts : Len(inbox[h]) <= CommandSlots
=============================================================================
