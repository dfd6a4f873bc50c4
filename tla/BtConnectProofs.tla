-------------------------- MODULE BtConnectProofs ---------------------------
(***************************************************************************)
(* What holds of two connected hosts for every length of the firmware      *)
(* file, packet size, buffering and amount of data, when a controller      *)
(* holds one command:                                                      *)
(*                                                                         *)
(*   - a controller is never sent a second command.  There is one token    *)
(*     for each host: its credit, a command on its way, a command in the   *)
(*     controller, or the answer that brings the credit back.  bt.c        *)
(*     overwrites its credits with the answer's; what makes that right is  *)
(*     that never two of the four exist at once (IInv);                    *)
(*                                                                         *)
(*   - no data is left unread.  Each host asks for the connection once,    *)
(*     after everything else it sends (Linked), and is told that it is     *)
(*     made before any data reaches it (Opened);                           *)
(*                                                                         *)
(*   - what is typed is shown in order, without gaps but those of the      *)
(*     bytes that a controller had no room for.  The queues from one host  *)
(*     to the other hold, end to end, the bytes between (Streams);         *)
(*                                                                         *)
(*   - no assertion on an event fails, unless the attempt to connect has   *)
(*     failed.  The events of each host are numbered, and those on their   *)
(*     way are the next ones (Scripted).                                   *)
(***************************************************************************)
EXTENDS BtConnect, SequenceTheorems, TLAPS

----------------------------------------------------------------------------
(* The token. *)

IsCommand(p) == p.type = "command"
IsGrant(p) == p.type = "event" /\ CarriesCredits(p)

HasCommand(d) == \E i \in 1 .. Len(d) : IsCommand(d[i])
HasGrant(u) == \E i \in 1 .. Len(u) : IsGrant(u[i])

OneCommand(d) == \A i, j \in 1 .. Len(d) : IsCommand(d[i]) /\ IsCommand(d[j]) => i = j
OneGrant(u) == \A i, j \in 1 .. Len(u) : IsGrant(u[i]) /\ IsGrant(u[j]) => i = j

(* c credits, d on the way down, n in the controller, u on the way up. *)
OneToken(c, d, n, u) ==
    /\ OneCommand(d) /\ OneGrant(u) /\ Len(n) <= 1
    /\ c # 0 => ~ HasCommand(d) /\ n = <<>> /\ ~ HasGrant(u)
    /\ HasCommand(d) => n = <<>> /\ ~ HasGrant(u)
    /\ n # <<>> => ~ HasGrant(u)

(* What sequences do to it, where S holds the packets and O the opcodes.   *)

LEMMA TailFacts ==
    ASSUME NEW S, NEW s \in Seq(S), s # <<>>
    PROVE  /\ Len(s) \in Nat /\ Len(s) > 0 /\ Head(s) = s[1] /\ Len(Tail(s)) = Len(s) - 1
           /\ Tail(s) \in Seq(S) /\ Head(s) \in S
           /\ \A i \in 1 .. Len(Tail(s)) : i + 1 \in 1 .. Len(s) /\ Tail(s)[i] = s[i + 1]
           /\ \A i \in 1 .. Len(s) : i # 1 => i - 1 \in 1 .. Len(Tail(s)) /\ Tail(s)[i - 1] = s[i]
<1>1. /\ Head(s) \in S /\ Tail(s) \in Seq(S) /\ Len(Tail(s)) = Len(s) - 1
      /\ \A i \in 1 .. Len(Tail(s)) : Tail(s)[i] = s[i + 1]
    BY HeadTailProperties
<1>2. Len(s) \in Nat /\ Len(s) > 0 /\ Head(s) = s[1]
    BY EmptySeq, LenProperties
<1>3. ASSUME NEW i \in 1 .. Len(Tail(s)) PROVE i + 1 \in 1 .. Len(s)
    BY <1>1, <1>2
<1>4. ASSUME NEW i \in 1 .. Len(s), i # 1
      PROVE  i - 1 \in 1 .. Len(Tail(s)) /\ Tail(s)[i - 1] = s[i]
    <2>1. i - 1 \in 1 .. Len(Tail(s)) /\ (i - 1) + 1 = i
        BY <1>1, <1>2, <1>4
    <2> QED BY <1>1, <2>1
<1> QED BY <1>1, <1>2, <1>3, <1>4

LEMMA AppendFacts ==
    ASSUME NEW S, NEW s \in Seq(S), NEW e \in S
    PROVE  /\ Append(s, e) \in Seq(S) /\ Len(s) \in Nat /\ Len(Append(s, e)) = Len(s) + 1
           /\ Append(s, e)[Len(s) + 1] = e
           /\ \A i \in 1 .. Len(s) + 1 : i # Len(s) + 1 => i \in 1 .. Len(s) /\ Append(s, e)[i] = s[i]
<1>1. /\ Append(s, e) \in Seq(S) /\ Len(Append(s, e)) = Len(s) + 1
      /\ \A i \in 1 .. Len(s) : Append(s, e)[i] = s[i]
      /\ Append(s, e)[Len(s) + 1] = e
    BY AppendProperties
<1>2. Len(s) \in Nat
    BY LenProperties
<1>3. \A i \in 1 .. Len(s) + 1 : i # Len(s) + 1 => i \in 1 .. Len(s)
    BY <1>2
<1> QED BY <1>1, <1>2, <1>3

LEMMA TailOfCommands ==
    ASSUME NEW S, NEW d \in Seq(S), d # <<>>, OneCommand(d)
    PROVE  /\ OneCommand(Tail(d))
           /\ HasCommand(Tail(d)) => HasCommand(d)
           /\ IsCommand(Head(d)) => HasCommand(d) /\ ~ HasCommand(Tail(d))
<1> USE TailFacts DEF HasCommand, OneCommand
<1>1. OneCommand(Tail(d))
    <2> SUFFICES ASSUME NEW i \in 1 .. Len(Tail(d)), NEW j \in 1 .. Len(Tail(d)),
                        IsCommand(Tail(d)[i]), IsCommand(Tail(d)[j])
                 PROVE  i = j
        OBVIOUS
    <2>1. i + 1 = j + 1
        OBVIOUS
    <2> QED BY <2>1
<1>2. HasCommand(Tail(d)) => HasCommand(d)
    OBVIOUS
<1>3. ASSUME IsCommand(Head(d)) PROVE HasCommand(d) /\ ~ HasCommand(Tail(d))
    <2>1. 1 \in 1 .. Len(d) /\ d[1] = Head(d)
        OBVIOUS
    <2>2. ASSUME NEW i \in 1 .. Len(Tail(d)), IsCommand(Tail(d)[i]) PROVE FALSE
        <3>1. i + 1 = 1
            BY <1>3, <2>1, <2>2
        <3> QED BY <3>1
    <2> QED BY <1>3, <2>1, <2>2
<1> QED BY <1>1, <1>2, <1>3

LEMMA TailOfGrants ==
    ASSUME NEW S, NEW u \in Seq(S), u # <<>>, OneGrant(u)
    PROVE  /\ OneGrant(Tail(u))
           /\ HasGrant(Tail(u)) => HasGrant(u)
           /\ IsGrant(Head(u)) => HasGrant(u) /\ ~ HasGrant(Tail(u))
<1> USE TailFacts DEF HasGrant, OneGrant
<1>1. OneGrant(Tail(u))
    <2> SUFFICES ASSUME NEW i \in 1 .. Len(Tail(u)), NEW j \in 1 .. Len(Tail(u)),
                        IsGrant(Tail(u)[i]), IsGrant(Tail(u)[j])
                 PROVE  i = j
        OBVIOUS
    <2>1. i + 1 = j + 1
        OBVIOUS
    <2> QED BY <2>1
<1>2. HasGrant(Tail(u)) => HasGrant(u)
    OBVIOUS
<1>3. ASSUME IsGrant(Head(u)) PROVE HasGrant(u) /\ ~ HasGrant(Tail(u))
    <2>1. 1 \in 1 .. Len(u) /\ u[1] = Head(u)
        OBVIOUS
    <2>2. ASSUME NEW i \in 1 .. Len(Tail(u)), IsGrant(Tail(u)[i]) PROVE FALSE
        <3>1. i + 1 = 1
            BY <1>3, <2>1, <2>2
        <3> QED BY <3>1
    <2> QED BY <1>3, <2>1, <2>2
<1> QED BY <1>1, <1>2, <1>3

LEMMA AppendToDown ==
    ASSUME NEW S, NEW d \in Seq(S), NEW p \in S, OneCommand(d)
    PROVE  /\ ~ IsCommand(p) => OneCommand(Append(d, p)) /\ (HasCommand(Append(d, p)) => HasCommand(d))
           /\ ~ HasCommand(d) => OneCommand(Append(d, p))
<1>1. /\ Len(d) \in Nat /\ Len(Append(d, p)) = Len(d) + 1 /\ Append(d, p)[Len(d) + 1] = p
      /\ \A i \in 1 .. Len(d) + 1 : i # Len(d) + 1 => i \in 1 .. Len(d) /\ Append(d, p)[i] = d[i]
    BY AppendFacts
<1> QED
    BY <1>1 DEF OneCommand, HasCommand

LEMMA AppendToUp ==
    ASSUME NEW S, NEW u \in Seq(S), NEW p \in S, OneGrant(u)
    PROVE  /\ ~ IsGrant(p) => OneGrant(Append(u, p)) /\ (HasGrant(Append(u, p)) => HasGrant(u))
           /\ ~ HasGrant(u) => OneGrant(Append(u, p))
<1>1. /\ Len(u) \in Nat /\ Len(Append(u, p)) = Len(u) + 1 /\ Append(u, p)[Len(u) + 1] = p
      /\ \A i \in 1 .. Len(u) + 1 : i # Len(u) + 1 => i \in 1 .. Len(u) /\ Append(u, p)[i] = u[i]
    BY AppendFacts
<1> QED
    BY <1>1 DEF OneGrant, HasGrant
----------------------------------------------------------------------------
(* The programs are lists of steps and send known commands only; both end  *)
(* with the command for the connection, its status, and the connection.    *)

SendSteps == [do : {"send"}, code : {"none"}, opcode : Opcodes]
WaitSteps == [do : {"await", "find"}, code : EventCodes, opcode : Opcodes \cup {NoOpcode, "any"}]
Steps == SendSteps \cup WaitSteps
EarlySteps == {s \in Steps : s.do = "send" => s.opcode \notin Deferred}

\* The command for the connection, and that a host has sent it.
Asking(h) == IF h = Alice THEN "create_connection" ELSE "accept_connection_request"
Asked(h) == step[h] > Len(Program[h]) - 2

LastSteps(o) == <<Send(o), StatusOf(o), Await("connection_complete", NoOpcode)>>

LEMMA StepsOf ==
    ASSUME NEW o \in Opcodes
    PROVE  /\ Send(o) \in Steps /\ StatusOf(o) \in EarlySteps
           /\ o \notin Deferred => Send(o) \in EarlySteps /\ Ask(o) \in Seq(EarlySteps)
           /\ Find(o) \in EarlySteps
<1>1. Send(o) \in Steps
    BY DEF Send, Steps, SendSteps
<1>2. /\ Find(o) \in EarlySteps /\ StatusOf(o) \in EarlySteps
      /\ Await("command_complete", o) \in EarlySteps
    BY DEF Find, StatusOf, Await, EarlySteps, Steps, WaitSteps, EventCodes
<1>3. ASSUME o \notin Deferred PROVE Send(o) \in EarlySteps /\ Ask(o) \in Seq(EarlySteps)
    <2>1. Send(o) \in EarlySteps
        BY <1>1, <1>3 DEF Send, EarlySteps
    <2> QED BY <1>2, <2>1 DEF Ask
<1> QED BY <1>1, <1>2, <1>3

LEMMA EarlyOpcodes ==
    \A o \in {"reset", "load_firmware", "write_ram", "launch_ram", "read_bd_addr",
              "write_local_name", "read_local_name", "read_buffer_size",
              "write_scan_enable"} : o \in Opcodes /\ o \notin Deferred
    BY OpcodeAssumption DEF Deferred

LEMMA FirmwareSteps ==
    /\ [i \in 1 .. Len(Firmware) |-> Send(Firmware[i])] \in Seq(EarlySteps)
    /\ Purge(Firmware) \in Seq(EarlySteps)
<1> DEFINE sends == [i \in 1 .. Len(Firmware) |-> Send(Firmware[i])]
<1>1. NChunks \in Nat
    BY PeerAssumption
<1>2. Firmware \in [1 .. NChunks -> {"write_ram", "launch_ram"}]
    BY DEF Firmware
<1>3. Len(Firmware) = NChunks
    BY <1>1, <1>2
<1>4. sends \in [1 .. NChunks -> EarlySteps]
    BY <1>2, <1>3, StepsOf, EarlyOpcodes
<1>5. Await("command_complete", "any") \in EarlySteps
    BY DEF Await, EarlySteps, Steps, WaitSteps, EventCodes
<1>6. Purge(Firmware) \in [1 .. NChunks -> EarlySteps]
    BY <1>3, <1>5 DEF Purge
<1>7. sends \in Seq(EarlySteps) /\ Purge(Firmware) \in Seq(EarlySteps)
    BY <1>1, <1>4, <1>6
<1> QED BY <1>7

LEMMA UploadSteps == Upload \in Seq(EarlySteps)
<1> DEFINE first == <<Send("reset"), Send("load_firmware"), Find("load_firmware")>>
           sends == [i \in 1 .. Len(Firmware) |-> Send(Firmware[i])]
<1>1. first \in Seq(EarlySteps)
    BY StepsOf, EarlyOpcodes
<1>2. sends \in Seq(EarlySteps) /\ Purge(Firmware) \in Seq(EarlySteps)
    BY FirmwareSteps
<1>3. Upload = first \o sends \o Purge(Firmware)
    BY DEF Upload
<1> HIDE DEF first, sends
<1> QED BY <1>1, <1>2, <1>3, ConcatProperties

LEMMA GreetingSteps == Greeting \in Seq(EarlySteps)
<1>1. /\ Ask("read_bd_addr") \in Seq(EarlySteps) /\ Ask("write_local_name") \in Seq(EarlySteps)
      /\ Ask("read_local_name") \in Seq(EarlySteps) /\ Ask("read_buffer_size") \in Seq(EarlySteps)
    BY StepsOf, EarlyOpcodes
<1>2. Upload \o Ask("read_bd_addr") \in Seq(EarlySteps)
    BY <1>1, UploadSteps, ConcatProperties
<1>3. Upload \o Ask("read_bd_addr") \o Ask("write_local_name") \in Seq(EarlySteps)
    BY <1>1, <1>2, ConcatProperties
<1>4. Upload \o Ask("read_bd_addr") \o Ask("write_local_name") \o Ask("read_local_name")
        \in Seq(EarlySteps)
    BY <1>1, <1>3, ConcatProperties
<1> QED BY <1>1, <1>4, ConcatProperties DEF Greeting

LEMMA LastStepsOf ==
    ASSUME NEW o \in Opcodes
    PROVE  /\ LastSteps(o) \in Seq(Steps) /\ Len(LastSteps(o)) = 3
           /\ LastSteps(o)[1] = Send(o) /\ LastSteps(o)[2] = StatusOf(o)
           /\ LastSteps(o)[3] = Await("connection_complete", NoOpcode)
<1>1. Await("connection_complete", NoOpcode) \in Steps
    BY DEF Await, Steps, WaitSteps, EventCodes
<1>2. Send(o) \in Steps /\ StatusOf(o) \in Steps
    BY StepsOf DEF EarlySteps
<1> QED BY <1>1, <1>2 DEF LastSteps

LEMMA ThreeAtTheEnd ==
    ASSUME NEW S, NEW s \in Seq(S), NEW t \in Seq(S), Len(t) = 3
    PROVE  LET l == Len(s \o t) IN
           /\ s \o t \in Seq(S) /\ l = Len(s) + 3 /\ l \in Nat /\ l >= 3
           /\ (s \o t)[l - 2] = t[1] /\ (s \o t)[l - 1] = t[2] /\ (s \o t)[l] = t[3]
           /\ \A i \in 1 .. l - 3 : i \in 1 .. Len(s) /\ (s \o t)[i] = s[i]
<1>1. /\ s \o t \in Seq(S) /\ Len(s \o t) = Len(s) + 3 /\ Len(s) \in Nat
      /\ \A i \in 1 .. Len(s) + 3 :
            (s \o t)[i] = IF i <= Len(s) THEN s[i] ELSE t[i - Len(s)]
    <2>1. /\ s \o t \in Seq(S) /\ Len(s \o t) = Len(s) + Len(t)
          /\ \A i \in 1 .. Len(s) + Len(t) :
                (s \o t)[i] = IF i <= Len(s) THEN s[i] ELSE t[i - Len(s)]
        BY ConcatProperties, Zenon
    <2>2. Len(s) \in Nat
        BY LenProperties
    <2> QED BY <2>1, <2>2, Zenon
<1> DEFINE u == s \o t
           n == Len(s)
<1>2. /\ n \in Nat /\ Len(u) = n + 3
      /\ \A i \in 1 .. n + 3 : u[i] = IF i <= n THEN s[i] ELSE t[i - n]
    BY <1>1
<1> HIDE DEF u, n
<1>3. u[n + 1] = t[1] /\ u[n + 2] = t[2] /\ u[n + 3] = t[3]
    BY <1>2
<1>4. \A i \in 1 .. n : u[i] = s[i]
    BY <1>2
<1>5. /\ Len(u) \in Nat /\ Len(u) >= 3 /\ Len(u) - 2 = n + 1 /\ Len(u) - 1 = n + 2
      /\ 1 .. Len(u) - 3 = 1 .. n
    BY <1>2
<1> QED BY <1>1, <1>2, <1>3, <1>4, <1>5 DEF u, n

LEMMA ProgramShape ==
    ASSUME NEW h \in Hosts
    PROVE  \E s \in Seq(EarlySteps) : Program[h] = s \o LastSteps(Asking(h))
<1>1. CASE h = Alice
    <2>1. Program[h] = Greeting \o LastSteps(Asking(h))
        BY <1>1 DEF Program, ConnectSteps, LastSteps, Asking
    <2> QED BY <2>1, GreetingSteps
<1>2. CASE h # Alice
    <2> DEFINE scan == Ask("write_scan_enable")
               request == <<Await("connection_request", NoOpcode)>>
               last == LastSteps("accept_connection_request")
    <2>1. AcceptSteps = scan \o <<Await("connection_request", NoOpcode),
               Send("accept_connection_request"), StatusOf("accept_connection_request"),
               Await("connection_complete", NoOpcode)>>
        BY DEF AcceptSteps
    <2>2. AcceptSteps = scan \o (request \o last)
        BY <2>1 DEF LastSteps
    <2>3. Await("connection_request", NoOpcode) \in EarlySteps
        BY DEF Await, EarlySteps, Steps, WaitSteps, EventCodes
    <2>4. scan \in Seq(EarlySteps) /\ request \in Seq(EarlySteps)
        BY <2>3, StepsOf, EarlyOpcodes
    <2>5. last \in Seq(Steps)
        BY LastStepsOf, OpcodeAssumption
    <2>6. EarlySteps \subseteq Steps
        BY DEF EarlySteps
    <2>7. scan \in Seq(Steps) /\ request \in Seq(Steps) /\ Greeting \in Seq(Steps)
        BY <2>4, <2>6, GreetingSteps, SeqMonotonic
    <2>8. Program[h] = Greeting \o (scan \o (request \o last))
        BY <1>2, <2>2 DEF Program
    <2> HIDE DEF scan, request, last
    <2>9. Program[h] = (Greeting \o scan \o request) \o last
        BY <2>5, <2>7, <2>8, ConcatAssociative, ConcatProperties
    <2>10. Greeting \o scan \o request \in Seq(EarlySteps)
        BY <2>4, GreetingSteps, ConcatProperties
    <2> QED BY <1>2, <2>9, <2>10 DEF last, Asking
<1> QED BY <1>1, <1>2

(* What both programs end with, and only with.                             *)
LEMMA ProgramEnds ==
    ASSUME NEW h \in Hosts
    PROVE  LET l == Len(Program[h]) IN
           /\ l \in Nat /\ l >= 3
           /\ Program[h] \in Seq(Steps)
           /\ Program[h][l - 2] = Send(Asking(h))
           /\ Program[h][l - 1] = StatusOf(Asking(h))
           /\ Program[h][l] = Await("connection_complete", NoOpcode)
           /\ \A i \in 1 .. l - 3 : Program[h][i] \in EarlySteps
<1>1. PICK s \in Seq(EarlySteps) : Program[h] = s \o LastSteps(Asking(h))
    BY ProgramShape
<1> DEFINE t == LastSteps(Asking(h))
<1>2. Asking(h) \in Opcodes
    BY OpcodeAssumption DEF Asking
<1>3. /\ t \in Seq(Steps) /\ Len(t) = 3
      /\ t[1] = Send(Asking(h)) /\ t[2] = StatusOf(Asking(h))
      /\ t[3] = Await("connection_complete", NoOpcode)
    BY <1>2, LastStepsOf
<1>4. s \in Seq(Steps)
    <2>1. EarlySteps \subseteq Steps
        BY DEF EarlySteps
    <2> QED BY <2>1, SeqMonotonic
<1>5. \A i \in 1 .. Len(s) : s[i] \in EarlySteps
    BY ElementOfSeq
<1>6. Program[h] = s \o t
    BY <1>1
<1> HIDE DEF t
<1> QED BY <1>3, <1>4, <1>5, <1>6, ThreeAtTheEnd

LEMMA ProgramSteps ==
    ASSUME NEW h \in Hosts
    PROVE  Program[h] \in Seq(Steps) /\ Len(Program[h]) \in Nat /\ Len(Program[h]) >= 1
    BY ProgramEnds

----------------------------------------------------------------------------
(* The token's way round. *)

LEMMA TokenTakenUp ==
    ASSUME NEW S, NEW c, NEW d, NEW n, NEW u \in Seq(S), u # <<>>, OneToken(c, d, n, u)
    PROVE  /\ OneToken(c, d, n, Tail(u))
           /\ IsGrant(Head(u)) => \A e : OneToken(e, d, n, Tail(u))
<1>1. OneGrant(u)
    BY DEF OneToken
<1>2. /\ OneGrant(Tail(u)) /\ (HasGrant(Tail(u)) => HasGrant(u))
      /\ IsGrant(Head(u)) => HasGrant(u) /\ ~ HasGrant(Tail(u))
    BY <1>1, TailOfGrants
<1> QED BY <1>2 DEF OneToken

LEMMA DataTakenDown ==
    ASSUME NEW S, NEW c, NEW d \in Seq(S), NEW n, NEW u, d # <<>>, OneToken(c, d, n, u)
    PROVE  OneToken(c, Tail(d), n, u)
<1>1. OneCommand(d)
    BY DEF OneToken
<1>2. OneCommand(Tail(d)) /\ (HasCommand(Tail(d)) => HasCommand(d))
    BY <1>1, TailOfCommands
<1> QED BY <1>2 DEF OneToken

LEMMA CommandTakenIn ==
    ASSUME NEW S, NEW T, NEW c, NEW d \in Seq(S), NEW n \in Seq(T), NEW o \in T, NEW u,
           d # <<>>, IsCommand(Head(d)), OneToken(c, d, n, u)
    PROVE  OneToken(c, Tail(d), Append(n, o), u)
<1>1. OneCommand(d)
    BY DEF OneToken
<1>2. OneCommand(Tail(d)) /\ HasCommand(d) /\ ~ HasCommand(Tail(d))
    BY <1>1, TailOfCommands
<1>3. n = <<>> /\ ~ HasGrant(u) /\ c = 0
    BY <1>2 DEF OneToken
<1>4. Len(Append(n, o)) = Len(n) + 1 /\ Len(n) = 0
    BY <1>3, AppendFacts, EmptySeq
<1>5. Len(Append(n, o)) <= 1
    BY <1>4
<1> QED BY <1>2, <1>3, <1>5 DEF OneToken

LEMMA TailOfOne ==
    ASSUME NEW T, NEW n \in Seq(T), n # <<>>, Len(n) <= 1
    PROVE  Tail(n) = <<>> /\ Len(Tail(n)) = 0
<1>1. Tail(n) \in Seq(T) /\ Len(Tail(n)) = Len(n) - 1 /\ Len(n) \in Nat /\ Len(n) > 0
    BY TailFacts
<1>2. Len(Tail(n)) = 0
    BY <1>1
<1> QED BY <1>1, <1>2, EmptySeq

LEMMA CommandAnswered ==
    ASSUME NEW S, NEW T, NEW c, NEW d, NEW n \in Seq(T), NEW u \in Seq(S), NEW p \in S,
           n # <<>>, OneToken(c, d, n, u)
    PROVE  OneToken(c, d, Tail(n), Append(u, p))
<1>1. ~ HasCommand(d) /\ ~ HasGrant(u) /\ c = 0 /\ Len(n) <= 1 /\ OneGrant(u) /\ OneCommand(d)
    BY DEF OneToken
<1>2. Tail(n) = <<>> /\ Len(Tail(n)) = 0
    BY <1>1, TailOfOne
<1>3. OneGrant(Append(u, p))
    BY <1>1, AppendToUp
<1> QED BY <1>1, <1>2, <1>3 DEF OneToken

LEMMA CommandSent ==
    ASSUME NEW S, NEW c \in 0 .. 1, NEW d \in Seq(S), NEW n, NEW u, NEW p \in S,
           c > 0, OneToken(c, d, n, u)
    PROVE  OneToken(c - 1, Append(d, p), n, u)
<1>1. c - 1 = 0 /\ c # 0
    OBVIOUS
<1>2. ~ HasCommand(d) /\ n = <<>> /\ ~ HasGrant(u) /\ OneCommand(d) /\ OneGrant(u) /\ Len(n) <= 1
    BY <1>1 DEF OneToken
<1>3. OneCommand(Append(d, p))
    BY <1>2, AppendToDown
<1> QED BY <1>1, <1>2, <1>3 DEF OneToken

LEMMA DataSent ==
    ASSUME NEW S, NEW c, NEW d \in Seq(S), NEW n, NEW u, NEW p \in S,
           ~ IsCommand(p), OneToken(c, d, n, u)
    PROVE  OneToken(c, Append(d, p), n, u)
<1>1. OneCommand(d)
    BY DEF OneToken
<1>2. OneCommand(Append(d, p)) /\ (HasCommand(Append(d, p)) => HasCommand(d))
    BY <1>1, AppendToDown
<1> QED BY <1>2 DEF OneToken

LEMMA NoGrantSentUp ==
    ASSUME NEW S, NEW c, NEW d, NEW n, NEW u \in Seq(S), NEW p \in S,
           ~ IsGrant(p), OneToken(c, d, n, u)
    PROVE  OneToken(c, d, n, Append(u, p))
<1>1. OneGrant(u)
    BY DEF OneToken
<1>2. OneGrant(Append(u, p)) /\ (HasGrant(Append(u, p)) => HasGrant(u))
    BY <1>1, AppendToUp
<1> QED BY <1>2 DEF OneToken

----------------------------------------------------------------------------
(* The host and its controller. *)

Bytes == 1 .. NTyped
AclPackets == [type : {"acl"}, data : Seq(Bytes)]

HciTypes ==
    /\ n_commands_can_send \in [Hosts -> 0 .. 1]
    /\ event_rx_buffer \in [Hosts -> Seq(Events)]
    /\ acl_rx_buffer \in [Hosts -> Seq(AclPackets)]
    /\ up   \in [Hosts -> Seq(Events \cup AclPackets)]
    /\ down \in [Hosts -> Seq(Commands \cup AclPackets)]
    /\ inbox \in [Hosts -> Seq(Opcodes)]

Tokens == \A h \in Hosts : OneToken(n_commands_can_send[h], down[h], inbox[h], up[h])

HciInv == HciTypes /\ Tokens

LEMMA PacketFacts ==
    /\ \A p \in Events \cup AclPackets :
           /\ p.type = "event" => p \in Events
           /\ p.type = "acl" => p \in AclPackets /\ ~ IsGrant(p)
    /\ \A p \in Commands \cup AclPackets :
           /\ p.type = "command" => p \in Commands /\ p.opcode \in Opcodes
           /\ p.type = "acl" => p \in AclPackets /\ ~ IsCommand(p)
    BY DEF Events, AclPackets, Commands, IsGrant, IsCommand

(* _receive_packet keeps the invariant: if it changes the credits, the     *)
(* packet was the token.                                                   *)
LEMMA ReceiveInv ==
    ASSUME CommandSlots = 1, HciInv, NEW h \in Hosts, Receive(h)
    PROVE  HciInv'
<1> DEFINE p == Head(up[h])
<1>1. /\ up[h] \in Seq(Events \cup AclPackets) /\ up[h] # <<>>
      /\ n_commands_can_send[h] \in 0 .. 1
      /\ event_rx_buffer[h] \in Seq(Events) /\ acl_rx_buffer[h] \in Seq(AclPackets)
    BY DEF HciInv, HciTypes, Receive
<1>2. p \in Events \cup AclPackets /\ Tail(up[h]) \in Seq(Events \cup AclPackets)
    BY <1>1, TailFacts
<1>3. up' = [up EXCEPT ![h] = Tail(up[h])] /\ UNCHANGED <<down, inbox>>
    BY DEF Receive
<1>4. up' \in [Hosts -> Seq(Events \cup AclPackets)]
    BY <1>2, <1>3 DEF HciInv, HciTypes
<1>5. /\ OneToken(n_commands_can_send[h], down[h], inbox[h], Tail(up[h]))
      /\ IsGrant(p) => \A e : OneToken(e, down[h], inbox[h], Tail(up[h]))
    BY <1>1, TokenTakenUp DEF HciInv, Tokens
<1>6. CASE p.type = "event" /\ n_commands_can_send' = [n_commands_can_send EXCEPT ![h] = CreditsAfter(h, p)]
           /\ event_rx_buffer' = [event_rx_buffer EXCEPT ![h] = Append(event_rx_buffer[h], p)]
           /\ UNCHANGED acl_rx_buffer
    <2>1. p \in Events
        BY <1>2, <1>6, PacketFacts
    <2>2. CreditsAfter(h, p) \in 0 .. 1
        BY <1>1, <2>1 DEF CreditsAfter, Events
    <2>3. Append(event_rx_buffer[h], p) \in Seq(Events)
        BY <1>1, <2>1, AppendFacts
    <2>4. HciTypes'
        BY <1>3, <1>4, <1>6, <2>2, <2>3 DEF HciInv, HciTypes
    <2>5. OneToken(CreditsAfter(h, p), down[h], inbox[h], Tail(up[h]))
        BY <1>5, <1>6 DEF CreditsAfter, IsGrant
    <2>6. ASSUME NEW g \in Hosts
          PROVE  OneToken(n_commands_can_send'[g], down'[g], inbox'[g], up'[g])
        BY <1>3, <1>6, <2>5 DEF HciInv, HciTypes, Tokens
    <2> QED BY <2>4, <2>6 DEF HciInv, Tokens
<1>7. CASE p.type = "acl" /\ acl_rx_buffer' = [acl_rx_buffer EXCEPT ![h] = Append(acl_rx_buffer[h], p)]
           /\ UNCHANGED <<n_commands_can_send, event_rx_buffer>>
    <2>1. p \in AclPackets
        BY <1>2, <1>7, PacketFacts
    <2>2. Append(acl_rx_buffer[h], p) \in Seq(AclPackets)
        BY <1>1, <2>1, AppendFacts
    <2>3. HciTypes'
        BY <1>3, <1>4, <1>7, <2>2 DEF HciInv, HciTypes
    <2>4. ASSUME NEW g \in Hosts
          PROVE  OneToken(n_commands_can_send'[g], down'[g], inbox'[g], up'[g])
        BY <1>3, <1>5, <1>7 DEF HciInv, HciTypes, Tokens
    <2> QED BY <2>3, <2>4 DEF HciInv, Tokens
<1> QED BY <1>6, <1>7 DEF Receive

LEMMA HandOverInv ==
    ASSUME CommandSlots = 1, HciInv, NEW h \in Hosts, NEW type \in {"event", "acl"},
           HandOver(h, type)
    PROVE  HciInv'
<1> DEFINE p == Head(up[h])
           c == IF type = "event" THEN CreditsAfter(h, p) ELSE n_commands_can_send[h]
<1>1. /\ up[h] \in Seq(Events \cup AclPackets) /\ up[h] # <<>>
      /\ n_commands_can_send[h] \in 0 .. 1 /\ p.type = type
    BY DEF HciInv, HciTypes, HandOver
<1>2. p \in Events \cup AclPackets /\ Tail(up[h]) \in Seq(Events \cup AclPackets)
    BY <1>1, TailFacts
<1>3. c \in 0 .. 1
    <2>1. CASE type = "event"
        <3>1. p \in Events
            BY <1>1, <1>2, <2>1, PacketFacts
        <3> QED BY <1>1, <2>1, <3>1 DEF CreditsAfter, Events
    <2>2. CASE type # "event"
        BY <1>1, <2>2
    <2> QED BY <2>1, <2>2
<1>4. /\ up' = [up EXCEPT ![h] = Tail(up[h])]
      /\ n_commands_can_send' = [n_commands_can_send EXCEPT ![h] = c]
      /\ UNCHANGED <<event_rx_buffer, acl_rx_buffer, down, inbox>>
    BY DEF HandOver, HciInv, HciTypes
<1>5. HciTypes'
    <2> HIDE DEF c
    <2> QED BY <1>2, <1>3, <1>4 DEF HciInv, HciTypes
<1>6. /\ OneToken(n_commands_can_send[h], down[h], inbox[h], Tail(up[h]))
      /\ IsGrant(p) => \A e : OneToken(e, down[h], inbox[h], Tail(up[h]))
    BY <1>1, TokenTakenUp DEF HciInv, Tokens
<1>7. OneToken(c, down[h], inbox[h], Tail(up[h]))
    BY <1>1, <1>6 DEF CreditsAfter, IsGrant
<1>8. ASSUME NEW g \in Hosts
      PROVE  OneToken(n_commands_can_send'[g], down'[g], inbox'[g], up'[g])
    <2> HIDE DEF c
    <2> QED BY <1>4, <1>7 DEF HciInv, HciTypes, Tokens
<1> QED BY <1>5, <1>8 DEF HciInv, Tokens

LEMMA PopInv ==
    ASSUME HciInv, NEW h \in Hosts, PopEvent(h) \/ PopAcl(h)
    PROVE  HciInv'
<1>1. UNCHANGED <<n_commands_can_send, down, inbox, up>>
    BY DEF PopEvent, PopAcl
<1>2. CASE PopEvent(h)
    <2>1. Tail(event_rx_buffer[h]) \in Seq(Events)
        BY <1>2, TailFacts DEF PopEvent, HciInv, HciTypes
    <2> QED BY <1>1, <1>2, <2>1 DEF PopEvent, HciInv, HciTypes, Tokens
<1>3. CASE PopAcl(h)
    <2>1. Tail(acl_rx_buffer[h]) \in Seq(AclPackets)
        BY <1>3, TailFacts DEF PopAcl, HciInv, HciTypes
    <2> QED BY <1>1, <1>3, <2>1 DEF PopAcl, HciInv, HciTypes, Tokens
<1> QED BY <1>2, <1>3

(* A command is sent for a credit, data for nothing. *)
LEMMA SendCommandInv ==
    ASSUME HciInv, NEW h \in Hosts, NEW o \in Opcodes, SendCommand(h, o)
    PROVE  HciInv'
<1> DEFINE p == Command(o)
           S == Commands \cup AclPackets
<1>1. p \in S
    BY DEF Command, Commands
<1>2. down[h] \in Seq(S) /\ n_commands_can_send[h] \in 0 .. 1 /\ n_commands_can_send[h] > 0
    BY DEF HciInv, HciTypes, SendCommand
<1>3. /\ n_commands_can_send' = [n_commands_can_send EXCEPT ![h] = n_commands_can_send[h] - 1]
      /\ down' = [down EXCEPT ![h] = Append(down[h], p)]
      /\ UNCHANGED <<event_rx_buffer, acl_rx_buffer, up, inbox>>
    BY DEF SendCommand
<1>4. OneToken(n_commands_can_send[h] - 1, Append(down[h], p), inbox[h], up[h])
    <2>1. OneToken(n_commands_can_send[h], down[h], inbox[h], up[h])
        BY DEF HciInv, Tokens
    <2> HIDE DEF p, S
    <2> QED BY <1>1, <1>2, <2>1, CommandSent
<1>5. Append(down[h], p) \in Seq(S)
    <2> HIDE DEF p, S
    <2> QED BY <1>1, <1>2, AppendFacts
<1>6. HciTypes'
    BY <1>2, <1>3, <1>5 DEF HciInv, HciTypes
<1>7. ASSUME NEW g \in Hosts
      PROVE  OneToken(n_commands_can_send'[g], down'[g], inbox'[g], up'[g])
    BY <1>3, <1>4 DEF HciInv, HciTypes, Tokens
<1> QED BY <1>6, <1>7 DEF HciInv, Tokens

LEMMA SendAclInv ==
    ASSUME HciInv, NEW h \in Hosts, NEW data \in Seq(Bytes), SendAcl(h, data)
    PROVE  HciInv'
<1> DEFINE p == AclData(data)
           S == Commands \cup AclPackets
<1>1. p \in S /\ ~ IsCommand(p)
    BY DEF AclData, AclPackets, IsCommand
<1>2. down[h] \in Seq(S)
    BY DEF HciInv, HciTypes
<1>3. /\ down' = [down EXCEPT ![h] = Append(down[h], p)]
      /\ UNCHANGED <<n_commands_can_send, event_rx_buffer, acl_rx_buffer, up, inbox>>
    BY DEF SendAcl
<1>4. OneToken(n_commands_can_send[h], Append(down[h], p), inbox[h], up[h])
    <2>1. OneToken(n_commands_can_send[h], down[h], inbox[h], up[h])
        BY DEF HciInv, Tokens
    <2> HIDE DEF p, S
    <2> QED BY <1>1, <1>2, <2>1, DataSent
<1>5. Append(down[h], p) \in Seq(S)
    <2> HIDE DEF p, S
    <2> QED BY <1>1, <1>2, AppendFacts
<1>6. HciTypes'
    BY <1>3, <1>5 DEF HciInv, HciTypes
<1>7. ASSUME NEW g \in Hosts
      PROVE  OneToken(n_commands_can_send'[g], down'[g], inbox'[g], up'[g])
    BY <1>3, <1>4 DEF HciInv, HciTypes, Tokens
<1> QED BY <1>6, <1>7 DEF HciInv, Tokens

(* The controller takes the command in and answers it. *)
LEMMA IntakeInv ==
    ASSUME HciInv, NEW h \in Hosts, Intake(h)
    PROVE  HciInv'
<1> DEFINE p == Head(down[h])
           S == Commands \cup AclPackets
<1>1. down[h] \in Seq(S) /\ down[h] # <<>> /\ p.type = "command" /\ inbox[h] \in Seq(Opcodes)
    BY DEF HciInv, HciTypes, Intake
<1>2. p \in S /\ Tail(down[h]) \in Seq(S)
    <2> HIDE DEF S
    <2> QED BY <1>1, TailFacts
<1>3. p.opcode \in Opcodes /\ IsCommand(p)
    BY <1>1, <1>2, PacketFacts DEF IsCommand
<1>4. /\ down' = [down EXCEPT ![h] = Tail(down[h])]
      /\ inbox' = [inbox EXCEPT ![h] = Append(inbox[h], p.opcode)]
      /\ UNCHANGED <<n_commands_can_send, event_rx_buffer, acl_rx_buffer, up>>
    BY DEF Intake
<1>5. OneToken(n_commands_can_send[h], Tail(down[h]), Append(inbox[h], p.opcode), up[h])
    <2>1. OneToken(n_commands_can_send[h], down[h], inbox[h], up[h])
        BY DEF HciInv, Tokens
    <2> HIDE DEF S
    <2> QED BY <1>1, <1>3, <2>1, CommandTakenIn
<1>6. Append(inbox[h], p.opcode) \in Seq(Opcodes)
    BY <1>1, <1>3, AppendFacts
<1>7. HciTypes'
    BY <1>2, <1>4, <1>6 DEF HciInv, HciTypes
<1>8. ASSUME NEW g \in Hosts
      PROVE  OneToken(n_commands_can_send'[g], down'[g], inbox'[g], up'[g])
    BY <1>4, <1>5 DEF HciInv, HciTypes, Tokens
<1> QED BY <1>7, <1>8 DEF HciInv, Tokens

LEMMA AnswerInv ==
    ASSUME CommandSlots = 1, HciInv, NEW h \in Hosts,
           NEW code \in {"command_complete", "command_status"}, Answer(h, code)
    PROVE  HciInv'
<1> DEFINE p == Event(code, Head(inbox[h]), TRUE, CommandSlots - Len(Tail(inbox[h])))
           S == Events \cup AclPackets
<1>1. up[h] \in Seq(S) /\ inbox[h] \in Seq(Opcodes) /\ inbox[h] # <<>>
    BY DEF HciInv, HciTypes, Answer
<1>2. Head(inbox[h]) \in Opcodes /\ Tail(inbox[h]) \in Seq(Opcodes)
    BY <1>1, TailFacts
<1>3. OneToken(n_commands_can_send[h], down[h], inbox[h], up[h])
    BY DEF HciInv, Tokens
<1>4. Len(Tail(inbox[h])) = 0
    <2>1. Len(inbox[h]) <= 1
        BY <1>3 DEF OneToken
    <2> QED BY <1>1, <2>1, TailOfOne
<1>5. CommandSlots - Len(Tail(inbox[h])) = 1
    BY <1>4
<1>6. p \in S
    <2>1. p = Event(code, Head(inbox[h]), TRUE, 1)
        BY <1>5
    <2>2. Event(code, Head(inbox[h]), TRUE, 1) \in Events
        BY <1>2 DEF Event, Events, EventCodes
    <2> QED BY <2>1, <2>2
<1>7. /\ inbox' = [inbox EXCEPT ![h] = Tail(inbox[h])]
      /\ up' = [up EXCEPT ![h] = Append(up[h], p)]
      /\ UNCHANGED <<n_commands_can_send, event_rx_buffer, acl_rx_buffer, down>>
    BY DEF Answer
<1>8. OneToken(n_commands_can_send[h], down[h], Tail(inbox[h]), Append(up[h], p))
    <2> DEFINE n == inbox[h]
               u == up[h]
    <2>1. n \in Seq(Opcodes) /\ n # <<>> /\ u \in Seq(S) /\ p \in S
        BY <1>1, <1>6
    <2>2. OneToken(n_commands_can_send[h], down[h], n, u)
        BY <1>3
    <2> HIDE DEF p, S, n, u
    <2>3. OneToken(n_commands_can_send[h], down[h], Tail(n), Append(u, p))
        BY <2>1, <2>2, CommandAnswered
    <2> QED BY <2>3 DEF n, u
<1>9. Append(up[h], p) \in Seq(S)
    <2> HIDE DEF p, S
    <2> QED BY <1>1, <1>6, AppendFacts
<1>10. HciTypes'
    <2> HIDE DEF p
    <2> QED BY <1>2, <1>7, <1>9 DEF HciInv, HciTypes
<1>11. ASSUME NEW g \in Hosts
       PROVE  OneToken(n_commands_can_send'[g], down'[g], inbox'[g], up'[g])
    <2> HIDE DEF p
    <2> QED BY <1>7, <1>8 DEF HciInv, HciTypes, Tokens
<1> QED BY <1>10, <1>11 DEF HciInv, Tokens

----------------------------------------------------------------------------
(* The air: events that carry no credits, and data. *)

LEMMA NotifyInv ==
    ASSUME CommandSlots = 1, HciInv, NEW to,
           NEW code \in {"connection_request", "connection_complete", "disconnection_complete"},
           NEW ok \in BOOLEAN, Notify(to, code, ok),
           UNCHANGED <<n_commands_can_send, event_rx_buffer, acl_rx_buffer, down, inbox>>
    PROVE  HciInv'
<1> DEFINE p == Event(code, NoOpcode, ok, 0)
           S == Events \cup AclPackets
<1>1. p \in S
    <2>1. p \in Events
        BY DEF Event, Events, EventCodes
    <2> QED BY <2>1
<1>2. ~ IsGrant(p)
    BY DEF Event, IsGrant, CarriesCredits
<1>3. ASSUME NEW g \in Hosts
      PROVE  /\ up'[g] \in Seq(S)
             /\ OneToken(n_commands_can_send[g], down[g], inbox[g], up'[g])
    <2>1. up[g] \in Seq(S) /\ OneToken(n_commands_can_send[g], down[g], inbox[g], up[g])
        BY DEF HciInv, HciTypes, Tokens
    <2>2. up'[g] = Append(up[g], p) \/ up'[g] = up[g]
        BY DEF Notify
    <2> HIDE DEF p, S
    <2>3. /\ Append(up[g], p) \in Seq(S)
          /\ OneToken(n_commands_can_send[g], down[g], inbox[g], Append(up[g], p))
        BY <1>1, <1>2, <2>1, AppendFacts, NoGrantSentUp
    <2> QED BY <2>1, <2>2, <2>3
<1>4. up' \in [Hosts -> Seq(S)]
    <2>1. up' = [g \in Hosts |-> up'[g]]
        BY DEF Notify
    <2> HIDE DEF S
    <2> QED BY <1>3, <2>1
<1> QED BY <1>3, <1>4 DEF HciInv, HciTypes, Tokens

LEMMA TakeAclInv ==
    ASSUME HciInv, NEW h \in Hosts, TakeAcl(h)
    PROVE  HciInv'
<1> DEFINE S == Commands \cup AclPackets
<1>1. down[h] \in Seq(S) /\ down[h] # <<>>
    BY DEF HciInv, HciTypes, TakeAcl
<1>2. Tail(down[h]) \in Seq(S)
    <2> HIDE DEF S
    <2> QED BY <1>1, TailFacts
<1>3. OneToken(n_commands_can_send[h], Tail(down[h]), inbox[h], up[h])
    <2>1. OneToken(n_commands_can_send[h], down[h], inbox[h], up[h])
        BY DEF HciInv, Tokens
    <2> HIDE DEF S
    <2> QED BY <1>1, <2>1, DataTakenDown
<1>4. /\ down' = [down EXCEPT ![h] = Tail(down[h])]
      /\ UNCHANGED <<n_commands_can_send, event_rx_buffer, acl_rx_buffer, up, inbox>>
    BY DEF TakeAcl, OverAir
<1> QED BY <1>2, <1>3, <1>4 DEF HciInv, HciTypes, Tokens

LEMMA PeerFacts ==
    ASSUME NEW h \in Hosts
    PROVE  Peer(h) \in Hosts /\ Peer(h) # h
    BY PeerAssumption DEF Peer

LEMMA DeliverInv ==
    ASSUME CommandSlots = 1, HciInv, acl_out \in [Hosts -> Seq(AclPackets)],
           NEW h \in Hosts, Deliver(h)
    PROVE  HciInv'
<1> DEFINE p == Head(acl_out[h])
           e == Event("number_of_completed_packets", NoOpcode, TRUE, 0)
           S == Events \cup AclPackets
<1>1. p \in AclPackets
    BY TailFacts DEF Deliver
<1>2. p \in S /\ ~ IsGrant(p)
    BY <1>1 DEF AclPackets, IsGrant
<1>3. e \in S /\ ~ IsGrant(e)
    <2>1. e \in Events
        BY DEF Event, Events, EventCodes
    <2> QED BY <2>1 DEF Event, IsGrant, CarriesCredits
<1>4. \A g \in Hosts : /\ up[g] \in Seq(S)
                       /\ OneToken(n_commands_can_send[g], down[g], inbox[g], up[g])
    BY DEF HciInv, HciTypes, Tokens
<1>5. /\ up' = [up EXCEPT ![Peer(h)] = Append(up[Peer(h)], p), ![h] = Append(up[h], e)]
      /\ UNCHANGED <<n_commands_can_send, event_rx_buffer, acl_rx_buffer, down, inbox>>
    <2>1. [up EXCEPT ![Peer(h)] = Append(@, p), ![h] = Append(@, e)]
            = [up EXCEPT ![Peer(h)] = Append(up[Peer(h)], p), ![h] = Append(up[h], e)]
        BY PeerFacts DEF HciInv, HciTypes
    <2> QED BY <2>1 DEF Deliver, OverAir
<1>6. ASSUME NEW g \in Hosts
      PROVE  /\ up'[g] \in Seq(S)
             /\ OneToken(n_commands_can_send[g], down[g], inbox[g], up'[g])
    <2>1. up'[g] \in {Append(up[g], p), Append(up[g], e)}
        <3>1. g = h \/ g = Peer(h)
            BY PeerAssumption DEF Peer
        <3> HIDE DEF p, e
        <3> QED BY <1>5, <3>1, PeerFacts DEF HciInv, HciTypes
    <2> HIDE DEF p, e, S
    <2>2. /\ Append(up[g], p) \in Seq(S) /\ Append(up[g], e) \in Seq(S)
        BY <1>2, <1>3, <1>4, AppendFacts
    <2>3. OneToken(n_commands_can_send[g], down[g], inbox[g], Append(up[g], p))
        BY <1>2, <1>4, NoGrantSentUp
    <2>4. OneToken(n_commands_can_send[g], down[g], inbox[g], Append(up[g], e))
        BY <1>3, <1>4, NoGrantSentUp
    <2> QED BY <2>1, <2>2, <2>3, <2>4
<1>7. up' \in [Hosts -> Seq(S)]
    <2>1. up' = [g \in Hosts |-> up'[g]]
        BY <1>5 DEF HciInv, HciTypes
    <2> HIDE DEF S
    <2> QED BY <1>6, <2>1
<1> QED BY <1>5, <1>6, <1>7 DEF HciInv, HciTypes, Tokens

----------------------------------------------------------------------------
(* The programs, the link and the invariant. *)

ControlTypes ==
    /\ pc \in [Hosts -> {"program"} \cup Loop \cup Stops]
    /\ step \in [Hosts -> Nat]
    /\ \A h \in Hosts : step[h] \in 1 .. Len(Program[h])

AirTypes ==
    /\ typed \in [Hosts -> 0 .. NTyped]
    /\ shown \in [Hosts -> Seq(Bytes)]
    /\ link \in {"none", "paging", "requested", "accepted", "failed", "up", "down"}
    /\ scanning \in BOOLEAN
    /\ acl_out \in [Hosts -> Seq(AclPackets)] /\ \A h \in Hosts : Len(acl_out[h]) <= AclSlots
    /\ lost \in [Hosts -> SUBSET Bytes]

IInv == HciInv /\ ControlTypes /\ AirTypes

LEMMA GotoFacts ==
    ASSUME ControlTypes, NEW h \in Hosts, NEW where \in {"program"} \cup Loop \cup Stops, Goto(h, where)
    PROVE  ControlTypes'
    BY DEF ControlTypes, Goto

LEMMA NextStepFacts ==
    ASSUME ControlTypes, NEW h \in Hosts, NextStep(h)
    PROVE  ControlTypes'
<1>1. CASE step[h] = Len(Program[h])
    <2>1. Goto(h, "event")
        BY <1>1 DEF NextStep
    <2> QED BY <2>1, GotoFacts DEF Loop
<1>2. CASE step[h] # Len(Program[h])
    <2>1. step' = [step EXCEPT ![h] = step[h] + 1] /\ UNCHANGED pc
        BY <1>2 DEF NextStep
    <2>2. step[h] + 1 \in 1 .. Len(Program[h]) /\ step[h] + 1 \in Nat
        BY <1>2, ProgramSteps DEF ControlTypes
    <2> QED BY <2>1, <2>2 DEF ControlTypes
<1> QED BY <1>1, <1>2

LEMMA StepFacts ==
    ASSUME ControlTypes, NEW h \in Hosts
    PROVE  /\ Step(h) \in Steps
           /\ Step(h).do = "send" => Step(h).opcode \in Opcodes
<1>1. Program[h] \in Seq(Steps) /\ step[h] \in 1 .. Len(Program[h])
    BY ProgramSteps DEF ControlTypes
<1>2. Step(h) \in Steps
    BY <1>1, ElementOfSeq DEF Step
<1> QED BY <1>2 DEF Steps, SendSteps, WaitSteps

----------------------------------------------------------------------------
(* Every step keeps the invariant. *)

LEMMA InitInv == CommandSlots = 1 /\ Init => IInv
<1> SUFFICES ASSUME CommandSlots = 1, Init PROVE IInv
    OBVIOUS
<1>1. /\ n_commands_can_send = [h \in Hosts |-> 1] /\ event_rx_buffer = [h \in Hosts |-> <<>>]
      /\ acl_rx_buffer = [h \in Hosts |-> <<>>] /\ up = [h \in Hosts |-> <<>>]
      /\ down = [h \in Hosts |-> <<>>] /\ inbox = [h \in Hosts |-> <<>>]
    BY DEF Init, HciInit
<1>2. HciTypes
    BY <1>1, EmptySeq DEF HciTypes
<1>3. OneToken(1, <<>>, <<>>, <<>>)
    <2>1. Len(<<>>) = 0
        OBVIOUS
    <2>2. 1 .. Len(<<>>) = {}
        BY <2>1
    <2> QED BY <2>1, <2>2 DEF OneToken, OneCommand, OneGrant, HasCommand, HasGrant
<1>4. Tokens
    BY <1>1, <1>3 DEF Tokens
<1>5. ControlTypes
    BY ProgramSteps DEF Init, ControlTypes
<1>6. AirTypes
    <2>1. NTyped \in Nat /\ AclSlots \in Nat
        BY PeerAssumption
    <2>2. <<>> \in Seq(Bytes) /\ <<>> \in Seq(AclPackets) /\ Len(<<>>) = 0
        BY EmptySeq
    <2>3. typed \in [Hosts -> 0 .. NTyped] /\ shown \in [Hosts -> Seq(Bytes)]
        BY <2>1, <2>2 DEF Init
    <2>4. acl_out \in [Hosts -> Seq(AclPackets)] /\ \A h \in Hosts : Len(acl_out[h]) <= AclSlots
        BY <2>1, <2>2 DEF Init
    <2>5. link = "none" /\ scanning \in BOOLEAN /\ lost \in [Hosts -> SUBSET Bytes]
        BY DEF Init
    <2> QED BY <2>3, <2>4, <2>5 DEF AirTypes
<1> QED BY <1>2, <1>4, <1>5, <1>6 DEF IInv, HciInv

LEMMA SendStepInv ==
    ASSUME CommandSlots = 1, IInv, NEW h \in Hosts, SendStep(h)
    PROVE  IInv'
<1>1. HciInv /\ ControlTypes /\ AirTypes
    BY DEF IInv
<1>2. AirTypes'
    BY <1>1 DEF AirTypes, SendStep, airVars
<1>3. CASE AwaitCredit(h) /\ UNCHANGED <<pc, step>>
    <2>1. HciInv'
        BY <1>1, <1>3, ReceiveInv DEF AwaitCredit
    <2>2. ControlTypes'
        BY <1>1, <1>3 DEF ControlTypes
    <2> QED BY <1>2, <2>1, <2>2 DEF IInv
<1>4. CASE SendCommand(h, Step(h).opcode) /\ NextStep(h)
    <2>1. Step(h).opcode \in Opcodes
        BY <1>1, StepFacts DEF SendStep
    <2>2. HciInv'
        BY <1>1, <1>4, <2>1, SendCommandInv
    <2> QED BY <1>1, <1>2, <1>4, <2>2, NextStepFacts DEF IInv
<1> QED BY <1>3, <1>4 DEF SendStep

LEMMA ReceiveStepInv ==
    ASSUME CommandSlots = 1, IInv, NEW h \in Hosts, ReceiveStep(h)
    PROVE  IInv'
<1>1. HciInv /\ ControlTypes /\ AirTypes
    BY DEF IInv
<1>2. AirTypes'
    BY <1>1 DEF AirTypes, ReceiveStep, airVars
<1>3. CASE AwaitEvent(h) /\ UNCHANGED <<pc, step>>
    <2>1. HciInv'
        BY <1>1, <1>3, ReceiveInv DEF AwaitEvent
    <2>2. ControlTypes'
        BY <1>1, <1>3 DEF ControlTypes
    <2> QED BY <1>2, <2>1, <2>2 DEF IInv
<1>4. CASE PopEvent(h) /\ (NextStep(h) \/ Goto(h, "panic") \/ UNCHANGED <<pc, step>>)
    <2>1. HciInv'
        BY <1>1, <1>4, PopInv
    <2>2. ControlTypes'
        <3>1. CASE NextStep(h)
            BY <1>1, <3>1, NextStepFacts
        <3>2. CASE Goto(h, "panic")
            BY <1>1, <3>2, GotoFacts DEF Stops
        <3>3. CASE UNCHANGED <<pc, step>>
            BY <1>1, <3>3 DEF ControlTypes
        <3> QED BY <1>4, <3>1, <3>2, <3>3
    <2> QED BY <1>2, <2>1, <2>2 DEF IInv
<1> QED BY <1>3, <1>4 DEF ReceiveStep

LEMMA HciUnchanged == HciInv /\ UNCHANGED hciVars => HciInv'
    BY DEF HciInv, HciTypes, Tokens, hciVars

LEMMA LoopEventInv ==
    ASSUME CommandSlots = 1, IInv, NEW h \in Hosts, LoopEvent(h)
    PROVE  IInv'
<1>1. HciInv /\ ControlTypes /\ AirTypes
    BY DEF IInv
<1>2. AirTypes'
    BY <1>1 DEF AirTypes, LoopEvent, airVars
<1>3. HciInv'
    BY <1>1, HciUnchanged, ReceiveInv, PopInv, HandOverInv
       DEF LoopEvent, NoEventAsync, ReceiveEventAsync
<1>4. ControlTypes'
    <2>1. Goto(h, "acl") \/ Goto(h, "closed")
        BY DEF LoopEvent
    <2> QED BY <1>1, <2>1, GotoFacts DEF Loop, Stops
<1> QED BY <1>2, <1>3, <1>4 DEF IInv

LEMMA LoopAclInv ==
    ASSUME CommandSlots = 1, IInv, NEW h \in Hosts, LoopAcl(h)
    PROVE  IInv'
<1>1. HciInv /\ ControlTypes /\ AirTypes
    BY DEF IInv
<1>2. HciInv'
    BY <1>1, HciUnchanged, ReceiveInv, PopInv, HandOverInv
       DEF LoopAcl, NoAclAsync, ReceiveAclAsync
<1>3. ControlTypes'
    BY <1>1, GotoFacts DEF LoopAcl, Loop
<1>4. shown' \in [Hosts -> Seq(Bytes)]
    <2>1. CASE UNCHANGED shown
        BY <1>1, <2>1 DEF AirTypes
    <2>2. CASE ReceiveAclAsync(h) /\ shown' = [shown EXCEPT ![h] = shown[h] \o NextAcl(h).data]
        <3>1. NextAcl(h) \in AclPackets
            <4>1. CASE acl_rx_buffer[h] # <<>>
                <5>1. Head(acl_rx_buffer[h]) \in AclPackets
                    BY <1>1, <4>1, TailFacts DEF HciInv, HciTypes
                <5> QED BY <4>1, <5>1 DEF NextAcl
            <4>2. CASE acl_rx_buffer[h] = <<>>
                <5>1. up[h] # <<>> /\ Head(up[h]).type = "acl"
                    BY <2>2, <4>2 DEF ReceiveAclAsync, PopAcl, HandOver
                <5>2. Head(up[h]) \in Events \cup AclPackets
                    BY <1>1, <5>1, TailFacts DEF HciInv, HciTypes
                <5>3. Head(up[h]) \in AclPackets
                    BY <5>1, <5>2, PacketFacts
                <5> QED BY <4>2, <5>3 DEF NextAcl
            <4> QED BY <4>1, <4>2
        <3>2. NextAcl(h).data \in Seq(Bytes) /\ shown[h] \in Seq(Bytes)
            BY <1>1, <3>1 DEF AclPackets, AirTypes
        <3>3. shown[h] \o NextAcl(h).data \in Seq(Bytes)
            <4> DEFINE d == NextAcl(h).data
            <4>1. d \in Seq(Bytes)
                BY <3>2
            <4> HIDE DEF d
            <4>2. shown[h] \o d \in Seq(Bytes)
                BY <3>2, <4>1, ConcatProperties
            <4> QED BY <4>2 DEF d
        <3> QED BY <1>1, <2>2, <3>3 DEF AirTypes
    <2> QED BY <2>1, <2>2 DEF LoopAcl
<1>5. AirTypes'
    BY <1>1, <1>4 DEF AirTypes, LoopAcl, airVars
<1> QED BY <1>2, <1>3, <1>5 DEF IInv

LEMMA BatchFacts ==
    ASSUME NEW first \in 0 .. NTyped, NEW n \in 1 .. MaxData, first + n <= NTyped
    PROVE  Batch(first, n) \in Seq(Bytes)
<1>1. NTyped \in Nat /\ MaxData \in Nat /\ n \in Nat
    BY PeerAssumption
<1>2. Batch(first, n) \in [1 .. n -> Bytes]
    BY <1>1 DEF Batch, Bytes
<1> QED BY <1>1, <1>2

LEMMA LoopTermInv ==
    ASSUME IInv, NEW h \in Hosts, LoopTerm(h)
    PROVE  IInv'
<1>1. HciInv /\ ControlTypes /\ AirTypes
    BY DEF IInv
<1>2. ControlTypes'
    BY <1>1, GotoFacts DEF LoopTerm, Loop
<1>3. CASE UNCHANGED <<hciVars, typed>>
    <2>1. AirTypes'
        BY <1>1, <1>3 DEF AirTypes, LoopTerm, airVars
    <2> QED BY <1>1, <1>2, <1>3, <2>1, HciUnchanged DEF IInv
<1>4. ASSUME NEW n \in 1 .. MaxData, typed[h] + n <= NTyped, SendAcl(h, Batch(typed[h], n)),
             typed' = [typed EXCEPT ![h] = typed[h] + n]
      PROVE  IInv'
    <2>1. typed[h] \in 0 .. NTyped /\ NTyped \in Nat /\ MaxData \in Nat
        BY <1>1, PeerAssumption DEF AirTypes
    <2>2. Batch(typed[h], n) \in Seq(Bytes)
        BY <1>4, <2>1, BatchFacts
    <2>3. HciInv'
        BY <1>1, <1>4, <2>2, SendAclInv
    <2>4. typed[h] + n \in 0 .. NTyped
        BY <1>4, <2>1
    <2>5. typed' \in [Hosts -> 0 .. NTyped]
        BY <1>1, <1>4, <2>4 DEF AirTypes
    <2>6. AirTypes'
        BY <1>1, <2>5 DEF AirTypes, LoopTerm, airVars
    <2> QED BY <1>2, <2>3, <2>6 DEF IInv
<1> QED BY <1>3, <1>4 DEF LoopTerm

LEMMA IntakeStepInv ==
    ASSUME IInv, NEW h \in Hosts, Intake(h), UNCHANGED <<pc, step, typed, shown, airVars>>
    PROVE  IInv'
<1>1. HciInv'
    BY IntakeInv DEF IInv
<1> QED BY <1>1 DEF IInv, ControlTypes, AirTypes, airVars

LEMMA ExecuteInv ==
    ASSUME CommandSlots = 1, IInv, NEW h \in Hosts, Execute(h)
    PROVE  IInv'
<1> DEFINE o == Head(inbox[h])
           code == IF o \in Deferred THEN "command_status" ELSE "command_complete"
<1>1. HciInv'
    <2>1. Answer(h, code) /\ code \in {"command_complete", "command_status"}
        BY DEF Execute
    <2> HIDE DEF code
    <2> QED BY <2>1, AnswerInv DEF IInv
<1>2. link' \in {"none", "paging", "requested", "accepted", "failed", "up", "down"}
    BY DEF Execute, IInv, AirTypes
<1>3. scanning' \in BOOLEAN
    BY DEF Execute
<1>4. UNCHANGED <<pc, step, typed, shown, acl_out, lost>>
    BY DEF Execute
<1> QED BY <1>1, <1>2, <1>3, <1>4 DEF IInv, ControlTypes, AirTypes

(* The link comes up, fails or breaks, and both hosts are told. *)
LEMMA LinkInv ==
    ASSUME CommandSlots = 1, IInv, PageHeard \/ Established \/ PageFails \/ LinkLost
    PROVE  IInv'
<1>1. PICK to \in SUBSET Hosts,
           code \in {"connection_request", "connection_complete", "disconnection_complete"},
           ok \in BOOLEAN : Notify(to, code, ok)
    <2>1. {Alice} \in SUBSET Hosts /\ {Bob} \in SUBSET Hosts /\ Hosts \in SUBSET Hosts
        BY PeerAssumption
    <2>2. CASE PageHeard
        BY <2>1, <2>2 DEF PageHeard
    <2>3. CASE Established
        BY <2>1, <2>3 DEF Established
    <2>4. CASE PageFails
        BY <2>1, <2>4, Zenon DEF PageFails
    <2>5. CASE LinkLost
        BY <2>1, <2>5 DEF LinkLost
    <2> QED BY <2>2, <2>3, <2>4, <2>5
<1>2. UNCHANGED <<n_commands_can_send, event_rx_buffer, acl_rx_buffer, down, inbox,
                  pc, step, typed, shown, scanning, lost>>
    BY DEF PageHeard, Established, PageFails, LinkLost, OverAir
<1>3. HciInv'
    BY <1>1, <1>2, NotifyInv DEF IInv
<1>4. link' \in {"requested", "failed", "up", "down"}
    BY DEF PageHeard, Established, PageFails, LinkLost
<1>5. acl_out' = acl_out \/ acl_out' = [h \in Hosts |-> <<>>]
    BY DEF PageHeard, Established, PageFails, LinkLost
<1>6. acl_out' \in [Hosts -> Seq(AclPackets)] /\ \A h \in Hosts : Len(acl_out'[h]) <= AclSlots
    <2>1. AclSlots \in Nat
        BY PeerAssumption
    <2>2. <<>> \in Seq(AclPackets) /\ Len(<<>>) = 0
        BY EmptySeq
    <2>3. CASE acl_out' = acl_out
        BY <2>3 DEF IInv, AirTypes
    <2>4. CASE acl_out' = [h \in Hosts |-> <<>>]
        <3>1. acl_out' \in [Hosts -> Seq(AclPackets)]
            BY <2>2, <2>4
        <3>2. ASSUME NEW h \in Hosts PROVE Len(acl_out'[h]) <= AclSlots
            <4>1. acl_out'[h] = <<>>
                BY <2>4
            <4> QED BY <2>1, <2>2, <4>1
        <3> QED BY <3>1, <3>2
    <2> QED BY <1>5, <2>3, <2>4
<1> QED BY <1>2, <1>3, <1>4, <1>6 DEF IInv, ControlTypes, AirTypes

LEMMA TakeAclStepInv ==
    ASSUME IInv, NEW h \in Hosts, TakeAcl(h)
    PROVE  IInv'
<1>1. HciInv'
    BY TakeAclInv DEF IInv
<1>2. UNCHANGED <<pc, step, typed, shown, scanning, link>>
    BY DEF TakeAcl, OverAir
<1>3. acl_out' \in [Hosts -> Seq(AclPackets)] /\ \A g \in Hosts : Len(acl_out'[g]) <= AclSlots
    <2>1. /\ acl_out \in [Hosts -> Seq(AclPackets)] /\ acl_out[h] \in Seq(AclPackets)
          /\ \A g \in Hosts : Len(acl_out[g]) <= AclSlots
        BY DEF IInv, AirTypes
    <2>2. CASE acl_out' = acl_out
        BY <2>1, <2>2
    <2>3. CASE /\ acl_out' = [acl_out EXCEPT ![h] = Append(acl_out[h], Head(down[h]))]
               /\ HasRoom(h)
        <3>1. Head(down[h]) \in Commands \cup AclPackets /\ Head(down[h]).type = "acl"
            BY TailFacts DEF IInv, HciInv, HciTypes, TakeAcl
        <3>2. Head(down[h]) \in AclPackets
            BY <3>1, PacketFacts
        <3>3. /\ Append(acl_out[h], Head(down[h])) \in Seq(AclPackets)
              /\ Len(Append(acl_out[h], Head(down[h]))) = Len(acl_out[h]) + 1
              /\ Len(acl_out[h]) \in Nat
            BY <2>1, <3>2, AppendFacts
        <3>4. Len(Append(acl_out[h], Head(down[h]))) <= AclSlots
            BY <2>3, <3>3, PeerAssumption DEF HasRoom
        <3> QED BY <2>1, <2>3, <3>3, <3>4
    <2> QED BY <2>2, <2>3 DEF TakeAcl
<1>4. lost' \in [Hosts -> SUBSET Bytes]
    <2> DEFINE p == Head(down[h])
    <2>1. lost \in [Hosts -> SUBSET Bytes]
        BY DEF IInv, AirTypes
    <2>2. p \in AclPackets
        <3>1. p \in Commands \cup AclPackets /\ p.type = "acl"
            BY TailFacts DEF IInv, HciInv, HciTypes, TakeAcl
        <3> QED BY <3>1, PacketFacts
    <2> HIDE DEF p
    <2>3. BytesOf(p) \subseteq Bytes
        BY <2>2, ElementOfSeq DEF BytesOf, AclPackets
    <2>4. lost' = lost \/ lost' = [lost EXCEPT ![h] = lost[h] \cup BytesOf(p)]
        BY DEF TakeAcl, p
    <2> QED BY <2>1, <2>3, <2>4
<1> QED BY <1>1, <1>2, <1>3, <1>4 DEF IInv, ControlTypes, AirTypes

LEMMA DeliverStepInv ==
    ASSUME CommandSlots = 1, IInv, NEW h \in Hosts, Deliver(h)
    PROVE  IInv'
<1>1. HciInv'
    BY DeliverInv DEF IInv, AirTypes
<1>2. UNCHANGED <<pc, step, typed, shown, scanning, link, lost>>
    BY DEF Deliver, OverAir
<1>3. acl_out' \in [Hosts -> Seq(AclPackets)] /\ \A g \in Hosts : Len(acl_out'[g]) <= AclSlots
    <2>1. /\ acl_out \in [Hosts -> Seq(AclPackets)] /\ acl_out[h] \in Seq(AclPackets)
          /\ \A g \in Hosts : Len(acl_out[g]) <= AclSlots
        BY DEF IInv, AirTypes
    <2>2. acl_out' = [acl_out EXCEPT ![h] = Tail(acl_out[h])] /\ acl_out[h] # <<>>
        BY DEF Deliver
    <2>3. /\ Tail(acl_out[h]) \in Seq(AclPackets) /\ Len(Tail(acl_out[h])) = Len(acl_out[h]) - 1
          /\ Len(acl_out[h]) \in Nat
        BY <2>1, <2>2, TailFacts
    <2>4. Len(Tail(acl_out[h])) <= AclSlots
        BY <2>1, <2>3, PeerAssumption
    <2> QED BY <2>1, <2>2, <2>3, <2>4
<1> QED BY <1>1, <1>2, <1>3 DEF IInv, ControlTypes, AirTypes

LEMMA Invariance == CommandSlots = 1 /\ IInv /\ [Next]_vars => IInv'
<1> SUFFICES ASSUME CommandSlots = 1, IInv, [Next]_vars PROVE IInv'
    OBVIOUS
<1>1. ASSUME NEW h \in Hosts, Host(h) PROVE IInv'
    BY <1>1, SendStepInv, ReceiveStepInv, LoopEventInv, LoopAclInv, LoopTermInv DEF Host
<1>2. ASSUME NEW h \in Hosts, Controller(h) PROVE IInv'
    BY <1>2, IntakeStepInv, ExecuteInv, TakeAclStepInv, DeliverStepInv DEF Controller
<1>3. CASE Air \/ LinkLost
    BY <1>3, LinkInv DEF Air
<1>4. CASE UNCHANGED vars
    <2>1. HciInv'
        BY <1>4, HciUnchanged DEF vars, IInv
    <2> QED BY <1>4, <2>1 DEF vars, IInv, ControlTypes, AirTypes, airVars
<1> QED BY <1>1, <1>2, <1>3, <1>4 DEF Next

----------------------------------------------------------------------------
(* The theorems, about controllers that hold one command at a time. *)

(* The hosts, the packets on every line and the programs' places are well  *)
(* formed; in particular no program runs past its end and what is shown    *)
(* are bytes that can have been typed.                                     *)
THEOREM TypeCorrect ==
    ASSUME CommandSlots = 1
    PROVE  Spec => []TypeOK
<1>1. IInv => TypeOK
    <2> SUFFICES ASSUME IInv PROVE TypeOK
        OBVIOUS
    <2>1. Bytes \subseteq Nat /\ NTyped \in Nat
        BY PeerAssumption DEF Bytes
    <2>2. \A s \in Seq(Bytes) : s \in Seq(Nat)
        BY <2>1, SeqMonotonic
    <2>3. AclPackets \subseteq Acls
        BY <2>2 DEF AclPackets, Acls
    <2>4. \A s \in Seq(AclPackets) : s \in Seq(Acls)
        BY <2>3, SeqMonotonic
    <2>5. \A s \in Seq(Events \cup AclPackets) : s \in Seq(Events \cup Acls)
        BY <2>3, SeqMonotonic
    <2>6. \A s \in Seq(Commands \cup AclPackets) : s \in Seq(Commands \cup Acls)
        BY <2>3, SeqMonotonic
    <2>7. HciTypeOK
        <3>1. /\ acl_rx_buffer \in [Hosts -> Seq(Acls)]
              /\ up \in [Hosts -> Seq(Events \cup Acls)]
              /\ down \in [Hosts -> Seq(Commands \cup Acls)]
            BY <2>4, <2>5, <2>6 DEF IInv, HciInv, HciTypes
        <3> QED BY <3>1 DEF IInv, HciInv, HciTypes, HciTypeOK
    <2>8. acl_out \in [Hosts -> Seq(Acls)]
        BY <2>4 DEF IInv, AirTypes
    <2>9. shown \in [Hosts -> Seq(1 .. NTyped)] /\ lost \in [Hosts -> SUBSET (1 .. NTyped)]
        BY DEF IInv, AirTypes, Bytes
    <2> QED BY <2>7, <2>8, <2>9 DEF IInv, ControlTypes, AirTypes, TypeOK
<1> QED BY <1>1, InitInv, Invariance, PTL DEF Spec

(* A controller with room for one command is never sent a second one,      *)
(* although bt.c overwrites its credits with those of every answer: there  *)
(* is one token, and it is a credit, a command or an answer at any time.   *)
THEOREM OneCommandAtATime ==
    ASSUME CommandSlots = 1
    PROVE  Spec => []CommandsFit
<1>1. IInv => CommandsFit
    BY DEF IInv, HciInv, Tokens, OneToken, CommandsFit
<1> QED BY <1>1, InitInv, Invariance, PTL DEF Spec

----------------------------------------------------------------------------
(* The connection is asked for once by each host, after everything else    *)
(* that the host sends, and made once.                                     *)

LinkMade == link \in {"up", "down"}

\* The event that the connection is made.
IsComplete(p) == p.type = "event" /\ p.code = "connection_complete" /\ p.ok

AsksOnce(h, o) == o \in Deferred => o = Asking(h) /\ Asked(h) /\ (h = Alice => link = "none")

\* What there can be on each queue of a host.
Heard(h) == {p \in Events \cup AclPackets :
               p.type = "acl" \/ IsComplete(p) => Asked(h) /\ LinkMade}
Said(h) == {p \in Commands \cup AclPackets : p.type = "command" => AsksOnce(h, p.opcode)}
Asks(h) == {o \in Opcodes : AsksOnce(h, o)}

Queued(h, u, e, d, n) ==
    u \in Seq(Heard(h)) /\ e \in Seq(Heard(h)) /\ d \in Seq(Said(h)) /\ n \in Seq(Asks(h))

Queues == \A h \in Hosts : Queued(h, up[h], event_rx_buffer[h], down[h], inbox[h])

Linked ==
    /\ Queues
    /\ \A h \in Hosts : pc[h] \in Loop => LinkMade /\ Asked(h)
    /\ link # "none" => Asked(Alice)
    /\ link \in {"accepted", "up"} => Asked(Bob)

LEMMA QueuesGrow ==
    ASSUME NEW g \in Hosts, Asked(g) => Asked(g)', LinkMade => LinkMade',
           g = Alice /\ link = "none" => link' = "none",
           Queued(g, up'[g], event_rx_buffer'[g], down'[g], inbox'[g])
    PROVE  Queued(g, up[g], event_rx_buffer[g], down[g], inbox[g])'
<1>1. \A o : AsksOnce(g, o) => AsksOnce(g, o)'
    BY DEF AsksOnce, Asking
<1>2. /\ Heard(g) \subseteq Heard(g)' /\ Said(g) \subseteq Said(g)' /\ Asks(g) \subseteq Asks(g)'
    BY <1>1 DEF Heard, Said, Asks
<1>3. /\ \A s \in Seq(Heard(g)) : s \in Seq(Heard(g)')
      /\ \A s \in Seq(Said(g)) : s \in Seq(Said(g)')
      /\ \A s \in Seq(Asks(g)) : s \in Seq(Asks(g)')
    BY <1>2, SeqMonotonic
<1> QED BY <1>3 DEF Queued

(* Only NextStep moves a host on in its program.                           *)
LEMMA AskedStays ==
    ASSUME ControlTypes, NEW h \in Hosts, NEW g \in Hosts, NextStep(h) \/ UNCHANGED step
    PROVE  Asked(g) => Asked(g)'
<1>1. step'[g] = step[g] \/ step'[g] = step[g] + 1
    BY DEF NextStep, Goto, ControlTypes
<1>2. step[g] \in Nat /\ Len(Program[g]) \in Nat
    BY ProgramSteps DEF ControlTypes
<1> QED BY <1>1, <1>2 DEF Asked

(* Taking from a queue, and from one into another of the same host.        *)
LEMMA TakingKeepsQueues ==
    ASSUME IInv, Queues, NEW h \in Hosts,
           \/ Receive(h) \/ HandOver(h, "event") \/ HandOver(h, "acl")
           \/ PopEvent(h) \/ PopAcl(h) \/ UNCHANGED hciVars,
           NEW g \in Hosts
    PROVE  Queued(g, up'[g], event_rx_buffer'[g], down'[g], inbox'[g])
<1> DEFINE S == Heard(h)
<1>1. /\ up[h] \in Seq(S) /\ event_rx_buffer[h] \in Seq(S)
      /\ Queued(g, up[g], event_rx_buffer[g], down[g], inbox[g])
    BY DEF Queues, Queued
<1>2. UNCHANGED <<down, inbox>>
    BY DEF Receive, HandOver, PopEvent, PopAcl, hciVars
<1>3. CASE UNCHANGED <<up, event_rx_buffer>>
    BY <1>1, <1>2, <1>3 DEF Queued
<1>4. CASE up' = [up EXCEPT ![h] = Tail(up[h])] /\ up[h] # <<>> /\ UNCHANGED event_rx_buffer
    <2>1. Tail(up[h]) \in Seq(S)
        <3> HIDE DEF S
        <3> QED BY <1>1, <1>4, TailFacts
    <2>2. up'[g] = IF g = h THEN Tail(up[h]) ELSE up[g]
        BY <1>4 DEF IInv, HciInv, HciTypes
    <2> QED BY <1>1, <1>2, <1>4, <2>1, <2>2 DEF Queued
<1>5. CASE /\ up' = [up EXCEPT ![h] = Tail(up[h])] /\ up[h] # <<>>
           /\ event_rx_buffer' = [event_rx_buffer EXCEPT ![h] = Append(event_rx_buffer[h], Head(up[h]))]
    <2>1. Tail(up[h]) \in Seq(S) /\ Append(event_rx_buffer[h], Head(up[h])) \in Seq(S)
        <3> HIDE DEF S
        <3> QED BY <1>1, <1>5, TailFacts, AppendFacts
    <2>2. /\ up'[g] = IF g = h THEN Tail(up[h]) ELSE up[g]
          /\ event_rx_buffer'[g] = IF g = h THEN Append(event_rx_buffer[h], Head(up[h]))
                                            ELSE event_rx_buffer[g]
        BY <1>5 DEF IInv, HciInv, HciTypes
    <2> QED BY <1>1, <1>2, <2>1, <2>2 DEF Queued
<1>6. CASE PopEvent(h)
    <2>1. Tail(event_rx_buffer[h]) \in Seq(S)
        <3>1. event_rx_buffer[h] # <<>>
            BY <1>6 DEF PopEvent
        <3> HIDE DEF S
        <3> QED BY <1>1, <3>1, TailFacts
    <2>2. /\ event_rx_buffer'[g] = IF g = h THEN Tail(event_rx_buffer[h]) ELSE event_rx_buffer[g]
          /\ UNCHANGED up
        BY <1>6 DEF PopEvent, IInv, HciInv, HciTypes
    <2> QED BY <1>1, <1>2, <2>1, <2>2 DEF Queued
<1> QED BY <1>3, <1>4, <1>5, <1>6 DEF Receive, HandOver, PopAcl, hciVars

----------------------------------------------------------------------------
(* Each step. *)

LEMMA LinkKeeps ==
    ASSUME Linked, NEW h \in Hosts, UNCHANGED link, IInv, NextStep(h) \/ UNCHANGED step,
           \A g \in Hosts : Queued(g, up'[g], event_rx_buffer'[g], down'[g], inbox'[g]),
           \A g \in Hosts : pc'[g] \in Loop => LinkMade' /\ Asked(g)'
    PROVE  Linked'
<1>1. \A g \in Hosts : Asked(g) => Asked(g)'
    BY AskedStays DEF IInv
<1>2. LinkMade => LinkMade'
    BY DEF LinkMade
<1>3. Queues'
    <2>1. ASSUME NEW g \in Hosts PROVE Queued(g, up[g], event_rx_buffer[g], down[g], inbox[g])'
        BY <1>1, <1>2, QueuesGrow
    <2> QED BY <2>1 DEF Queues
<1>4. Alice \in Hosts /\ Bob \in Hosts
    BY PeerAssumption
<1> QED BY <1>1, <1>3, <1>4 DEF Linked

LEMMA ReceiveStepLinked ==
    ASSUME IInv, Linked, NEW h \in Hosts, ReceiveStep(h)
    PROVE  Linked'
<1>1. ControlTypes /\ UNCHANGED link /\ pc[h] = "program" /\ step[h] \in 1 .. Len(Program[h])
    BY DEF ReceiveStep, airVars, IInv, ControlTypes
<1>2. \A g \in Hosts : Queued(g, up'[g], event_rx_buffer'[g], down'[g], inbox'[g])
    BY TakingKeepsQueues DEF ReceiveStep, AwaitEvent, Linked
<1>3. CASE UNCHANGED <<pc, step>>
    <2>1. \A g \in Hosts : pc'[g] \in Loop => LinkMade' /\ Asked(g)'
        BY <1>1, <1>3 DEF Linked, LinkMade, Asked
    <2> QED BY <1>1, <1>2, <1>3, <2>1, LinkKeeps
<1>4. CASE Goto(h, "panic")
    <2>1. \A g \in Hosts : pc'[g] \in Loop => LinkMade' /\ Asked(g)'
        BY <1>1, <1>4 DEF Goto, Linked, LinkMade, Asked, ControlTypes, Loop
    <2>2. UNCHANGED step
        BY <1>4 DEF Goto
    <2> QED BY <1>1, <1>2, <2>1, <2>2, LinkKeeps
<1>5. CASE /\ PopEvent(h) /\ Matches(Step(h), Head(event_rx_buffer[h]))
           /\ Head(event_rx_buffer[h]).ok /\ NextStep(h)
    <2> DEFINE e == Head(event_rx_buffer[h])
    <2>1. e \in Heard(h) /\ e \in Events
        <3>1. /\ event_rx_buffer[h] \in Seq(Heard(h)) /\ event_rx_buffer[h] \in Seq(Events)
              /\ event_rx_buffer[h] # <<>>
            BY <1>5 DEF Linked, Queues, Queued, IInv, HciInv, HciTypes, PopEvent
        <3> QED BY <3>1, TailFacts
    <2>2. CASE step[h] = Len(Program[h])
        <3>1. e.code = "connection_complete" /\ e.ok /\ e.type = "event"
            BY <1>5, <2>1, <2>2, ProgramEnds DEF Step, Matches, Await, Events
        <3>2. LinkMade
            BY <2>1, <3>1 DEF Heard, IsComplete
        <3>3. Asked(h)
            BY <2>2, ProgramEnds DEF Asked
        <3>4. \A g \in Hosts : pc'[g] \in Loop => LinkMade' /\ Asked(g)'
            BY <1>1, <1>5, <2>2, <3>2, <3>3 DEF NextStep, Goto, Linked, LinkMade, Asked, ControlTypes
        <3> QED BY <1>1, <1>2, <1>5, <3>4, LinkKeeps
    <2>3. CASE step[h] # Len(Program[h])
        <3>1. UNCHANGED pc
            BY <1>5, <2>3 DEF NextStep
        <3>2. \A g \in Hosts : pc'[g] \in Loop => LinkMade' /\ Asked(g)'
            BY <1>1, <1>5, <3>1, AskedStays DEF Linked, LinkMade
        <3> QED BY <1>1, <1>2, <1>5, <3>2, LinkKeeps
    <2> QED BY <2>2, <2>3
<1> QED BY <1>3, <1>4, <1>5 DEF ReceiveStep

(* What a host may still send when it is about to send it.                 *)
LEMMA SendPlace ==
    ASSUME ControlTypes, NEW h \in Hosts, Step(h).do = "send"
    PROVE  /\ step[h] <= Len(Program[h]) - 2 /\ ~ Asked(h)
           /\ Step(h).opcode \in Deferred =>
                step[h] = Len(Program[h]) - 2 /\ Step(h).opcode = Asking(h)
<1> DEFINE l == Len(Program[h])
<1>1. step[h] \in 1 .. l /\ l \in Nat /\ l >= 3
    BY ProgramEnds DEF ControlTypes
<1>2. step[h] # l /\ step[h] # l - 1
    <2>1. Program[h][l] = Await("connection_complete", NoOpcode) /\ Program[h][l - 1] = StatusOf(Asking(h))
        BY ProgramEnds
    <2>2. Program[h][l].do = "await" /\ Program[h][l - 1].do = "await"
        BY <2>1 DEF Await, StatusOf
    <2>3. Program[h][step[h]].do = "send"
        BY DEF Step
    <2> HIDE DEF l
    <2> QED BY <2>2, <2>3
<1>3. step[h] <= l - 2
    BY <1>1, <1>2
<1>4. ASSUME Step(h).opcode \in Deferred PROVE step[h] = l - 2 /\ Step(h).opcode = Asking(h)
    <2>1. step[h] \notin 1 .. l - 3
        <3>1. \A i \in 1 .. l - 3 : Program[h][i] \in EarlySteps
            BY ProgramEnds
        <3>2. Program[h][step[h]].do = "send" /\ Program[h][step[h]].opcode \in Deferred
            BY <1>4 DEF Step
        <3> QED BY <3>1, <3>2 DEF EarlySteps
    <2>2. step[h] = l - 2
        BY <1>1, <1>3, <2>1
    <2>3. Program[h][l - 2] = Send(Asking(h))
        BY ProgramEnds
    <2>4. Step(h) = Send(Asking(h))
        BY <2>2, <2>3 DEF Step
    <2> QED BY <2>2, <2>4 DEF Send
<1> QED BY <1>1, <1>3, <1>4 DEF Asked

LEMMA SendStepLinked ==
    ASSUME IInv, Linked, NEW h \in Hosts, SendStep(h)
    PROVE  Linked'
<1>1. /\ ControlTypes /\ UNCHANGED link /\ Step(h).do = "send"
      /\ step[h] \in 1 .. Len(Program[h]) /\ Len(Program[h]) \in Nat
    BY ProgramEnds DEF SendStep, airVars, IInv, ControlTypes
<1>2. CASE AwaitCredit(h) /\ UNCHANGED <<pc, step>>
    <2>1. \A g \in Hosts : Queued(g, up'[g], event_rx_buffer'[g], down'[g], inbox'[g])
        BY <1>2, TakingKeepsQueues DEF AwaitCredit, Linked
    <2>2. \A g \in Hosts : pc'[g] \in Loop => LinkMade' /\ Asked(g)'
        BY <1>1, <1>2 DEF Linked, LinkMade, Asked
    <2> QED BY <1>1, <1>2, <2>1, <2>2, LinkKeeps
<1>3. CASE SendCommand(h, Step(h).opcode) /\ NextStep(h)
    <2>0. PICK o \in Opcodes : o = Step(h).opcode
        BY <1>1, StepFacts
    <2>1. /\ step[h] <= Len(Program[h]) - 2 /\ ~ Asked(h)
          /\ o \in Deferred => step[h] = Len(Program[h]) - 2 /\ o = Asking(h)
        BY <1>1, <2>0, SendPlace
    <2>2. step[h] # Len(Program[h])
        BY <1>1, <2>1
    <2>3. step' = [step EXCEPT ![h] = step[h] + 1] /\ UNCHANGED pc
        BY <1>3, <2>2 DEF NextStep
    <2>4. \A g \in Hosts : Asked(g) => Asked(g)'
        BY <1>1, <1>3, AskedStays
    <2>5. AsksOnce(h, o)'
        <3> SUFFICES ASSUME o \in Deferred
                     PROVE  o = Asking(h) /\ Asked(h)' /\ (h = Alice => link' = "none")
            BY DEF AsksOnce, Asking
        <3>1. step'[h] = step[h] + 1
            BY <1>1, <2>3 DEF ControlTypes
        <3>2. Asked(h)'
            BY <1>1, <2>1, <3>1 DEF Asked
        <3>3. h = Alice => link = "none"
            BY <2>1 DEF Linked
        <3> QED BY <1>1, <2>1, <3>2, <3>3
    <2>6. Command(o) \in Said(h)'
        <3>1. Command(o) \in Commands
            BY DEF Command, Commands
        <3>2. Command(o).opcode = o
            BY DEF Command
        <3> QED BY <2>5, <3>1, <3>2 DEF Said, AsksOnce
    <2>7. ASSUME NEW g \in Hosts PROVE Queued(g, up[g], event_rx_buffer[g], down[g], inbox[g])'
        <3>1. Queued(g, up[g], event_rx_buffer[g], down[g], inbox[g])
            BY DEF Linked, Queues
        <3>2. UNCHANGED <<up, event_rx_buffer, inbox>>
            BY <1>3 DEF SendCommand
        <3>3. Queued(g, up'[g], event_rx_buffer'[g], down[g], inbox'[g])
            BY <3>1, <3>2
        <3>4. down'[g] = IF g = h THEN Append(down[g], Command(o)) ELSE down[g]
            BY <1>3, <2>0 DEF SendCommand, IInv, HciInv, HciTypes
        <3>5. LinkMade => LinkMade'
            BY <1>1 DEF LinkMade
        <3>6. /\ Heard(g) \subseteq Heard(g)' /\ Said(g) \subseteq Said(g)' /\ Asks(g) \subseteq Asks(g)'
            <4>1. \A q : AsksOnce(g, q) => AsksOnce(g, q)'
                BY <1>1, <2>4 DEF AsksOnce, Asking
            <4> QED BY <2>4, <3>5, <4>1 DEF Heard, Said, Asks
        <3>7. /\ up'[g] \in Seq(Heard(g)') /\ event_rx_buffer'[g] \in Seq(Heard(g)')
              /\ down[g] \in Seq(Said(g)') /\ inbox'[g] \in Seq(Asks(g)')
            BY <3>3, <3>6, SeqMonotonic DEF Queued
        <3>8. down'[g] \in Seq(Said(g)')
            <4> DEFINE S == Said(g)'
                       p == Command(o)
            <4>1. down[g] \in Seq(S) /\ (g = h => p \in S)
                BY <2>6, <3>7
            <4> HIDE DEF S, p
            <4>2. g = h => Append(down[g], p) \in Seq(S)
                BY <4>1, AppendFacts
            <4> QED BY <3>4, <4>1, <4>2 DEF S, p
        <3> QED BY <3>7, <3>8 DEF Queued
    <2>8. \A g \in Hosts : pc'[g] \in Loop => LinkMade' /\ Asked(g)'
        BY <1>1, <2>3, <2>4 DEF Linked, LinkMade
    <2>9. Alice \in Hosts /\ Bob \in Hosts
        BY PeerAssumption
    <2> QED BY <1>1, <2>4, <2>7, <2>8, <2>9 DEF Linked, Queues
<1> QED BY <1>2, <1>3 DEF SendStep

(* In its loop, a host only takes from its queues and sends data.          *)
LEMMA LoopStepsLinked ==
    ASSUME IInv, Linked, NEW h \in Hosts, LoopEvent(h) \/ LoopAcl(h)
    PROVE  Linked'
<1>1. ControlTypes /\ UNCHANGED <<link, step>> /\ pc[h] \in Loop
    BY DEF LoopEvent, LoopAcl, Goto, airVars, IInv, Loop
<1>2. \A g \in Hosts : Queued(g, up'[g], event_rx_buffer'[g], down'[g], inbox'[g])
    BY TakingKeepsQueues DEF LoopEvent, LoopAcl, NoEventAsync, NoAclAsync,
       ReceiveEventAsync, ReceiveAclAsync, Linked
<1>3. \A g \in Hosts : pc'[g] \in Loop => pc[g] \in Loop
    BY <1>1 DEF LoopEvent, LoopAcl, Goto, ControlTypes
<1>4. \A g \in Hosts : pc'[g] \in Loop => LinkMade' /\ Asked(g)'
    BY <1>1, <1>3 DEF Linked, LinkMade, Asked
<1> QED BY <1>1, <1>2, <1>4, LinkKeeps

LEMMA LoopTermLinked ==
    ASSUME IInv, Linked, NEW h \in Hosts, LoopTerm(h)
    PROVE  Linked'
<1>1. ControlTypes /\ UNCHANGED <<link, step>> /\ pc[h] \in Loop
    BY DEF LoopTerm, Goto, airVars, IInv, Loop
<1>2. \A g \in Hosts : pc'[g] \in Loop => LinkMade' /\ Asked(g)'
    <2>1. \A g \in Hosts : pc'[g] \in Loop => pc[g] \in Loop
        BY <1>1 DEF LoopTerm, Goto, ControlTypes
    <2> QED BY <1>1, <2>1 DEF Linked, LinkMade, Asked
<1>3. CASE UNCHANGED hciVars
    <2>1. \A g \in Hosts : Queued(g, up'[g], event_rx_buffer'[g], down'[g], inbox'[g])
        BY <1>3, TakingKeepsQueues DEF Linked
    <2> QED BY <1>1, <1>2, <2>1, LinkKeeps
<1>4. ASSUME NEW n \in 1 .. MaxData, typed[h] + n <= NTyped, SendAcl(h, Batch(typed[h], n))
      PROVE  Linked'
    <2>1. PICK p \in AclPackets : p = AclData(Batch(typed[h], n))
        <3>1. typed[h] \in 0 .. NTyped
            BY DEF IInv, AirTypes
        <3> QED BY <1>4, <3>1, BatchFacts DEF AclData, AclPackets
    <2>2. /\ down' = [down EXCEPT ![h] = Append(down[h], p)]
          /\ UNCHANGED <<up, event_rx_buffer, inbox>>
        BY <1>4, <2>1 DEF SendAcl
    <2>3. p \in Said(h)
        BY DEF Said, AclPackets
    <2>4. ASSUME NEW g \in Hosts
          PROVE  Queued(g, up'[g], event_rx_buffer'[g], down'[g], inbox'[g])
        <3>1. Queued(g, up[g], event_rx_buffer[g], down[g], inbox[g])
            BY DEF Linked, Queues
        <3>2. down'[g] = IF g = h THEN Append(down[g], p) ELSE down[g]
            BY <2>2 DEF IInv, HciInv, HciTypes
        <3>3. down[g] \in Seq(Said(g))
            BY <3>1 DEF Queued
        <3>4. g = h => Append(down[g], p) \in Seq(Said(g))
            BY <2>3, <3>3, AppendFacts
        <3> QED BY <2>2, <3>1, <3>2, <3>3, <3>4 DEF Queued
    <2> QED BY <1>1, <1>2, <2>4, LinkKeeps
<1> QED BY <1>3, <1>4 DEF LoopTerm

(* The controller takes what was said, once each.                          *)
LEMMA IntakeLinked ==
    ASSUME IInv, Linked, NEW h \in Hosts, Intake(h), UNCHANGED <<pc, step, typed, shown, airVars>>
    PROVE  Linked'
<1>1. UNCHANGED <<link, step, pc, up, event_rx_buffer>>
    BY DEF Intake, airVars
<1>2. \A g \in Hosts : pc'[g] \in Loop => LinkMade' /\ Asked(g)'
    BY <1>1 DEF Linked, LinkMade, Asked
<1>3. down[h] \in Seq(Said(h)) /\ inbox[h] \in Seq(Asks(h)) /\ down[h] # <<>>
    BY DEF Linked, Queues, Queued, Intake
<1>4. Head(down[h]) \in Said(h) /\ Tail(down[h]) \in Seq(Said(h))
    BY <1>3, TailFacts
<1>5. Head(down[h]).opcode \in Asks(h)
    BY <1>4 DEF Intake, Said, Asks, Commands, AclPackets
<1>6. Append(inbox[h], Head(down[h]).opcode) \in Seq(Asks(h))
    BY <1>3, <1>5, AppendFacts
<1>7. ASSUME NEW g \in Hosts
      PROVE  Queued(g, up'[g], event_rx_buffer'[g], down'[g], inbox'[g])
    <2>1. Queued(g, up[g], event_rx_buffer[g], down[g], inbox[g])
        BY DEF Linked, Queues
    <2>2. /\ down'[g] = IF g = h THEN Tail(down[g]) ELSE down[g]
          /\ inbox'[g] = IF g = h THEN Append(inbox[g], Head(down[g]).opcode) ELSE inbox[g]
        BY DEF Intake, IInv, HciInv, HciTypes
    <2> QED BY <1>1, <1>4, <1>6, <2>1, <2>2 DEF Queued
<1> QED BY <1>1, <1>2, <1>7, LinkKeeps

LEMMA TakeAclLinked ==
    ASSUME IInv, Linked, NEW h \in Hosts, TakeAcl(h)
    PROVE  Linked'
<1>1. UNCHANGED <<link, step, pc, up, event_rx_buffer, inbox>>
    BY DEF TakeAcl, OverAir
<1>2. \A g \in Hosts : pc'[g] \in Loop => LinkMade' /\ Asked(g)'
    BY <1>1 DEF Linked, LinkMade, Asked
<1>3. down[h] \in Seq(Said(h)) /\ down[h] # <<>>
    BY DEF Linked, Queues, Queued, TakeAcl
<1>4. Tail(down[h]) \in Seq(Said(h))
    BY <1>3, TailFacts
<1>5. ASSUME NEW g \in Hosts
      PROVE  Queued(g, up'[g], event_rx_buffer'[g], down'[g], inbox'[g])
    <2>1. Queued(g, up[g], event_rx_buffer[g], down[g], inbox[g])
        BY DEF Linked, Queues
    <2>2. down'[g] = IF g = h THEN Tail(down[g]) ELSE down[g]
        BY DEF TakeAcl, IInv, HciInv, HciTypes
    <2> QED BY <1>1, <1>4, <2>1, <2>2 DEF Queued
<1> QED BY <1>1, <1>2, <1>5, LinkKeeps

(* Data comes to a host that has a connection.                             *)
LEMMA DeliverLinked ==
    ASSUME IInv, Linked, NEW h \in Hosts, Deliver(h)
    PROVE  Linked'
<1>1. UNCHANGED <<link, step, pc, down, event_rx_buffer, inbox>> /\ link = "up"
    BY DEF Deliver, OverAir
<1>2. \A g \in Hosts : pc'[g] \in Loop => LinkMade' /\ Asked(g)'
    BY <1>1 DEF Linked, LinkMade, Asked
<1>3. PICK e \in Events : e = Event("number_of_completed_packets", NoOpcode, TRUE, 0)
    <2>1. 0 \in 0 .. CommandSlots
        BY SlotsAssumption
    <2> QED BY <2>1 DEF Event, Events, EventCodes
<1>4. PICK p \in AclPackets : p = Head(acl_out[h])
    BY TailFacts DEF Deliver, IInv, AirTypes
<1>5. ASSUME NEW g \in Hosts PROVE e \in Heard(g) /\ p \in Heard(g)
    <2>1. Asked(g) /\ LinkMade
        BY <1>1, PeerAssumption DEF Linked, LinkMade
    <2> QED BY <1>3, <2>1 DEF Heard, IsComplete, Event
<1>6. ASSUME NEW g \in Hosts
      PROVE  Queued(g, up'[g], event_rx_buffer'[g], down'[g], inbox'[g])
    <2>1. Queued(g, up[g], event_rx_buffer[g], down[g], inbox[g])
        BY DEF Linked, Queues
    <2>2. up'[g] = Append(up[g], p) \/ up'[g] = Append(up[g], e)
        <3>1. g = h \/ g = Peer(h)
            BY PeerAssumption DEF Peer
        <3> QED BY <1>3, <1>4, <3>1, PeerFacts DEF Deliver, IInv, HciInv, HciTypes
    <2>3. up[g] \in Seq(Heard(g))
        BY <2>1 DEF Queued
    <2>4. Append(up[g], p) \in Seq(Heard(g)) /\ Append(up[g], e) \in Seq(Heard(g))
        BY <1>5, <2>3, AppendFacts
    <2> QED BY <1>1, <2>1, <2>2, <2>4 DEF Queued
<1> QED BY <1>1, <1>2, <1>6, LinkKeeps

LEMMA SeqOfElements ==
    ASSUME NEW S, NEW T, NEW s \in Seq(S), \A i \in 1 .. Len(s) : s[i] \in T
    PROVE  s \in Seq(T)
<1>1. s \in [1 .. Len(s) -> T] /\ Len(s) \in Nat
    BY LenProperties
<1> QED BY <1>1

(* The controller starts the connection, or accepts it, once.              *)
LEMMA ExecuteLinked ==
    ASSUME CommandSlots = 1, IInv, Linked, NEW h \in Hosts, Execute(h)
    PROVE  Linked'
<1>1. /\ UNCHANGED <<pc, step, down, event_rx_buffer>>
      /\ inbox[h] \in Seq(Asks(h)) /\ inbox[h] # <<>> /\ up[h] \in Seq(Heard(h))
    BY DEF Execute, Answer, Linked, Queues, Queued
<1>2. PICK o \in Asks(h) : o = Head(inbox[h])
    BY <1>1, TailFacts
<1>3. PICK e \in Events : e.code # "connection_complete" /\ up' = [up EXCEPT ![h] = Append(up[h], e)]
    <2> DEFINE code == IF o \in Deferred THEN "command_status" ELSE "command_complete"
               e == Event(code, o, TRUE, CommandSlots - Len(Tail(inbox[h])))
    <2>1. Len(Tail(inbox[h])) = 0
        <3>1. Len(inbox[h]) <= 1
            BY DEF IInv, HciInv, Tokens, OneToken
        <3> QED BY <1>1, <3>1, TailOfOne
    <2>2. e \in Events /\ e.code # "connection_complete"
        <3>1. e = Event(code, o, TRUE, 1)
            <4>1. CommandSlots - Len(Tail(inbox[h])) = 1
                BY <2>1
            <4> QED BY <4>1
        <3>2. o \in Opcodes /\ code \in {"command_status", "command_complete"}
            BY DEF Asks
        <3> HIDE DEF code
        <3> QED BY <3>1, <3>2 DEF Event, Events, EventCodes
    <2>3. up' = [up EXCEPT ![h] = Append(up[h], e)]
        BY <1>2 DEF Execute, Answer
    <2> QED BY <2>2, <2>3
<1>4. inbox' = [inbox EXCEPT ![h] = Tail(inbox[h])]
    BY DEF Execute, Answer
<1>5. CASE o = "create_connection"
    <2>1. h = Alice /\ Asked(Alice) /\ link = "none" /\ link' = "paging"
        BY <1>2, <1>5 DEF Asks, AsksOnce, Asking, Deferred, Execute
    <2>2. /\ \A g \in Hosts : Asked(g) => Asked(g)'
          /\ ~ LinkMade
        BY <1>1, <2>1 DEF Asked, LinkMade
    <2>3. ~ HasCommand(down[h]) /\ Tail(inbox[h]) = <<>>
        <3>1. OneToken(n_commands_can_send[h], down[h], inbox[h], up[h])
            BY DEF IInv, HciInv, Tokens
        <3>2. ~ HasCommand(down[h]) /\ Len(inbox[h]) <= 1
            BY <1>1, <3>1 DEF OneToken
        <3> QED BY <1>1, <3>2, TailOfOne
    <2>4. down'[h] \in Seq(Said(h)')
        <3>1. down[h] \in Seq(Commands \cup AclPackets)
            BY DEF IInv, HciInv, HciTypes
        <3>2. ASSUME NEW i \in 1 .. Len(down[h]) PROVE down[h][i] \in Said(h)'
            <4>1. down[h][i].type # "command"
                BY <2>3 DEF HasCommand, IsCommand
            <4>2. down[h][i] \in Commands \cup AclPackets
                BY <3>1, ElementOfSeq
            <4> QED BY <4>1, <4>2 DEF Said
        <3>3. down[h] \in Seq(Said(h)')
            <4> DEFINE T == Said(h)'
            <4> HIDE DEF T
            <4>1. down[h] \in Seq(T)
                <5>1. \A i \in 1 .. Len(down[h]) : down[h][i] \in T
                    BY <3>2 DEF T
                <5> QED BY <3>1, <5>1, SeqOfElements
            <4> QED BY <4>1 DEF T
        <3> QED BY <1>1, <3>3
    <2>5. ASSUME NEW g \in Hosts PROVE Queued(g, up[g], event_rx_buffer[g], down[g], inbox[g])'
        <3>1. Queued(g, up[g], event_rx_buffer[g], down[g], inbox[g])
            BY DEF Linked, Queues
        <3>2. e \in Heard(g)
            BY <1>3 DEF Heard, IsComplete, Events
        <3>3. up'[g] = up[g] \/ up'[g] = Append(up[g], e)
            BY <1>3 DEF IInv, HciInv, HciTypes
        <3>4. up'[g] \in Seq(Heard(g)) /\ event_rx_buffer'[g] \in Seq(Heard(g))
            <4>1. up[g] \in Seq(Heard(g))
                BY <3>1 DEF Queued
            <4>2. Append(up[g], e) \in Seq(Heard(g))
                BY <3>2, <4>1, AppendFacts
            <4> QED BY <1>1, <3>1, <3>3, <4>1, <4>2 DEF Queued
        <3>5. Heard(g) \subseteq Heard(g)'
            BY <2>2 DEF Heard
        <3>6. up'[g] \in Seq(Heard(g)') /\ event_rx_buffer'[g] \in Seq(Heard(g)')
            BY <3>4, <3>5, SeqMonotonic
        <3>7. CASE g = h
            <4>1. inbox'[g] = <<>>
                BY <1>4, <2>3, <3>7 DEF IInv, HciInv, HciTypes
            <4>2. inbox'[g] \in Seq(Asks(g)')
                BY <4>1, EmptySeq
            <4> QED BY <2>4, <3>6, <3>7, <4>2 DEF Queued
        <3>8. CASE g # h
            <4>1. Said(g) \subseteq Said(g)' /\ Asks(g) \subseteq Asks(g)'
                <5>1. \A q : AsksOnce(g, q) => AsksOnce(g, q)'
                    BY <2>1, <2>2, <3>8 DEF AsksOnce, Asking
                <5> QED BY <5>1 DEF Said, Asks
            <4>2. down'[g] = down[g] /\ inbox'[g] = inbox[g]
                BY <1>1, <1>4, <3>8 DEF IInv, HciInv, HciTypes
            <4>3. down'[g] \in Seq(Said(g)') /\ inbox'[g] \in Seq(Asks(g)')
                BY <3>1, <4>1, <4>2, SeqMonotonic DEF Queued
            <4> QED BY <3>6, <4>3 DEF Queued
        <3> QED BY <3>7, <3>8
    <2>6. \A g \in Hosts : pc'[g] \in Loop => LinkMade' /\ Asked(g)'
        BY <1>1, <2>2 DEF Linked
    <2>7. Alice \in Hosts
        BY PeerAssumption
    <2> QED BY <2>1, <2>2, <2>5, <2>6, <2>7 DEF Linked, Queues
<1>6. CASE o # "create_connection"
    <2>1. /\ link' = link \/ (o = "accept_connection_request" /\ link = "requested" /\ link' = "accepted")
        BY <1>2, <1>6 DEF Execute
    <2>2. link' = "accepted" /\ link # "accepted" => Asked(Bob)
        <3>1. o = "accept_connection_request" => h = Bob /\ Asked(h)
            BY <1>2, PeerAssumption DEF Asks, AsksOnce, Asking, Deferred
        <3> QED BY <2>1, <3>1
    <2>3. /\ \A g \in Hosts : Asked(g) => Asked(g)'
          /\ LinkMade => LinkMade'
          /\ link = "none" => link' = "none"
        BY <1>1, <2>1 DEF Asked, LinkMade
    <2>4. ASSUME NEW g \in Hosts
          PROVE  Queued(g, up'[g], event_rx_buffer'[g], down'[g], inbox'[g])
        <3>1. Queued(g, up[g], event_rx_buffer[g], down[g], inbox[g])
            BY DEF Linked, Queues
        <3>2. e \in Heard(g)
            BY <1>3 DEF Heard, IsComplete, Events
        <3>3. up'[g] = up[g] \/ up'[g] = Append(up[g], e)
            BY <1>3 DEF IInv, HciInv, HciTypes
        <3>4. up'[g] \in Seq(Heard(g))
            <4>1. up[g] \in Seq(Heard(g))
                BY <3>1 DEF Queued
            <4>2. Append(up[g], e) \in Seq(Heard(g))
                BY <3>2, <4>1, AppendFacts
            <4> QED BY <3>3, <4>1, <4>2
        <3>5. inbox'[g] \in Seq(Asks(g))
            <4>1. Tail(inbox[h]) \in Seq(Asks(h))
                BY <1>1, TailFacts
            <4>2. inbox'[g] = IF g = h THEN Tail(inbox[h]) ELSE inbox[g]
                BY <1>4 DEF IInv, HciInv, HciTypes
            <4> QED BY <3>1, <4>1, <4>2 DEF Queued
        <3> QED BY <1>1, <3>1, <3>4, <3>5 DEF Queued
    <2>5. ASSUME NEW g \in Hosts PROVE Queued(g, up[g], event_rx_buffer[g], down[g], inbox[g])'
        BY <2>3, <2>4, QueuesGrow
    <2>6. \A g \in Hosts : pc'[g] \in Loop => LinkMade' /\ Asked(g)'
        BY <1>1, <2>3 DEF Linked
    <2>7. Alice \in Hosts /\ Bob \in Hosts
        BY PeerAssumption
    <2> QED BY <2>1, <2>2, <2>3, <2>5, <2>6, <2>7 DEF Linked, Queues
<1> QED BY <1>5, <1>6

(* The link moves on, and the hosts that have asked for it are told.       *)
LEMMA AirLinked ==
    ASSUME IInv, Linked, PageHeard \/ Established \/ PageFails \/ LinkLost
    PROVE  Linked'
<1>1. UNCHANGED <<pc, step, down, event_rx_buffer, inbox>>
    BY DEF PageHeard, Established, PageFails, LinkLost, OverAir
<1>2. PICK to \in SUBSET Hosts,
           code \in {"connection_request", "connection_complete", "disconnection_complete"},
           ok \in BOOLEAN :
           /\ Notify(to, code, ok)
           /\ code = "connection_complete" /\ ok => LinkMade' /\ (\A g \in to : Asked(g))
    <2>1. {Alice} \in SUBSET Hosts /\ {Bob} \in SUBSET Hosts /\ Hosts \in SUBSET Hosts
        BY PeerAssumption
    <2>2. CASE PageHeard
        BY <2>1, <2>2 DEF PageHeard
    <2>3. CASE Established
        <3>1. LinkMade' /\ \A g \in Hosts : Asked(g)
            BY <2>3, PeerAssumption DEF Established, LinkMade, Linked
        <3> QED BY <2>1, <2>3, <3>1 DEF Established
    <2>4. CASE PageFails
        <3>1. Notify({Alice}, "connection_complete", FALSE)
                \/ Notify(Hosts, "connection_complete", FALSE)
            BY <2>4, Zenon DEF PageFails
        <3> QED BY <2>1, <3>1
    <2>5. CASE LinkLost
        BY <2>1, <2>5 DEF LinkLost
    <2> QED BY <2>2, <2>3, <2>4, <2>5
<1>3. /\ link # "none"
      /\ LinkMade => LinkMade'
      /\ link' \in {"accepted", "up"} => link = "accepted"
    BY DEF PageHeard, Established, PageFails, LinkLost, LinkMade
<1>4. \A g \in Hosts : Asked(g) => Asked(g)'
    BY <1>1 DEF Asked
<1>5. PICK e \in Events : e = Event(code, NoOpcode, ok, 0)
    <2>1. 0 \in 0 .. CommandSlots
        BY SlotsAssumption
    <2> QED BY <2>1 DEF Event, Events, EventCodes
<1>6. ASSUME NEW g \in Hosts PROVE Queued(g, up[g], event_rx_buffer[g], down[g], inbox[g])'
    <2>1. Queued(g, up[g], event_rx_buffer[g], down[g], inbox[g])
        BY DEF Linked, Queues
    <2>2. up'[g] = IF g \in to THEN Append(up[g], e) ELSE up[g]
        BY <1>2, <1>5 DEF Notify
    <2>3. /\ Heard(g) \subseteq Heard(g)' /\ Said(g) \subseteq Said(g)' /\ Asks(g) \subseteq Asks(g)'
        <3>1. \A q : AsksOnce(g, q) => AsksOnce(g, q)'
            <4>1. Asked(g) => Asked(g)'
                BY <1>4
            <4> QED BY <1>3, <4>1 DEF AsksOnce, Asking
        <3> QED BY <1>3, <1>4, <3>1 DEF Heard, Said, Asks
    <2>4. /\ up[g] \in Seq(Heard(g)') /\ event_rx_buffer'[g] \in Seq(Heard(g)')
          /\ down'[g] \in Seq(Said(g)') /\ inbox'[g] \in Seq(Asks(g)')
        BY <1>1, <2>1, <2>3, SeqMonotonic DEF Queued
    <2>5. g \in to => e \in Heard(g)'
        BY <1>2, <1>4, <1>5 DEF Heard, IsComplete, Event, Events
    <2>6. up'[g] \in Seq(Heard(g)')
        <3> DEFINE S == Heard(g)'
        <3>1. up[g] \in Seq(S) /\ (g \in to => e \in S)
            BY <2>4, <2>5
        <3> HIDE DEF S
        <3>2. g \in to => Append(up[g], e) \in Seq(S)
            BY <3>1, AppendFacts
        <3> QED BY <2>2, <3>1, <3>2 DEF S
    <2> QED BY <2>4, <2>6 DEF Queued
<1>7. \A g \in Hosts : pc'[g] \in Loop => LinkMade' /\ Asked(g)'
    BY <1>1, <1>3, <1>4 DEF Linked
<1>8. Alice \in Hosts /\ Bob \in Hosts
    BY PeerAssumption
<1> QED BY <1>3, <1>4, <1>6, <1>7, <1>8 DEF Linked, Queues

LEMMA LinkedInit == Init => Linked
<1> SUFFICES ASSUME Init PROVE Linked
    OBVIOUS
<1>1. \A h \in Hosts : up[h] = <<>> /\ event_rx_buffer[h] = <<>> /\ down[h] = <<>> /\ inbox[h] = <<>>
    BY DEF Init, HciInit
<1>2. Queues
    BY <1>1, EmptySeq DEF Queues, Queued
<1>3. \A h \in Hosts : pc[h] \notin Loop
    BY DEF Init, Loop
<1> QED BY <1>2, <1>3 DEF Init, Linked

LEMMA LinkedStays == CommandSlots = 1 /\ IInv /\ Linked /\ [Next]_vars => Linked'
<1> SUFFICES ASSUME CommandSlots = 1, IInv, Linked, [Next]_vars PROVE Linked'
    OBVIOUS
<1>1. ASSUME NEW h \in Hosts, Host(h) PROVE Linked'
    BY <1>1, SendStepLinked, ReceiveStepLinked, LoopStepsLinked, LoopTermLinked DEF Host
<1>2. ASSUME NEW h \in Hosts, Controller(h) PROVE Linked'
    BY <1>2, IntakeLinked, ExecuteLinked, TakeAclLinked, DeliverLinked DEF Controller
<1>3. CASE Air \/ LinkLost
    BY <1>3, AirLinked DEF Air
<1>4. CASE UNCHANGED vars
    <2>1. UNCHANGED <<link, step, pc, up, event_rx_buffer, down, inbox>>
        BY <1>4 DEF vars, hciVars, airVars
    <2> QED BY <2>1 DEF Linked, Queues, Queued, Heard, Said, Asks, AsksOnce, Asking, Asked, LinkMade
<1> QED BY <1>1, <1>2, <1>3, <1>4 DEF Next

----------------------------------------------------------------------------
(* What a host has in its data queue.  While it is in its program it has   *)
(* nothing there: the event that the connection is complete comes first,   *)
(* and the host leaves its program with it, into its loop or a stop.       *)

HasComplete(q) == \E i \in 1 .. Len(q) : IsComplete(q[i])
ToldFirst(u) == \A i \in 1 .. Len(u) : u[i].type = "acl" => \E j \in 1 .. i - 1 : IsComplete(u[j])

\* w is the place of the host, l the link, e and a its queues, u the line to it.
OpenedIn(w, l, e, a, u) ==
    /\ w = "program" =>
         /\ a = <<>>
         /\ l = "up" => HasComplete(e) \/ HasComplete(u)
         /\ HasComplete(e) \/ ToldFirst(u)
    /\ w \in {"event", "term", "closed"} => a = <<>>
    /\ w = "acl" => Len(a) <= 1

Opened == \A h \in Hosts :
    OpenedIn(pc[h], link, event_rx_buffer[h], acl_rx_buffer[h], up[h])

LEMMA EventReceived ==
    ASSUME NEW S, NEW e \in Seq(S), NEW u \in Seq(S), u # <<>>, Head(u).type = "event"
    PROVE  /\ HasComplete(e) \/ HasComplete(u) =>
                HasComplete(Append(e, Head(u))) \/ HasComplete(Tail(u))
           /\ HasComplete(e) \/ ToldFirst(u) =>
                HasComplete(Append(e, Head(u))) \/ ToldFirst(Tail(u))
<1>1. /\ Len(u) \in Nat /\ Len(u) > 0 /\ Head(u) = u[1] /\ Len(Tail(u)) = Len(u) - 1
      /\ \A i \in 1 .. Len(Tail(u)) : i + 1 \in 1 .. Len(u) /\ Tail(u)[i] = u[i + 1]
      /\ \A i \in 1 .. Len(u) : i # 1 => i - 1 \in 1 .. Len(Tail(u)) /\ Tail(u)[i - 1] = u[i]
    BY TailFacts
<1>2. HasComplete(e) => HasComplete(Append(e, Head(u)))
    BY AppendProperties, TailFacts DEF HasComplete
<1>3. IsComplete(Head(u)) => HasComplete(Append(e, Head(u)))
    <2>1. Len(e) + 1 \in 1 .. Len(Append(e, Head(u))) /\ Append(e, Head(u))[Len(e) + 1] = Head(u)
        BY AppendFacts, TailFacts
    <2> QED BY <2>1 DEF HasComplete
<1>4. HasComplete(u) => IsComplete(Head(u)) \/ HasComplete(Tail(u))
    BY <1>1 DEF HasComplete
<1>5. ASSUME ToldFirst(u), ~ IsComplete(Head(u)) PROVE ToldFirst(Tail(u))
    <2> SUFFICES ASSUME NEW i \in 1 .. Len(Tail(u)), Tail(u)[i].type = "acl"
                 PROVE  \E j \in 1 .. i - 1 : IsComplete(Tail(u)[j])
        BY DEF ToldFirst
    <2>1. i + 1 \in 1 .. Len(u) /\ u[i + 1].type = "acl"
        BY <1>1
    <2>2. PICK j \in 1 .. (i + 1) - 1 : IsComplete(u[j])
        BY <1>5, <2>1 DEF ToldFirst
    <2>3. j # 1 /\ j \in 1 .. Len(u)
        BY <1>1, <1>5, <2>1, <2>2
    <2>4. j - 1 \in 1 .. i - 1 /\ Tail(u)[j - 1] = u[j]
        BY <1>1, <2>2, <2>3
    <2> QED BY <2>2, <2>4
<1> QED BY <1>2, <1>3, <1>4, <1>5

LEMMA DataNotFirst ==
    ASSUME NEW S, NEW u \in Seq(S), u # <<>>, Head(u).type = "acl"
    PROVE  ~ ToldFirst(u)
<1>1. 1 \in 1 .. Len(u) /\ u[1].type = "acl" /\ 1 .. 1 - 1 = {}
    BY TailFacts
<1> QED BY <1>1 DEF ToldFirst

LEMMA OtherEventTaken ==
    ASSUME NEW S, NEW e \in Seq(S), e # <<>>, ~ IsComplete(Head(e)), HasComplete(e)
    PROVE  HasComplete(Tail(e))
<1>1. PICK i \in 1 .. Len(e) : IsComplete(e[i])
    BY DEF HasComplete
<1>2. i # 1
    BY <1>1, TailFacts
<1>3. i - 1 \in 1 .. Len(Tail(e)) /\ Tail(e)[i - 1] = e[i]
    BY <1>2, TailFacts
<1> QED BY <1>1, <1>3 DEF HasComplete

LEMMA PacketComes ==
    ASSUME NEW S, NEW u \in Seq(S), NEW p \in S
    PROVE  /\ HasComplete(u) => HasComplete(Append(u, p))
           /\ IsComplete(p) => HasComplete(Append(u, p))
           /\ ToldFirst(u) /\ (p.type = "acl" => HasComplete(u)) => ToldFirst(Append(u, p))
<1>1. /\ Len(u) \in Nat /\ Len(Append(u, p)) = Len(u) + 1 /\ Append(u, p)[Len(u) + 1] = p
      /\ \A i \in 1 .. Len(u) + 1 : i # Len(u) + 1 => i \in 1 .. Len(u) /\ Append(u, p)[i] = u[i]
    BY AppendFacts
<1>2. \A i \in 1 .. Len(u) : i \in 1 .. Len(Append(u, p)) /\ Append(u, p)[i] = u[i]
    BY <1>1
<1>3. HasComplete(u) => HasComplete(Append(u, p))
    BY <1>2 DEF HasComplete
<1>4. IsComplete(p) => HasComplete(Append(u, p))
    <2>1. Len(u) + 1 \in 1 .. Len(Append(u, p))
        BY <1>1
    <2> QED BY <1>1, <2>1 DEF HasComplete
<1>5. ASSUME ToldFirst(u), p.type = "acl" => HasComplete(u) PROVE ToldFirst(Append(u, p))
    <2> SUFFICES ASSUME NEW i \in 1 .. Len(Append(u, p)), Append(u, p)[i].type = "acl"
                 PROVE  \E j \in 1 .. i - 1 : IsComplete(Append(u, p)[j])
        BY DEF ToldFirst
    <2>1. PICK j \in 1 .. i - 1 : j \in 1 .. Len(u) /\ IsComplete(u[j])
        <3>1. CASE i = Len(u) + 1
            <4>1. i - 1 = Len(u) /\ p.type = "acl"
                BY <1>1, <3>1
            <4> QED BY <1>5, <4>1 DEF HasComplete
        <3>2. CASE i # Len(u) + 1
            <4>1. i \in 1 .. Len(u) /\ u[i].type = "acl"
                BY <1>1, <3>2
            <4>2. PICK j \in 1 .. i - 1 : IsComplete(u[j])
                BY <1>5, <4>1 DEF ToldFirst
            <4>3. j \in 1 .. Len(u)
                BY <1>1, <4>1, <4>2
            <4> QED BY <4>2, <4>3
        <3> QED BY <3>1, <3>2
    <2> QED BY <1>2, <2>1
<1> QED BY <1>3, <1>4, <1>5

(* A host in its program receives a packet.                                *)
LEMMA ReceiveOpened ==
    ASSUME IInv, Linked, Opened, NEW h \in Hosts, pc[h] = "program", Receive(h),
           ~ Asked(h) \/ event_rx_buffer[h] = <<>>, UNCHANGED <<pc, link>>
    PROVE  Opened'
<1> DEFINE e == event_rx_buffer[h]
           u == up[h]
           S == Events \cup AclPackets
<1>1. /\ e \in Seq(Events) /\ u \in Seq(S) /\ u \in Seq(Heard(h)) /\ u # <<>>
    BY DEF Receive, IInv, HciInv, HciTypes, Linked, Queues, Queued
<1>2. e \in Seq(S)
    BY <1>1, SeqMonotonic
<1>3. OpenedIn("program", link, e, acl_rx_buffer[h], u)
    BY DEF Opened
<1>4. Head(u).type # "acl"
    <2> SUFFICES ASSUME Head(u).type = "acl" PROVE FALSE
        OBVIOUS
    <2>1. Asked(h)
        <3>1. Head(u) \in Heard(h)
            BY <1>1, TailFacts
        <3> QED BY <3>1 DEF Heard
    <2>2. e = <<>>
        BY <2>1
    <2>3. ~ HasComplete(e)
        BY <2>2 DEF HasComplete
    <2>4. ToldFirst(u)
        BY <1>3, <2>3 DEF OpenedIn
    <2> QED BY <1>1, <2>4, DataNotFirst
<1>5. /\ Head(u).type = "event" /\ up' = [up EXCEPT ![h] = Tail(u)]
      /\ event_rx_buffer' = [event_rx_buffer EXCEPT ![h] = Append(e, Head(u))]
      /\ UNCHANGED acl_rx_buffer
    BY <1>4 DEF Receive
<1>6. OpenedIn("program", link, Append(e, Head(u)), acl_rx_buffer[h], Tail(u))
    <2>1. /\ HasComplete(e) \/ HasComplete(u) =>
                HasComplete(Append(e, Head(u))) \/ HasComplete(Tail(u))
          /\ HasComplete(e) \/ ToldFirst(u) =>
                HasComplete(Append(e, Head(u))) \/ ToldFirst(Tail(u))
        <3> HIDE DEF e, u, S
        <3> QED BY <1>1, <1>2, <1>5, EventReceived
    <2> QED BY <1>3, <2>1 DEF OpenedIn
<1>7. ASSUME NEW g \in Hosts
      PROVE  OpenedIn(pc'[g], link', event_rx_buffer'[g], acl_rx_buffer'[g], up'[g])
    <2>1. CASE g = h
        BY <1>5, <1>6, <2>1 DEF IInv, HciInv, HciTypes
    <2>2. CASE g # h
        <3>1. event_rx_buffer'[g] = event_rx_buffer[g] /\ up'[g] = up[g]
            BY <1>5, <2>2 DEF IInv, HciInv, HciTypes
        <3> QED BY <1>5, <3>1 DEF Opened
    <2> QED BY <2>1, <2>2
<1> QED BY <1>7 DEF Opened

(* The event that the connection is complete ends the program.             *)
LEMMA CompleteEndsProgram ==
    ASSUME IInv, Linked, NEW h \in Hosts, ReceiveStep(h), PopEvent(h),
           IsComplete(Head(event_rx_buffer[h]))
    PROVE  pc'[h] # "program"
<1> DEFINE e == Head(event_rx_buffer[h])
           l == Len(Program[h])
<1>1. Asked(h) /\ e.code = "connection_complete" /\ e.ok
    <2>1. e \in Heard(h)
        BY TailFacts DEF PopEvent, Linked, Queues, Queued
    <2> QED BY <2>1 DEF Heard, IsComplete
<1>2. ControlTypes /\ step[h] \in 1 .. l /\ l \in Nat
    BY ProgramEnds DEF IInv, ControlTypes
<1>3. step[h] = l \/ step[h] = l - 1
    BY <1>1, <1>2 DEF Asked
<1>4. /\ Step(h).do # "find"
      /\ step[h] = l - 1 => Step(h).code = "command_status"
    <2>1. /\ Program[h][l] = Await("connection_complete", NoOpcode)
          /\ Program[h][l - 1] = StatusOf(Asking(h))
        BY ProgramEnds
    <2>2. /\ Program[h][l].do = "await" /\ Program[h][l - 1].do = "await"
          /\ Program[h][l - 1].code = "command_status"
        BY <2>1 DEF Await, StatusOf
    <2> HIDE DEF l
    <2> QED BY <1>3, <2>2 DEF Step
<1>5. ~ AwaitEvent(h)
    BY DEF PopEvent, AwaitEvent
<1>6. CASE ~ Matches(Step(h), e)
    <2>1. Goto(h, "panic")
        BY <1>4, <1>5, <1>6 DEF ReceiveStep
    <2> QED BY <1>2, <2>1 DEF Goto, ControlTypes
<1>7. CASE Matches(Step(h), e)
    <2>1. step[h] = l
        BY <1>1, <1>3, <1>4, <1>7 DEF Matches
    <2>2. Goto(h, "event")
        BY <1>1, <1>5, <1>7, <2>1 DEF ReceiveStep, NextStep
    <2> QED BY <1>2, <2>2 DEF Goto, ControlTypes
<1> QED BY <1>6, <1>7

LEMMA ReceiveStepOpened ==
    ASSUME IInv, Linked, Opened, NEW h \in Hosts, ReceiveStep(h)
    PROVE  Opened'
<1>1. UNCHANGED link /\ pc[h] = "program"
    BY DEF ReceiveStep, airVars
<1>2. CASE AwaitEvent(h) /\ UNCHANGED <<pc, step>>
    BY <1>1, <1>2, ReceiveOpened DEF AwaitEvent
<1>3. CASE PopEvent(h) /\ (NextStep(h) \/ Goto(h, "panic") \/ UNCHANGED <<pc, step>>)
    <2> DEFINE e == event_rx_buffer[h]
               u == up[h]
    <2>1. /\ event_rx_buffer' = [event_rx_buffer EXCEPT ![h] = Tail(e)] /\ e # <<>>
          /\ UNCHANGED <<acl_rx_buffer, up>>
        BY <1>3 DEF PopEvent
    <2>2. OpenedIn("program", link, e, acl_rx_buffer[h], u)
        BY <1>1 DEF Opened
    <2>3. /\ pc'[h] \in {"program", "event", "panic"}
          /\ \A g \in Hosts : g # h => pc'[g] = pc[g]
        BY <1>1, <1>3 DEF NextStep, Goto, IInv, ControlTypes
    <2>4. OpenedIn(pc'[h], link, Tail(e), acl_rx_buffer[h], u)
        <3>1. CASE IsComplete(Head(e))
            <4>1. pc'[h] # "program"
                BY <1>3, <3>1, CompleteEndsProgram
            <4> QED BY <2>2, <2>3, <4>1 DEF OpenedIn
        <3>2. CASE ~ IsComplete(Head(e))
            <4>1. HasComplete(e) => HasComplete(Tail(e))
                <5>1. e \in Seq(Events)
                    BY DEF IInv, HciInv, HciTypes
                <5> HIDE DEF e
                <5> QED BY <2>1, <3>2, <5>1, OtherEventTaken
            <4> QED BY <2>2, <2>3, <4>1 DEF OpenedIn
        <3> QED BY <3>1, <3>2
    <2>5. ASSUME NEW g \in Hosts
          PROVE  OpenedIn(pc'[g], link', event_rx_buffer'[g], acl_rx_buffer'[g], up'[g])
        <3>1. CASE g = h
            BY <1>1, <2>1, <2>4, <3>1 DEF IInv, HciInv, HciTypes
        <3>2. CASE g # h
            <4>1. event_rx_buffer'[g] = event_rx_buffer[g] /\ pc'[g] = pc[g]
                BY <2>1, <2>3, <3>2 DEF IInv, HciInv, HciTypes
            <4> QED BY <1>1, <2>1, <4>1 DEF Opened
        <3> QED BY <3>1, <3>2
    <2> QED BY <2>5 DEF Opened
<1> QED BY <1>2, <1>3 DEF ReceiveStep

LEMMA SendStepOpened ==
    ASSUME IInv, Linked, Opened, NEW h \in Hosts, SendStep(h)
    PROVE  Opened'
<1>1. UNCHANGED link /\ pc[h] = "program" /\ Step(h).do = "send" /\ ControlTypes
    BY DEF SendStep, airVars, IInv
<1>2. ~ Asked(h) /\ step[h] # Len(Program[h])
    <2>1. step[h] <= Len(Program[h]) - 2 /\ step[h] \in Nat /\ Len(Program[h]) \in Nat
        BY <1>1, SendPlace, ProgramSteps DEF ControlTypes
    <2> QED BY <1>1, <2>1, SendPlace
<1>3. CASE AwaitCredit(h) /\ UNCHANGED <<pc, step>>
    BY <1>1, <1>2, <1>3, ReceiveOpened DEF AwaitCredit
<1>4. CASE SendCommand(h, Step(h).opcode) /\ NextStep(h)
    <2>1. UNCHANGED <<pc, event_rx_buffer, acl_rx_buffer, up>>
        BY <1>2, <1>4 DEF SendCommand, NextStep
    <2> QED BY <1>1, <2>1 DEF Opened, OpenedIn, HasComplete, ToldFirst
<1> QED BY <1>3, <1>4 DEF SendStep

(* In the loop a host has at most one packet in its data queue, and that   *)
(* one between looking for an event and looking for data.                  *)
LEMMA LoopEventOpened ==
    ASSUME IInv, Opened, NEW h \in Hosts, LoopEvent(h)
    PROVE  Opened'
<1>1. /\ UNCHANGED link /\ pc[h] = "event" /\ acl_rx_buffer[h] = <<>>
      /\ \A g \in Hosts : g # h => /\ pc'[g] = pc[g] /\ event_rx_buffer'[g] = event_rx_buffer[g]
                                   /\ acl_rx_buffer'[g] = acl_rx_buffer[g] /\ up'[g] = up[g]
    <2>1. UNCHANGED link /\ pc[h] = "event" /\ acl_rx_buffer[h] = <<>>
        BY DEF LoopEvent, airVars, Opened, OpenedIn
    <2>2. \A g \in Hosts : g # h => pc'[g] = pc[g]
        BY DEF LoopEvent, Goto, IInv, ControlTypes
    <2>3. \A g \in Hosts : g # h => /\ event_rx_buffer'[g] = event_rx_buffer[g]
                                   /\ acl_rx_buffer'[g] = acl_rx_buffer[g] /\ up'[g] = up[g]
        BY DEF LoopEvent, NoEventAsync, ReceiveEventAsync, Receive, HandOver, PopEvent, hciVars,
               IInv, HciInv, HciTypes
    <2> QED BY <2>1, <2>2, <2>3
<1>2. \/ pc'[h] \in {"acl", "closed"} /\ acl_rx_buffer'[h] = <<>>
      \/ pc'[h] = "acl" /\ Len(acl_rx_buffer'[h]) = 1
    <2>1. CASE NoEventAsync(h) /\ Goto(h, "acl")
        <3>1. pc'[h] = "acl"
            BY <2>1 DEF Goto, IInv, ControlTypes
        <3>2. CASE UNCHANGED hciVars
            BY <1>1, <3>1, <3>2 DEF hciVars
        <3>3. CASE Receive(h) /\ up[h] # <<>> /\ Head(up[h]).type = "acl"
            <4>1. acl_rx_buffer'[h] = Append(<<>>, Head(up[h]))
                BY <1>1, <3>3 DEF Receive, IInv, HciInv, HciTypes
            <4> QED BY <3>1, <4>1
        <3> QED BY <2>1, <3>2, <3>3 DEF NoEventAsync
    <2>2. CASE ReceiveEventAsync(h) /\ (Goto(h, "closed") \/ Goto(h, "acl"))
        <3>1. pc'[h] \in {"acl", "closed"}
            BY <2>2 DEF Goto, IInv, ControlTypes
        <3>2. UNCHANGED acl_rx_buffer
            BY <2>2 DEF ReceiveEventAsync, PopEvent, HandOver
        <3> QED BY <1>1, <3>1, <3>2
    <2> QED BY <2>1, <2>2 DEF LoopEvent
<1>3. OpenedIn(pc'[h], link', event_rx_buffer'[h], acl_rx_buffer'[h], up'[h])
    <2>1. pc'[h] \notin {"program", "event", "term"}
        BY <1>2
    <2>2. pc'[h] = "closed" => acl_rx_buffer'[h] = <<>>
        BY <1>2
    <2>3. Len(acl_rx_buffer'[h]) <= 1
        <3>1. CASE acl_rx_buffer'[h] = <<>>
            <4>1. Len(acl_rx_buffer'[h]) = 0
                BY <3>1
            <4> QED BY <4>1
        <3>2. CASE Len(acl_rx_buffer'[h]) = 1
            BY <3>2
        <3> QED BY <1>2, <3>1, <3>2
    <2> QED BY <2>1, <2>2, <2>3 DEF OpenedIn
<1>4. ASSUME NEW g \in Hosts, g # h
      PROVE  OpenedIn(pc'[g], link', event_rx_buffer'[g], acl_rx_buffer'[g], up'[g])
    BY <1>1, <1>4 DEF Opened
<1> QED BY <1>3, <1>4 DEF Opened

LEMMA LoopAclOpened ==
    ASSUME IInv, Opened, NEW h \in Hosts, LoopAcl(h)
    PROVE  Opened'
<1>1. UNCHANGED link /\ pc[h] = "acl" /\ pc'[h] = "term" /\ Len(acl_rx_buffer[h]) <= 1
      /\ acl_rx_buffer[h] \in Seq(AclPackets)
    BY DEF LoopAcl, Goto, airVars, Opened, OpenedIn, IInv, HciInv, HciTypes, ControlTypes
<1>2. \A g \in Hosts : g # h => pc'[g] = pc[g]
    BY DEF LoopAcl, Goto, IInv, ControlTypes
<1>3. \A g \in Hosts : g # h => /\ event_rx_buffer'[g] = event_rx_buffer[g]
                               /\ acl_rx_buffer'[g] = acl_rx_buffer[g] /\ up'[g] = up[g]
    BY DEF LoopAcl, NoAclAsync, ReceiveAclAsync, Receive, HandOver, PopAcl, hciVars,
           IInv, HciInv, HciTypes
<1>4. acl_rx_buffer'[h] = <<>>
    <2>1. CASE PopAcl(h)
        <3>1. acl_rx_buffer[h] # <<>> /\ acl_rx_buffer'[h] = Tail(acl_rx_buffer[h])
            BY <2>1 DEF PopAcl, IInv, HciInv, HciTypes
        <3> QED BY <1>1, <3>1, TailOfOne
    <2>2. CASE acl_rx_buffer[h] = <<>> /\ HandOver(h, "acl")
        BY <2>2 DEF HandOver
    <2>3. CASE NoAclAsync(h)
        <3>1. acl_rx_buffer[h] = <<>> /\ UNCHANGED acl_rx_buffer
            BY <2>3 DEF NoAclAsync, Receive, hciVars
        <3> QED BY <3>1
    <2> QED BY <2>1, <2>2, <2>3 DEF LoopAcl, ReceiveAclAsync
<1>5. OpenedIn(pc'[h], link', event_rx_buffer'[h], acl_rx_buffer'[h], up'[h])
    BY <1>1, <1>4 DEF OpenedIn
<1>6. ASSUME NEW g \in Hosts, g # h
      PROVE  OpenedIn(pc'[g], link', event_rx_buffer'[g], acl_rx_buffer'[g], up'[g])
    BY <1>1, <1>2, <1>3, <1>6 DEF Opened
<1> QED BY <1>5, <1>6 DEF Opened

LEMMA LoopTermOpened ==
    ASSUME IInv, Opened, NEW h \in Hosts, LoopTerm(h)
    PROVE  Opened'
<1>1. /\ UNCHANGED <<link, event_rx_buffer, acl_rx_buffer, up>>
      /\ pc[h] = "term" /\ pc' = [pc EXCEPT ![h] = "event"]
    BY DEF LoopTerm, Goto, airVars, SendAcl, hciVars
<1>2. ASSUME NEW g \in Hosts
      PROVE  OpenedIn(pc'[g], link', event_rx_buffer'[g], acl_rx_buffer'[g], up'[g])
    <2>1. OpenedIn(pc[g], link, event_rx_buffer[g], acl_rx_buffer[g], up[g])
        BY DEF Opened
    <2>2. pc'[g] = pc[g] \/ (pc[g] = "term" /\ pc'[g] = "event")
        BY <1>1 DEF IInv, ControlTypes
    <2> QED BY <1>1, <2>1, <2>2 DEF OpenedIn
<1> QED BY <1>2 DEF Opened

(* Packets come up the line, and data after the connection is complete.    *)
LEMMA UpOpened ==
    ASSUME IInv, Opened, NEW h \in Hosts, UNCHANGED <<pc, event_rx_buffer, acl_rx_buffer>>,
           NEW p \in Events \cup AclPackets,
           up'[h] = up[h] \/ up'[h] = Append(up[h], p),
           p.type = "acl" => link = "up",
           link' = "up" => link = "up" \/ (IsComplete(p) /\ up'[h] = Append(up[h], p))
    PROVE  OpenedIn(pc'[h], link', event_rx_buffer'[h], acl_rx_buffer'[h], up'[h])
<1>1. OpenedIn(pc[h], link, event_rx_buffer[h], acl_rx_buffer[h], up[h])
    BY DEF Opened
<1>2. /\ HasComplete(up[h]) => HasComplete(Append(up[h], p))
      /\ IsComplete(p) => HasComplete(Append(up[h], p))
      /\ ToldFirst(up[h]) /\ (p.type = "acl" => HasComplete(up[h])) => ToldFirst(Append(up[h], p))
    <2> DEFINE S == Events \cup AclPackets
               u == up[h]
    <2>1. u \in Seq(S) /\ p \in S
        BY DEF IInv, HciInv, HciTypes
    <2> HIDE DEF S, u
    <2>2. /\ HasComplete(u) => HasComplete(Append(u, p))
          /\ IsComplete(p) => HasComplete(Append(u, p))
          /\ ToldFirst(u) /\ (p.type = "acl" => HasComplete(u)) => ToldFirst(Append(u, p))
        BY <2>1, PacketComes
    <2> QED BY <2>2 DEF u
<1>3. ASSUME pc[h] = "program"
      PROVE  /\ link' = "up" => HasComplete(event_rx_buffer[h]) \/ HasComplete(up'[h])
             /\ HasComplete(event_rx_buffer[h]) \/ ToldFirst(up'[h])
    BY <1>1, <1>2, <1>3 DEF OpenedIn
<1> QED BY <1>1, <1>3 DEF OpenedIn

(* An answer is an event. *)
LEMMA ExecuteEvent ==
    ASSUME CommandSlots = 1, IInv, NEW h \in Hosts, Execute(h)
    PROVE  \E e \in Events : up' = [up EXCEPT ![h] = Append(up[h], e)]
<1>1. HciTypes'
    BY ExecuteInv DEF IInv, HciInv
<1>2. up'[h] \in Seq(Events \cup AclPackets) /\ up[h] \in Seq(Events \cup AclPackets)
    BY <1>1 DEF HciTypes, IInv, HciInv
<1>3. PICK c \in {"command_status", "command_complete"}, o \in {Head(inbox[h])},
           n \in {CommandSlots - Len(Tail(inbox[h]))} :
        up' = [up EXCEPT ![h] = Append(up[h], Event(c, o, TRUE, n))]
    <2>1. CASE Head(inbox[h]) \in Deferred
        BY <2>1 DEF Execute, Answer
    <2>2. CASE Head(inbox[h]) \notin Deferred
        BY <2>2 DEF Execute, Answer
    <2> QED BY <2>1, <2>2
<1>4. Event(c, o, TRUE, n) \in Events \cup AclPackets
    <2> DEFINE p == Event(c, o, TRUE, n)
    <2>1. up'[h] = Append(up[h], p)
        BY <1>3 DEF IInv, HciInv, HciTypes
    <2> HIDE DEF p
    <2>2. Len(Append(up[h], p)) = Len(up[h]) + 1 /\ Append(up[h], p)[Len(up[h]) + 1] = p
          /\ Len(up[h]) \in Nat
        BY <1>2, LenProperties
    <2>3. Len(up[h]) + 1 \in 1 .. Len(up'[h])
        BY <2>1, <2>2
    <2> QED BY <1>2, <2>1, <2>2, <2>3, ElementOfSeq DEF p
<1>5. Event(c, o, TRUE, n) \in Events
    BY <1>4 DEF Event, AclPackets
<1> QED BY <1>3, <1>5

LEMMA ControllerOpened ==
    ASSUME CommandSlots = 1, IInv, Opened, NEW h \in Hosts, Execute(h) \/ Deliver(h)
    PROVE  Opened'
<1>1. UNCHANGED <<pc, event_rx_buffer, acl_rx_buffer>>
    BY DEF Execute, Answer, Deliver, OverAir
<1>2. CASE Execute(h)
    <2>1. PICK e \in Events : up' = [up EXCEPT ![h] = Append(up[h], e)]
        BY <1>2, ExecuteEvent
    <2>2. link' = "up" => link = "up"
        BY <1>2 DEF Execute
    <2>3. ASSUME NEW g \in Hosts
          PROVE  OpenedIn(pc'[g], link', event_rx_buffer'[g], acl_rx_buffer'[g], up'[g])
        <3>1. up'[g] = up[g] \/ up'[g] = Append(up[g], e)
            BY <2>1 DEF IInv, HciInv, HciTypes
        <3>2. e.type # "acl" /\ e \in Events \cup AclPackets
            BY DEF Events
        <3> QED BY <1>1, <2>2, <3>1, <3>2, UpOpened
    <2> QED BY <2>3 DEF Opened
<1>3. CASE Deliver(h)
    <2>1. link = "up" /\ UNCHANGED link
        BY <1>3 DEF Deliver
    <2>2. PICK e \in Events : e = Event("number_of_completed_packets", NoOpcode, TRUE, 0)
        <3>1. 0 \in 0 .. CommandSlots
            BY SlotsAssumption
        <3> QED BY <3>1 DEF Event, Events, EventCodes
    <2>3. PICK p \in AclPackets : p = Head(acl_out[h])
        BY <1>3, TailFacts DEF Deliver, IInv, AirTypes
    <2>4. ASSUME NEW g \in Hosts
          PROVE  OpenedIn(pc'[g], link', event_rx_buffer'[g], acl_rx_buffer'[g], up'[g])
        <3>1. up'[g] = Append(up[g], p) \/ up'[g] = Append(up[g], e)
            <4>1. g = h \/ g = Peer(h)
                BY PeerAssumption DEF Peer
            <4> QED BY <1>3, <2>2, <2>3, <4>1, PeerFacts DEF Deliver, IInv, HciInv, HciTypes
        <3>2. e \in Events \cup AclPackets /\ p \in Events \cup AclPackets
            OBVIOUS
        <3> QED BY <1>1, <2>1, <3>1, <3>2, UpOpened
    <2> QED BY <2>4 DEF Opened
<1> QED BY <1>2, <1>3

LEMMA AirOpened ==
    ASSUME CommandSlots = 1, IInv, Opened, PageHeard \/ Established \/ PageFails \/ LinkLost
    PROVE  Opened'
<1>1. UNCHANGED <<pc, event_rx_buffer, acl_rx_buffer>>
    BY DEF PageHeard, Established, PageFails, LinkLost, OverAir
<1>2. PICK to \in SUBSET Hosts,
           code \in {"connection_request", "connection_complete", "disconnection_complete"},
           ok \in BOOLEAN :
           /\ Notify(to, code, ok)
           /\ link' = "up" => code = "connection_complete" /\ ok /\ to = Hosts
    <2>1. {Alice} \in SUBSET Hosts /\ {Bob} \in SUBSET Hosts /\ Hosts \in SUBSET Hosts
        BY PeerAssumption
    <2>2. CASE PageHeard
        BY <2>1, <2>2 DEF PageHeard
    <2>3. CASE Established
        BY <2>1, <2>3 DEF Established
    <2>4. CASE PageFails
        <3>1. Notify({Alice}, "connection_complete", FALSE)
                \/ Notify(Hosts, "connection_complete", FALSE)
            BY <2>4, Zenon DEF PageFails
        <3>2. link' # "up"
            BY <2>4 DEF PageFails
        <3> QED BY <2>1, <3>1, <3>2
    <2>5. CASE LinkLost
        BY <2>1, <2>5 DEF LinkLost
    <2> QED BY <2>2, <2>3, <2>4, <2>5
<1>3. PICK e \in Events : e = Event(code, NoOpcode, ok, 0)
    <2>1. 0 \in 0 .. CommandSlots
        BY SlotsAssumption
    <2> QED BY <2>1 DEF Event, Events, EventCodes
<1>4. ASSUME NEW g \in Hosts
      PROVE  OpenedIn(pc'[g], link', event_rx_buffer'[g], acl_rx_buffer'[g], up'[g])
    <2>1. up'[g] = IF g \in to THEN Append(up[g], e) ELSE up[g]
        BY <1>2, <1>3 DEF Notify
    <2>2. e.type = "event" /\ e.code = code /\ e.ok = ok /\ e \in Events \cup AclPackets
        BY <1>3 DEF Event
    <2>3. link' = "up" => IsComplete(e) /\ up'[g] = Append(up[g], e)
        BY <1>2, <2>1, <2>2 DEF IsComplete
    <2>4. up'[g] = up[g] \/ up'[g] = Append(up[g], e)
        BY <2>1
    <2>5. e.type # "acl"
        BY <2>2
    <2> QED BY <1>1, <2>2, <2>3, <2>4, <2>5, UpOpened
<1> QED BY <1>4 DEF Opened

LEMMA OpenedInit == Init => Opened
<1> SUFFICES ASSUME Init PROVE Opened
    OBVIOUS
<1>1. ASSUME NEW h \in Hosts
      PROVE  /\ pc[h] = "program" /\ link = "none" /\ acl_rx_buffer[h] = <<>>
             /\ ToldFirst(up[h])
    <2>1. pc[h] = "program" /\ link = "none" /\ acl_rx_buffer[h] = <<>> /\ up[h] = <<>>
        BY DEF Init, HciInit
    <2>2. 1 .. Len(up[h]) = {}
        BY <2>1
    <2> QED BY <2>1, <2>2 DEF ToldFirst
<1> QED BY <1>1 DEF Opened, OpenedIn

LEMMA OpenedStays == CommandSlots = 1 /\ IInv /\ Linked /\ Opened /\ [Next]_vars => Opened'
<1> SUFFICES ASSUME CommandSlots = 1, IInv, Linked, Opened, [Next]_vars PROVE Opened'
    OBVIOUS
<1>1. ASSUME NEW h \in Hosts, Host(h) PROVE Opened'
    BY <1>1, SendStepOpened, ReceiveStepOpened, LoopEventOpened, LoopAclOpened, LoopTermOpened
       DEF Host
<1>2. ASSUME UNCHANGED <<pc, link, event_rx_buffer, acl_rx_buffer, up>> PROVE Opened'
    BY <1>2 DEF Opened, OpenedIn, HasComplete, ToldFirst
<1>3. ASSUME NEW h \in Hosts, Controller(h) PROVE Opened'
    <2>1. CASE Intake(h) /\ UNCHANGED <<pc, step, typed, shown, airVars>>
        <3>1. UNCHANGED <<pc, link, event_rx_buffer, acl_rx_buffer, up>>
            BY <2>1 DEF Intake, airVars
        <3> QED BY <1>2, <3>1
    <2>2. CASE TakeAcl(h)
        <3>1. UNCHANGED <<pc, link, event_rx_buffer, acl_rx_buffer, up>>
            BY <2>2 DEF TakeAcl, OverAir
        <3> QED BY <1>2, <3>1
    <2>3. CASE Execute(h) \/ Deliver(h)
        BY <2>3, ControllerOpened
    <2> QED BY <1>3, <2>1, <2>2, <2>3 DEF Controller
<1>4. CASE Air \/ LinkLost
    BY <1>4, AirOpened DEF Air
<1>5. CASE UNCHANGED vars
    <2>1. UNCHANGED <<pc, link, event_rx_buffer, acl_rx_buffer, up>>
        BY <1>5 DEF vars, hciVars, airVars
    <2> QED BY <1>2, <2>1
<1> QED BY <1>1, <1>3, <1>4, <1>5 DEF Next

(* A host that stops at the disconnection has printed all that it had      *)
(* received: in the loop it never has more than the packet it is about to  *)
(* print, and before the loop it has none.                                 *)
THEOREM AllIsRead ==
    ASSUME CommandSlots = 1
    PROVE  Spec => []NothingUnread
<1> DEFINE Inv == IInv /\ Linked /\ Opened
<1>1. Init => Inv
    BY InitInv, LinkedInit, OpenedInit
<1>2. Inv /\ [Next]_vars => Inv'
    BY Invariance, LinkedStays, OpenedStays
<1>3. Inv => NothingUnread
    BY DEF Opened, OpenedIn, NothingUnread
<1> QED BY <1>1, <1>2, <1>3, PTL DEF Spec

----------------------------------------------------------------------------
(* The bytes on their way.  What has been typed at one host and not yet    *)
(* shown at the other is in the queues between, in order: each packet      *)
(* begins after the last byte of the packet before it, and what is between *)
(* the two, if anything, has been lost.                                    *)

\* All bytes after a and up to b are in L, the bytes that were lost.
Gap(L, a, b) == a <= b /\ \A n \in a + 1 .. b : n \in L

\* Packet p takes the stream from byte a to byte b.
Spans(L, p, a, b) ==
    IF p.type = "acl" THEN \E s \in Nat : Gap(L, a, s) /\ s < b /\ p.data = Batch(s, b - s)
                      ELSE b = a

\* The packets of q take the stream from a to b: f is where it is after each.
Leads(L, f, q, a, b) ==
    /\ f \in [0 .. Len(q) -> Nat] /\ f[0] = a /\ f[Len(q)] = b
    /\ \A i \in 1 .. Len(q) : Spans(L, q[i], f[i - 1], f[i])
    /\ \A i, j \in 0 .. Len(q) : i <= j => f[i] <= f[j]

Covers(L, q, a, b) == \E f \in [0 .. Len(q) -> Nat] : Leads(L, f, q, a, b)

LEMMA NothingCovers ==
    ASSUME NEW L
    PROVE  /\ \A a \in Nat : Covers(L, <<>>, a, a)
           /\ \A a, b : Covers(L, <<>>, a, b) => a = b /\ a \in Nat
<1>1. ASSUME NEW a \in Nat PROVE Covers(L, <<>>, a, a)
    <2> DEFINE f == [i \in 0 .. 0 |-> a]
    <2>1. Len(<<>>) = 0 /\ 1 .. 0 = {} /\ 0 .. 0 = {0}
        OBVIOUS
    <2>2. f \in [0 .. Len(<<>>) -> Nat] /\ f[0] = a
        BY <2>1
    <2> HIDE DEF f
    <2>3. Leads(L, f, <<>>, a, a)
        BY <2>1, <2>2 DEF Leads
    <2> QED BY <2>2, <2>3 DEF Covers
<1>2. ASSUME NEW a, NEW b, Covers(L, <<>>, a, b) PROVE a = b /\ a \in Nat
    BY <1>2 DEF Covers, Leads
<1> QED BY <1>1, <1>2

LEMMA CoversBounds ==
    ASSUME NEW L, NEW S, NEW q \in Seq(S), NEW a, NEW b, Covers(L, q, a, b)
    PROVE  a \in Nat /\ b \in Nat /\ a <= b
<1>1. PICK f \in [0 .. Len(q) -> Nat] : Leads(L, f, q, a, b)
    BY DEF Covers
<1>2. Len(q) \in Nat /\ 0 \in 0 .. Len(q) /\ Len(q) \in 0 .. Len(q)
    BY LenProperties
<1>3. f[0] \in Nat /\ f[Len(q)] \in Nat /\ f[0] = a /\ f[Len(q)] = b
    BY <1>1, <1>2 DEF Leads
<1>4. f[0] <= f[Len(q)]
    BY <1>1, <1>2 DEF Leads
<1> QED BY <1>3, <1>4

LEMMA CoversTail ==
    ASSUME NEW L, NEW S, NEW q \in Seq(S), NEW a, NEW b, Covers(L, q, a, b), q # <<>>
    PROVE  \E m \in Nat : Spans(L, Head(q), a, m) /\ Covers(L, Tail(q), m, b)
<1>1. PICK f \in [0 .. Len(q) -> Nat] : Leads(L, f, q, a, b)
    BY DEF Covers
<1> DEFINE n == Len(q) - 1
           g == [i \in 0 .. n |-> f[i + 1]]
           t == Tail(q)
<1>2. /\ Len(q) \in Nat /\ Len(q) > 0 /\ Head(q) = q[1] /\ Len(t) = n /\ n \in Nat
      /\ \A i \in 1 .. n : t[i] = q[i + 1]
    BY TailFacts
<1>3. /\ f[0] = a /\ f[Len(q)] = b
      /\ \A i \in 1 .. Len(q) : Spans(L, q[i], f[i - 1], f[i])
      /\ \A i, j \in 0 .. Len(q) : i <= j => f[i] <= f[j]
    BY <1>1 DEF Leads
<1>4. g \in [0 .. n -> Nat] /\ g[0] = f[1] /\ g[n] = b /\ f[1] \in Nat
    BY <1>2, <1>3
<1>5. Spans(L, Head(q), a, f[1])
    <2>1. Spans(L, q[1], f[1 - 1], f[1])
        BY <1>2, <1>3
    <2> QED BY <1>2, <1>3, <2>1
<1>6. ASSUME NEW i \in 1 .. n PROVE Spans(L, t[i], g[i - 1], g[i])
    <2>1. i + 1 \in 1 .. Len(q) /\ (i + 1) - 1 = i
        BY <1>2
    <2>2. Spans(L, q[i + 1], f[i], f[i + 1])
        BY <1>3, <2>1
    <2>3. g[i - 1] = f[i] /\ g[i] = f[i + 1] /\ t[i] = q[i + 1]
        BY <1>2
    <2> QED BY <2>2, <2>3
<1>7. ASSUME NEW i \in 0 .. n, NEW j \in 0 .. n, i <= j
      PROVE  g[i] <= g[j]
    <2>1. i + 1 \in 0 .. Len(q) /\ j + 1 \in 0 .. Len(q) /\ i + 1 <= j + 1
        BY <1>2, <1>7
    <2>2. f[i + 1] <= f[j + 1]
        BY <1>3, <2>1
    <2>3. g[i] = f[i + 1] /\ g[j] = f[j + 1]
        BY <1>2
    <2> QED BY <2>2, <2>3
<1> HIDE DEF g, n
<1>8. Leads(L, g, t, f[1], b)
    BY <1>2, <1>4, <1>6, <1>7 DEF Leads
<1>9. Covers(L, t, f[1], b)
    BY <1>2, <1>4, <1>8 DEF Covers
<1> QED BY <1>4, <1>5, <1>9

LEMMA CoversAppend ==
    ASSUME NEW L, NEW S, NEW q \in Seq(S), NEW p \in S, NEW a, NEW b, NEW m \in Nat,
           Covers(L, q, a, b), Spans(L, p, b, m)
    PROVE  Covers(L, Append(q, p), a, m)
<1>1. PICK f \in [0 .. Len(q) -> Nat] : Leads(L, f, q, a, b)
    BY DEF Covers
<1> DEFINE n == Len(q)
           r == Append(q, p)
           g == [i \in 0 .. n + 1 |-> IF i = n + 1 THEN m ELSE f[i]]
<1>2. /\ n \in Nat /\ Len(r) = n + 1 /\ r[n + 1] = p
      /\ \A i \in 1 .. n : r[i] = q[i]
    BY AppendProperties, LenProperties
<1>3. /\ f[0] = a /\ f[n] = b /\ f[n] \in Nat
      /\ \A i \in 1 .. n : Spans(L, q[i], f[i - 1], f[i])
      /\ \A i, j \in 0 .. n : i <= j => f[i] <= f[j]
    BY <1>1, <1>2 DEF Leads
<1>4. b <= m
    BY <1>3 DEF Spans, Gap
<1>5. /\ g \in [0 .. n + 1 -> Nat] /\ g[0] = a /\ g[n + 1] = m
      /\ \A i \in 0 .. n : g[i] = f[i] /\ f[i] \in Nat
    BY <1>2, <1>3
<1>6. ASSUME NEW i \in 1 .. n + 1 PROVE Spans(L, r[i], g[i - 1], g[i])
    <2>1. CASE i = n + 1
        <3>1. i - 1 = n /\ n \in 0 .. n
            BY <1>2, <2>1
        <3>2. g[i - 1] = b /\ g[i] = m /\ r[i] = p
            BY <1>2, <1>3, <1>5, <2>1, <3>1
        <3> QED BY <3>2
    <2>2. CASE i # n + 1
        <3>1. i \in 1 .. n /\ i \in 0 .. n /\ i - 1 \in 0 .. n
            BY <1>2, <2>2
        <3>2. g[i - 1] = f[i - 1] /\ g[i] = f[i] /\ r[i] = q[i]
            BY <1>2, <1>5, <3>1
        <3> QED BY <1>3, <3>1, <3>2
    <2> QED BY <2>1, <2>2
<1>7. ASSUME NEW i \in 0 .. n + 1, NEW j \in 0 .. n + 1, i <= j
      PROVE  g[i] <= g[j]
    <2>1. CASE j # n + 1
        <3>1. i \in 0 .. n /\ j \in 0 .. n
            BY <1>2, <1>7, <2>1
        <3> QED BY <1>3, <1>5, <1>7, <3>1
    <2>2. CASE j = n + 1 /\ i = n + 1
        <3>1. g[i] = g[j] /\ g[i] \in Nat
            BY <1>2, <1>5, <2>2
        <3> QED BY <3>1
    <2>3. CASE j = n + 1 /\ i # n + 1
        <3>1. i \in 0 .. n /\ n \in 0 .. n /\ i <= n
            BY <1>2, <2>3
        <3>2. f[i] <= b /\ f[i] \in Nat
            BY <1>3, <1>5, <3>1
        <3>3. g[i] = f[i] /\ g[j] = m
            BY <1>5, <2>3, <3>1
        <3> QED BY <1>3, <1>4, <3>2, <3>3
    <2> QED BY <2>1, <2>2, <2>3
<1> HIDE DEF g, n, r
<1>8. Leads(L, g, r, a, m)
    BY <1>2, <1>5, <1>6, <1>7 DEF Leads
<1>9. Covers(L, r, a, m)
    BY <1>2, <1>5, <1>8 DEF Covers
<1> QED BY <1>9 DEF r

(* What grows when more is lost. *)
LEMMA LosesMore ==
    ASSUME NEW L, NEW M, L \subseteq M, NEW q, NEW a, NEW b, Covers(L, q, a, b)
    PROVE  Covers(M, q, a, b)
<1>1. PICK f \in [0 .. Len(q) -> Nat] : Leads(L, f, q, a, b)
    BY DEF Covers
<1>2. \A p, x, y : Spans(L, p, x, y) => Spans(M, p, x, y)
    BY DEF Spans, Gap
<1>3. Leads(M, f, q, a, b)
    BY <1>1, <1>2 DEF Leads
<1> QED BY <1>3 DEF Covers

(* The stream to a host that has shown byte n last: a is its data queue, u *)
(* its line, o the packets its peer's controller holds, d the peer's line, *)
(* t what the peer has typed.  The controller loses packets between o and  *)
(* d.  Of the last two nothing is said once the link is down.              *)
Ahead(L, c, o, d, t) ==
    \E e, g \in Nat : Covers(L, o, c, e) /\ Gap(L, e, g) /\ Covers(L, d, g, t)

FlowIn(L, l, n, a, u, o, d, t) ==
    \E b, c \in Nat : /\ Covers(L, a, n, b) /\ Covers(L, u, b, c)
                      /\ l # "down" => Ahead(L, c, o, d, t)

LastOf(s) == IF s = <<>> THEN 0 ELSE s[Len(s)]

InOrder(L, s) ==
    \A i \in DOMAIN s :
        LET before == IF i = 1 THEN 0 ELSE s[i - 1] IN
        before < s[i] /\ \A n \in before + 1 .. s[i] - 1 : n \in L

Flow(h) == FlowIn(lost[Peer(h)], link, LastOf(shown[h]), acl_rx_buffer[h], up[h],
                  acl_out[Peer(h)], down[Peer(h)], typed[Peer(h)])

Streams == \A h \in Hosts :
    Flow(h) /\ InOrder(lost[Peer(h)], shown[h]) /\ (~ LinkMade => typed[h] = 0)

(* What happens to a stream. *)

LEMMA LinkChanges ==
    ASSUME NEW L, NEW l, NEW k, NEW n, NEW a, NEW u, NEW o, NEW d, NEW t,
           NEW oo, NEW dd, NEW tt,
           FlowIn(L, l, n, a, u, o, d, t), k = "down" \/ (l # "down" /\ oo = o /\ dd = d /\ tt = t)
    PROVE  FlowIn(L, k, n, a, u, oo, dd, tt)
    BY DEF FlowIn

LEMMA OtherTakenUp ==
    ASSUME NEW L, NEW S, NEW l, NEW n, NEW a, NEW u \in Seq(S), NEW o, NEW d, NEW t,
           u # <<>>, Head(u).type # "acl", FlowIn(L, l, n, a, u, o, d, t)
    PROVE  FlowIn(L, l, n, a, Tail(u), o, d, t)
<1>1. PICK b \in Nat, c \in Nat : /\ Covers(L, a, n, b) /\ Covers(L, u, b, c)
                                  /\ l # "down" => Ahead(L, c, o, d, t)
    BY DEF FlowIn
<1>2. PICK m \in Nat : Spans(L, Head(u), b, m) /\ Covers(L, Tail(u), m, c)
    BY <1>1, CoversTail
<1>3. m = b
    BY <1>2 DEF Spans
<1> QED BY <1>1, <1>2, <1>3 DEF FlowIn

LEMMA DataReceived ==
    ASSUME NEW L, NEW S, NEW l, NEW n, NEW a \in Seq(S), NEW u \in Seq(S), NEW o, NEW d, NEW t,
           u # <<>>, FlowIn(L, l, n, a, u, o, d, t)
    PROVE  FlowIn(L, l, n, Append(a, Head(u)), Tail(u), o, d, t)
<1>1. PICK b \in Nat, c \in Nat : /\ Covers(L, a, n, b) /\ Covers(L, u, b, c)
                                  /\ l # "down" => Ahead(L, c, o, d, t)
    BY DEF FlowIn
<1>2. PICK m \in Nat : Spans(L, Head(u), b, m) /\ Covers(L, Tail(u), m, c)
    BY <1>1, CoversTail
<1>3. Head(u) \in S
    BY TailFacts
<1>4. Covers(L, Append(a, Head(u)), n, m)
    BY <1>1, <1>2, <1>3, CoversAppend
<1> QED BY <1>1, <1>2, <1>4 DEF FlowIn

LEMMA DataShown ==
    ASSUME NEW L, NEW S, NEW l, NEW n, NEW a \in Seq(S), NEW u, NEW o, NEW d, NEW t,
           a # <<>>, FlowIn(L, l, n, a, u, o, d, t)
    PROVE  \E m \in Nat : Spans(L, Head(a), n, m) /\ FlowIn(L, l, m, Tail(a), u, o, d, t)
<1>1. PICK b \in Nat, c \in Nat : /\ Covers(L, a, n, b) /\ Covers(L, u, b, c)
                                  /\ l # "down" => Ahead(L, c, o, d, t)
    BY DEF FlowIn
<1>2. PICK m \in Nat : Spans(L, Head(a), n, m) /\ Covers(L, Tail(a), m, b)
    BY <1>1, CoversTail
<1> QED BY <1>1, <1>2 DEF FlowIn

LEMMA DataShownAtOnce ==
    ASSUME NEW L, NEW S, NEW l, NEW n, NEW u \in Seq(S), NEW o, NEW d, NEW t,
           u # <<>>, FlowIn(L, l, n, <<>>, u, o, d, t)
    PROVE  \E m \in Nat : Spans(L, Head(u), n, m) /\ FlowIn(L, l, m, <<>>, Tail(u), o, d, t)
<1>1. PICK b \in Nat, c \in Nat : /\ Covers(L, <<>>, n, b) /\ Covers(L, u, b, c)
                                  /\ l # "down" => Ahead(L, c, o, d, t)
    BY DEF FlowIn
<1>2. n = b
    BY <1>1, NothingCovers
<1>3. PICK m \in Nat : Spans(L, Head(u), n, m) /\ Covers(L, Tail(u), m, c)
    BY <1>1, <1>2, CoversTail
<1>4. Covers(L, <<>>, m, m)
    BY NothingCovers
<1> QED BY <1>1, <1>3, <1>4 DEF FlowIn

LEMMA OtherSentUp ==
    ASSUME NEW L, NEW S, NEW l, NEW n, NEW a, NEW u \in Seq(S), NEW o, NEW d, NEW t, NEW p \in S,
           p.type # "acl", FlowIn(L, l, n, a, u, o, d, t)
    PROVE  FlowIn(L, l, n, a, Append(u, p), o, d, t)
<1>1. PICK b \in Nat, c \in Nat : /\ Covers(L, a, n, b) /\ Covers(L, u, b, c)
                                  /\ l # "down" => Ahead(L, c, o, d, t)
    BY DEF FlowIn
<1>2. Spans(L, p, c, c)
    BY DEF Spans
<1>3. Covers(L, Append(u, p), b, c)
    BY <1>1, <1>2, CoversAppend
<1> QED BY <1>1, <1>3 DEF FlowIn

LEMMA DataDelivered ==
    ASSUME NEW L, NEW S, NEW l, NEW n, NEW a, NEW u \in Seq(S), NEW o \in Seq(S), NEW d, NEW t,
           o # <<>>, l # "down", FlowIn(L, l, n, a, u, o, d, t)
    PROVE  FlowIn(L, l, n, a, Append(u, Head(o)), Tail(o), d, t)
<1>1. PICK b \in Nat, c \in Nat : Covers(L, a, n, b) /\ Covers(L, u, b, c) /\ Ahead(L, c, o, d, t)
    BY DEF FlowIn
<1>2. PICK e \in Nat, g \in Nat : Covers(L, o, c, e) /\ Gap(L, e, g) /\ Covers(L, d, g, t)
    BY <1>1 DEF Ahead
<1>3. PICK m \in Nat : Spans(L, Head(o), c, m) /\ Covers(L, Tail(o), m, e)
    BY <1>2, CoversTail
<1>4. Head(o) \in S
    BY TailFacts
<1>5. Covers(L, Append(u, Head(o)), b, m)
    BY <1>1, <1>3, <1>4, CoversAppend
<1> QED BY <1>1, <1>2, <1>3, <1>5 DEF FlowIn, Ahead

(* A gap before a packet makes it begin later. *)
LEMMA GapBefore ==
    ASSUME NEW L, NEW p, p.type = "acl", NEW e \in Nat, NEW g \in Nat, NEW m \in Nat,
           Gap(L, e, g), Spans(L, p, g, m)
    PROVE  Spans(L, p, e, m)
<1>1. PICK s \in Nat : Gap(L, g, s) /\ s < m /\ p.data = Batch(s, m - s)
    BY DEF Spans
<1>2. Gap(L, e, s)
    BY <1>1 DEF Gap
<1> QED BY <1>1, <1>2 DEF Spans

LEMMA DataTaken ==
    ASSUME NEW L, NEW S, NEW l, NEW n, NEW a, NEW u, NEW o \in Seq(S), NEW d \in Seq(S), NEW t,
           d # <<>>, Head(d).type = "acl", FlowIn(L, l, n, a, u, o, d, t)
    PROVE  FlowIn(L, l, n, a, u, Append(o, Head(d)), Tail(d), t)
<1>1. PICK b \in Nat, c \in Nat : /\ Covers(L, a, n, b) /\ Covers(L, u, b, c)
                                  /\ l # "down" => Ahead(L, c, o, d, t)
    BY DEF FlowIn
<1>2. ASSUME Ahead(L, c, o, d, t) PROVE Ahead(L, c, Append(o, Head(d)), Tail(d), t)
    <2>1. PICK e \in Nat, g \in Nat : Covers(L, o, c, e) /\ Gap(L, e, g) /\ Covers(L, d, g, t)
        BY <1>2 DEF Ahead
    <2>2. PICK m \in Nat : Spans(L, Head(d), g, m) /\ Covers(L, Tail(d), m, t)
        BY <2>1, CoversTail
    <2>3. Head(d) \in S
        BY TailFacts
    <2>4. Spans(L, Head(d), e, m)
        BY <2>1, <2>2, GapBefore
    <2>5. Covers(L, Append(o, Head(d)), c, m)
        BY <2>1, <2>3, <2>4, CoversAppend
    <2>6. Gap(L, m, m)
        BY DEF Gap
    <2> QED BY <2>2, <2>5, <2>6 DEF Ahead
<1> QED BY <1>1, <1>2 DEF FlowIn

(* A packet for which there is no room leaves a gap. *)
LEMMA DataLost ==
    ASSUME NEW L, NEW S, NEW l, NEW n, NEW a, NEW u, NEW o, NEW d \in Seq(S), NEW t,
           d # <<>>, Head(d).type = "acl", FlowIn(L, l, n, a, u, o, d, t)
    PROVE  FlowIn(L \cup BytesOf(Head(d)), l, n, a, u, o, Tail(d), t)
<1> DEFINE M == L \cup BytesOf(Head(d))
<1>1. PICK b \in Nat, c \in Nat : /\ Covers(L, a, n, b) /\ Covers(L, u, b, c)
                                  /\ l # "down" => Ahead(L, c, o, d, t)
    BY DEF FlowIn
<1>2. ASSUME Ahead(L, c, o, d, t) PROVE Ahead(M, c, o, Tail(d), t)
    <2>1. PICK e \in Nat, g \in Nat : Covers(L, o, c, e) /\ Gap(L, e, g) /\ Covers(L, d, g, t)
        BY <1>2 DEF Ahead
    <2>2. PICK m \in Nat : Spans(L, Head(d), g, m) /\ Covers(L, Tail(d), m, t)
        BY <2>1, CoversTail
    <2>3. PICK s \in Nat : Gap(L, g, s) /\ s < m /\ Head(d).data = Batch(s, m - s)
        BY <2>2 DEF Spans
    <2>4. \A x \in s + 1 .. m : x \in BytesOf(Head(d))
        <3> SUFFICES ASSUME NEW x \in s + 1 .. m PROVE x \in BytesOf(Head(d))
            OBVIOUS
        <3>1. x - s \in 1 .. m - s /\ s + (x - s) = x
            BY <2>3
        <3>2. x - s \in DOMAIN Batch(s, m - s) /\ Batch(s, m - s)[x - s] = x
            BY <3>1 DEF Batch
        <3> QED BY <2>3, <3>2 DEF BytesOf
    <2>5. Gap(M, e, m)
        <3>1. e <= m
            BY <2>1, <2>3 DEF Gap
        <3>2. ASSUME NEW x \in e + 1 .. m PROVE x \in M
            <4>1. x \in e + 1 .. g \/ x \in g + 1 .. s \/ x \in s + 1 .. m
                BY <2>1, <2>3 DEF Gap
            <4> QED BY <2>1, <2>3, <2>4, <4>1 DEF Gap
        <3> QED BY <3>1, <3>2 DEF Gap
    <2>6. Covers(M, o, c, e) /\ Covers(M, Tail(d), m, t)
        BY <2>1, <2>2, LosesMore
    <2> QED BY <2>5, <2>6 DEF Ahead
<1>3. Covers(M, a, n, b) /\ Covers(M, u, b, c)
    BY <1>1, LosesMore
<1> QED BY <1>1, <1>2, <1>3 DEF FlowIn

LEMMA OtherTakenDown ==
    ASSUME NEW L, NEW S, NEW l, NEW n, NEW a, NEW u, NEW o, NEW d \in Seq(S), NEW t,
           d # <<>>, Head(d).type # "acl", FlowIn(L, l, n, a, u, o, d, t)
    PROVE  FlowIn(L, l, n, a, u, o, Tail(d), t)
<1>1. PICK b \in Nat, c \in Nat : /\ Covers(L, a, n, b) /\ Covers(L, u, b, c)
                                  /\ l # "down" => Ahead(L, c, o, d, t)
    BY DEF FlowIn
<1>2. ASSUME Ahead(L, c, o, d, t) PROVE Ahead(L, c, o, Tail(d), t)
    <2>1. PICK e \in Nat, g \in Nat : Covers(L, o, c, e) /\ Gap(L, e, g) /\ Covers(L, d, g, t)
        BY <1>2 DEF Ahead
    <2>2. PICK m \in Nat : Spans(L, Head(d), g, m) /\ Covers(L, Tail(d), m, t)
        BY <2>1, CoversTail
    <2>3. m = g
        BY <2>2 DEF Spans
    <2> QED BY <2>1, <2>2, <2>3 DEF Ahead
<1> QED BY <1>1, <1>2 DEF FlowIn

LEMMA SentDown ==
    ASSUME NEW L, NEW S, NEW l, NEW n, NEW a, NEW u, NEW o, NEW d \in Seq(S), NEW t, NEW p \in S,
           NEW m \in Nat, Spans(L, p, t, m), FlowIn(L, l, n, a, u, o, d, t)
    PROVE  FlowIn(L, l, n, a, u, o, Append(d, p), m)
<1>1. PICK b \in Nat, c \in Nat : /\ Covers(L, a, n, b) /\ Covers(L, u, b, c)
                                  /\ l # "down" => Ahead(L, c, o, d, t)
    BY DEF FlowIn
<1>2. ASSUME Ahead(L, c, o, d, t) PROVE Ahead(L, c, o, Append(d, p), m)
    <2>1. PICK e \in Nat, g \in Nat : Covers(L, o, c, e) /\ Gap(L, e, g) /\ Covers(L, d, g, t)
        BY <1>2 DEF Ahead
    <2>2. Covers(L, Append(d, p), g, m)
        BY <2>1, CoversAppend
    <2> QED BY <2>1, <2>2 DEF Ahead
<1> QED BY <1>1, <1>2 DEF FlowIn

(* Data waits to be taken only when something has been typed.               *)
LEMMA DataWasTyped ==
    ASSUME NEW L, NEW S, NEW l, NEW n, NEW a, NEW u, NEW o, NEW d \in Seq(S), NEW t,
           d # <<>>, Head(d).type = "acl", l # "down", FlowIn(L, l, n, a, u, o, d, t)
    PROVE  t # 0
<1>1. PICK c \in Nat : Ahead(L, c, o, d, t)
    BY DEF FlowIn
<1>2. PICK g \in Nat : Covers(L, d, g, t)
    BY <1>1 DEF Ahead
<1>3. PICK m \in Nat : Spans(L, Head(d), g, m) /\ Covers(L, Tail(d), m, t)
    BY <1>2, CoversTail
<1>4. Tail(d) \in Seq(S)
    BY TailFacts
<1>5. m <= t /\ t \in Nat
    BY <1>3, <1>4, CoversBounds
<1>6. 0 < m
    BY <1>3 DEF Spans
<1> QED BY <1>5, <1>6

LEMMA ShowInOrder ==
    ASSUME NEW L, NEW s \in Seq(Nat), InOrder(L, s), NEW m \in Nat, NEW p, p.type = "acl",
           Spans(L, p, LastOf(s), m), p.data \in Seq(Nat)
    PROVE  InOrder(L, s \o p.data) /\ LastOf(s \o p.data) = m
<1> DEFINE n == Len(s)
           last == LastOf(s)
           d == p.data
           r == s \o d
<1>1. n \in Nat /\ d \in Seq(Nat) /\ DOMAIN s = 1 .. n
    BY LenProperties
<1>2. PICK k \in Nat : Gap(L, last, k) /\ k < m /\ d = Batch(k, m - k)
    BY DEF Spans
<1>3. Len(d) = m - k /\ \A i \in 1 .. m - k : d[i] = k + i
    BY <1>1, <1>2 DEF Batch
<1>4. /\ n = 0 => last = 0
      /\ n > 0 => last = s[n]
    <2>1. n = 0 <=> s = <<>>
        BY EmptySeq
    <2> QED BY <1>1, <2>1 DEF LastOf
<1>5. last \in Nat /\ last <= k /\ \A x \in last + 1 .. k : x \in L
    <2>1. n > 0 => s[n] \in Nat
        BY <1>1, ElementOfSeq
    <2>2. last \in Nat
        BY <1>1, <1>4, <2>1
    <2> QED BY <1>2, <2>2 DEF Gap
<1> HIDE DEF d
<1>6. /\ r \in Seq(Nat) /\ Len(r) = n + Len(d)
      /\ \A i \in 1 .. n + Len(d) : r[i] = IF i <= n THEN s[i] ELSE d[i - n]
    BY <1>1, ConcatProperties
<1> HIDE DEF n, last, r
<1>7. /\ Len(r) = n + (m - k) /\ DOMAIN r = 1 .. n + (m - k)
      /\ \A i \in 1 .. n : r[i] = s[i]
      /\ \A i \in n + 1 .. n + (m - k) : r[i] = k + (i - n)
    <2>1. Len(r) = n + (m - k) /\ DOMAIN r = 1 .. Len(r)
        BY <1>3, <1>6, LenProperties
    <2>2. ASSUME NEW i \in 1 .. n PROVE r[i] = s[i]
        <3>1. i \in 1 .. n + Len(d) /\ i <= n
            BY <1>1, <1>2, <1>3
        <3> QED BY <1>6, <3>1
    <2>3. ASSUME NEW i \in n + 1 .. n + (m - k) PROVE r[i] = k + (i - n)
        <3>1. i \in 1 .. n + Len(d) /\ ~ (i <= n) /\ i - n \in 1 .. m - k
            BY <1>1, <1>2, <1>3
        <3>2. r[i] = d[i - n]
            BY <1>6, <3>1
        <3> QED BY <1>3, <3>1, <3>2
    <2> QED BY <2>1, <2>2, <2>3
<1>8. LastOf(r) = m
    <2>1. n + (m - k) \in n + 1 .. n + (m - k) /\ Len(r) # 0
        BY <1>1, <1>2, <1>7
    <2>2. r[n + (m - k)] = k + (m - k)
        <3>1. r[n + (m - k)] = k + ((n + (m - k)) - n)
            BY <1>7, <2>1
        <3> QED BY <1>1, <1>2, <3>1
    <2>3. r # <<>>
        BY <2>1
    <2> QED BY <1>2, <1>7, <2>2, <2>3 DEF LastOf
<1>9. InOrder(L, r)
    <2> SUFFICES ASSUME NEW i \in DOMAIN r, NEW before, before = IF i = 1 THEN 0 ELSE r[i - 1]
                 PROVE  before < r[i] /\ \A x \in before + 1 .. r[i] - 1 : x \in L
        BY DEF InOrder
    <2>1. i \in 1 .. n + (m - k)
        BY <1>7
    <2>2. CASE i \in 1 .. n
        <3>1. r[i] = s[i] /\ (i # 1 => r[i - 1] = s[i - 1])
            <4>1. i # 1 => i - 1 \in 1 .. n
                BY <1>1, <2>2
            <4> QED BY <1>7, <2>2, <4>1
        <3>2. before = IF i = 1 THEN 0 ELSE s[i - 1]
            BY <3>1
        <3>3. before < s[i] /\ \A x \in before + 1 .. s[i] - 1 : x \in L
            BY <1>1, <2>2, <3>2 DEF InOrder
        <3> QED BY <3>1, <3>3
    <2>3. CASE i = n + 1
        <3>1. i \in n + 1 .. n + (m - k) /\ i - n = 1
            BY <1>1, <2>1, <2>3
        <3>2. r[i] = k + 1
            BY <1>7, <3>1
        <3>3. before = last
            <4>1. CASE n = 0
                BY <1>4, <2>3, <4>1
            <4>2. CASE n > 0
                <5>1. i # 1 /\ i - 1 = n /\ n \in 1 .. n
                    BY <1>1, <2>3, <4>2
                <5> QED BY <1>4, <1>7, <4>2, <5>1
            <4> QED BY <1>1, <4>1, <4>2
        <3>4. r[i] - 1 = k
            BY <3>2
        <3> QED BY <1>5, <3>2, <3>3, <3>4
    <2>4. CASE i \notin 1 .. n /\ i # n + 1
        <3>1. i \in n + 1 .. n + (m - k) /\ i - 1 \in n + 1 .. n + (m - k) /\ i # 1
            BY <1>1, <2>1, <2>4
        <3>2. r[i] = k + (i - n) /\ before = k + ((i - 1) - n)
            BY <1>7, <3>1
        <3>3. before < r[i] /\ r[i] - 1 = before /\ before \in Int
            BY <1>1, <3>1, <3>2
        <3> QED BY <3>3
    <2> QED BY <2>2, <2>3, <2>4
<1> QED BY <1>8, <1>9 DEF r, d

----------------------------------------------------------------------------
(* Each step keeps the streams. *)

Packets == Events \cup Commands \cup AclPackets

LEMMA QueueTypes ==
    ASSUME IInv, NEW h \in Hosts
    PROVE  /\ up[h] \in Seq(Packets) /\ down[h] \in Seq(Packets)
           /\ acl_rx_buffer[h] \in Seq(Packets) /\ acl_out[h] \in Seq(Packets)
           /\ \A k \in 1 .. Len(acl_out[h]) : acl_out[h][k].type = "acl"
           /\ shown[h] \in Seq(Nat)
           /\ typed[h] \in 0 .. NTyped /\ typed[h] \in Nat
<1>1. /\ up[h] \in Seq(Events \cup AclPackets) /\ down[h] \in Seq(Commands \cup AclPackets)
      /\ acl_rx_buffer[h] \in Seq(AclPackets) /\ acl_out[h] \in Seq(AclPackets)
      /\ shown[h] \in Seq(Bytes) /\ typed[h] \in 0 .. NTyped /\ NTyped \in Nat
    BY PeerAssumption DEF IInv, HciInv, HciTypes, AirTypes
<1>2. /\ Events \cup AclPackets \subseteq Packets /\ Commands \cup AclPackets \subseteq Packets
      /\ AclPackets \subseteq Packets /\ Bytes \subseteq Nat
    BY <1>1 DEF Packets, Bytes
<1>3. /\ up[h] \in Seq(Packets) /\ down[h] \in Seq(Packets)
      /\ acl_rx_buffer[h] \in Seq(Packets) /\ acl_out[h] \in Seq(Packets)
      /\ shown[h] \in Seq(Nat)
    BY <1>1, <1>2, SeqMonotonic
<1>4. ASSUME NEW k \in 1 .. Len(acl_out[h]) PROVE acl_out[h][k].type = "acl"
    <2>1. acl_out[h][k] \in AclPackets
        BY <1>1, ElementOfSeq
    <2> QED BY <2>1 DEF AclPackets
<1> QED BY <1>1, <1>3, <1>4, LenProperties

LEMMA PeerOfPeer ==
    ASSUME NEW h \in Hosts
    PROVE  Peer(h) \in Hosts /\ Peer(h) # h /\ Peer(Peer(h)) = h
    BY PeerAssumption DEF Peer

LEMMA TakingStreams ==
    ASSUME IInv, Streams, NEW h \in Hosts,
           Receive(h) \/ HandOver(h, "event") \/ PopEvent(h) \/ UNCHANGED hciVars,
           UNCHANGED <<link, typed, shown, acl_out, lost>>
    PROVE  Streams'
<1>1. UNCHANGED down
    BY DEF Receive, HandOver, PopEvent, hciVars
<1>2. ASSUME NEW g \in Hosts
      PROVE  FlowIn(lost'[Peer(g)], link', LastOf(shown'[g]), acl_rx_buffer'[g], up'[g],
                    acl_out'[Peer(g)], down'[Peer(g)], typed'[Peer(g)])
    <2> DEFINE F(a, u) == FlowIn(lost[Peer(g)], link, LastOf(shown[g]), a, u,
                                 acl_out[Peer(g)], down[Peer(g)], typed[Peer(g)])
    <2>1. F(acl_rx_buffer[g], up[g])
        BY DEF Streams, Flow
    <2>2. up[g] \in Seq(Packets) /\ acl_rx_buffer[g] \in Seq(Packets)
        BY QueueTypes
    <2>3. F(acl_rx_buffer'[g], up'[g])
        <3>1. CASE acl_rx_buffer'[g] = acl_rx_buffer[g] /\ up'[g] = up[g]
            BY <2>1, <3>1
        <3>2. CASE /\ acl_rx_buffer'[g] = acl_rx_buffer[g] /\ up'[g] = Tail(up[g])
                   /\ up[g] # <<>> /\ Head(up[g]).type # "acl"
            <4>1. F(acl_rx_buffer[g], Tail(up[g]))
                BY <2>1, <2>2, <3>2, OtherTakenUp
            <4> QED BY <3>2, <4>1
        <3>3. CASE /\ acl_rx_buffer'[g] = Append(acl_rx_buffer[g], Head(up[g]))
                   /\ up'[g] = Tail(up[g]) /\ up[g] # <<>>
            <4>1. F(Append(acl_rx_buffer[g], Head(up[g])), Tail(up[g]))
                BY <2>1, <2>2, <3>3, DataReceived
            <4> QED BY <3>3, <4>1
        <3>4. CASE g # h
            <4>1. acl_rx_buffer'[g] = acl_rx_buffer[g] /\ up'[g] = up[g]
                BY <3>4 DEF Receive, HandOver, PopEvent, hciVars, IInv, HciInv, HciTypes
            <4> QED BY <3>1, <4>1
        <3>5. CASE g = h
            <4> HIDE DEF F
            <4>1. CASE Receive(h)
                BY <3>2, <3>3, <3>5, <4>1 DEF Receive, IInv, HciInv, HciTypes
            <4>2. CASE HandOver(h, "event")
                BY <3>2, <3>5, <4>2 DEF HandOver, IInv, HciInv, HciTypes
            <4>3. CASE PopEvent(h) \/ UNCHANGED hciVars
                BY <3>1, <3>5, <4>3 DEF PopEvent, hciVars
            <4> QED BY <4>1, <4>2, <4>3
        <3> QED BY <3>4, <3>5
    <2> QED BY <1>1, <2>3
<1> QED BY <1>2 DEF Streams, Flow, LinkMade, Peer

(* A host sends a command, or its controller takes one in.                 *)
LEMMA CommandStreams ==
    ASSUME IInv, Streams, NEW h \in Hosts,
           Intake(h) \/ (\E o \in Opcodes : SendCommand(h, o)),
           UNCHANGED <<link, typed, shown, acl_out, lost>>
    PROVE  Streams'
<1>1. UNCHANGED <<up, acl_rx_buffer>>
    BY DEF Intake, SendCommand
<1>2. ASSUME NEW g \in Hosts
      PROVE  FlowIn(lost'[Peer(g)], link', LastOf(shown'[g]), acl_rx_buffer'[g], up'[g],
                    acl_out'[Peer(g)], down'[Peer(g)], typed'[Peer(g)])
    <2> DEFINE F(d) == FlowIn(lost[Peer(g)], link, LastOf(shown[g]), acl_rx_buffer[g], up[g],
                              acl_out[Peer(g)], d, typed[Peer(g)])
               p == Peer(g)
    <2>1. F(down[p]) /\ p \in Hosts
        BY PeerFacts DEF Streams, Flow
    <2>2. down[p] \in Seq(Packets) /\ typed[p] \in Nat
        BY <2>1, QueueTypes
    <2>3. F(down'[p])
        <3>1. CASE down'[p] = down[p]
            BY <2>1, <3>1
        <3>2. CASE down'[p] = Tail(down[p]) /\ down[p] # <<>> /\ Head(down[p]).type # "acl"
            <4>1. F(Tail(down[p]))
                BY <2>1, <2>2, <3>2, OtherTakenDown
            <4> QED BY <3>2, <4>1
        <3>3. ASSUME NEW c \in Commands, down'[p] = Append(down[p], c) PROVE F(down'[p])
            <4>1. c \in Packets /\ (\A L : Spans(L, c, typed[p], typed[p]))
                BY DEF Packets, Commands, Spans
            <4>2. F(Append(down[p], c))
                BY <2>1, <2>2, <4>1, SentDown
            <4> QED BY <3>3, <4>2
        <3>4. CASE Intake(h)
            <4> HIDE DEF F
            <4>1. /\ down' = [down EXCEPT ![h] = Tail(down[h])]
                  /\ down[h] # <<>> /\ Head(down[h]).type # "acl"
                BY <3>4 DEF Intake
            <4>2. down'[p] = IF p = h THEN Tail(down[p]) ELSE down[p]
                BY <2>1, <4>1 DEF IInv, HciInv, HciTypes
            <4> QED BY <3>1, <3>2, <4>1, <4>2
        <3>5. ASSUME NEW o \in Opcodes, SendCommand(h, o) PROVE F(down'[p])
            <4> HIDE DEF F
            <4>1. Command(o) \in Commands
                BY DEF Command, Commands
            <4>2. down'[p] = IF p = h THEN Append(down[p], Command(o)) ELSE down[p]
                BY <2>1, <3>5 DEF SendCommand, IInv, HciInv, HciTypes
            <4> QED BY <3>1, <3>3, <4>1, <4>2
        <3> QED BY <3>4, <3>5
    <2> QED BY <1>1, <2>3
<1> QED BY <1>2 DEF Streams, Flow, LinkMade, Peer

LEMMA ProgramStreams ==
    ASSUME IInv, Streams, NEW h \in Hosts, SendStep(h) \/ ReceiveStep(h) \/ LoopEvent(h)
    PROVE  Streams'
<1>1. UNCHANGED <<link, typed, shown, acl_out, lost>>
    BY DEF SendStep, ReceiveStep, LoopEvent, airVars
<1>2. CASE SendStep(h)
    <2>1. Step(h).opcode \in Opcodes
        BY <1>2, StepFacts DEF SendStep, IInv
    <2>2. Receive(h) \/ (\E o \in Opcodes : SendCommand(h, o))
        BY <1>2, <2>1 DEF SendStep, AwaitCredit
    <2> QED BY <1>1, <2>2, TakingStreams, CommandStreams
<1>3. CASE ReceiveStep(h)
    <2>1. Receive(h) \/ PopEvent(h)
        BY <1>3 DEF ReceiveStep, AwaitEvent
    <2> QED BY <1>1, <2>1, TakingStreams
<1>4. CASE LoopEvent(h)
    <2>1. Receive(h) \/ HandOver(h, "event") \/ PopEvent(h) \/ UNCHANGED hciVars
        BY <1>4 DEF LoopEvent, NoEventAsync, ReceiveEventAsync
    <2> QED BY <1>1, <2>1, TakingStreams
<1> QED BY <1>2, <1>3, <1>4

LEMMA LoopAclStreams ==
    ASSUME IInv, Streams, NEW h \in Hosts, LoopAcl(h)
    PROVE  Streams'
<1>1. UNCHANGED <<link, typed, acl_out, lost, down>>
    BY DEF LoopAcl, airVars, NoAclAsync, ReceiveAclAsync, Receive, HandOver, PopAcl, hciVars
<1>2. CASE NoAclAsync(h) /\ UNCHANGED shown
    <2>1. Receive(h) \/ UNCHANGED hciVars
        BY <1>2 DEF NoAclAsync
    <2> QED BY <1>1, <1>2, <2>1, TakingStreams
<1>3. CASE ReceiveAclAsync(h) /\ shown' = [shown EXCEPT ![h] = shown[h] \o NextAcl(h).data]
    <2> DEFINE F(n, a, u) == FlowIn(lost[Peer(h)], link, n, a, u,
                                    acl_out[Peer(h)], down[Peer(h)], typed[Peer(h)])
    <2>1. F(LastOf(shown[h]), acl_rx_buffer[h], up[h]) /\ InOrder(lost[Peer(h)], shown[h])
        BY DEF Streams, Flow
    <2>2. /\ up[h] \in Seq(Packets) /\ acl_rx_buffer[h] \in Seq(Packets)
          /\ shown[h] \in Seq(Nat)
        BY QueueTypes
    <2>3. PICK p \in AclPackets, m \in Nat :
            /\ p = NextAcl(h) /\ Spans(lost[Peer(h)], p, LastOf(shown[h]), m)
            /\ F(m, acl_rx_buffer'[h], up'[h])
        <3>1. CASE PopAcl(h)
            <4>1. acl_rx_buffer[h] # <<>> /\ up'[h] = up[h]
                  /\ acl_rx_buffer'[h] = Tail(acl_rx_buffer[h])
                BY <3>1 DEF PopAcl, IInv, HciInv, HciTypes
            <4>2. NextAcl(h) = Head(acl_rx_buffer[h]) /\ Head(acl_rx_buffer[h]) \in AclPackets
                BY <4>1, TailFacts DEF NextAcl, IInv, HciInv, HciTypes
            <4>3. \E m \in Nat : /\ Spans(lost[Peer(h)], Head(acl_rx_buffer[h]), LastOf(shown[h]), m)
                                 /\ F(m, Tail(acl_rx_buffer[h]), up[h])
                BY <2>1, <2>2, <4>1, DataShown
            <4> QED BY <4>1, <4>2, <4>3
        <3>2. CASE acl_rx_buffer[h] = <<>> /\ HandOver(h, "acl")
            <4>1. /\ up[h] # <<>> /\ Head(up[h]).type = "acl" /\ up'[h] = Tail(up[h])
                  /\ acl_rx_buffer'[h] = <<>>
                BY <3>2 DEF HandOver, IInv, HciInv, HciTypes
            <4>2. NextAcl(h) = Head(up[h]) /\ Head(up[h]) \in AclPackets
                <5>1. Head(up[h]) \in Events \cup AclPackets
                    BY <4>1, TailFacts DEF IInv, HciInv, HciTypes
                <5> QED BY <3>2, <4>1, <5>1, PacketFacts DEF NextAcl
            <4>3. F(LastOf(shown[h]), <<>>, up[h])
                BY <2>1, <3>2
            <4>4. \E m \in Nat : /\ Spans(lost[Peer(h)], Head(up[h]), LastOf(shown[h]), m)
                                 /\ F(m, <<>>, Tail(up[h]))
                BY <2>2, <4>1, <4>3, DataShownAtOnce
            <4> QED BY <4>1, <4>2, <4>4
        <3> QED BY <1>3, <3>1, <3>2 DEF ReceiveAclAsync
    <2>4. shown'[h] = shown[h] \o p.data
        BY <1>3, <2>3 DEF IInv, AirTypes
    <2>5. p.type = "acl" /\ p.data \in Seq(Nat)
        <3>1. Bytes \subseteq Nat
            BY PeerAssumption DEF Bytes
        <3>2. p.data \in Seq(Bytes)
            BY DEF AclPackets
        <3> QED BY <3>1, <3>2, SeqMonotonic DEF AclPackets
    <2>6. InOrder(lost[Peer(h)], shown'[h]) /\ LastOf(shown'[h]) = m
        <3>1. InOrder(lost[Peer(h)], shown[h] \o p.data) /\ LastOf(shown[h] \o p.data) = m
            BY <2>1, <2>2, <2>3, <2>5, ShowInOrder
        <3> QED BY <2>4, <3>1
    <2>7. F(LastOf(shown'[h]), acl_rx_buffer'[h], up'[h])
        BY <2>3, <2>6
    <2>8. \A g \in Hosts : g # h => /\ shown'[g] = shown[g] /\ up'[g] = up[g]
                                    /\ acl_rx_buffer'[g] = acl_rx_buffer[g]
        BY <1>3 DEF ReceiveAclAsync, PopAcl, HandOver, IInv, HciInv, HciTypes, AirTypes
    <2>9. ASSUME NEW g \in Hosts
          PROVE  /\ FlowIn(lost'[Peer(g)], link', LastOf(shown'[g]), acl_rx_buffer'[g], up'[g],
                           acl_out'[Peer(g)], down'[Peer(g)], typed'[Peer(g)])
                 /\ InOrder(lost'[Peer(g)], shown'[g])
        <3>1. CASE g = h
            BY <1>1, <2>6, <2>7, <3>1
        <3>2. CASE g # h
            BY <1>1, <2>8, <3>2 DEF Streams, Flow
        <3> QED BY <3>1, <3>2
    <2> QED BY <1>1, <2>9 DEF Streams, Flow, LinkMade, Peer
<1> QED BY <1>2, <1>3 DEF LoopAcl

LEMMA LoopTermStreams ==
    ASSUME IInv, Linked, Streams, NEW h \in Hosts, LoopTerm(h)
    PROVE  Streams'
<1>1. UNCHANGED <<link, shown, acl_out, lost, up, acl_rx_buffer>> /\ LinkMade
    BY DEF LoopTerm, airVars, SendAcl, hciVars, Linked, Loop
<1>2. CASE UNCHANGED <<hciVars, typed>>
    BY <1>1, <1>2, TakingStreams
<1>3. ASSUME NEW n \in 1 .. MaxData, typed[h] + n <= NTyped, SendAcl(h, Batch(typed[h], n)),
             typed' = [typed EXCEPT ![h] = typed[h] + n]
      PROVE  Streams'
    <2> DEFINE p == AclData(Batch(typed[h], n))
               m == typed[h] + n
    <2>1. typed[h] \in 0 .. NTyped /\ n \in Nat /\ n > 0 /\ m \in Nat
        BY QueueTypes, PeerAssumption
    <2>2. p \in Packets /\ (\A L : Spans(L, p, typed[h], m))
        <3>1. Batch(typed[h], n) \in Seq(Bytes)
            BY <1>3, <2>1, BatchFacts
        <3>2. m - typed[h] = n /\ typed[h] < m /\ typed[h] \in Nat
            BY <2>1, QueueTypes
        <3>3. p \in Packets /\ p.type = "acl" /\ p.data = Batch(typed[h], n)
            BY <3>1 DEF AclData, AclPackets, Packets
        <3>4. \A L : Gap(L, typed[h], typed[h])
            BY <3>2 DEF Gap
        <3> HIDE DEF p, m
        <3> QED BY <3>2, <3>3, <3>4 DEF Spans
    <2>3. down' = [down EXCEPT ![h] = Append(down[h], p)]
        BY <1>3 DEF SendAcl
    <2> HIDE DEF p, m
    <2>4. ASSUME NEW g \in Hosts
          PROVE  FlowIn(lost'[Peer(g)], link', LastOf(shown'[g]), acl_rx_buffer'[g], up'[g],
                        acl_out'[Peer(g)], down'[Peer(g)], typed'[Peer(g)])
        <3> DEFINE F(d, t) == FlowIn(lost[Peer(g)], link, LastOf(shown[g]), acl_rx_buffer[g], up[g],
                                     acl_out[Peer(g)], d, t)
                   q == Peer(g)
        <3>1. F(down[q], typed[q]) /\ q \in Hosts
            BY PeerFacts DEF Streams, Flow
        <3>2. CASE q = h
            <4>1. F(Append(down[h], p), m)
                BY <2>1, <2>2, <3>1, <3>2, QueueTypes, SentDown
            <4>2. down'[q] = Append(down[h], p) /\ typed'[q] = m
                BY <1>3, <2>3, <3>2 DEF IInv, HciInv, HciTypes, AirTypes, m
            <4> QED BY <1>1, <4>1, <4>2
        <3>3. CASE q # h
            <4>1. down'[q] = down[q] /\ typed'[q] = typed[q]
                BY <1>3, <2>3, <3>1, <3>3 DEF IInv, HciInv, HciTypes, AirTypes
            <4> QED BY <1>1, <3>1, <4>1
        <3> QED BY <3>2, <3>3
    <2> QED BY <1>1, <2>4 DEF Streams, Flow, LinkMade, Peer
<1> QED BY <1>2, <1>3 DEF LoopTerm

(* The controller answers a command: a connection is not made anew.        *)
LEMMA ExecuteStreams ==
    ASSUME CommandSlots = 1, IInv, Linked, Streams, NEW h \in Hosts, Execute(h)
    PROVE  Streams'
<1>1. UNCHANGED <<typed, shown, acl_out, lost, acl_rx_buffer, down>>
    BY DEF Execute, Answer
<1>2. PICK e \in Events : up' = [up EXCEPT ![h] = Append(up[h], e)]
    BY ExecuteEvent
<1>3. /\ link' # "down" => link # "down"
      /\ LinkMade => LinkMade'
    <2>1. Head(inbox[h]) \in Asks(h)
        BY TailFacts DEF Linked, Queues, Queued, Execute
    <2>2. Head(inbox[h]) = "create_connection" => link = "none"
        BY <2>1 DEF Asks, AsksOnce, Asking, Deferred
    <2>3. link # "none" => link' = link \/ (link = "requested" /\ link' = "accepted")
        BY <2>2 DEF Execute
    <2> QED BY <2>2, <2>3 DEF Execute, LinkMade
<1>4. \A g \in Hosts : InOrder(lost'[Peer(g)], shown'[g]) /\ (~ LinkMade' => typed'[g] = 0)
    BY <1>1, <1>3 DEF Streams
<1>5. ASSUME NEW g \in Hosts
      PROVE  FlowIn(lost'[Peer(g)], link', LastOf(shown'[g]), acl_rx_buffer'[g], up'[g],
                    acl_out'[Peer(g)], down'[Peer(g)], typed'[Peer(g)])
    <2> DEFINE F(l, u) == FlowIn(lost[Peer(g)], l, LastOf(shown[g]), acl_rx_buffer[g], u,
                                 acl_out[Peer(g)], down[Peer(g)], typed[Peer(g)])
    <2>1. F(link, up[g])
        BY DEF Streams, Flow
    <2>2. F(link, Append(up[g], e))
        <3>1. e \in Packets /\ e.type # "acl" /\ up[g] \in Seq(Packets)
            BY QueueTypes DEF Packets, Events
        <3> QED BY <2>1, <3>1, OtherSentUp
    <2>3. up'[g] = up[g] \/ up'[g] = Append(up[g], e)
        BY <1>2 DEF IInv, HciInv, HciTypes
    <2>4. F(link, up'[g])
        BY <2>1, <2>2, <2>3
    <2>5. F(link', up'[g])
        BY <1>3, <2>4, LinkChanges
    <2> QED BY <1>1, <2>5
<1> QED BY <1>4, <1>5 DEF Streams, Flow, Peer

(* The link goes on, or down, with what was on its way.                    *)
LEMMA AirStreams ==
    ASSUME IInv, Streams, PageHeard \/ Established \/ PageFails \/ LinkLost
    PROVE  Streams'
<1>1. UNCHANGED <<typed, shown, lost, acl_rx_buffer, down>>
    BY DEF PageHeard, Established, PageFails, LinkLost, OverAir
<1>2. link' = "down" \/ (link # "down" /\ UNCHANGED acl_out)
    BY DEF PageHeard, Established, PageFails, LinkLost
<1>3. LinkMade => LinkMade'
    BY DEF PageHeard, Established, PageFails, LinkLost, LinkMade
<1>4. PICK to \in SUBSET Hosts,
           code \in {"connection_request", "connection_complete", "disconnection_complete"},
           ok \in BOOLEAN : Notify(to, code, ok)
    <2>1. {Alice} \in SUBSET Hosts /\ {Bob} \in SUBSET Hosts /\ Hosts \in SUBSET Hosts
        BY PeerAssumption
    <2>2. CASE PageHeard
        BY <2>1, <2>2 DEF PageHeard
    <2>3. CASE Established
        BY <2>1, <2>3 DEF Established
    <2>4. CASE PageFails
        BY <2>1, <2>4, Zenon DEF PageFails
    <2>5. CASE LinkLost
        BY <2>1, <2>5 DEF LinkLost
    <2> QED BY <2>2, <2>3, <2>4, <2>5
<1>5. PICK e \in Events : e = Event(code, NoOpcode, ok, 0)
    <2>1. 0 \in 0 .. CommandSlots
        BY SlotsAssumption
    <2> QED BY <2>1 DEF Event, Events, EventCodes
<1>6. ASSUME NEW g \in Hosts
      PROVE  FlowIn(lost'[Peer(g)], link', LastOf(shown'[g]), acl_rx_buffer'[g], up'[g],
                    acl_out'[Peer(g)], down'[Peer(g)], typed'[Peer(g)])
    <2> DEFINE F(u) == FlowIn(lost[Peer(g)], link, LastOf(shown[g]), acl_rx_buffer[g], u,
                              acl_out[Peer(g)], down[Peer(g)], typed[Peer(g)])
    <2>1. F(up[g])
        BY DEF Streams, Flow
    <2>2. F(Append(up[g], e))
        <3>1. e \in Packets /\ e.type # "acl" /\ up[g] \in Seq(Packets)
            BY QueueTypes DEF Packets, Events
        <3> QED BY <2>1, <3>1, OtherSentUp
    <2>3. up'[g] = up[g] \/ up'[g] = Append(up[g], e)
        BY <1>4, <1>5 DEF Notify
    <2>4. F(up'[g])
        BY <2>1, <2>2, <2>3
    <2>5. CASE link' = "down"
        BY <1>1, <2>4, <2>5, LinkChanges
    <2>6. CASE link # "down" /\ UNCHANGED acl_out
        BY <1>1, <2>4, <2>6, LinkChanges
    <2> QED BY <1>2, <2>5, <2>6
<1>7. \A g \in Hosts : InOrder(lost'[Peer(g)], shown'[g]) /\ (~ LinkMade' => typed'[g] = 0)
    BY <1>1, <1>3 DEF Streams
<1> QED BY <1>6, <1>7 DEF Streams, Flow, Peer

(* A packet that comes to the controller is kept or leaves a gap.          *)
LEMMA TakeAclStreams ==
    ASSUME IInv, Streams, NEW h \in Hosts, TakeAcl(h)
    PROVE  Streams'
<1> DEFINE p == Head(down[h])
<1>1. UNCHANGED <<link, typed, shown, acl_rx_buffer, up>>
    BY DEF TakeAcl, OverAir
<1>2. /\ down[h] # <<>> /\ p.type = "acl"
      /\ down' = [down EXCEPT ![h] = Tail(down[h])]
    BY DEF TakeAcl
<1>3. \A g \in Hosts : lost[g] \subseteq lost'[g]
    BY DEF TakeAcl, IInv, AirTypes
<1>4. ASSUME NEW g \in Hosts
      PROVE  FlowIn(lost'[Peer(g)], link', LastOf(shown'[g]), acl_rx_buffer'[g], up'[g],
                    acl_out'[Peer(g)], down'[Peer(g)], typed'[Peer(g)])
    <2> DEFINE F(L, o, d) == FlowIn(L, link, LastOf(shown[g]), acl_rx_buffer[g], up[g],
                                    o, d, typed[Peer(g)])
               q == Peer(g)
    <2>1. F(lost[q], acl_out[q], down[q]) /\ q \in Hosts
        BY PeerFacts DEF Streams, Flow
    <2>2. CASE q # h
        <3>1. down'[q] = down[q] /\ acl_out'[q] = acl_out[q] /\ lost'[q] = lost[q]
            BY <1>2, <2>1, <2>2 DEF TakeAcl, IInv, HciInv, HciTypes, AirTypes
        <3> QED BY <1>1, <2>1, <3>1
    <2>3. CASE link = "down" /\ q = h
        <3>1. lost' = lost
            BY <2>3 DEF TakeAcl
        <3> QED BY <1>1, <2>1, <2>3, <3>1, LinkChanges
    <2>4. CASE q = h /\ link # "down"
        <3>1. acl_out[h] \in Seq(Packets) /\ down[h] \in Seq(Packets)
            BY QueueTypes
        <3>2. typed[h] # 0
            BY <1>2, <2>1, <2>4, <3>1, DataWasTyped
        <3>3. link = "up"
            BY <2>4, <3>2 DEF Streams, LinkMade
        <3>4. down'[h] = Tail(down[h])
            BY <1>2 DEF IInv, HciInv, HciTypes
        <3>5. CASE HasRoom(h)
            <4>1. acl_out'[h] = Append(acl_out[h], p) /\ lost'[h] = lost[h]
                BY <3>3, <3>5 DEF TakeAcl, IInv, AirTypes
            <4>2. F(lost[h], Append(acl_out[h], p), Tail(down[h]))
                BY <1>2, <2>1, <2>4, <3>1, DataTaken
            <4> QED BY <1>1, <2>4, <3>4, <4>1, <4>2
        <3>6. CASE ~ HasRoom(h)
            <4>1. acl_out'[h] = acl_out[h] /\ lost'[h] = lost[h] \cup BytesOf(p)
                BY <3>3, <3>6 DEF TakeAcl, IInv, AirTypes
            <4>2. F(lost[h] \cup BytesOf(p), acl_out[h], Tail(down[h]))
                BY <1>2, <2>1, <2>4, <3>1, DataLost
            <4> QED BY <1>1, <2>4, <3>4, <4>1, <4>2
        <3> QED BY <3>5, <3>6
    <2> QED BY <2>2, <2>3, <2>4
<1>5. ASSUME NEW g \in Hosts PROVE InOrder(lost'[Peer(g)], shown'[g])
    <2>1. InOrder(lost[Peer(g)], shown[g]) /\ lost[Peer(g)] \subseteq lost'[Peer(g)]
        BY <1>3, PeerFacts DEF Streams
    <2> QED BY <1>1, <2>1 DEF InOrder
<1>6. \A g \in Hosts : ~ LinkMade' => typed'[g] = 0
    BY <1>1 DEF Streams, LinkMade
<1> QED BY <1>4, <1>5, <1>6 DEF Streams, Flow, Peer

LEMMA DeliverStreams ==
    ASSUME IInv, Streams, NEW h \in Hosts, Deliver(h)
    PROVE  Streams'
<1> DEFINE p == Head(acl_out[h])
           e == Event("number_of_completed_packets", NoOpcode, TRUE, 0)
<1>1. UNCHANGED <<link, typed, shown, lost, acl_rx_buffer, down>> /\ link # "down" /\ acl_out[h] # <<>>
    BY DEF Deliver, OverAir
<1>2. /\ acl_out' = [acl_out EXCEPT ![h] = Tail(acl_out[h])]
      /\ up'[h] = Append(up[h], e) /\ up'[Peer(h)] = Append(up[Peer(h)], p)
    BY PeerFacts DEF Deliver, IInv, HciInv, HciTypes
<1>3. e \in Packets /\ e.type # "acl"
    <2>1. 0 \in 0 .. CommandSlots
        BY SlotsAssumption
    <2> QED BY <2>1 DEF Event, Events, EventCodes, Packets
<1> HIDE DEF e
<1>4. ASSUME NEW g \in Hosts
      PROVE  FlowIn(lost'[Peer(g)], link', LastOf(shown'[g]), acl_rx_buffer'[g], up'[g],
                    acl_out'[Peer(g)], down'[Peer(g)], typed'[Peer(g)])
    <2> DEFINE F(u, o) == FlowIn(lost[Peer(g)], link, LastOf(shown[g]), acl_rx_buffer[g], u,
                                 o, down[Peer(g)], typed[Peer(g)])
               q == Peer(g)
    <2>1. F(up[g], acl_out[q]) /\ q \in Hosts /\ up[g] \in Seq(Packets)
        BY PeerFacts, QueueTypes DEF Streams, Flow
    <2>2. CASE g = h
        <3>1. acl_out'[q] = acl_out[q]
            BY <1>2, <2>1, <2>2, PeerOfPeer DEF IInv, AirTypes
        <3>2. F(Append(up[g], e), acl_out[q])
            BY <1>3, <2>1, OtherSentUp
        <3> QED BY <1>1, <1>2, <2>2, <3>1, <3>2
    <2>3. CASE g = Peer(h)
        <3>1. q = h /\ acl_out[h] \in Seq(Packets)
            BY <2>3, PeerOfPeer, QueueTypes
        <3>2. acl_out'[q] = Tail(acl_out[q])
            BY <1>2, <3>1 DEF IInv, AirTypes
        <3>3. F(Append(up[g], p), Tail(acl_out[q]))
            BY <1>1, <2>1, <3>1, DataDelivered
        <3> QED BY <1>1, <1>2, <2>3, <3>2, <3>3
    <2>4. g = h \/ g = Peer(h)
        BY PeerAssumption DEF Peer
    <2> QED BY <2>2, <2>3, <2>4
<1> QED BY <1>1, <1>4 DEF Streams, Flow, LinkMade, Peer

LEMMA StreamsInit == Init => Streams
<1> SUFFICES ASSUME Init PROVE Streams
    OBVIOUS
<1>1. ASSUME NEW h \in Hosts
      PROVE  Flow(h) /\ InOrder(lost[Peer(h)], shown[h]) /\ (~ LinkMade => typed[h] = 0)
    <2>1. /\ shown[h] = <<>> /\ acl_rx_buffer[h] = <<>> /\ up[h] = <<>> /\ typed[h] = 0
          /\ acl_out[Peer(h)] = <<>> /\ down[Peer(h)] = <<>> /\ typed[Peer(h)] = 0
        BY PeerFacts DEF Init, HciInit
    <2>2. Len(<<>>) = 0 /\ 1 .. 0 = {}
        OBVIOUS
    <2>3. \A L : Covers(L, <<>>, 0, 0) /\ Gap(L, 0, 0)
        BY NothingCovers DEF Gap
    <2>4. \A L : FlowIn(L, link, 0, <<>>, <<>>, <<>>, <<>>, 0)
        BY <2>3 DEF FlowIn, Ahead
    <2> QED BY <2>1, <2>2, <2>4 DEF Flow, InOrder, LastOf
<1> QED BY <1>1 DEF Streams

LEMMA StreamsStay ==
    CommandSlots = 1 /\ IInv /\ Linked /\ Streams /\ [Next]_vars => Streams'
<1> SUFFICES ASSUME CommandSlots = 1, IInv, Linked, Streams, [Next]_vars
             PROVE  Streams'
    OBVIOUS
<1>1. ASSUME NEW h \in Hosts, Host(h) PROVE Streams'
    BY <1>1, ProgramStreams, LoopAclStreams, LoopTermStreams DEF Host
<1>2. ASSUME NEW h \in Hosts, Controller(h) PROVE Streams'
    <2>1. CASE Intake(h) /\ UNCHANGED <<pc, step, typed, shown, airVars>>
        BY <2>1, CommandStreams DEF airVars
    <2>2. CASE Execute(h) \/ TakeAcl(h) \/ Deliver(h)
        BY <2>2, ExecuteStreams, TakeAclStreams, DeliverStreams
    <2> QED BY <1>2, <2>1, <2>2 DEF Controller
<1>3. CASE Air \/ LinkLost
    BY <1>3, AirStreams DEF Air
<1>4. CASE UNCHANGED vars
    <2>1. Alice \in Hosts /\ UNCHANGED hciVars /\ UNCHANGED <<link, typed, shown, acl_out, lost>>
        BY <1>4, PeerAssumption DEF vars, airVars
    <2> QED BY <2>1, TakingStreams
<1> QED BY <1>1, <1>2, <1>3, <1>4 DEF Next

(* What is typed at one host, any amount of it, comes out at the other in  *)
(* order, none twice, and without gaps but those of the bytes for which    *)
(* the controller had no room: bt.c sends without counting.                *)
THEOREM BytesInOrder ==
    ASSUME CommandSlots = 1
    PROVE  Spec => []StreamInOrder
<1> DEFINE Inv == IInv /\ Linked /\ Streams
<1>1. Init => Inv
    BY InitInv, LinkedInit, StreamsInit
<1>2. Inv /\ [Next]_vars => Inv'
    BY Invariance, LinkedStays, StreamsStay
<1>3. Inv => StreamInOrder
    BY DEF Streams, StreamInOrder, InOrder
<1> QED BY <1>1, <1>2, <1>3, PTL DEF Spec

----------------------------------------------------------------------------
(* The script.                                                             *)
(*                                                                         *)
(* The event that a host gets as its n-th: the command it answers, and its *)
(* kind.  Alice's commands are answered one after the other; between the   *)
(* answers to Bob's last two comes the request for the connection.         *)
N == NChunks

OpcodeOf(h, n) ==
    IF n = 1 THEN "reset"
    ELSE IF n = 2 THEN "load_firmware"
    ELSE IF n < N + 2 THEN "write_ram"
    ELSE IF n = N + 2 THEN "launch_ram"
    ELSE IF n = N + 3 THEN "read_bd_addr"
    ELSE IF n = N + 4 THEN "write_local_name"
    ELSE IF n = N + 5 THEN "read_local_name"
    ELSE IF n = N + 6 THEN "read_buffer_size"
    ELSE IF h = Alice THEN IF n = N + 7 THEN "create_connection" ELSE NoOpcode
    ELSE IF n = N + 7 THEN "write_scan_enable"
    ELSE IF n = N + 9 THEN "accept_connection_request"
    ELSE NoOpcode

\* The number of the connection's completion, the last event of the program.
Final(h) == IF h = Alice THEN N + 8 ELSE N + 10

CodeOf(h, n) ==
    IF n = Final(h) THEN "connection_complete"
    ELSE IF h # Alice /\ n = N + 8 THEN "connection_request"
    ELSE IF OpcodeOf(h, n) \in Deferred THEN "command_status"
    ELSE "command_complete"

Fits(h, n, p) ==
    p.type = "event" /\ p.ok /\ p.code = CodeOf(h, n) /\ p.opcode = OpcodeOf(h, n)

(* At its i-th step a host has taken k events, and its last command is     *)
(* answered by the event numbered due.                                     *)
At(h, i, k, due) ==
    \/ i \in 1 .. 2 /\ k = 0 /\ due = i - 1
    \/ i = 3 /\ k \in 0 .. 1 /\ due = 2
    \/ i \in 4 .. N + 3 /\ k = 2 /\ due = i - 2
    \/ i \in N + 4 .. 2 * N + 3 /\ k = i - N - 2 /\ due = N + 2
    \/ \E q \in 0 .. 4 : i = 2 * N + 4 + 2 * q /\ k = N + 2 + q /\ due = k
    \/ \E q \in 0 .. 4 : i = 2 * N + 5 + 2 * q /\ k = N + 2 + q /\ due = k + 1
    \/ i = 2 * N + 14 /\ k = N + 7 /\ due = k
    \/ h # Alice /\ i = 2 * N + 15 /\ k = N + 8 /\ due = N + 7
    \/ h # Alice /\ i = 2 * N + 16 /\ k = N + 8 /\ due = N + 9
    \/ h # Alice /\ i = 2 * N + 17 /\ k = N + 9 /\ due = N + 9

\* The events that are queued in e and on the line u are the next ones.
LineFits(h, k, e, u) ==
    /\ \A i \in 1 .. Len(e) : k + i <= Final(h) => Fits(h, k + i, e[i])
    /\ \A i \in 1 .. Len(u) : k + Len(e) + i <= Final(h) => Fits(h, k + Len(e) + i, u[i])

Pending(d, n) == HasCommand(d) \/ n # <<>>

\* Of g events, when a command is on its way in d or n and when it is not.
AnswersFit(h, due, g, d, n) ==
    IF Pending(d, n)
      THEN /\ g = due - 1
           /\ \A i \in 1 .. Len(d) : IsCommand(d[i]) => d[i].opcode = OpcodeOf(h, due)
           /\ \A i \in 1 .. Len(n) : n[i] = OpcodeOf(h, due)
      ELSE /\ g >= due
           /\ due < N + 7 => g = due
           /\ h # Alice /\ due = N + 7 => g <= N + 8

\* What the link and the scanning have to do with the events.
LinkFits(h, l, s, g) ==
    IF h = Alice
      THEN /\ l = "none" => g <= N + 6
           /\ l \in {"paging", "requested", "accepted"} => g = N + 7
           /\ l \in {"up", "down"} => g >= N + 8
      ELSE /\ ~ s => g <= N + 6
           /\ s /\ l \in {"none", "paging"} => g = N + 7
           /\ l = "requested" => g = N + 8
           /\ l = "accepted" => g = N + 9
           /\ l \in {"up", "down"} => g >= N + 10

ScriptedIn(h, i, l, s, e, u, d, n) ==
    \E k \in Nat, due \in Nat :
        /\ At(h, i, k, due)
        /\ LineFits(h, k, e, u)
        /\ AnswersFit(h, due, k + Len(e) + Len(u), d, n)
        /\ LinkFits(h, l, s, k + Len(e) + Len(u))

NoScan(d, n) ==
    /\ \A i \in 1 .. Len(d) : IsCommand(d[i]) => d[i].opcode # "write_scan_enable"
    /\ \A i \in 1 .. Len(n) : n[i] # "write_scan_enable"

Script(h) ==
    /\ pc[h] # "panic"
    /\ pc[h] = "program" => ScriptedIn(h, step[h], link, scanning, event_rx_buffer[h],
                                       up[h], down[h], inbox[h])

OnScript ==
    /\ \A h \in Hosts : Script(h)
    /\ NoScan(down[Alice], inbox[Alice])
    /\ link \in {"requested", "accepted", "up"} => scanning

\* Only a failure to connect makes them leave it.
Scripted == link # "failed" => OnScript

----------------------------------------------------------------------------
(* The programs, step by step. *)

\* u is s followed by t.
Joins(u, s, t) ==
    /\ u \in Seq(Steps) /\ Len(u) = Len(s) + Len(t)
    /\ \A i \in 1 .. Len(s) : u[i] = s[i]
    /\ \A i \in Len(s) + 1 .. Len(s) + Len(t) : u[i] = t[i - Len(s)]

LEMMA ConcatJoins ==
    ASSUME NEW s \in Seq(Steps), NEW t \in Seq(Steps)
    PROVE  Joins(s \o t, s, t)
<1>1. /\ s \o t \in Seq(Steps) /\ Len(s \o t) = Len(s) + Len(t)
      /\ \A i \in 1 .. Len(s) + Len(t) :
            (s \o t)[i] = IF i <= Len(s) THEN s[i] ELSE t[i - Len(s)]
    BY ConcatProperties, Zenon
<1> DEFINE u == s \o t
<1>2. \A i \in 1 .. Len(s) + Len(t) : u[i] = IF i <= Len(s) THEN s[i] ELSE t[i - Len(s)]
    BY <1>1
<1>3. Len(s) \in Nat /\ Len(t) \in Nat
    BY LenProperties
<1>4. u \in Seq(Steps) /\ Len(u) = Len(s) + Len(t)
    BY <1>1
<1> HIDE DEF u
<1>5. Joins(u, s, t)
    BY <1>2, <1>3, <1>4 DEF Joins
<1> QED BY <1>5 DEF u

LEMMA PairAfter ==
    ASSUME NEW s \in Seq(Steps), NEW o \in Opcodes
    PROVE  LET l == Len(s)
               t == s \o Ask(o) IN
           /\ l \in Nat /\ t \in Seq(Steps) /\ Len(t) = l + 2
           /\ \A i \in 1 .. l : t[i] = s[i]
           /\ t[l + 1] = Send(o) /\ t[l + 2] = Await("command_complete", o)
<1> DEFINE a == Ask(o)
           t == s \o a
           l == Len(s)
<1>1. a \in Seq(Steps) /\ Len(a) = 2 /\ a[1] = Send(o) /\ a[2] = Await("command_complete", o)
    <2>1. Send(o) \in Steps /\ Await("command_complete", o) \in Steps
        BY DEF Send, Await, Steps, SendSteps, WaitSteps, EventCodes
    <2> QED BY <2>1 DEF Ask
<1>2. l \in Nat
    BY LenProperties
<1> HIDE DEF a
<1>3. Joins(t, s, a)
    BY <1>1, ConcatJoins
<1> HIDE DEF t
<1>5. /\ t \in Seq(Steps) /\ Len(t) = l + 2 /\ \A i \in 1 .. l : t[i] = s[i]
      /\ \A i \in l + 1 .. l + 2 : t[i] = a[i - l]
    BY <1>1, <1>3 DEF Joins
<1> HIDE DEF l
<1>4. t[l + 1] = a[1] /\ t[l + 2] = a[2]
    BY <1>2, <1>5
<1> QED BY <1>1, <1>2, <1>4, <1>5 DEF t, l, a

LEMMA UploadAt ==
    /\ N \in Nat /\ Upload \in Seq(Steps) /\ Len(Upload) = 2 * N + 3
    /\ Upload[1] = Send("reset") /\ Upload[2] = Send("load_firmware")
    /\ Upload[3] = Find("load_firmware")
    /\ \A i \in 4 .. N + 3 : Upload[i] = Send(Firmware[i - 3])
    /\ \A i \in N + 4 .. 2 * N + 3 : Upload[i] = Await("command_complete", "any")
<1> DEFINE first == <<Send("reset"), Send("load_firmware"), Find("load_firmware")>>
           sends == [i \in 1 .. Len(Firmware) |-> Send(Firmware[i])]
           purge == Purge(Firmware)
<1>1. N \in Nat
    BY PeerAssumption DEF N
<1>2. Len(Firmware) = N
    <2>1. Firmware \in [1 .. N -> {"write_ram", "launch_ram"}]
        BY DEF Firmware, N
    <2> QED BY <1>1, <2>1
<1>3. /\ first \in Seq(Steps) /\ Len(first) = 3 /\ first[1] = Send("reset")
      /\ first[2] = Send("load_firmware") /\ first[3] = Find("load_firmware")
    <2>1. Send("reset") \in Steps /\ Send("load_firmware") \in Steps
        BY StepsOf, EarlyOpcodes
    <2>2. Find("load_firmware") \in Steps
        BY StepsOf, EarlyOpcodes DEF EarlySteps
    <2> QED BY <2>1, <2>2
<1>4. EarlySteps \subseteq Steps
    BY DEF EarlySteps
<1>5. /\ sends \in Seq(Steps) /\ Len(sends) = N
      /\ \A i \in 1 .. N : sends[i] = Send(Firmware[i])
    BY <1>1, <1>2, <1>4, FirmwareSteps, SeqMonotonic
<1>6. /\ purge \in Seq(Steps) /\ Len(purge) = N
      /\ \A i \in 1 .. N : purge[i] = Await("command_complete", "any")
    BY <1>1, <1>2, <1>4, FirmwareSteps, SeqMonotonic DEF Purge
<1> DEFINE t == first \o sends
<1>7. Upload = t \o purge
    BY DEF Upload
<1> HIDE DEF first, sends, purge
<1>8. Joins(t, first, sends)
    BY <1>3, <1>5, ConcatJoins
<1> HIDE DEF t
<1>9. t \in Seq(Steps) /\ Joins(Upload, t, purge)
    BY <1>6, <1>7, <1>8, ConcatJoins DEF Joins
<1>10. /\ Len(t) = 3 + N
       /\ \A i \in 1 .. 3 : t[i] = first[i]
       /\ \A i \in 4 .. 3 + N : t[i] = sends[i - 3]
    BY <1>1, <1>3, <1>5, <1>8 DEF Joins
<1>11. /\ Upload \in Seq(Steps) /\ Len(Upload) = 3 + N + N
       /\ \A i \in 1 .. 3 + N : Upload[i] = t[i]
       /\ \A i \in 3 + N + 1 .. 3 + N + N : Upload[i] = purge[i - (3 + N)]
    BY <1>1, <1>6, <1>9, <1>10 DEF Joins
<1>12. \A i \in 1 .. 3 : Upload[i] = first[i]
    BY <1>1, <1>10, <1>11
<1>13. \A i \in 4 .. N + 3 : Upload[i] = Send(Firmware[i - 3])
    BY <1>1, <1>5, <1>10, <1>11
<1>14. \A i \in N + 4 .. 2 * N + 3 : Upload[i] = Await("command_complete", "any")
    <2> SUFFICES ASSUME NEW i \in N + 4 .. 2 * N + 3
                 PROVE  Upload[i] = Await("command_complete", "any")
        OBVIOUS
    <2>1. i \in 3 + N + 1 .. 3 + N + N /\ i - (3 + N) \in 1 .. N
        BY <1>1
    <2> QED BY <1>6, <1>11, <2>1
<1> QED BY <1>1, <1>3, <1>11, <1>12, <1>13, <1>14


LEMMA GreetingAt ==
    /\ Greeting \in Seq(Steps) /\ Len(Greeting) = 2 * N + 11
    /\ \A i \in 1 .. 2 * N + 3 : Greeting[i] = Upload[i]
    /\ Greeting[2 * N + 4] = Send("read_bd_addr")
    /\ Greeting[2 * N + 5] = Await("command_complete", "read_bd_addr")
    /\ Greeting[2 * N + 6] = Send("write_local_name")
    /\ Greeting[2 * N + 7] = Await("command_complete", "write_local_name")
    /\ Greeting[2 * N + 8] = Send("read_local_name")
    /\ Greeting[2 * N + 9] = Await("command_complete", "read_local_name")
    /\ Greeting[2 * N + 10] = Send("read_buffer_size")
    /\ Greeting[2 * N + 11] = Await("command_complete", "read_buffer_size")
<1> DEFINE a == Upload \o Ask("read_bd_addr")
           b == a \o Ask("write_local_name")
           c == b \o Ask("read_local_name")
<1>1. N \in Nat /\ Upload \in Seq(Steps) /\ Len(Upload) = 2 * N + 3
    BY UploadAt
<1>2. Greeting = c \o Ask("read_buffer_size")
    BY DEF Greeting
<1>3. /\ a \in Seq(Steps) /\ Len(a) = Len(Upload) + 2
      /\ \A i \in 1 .. Len(Upload) : a[i] = Upload[i]
      /\ a[Len(Upload) + 1] = Send("read_bd_addr")
      /\ a[Len(Upload) + 2] = Await("command_complete", "read_bd_addr")
    BY <1>1, PairAfter, EarlyOpcodes
<1> HIDE DEF a
<1>4. /\ b \in Seq(Steps) /\ Len(b) = Len(a) + 2 /\ \A i \in 1 .. Len(a) : b[i] = a[i]
      /\ b[Len(a) + 1] = Send("write_local_name")
      /\ b[Len(a) + 2] = Await("command_complete", "write_local_name")
    BY <1>3, PairAfter, EarlyOpcodes
<1> HIDE DEF b
<1>5. /\ c \in Seq(Steps) /\ Len(c) = Len(b) + 2 /\ \A i \in 1 .. Len(b) : c[i] = b[i]
      /\ c[Len(b) + 1] = Send("read_local_name")
      /\ c[Len(b) + 2] = Await("command_complete", "read_local_name")
    BY <1>4, PairAfter, EarlyOpcodes
<1> HIDE DEF c
<1>6. /\ Greeting \in Seq(Steps) /\ Len(Greeting) = Len(c) + 2
      /\ \A i \in 1 .. Len(c) : Greeting[i] = c[i]
      /\ Greeting[Len(c) + 1] = Send("read_buffer_size")
      /\ Greeting[Len(c) + 2] = Await("command_complete", "read_buffer_size")
    BY <1>2, <1>5, PairAfter, EarlyOpcodes
<1>7. Len(a) = 2 * N + 5 /\ Len(b) = 2 * N + 7 /\ Len(c) = 2 * N + 9
    BY <1>1, <1>3, <1>4, <1>5
<1>8. \A i \in 1 .. 2 * N + 3 : Greeting[i] = Upload[i]
    BY <1>1, <1>3, <1>4, <1>5, <1>6, <1>7
<1>9. Greeting[2 * N + 4] = a[2 * N + 4] /\ Greeting[2 * N + 5] = a[2 * N + 5]
    <2>1. \A i \in 1 .. 2 * N + 5 : i \in 1 .. 2 * N + 7 /\ i \in 1 .. 2 * N + 9
        BY <1>1
    <2>2. \A i \in 1 .. 2 * N + 5 : Greeting[i] = a[i]
        BY <1>4, <1>5, <1>6, <1>7, <2>1
    <2> QED BY <1>1, <2>2
<1>10. Greeting[2 * N + 6] = b[2 * N + 6] /\ Greeting[2 * N + 7] = b[2 * N + 7]
    BY <1>1, <1>5, <1>6, <1>7
<1>11. Greeting[2 * N + 8] = c[2 * N + 8] /\ Greeting[2 * N + 9] = c[2 * N + 9]
    BY <1>1, <1>6, <1>7
<1> QED
    BY <1>1, <1>3, <1>4, <1>5, <1>6, <1>7, <1>8, <1>9, <1>10, <1>11

LEMMA ConnectAt ==
    /\ Len(Program[Alice]) = 2 * N + 14
    /\ \A i \in 1 .. 2 * N + 11 : Program[Alice][i] = Greeting[i]
    /\ Program[Alice][2 * N + 12] = Send("create_connection")
    /\ Program[Alice][2 * N + 13] = StatusOf("create_connection")
    /\ Program[Alice][2 * N + 14] = Await("connection_complete", NoOpcode)
<1> DEFINE p == Program[Alice]
           t == LastSteps("create_connection")
<1>1. p = Greeting \o t
    BY PeerAssumption DEF Program, ConnectSteps, LastSteps
<1>2. /\ t \in Seq(Steps) /\ Len(t) = 3 /\ t[1] = Send("create_connection")
      /\ t[2] = StatusOf("create_connection") /\ t[3] = Await("connection_complete", NoOpcode)
    BY LastStepsOf, OpcodeAssumption
<1> HIDE DEF p, t
<1>3. Joins(p, Greeting, t)
    BY <1>1, <1>2, GreetingAt, ConcatJoins
<1>4. /\ Len(p) = 2 * N + 14 /\ \A i \in 1 .. 2 * N + 11 : p[i] = Greeting[i]
      /\ \A i \in 2 * N + 12 .. 2 * N + 14 : p[i] = t[i - (2 * N + 11)]
    BY <1>2, <1>3, UploadAt, GreetingAt DEF Joins
<1>5. p[2 * N + 12] = t[1] /\ p[2 * N + 13] = t[2] /\ p[2 * N + 14] = t[3]
    <2>1. N \in Nat
        BY UploadAt
    <2> QED BY <1>4, <2>1
<1> QED BY <1>2, <1>4, <1>5 DEF p

LEMMA AcceptAt ==
    /\ Len(Program[Bob]) = 2 * N + 17
    /\ \A i \in 1 .. 2 * N + 11 : Program[Bob][i] = Greeting[i]
    /\ Program[Bob][2 * N + 12] = Send("write_scan_enable")
    /\ Program[Bob][2 * N + 13] = Await("command_complete", "write_scan_enable")
    /\ Program[Bob][2 * N + 14] = Await("connection_request", NoOpcode)
    /\ Program[Bob][2 * N + 15] = Send("accept_connection_request")
    /\ Program[Bob][2 * N + 16] = StatusOf("accept_connection_request")
    /\ Program[Bob][2 * N + 17] = Await("connection_complete", NoOpcode)
<1> DEFINE p == Program[Bob]
           t == AcceptSteps
           a == Ask("write_scan_enable")
           o == "accept_connection_request"
           r == <<Await("connection_request", NoOpcode), Send(o), StatusOf(o),
                  Await("connection_complete", NoOpcode)>>
<1>1. p = Greeting \o t /\ t = a \o r
    BY PeerAssumption DEF Program, AcceptSteps
<1>2. /\ a \in Seq(Steps) /\ Len(a) = 2 /\ a[1] = Send("write_scan_enable")
      /\ a[2] = Await("command_complete", "write_scan_enable")
    <2>1. /\ Send("write_scan_enable") \in Steps
          /\ Await("command_complete", "write_scan_enable") \in Steps
        BY OpcodeAssumption DEF Send, Await, Steps, SendSteps, WaitSteps, EventCodes
    <2> QED BY <2>1 DEF Ask
<1>3. /\ r \in Seq(Steps) /\ Len(r) = 4 /\ r[1] = Await("connection_request", NoOpcode)
      /\ r[2] = Send(o) /\ r[3] = StatusOf(o) /\ r[4] = Await("connection_complete", NoOpcode)
    <2>1. o \in Opcodes
        BY OpcodeAssumption
    <2>2. Send(o) \in Steps /\ StatusOf(o) \in Steps
        BY <2>1, StepsOf DEF EarlySteps
    <2>3. /\ Await("connection_request", NoOpcode) \in Steps
          /\ Await("connection_complete", NoOpcode) \in Steps
        BY DEF Await, Steps, WaitSteps, EventCodes
    <2> QED BY <2>2, <2>3
<1> HIDE DEF p, t, a, r
<1>4. Joins(t, a, r)
    BY <1>1, <1>2, <1>3, ConcatJoins
<1>5. /\ t \in Seq(Steps) /\ Len(t) = 6 /\ t[1] = a[1] /\ t[2] = a[2] /\ t[3] = r[1]
      /\ t[4] = r[2] /\ t[5] = r[3] /\ t[6] = r[4]
    BY <1>2, <1>3, <1>4 DEF Joins
<1>6. Joins(p, Greeting, t)
    BY <1>1, <1>5, GreetingAt, ConcatJoins
<1>7. /\ Len(p) = 2 * N + 17 /\ \A i \in 1 .. 2 * N + 11 : p[i] = Greeting[i]
      /\ \A i \in 2 * N + 12 .. 2 * N + 17 : p[i] = t[i - (2 * N + 11)]
    BY <1>5, <1>6, UploadAt, GreetingAt DEF Joins
<1>8. /\ p[2 * N + 12] = t[1] /\ p[2 * N + 13] = t[2] /\ p[2 * N + 14] = t[3]
      /\ p[2 * N + 15] = t[4] /\ p[2 * N + 16] = t[5] /\ p[2 * N + 17] = t[6]
    <2>1. N \in Nat
        BY UploadAt
    <2>2. \A i \in 2 * N + 12 .. 2 * N + 17 : p[i] = t[i - (2 * N + 11)]
        BY <1>7
    <2> QED BY <2>1, <2>2
<1> QED BY <1>2, <1>3, <1>5, <1>7, <1>8 DEF p

(* What a step of a program does: it sends the command that the next event *)
(* but for the unexpected answers, or it takes the event that is next.       *)
NextDue(h, due) == IF h # Alice /\ due = N + 7 THEN N + 9 ELSE due + 1

SendsNext(h, i, k, due) ==
    /\ Program[h][i] = Send(OpcodeOf(h, NextDue(h, due)))
    /\ i < Len(Program[h]) /\ At(h, i + 1, k, NextDue(h, due))
    /\ due <= N + 7 /\ (due = N + 7 => h # Alice /\ k = N + 8)

FindsNext(h, i, k, due) ==
    /\ Program[h][i] = Find("load_firmware") /\ i < Len(Program[h])
    /\ k \in 0 .. 1 /\ At(h, i, 1, due) /\ At(h, i + 1, 2, due)

AwaitsNext(h, i, k, due) ==
    /\ \E o \in {OpcodeOf(h, k + 1), "any"} : Program[h][i] = Await(CodeOf(h, k + 1), o)
    /\ i < Len(Program[h]) => At(h, i + 1, k + 1, due)

LEMMA UploadOpcodes ==
    ASSUME NEW h \in Hosts
    PROVE  /\ OpcodeOf(h, 1) = "reset" /\ OpcodeOf(h, 2) = "load_firmware"
           /\ CodeOf(h, 1) = "command_complete" /\ CodeOf(h, 2) = "command_complete"
           /\ \A n \in 3 .. N + 2 : /\ OpcodeOf(h, n) = Firmware[n - 2]
                                    /\ CodeOf(h, n) = "command_complete"
<1>1. N \in Nat
    BY UploadAt
<1>2. /\ OpcodeOf(h, 1) = "reset" /\ OpcodeOf(h, 2) = "load_firmware"
      /\ CodeOf(h, 1) = "command_complete" /\ CodeOf(h, 2) = "command_complete"
    BY <1>1 DEF OpcodeOf, CodeOf, Final, Deferred
<1>3. ASSUME NEW n \in 3 .. N + 2
      PROVE  /\ OpcodeOf(h, n) = Firmware[n - 2] /\ CodeOf(h, n) = "command_complete"
    <2>1. Firmware[n - 2] = IF n - 2 < N THEN "write_ram" ELSE "launch_ram"
        BY <1>1 DEF Firmware, N
    <2> QED BY <1>1, <2>1 DEF OpcodeOf, CodeOf, Final, Deferred
<1> QED BY <1>2, <1>3

LEMMA LaterOpcodes ==
    ASSUME NEW h \in Hosts
    PROVE  /\ OpcodeOf(h, N + 3) = "read_bd_addr" /\ CodeOf(h, N + 3) = "command_complete"
           /\ OpcodeOf(h, N + 4) = "write_local_name" /\ CodeOf(h, N + 4) = "command_complete"
           /\ OpcodeOf(h, N + 5) = "read_local_name" /\ CodeOf(h, N + 5) = "command_complete"
           /\ OpcodeOf(h, N + 6) = "read_buffer_size" /\ CodeOf(h, N + 6) = "command_complete"
           /\ h = Alice =>
                /\ OpcodeOf(h, N + 7) = "create_connection" /\ CodeOf(h, N + 7) = "command_status"
                /\ OpcodeOf(h, N + 8) = NoOpcode /\ CodeOf(h, N + 8) = "connection_complete"
           /\ h # Alice =>
                /\ OpcodeOf(h, N + 7) = "write_scan_enable" /\ CodeOf(h, N + 7) = "command_complete"
                /\ OpcodeOf(h, N + 8) = NoOpcode /\ CodeOf(h, N + 8) = "connection_request"
                /\ OpcodeOf(h, N + 9) = "accept_connection_request"
                /\ CodeOf(h, N + 9) = "command_status"
                /\ OpcodeOf(h, N + 10) = NoOpcode /\ CodeOf(h, N + 10) = "connection_complete"
<1>1. N \in Nat
    BY UploadAt
<1> QED BY <1>1 DEF OpcodeOf, CodeOf, Final, Deferred

LEMMA StepAt ==
    ASSUME NEW h \in Hosts, NEW i \in 1 .. Len(Program[h]), NEW k \in Nat, NEW due \in Nat,
           At(h, i, k, due)
    PROVE  /\ k < Final(h) /\ due < Final(h)
           /\ SendsNext(h, i, k, due) \/ FindsNext(h, i, k, due) \/ AwaitsNext(h, i, k, due)
<1> DEFINE p == Program[h]
<1>1. N \in Nat /\ (h = Alice \/ h = Bob) /\ Alice # Bob
    BY UploadAt, PeerAssumption
<1>2. /\ Len(p) = IF h = Alice THEN 2 * N + 14 ELSE 2 * N + 17
      /\ \A j \in 1 .. 2 * N + 11 : p[j] = Greeting[j]
    BY <1>1, ConnectAt, AcceptAt
<1>3. k < Final(h) /\ due < Final(h)
    BY <1>1, <1>2 DEF At, Final
<1>14. ASSUME NEW j \in 1 .. 2 * N + 3 PROVE p[j] = Upload[j]
    <2>1. j \in 1 .. 2 * N + 11
        BY <1>1
    <2>2. p[j] = Greeting[j]
        BY <1>2, <2>1
    <2>3. Greeting[j] = Upload[j]
        BY GreetingAt
    <2> QED BY <2>2, <2>3
<1>4. CASE i \in 1 .. 2 /\ k = 0 /\ due = i - 1
    <2>1. p[1] = Send("reset") /\ p[2] = Send("load_firmware")
        BY <1>1, <1>14, UploadAt
    <2>2. p[i] = Send(OpcodeOf(h, due + 1))
        <3>1. (i = 1 /\ due + 1 = 1) \/ (i = 2 /\ due + 1 = 2)
            BY <1>4
        <3>2. OpcodeOf(h, 1) = "reset" /\ OpcodeOf(h, 2) = "load_firmware"
            BY UploadOpcodes
        <3> QED BY <2>1, <3>1, <3>2
    <2>3. NextDue(h, due) = due + 1 /\ i < Len(p) /\ due < N + 7
        BY <1>1, <1>2, <1>4 DEF NextDue
    <2>4. At(h, i + 1, k, due + 1)
        BY <1>1, <1>4 DEF At
    <2> QED BY <1>1, <1>3, <2>2, <2>3, <2>4 DEF SendsNext
<1>5. CASE i = 3 /\ k \in 0 .. 1 /\ due = 2
    <2>1. p[3] = Find("load_firmware")
        BY <1>1, <1>14, UploadAt
    <2>2. At(h, 3, 1, 2)
        BY DEF At
    <2>3. At(h, 4, 2, 2)
        <3>1. CASE N = 0
            BY <3>1 DEF At
        <3>2. CASE N > 0
            BY <1>1, <3>2 DEF At
        <3> QED BY <1>1, <3>1, <3>2
    <2>4. 3 < Len(p)
        BY <1>1, <1>2
    <2> QED BY <1>3, <1>5, <2>1, <2>2, <2>3, <2>4 DEF FindsNext
<1>6. CASE i \in 4 .. N + 3 /\ k = 2 /\ due = i - 2
    <2>1. p[i] = Send(Firmware[i - 3])
        BY <1>1, <1>6, <1>14, UploadAt
    <2>2. p[i] = Send(OpcodeOf(h, due + 1))
        BY <1>1, <1>6, <2>1, UploadOpcodes
    <2>3. NextDue(h, due) = due + 1 /\ i < Len(p) /\ due < N + 7
        BY <1>1, <1>2, <1>6 DEF NextDue
    <2>4. At(h, i + 1, k, due + 1)
        BY <1>1, <1>6 DEF At
    <2> QED BY <1>1, <1>3, <2>2, <2>3, <2>4 DEF SendsNext
<1>7. CASE i \in N + 4 .. 2 * N + 3 /\ k = i - N - 2 /\ due = N + 2
    <2>1. p[i] = Await("command_complete", "any")
        BY <1>1, <1>7, <1>14, UploadAt
    <2>2. CodeOf(h, k + 1) = "command_complete"
        <3>1. k + 1 \in 3 .. N + 2
            BY <1>1, <1>7
        <3> QED BY <3>1, UploadOpcodes
    <2>3. At(h, i + 1, k + 1, due)
        BY <1>1, <1>7 DEF At
    <2> QED BY <1>3, <2>1, <2>2, <2>3 DEF AwaitsNext
<1>8. ASSUME NEW q \in 0 .. 4, i = 2 * N + 4 + 2 * q, k = N + 2 + q, due = k
      PROVE  SendsNext(h, i, k, due)
    <2>1. p[i] = Send(OpcodeOf(h, N + 3 + q))
        <3>1. CASE q < 4
            <4>1. i \in 1 .. 2 * N + 11 /\ p[i] = Greeting[i]
                BY <1>1, <1>2, <1>8, <3>1
            <4>2. \/ i = 2 * N + 4 /\ N + 3 + q = N + 3
                  \/ i = 2 * N + 6 /\ N + 3 + q = N + 4
                  \/ i = 2 * N + 8 /\ N + 3 + q = N + 5
                  \/ i = 2 * N + 10 /\ N + 3 + q = N + 6
                BY <1>1, <1>8, <3>1
            <4> QED BY <4>1, <4>2, GreetingAt, LaterOpcodes
        <3>2. CASE q = 4
            <4>1. i = 2 * N + 12 /\ N + 3 + q = N + 7
                BY <1>1, <1>8, <3>2
            <4> QED BY <1>1, <4>1, ConnectAt, AcceptAt, LaterOpcodes
        <3> QED BY <3>1, <3>2
    <2>2. NextDue(h, due) = due + 1 /\ due + 1 = N + 3 + q /\ i < Len(p) /\ due < N + 7
        BY <1>1, <1>2, <1>8 DEF NextDue
    <2>3. At(h, i + 1, k, due + 1)
        BY <1>1, <1>8 DEF At
    <2> QED BY <1>1, <2>1, <2>2, <2>3 DEF SendsNext
<1>9. ASSUME NEW q \in 0 .. 4, i = 2 * N + 5 + 2 * q, k = N + 2 + q, due = k + 1
      PROVE  AwaitsNext(h, i, k, due)
    <2>1. p[i] = Await(CodeOf(h, N + 3 + q), OpcodeOf(h, N + 3 + q))
        <3>1. CASE q < 4
            <4>1. i \in 1 .. 2 * N + 11 /\ p[i] = Greeting[i]
                BY <1>1, <1>2, <1>9, <3>1
            <4>2. \/ i = 2 * N + 5 /\ N + 3 + q = N + 3
                  \/ i = 2 * N + 7 /\ N + 3 + q = N + 4
                  \/ i = 2 * N + 9 /\ N + 3 + q = N + 5
                  \/ i = 2 * N + 11 /\ N + 3 + q = N + 6
                BY <1>1, <1>9, <3>1
            <4> QED BY <4>1, <4>2, GreetingAt, LaterOpcodes
        <3>2. CASE q = 4
            <4>1. i = 2 * N + 13 /\ N + 3 + q = N + 7
                BY <1>1, <1>9, <3>2
            <4> QED BY <1>1, <4>1, ConnectAt, AcceptAt, LaterOpcodes DEF StatusOf
        <3> QED BY <3>1, <3>2
    <2>2. k + 1 = N + 3 + q
        BY <1>1, <1>9
    <2>3. At(h, i + 1, k + 1, due)
        <3>1. CASE q = 4
            BY <1>1, <1>9, <3>1 DEF At
        <3>2. CASE q < 4
            <4>1. q + 1 \in 0 .. 4 /\ i + 1 = 2 * N + 4 + 2 * (q + 1) /\ k + 1 = N + 2 + (q + 1)
                BY <1>1, <1>9, <3>2
            <4> QED BY <1>9, <4>1 DEF At
        <3> QED BY <3>1, <3>2
    <2> QED BY <2>1, <2>2, <2>3 DEF AwaitsNext
<1>10. CASE i = 2 * N + 14 /\ k = N + 7 /\ due = k
    <2>1. p[i] = Await(CodeOf(h, N + 8), OpcodeOf(h, N + 8))
        BY <1>1, <1>10, ConnectAt, AcceptAt, LaterOpcodes
    <2>2. i < Len(p) => At(h, i + 1, k + 1, due)
        BY <1>1, <1>2, <1>10 DEF At
    <2>3. k + 1 = N + 8
        BY <1>1, <1>10
    <2> QED BY <1>3, <2>1, <2>2, <2>3 DEF AwaitsNext
<1>11. CASE h # Alice /\ i = 2 * N + 15 /\ k = N + 8 /\ due = N + 7
    <2>1. p[i] = Send(OpcodeOf(h, N + 9))
        BY <1>1, <1>11, AcceptAt, LaterOpcodes
    <2>2. NextDue(h, due) = N + 9 /\ i < Len(p) /\ due <= N + 7
        BY <1>1, <1>2, <1>11 DEF NextDue
    <2>3. At(h, i + 1, k, N + 9)
        BY <1>1, <1>11 DEF At
    <2> QED BY <1>3, <1>11, <2>1, <2>2, <2>3 DEF SendsNext
<1>12. CASE h # Alice /\ i = 2 * N + 16 /\ k = N + 8 /\ due = N + 9
    <2>1. p[i] = Await(CodeOf(h, N + 9), OpcodeOf(h, N + 9))
        BY <1>1, <1>12, AcceptAt, LaterOpcodes DEF StatusOf
    <2>2. At(h, i + 1, k + 1, due)
        BY <1>1, <1>12 DEF At
    <2>3. k + 1 = N + 9
        BY <1>1, <1>12
    <2> QED BY <1>3, <2>1, <2>2, <2>3 DEF AwaitsNext
<1>13. CASE h # Alice /\ i = 2 * N + 17 /\ k = N + 9 /\ due = N + 9
    <2>1. p[i] = Await(CodeOf(h, N + 10), OpcodeOf(h, N + 10))
        BY <1>1, <1>13, AcceptAt, LaterOpcodes
    <2>2. k + 1 = N + 10 /\ ~ (i < Len(p))
        BY <1>1, <1>2, <1>13
    <2> QED BY <1>3, <2>1, <2>2 DEF AwaitsNext
<1> QED
    BY <1>3, <1>4, <1>5, <1>6, <1>7, <1>8, <1>9, <1>10, <1>11, <1>12, <1>13 DEF At

----------------------------------------------------------------------------
(* What sequences do to the events on their way, where S holds packets.    *)

LEMMA FinalIs == \A h \in Hosts : Final(h) \in Nat /\ Final(h) >= 8
    BY UploadAt DEF Final

LEMMA LineReceived ==
    ASSUME NEW S, NEW h \in Hosts, NEW k \in Nat, NEW e \in Seq(S), NEW u \in Seq(S),
           u # <<>>, LineFits(h, k, e, u)
    PROVE  /\ LineFits(h, k, Append(e, Head(u)), Tail(u))
           /\ k + Len(Append(e, Head(u))) + Len(Tail(u)) = k + Len(e) + Len(u)
<1> DEFINE f == Append(e, Head(u))
           t == Tail(u)
<1>1. /\ Len(u) \in Nat /\ Len(u) > 0 /\ Head(u) = u[1] /\ Head(u) \in S /\ Len(t) = Len(u) - 1
      /\ \A i \in 1 .. Len(t) : i + 1 \in 1 .. Len(u) /\ t[i] = u[i + 1]
    BY TailFacts
<1>2. /\ Len(e) \in Nat /\ Len(f) = Len(e) + 1 /\ f[Len(e) + 1] = Head(u)
      /\ \A i \in 1 .. Len(e) + 1 : i # Len(e) + 1 => i \in 1 .. Len(e) /\ f[i] = e[i]
    BY <1>1, AppendFacts
<1> HIDE DEF f, t
<1>3. ASSUME NEW i \in 1 .. Len(f), k + i <= Final(h) PROVE Fits(h, k + i, f[i])
    <2>1. CASE i = Len(e) + 1
        <3>1. 1 \in 1 .. Len(u) /\ k + Len(e) + 1 = k + i
            BY <1>1, <1>2, <2>1
        <3> QED BY <1>1, <1>2, <1>3, <2>1, <3>1 DEF LineFits
    <2>2. CASE i # Len(e) + 1
        BY <1>2, <1>3, <2>2 DEF LineFits
    <2> QED BY <2>1, <2>2
<1>4. ASSUME NEW i \in 1 .. Len(t), k + Len(f) + i <= Final(h)
      PROVE  Fits(h, k + Len(f) + i, t[i])
    <2>1. k + Len(f) + i = k + Len(e) + (i + 1)
        BY <1>2
    <2> QED BY <1>1, <1>4, <2>1 DEF LineFits
<1>5. k + Len(f) + Len(t) = k + Len(e) + Len(u)
    BY <1>1, <1>2
<1> QED BY <1>3, <1>4, <1>5 DEF LineFits, f, t

LEMMA LinePastData ==
    ASSUME NEW S, NEW h \in Hosts, NEW k \in Nat, NEW e \in Seq(S), NEW u \in Seq(S),
           u # <<>>, LineFits(h, k, e, u), Head(u).type # "event"
    PROVE  /\ LineFits(h, k, e, Tail(u))
           /\ k + Len(e) >= Final(h) /\ k + Len(e) + Len(Tail(u)) >= Final(h)
           /\ k + Len(e) + Len(u) >= Final(h)
<1>1. /\ Len(u) \in Nat /\ Len(u) > 0 /\ Head(u) = u[1] /\ Len(Tail(u)) = Len(u) - 1
      /\ \A i \in 1 .. Len(Tail(u)) : i + 1 \in 1 .. Len(u) /\ Tail(u)[i] = u[i + 1]
    BY TailFacts
<1>2. Len(e) \in Nat
    BY LenProperties
<1>3. k + Len(e) >= Final(h)
    <2>1. 1 \in 1 .. Len(u) /\ ~ Fits(h, k + Len(e) + 1, u[1])
        BY <1>1 DEF Fits
    <2>2. ~ (k + Len(e) + 1 <= Final(h))
        BY <2>1 DEF LineFits
    <2> QED BY <1>2, <2>2, FinalIs
<1>4. k + Len(e) + Len(Tail(u)) >= Final(h) /\ k + Len(e) + Len(u) >= Final(h)
    BY <1>1, <1>2, <1>3, FinalIs
<1>5. \A i \in 1 .. Len(Tail(u)) : ~ (k + Len(e) + i <= Final(h))
    BY <1>1, <1>2, <1>3, FinalIs
<1> QED BY <1>3, <1>4, <1>5 DEF LineFits

LEMMA LinePopped ==
    ASSUME NEW S, NEW h \in Hosts, NEW k \in Nat, NEW e \in Seq(S), NEW u \in Seq(S),
           e # <<>>, LineFits(h, k, e, u)
    PROVE  /\ k + 1 <= Final(h) => Fits(h, k + 1, Head(e))
           /\ LineFits(h, k + 1, Tail(e), u)
           /\ k + 1 + Len(Tail(e)) + Len(u) = k + Len(e) + Len(u)
<1> DEFINE t == Tail(e)
<1>1. /\ Len(e) \in Nat /\ Len(e) > 0 /\ Head(e) = e[1] /\ Len(t) = Len(e) - 1
      /\ \A i \in 1 .. Len(t) : i + 1 \in 1 .. Len(e) /\ t[i] = e[i + 1]
    BY TailFacts
<1>2. Len(u) \in Nat
    BY LenProperties
<1> HIDE DEF t
<1>3. k + 1 <= Final(h) => Fits(h, k + 1, Head(e))
    <2>1. 1 \in 1 .. Len(e)
        BY <1>1
    <2> QED BY <1>1, <2>1 DEF LineFits
<1>4. ASSUME NEW i \in 1 .. Len(t), k + 1 + i <= Final(h) PROVE Fits(h, k + 1 + i, t[i])
    <2>1. k + 1 + i = k + (i + 1)
        BY <1>1
    <2> QED BY <1>1, <1>4, <2>1 DEF LineFits
<1>5. k + 1 + Len(t) = k + Len(e) /\ k + 1 + Len(t) + Len(u) = k + Len(e) + Len(u)
    BY <1>1, <1>2
<1> QED BY <1>3, <1>4, <1>5 DEF LineFits, t

LEMMA LineAppended ==
    ASSUME NEW S, NEW h \in Hosts, NEW k \in Nat, NEW e \in Seq(S), NEW u \in Seq(S),
           NEW p \in S, LineFits(h, k, e, u),
           LET n == k + Len(e) + Len(u) IN n + 1 <= Final(h) => Fits(h, n + 1, p)
    PROVE  /\ LineFits(h, k, e, Append(u, p))
           /\ k + Len(e) + Len(Append(u, p)) = k + Len(e) + Len(u) + 1
<1> DEFINE v == Append(u, p)
           n == k + Len(e) + Len(u)
<1>1. /\ Len(u) \in Nat /\ Len(v) = Len(u) + 1 /\ v[Len(u) + 1] = p
      /\ \A i \in 1 .. Len(u) + 1 : i # Len(u) + 1 => i \in 1 .. Len(u) /\ v[i] = u[i]
    BY AppendFacts
<1>2. Len(e) \in Nat
    BY LenProperties
<1> HIDE DEF v
<1>3. k + Len(e) + Len(v) = n + 1
    BY <1>1, <1>2
<1>4. ASSUME NEW i \in 1 .. Len(v), k + Len(e) + i <= Final(h)
      PROVE  Fits(h, k + Len(e) + i, v[i])
    <2>1. CASE i = Len(u) + 1
        <3>1. k + Len(e) + i = n + 1
            BY <1>1, <1>2, <2>1
        <3> QED BY <1>1, <1>4, <2>1, <3>1
    <2>2. CASE i # Len(u) + 1
        BY <1>1, <1>4, <2>2 DEF LineFits
    <2> QED BY <2>1, <2>2
<1> QED BY <1>3, <1>4 DEF LineFits, v

LEMMA LineNat ==
    ASSUME NEW S, NEW k \in Nat, NEW e \in Seq(S), NEW u \in Seq(S)
    PROVE  k + Len(e) + Len(u) \in Nat /\ k + Len(e) + Len(u) >= k
<1>1. Len(e) \in Nat /\ Len(u) \in Nat
    BY LenProperties
<1> QED BY <1>1

----------------------------------------------------------------------------
(* When a host keeps to its script. *)

Dues(h) == {n \in Nat : n <= N + 7 \/ (h # Alice /\ n = N + 9)}

LEMMA DueIs ==
    ASSUME NEW h, NEW i \in Nat, NEW k \in Nat, NEW due \in Nat, At(h, i, k, due)
    PROVE  due \in Dues(h)
<1>1. N \in Nat
    BY UploadAt
<1> QED BY <1>1 DEF At, Dues

LEMMA StepIsNat ==
    ASSUME IInv, NEW h \in Hosts
    PROVE  /\ step[h] \in Nat /\ step[h] \in 1 .. Len(Program[h])
           /\ up[h] \in Seq(Packets) /\ event_rx_buffer[h] \in Seq(Packets)
<1>1. step[h] \in 1 .. Len(Program[h]) /\ Len(Program[h]) \in Nat
    BY ProgramSteps DEF IInv, ControlTypes
<1>2. event_rx_buffer[h] \in Seq(Packets)
    <2>1. event_rx_buffer[h] \in Seq(Events) /\ Events \subseteq Packets
        BY DEF IInv, HciInv, HciTypes, Packets
    <2> QED BY <2>1, SeqMonotonic
<1> QED BY <1>1, <1>2, QueueTypes

(* A step after which the same events are on their way to it. *)
LEMMA ScriptQuiet ==
    ASSUME IInv, NEW h \in Hosts, Script(h),
           UNCHANGED <<pc[h], step[h], event_rx_buffer[h], up[h]>>,
           \A due \in Dues(h) : \A n \in Nat :
               AnswersFit(h, due, n, down[h], inbox[h]) /\ LinkFits(h, link, scanning, n) =>
                   /\ AnswersFit(h, due, n, down'[h], inbox'[h])
                   /\ LinkFits(h, link', scanning', n)
    PROVE  Script(h)'
<1> SUFFICES ASSUME pc[h] = "program"
             PROVE  ScriptedIn(h, step[h], link', scanning', event_rx_buffer[h], up[h],
                               down'[h], inbox'[h])
    BY DEF Script
<1> DEFINE e == event_rx_buffer[h]
           u == up[h]
<1>1. PICK k \in Nat, due \in Nat :
            /\ At(h, step[h], k, due) /\ LineFits(h, k, e, u)
            /\ AnswersFit(h, due, k + Len(e) + Len(u), down[h], inbox[h])
            /\ LinkFits(h, link, scanning, k + Len(e) + Len(u))
    BY DEF Script, ScriptedIn
<1>2. k + Len(e) + Len(u) \in Nat /\ due \in Dues(h)
    BY <1>1, StepIsNat, LineNat, DueIs
<1> HIDE DEF e, u
<1>3. /\ AnswersFit(h, due, k + Len(e) + Len(u), down'[h], inbox'[h])
      /\ LinkFits(h, link', scanning', k + Len(e) + Len(u))
    BY <1>1, <1>2
<1> QED BY <1>1, <1>3 DEF ScriptedIn, e, u

\* All that a host's script speaks of, but for the link, stays.
Untouched(h) == UNCHANGED <<pc[h], step[h], event_rx_buffer[h], up[h], down[h], inbox[h]>>

LEMMA ScriptUntouched ==
    ASSUME IInv, NEW h \in Hosts, Script(h), Untouched(h),
           \A n \in Nat : LinkFits(h, link, scanning, n) => LinkFits(h, link', scanning', n)
    PROVE  Script(h)'
    BY ScriptQuiet DEF Untouched

(* Another event on its line, which must be the next one. *)
LEMMA ScriptAppended ==
    ASSUME IInv, NEW h \in Hosts, Script(h), NEW p \in Packets,
           UNCHANGED <<pc[h], step[h], event_rx_buffer[h]>>, up'[h] = Append(up[h], p),
           \A due \in Dues(h) : \A n \in Nat :
               AnswersFit(h, due, n, down[h], inbox[h]) /\ LinkFits(h, link, scanning, n) =>
                   /\ n + 1 <= Final(h) => Fits(h, n + 1, p)
                   /\ AnswersFit(h, due, n + 1, down'[h], inbox'[h])
                   /\ LinkFits(h, link', scanning', n + 1)
    PROVE  Script(h)'
<1> SUFFICES ASSUME pc[h] = "program"
             PROVE  ScriptedIn(h, step[h], link', scanning', event_rx_buffer[h],
                               Append(up[h], p), down'[h], inbox'[h])
    BY DEF Script
<1> DEFINE e == event_rx_buffer[h]
           u == up[h]
           v == Append(u, p)
<1>1. PICK k \in Nat, due \in Nat :
            /\ At(h, step[h], k, due) /\ LineFits(h, k, e, u)
            /\ AnswersFit(h, due, k + Len(e) + Len(u), down[h], inbox[h])
            /\ LinkFits(h, link, scanning, k + Len(e) + Len(u))
    BY DEF Script, ScriptedIn
<1>2. k + Len(e) + Len(u) \in Nat /\ due \in Dues(h)
    BY <1>1, StepIsNat, LineNat, DueIs
<1>3. e \in Seq(Packets) /\ u \in Seq(Packets)
    BY StepIsNat
<1>4. LineFits(h, k, e, v) /\ k + Len(e) + Len(v) = k + Len(e) + Len(u) + 1
    <2>1. k + Len(e) + Len(u) + 1 <= Final(h) => Fits(h, k + Len(e) + Len(u) + 1, p)
        BY <1>1, <1>2
    <2> HIDE DEF e, u
    <2> QED BY <1>1, <1>3, <2>1, LineAppended
<1>5. /\ AnswersFit(h, due, k + Len(e) + Len(v), down'[h], inbox'[h])
      /\ LinkFits(h, link', scanning', k + Len(e) + Len(v))
    BY <1>1, <1>2, <1>4
<1> HIDE DEF e, v
<1> QED BY <1>1, <1>4, <1>5 DEF ScriptedIn, e, v

(* Once the last event of its program is on its way, more may follow. *)
LEMMA PastTheEnd ==
    ASSUME NEW h \in Hosts, NEW due \in Dues(h), NEW n \in Nat, NEW m \in Nat,
           n >= Final(h), m >= Final(h), NEW d, NEW q, NEW l, NEW s,
           AnswersFit(h, due, n, d, q), LinkFits(h, l, s, n)
    PROVE  AnswersFit(h, due, m, d, q) /\ LinkFits(h, l, s, m)
<1>1. N \in Nat
    BY UploadAt
<1>2. due + 1 <= Final(h) /\ due \in Nat
    BY <1>1 DEF Dues, Final
<1>3. AnswersFit(h, due, m, d, q)
    BY <1>1, <1>2 DEF AnswersFit, Final
<1>4. LinkFits(h, l, s, m)
    BY <1>1 DEF LinkFits, Final
<1> QED BY <1>3, <1>4

LEMMA ReceiveScript ==
    ASSUME IInv, NEW h \in Hosts, Script(h), pc[h] = "program", Receive(h),
           UNCHANGED <<pc, step, link, scanning>>
    PROVE  Script(h)'
<1> DEFINE e == event_rx_buffer[h]
           u == up[h]
           n == inbox[h]
           d == down[h]
<1>1. PICK k \in Nat, due \in Nat :
            /\ At(h, step[h], k, due) /\ LineFits(h, k, e, u)
            /\ AnswersFit(h, due, k + Len(e) + Len(u), d, n)
            /\ LinkFits(h, link, scanning, k + Len(e) + Len(u))
    BY DEF Script, ScriptedIn
<1>2. e \in Seq(Packets) /\ u \in Seq(Packets) /\ k + Len(e) + Len(u) \in Nat /\ due \in Dues(h)
    BY <1>1, StepIsNat, LineNat, DueIs
<1>3. /\ u # <<>> /\ up'[h] = Tail(u) /\ down'[h] = d /\ inbox'[h] = n
      /\ pc'[h] = "program" /\ step'[h] = step[h] /\ link' = link /\ scanning' = scanning
    BY DEF Receive, IInv, HciInv, HciTypes
<1>4. \/ event_rx_buffer'[h] = Append(e, Head(u))
      \/ event_rx_buffer'[h] = e /\ Head(u).type # "event"
    BY DEF Receive, IInv, HciInv, HciTypes
<1> HIDE DEF e, u, n, d
<1>5. CASE event_rx_buffer'[h] = Append(e, Head(u))
    <2>1. /\ LineFits(h, k, Append(e, Head(u)), Tail(u))
          /\ k + Len(Append(e, Head(u))) + Len(Tail(u)) = k + Len(e) + Len(u)
        BY <1>1, <1>2, <1>3, LineReceived
    <2>2. ScriptedIn(h, step[h], link, scanning, Append(e, Head(u)), Tail(u), d, n)
        BY <1>1, <2>1 DEF ScriptedIn
    <2> QED BY <1>3, <1>5, <2>2 DEF Script
<1>6. CASE event_rx_buffer'[h] = e /\ Head(u).type # "event"
    <2>1. /\ LineFits(h, k, e, Tail(u)) /\ k + Len(e) + Len(Tail(u)) >= Final(h)
          /\ k + Len(e) + Len(u) >= Final(h)
        BY <1>1, <1>2, <1>3, <1>6, LinePastData
    <2>2. k + Len(e) + Len(Tail(u)) \in Nat
        BY <1>2, <1>3, LineNat, TailFacts
    <2>3. /\ AnswersFit(h, due, k + Len(e) + Len(Tail(u)), d, n)
          /\ LinkFits(h, link, scanning, k + Len(e) + Len(Tail(u)))
        <3>1. PICK a \in Nat, b \in Nat :
                    a = k + Len(e) + Len(u) /\ b = k + Len(e) + Len(Tail(u))
            BY <1>2, <2>2
        <3>2. /\ a >= Final(h) /\ b >= Final(h)
              /\ AnswersFit(h, due, a, d, n) /\ LinkFits(h, link, scanning, a)
            BY <1>1, <2>1, <3>1
        <3>3. AnswersFit(h, due, b, d, n) /\ LinkFits(h, link, scanning, b)
            BY <1>2, <3>2, PastTheEnd
        <3> QED BY <3>1, <3>3
    <2>4. ScriptedIn(h, step[h], link, scanning, e, Tail(u), d, n)
        BY <1>1, <2>1, <2>3 DEF ScriptedIn
    <2> QED BY <1>3, <1>6, <2>4 DEF Script
<1> QED BY <1>4, <1>5, <1>6

----------------------------------------------------------------------------
(* The hosts keep to their scripts. *)

LEMMA CommandQueued ==
    ASSUME NEW S, NEW d \in Seq(S), NEW p \in S, ~ HasCommand(d), IsCommand(p)
    PROVE  /\ HasCommand(Append(d, p))
           /\ \A i \in 1 .. Len(Append(d, p)) :
                 IsCommand(Append(d, p)[i]) => Append(d, p)[i] = p
<1>1. /\ Len(d) \in Nat /\ Len(Append(d, p)) = Len(d) + 1 /\ Append(d, p)[Len(d) + 1] = p
      /\ \A i \in 1 .. Len(d) + 1 : i # Len(d) + 1 => i \in 1 .. Len(d) /\ Append(d, p)[i] = d[i]
    BY AppendFacts
<1>2. Len(d) + 1 \in 1 .. Len(d) + 1
    BY <1>1
<1> QED BY <1>1, <1>2 DEF HasCommand

(* A host sends when all it has asked for is answered and no more. *)
LEMMA SendFits ==
    ASSUME NEW h \in Hosts, NEW i, NEW k \in Nat, NEW due \in Nat, SendsNext(h, i, k, due),
           NEW n \in Nat, n >= k, NEW d, NEW q, AnswersFit(h, due, n, d, q), ~ Pending(d, q)
    PROVE  n = NextDue(h, due) - 1
<1>1. N \in Nat
    BY UploadAt
<1> QED BY <1>1 DEF SendsNext, AnswersFit, NextDue

LEMMA SendScript ==
    ASSUME CommandSlots = 1, IInv, NEW h \in Hosts, Script(h), pc[h] = "program",
           Step(h).do = "send", SendCommand(h, Step(h).opcode), NextStep(h),
           UNCHANGED <<link, scanning>>
    PROVE  /\ Script(h)'
           /\ \E n \in Nat :
                 /\ OpcodeOf(h, n) \in Opcodes
                 /\ down' = [down EXCEPT ![h] = Append(down[h], Command(OpcodeOf(h, n)))]
<1> DEFINE e == event_rx_buffer[h]
           u == up[h]
           i == step[h]
<1>1. PICK k \in Nat, due \in Nat :
            /\ At(h, i, k, due) /\ LineFits(h, k, e, u)
            /\ AnswersFit(h, due, k + Len(e) + Len(u), down[h], inbox[h])
            /\ LinkFits(h, link, scanning, k + Len(e) + Len(u))
    BY DEF Script, ScriptedIn
<1>2. /\ i \in 1 .. Len(Program[h]) /\ e \in Seq(Packets) /\ u \in Seq(Packets)
      /\ k + Len(e) + Len(u) \in Nat /\ k + Len(e) + Len(u) >= k
    BY StepIsNat, LineNat
<1>3. SendsNext(h, i, k, due)
    <2>1. SendsNext(h, i, k, due) \/ FindsNext(h, i, k, due) \/ AwaitsNext(h, i, k, due)
        BY <1>1, <1>2, StepAt
    <2>2. Program[h][i].do = "send"
        BY DEF Step
    <2>3. ~ FindsNext(h, i, k, due)
        BY <2>2 DEF FindsNext, Find
    <2>4. ~ AwaitsNext(h, i, k, due)
        BY <2>2 DEF AwaitsNext, Await
    <2> QED BY <2>1, <2>3, <2>4
<1> DEFINE next == NextDue(h, due)
           o == OpcodeOf(h, next)
           v == Append(down[h], Command(o))
<1>4. next \in Nat /\ next >= 1
    BY UploadAt DEF NextDue
<1>5. Step(h).opcode = o
    BY <1>3 DEF SendsNext, Step, Send
<1>6. /\ down' = [down EXCEPT ![h] = v] /\ down'[h] = v
      /\ event_rx_buffer'[h] = e /\ up'[h] = u /\ inbox'[h] = inbox[h]
    BY <1>5 DEF SendCommand, IInv, HciInv, HciTypes
<1>7. pc'[h] = "program" /\ step'[h] = i + 1
    BY <1>3 DEF NextStep, SendsNext, IInv, ControlTypes
<1>8. ~ HasCommand(down[h]) /\ inbox[h] = <<>>
    <2>1. OneToken(n_commands_can_send[h], down[h], inbox[h], up[h])
        BY DEF IInv, HciInv, Tokens
    <2>2. n_commands_can_send[h] # 0
        BY DEF SendCommand, IInv, HciInv, HciTypes
    <2> QED BY <2>1, <2>2 DEF OneToken
<1>8a. o \in Opcodes
    <2>1. Program[h][i] \in Steps
        BY <1>2, ProgramSteps, ElementOfSeq
    <2> QED BY <1>3, <2>1 DEF SendsNext, Send, Steps, SendSteps, WaitSteps
<1>9. down[h] \in Seq(Packets) /\ Command(o) \in Packets /\ IsCommand(Command(o))
    <2>1. Command(o) \in Commands
        BY <1>8a DEF Command, Commands
    <2> QED BY <2>1, QueueTypes DEF Packets, Command, IsCommand
<1>10. AnswersFit(h, next, k + Len(e) + Len(u), v, inbox[h])
    <2>1. HasCommand(v) /\ \A j \in 1 .. Len(v) : IsCommand(v[j]) => v[j] = Command(o)
        BY <1>8, <1>9, CommandQueued
    <2>2. ~ Pending(down[h], inbox[h]) /\ Pending(v, inbox[h])
        BY <1>8, <2>1 DEF Pending
    <2>3. k + Len(e) + Len(u) = next - 1
        BY <1>1, <1>2, <1>3, <2>2, SendFits
    <2>4. \A j \in 1 .. Len(v) : IsCommand(v[j]) => v[j].opcode = o
        BY <2>1 DEF Command
    <2>5. Len(inbox[h]) = 0
        BY <1>8
    <2> HIDE DEF v, e, u
    <2>6. \A j \in 1 .. Len(inbox[h]) : inbox[h][j] = o
        BY <2>5
    <2> QED BY <2>2, <2>3, <2>4, <2>6 DEF AnswersFit
<1>11. At(h, i + 1, k, next)
    BY <1>3 DEF SendsNext
<1> HIDE DEF e, u, v, next
<1>12. ScriptedIn(h, i + 1, link, scanning, e, u, v, inbox[h])
    BY <1>1, <1>4, <1>10, <1>11 DEF ScriptedIn
<1>13. Script(h)'
    BY <1>6, <1>7, <1>12 DEF Script
<1>14. \E n \in Nat :
          /\ OpcodeOf(h, n) \in Opcodes
          /\ down' = [down EXCEPT ![h] = Append(down[h], Command(OpcodeOf(h, n)))]
    BY <1>4, <1>6, <1>8a DEF v
<1> QED BY <1>13, <1>14

(* The event that is next is the one that is awaited. *)
LEMMA PopScript ==
    ASSUME IInv, NEW h \in Hosts, Script(h), pc[h] = "program", Step(h).do \in {"await", "find"},
           PopEvent(h), UNCHANGED <<link, scanning>>,
           LET e == Head(event_rx_buffer[h]) IN
             IF Matches(Step(h), e) /\ e.ok THEN NextStep(h)
             ELSE IF Step(h).do = "find" THEN UNCHANGED <<pc, step>>
             ELSE Goto(h, "panic")
    PROVE  Script(h)'
<1> DEFINE e == event_rx_buffer[h]
           u == up[h]
           i == step[h]
           p == Head(e)
<1>1. PICK k \in Nat, due \in Nat :
            /\ At(h, i, k, due) /\ LineFits(h, k, e, u)
            /\ AnswersFit(h, due, k + Len(e) + Len(u), down[h], inbox[h])
            /\ LinkFits(h, link, scanning, k + Len(e) + Len(u))
    BY DEF Script, ScriptedIn
<1>2. i \in 1 .. Len(Program[h]) /\ e \in Seq(Packets) /\ u \in Seq(Packets)
    BY StepIsNat
<1>3. /\ e # <<>> /\ event_rx_buffer'[h] = Tail(e) /\ up'[h] = u
      /\ down'[h] = down[h] /\ inbox'[h] = inbox[h] /\ link' = link /\ scanning' = scanning
    BY DEF PopEvent, IInv, HciInv, HciTypes
<1>4. FindsNext(h, i, k, due) \/ AwaitsNext(h, i, k, due)
    <2>1. SendsNext(h, i, k, due) \/ FindsNext(h, i, k, due) \/ AwaitsNext(h, i, k, due)
        BY <1>1, <1>2, StepAt
    <2>2. Program[h][i].do # "send"
        BY DEF Step
    <2>3. ~ SendsNext(h, i, k, due)
        BY <2>2 DEF SendsNext, Send
    <2> QED BY <2>1, <2>3
<1>5. /\ LineFits(h, k + 1, Tail(e), u) /\ Fits(h, k + 1, p)
      /\ k + 1 + Len(Tail(e)) + Len(u) = k + Len(e) + Len(u)
    <2>1. k < Final(h) /\ Final(h) \in Nat
        BY <1>1, <1>2, StepAt, FinalIs
    <2> HIDE DEF e, u
    <2> QED BY <1>1, <1>2, <1>3, <2>1, LinePopped
<1>6. ASSUME NEW j \in Nat, At(h, j, k + 1, due), pc'[h] = "program", step'[h] = j
      PROVE  Script(h)'
    <2>1. ScriptedIn(h, j, link, scanning, Tail(e), u, down[h], inbox[h])
        <3> HIDE DEF e, u
        <3>1. k + 1 \in Nat
            OBVIOUS
        <3> QED BY <1>1, <1>5, <1>6, <3>1 DEF ScriptedIn
    <2> QED BY <1>3, <1>6, <2>1 DEF Script
<1>7. ASSUME pc'[h] = "event" PROVE Script(h)'
    BY <1>7 DEF Script
<1>8. NextStep(h) => IF i < Len(Program[h]) THEN pc'[h] = "program" /\ step'[h] = i + 1
                                            ELSE pc'[h] = "event"
    BY <1>2, ProgramSteps DEF NextStep, Goto, IInv, ControlTypes
<1>10. CASE FindsNext(h, i, k, due)
    <2>1. Step(h) = Find("load_firmware") /\ i < Len(Program[h]) /\ k \in 0 .. 1
          /\ At(h, i, 1, due) /\ At(h, i + 1, 2, due)
        BY <1>10 DEF FindsNext, Step
    <2>2. CASE k = 0
        <3>1. ~ Matches(Step(h), p)
            BY <1>5, <2>1, <2>2, UploadOpcodes DEF Matches, Find, Fits
        <3>2. UNCHANGED <<pc, step>>
            BY <2>1, <3>1 DEF Find
        <3>3. pc'[h] = "program" /\ step'[h] = i /\ At(h, i, k + 1, due) /\ i \in Nat
            BY <1>2, <2>1, <2>2, <3>2
        <3> QED BY <1>6, <3>3
    <2>3. CASE k = 1
        <3>1. Matches(Step(h), p) /\ p.ok
            BY <1>5, <2>1, <2>3, UploadOpcodes DEF Matches, Find, Fits
        <3>2. NextStep(h)
            BY <3>1
        <3>3. pc'[h] = "program" /\ step'[h] = i + 1 /\ At(h, i + 1, k + 1, due) /\ i + 1 \in Nat
            BY <1>2, <1>8, <2>1, <2>3, <3>2
        <3> QED BY <1>6, <3>3
    <2> QED BY <2>1, <2>2, <2>3
<1>11. CASE AwaitsNext(h, i, k, due)
    <2>1. PICK o \in {OpcodeOf(h, k + 1), "any"} : Step(h) = Await(CodeOf(h, k + 1), o)
        BY <1>11 DEF AwaitsNext, Step
    <2>2. Matches(Step(h), p) /\ p.ok
        BY <1>5, <2>1 DEF Matches, Await, Fits
    <2>3. NextStep(h)
        BY <2>2
    <2>4. CASE i < Len(Program[h])
        <3>1. pc'[h] = "program" /\ step'[h] = i + 1 /\ At(h, i + 1, k + 1, due) /\ i + 1 \in Nat
            BY <1>2, <1>8, <1>11, <2>3, <2>4 DEF AwaitsNext
        <3> QED BY <1>6, <3>1
    <2>5. CASE ~ (i < Len(Program[h]))
        BY <1>7, <1>8, <2>3, <2>5
    <2> QED BY <2>4, <2>5
<1> QED BY <1>4, <1>10, <1>11

----------------------------------------------------------------------------
(* The controllers and the link let them keep to it. *)

LEMMA CommandMoves ==
    ASSUME NEW S, NEW T, NEW h, NEW due, NEW n, NEW d \in Seq(S), NEW q \in Seq(T),
           d # <<>>, IsCommand(Head(d)), Head(d).opcode \in T, AnswersFit(h, due, n, d, q)
    PROVE  AnswersFit(h, due, n, Tail(d), Append(q, Head(d).opcode))
<1> DEFINE t == Tail(d)
           o == Head(d).opcode
           r == Append(q, o)
<1>1. /\ Len(d) \in Nat /\ Len(d) > 0 /\ Head(d) = d[1] /\ Len(t) = Len(d) - 1
      /\ \A i \in 1 .. Len(t) : i + 1 \in 1 .. Len(d) /\ t[i] = d[i + 1]
    BY TailFacts
<1>2. /\ Len(q) \in Nat /\ Len(r) = Len(q) + 1 /\ r[Len(q) + 1] = o
      /\ \A i \in 1 .. Len(q) + 1 : i # Len(q) + 1 => i \in 1 .. Len(q) /\ r[i] = q[i]
    BY AppendFacts
<1>3. 1 \in 1 .. Len(d) /\ HasCommand(d)
    BY <1>1 DEF HasCommand
<1>4. /\ n = due - 1
      /\ \A i \in 1 .. Len(d) : IsCommand(d[i]) => d[i].opcode = OpcodeOf(h, due)
      /\ \A i \in 1 .. Len(q) : q[i] = OpcodeOf(h, due)
    BY <1>3 DEF AnswersFit, Pending
<1>5. o = OpcodeOf(h, due)
    BY <1>1, <1>3, <1>4
<1>6. r # <<>>
    <2>1. Len(r) # 0
        BY <1>2
    <2> HIDE DEF r
    <2> QED BY <2>1
<1> HIDE DEF t, o, r
<1>7. \A i \in 1 .. Len(t) : IsCommand(t[i]) => t[i].opcode = OpcodeOf(h, due)
    BY <1>1, <1>4
<1>8. \A i \in 1 .. Len(r) : r[i] = OpcodeOf(h, due)
    BY <1>2, <1>4, <1>5
<1>9. AnswersFit(h, due, n, t, r)
    BY <1>4, <1>6, <1>7, <1>8 DEF AnswersFit, Pending
<1> QED BY <1>9 DEF t, o, r

LEMMA DataPasses ==
    ASSUME NEW S, NEW h, NEW due, NEW n, NEW d \in Seq(S), NEW q,
           d # <<>>, ~ IsCommand(Head(d)), AnswersFit(h, due, n, d, q)
    PROVE  AnswersFit(h, due, n, Tail(d), q)
<1> DEFINE t == Tail(d)
<1>1. /\ Len(d) \in Nat /\ Len(d) > 0 /\ Head(d) = d[1] /\ Len(t) = Len(d) - 1
      /\ \A i \in 1 .. Len(t) : i + 1 \in 1 .. Len(d) /\ t[i] = d[i + 1]
      /\ \A i \in 1 .. Len(d) : i # 1 => i - 1 \in 1 .. Len(t) /\ t[i - 1] = d[i]
    BY TailFacts
<1> HIDE DEF t
<1>2. HasCommand(d) <=> HasCommand(t)
    BY <1>1 DEF HasCommand
<1>3. Pending(d, q) => \A i \in 1 .. Len(t) : IsCommand(t[i]) => t[i].opcode = OpcodeOf(h, due)
    BY <1>1 DEF AnswersFit
<1>4. AnswersFit(h, due, n, t, q)
    BY <1>2, <1>3 DEF AnswersFit, Pending
<1> QED BY <1>4 DEF t

LEMMA OpcodesDiffer ==
    ASSUME NEW h \in Hosts, NEW due \in Dues(h), due # 0
    PROVE  /\ h = Alice => /\ OpcodeOf(h, due) = "create_connection" <=> due = N + 7
                           /\ OpcodeOf(h, due) # "accept_connection_request"
                           /\ OpcodeOf(h, due) # "write_scan_enable"
           /\ h # Alice => /\ OpcodeOf(h, due) # "create_connection"
                           /\ OpcodeOf(h, due) = "accept_connection_request" <=> due = N + 9
                           /\ OpcodeOf(h, due) = "write_scan_enable" <=> due = N + 7
           /\ CodeOf(h, due) = IF OpcodeOf(h, due) \in Deferred THEN "command_status"
                                                                ELSE "command_complete"
<1>1. N \in Nat
    BY UploadAt
<1>3. due # Final(h) /\ ~ (h # Alice /\ due = N + 8)
    BY <1>1 DEF Dues, Final
<1>2. CASE due < N + 7
    <2>1. OpcodeOf(h, due) \in {"reset", "load_firmware", "write_ram", "launch_ram",
             "read_bd_addr", "write_local_name", "read_local_name", "read_buffer_size"}
        BY <1>1, <1>2 DEF OpcodeOf, Dues
    <2> QED BY <1>1, <1>2, <1>3, <2>1 DEF CodeOf
<1>4. CASE due = N + 7
    BY <1>3, <1>4, LaterOpcodes DEF CodeOf
<1>5. CASE h # Alice /\ due = N + 9
    BY <1>1, <1>3, <1>5, LaterOpcodes DEF CodeOf
<1> QED BY <1>1, <1>2, <1>4, <1>5 DEF Dues

\* What a command that is executed does to the link, for the host that sent it.
LEMMA ExecutedLink ==
    ASSUME NEW h \in Hosts, NEW due \in Dues(h), NEW n \in Nat, n = due - 1,
           NEW l \in {"none", "paging", "requested", "accepted", "failed", "up", "down"},
           NEW s \in BOOLEAN, LinkFits(h, l, s, n),
           NEW m, NEW r, r <=> s \/ OpcodeOf(h, due) = "write_scan_enable",
           OpcodeOf(h, due) = "create_connection" => l = "none" /\ m = "paging",
           OpcodeOf(h, due) = "accept_connection_request" =>
                m = IF l = "requested" THEN "accepted" ELSE l,
           OpcodeOf(h, due) \notin Deferred => m = l
    PROVE  LinkFits(h, m, r, due)
<1>1. N \in Nat /\ due \in Nat /\ due # 0
    BY UploadAt DEF Dues
<1>2. CASE h = Alice
    <2>1. due <= N + 7
        BY <1>2 DEF Dues
    <2> QED BY <1>1, <1>2, <2>1, OpcodesDiffer DEF LinkFits, Deferred
<1>3. CASE h # Alice
    <2>1. CASE due = N + 9
        BY <1>1, <1>3, <2>1, OpcodesDiffer DEF LinkFits, Deferred
    <2>2. CASE due <= N + 7
        BY <1>1, <1>3, <2>2, OpcodesDiffer DEF LinkFits, Deferred
    <2> QED BY <2>1, <2>2 DEF Dues
<1> QED BY <1>2, <1>3

LEMMA IntakeScript ==
    ASSUME IInv, NEW h \in Hosts, Script(h), Intake(h), UNCHANGED <<pc, step, airVars>>
    PROVE  Script(h)'
<1> DEFINE d == down[h]
           q == inbox[h]
<1>1. d \in Seq(Packets) /\ q \in Seq(Opcodes) /\ d # <<>>
    BY QueueTypes DEF IInv, HciInv, HciTypes, Intake
<1>2. IsCommand(Head(d)) /\ Head(d).opcode \in Opcodes
    <2>1. Head(d) \in Commands \cup AclPackets
        BY <1>1, HeadTailProperties DEF IInv, HciInv, HciTypes
    <2>2. Head(d).type = "command"
        BY DEF Intake
    <2> QED BY <2>1, <2>2, PacketFacts DEF IsCommand
<1>3. /\ down'[h] = Tail(d) /\ inbox'[h] = Append(q, Head(d).opcode)
      /\ UNCHANGED <<pc[h], step[h], event_rx_buffer[h], up[h]>>
      /\ link' = link /\ scanning' = scanning
    BY DEF Intake, airVars, IInv, HciInv, HciTypes
<1> HIDE DEF d, q
<1>4. ASSUME NEW due \in Dues(h), NEW n \in Nat, AnswersFit(h, due, n, d, q)
      PROVE  AnswersFit(h, due, n, Tail(d), Append(q, Head(d).opcode))
    BY <1>1, <1>2, <1>4, CommandMoves
<1> QED BY <1>3, <1>4, ScriptQuiet DEF d, q

LEMMA TakeAclScript ==
    ASSUME IInv, NEW h \in Hosts, Script(h), TakeAcl(h)
    PROVE  Script(h)'
<1> DEFINE d == down[h]
           q == inbox[h]
<1>1. d \in Seq(Packets) /\ d # <<>>
    BY QueueTypes DEF TakeAcl
<1>2. ~ IsCommand(Head(d))
    BY DEF TakeAcl, IsCommand
<1>3. /\ down'[h] = Tail(d) /\ inbox'[h] = q
      /\ UNCHANGED <<pc[h], step[h], event_rx_buffer[h], up[h]>>
      /\ link' = link /\ scanning' = scanning
    BY DEF TakeAcl, OverAir, IInv, HciInv, HciTypes
<1> HIDE DEF d, q
<1>4. ASSUME NEW due \in Dues(h), NEW n \in Nat, AnswersFit(h, due, n, d, q)
      PROVE  AnswersFit(h, due, n, Tail(d), q)
    BY <1>1, <1>2, <1>4, DataPasses
<1> QED BY <1>3, <1>4, ScriptQuiet DEF d, q

\* The answer to a command is the next event.
LEMMA ExecuteScript ==
    ASSUME CommandSlots = 1, IInv, Linked, NEW h \in Hosts, Script(h), Execute(h)
    PROVE  Script(h)'
<1> DEFINE q == inbox[h]
           d == down[h]
           o == Head(q)
           c == IF o \in Deferred THEN "command_status" ELSE "command_complete"
           p == Event(c, o, TRUE, CommandSlots - Len(Tail(q)))
<1>1. /\ q # <<>> /\ q \in Seq(Opcodes) /\ o = q[1] /\ o \in Opcodes
      /\ Len(q) \in Nat /\ Len(q) > 0
    BY TailFacts DEF Execute, IInv, HciInv, HciTypes
<1>2. ~ HasCommand(d) /\ Tail(q) = <<>> /\ Len(Tail(q)) = 0
    <2>1. OneToken(n_commands_can_send[h], down[h], inbox[h], up[h])
        BY DEF IInv, HciInv, Tokens
    <2>2. ~ HasCommand(d) /\ Len(q) <= 1
        BY <1>1, <2>1 DEF OneToken
    <2> QED BY <1>1, <2>2, TailOfOne
<1>3. p \in Packets
    <2>1. CommandSlots - Len(Tail(q)) = 1 /\ 1 \in 0 .. CommandSlots
        BY <1>2
    <2>2. p = Event(c, o, TRUE, 1)
        BY <2>1
    <2> HIDE DEF p, q, o
    <2>3. Event(c, o, TRUE, 1) \in Events
        BY <1>1, <2>1 DEF Event, Events, EventCodes
    <2> QED BY <2>2, <2>3 DEF Packets
<1>4. /\ UNCHANGED <<pc[h], step[h], event_rx_buffer[h]>> /\ up'[h] = Append(up[h], p)
      /\ down'[h] = d /\ inbox'[h] = Tail(q)
    BY DEF Execute, Answer, IInv, HciInv, HciTypes
<1>5. /\ scanning' = (scanning \/ o = "write_scan_enable")
      /\ o = "create_connection" => link' = "paging"
      /\ o = "accept_connection_request" => link' = IF link = "requested" THEN "accepted" ELSE link
      /\ o \notin Deferred => link' = link
    BY DEF Execute, Deferred
<1>6. o = "create_connection" => link = "none"
    <2>1. AsksOnce(h, o)
        <3>1. q \in Seq(Asks(h))
            BY DEF Linked, Queues, Queued
        <3> QED BY <1>1, <3>1, HeadTailProperties DEF Asks
    <2> QED BY <2>1 DEF AsksOnce, Deferred, Asking
<1>7. p.type = "event" /\ p.ok /\ p.code = c /\ p.opcode = o
    BY DEF Event
<1> HIDE DEF p, q, d, o
<1>8. ASSUME NEW due \in Dues(h), NEW n \in Nat,
             AnswersFit(h, due, n, d, q), LinkFits(h, link, scanning, n)
      PROVE  /\ Fits(h, n + 1, p) /\ AnswersFit(h, due, n + 1, d, Tail(q))
             /\ LinkFits(h, link', scanning', n + 1)
    <2>1. Pending(d, q)
        BY <1>1 DEF Pending
    <2>2. n = due - 1 /\ \A i \in 1 .. Len(q) : q[i] = OpcodeOf(h, due)
        BY <1>8, <2>1 DEF AnswersFit
    <2>3. o = OpcodeOf(h, due)
        <3>1. 1 \in 1 .. Len(q)
            BY <1>1
        <3> QED BY <1>1, <2>2, <3>1
    <2>4. n + 1 = due /\ due # 0 /\ due \in Nat
        BY <2>2 DEF Dues
    <2>5. Fits(h, due, p)
        BY <1>7, <2>3, <2>4, OpcodesDiffer DEF Fits
    <2>6. AnswersFit(h, due, due, d, Tail(q))
        <3>1. ~ Pending(d, Tail(q))
            BY <1>2 DEF Pending
        <3>2. N \in Nat
            BY UploadAt
        <3> QED BY <2>4, <3>1, <3>2 DEF AnswersFit, Dues
    <2>7. /\ link \in {"none", "paging", "requested", "accepted", "failed", "up", "down"}
          /\ scanning \in BOOLEAN
        BY DEF IInv, AirTypes
    <2>8. LinkFits(h, link', scanning', due)
        BY <1>5, <1>6, <1>8, <2>2, <2>3, <2>7, ExecutedLink
    <2> QED BY <2>4, <2>5, <2>6, <2>8
<1>9. \A due \in Dues(h) : \A n \in Nat :
         AnswersFit(h, due, n, down[h], inbox[h]) /\ LinkFits(h, link, scanning, n) =>
            /\ n + 1 <= Final(h) => Fits(h, n + 1, p)
            /\ AnswersFit(h, due, n + 1, down'[h], inbox'[h])
            /\ LinkFits(h, link', scanning', n + 1)
    BY <1>4, <1>8 DEF d, q
<1> QED BY <1>3, <1>4, <1>9, ScriptAppended

\* It does not surprise the other host.
LEMMA ExecuteOthers ==
    ASSUME IInv, Linked, OnScript, NEW h \in Hosts, Execute(h), NEW g \in Hosts, g # h
    PROVE  Script(g)'
<1> DEFINE o == Head(inbox[h])
<1>1. inbox[h] # <<>> /\ inbox[h] \in Seq(Asks(h)) /\ Len(inbox[h]) \in Nat /\ Len(inbox[h]) > 0
      /\ o = inbox[h][1] /\ o \in Asks(h)
    <2>1. inbox[h] # <<>> /\ inbox[h] \in Seq(Asks(h))
        BY DEF Execute, Linked, Queues, Queued
    <2> QED BY <2>1, TailFacts
<1>2. AsksOnce(h, o)
    BY <1>1 DEF Asks
<1>3. Untouched(g)
    BY DEF Untouched, Execute, Answer, IInv, HciInv, HciTypes
<1>4. /\ scanning' = (scanning \/ o = "write_scan_enable") /\ scanning \in BOOLEAN
      /\ o = "create_connection" => link' = "paging"
      /\ o = "accept_connection_request" => link' = IF link = "requested" THEN "accepted" ELSE link
      /\ o \notin Deferred => link' = link
    BY DEF Execute, Deferred, IInv, AirTypes
<1>5. h = Alice => o # "write_scan_enable"
    <2>1. 1 \in 1 .. Len(inbox[h])
        BY <1>1
    <2> QED BY <1>1, <2>1 DEF OnScript, NoScan
<1>6. N \in Nat
    BY UploadAt
<1>7. o = "create_connection" => h = Alice /\ link = "none"
    BY <1>2 DEF AsksOnce, Asking, Deferred
<1>8. o = "accept_connection_request" => h # Alice
    BY <1>2 DEF AsksOnce, Asking, Deferred
<1>9. (h = Alice /\ g # Alice) \/ (h # Alice /\ g = Alice)
    BY PeerAssumption
<1> HIDE DEF o
<1>10. ASSUME NEW n \in Nat, LinkFits(g, link, scanning, n) PROVE LinkFits(g, link', scanning', n)
    <2>1. CASE h = Alice /\ g # Alice
        <3>1. scanning' = scanning /\ (link' = link \/ (link = "none" /\ link' = "paging"))
            BY <1>4, <1>5, <1>7, <1>8, <2>1 DEF Deferred
        <3> QED BY <1>6, <1>10, <2>1, <3>1 DEF LinkFits
    <2>2. CASE h # Alice /\ g = Alice
        <3>1. link' = link \/ (link = "requested" /\ link' = "accepted")
            BY <1>4, <1>7, <2>2 DEF Deferred
        <3> QED BY <1>6, <1>10, <2>2, <3>1 DEF LinkFits
    <2> QED BY <1>9, <2>1, <2>2
<1>11. Script(g)
    BY DEF OnScript
<1> QED BY <1>3, <1>10, <1>11, ScriptUntouched


----------------------------------------------------------------------------
(* Nor do the events that come from the air surprise anyone. *)

LEMMA NoticeIs ==
    ASSUME NEW c \in EventCodes, NEW ok \in BOOLEAN
    PROVE  LET p == Event(c, NoOpcode, ok, 0) IN
           /\ p \in Packets /\ p.type = "event" /\ p.ok = ok
           /\ p.code = c /\ p.opcode = NoOpcode
<1>1. 0 \in 0 .. CommandSlots
    BY SlotsAssumption
<1> QED BY <1>1 DEF Packets, Events, Event

\* The numbers that the air's events have, and those of what follows the last.
Notices(h) == {n \in Nat : n = N + 7 \/ (h # Alice /\ n = N + 9) \/ n >= Final(h)}

LEMMA NoticeFits ==
    ASSUME NEW h \in Hosts, NEW due \in Dues(h), NEW n \in Notices(h), NEW d, NEW q,
           AnswersFit(h, due, n, d, q)
    PROVE  AnswersFit(h, due, n + 1, d, q)
<1>1. N \in Nat
    BY UploadAt
<1> QED BY <1>1 DEF AnswersFit, Dues, Notices, Final

LEMMA NoticeScript ==
    ASSUME IInv, NEW h \in Hosts, Script(h), NEW p \in Packets,
           UNCHANGED <<pc[h], step[h], event_rx_buffer[h], down[h], inbox[h]>>,
           up'[h] = Append(up[h], p),
           \A n \in Nat : LinkFits(h, link, scanning, n) =>
               /\ n \in Notices(h) /\ LinkFits(h, link', scanning', n + 1)
               /\ n + 1 <= Final(h) => Fits(h, n + 1, p)
    PROVE  Script(h)'
    BY ScriptAppended, NoticeFits

LEMMA LateScript ==
    ASSUME IInv, NEW h \in Hosts, Script(h), NEW p \in Packets,
           UNCHANGED <<pc[h], step[h], event_rx_buffer[h], down[h], inbox[h], scanning>>,
           up'[h] = Append(up[h], p), link = "up", link' \in {"up", "down"}
    PROVE  Script(h)'
<1>1. N \in Nat
    BY UploadAt
<1>2. ASSUME NEW n \in Nat, LinkFits(h, link, scanning, n)
      PROVE  /\ n \in Notices(h) /\ LinkFits(h, link', scanning', n + 1)
             /\ ~ (n + 1 <= Final(h))
    BY <1>1, <1>2 DEF LinkFits, Notices, Final
<1> QED BY <1>2, NoticeScript

LEMMA AirScript ==
    ASSUME IInv, OnScript, Air \/ LinkLost, link' # "failed", NEW h \in Hosts
    PROVE  Script(h)'
<1>1. N \in Nat /\ Script(h) /\ (h = Alice \/ h = Bob) /\ Alice # Bob
    BY UploadAt, PeerAssumption DEF OnScript
<1>2. UNCHANGED <<pc[h], step[h], event_rx_buffer[h], down[h], inbox[h]>> /\ scanning' = scanning
    BY DEF Air, PageHeard, Established, PageFails, LinkLost, OverAir
<1>3. ASSUME NEW to, NEW c, NEW ok, Notify(to, c, ok)
      PROVE  up'[h] = IF h \in to THEN Append(up[h], Event(c, NoOpcode, ok, 0)) ELSE up[h]
    BY <1>3 DEF Notify
<1>4. CASE PageHeard
    <2>1. link = "paging" /\ scanning /\ link' = "requested"
          /\ Notify({Bob}, "connection_request", TRUE)
        BY <1>4 DEF PageHeard
    <2>2. CASE h = Alice
        <3>1. up'[h] = up[h]
            BY <1>1, <2>1, <2>2 DEF Notify
        <3>3. Untouched(h)
            BY <1>2, <3>1 DEF Untouched
        <3>2. \A n \in Nat : LinkFits(h, link, scanning, n) => LinkFits(h, link', scanning', n)
            BY <1>2, <2>1, <2>2 DEF LinkFits
        <3> QED BY <1>1, <3>2, <3>3, ScriptUntouched
    <2>3. CASE h # Alice
        <3> DEFINE p == Event("connection_request", NoOpcode, TRUE, 0)
        <3>1. /\ p \in Packets /\ p.type = "event" /\ p.ok
              /\ p.code = "connection_request" /\ p.opcode = NoOpcode
            BY NoticeIs DEF EventCodes
        <3>2. up'[h] = Append(up[h], p)
            BY <1>1, <1>3, <2>1, <2>3
        <3> HIDE DEF p
        <3>3. ASSUME NEW n \in Nat, LinkFits(h, link, scanning, n)
              PROVE  n \in Notices(h) /\ LinkFits(h, link', scanning', n + 1) /\ Fits(h, n + 1, p)
            <4>1. n = N + 7 /\ n + 1 = N + 8
                BY <1>1, <2>1, <2>3, <3>3 DEF LinkFits
            <4>2. Fits(h, N + 8, p)
                BY <2>3, <3>1, LaterOpcodes DEF Fits
            <4>3. LinkFits(h, link', scanning', N + 8)
                BY <1>1, <1>2, <2>1, <2>3 DEF LinkFits
            <4> QED BY <4>1, <4>2, <4>3 DEF Notices
        <3> QED BY <1>1, <1>2, <3>1, <3>2, <3>3, NoticeScript
    <2> QED BY <2>2, <2>3
<1>5. CASE Established
    <2> DEFINE p == Event("connection_complete", NoOpcode, TRUE, 0)
    <2>1. link = "accepted" /\ link' = "up" /\ Notify(Hosts, "connection_complete", TRUE)
        BY <1>5 DEF Established
    <2>2. /\ p \in Packets /\ p.type = "event" /\ p.ok
          /\ p.code = "connection_complete" /\ p.opcode = NoOpcode
        BY NoticeIs DEF EventCodes
    <2>3. up'[h] = Append(up[h], p)
        BY <1>3, <2>1
    <2> HIDE DEF p
    <2>4. ASSUME NEW n \in Nat, LinkFits(h, link, scanning, n)
          PROVE  n \in Notices(h) /\ LinkFits(h, link', scanning', n + 1) /\ Fits(h, n + 1, p)
        <3>1. CASE h = Alice
            <4>1. n = N + 7 /\ n + 1 = N + 8
                BY <1>1, <2>1, <2>4, <3>1 DEF LinkFits
            <4>2. Fits(h, N + 8, p)
                BY <2>2, <3>1, LaterOpcodes DEF Fits
            <4>3. LinkFits(h, link', scanning', N + 8)
                BY <1>1, <2>1, <3>1 DEF LinkFits
            <4> QED BY <4>1, <4>2, <4>3 DEF Notices
        <3>2. CASE h # Alice
            <4>1. n = N + 9 /\ n + 1 = N + 10 /\ scanning
                BY <1>1, <2>1, <2>4, <3>2 DEF LinkFits
            <4>2. Fits(h, N + 10, p)
                BY <2>2, <3>2, LaterOpcodes DEF Fits
            <4>3. LinkFits(h, link', scanning', N + 10)
                BY <1>1, <1>2, <2>1, <3>2, <4>1 DEF LinkFits
            <4> QED BY <3>2, <4>1, <4>2, <4>3 DEF Notices
        <3> QED BY <3>1, <3>2
    <2> QED BY <1>1, <1>2, <2>2, <2>3, <2>4, NoticeScript
<1>6. ~ PageFails
    BY DEF PageFails
<1>7. CASE LinkLost
    <2>1. link = "up" /\ link' = "down" /\ Notify(Hosts, "disconnection_complete", TRUE)
        BY <1>7 DEF LinkLost
    <2>2. up'[h] = Append(up[h], Event("disconnection_complete", NoOpcode, TRUE, 0))
        BY <1>3, <2>1
    <2>3. Event("disconnection_complete", NoOpcode, TRUE, 0) \in Packets
        BY NoticeIs DEF EventCodes
    <2> QED BY <1>1, <1>2, <2>1, <2>2, <2>3, LateScript
<1> QED BY <1>4, <1>5, <1>6, <1>7 DEF Air

LEMMA DeliverScript ==
    ASSUME IInv, OnScript, NEW h \in Hosts, Deliver(h), NEW g \in Hosts
    PROVE  Script(g)'
<1>1. Script(g) /\ (g = h \/ g = Peer(h)) /\ h # Peer(h)
    BY PeerAssumption DEF OnScript, Peer
<1>2. /\ UNCHANGED <<pc[g], step[g], event_rx_buffer[g], down[g], inbox[g]>>
      /\ scanning' = scanning /\ link = "up" /\ link' = "up"
    BY DEF Deliver, OverAir
<1>3. Head(acl_out[h]) \in Packets
    <2>1. acl_out[h] \in Seq(Packets) /\ acl_out[h] # <<>>
        BY QueueTypes DEF Deliver
    <2> QED BY <2>1, HeadTailProperties
<1>4. Event("number_of_completed_packets", NoOpcode, TRUE, 0) \in Packets
    BY NoticeIs DEF EventCodes
<1>5. \E p \in Packets : up'[g] = Append(up[g], p)
    BY <1>1, <1>3, <1>4 DEF Deliver, IInv, HciInv, HciTypes
<1> QED BY <1>1, <1>2, <1>5, LateScript

----------------------------------------------------------------------------
(* Alice never scans, and nobody hears her but a host that does. *)

LEMMA NoScanKept ==
    ASSUME NEW S, NEW T, NEW d \in Seq(S), NEW q \in Seq(T), NoScan(d, q)
    PROVE  /\ d # <<>> => NoScan(Tail(d), q)
           /\ d # <<>> /\ IsCommand(Head(d)) => NoScan(Tail(d), Append(q, Head(d).opcode))
           /\ q # <<>> => NoScan(d, Tail(q))
           /\ \A p \in S : (IsCommand(p) => p.opcode # "write_scan_enable") =>
                 NoScan(Append(d, p), q)
<1> DEFINE none(s) == \A i \in 1 .. Len(s) : IsCommand(s[i]) => s[i].opcode # "write_scan_enable"
           clear(s) == \A i \in 1 .. Len(s) : s[i] # "write_scan_enable"
<1>1. none(d) /\ clear(q)
    BY DEF NoScan
<1>2. ASSUME d # <<>> PROVE none(Tail(d)) /\ (IsCommand(Head(d)) => Head(d).opcode # "write_scan_enable")
    <2>1. /\ Len(d) \in Nat /\ Len(d) > 0 /\ Head(d) = d[1]
          /\ \A i \in 1 .. Len(Tail(d)) : i + 1 \in 1 .. Len(d) /\ Tail(d)[i] = d[i + 1]
        BY <1>2, TailFacts
    <2>2. 1 \in 1 .. Len(d)
        BY <2>1
    <2> QED BY <1>1, <2>1, <2>2
<1>3. ASSUME q # <<>> PROVE clear(Tail(q))
    <2>1. \A i \in 1 .. Len(Tail(q)) : i + 1 \in 1 .. Len(q) /\ Tail(q)[i] = q[i + 1]
        BY <1>3, TailFacts
    <2> QED BY <1>1, <2>1
<1>4. ASSUME NEW o, o # "write_scan_enable" PROVE clear(Append(q, o))
    <2>1. /\ Len(Append(q, o)) = Len(q) + 1 /\ Append(q, o)[Len(q) + 1] = o
          /\ \A i \in 1 .. Len(q) + 1 : i # Len(q) + 1 => i \in 1 .. Len(q) /\ Append(q, o)[i] = q[i]
        <3>1. q \in Seq(T \cup {o}) /\ o \in T \cup {o}
            BY SeqMonotonic
        <3> QED BY <3>1, AppendFacts
    <2> QED BY <1>1, <1>4, <2>1
<1>5. ASSUME NEW p \in S, IsCommand(p) => p.opcode # "write_scan_enable" PROVE none(Append(d, p))
    <2>1. /\ Len(Append(d, p)) = Len(d) + 1 /\ Append(d, p)[Len(d) + 1] = p
          /\ \A i \in 1 .. Len(d) + 1 : i # Len(d) + 1 => i \in 1 .. Len(d) /\ Append(d, p)[i] = d[i]
        BY AppendFacts
    <2> QED BY <1>1, <1>5, <2>1
<1> HIDE DEF none, clear
<1>6. \A s, t : NoScan(s, t) <=> none(s) /\ clear(t)
    BY DEF NoScan, none, clear
<1> QED BY <1>1, <1>2, <1>3, <1>4, <1>5, <1>6

LEMMA NeverScans == \A n \in Nat : OpcodeOf(Alice, n) # "write_scan_enable"
    BY DEF OpcodeOf, NoOpcode

LEMMA AliceNeverScans ==
    ASSUME CommandSlots = 1, IInv, OnScript, [Next]_vars
    PROVE  NoScan(down[Alice], inbox[Alice])'
<1> DEFINE d == down[Alice]
           q == inbox[Alice]
           Goal == NoScan(down'[Alice], inbox'[Alice])
<1>1. Alice \in Hosts /\ d \in Seq(Packets) /\ q \in Seq(Opcodes) /\ NoScan(d, q)
    BY QueueTypes, PeerAssumption DEF IInv, HciInv, HciTypes, OnScript
<1>2. CASE UNCHANGED <<down[Alice], inbox[Alice]>>
    BY <1>1, <1>2
<1>3. ASSUME NEW p \in Packets, NEW h \in Hosts, IsCommand(p) /\ h = Alice => p.opcode # "write_scan_enable",
             down' = [down EXCEPT ![h] = Append(down[h], p)], inbox' = inbox
      PROVE  Goal
    <2>1. CASE h = Alice
        <3>1. down'[Alice] = Append(d, p)
            BY <1>1, <1>3, <2>1 DEF IInv, HciInv, HciTypes
        <3>2. NoScan(Append(d, p), q)
            BY <1>1, <1>3, <2>1, NoScanKept
        <3> QED BY <1>3, <3>1, <3>2
    <2>2. CASE h # Alice
        BY <1>2, <1>3, <2>2 DEF IInv, HciInv, HciTypes
    <2> QED BY <2>1, <2>2
<1>4. ASSUME NEW h \in Hosts, Host(h) PROVE Goal
    <2>1. CASE UNCHANGED <<down, inbox>>
        BY <1>2, <2>1
    <2>2. CASE SendStep(h)
        <3>1. CASE AwaitCredit(h)
            BY <2>1, <3>1 DEF AwaitCredit, Receive
        <3>2. CASE SendCommand(h, Step(h).opcode) /\ NextStep(h)
            <4>1. PICK n \in Nat :
                        /\ OpcodeOf(h, n) \in Opcodes
                        /\ down' = [down EXCEPT ![h] = Append(down[h], Command(OpcodeOf(h, n)))]
                BY <2>2, <3>2, SendScript DEF OnScript, SendStep, airVars
            <4>2. Command(OpcodeOf(h, n)) \in Packets
                BY <4>1 DEF Packets, Command, Commands
            <4>3. h = Alice => Command(OpcodeOf(h, n)).opcode # "write_scan_enable"
                BY NeverScans DEF Command
            <4> QED BY <1>3, <3>2, <4>1, <4>2, <4>3 DEF SendCommand
        <3> QED BY <2>2, <3>1, <3>2 DEF SendStep
    <2>3. CASE ReceiveStep(h)
        BY <2>1, <2>3 DEF ReceiveStep, AwaitEvent, Receive, PopEvent
    <2>4. CASE LoopEvent(h) \/ LoopAcl(h)
        BY <2>1, <2>4 DEF LoopEvent, LoopAcl, NoEventAsync, ReceiveEventAsync, NoAclAsync,
           ReceiveAclAsync, PopEvent, PopAcl, HandOver, Receive, hciVars
    <2>5. CASE LoopTerm(h)
        <3>1. ASSUME NEW n \in 1 .. MaxData, typed[h] + n <= NTyped, SendAcl(h, Batch(typed[h], n))
              PROVE  Goal
            <4>1. PICK p \in AclPackets : p = AclData(Batch(typed[h], n))
                <5>1. typed[h] \in 0 .. NTyped
                    BY QueueTypes
                <5> QED BY <3>1, <5>1, BatchFacts DEF AclData, AclPackets
            <4>2. p \in Packets /\ ~ IsCommand(p)
                BY DEF Packets, AclPackets, IsCommand
            <4> QED BY <1>3, <3>1, <4>1, <4>2 DEF SendAcl
        <3>2. CASE UNCHANGED hciVars
            BY <2>1, <3>2 DEF hciVars
        <3> QED BY <2>5, <3>1, <3>2 DEF LoopTerm
    <2> QED BY <1>4, <2>2, <2>3, <2>4, <2>5 DEF Host
<1>5. ASSUME NEW h \in Hosts, Controller(h) PROVE Goal
    <2>1. CASE h # Alice
        <3>1. UNCHANGED <<down[Alice], inbox[Alice]>>
            BY <1>1, <1>5, <2>1 DEF Controller, Intake, Execute, Answer, TakeAcl, Deliver, OverAir,
               IInv, HciInv, HciTypes
        <3> QED BY <1>2, <3>1
    <2>2. CASE h = Alice
        <3>1. CASE Intake(h)
            <4>1. /\ d # <<>> /\ IsCommand(Head(d)) /\ down'[Alice] = Tail(d)
                  /\ inbox'[Alice] = Append(q, Head(d).opcode)
                BY <2>2, <3>1 DEF Intake, IsCommand, IInv, HciInv, HciTypes
            <4> QED BY <1>1, <4>1, NoScanKept
        <3>2. CASE Execute(h)
            <4>1. q # <<>> /\ down'[Alice] = d /\ inbox'[Alice] = Tail(q)
                BY <2>2, <3>2 DEF Execute, Answer, IInv, HciInv, HciTypes
            <4> QED BY <1>1, <4>1, NoScanKept
        <3>3. CASE TakeAcl(h)
            <4>1. d # <<>> /\ down'[Alice] = Tail(d) /\ inbox'[Alice] = q
                BY <2>2, <3>3 DEF TakeAcl, OverAir, IInv, HciInv, HciTypes
            <4> QED BY <1>1, <4>1, NoScanKept
        <3>4. CASE Deliver(h)
            BY <1>2, <3>4 DEF Deliver, OverAir
        <3> QED BY <1>5, <3>1, <3>2, <3>3, <3>4 DEF Controller
    <2> QED BY <2>1, <2>2
<1>6. CASE Air \/ LinkLost
    BY <1>2, <1>6 DEF Air, PageHeard, Established, PageFails, LinkLost, OverAir
<1>7. CASE UNCHANGED vars
    BY <1>2, <1>7 DEF vars, hciVars
<1> QED BY <1>4, <1>5, <1>6, <1>7 DEF Next

LEMMA OnlyScannersHear ==
    ASSUME IInv, OnScript, [Next]_vars
    PROVE  link' \in {"requested", "accepted", "up"} => scanning'
<1>1. CASE UNCHANGED <<link, scanning>>
    BY <1>1 DEF OnScript
<1>2. ASSUME NEW h \in Hosts, Execute(h)
      PROVE  link' \in {"requested", "accepted", "up"} => scanning'
    <2>1. /\ scanning' = (scanning \/ Head(inbox[h]) = "write_scan_enable")
          /\ \/ link' = link \/ link' = "paging"
             \/ link = "requested" /\ link' = "accepted"
        BY <1>2 DEF Execute
    <2> QED BY <2>1 DEF OnScript
<1>3. CASE Air \/ LinkLost
    BY <1>3 DEF Air, PageHeard, Established, PageFails, LinkLost, OverAir, OnScript
<1>4. ASSUME NEW h \in Hosts, Host(h) PROVE UNCHANGED <<link, scanning>>
    BY <1>4 DEF Host, SendStep, ReceiveStep, LoopEvent, LoopAcl, LoopTerm, airVars
<1>5. ASSUME NEW h \in Hosts, Controller(h), ~ Execute(h) PROVE UNCHANGED <<link, scanning>>
    BY <1>5 DEF Controller, TakeAcl, Deliver, OverAir, airVars
<1>6. CASE UNCHANGED vars
    BY <1>1, <1>6 DEF vars, airVars
<1> QED BY <1>1, <1>2, <1>3, <1>4, <1>5, <1>6 DEF Next

----------------------------------------------------------------------------
(* All of them keep to their scripts. *)

LEMMA HostScript ==
    ASSUME CommandSlots = 1, IInv, OnScript, NEW h \in Hosts, Host(h), NEW g \in Hosts
    PROVE  Script(g)'
<1>1. Script(g) /\ link' = link /\ scanning' = scanning
    BY DEF OnScript, Host, SendStep, ReceiveStep, LoopEvent, LoopAcl, LoopTerm, airVars
<1>2. CASE g # h
    <2>1. UNCHANGED <<pc[g], step[g]>>
        BY <1>2 DEF Host, SendStep, ReceiveStep, LoopEvent, LoopAcl, LoopTerm, Goto, NextStep,
           IInv, ControlTypes
    <2>2. UNCHANGED <<event_rx_buffer[g], up[g], down[g], inbox[g]>>
        <3>1. CASE SendStep(h) \/ ReceiveStep(h)
            BY <1>2, <3>1 DEF SendStep, AwaitCredit, SendCommand, ReceiveStep, AwaitEvent, Receive,
               PopEvent, IInv, HciInv, HciTypes
        <3>2. CASE LoopEvent(h) \/ LoopAcl(h)
            BY <1>2, <3>2 DEF LoopEvent, LoopAcl, NoEventAsync, ReceiveEventAsync, NoAclAsync,
               ReceiveAclAsync, PopEvent, PopAcl, HandOver, Receive, hciVars, IInv, HciInv, HciTypes
        <3>3. CASE LoopTerm(h)
            BY <1>2, <3>3 DEF LoopTerm, SendAcl, hciVars, IInv, HciInv, HciTypes
        <3> QED BY <3>1, <3>2, <3>3 DEF Host
    <2>3. Untouched(g)
        BY <2>1, <2>2 DEF Untouched
    <2> QED BY <1>1, <2>3, ScriptUntouched
<1>3. CASE SendStep(h)
    <2>1. /\ pc[h] = "program" /\ Step(h).do = "send" /\ Script(h)
          /\ \/ AwaitCredit(h) /\ UNCHANGED <<pc, step>>
             \/ SendCommand(h, Step(h).opcode) /\ NextStep(h)
        BY <1>3 DEF SendStep, OnScript
    <2>2. Script(h)'
        BY <1>1, <2>1, ReceiveScript, SendScript DEF AwaitCredit
    <2> QED BY <1>2, <2>2
<1>4. CASE ReceiveStep(h)
    <2>1. pc[h] = "program" /\ Step(h).do \in {"await", "find"} /\ Script(h)
        BY <1>4 DEF ReceiveStep, OnScript
    <2>2. CASE AwaitEvent(h) /\ UNCHANGED <<pc, step>>
        BY <1>1, <1>2, <2>1, <2>2, ReceiveScript DEF AwaitEvent
    <2>3. CASE PopEvent(h) /\ ~ (AwaitEvent(h) /\ UNCHANGED <<pc, step>>)
        <3>1. LET e == Head(event_rx_buffer[h]) IN
                IF Matches(Step(h), e) /\ e.ok THEN NextStep(h)
                ELSE IF Step(h).do = "find" THEN UNCHANGED <<pc, step>>
                ELSE Goto(h, "panic")
            BY <1>4, <2>3 DEF ReceiveStep
        <3>2. Script(h)'
            BY <1>1, <2>1, <2>3, <3>1, PopScript
        <3> QED BY <1>2, <3>2
    <2> QED BY <1>4, <2>2, <2>3 DEF ReceiveStep
<1>5. CASE LoopEvent(h) \/ LoopAcl(h) \/ LoopTerm(h)
    <2>1. pc'[h] \in Loop \cup {"closed"}
        BY <1>5 DEF LoopEvent, LoopAcl, LoopTerm, Goto, Loop, IInv, ControlTypes
    <2>2. Script(h)'
        BY <2>1 DEF Script, Loop
    <2> QED BY <1>2, <2>2
<1> QED BY <1>3, <1>4, <1>5 DEF Host

LEMMA ControllerScript ==
    ASSUME CommandSlots = 1, IInv, Linked, OnScript, NEW h \in Hosts, Controller(h), NEW g \in Hosts
    PROVE  Script(g)'
<1>1. Script(g) /\ Script(h)
    BY DEF OnScript
<1>2. CASE Intake(h) /\ UNCHANGED <<pc, step, typed, shown, airVars>>
    <2>1. CASE g = h
        BY <1>1, <1>2, <2>1, IntakeScript
    <2>2. CASE g # h
        <3>1. Untouched(g) /\ link' = link /\ scanning' = scanning
            BY <1>2, <2>2 DEF Untouched, Intake, airVars, IInv, HciInv, HciTypes
        <3> QED BY <1>1, <3>1, ScriptUntouched
    <2> QED BY <2>1, <2>2
<1>3. CASE Execute(h)
    BY <1>1, <1>3, ExecuteScript, ExecuteOthers
<1>4. CASE TakeAcl(h)
    <2>1. CASE g = h
        BY <1>1, <1>4, <2>1, TakeAclScript
    <2>2. CASE g # h
        <3>1. Untouched(g) /\ link' = link /\ scanning' = scanning
            BY <1>4, <2>2 DEF Untouched, TakeAcl, OverAir, IInv, HciInv, HciTypes
        <3> QED BY <1>1, <3>1, ScriptUntouched
    <2> QED BY <2>1, <2>2
<1>5. CASE Deliver(h)
    BY <1>5, DeliverScript
<1> QED BY <1>2, <1>3, <1>4, <1>5 DEF Controller

LEMMA ScriptedInit == Init => Scripted
<1> SUFFICES ASSUME Init PROVE Scripted
    OBVIOUS
<1>1. Len(<<>>) = 0 /\ N \in Nat /\ Alice \in Hosts
    BY UploadAt, PeerAssumption
<1>2. ASSUME NEW h \in Hosts PROVE Script(h)
    <2>1. LineFits(h, 0, <<>>, <<>>) /\ ~ Pending(<<>>, <<>>)
        BY <1>1 DEF LineFits, Pending, HasCommand
    <2>2. At(h, 1, 0, 0) /\ AnswersFit(h, 0, 0, <<>>, <<>>) /\ LinkFits(h, "none", FALSE, 0)
        BY <1>1, <2>1 DEF At, AnswersFit, LinkFits
    <2>3. 0 + Len(<<>>) + Len(<<>>) = 0 /\ 0 \in Nat
        BY <1>1
    <2>4. ScriptedIn(h, 1, "none", FALSE, <<>>, <<>>, <<>>, <<>>)
        BY <2>1, <2>2, <2>3 DEF ScriptedIn
    <2> QED BY <2>4 DEF Init, HciInit, Script
<1>3. NoScan(<<>>, <<>>)
    BY <1>1 DEF NoScan
<1> QED BY <1>1, <1>2, <1>3 DEF Init, HciInit, Scripted, OnScript

\* The programs connect once, so that a failure to do so is final.
LEMMA FailureIsFinal ==
    ASSUME IInv, Linked, [Next]_vars, link' # "failed"
    PROVE  link # "failed"
<1>1. ASSUME NEW h \in Hosts, Execute(h) PROVE link # "failed"
    <2> DEFINE o == Head(inbox[h])
    <2>1. o \in Asks(h)
        <3>1. inbox[h] # <<>> /\ inbox[h] \in Seq(Asks(h))
            BY <1>1 DEF Execute, Linked, Queues, Queued
        <3> QED BY <3>1, HeadTailProperties
    <2>2. AsksOnce(h, o)
        BY <2>1 DEF Asks
    <2>3. o = "create_connection" => link = "none"
        BY <2>2 DEF AsksOnce, Deferred, Asking
    <2>4. \/ o = "create_connection" \/ link' = link
          \/ link = "requested" /\ link' = "accepted"
        BY <1>1 DEF Execute
    <2> QED BY <2>3, <2>4
<1>2. CASE Air \/ LinkLost
    BY <1>2 DEF Air, PageHeard, Established, PageFails, LinkLost
<1>3. ASSUME NEW h \in Hosts, Host(h) PROVE link' = link
    BY <1>3 DEF Host, SendStep, ReceiveStep, LoopEvent, LoopAcl, LoopTerm, airVars
<1>4. ASSUME NEW h \in Hosts, Controller(h), ~ Execute(h) PROVE link' = link
    BY <1>4 DEF Controller, TakeAcl, Deliver, airVars
<1>5. CASE UNCHANGED vars
    BY <1>5 DEF vars, airVars
<1> QED BY <1>1, <1>2, <1>3, <1>4, <1>5 DEF Next

LEMMA ScriptedStays ==
    CommandSlots = 1 /\ IInv /\ Linked /\ Scripted /\ [Next]_vars => Scripted'
<1> SUFFICES ASSUME CommandSlots = 1, IInv, Linked, Scripted, [Next]_vars, link' # "failed"
             PROVE  OnScript'
    BY DEF Scripted
<1>1. OnScript
    BY FailureIsFinal DEF Scripted
<1>2. ASSUME NEW g \in Hosts PROVE Script(g)'
    <2>1. CASE UNCHANGED vars
        <3>1. Untouched(g) /\ link' = link /\ scanning' = scanning
            BY <2>1 DEF vars, hciVars, airVars, Untouched
        <3> QED BY <1>1, <3>1, ScriptUntouched DEF OnScript
    <2> QED BY <1>1, <2>1, HostScript, ControllerScript, AirScript DEF Next
<1>3. NoScan(down[Alice], inbox[Alice])' /\ (link \in {"requested", "accepted", "up"} => scanning)'
    BY <1>1, AliceNeverScans, OnlyScannersHear
<1> QED BY <1>2, <1>3 DEF OnScript

(* An assertion of a program on an event it receives fails only when its   *)
(* attempt to connect has failed: with a controller that holds one command *)
(* at a time, the events come in the order of the program and with good    *)
(* status, whatever the interleaving with the other host's.                *)
THEOREM EventsComeAsExpected ==
    ASSUME CommandSlots = 1
    PROVE  Spec => []EventsAsExpected
<1> DEFINE Inv == IInv /\ Linked /\ Scripted
<1>1. Init => Inv
    BY InitInv, LinkedInit, ScriptedInit
<1>2. Inv /\ [Next]_vars => Inv'
    BY Invariance, LinkedStays, ScriptedStays
<1>3. Inv => EventsAsExpected
    BY DEF Scripted, OnScript, Script, EventsAsExpected
<1> QED BY <1>1, <1>2, <1>3, PTL DEF Spec
=============================================================================
