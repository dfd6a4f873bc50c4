---------------------------- MODULE Pl011Proofs -----------------------------
(***************************************************************************)
(* What two pushes of one queue can lose is what they have in hand at the  *)
(* same time and nothing else, for every FIFO, every trigger level and any *)
(* number of bytes, and staff-pl011.c keeps all of them in order.          *)
(***************************************************************************)
EXTENDS Pl011, SequenceTheorems, TLAPS

----------------------------------------------------------------------------
(* Sequences. *)

(* Moving the first element of one sequence to the end of the one before   *)
(* it changes nothing in what they make together.                          *)
LEMMA MoveHead ==
    ASSUME NEW S, NEW r \in Seq(S), NEW f \in Seq(S), f # <<>>
    PROVE  Append(r, Head(f)) \o Tail(f) = r \o f
<1> DEFINE a == Append(r, Head(f))
           t == Tail(f)
<1>1. /\ Head(f) \in S /\ t \in Seq(S) /\ Len(t) = Len(f) - 1
      /\ \A i \in 1 .. Len(t) : t[i] = f[i + 1]
    BY HeadTailProperties
<1>2. /\ a \in Seq(S) /\ Len(a) = Len(r) + 1
      /\ \A i \in 1 .. Len(r) : a[i] = r[i]
      /\ a[Len(r) + 1] = Head(f)
    BY <1>1, AppendProperties
<1>3. Head(f) = f[1] /\ Len(f) \in Nat /\ Len(r) \in Nat /\ Len(f) > 0
    BY EmptySeq, LenProperties
<1> HIDE DEF a, t
<1>4. /\ a \o t \in Seq(S) /\ Len(a \o t) = Len(a) + Len(t)
      /\ \A i \in 1 .. Len(a) + Len(t) :
            (a \o t)[i] = IF i <= Len(a) THEN a[i] ELSE t[i - Len(a)]
    BY <1>1, <1>2, ConcatProperties
<1>5. /\ r \o f \in Seq(S) /\ Len(r \o f) = Len(r) + Len(f)
      /\ \A i \in 1 .. Len(r) + Len(f) :
            (r \o f)[i] = IF i <= Len(r) THEN r[i] ELSE f[i - Len(r)]
    BY ConcatProperties
<1>6. Len(a) + Len(t) = Len(r) + Len(f)
    BY <1>1, <1>2, <1>3
<1>7. ASSUME NEW i \in 1 .. Len(r) + Len(f) PROVE (a \o t)[i] = (r \o f)[i]
    <2>1. CASE i <= Len(r)
        BY <1>2, <1>3, <1>4, <1>5, <1>6, <2>1
    <2>2. CASE i = Len(r) + 1
        BY <1>2, <1>3, <1>4, <1>5, <1>6, <2>2
    <2>3. CASE i > Len(r) + 1
        <3>1. i - Len(a) \in 1 .. Len(t) /\ i - Len(a) + 1 = i - Len(r)
            BY <1>1, <1>2, <1>3, <2>3
        <3>2. (a \o t)[i] = t[i - Len(a)] /\ (r \o f)[i] = f[i - Len(r)]
            BY <1>2, <1>3, <1>4, <1>5, <1>6, <2>3
        <3> QED BY <1>1, <3>1, <3>2
    <2>4. i <= Len(r) \/ i = Len(r) + 1 \/ i > Len(r) + 1
        BY <1>3
    <2> QED BY <2>1, <2>2, <2>3, <2>4, Zenon
<1> QED
    BY <1>4, <1>5, <1>6, <1>7, SeqEqual DEF a, t

LEMMA RangeOfAppend ==
    ASSUME NEW S, NEW s \in Seq(S), NEW e \in S
    PROVE  Range(Append(s, e)) = Range(s) \cup {e}
<1>1. /\ Append(s, e) \in Seq(S) /\ Len(Append(s, e)) = Len(s) + 1
      /\ \A i \in 1 .. Len(s) : Append(s, e)[i] = s[i]
      /\ Append(s, e)[Len(s) + 1] = e
    BY AppendProperties
<1>2. Len(s) \in Nat /\ DOMAIN s = 1 .. Len(s) /\ DOMAIN Append(s, e) = 1 .. Len(s) + 1
    BY <1>1, LenProperties
<1> QED
    BY <1>1, <1>2 DEF Range

LEMMA RangeOfTail ==
    ASSUME NEW S, NEW s \in Seq(S), s # <<>>
    PROVE  Range(s) = {Head(s)} \cup Range(Tail(s))
<1>1. /\ Tail(s) \in Seq(S) /\ Len(Tail(s)) = Len(s) - 1
      /\ \A i \in 1 .. Len(Tail(s)) : Tail(s)[i] = s[i + 1]
    BY HeadTailProperties
<1>2. /\ Len(s) \in Nat /\ Len(s) > 0 /\ Head(s) = s[1]
      /\ DOMAIN s = 1 .. Len(s) /\ DOMAIN Tail(s) = 1 .. Len(s) - 1
    BY <1>1, EmptySeq, LenProperties
<1>3. ASSUME NEW i \in 1 .. Len(s) PROVE s[i] \in {Head(s)} \cup Range(Tail(s))
    <2>1. CASE i = 1
        BY <1>2, <2>1
    <2>2. CASE i > 1
        <3>1. i - 1 \in 1 .. Len(s) - 1 /\ (i - 1) + 1 = i
            BY <1>2, <2>2
        <3>2. Tail(s)[i - 1] = s[i]
            BY <1>1, <3>1
        <3> QED BY <1>2, <3>1, <3>2 DEF Range
    <2> QED BY <1>2, <2>1, <2>2
<1>4. ASSUME NEW i \in 1 .. Len(s) - 1 PROVE Tail(s)[i] \in Range(s)
    <2>1. i + 1 \in 1 .. Len(s) /\ Tail(s)[i] = s[i + 1]
        BY <1>1, <1>2
    <2> QED BY <1>2, <2>1 DEF Range
<1> QED
    BY <1>2, <1>3, <1>4 DEF Range

----------------------------------------------------------------------------
(* The invariant. *)

(* Only pl011.c's reader looks into the FIFO; reg and end are in use from  *)
(* the read to the end of the push.  The handler is entered for a reason.  *)
ReaderInv ==
    /\ driver = "staff" => /\ pc \notin {"poll", "read", "push", "store", "advance"}
                           /\ contested = {}
    /\ pc \notin {"push", "store", "advance"} => reg = 0
    /\ ~ InPush => end = 0
    /\ isr = "entry" => ris # {}

(* What the handler has put behind the end that the reader's push looked   *)
(* at is contested, and so is what the reader is about to push.            *)
PushInv ==
    InPush => /\ \A i \in DOMAIN rx_buffer : i > end => rx_buffer[i] \in contested
              /\ end # Len(rx_buffer) => reg \in contested

(* Every byte that came in is somewhere, or contested. *)
Held ==
    1 .. sent \subseteq {reg} \cup contested
                         \cup Range(got) \cup Range(rx_buffer) \cup Range(fifo)

Stream == got \o rx_buffer \o fifo

StreamInv ==
    driver = "staff" =>
        /\ Len(Stream) = sent
        /\ \A i \in 1 .. sent : Stream[i] = i

IInv == TypeOK /\ ReaderInv /\ PushInv /\ Held /\ StreamInv

(* What the proofs need of TypeOK about the three places of a byte. *)
LEMMA Places ==
    ASSUME TypeOK
    PROVE  /\ got \in Seq(Nat) /\ rx_buffer \in Seq(Nat) /\ fifo \in Seq(Nat)
           /\ NBytes \in Nat /\ FifoSize \in Nat
<1>1. NBytes \in Nat /\ FifoSize \in Nat
    BY FifoAssumption
<1>2. 0 .. NBytes \subseteq Nat /\ Bytes \subseteq Nat
    BY <1>1 DEF Bytes
<1> QED
    BY <1>1, <1>2, SeqMonotonic DEF TypeOK

LEMMA InitInv == Init => IInv
<1> SUFFICES ASSUME Init PROVE IInv
    OBVIOUS
<1>1. TypeOK
    <2>1. /\ fifo \in Seq(Bytes) /\ Len(fifo) = 0 /\ rx_buffer \in Seq(0 .. NBytes)
          /\ got \in Seq(0 .. NBytes)
        BY EmptySeq DEF Init
    <2>2. FifoSize \in Nat /\ NBytes \in Nat /\ NPuts \in Nat
        BY FifoAssumption
    <2>3. armed \in BOOLEAN /\ busy \in BOOLEAN
        BY DEF Init
    <2>4. /\ driver \in Drivers /\ sent = 0 /\ ris = {} /\ mis = {} /\ isr = "off"
          /\ pc = "flush" /\ reg = 0 /\ tx = 0 /\ puts = 0 /\ end = 0 /\ contested = {}
        BY DEF Init
    <2>5. end \in 0 .. Len(rx_buffer)
        BY EmptySeq DEF Init
    <2> QED BY <2>5, <2>1, <2>2, <2>3, <2>4 DEF TypeOK
<1>2. Stream = <<>>
    BY ConcatEmptySeq, EmptySeq DEF Init, Stream
<1>3. StreamInv
    BY <1>2, EmptySeq DEF Init, StreamInv
<1> QED
    BY <1>1, <1>3 DEF Init, IInv, ReaderInv, PushInv, InPush, Held

(* What leaves the four places of a byte alone keeps it held. *)
LEMMA ArriveInv == IInv /\ Arrive => IInv'
<1> SUFFICES ASSUME IInv, Arrive PROVE IInv'
    OBVIOUS
<1> DEFINE b == sent + 1
<1>1. /\ got \in Seq(Nat) /\ rx_buffer \in Seq(Nat) /\ fifo \in Seq(Nat)
      /\ NBytes \in Nat /\ FifoSize \in Nat /\ sent \in Nat
    BY Places DEF IInv, TypeOK
<1>2. b \in Bytes /\ b \in Nat /\ b \in 0 .. NBytes
    BY <1>1 DEF Arrive, Bytes
<1>3. fifo' = Append(fifo, b) /\ sent' = b /\ UNCHANGED <<driver, got, rx_buffer, reg, pc, isr, mis, end, contested>>
          /\ ris \subseteq ris'
    BY DEF Arrive, pushVars
<1>4. fifo' \in Seq(Bytes) /\ Len(fifo') = Len(fifo) + 1 /\ Len(fifo) < FifoSize
    BY <1>2, <1>3, AppendProperties DEF IInv, TypeOK, Arrive
<1>5. Len(fifo) \in Nat
    BY <1>1, LenProperties
<1>6. TypeOK'
    <2>1. ris' \subseteq {"rx", "timeout"} /\ armed' \in BOOLEAN
        BY DEF Arrive, IInv, TypeOK
    <2> HIDE DEF b
    <2> QED BY <1>1, <1>2, <1>3, <1>4, <1>5, <2>1 DEF IInv, TypeOK, Arrive, txVars
<1>7. Range(fifo') = Range(fifo) \cup {b}
    BY <1>1, <1>2, <1>3, RangeOfAppend
<1>8. Held'
    <2>1. 1 .. b = (1 .. sent) \cup {b}
        BY <1>1
    <2> HIDE DEF b
    <2> QED BY <1>3, <1>7, <2>1 DEF IInv, Held
<1>9. StreamInv'
    <2> SUFFICES ASSUME driver = "staff" PROVE Len(Stream') = b /\ \A i \in 1 .. b : Stream'[i] = i
        BY <1>3 DEF StreamInv
    <2> DEFINE g == got \o rx_buffer
    <2>1. g \in Seq(Nat)
        BY <1>1, ConcatProperties
    <2>2. Stream' = g \o Append(fifo, b) /\ Stream = g \o fifo
        BY <1>3 DEF Stream
    <2>3. <<b>> \in Seq(Nat) /\ Append(fifo, b) = fifo \o <<b>>
        BY <1>1, <1>2, AppendIsConcat
    <2> HIDE DEF g, b
    <2>4. Stream \in Seq(Nat) /\ Stream' = Stream \o <<b>>
        BY <1>1, <2>1, <2>2, <2>3, ConcatProperties, ConcatAssociative
    <2>5. Stream' = Append(Stream, b)
        BY <1>2, <2>4, AppendIsConcat
    <2>6. Len(Stream) = sent /\ \A i \in 1 .. sent : Stream[i] = i
        BY DEF IInv, StreamInv
    <2>7. /\ Len(Stream') = sent + 1
          /\ \A i \in 1 .. sent : Stream'[i] = Stream[i]
          /\ Stream'[sent + 1] = b
        BY <1>2, <2>4, <2>5, <2>6, AppendProperties
    <2> QED BY <1>1, <2>6, <2>7 DEF b
<1>10. ReaderInv'
    BY <1>3 DEF IInv, ReaderInv, InPush
<1>11. PushInv'
    BY <1>3 DEF IInv, PushInv, InPush
<1> QED
    BY <1>6, <1>8, <1>9, <1>10, <1>11 DEF IInv

(* The handler moves a byte from the FIFO to the queue. *)
LEMMA DrainInv == IInv /\ Drain => IInv'
<1> SUFFICES ASSUME IInv, Drain PROVE IInv'
    OBVIOUS
<1>1. /\ got \in Seq(Nat) /\ rx_buffer \in Seq(Nat) /\ fifo \in Seq(Nat)
      /\ NBytes \in Nat /\ FifoSize \in Nat /\ sent \in Nat
    BY Places DEF IInv, TypeOK
<1>2. CASE fifo = <<>>
    <2>1. /\ isr' = "clear_rx"
          /\ UNCHANGED <<driver, sent, fifo, ris, armed, mis, rx_buffer, pc, reg, got, tx, busy, puts,
                         end, contested>>
        BY <1>2 DEF Drain, txVars
    <2> QED BY <2>1 DEF IInv, TypeOK, ReaderInv, PushInv, InPush, Held, StreamInv, Stream
<1>3. CASE fifo # <<>>
    <2>1. /\ fifo' = Tail(fifo) /\ rx_buffer' = Append(rx_buffer, Head(fifo))
          /\ ris' \subseteq ris /\ isr = "drain"
          /\ contested' = contested \cup (IF InPush THEN {reg, Head(fifo)} ELSE {})
          /\ UNCHANGED <<driver, sent, armed, isr, mis, pc, reg, got, tx, busy, puts, end>>
        BY <1>3 DEF Drain, ReadFifo, txVars
    <2>2. Head(fifo) \in Bytes /\ Tail(fifo) \in Seq(Bytes) /\ Len(Tail(fifo)) = Len(fifo) - 1
        BY <1>3, HeadTailProperties DEF IInv, TypeOK
    <2>3. Head(fifo) \in 0 .. NBytes /\ Head(fifo) \in Nat /\ Len(fifo) \in Nat
        BY <1>1, <2>2, LenProperties DEF Bytes
    <2>4. rx_buffer' \in Seq(0 .. NBytes)
        BY <2>1, <2>3, AppendProperties DEF IInv, TypeOK
    <2>9. /\ Len(rx_buffer') = Len(rx_buffer) + 1 /\ Len(rx_buffer) \in Nat
          /\ DOMAIN rx_buffer = 1 .. Len(rx_buffer) /\ DOMAIN rx_buffer' = 1 .. Len(rx_buffer) + 1
          /\ \A i \in 1 .. Len(rx_buffer) : rx_buffer'[i] = rx_buffer[i]
          /\ rx_buffer'[Len(rx_buffer) + 1] = Head(fifo)
        BY <1>1, <2>1, <2>3, <2>4, AppendProperties, LenProperties
    <2>10. end' \in 0 .. Len(rx_buffer') /\ contested' \subseteq 0 .. NBytes
        <3>1. end \in 0 .. Len(rx_buffer) /\ contested \subseteq 0 .. NBytes /\ reg \in 0 .. NBytes
            BY DEF IInv, TypeOK
        <3>2. contested' \subseteq contested \cup {reg, Head(fifo)}
            BY <2>1
        <3>3. end' = end
            BY <2>1
        <3> QED BY <2>3, <2>9, <3>1, <3>2, <3>3
    <2>5. TypeOK'
        BY <1>1, <2>1, <2>2, <2>3, <2>4, <2>10 DEF IInv, TypeOK
    <2>11. PushInv'
        <3> SUFFICES ASSUME InPush
                     PROVE  /\ \A i \in DOMAIN rx_buffer' : i > end => rx_buffer'[i] \in contested'
                            /\ reg \in contested'
            BY <2>1 DEF PushInv, InPush
        <3>1. contested' = contested \cup {reg, Head(fifo)}
            BY <2>1
        <3>2. \A i \in 1 .. Len(rx_buffer) : i > end => rx_buffer[i] \in contested
            BY <2>9 DEF IInv, PushInv
        <3> QED BY <2>9, <3>1, <3>2
    <2>12. ReaderInv'
        <3>1. driver = "staff" => ~ InPush
            BY DEF IInv, ReaderInv, InPush
        <3> QED BY <2>1, <3>1 DEF IInv, ReaderInv, InPush
    <2>6. /\ Range(rx_buffer') = Range(rx_buffer) \cup {Head(fifo)}
          /\ Range(fifo) = {Head(fifo)} \cup Range(fifo')
        BY <1>1, <1>3, <2>1, <2>3, RangeOfAppend, RangeOfTail
    <2>7. Held'
        BY <2>1, <2>6 DEF IInv, Held
    <2>8. Stream' = Stream
        <3>1. rx_buffer' \in Seq(Nat) /\ fifo' \in Seq(Nat)
            BY <1>1, <1>3, <2>1, <2>3, AppendProperties, HeadTailProperties
        <3>2. rx_buffer' \o fifo' = rx_buffer \o fifo
            BY <1>1, <1>3, <2>1, MoveHead
        <3>3. (got \o rx_buffer) \o fifo = got \o (rx_buffer \o fifo)
            <4>1. got \in Seq(Nat)
                BY <1>1
            <4>2. rx_buffer \in Seq(Nat)
                BY <1>1
            <4>3. fifo \in Seq(Nat)
                BY <1>1
            <4> QED BY <4>1, <4>2, <4>3, ConcatAssociative
        <3>4. (got \o rx_buffer') \o fifo' = got \o (rx_buffer' \o fifo')
            <4>1. got \in Seq(Nat)
                BY <1>1
            <4> QED BY <3>1, <4>1, ConcatAssociative
        <3>5. Stream' = (got \o rx_buffer') \o fifo' /\ Stream = (got \o rx_buffer) \o fifo
            BY <2>1 DEF Stream
        <3> QED BY <3>2, <3>3, <3>4, <3>5
    <2> QED BY <2>1, <2>5, <2>7, <2>8, <2>11, <2>12 DEF IInv, StreamInv
<1> QED BY <1>2, <1>3

(* The reader takes a byte from the queue. *)
LEMMA PopInv == IInv /\ Pop => IInv'
<1> SUFFICES ASSUME IInv, Pop PROVE IInv'
    OBVIOUS
<1>1. /\ got \in Seq(Nat) /\ rx_buffer \in Seq(Nat) /\ fifo \in Seq(Nat)
      /\ NBytes \in Nat /\ FifoSize \in Nat /\ sent \in Nat
    BY Places DEF IInv, TypeOK
<1>2. CASE rx_buffer = <<>>
    <2>1. /\ pc' = Waits(driver)
          /\ UNCHANGED <<driver, sent, fifo, ris, armed, isr, mis, rx_buffer, reg, got, tx, busy, puts,
                         end, contested>>
        BY <1>2 DEF Pop, txVars, pushVars
    <2>2. pc' \in {"poll", "pop"} /\ (driver = "staff" => pc' = "pop") /\ reg = 0 /\ end = 0
        BY <2>1 DEF Waits, IInv, ReaderInv, InPush, TypeOK, Pop
    <2> QED BY <2>1, <2>2 DEF IInv, TypeOK, ReaderInv, PushInv, InPush, Held, StreamInv, Stream
<1>3. CASE rx_buffer # <<>>
    <2>1. /\ rx_buffer' = Tail(rx_buffer) /\ got' = Append(got, Head(rx_buffer)) /\ pc' = "idle"
          /\ UNCHANGED <<driver, sent, fifo, ris, armed, isr, mis, reg, tx, busy, puts, end, contested>>
        BY <1>3 DEF Pop, txVars, pushVars
    <2>2. Head(rx_buffer) \in 0 .. NBytes /\ rx_buffer' \in Seq(0 .. NBytes)
        BY <1>3, <2>1, HeadTailProperties DEF IInv, TypeOK
    <2>3. got' \in Seq(0 .. NBytes)
        BY <2>1, <2>2, AppendProperties DEF IInv, TypeOK
    <2>5. Head(rx_buffer) \in Nat /\ reg = 0 /\ end = 0
        BY <1>1, <2>2 DEF IInv, ReaderInv, InPush, Pop
    <2>10. end \in 0 .. Len(rx_buffer')
        BY <2>2, <2>5, LenProperties
    <2>4. TypeOK'
        BY <2>1, <2>2, <2>3, <2>10 DEF IInv, TypeOK
    <2>6. /\ Range(got') = Range(got) \cup {Head(rx_buffer)}
          /\ Range(rx_buffer) = {Head(rx_buffer)} \cup Range(rx_buffer')
        BY <1>1, <1>3, <2>1, <2>5, RangeOfAppend, RangeOfTail
    <2>7. Held'
        BY <2>1, <2>6 DEF IInv, Held
    <2>8. Stream' = Stream
        <3>1. got' \o rx_buffer' = got \o rx_buffer
            BY <1>1, <1>3, <2>1, MoveHead
        <3> QED BY <2>1, <3>1 DEF Stream
    <2>9. ReaderInv'
        BY <2>1, <2>5 DEF IInv, ReaderInv, InPush
    <2> QED BY <2>1, <2>4, <2>7, <2>8, <2>9 DEF IInv, StreamInv, PushInv, InPush
<1> QED BY <1>2, <1>3

(* pl011.c's reader takes a byte from the FIFO itself, or nothing at all   *)
(* when the handler was there first.                                       *)
LEMMA ReadDataInv == IInv /\ ReadData => IInv'
<1> SUFFICES ASSUME IInv, ReadData PROVE IInv'
    OBVIOUS
<1>1. /\ got \in Seq(Nat) /\ rx_buffer \in Seq(Nat) /\ fifo \in Seq(Nat)
      /\ NBytes \in Nat /\ FifoSize \in Nat /\ sent \in 0 .. NBytes
    BY Places DEF IInv, TypeOK
<1>2. /\ pc' = "push" /\ reg = 0 /\ driver # "staff" /\ end = 0 /\ isr = "off"
      /\ UNCHANGED <<driver, sent, armed, isr, mis, rx_buffer, got, tx, busy, puts, end, contested>>
    BY DEF ReadData, IInv, ReaderInv, InPush, txVars, pushVars
<1>3. CASE fifo = <<>>
    <2>1. reg' \in 0 .. NBytes /\ UNCHANGED <<fifo, ris>>
        BY <1>1, <1>3 DEF ReadData, Stale
    <2>2. TypeOK'
        BY <1>2, <2>1 DEF IInv, TypeOK
    <2>3. 0 \notin 1 .. sent
        BY <1>1
    <2>4. Held'
        BY <1>2, <2>1, <2>3 DEF IInv, Held
    <2> QED BY <1>2, <2>2, <2>4 DEF IInv, ReaderInv, PushInv, InPush, StreamInv
<1>4. CASE fifo # <<>>
    <2>1. fifo' = Tail(fifo) /\ reg' = Head(fifo) /\ ris' \subseteq ris
        BY <1>4 DEF ReadData, ReadFifo
    <2>2. Head(fifo) \in Bytes /\ fifo' \in Seq(Bytes) /\ Len(fifo') = Len(fifo) - 1
        BY <1>4, <2>1, HeadTailProperties DEF IInv, TypeOK
    <2>3. reg' \in 0 .. NBytes /\ Len(fifo) \in Nat
        BY <1>1, <2>1, <2>2, LenProperties DEF Bytes
    <2>4. TypeOK'
        BY <1>1, <1>2, <2>1, <2>2, <2>3 DEF IInv, TypeOK
    <2>5. Range(fifo) = {Head(fifo)} \cup Range(fifo')
        BY <1>1, <1>4, <2>1, RangeOfTail
    <2>6. 0 \notin 1 .. sent
        BY <1>1
    <2>7. Held'
        BY <1>2, <2>1, <2>5, <2>6 DEF IInv, Held
    <2> QED BY <1>2, <2>4, <2>7 DEF IInv, ReaderInv, PushInv, InPush, StreamInv
<1> QED BY <1>3, <1>4

(* The push writes its slot: behind the queue, or over a contested byte.   *)
LEMMA PushStoreInv == IInv /\ PushStore => IInv'
<1> SUFFICES ASSUME IInv, PushStore PROVE IInv'
    OBVIOUS
<1>1. /\ rx_buffer \in Seq(0 .. NBytes) /\ reg \in 0 .. NBytes /\ Len(rx_buffer) \in Nat
      /\ DOMAIN rx_buffer = 1 .. Len(rx_buffer) /\ end \in 0 .. Len(rx_buffer)
    BY LenProperties DEF IInv, TypeOK
<1>2. /\ rx_buffer' = [i \in DOMAIN rx_buffer |-> IF i = end + 1 THEN reg ELSE rx_buffer[i]]
      /\ pc = "store" /\ pc' = "advance" /\ isr = "off" /\ driver # "staff"
      /\ UNCHANGED <<driver, sent, fifo, ris, armed, isr, mis, reg, got, end, contested, tx, busy, puts>>
    BY DEF PushStore, IInv, ReaderInv, txVars, pushVars
<1>3. /\ rx_buffer' \in Seq(0 .. NBytes) /\ Len(rx_buffer') = Len(rx_buffer)
      /\ DOMAIN rx_buffer' = 1 .. Len(rx_buffer)
    <2>1. \A i \in 1 .. Len(rx_buffer) : rx_buffer[i] \in 0 .. NBytes
        BY <1>1, ElementOfSeq
    <2>2. rx_buffer' \in [1 .. Len(rx_buffer) -> 0 .. NBytes]
        BY <1>1, <1>2, <2>1
    <2>3. rx_buffer' \in Seq(0 .. NBytes)
        BY <1>1, <2>2, SeqDef
    <2> QED BY <1>1, <2>2, <2>3, LenProperties
<1>4. \A i \in 1 .. Len(rx_buffer) : i > end => rx_buffer[i] \in contested
    BY <1>1, <1>2 DEF IInv, PushInv, InPush
<1>5. end # Len(rx_buffer) => reg \in contested
    BY <1>2 DEF IInv, PushInv, InPush
<1>6. TypeOK'
    BY <1>1, <1>2, <1>3 DEF IInv, TypeOK
<1>7. PushInv'
    <2>1. ASSUME NEW i \in 1 .. Len(rx_buffer), i > end PROVE rx_buffer'[i] \in contested
        <3>1. end # Len(rx_buffer)
            <4>1. end \in Nat /\ Len(rx_buffer) \in Nat
                BY <1>1
            <4> QED BY <2>1, <4>1
        <3> QED BY <1>1, <1>2, <1>4, <1>5, <2>1, <3>1
    <2> QED BY <1>2, <1>3, <1>5, <2>1 DEF PushInv
<1>8. Range(rx_buffer) \subseteq Range(rx_buffer') \cup contested
    <2> SUFFICES ASSUME NEW i \in 1 .. Len(rx_buffer)
                 PROVE  rx_buffer[i] \in Range(rx_buffer') \cup contested
        BY <1>1 DEF Range
    <2>1. CASE i = end + 1
        BY <1>1, <1>4, <2>1
    <2>2. CASE i # end + 1
        <3>1. rx_buffer'[i] = rx_buffer[i]
            BY <1>1, <1>2, <2>2
        <3> QED BY <1>3, <3>1 DEF Range
    <2> QED BY <2>1, <2>2
<1>9. Held'
    BY <1>2, <1>8 DEF IInv, Held
<1> QED BY <1>2, <1>6, <1>7, <1>9 DEF IInv, ReaderInv, InPush, StreamInv

(* The push moves the end: nothing but contested bytes falls out.          *)
LEMMA PushAdvanceInv == IInv /\ PushAdvance => IInv'
<1> SUFFICES ASSUME IInv, PushAdvance PROVE IInv'
    OBVIOUS
<1>1. /\ rx_buffer \in Seq(0 .. NBytes) /\ reg \in 0 .. NBytes /\ Len(rx_buffer) \in Nat
      /\ DOMAIN rx_buffer = 1 .. Len(rx_buffer) /\ end \in 0 .. Len(rx_buffer)
      /\ NBytes \in Nat /\ sent \in 0 .. NBytes
    BY LenProperties, FifoAssumption DEF IInv, TypeOK
<1>2. /\ rx_buffer' \in Advanced /\ reg' = 0 /\ end' = 0
      /\ pc = "advance" /\ pc' = "pop" /\ isr = "off" /\ driver # "staff"
      /\ UNCHANGED <<driver, sent, fifo, ris, armed, isr, mis, got, contested, tx, busy, puts>>
    BY DEF PushAdvance, IInv, ReaderInv, txVars
<1>3. \A i \in 1 .. Len(rx_buffer) : i > end => rx_buffer[i] \in contested
    BY <1>1, <1>2 DEF IInv, PushInv, InPush
<1>4. end # Len(rx_buffer) => reg \in contested
    BY <1>2 DEF IInv, PushInv, InPush
<1>5. /\ rx_buffer' \in Seq(0 .. NBytes)
      /\ Range(rx_buffer) \cup {reg} \subseteq Range(rx_buffer') \cup contested
    <2>1. ASSUME NEW b \in 0 .. NBytes, rx_buffer' = Append(rx_buffer, b)
          PROVE  /\ rx_buffer' \in Seq(0 .. NBytes)
                 /\ Range(rx_buffer') = Range(rx_buffer) \cup {b}
        BY <1>1, <2>1, AppendProperties, RangeOfAppend
    <2>2. CASE end = Len(rx_buffer)
        <3>1. rx_buffer' = Append(rx_buffer, reg)
            BY <1>2, <2>2 DEF Advanced
        <3> QED BY <1>1, <2>1, <3>1
    <2>3. CASE end # Len(rx_buffer) /\ rx_buffer' = SubSeq(rx_buffer, 1, end + 1)
        <3>6. end \in Nat /\ end < Len(rx_buffer)
            <4>1. end \in 0 .. Len(rx_buffer) /\ Len(rx_buffer) \in Nat
                BY <1>1
            <4> QED BY <2>3, <4>1
        <3>1. \A i \in 1 .. end + 1 : rx_buffer[i] \in 0 .. NBytes
            <4>1. \A i \in 1 .. end + 1 : i \in 1 .. Len(rx_buffer)
                BY <1>1, <3>6
            <4>2. rx_buffer \in Seq(0 .. NBytes)
                BY <1>1
            <4> QED BY <4>1, <4>2, ElementOfSeq
        <3>2. end + 1 \in Int /\ 1 \in Int /\ 1 <= end + 1
            BY <3>6
        <3>3. /\ rx_buffer' \in Seq(0 .. NBytes) /\ Len(rx_buffer') = end + 1
              /\ \A i \in 1 .. end + 1 : rx_buffer'[i] = rx_buffer[i]
            <4> DEFINE n == end + 1
                       q == SubSeq(rx_buffer, 1, n)
            <4>1. n \in Int /\ 1 <= n /\ \A i \in 1 .. n : rx_buffer[i] \in 0 .. NBytes
                BY <3>1, <3>2
            <4>2. rx_buffer' = q
                BY <2>3
            <4> HIDE DEF n
            <4>3. /\ q \in Seq(0 .. NBytes)
                  /\ Len(q) = IF 1 <= n THEN n - 1 + 1 ELSE 0
                  /\ \A i \in 1 .. n - 1 + 1 : q[i] = rx_buffer[1 + i - 1]
                BY <4>1, SubSeqProperties
            <4> HIDE DEF q
            <4>4. Len(q) = n /\ \A i \in 1 .. n : q[i] = rx_buffer[i]
                BY <4>1, <4>3
            <4> QED BY <4>2, <4>3, <4>4 DEF n
        <3>4. DOMAIN rx_buffer' = 1 .. end + 1
            BY <3>3, LenProperties
        <3>5. ASSUME NEW i \in 1 .. Len(rx_buffer)
              PROVE  rx_buffer[i] \in Range(rx_buffer') \cup contested
            <4>1. CASE i <= end + 1
                <5>1. i \in 1 .. end + 1 /\ rx_buffer'[i] = rx_buffer[i]
                    BY <1>1, <3>3, <4>1
                <5> QED BY <3>4, <5>1 DEF Range
            <4>2. CASE i > end + 1
                BY <1>1, <1>3, <4>2
            <4> QED BY <1>1, <4>1, <4>2
        <3> QED BY <1>1, <1>4, <2>3, <3>3, <3>5 DEF Range
    <2>4. ASSUME end # Len(rx_buffer), NEW b \in Stale, rx_buffer' = Append(rx_buffer, b)
          PROVE  /\ rx_buffer' \in Seq(0 .. NBytes)
                 /\ Range(rx_buffer) \cup {reg} \subseteq Range(rx_buffer') \cup contested
        <3>1. b \in 0 .. NBytes
            BY <1>1 DEF Stale
        <3> QED BY <1>4, <2>1, <2>4, <3>1
    <2> QED BY <1>2, <2>2, <2>3, <2>4 DEF Advanced
<1>6. 0 \in 0 .. Len(rx_buffer') /\ 0 \in 0 .. NBytes
    BY <1>1, <1>5, LenProperties
<1>7. TypeOK'
    BY <1>2, <1>5, <1>6 DEF IInv, TypeOK
<1>8. Held'
    BY <1>2, <1>5 DEF IInv, Held
<1> QED BY <1>2, <1>7, <1>8 DEF IInv, ReaderInv, PushInv, InPush, StreamInv

LEMMA PushReadInv == IInv /\ PushRead => IInv'
<1> SUFFICES ASSUME IInv, PushRead PROVE IInv'
    OBVIOUS
<1>1. /\ Len(rx_buffer) \in Nat /\ DOMAIN rx_buffer = 1 .. Len(rx_buffer)
    BY LenProperties DEF IInv, TypeOK
<1>2. /\ end' = Len(rx_buffer) /\ pc = "push" /\ pc' = "store" /\ isr = "off" /\ driver # "staff"
      /\ UNCHANGED <<driver, sent, fifo, ris, armed, isr, mis, rx_buffer, reg, got, contested, tx, busy, puts>>
    BY DEF PushRead, IInv, ReaderInv, txVars
<1>3. end' \in 0 .. Len(rx_buffer') /\ \A i \in DOMAIN rx_buffer' : ~(i > end')
    BY <1>1, <1>2
<1> QED BY <1>2, <1>3 DEF IInv, TypeOK, ReaderInv, PushInv, InPush, Held, StreamInv, Stream

(* The steps that move no received byte. *)
LEMMA OthersInv ==
    IInv /\ (LineIdle \/ Shift \/ Interrupt \/ ReadStatus \/ ClearRx \/ ClearTimeout \/ Flushed
               \/ Poll \/ Call \/ Put \/ UNCHANGED vars) => IInv'
<1> SUFFICES ASSUME IInv, LineIdle \/ Shift \/ Interrupt \/ ReadStatus \/ ClearRx \/ ClearTimeout
                            \/ Flushed \/ Poll \/ Call \/ Put \/ UNCHANGED vars
             PROVE  IInv'
    OBVIOUS
<1> USE DEF rxVars, txVars, pushVars, vars
<1>1. UNCHANGED <<driver, sent, fifo, rx_buffer, reg, got, end, contested>>
    BY DEF LineIdle, Shift, Interrupt, ReadStatus, ClearRx, ClearTimeout, Flushed, Poll, Call, Put
<1>2. /\ ris' \subseteq {"rx", "timeout"} /\ mis' \subseteq {"rx", "timeout"}
      /\ armed' \in BOOLEAN /\ isr' \in {"off", "entry", "drain", "clear_rx", "clear_timeout"}
      /\ isr' = "entry" => ris' # {}
    BY DEF LineIdle, Shift, Interrupt, ReadStatus, ClearRx, ClearTimeout, Flushed, Poll, Call, Put,
        IInv, TypeOK, ReaderInv
<1>3. /\ pc' \in {"flush", "idle", "pop", "poll", "read", "push", "store", "advance"}
      /\ driver = "staff" => pc' \notin {"poll", "read", "push", "store", "advance"}
      /\ pc' \notin {"push", "store", "advance"} => reg = 0
      /\ InPush' = InPush
    BY DEF LineIdle, Shift, Interrupt, ReadStatus, ClearRx, ClearTimeout, Flushed, Poll, Call, Put,
        IInv, TypeOK, ReaderInv, InPush
<1>4. tx' \in 0 .. FifoSize /\ busy' \in BOOLEAN /\ puts' \in 0 .. NPuts
    <2>1. FifoSize \in Nat /\ NPuts \in Nat /\ tx \in 0 .. FifoSize /\ busy \in BOOLEAN
          /\ puts \in 0 .. NPuts
        BY FifoAssumption DEF IInv, TypeOK
    <2>2. CASE Shift
        <3>1. tx' \in 0 .. FifoSize /\ puts' = puts
            BY <2>1, <2>2 DEF Shift
        <3>2. busy' \in BOOLEAN
            BY <2>2 DEF Shift
        <3> QED BY <2>1, <3>1, <3>2
    <2>3. CASE Put
        BY <2>1, <2>3 DEF Put
    <2>4. CASE ~ Shift /\ ~ Put
        BY <2>1, <2>4 DEF LineIdle, Interrupt, ReadStatus, ClearRx, ClearTimeout, Flushed, Poll, Call
    <2> QED BY <2>2, <2>3, <2>4
<1>5. TypeOK'
    BY <1>1, <1>2, <1>3, <1>4 DEF IInv, TypeOK
<1> QED
    <2>1. ReaderInv'
        BY <1>1, <1>2, <1>3 DEF IInv, ReaderInv
    <2>2. PushInv'
        BY <1>1, <1>3 DEF IInv, PushInv
    <2> QED BY <1>1, <1>5, <2>1, <2>2 DEF IInv, Held, StreamInv, Stream

LEMMA AlwaysInv == Spec => []IInv
<1>1. IInv /\ [Next]_vars => IInv'
    BY ArriveInv, DrainInv, PopInv, ReadDataInv, PushReadInv, PushStoreInv, PushAdvanceInv, OthersInv
       DEF Next, Hardware, Handler, Reader
<1> QED BY <1>1, InitInv, PTL DEF Spec

----------------------------------------------------------------------------
(* The theorems. *)

THEOREM TypeCorrect == Spec => []TypeOK
<1>1. IInv => TypeOK
    BY DEF IInv
<1> QED BY <1>1, AlwaysInv, PTL

THEOREM NoByteLost == Spec => []NothingLost
<1>1. IInv => NothingLost
    <2> SUFFICES ASSUME IInv, NEW b \in 1 .. sent, reg # b, driver = "pl011" => b \notin contested
                 PROVE  \E i \in DOMAIN Stream : Stream[i] = b
        BY DEF NothingLost, Stream
    <2>1. got \in Seq(Nat) /\ rx_buffer \in Seq(Nat) /\ fifo \in Seq(Nat)
        BY Places DEF IInv
    <2>2. Range(Stream) = Range(got) \cup Range(rx_buffer) \cup Range(fifo)
        <3>1. got \o rx_buffer \in Seq(Nat)
            BY <2>1, ConcatProperties
        <3>2. Range(Stream) = Range(got \o rx_buffer) \cup Range(fifo)
            <4>1. fifo \in Seq(Nat) /\ Stream = (got \o rx_buffer) \o fifo
                BY <2>1 DEF Stream
            <4> QED BY <3>1, <4>1, RangeConcatenation
        <3>3. Range(got \o rx_buffer) = Range(got) \cup Range(rx_buffer)
            BY <2>1, RangeConcatenation
        <3> QED BY <3>2, <3>3
    <2>3. b \notin contested
        BY DEF IInv, TypeOK, Drivers, ReaderInv
    <2>4. b \in Range(Stream)
        BY <2>2, <2>3 DEF IInv, Held
    <2> QED BY <2>4 DEF Range
<1> QED BY <1>1, AlwaysInv, PTL

THEOREM StaffKeepsOrder == Spec => []StaffInOrder
<1>1. IInv => StaffInOrder
    <2> SUFFICES ASSUME IInv, driver = "staff" PROVE Sequential(Stream) /\ Len(Stream) = sent
        BY DEF StaffInOrder, Stream
    <2>1. got \in Seq(Nat) /\ rx_buffer \in Seq(Nat) /\ fifo \in Seq(Nat)
        BY Places DEF IInv
    <2>2. Stream \in Seq(Nat)
        BY <2>1, ConcatProperties DEF Stream
    <2>3. DOMAIN Stream = 1 .. Len(Stream)
        BY <2>2, LenProperties
    <2> QED BY <2>3 DEF IInv, StreamInv, Sequential
<1> QED BY <1>1, AlwaysInv, PTL
=============================================================================
