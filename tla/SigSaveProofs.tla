--------------------------- MODULE SigSaveProofs ---------------------------
(***************************************************************************)
(* Proofs about SigSave: saved signatures stay, across power losses until  *)
(* the names wrap and within a power cycle whenever they wrap, and their   *)
(* numbers follow their order.                                             *)
(***************************************************************************)
EXTENDS SigSave, TLAPS

-----------------------------------------------------------------------------
(* Numbers and their names. *)

LEMMA ModuloRange == ASSUME NEW W \in Nat \ {0}, NEW c \in Int PROVE c % W \in 0 .. W - 1
  OBVIOUS

LEMMA ModuloSmall == ASSUME NEW W \in Nat \ {0}, NEW c \in 0 .. W - 1 PROVE c % W = c
  OBVIOUS

\* Numbers that are less than one round apart have different names.
LEMMA ModuloDiffers ==
  ASSUME NEW W \in Nat \ {0}, NEW c \in Int, NEW d \in 1 .. W - 1
  PROVE  (c - d) % W # c % W
  <1>1. SUFFICES ASSUME (c - d) % W = c % W PROVE FALSE
    OBVIOUS
  <1>2. c = W * (c \div W) + (c % W)
    OBVIOUS
  <1>3. c - d = W * ((c - d) \div W) + ((c - d) % W)
    OBVIOUS
  <1> DEFINE k == (c \div W) - ((c - d) \div W)
  <1>4. c \div W \in Int /\ (c - d) \div W \in Int /\ k \in Int
    OBVIOUS
  <1>5. d = W * k
    BY <1>1, <1>2, <1>3, <1>4
  <1>6. k >= 1 => W * k >= W
    BY <1>4
  <1>7. k <= 0 => W * k <= 0
    BY <1>4
  <1>8. QED
    BY <1>4, <1>5, <1>6, <1>7

LEMMA NameInNames == sig_counter \in Nat => Name \in Names
  BY SigAssumption, ModuloRange DEF Name

-----------------------------------------------------------------------------
(* The inductive invariant. *)

SigTyped ==
  /\ attempts \in 0 .. MaxAttempts /\ since \in 0 .. attempts /\ sig_counter \in Nat
  /\ doing \in {"off", "idle", "delete", "create", "write"}
  /\ saved \subseteq (1 .. attempts) \X Names
  /\ files = [n \in Names |-> files[n]]

Saving == doing \in {"delete", "create", "write"}

\* The driver call in progress is about the name of the signature being saved.
Asked ==
  /\ pending # NoCall => Saving /\ DOMAIN pending.new = {Name}
  /\ pending # NoCall /\ doing = "write" => pending.new[Name] = Image(attempts)

\* The attempt whose number sig_counter is: the one being made, or the next.
Current == IF doing = "idle" THEN attempts + 1 ELSE attempts

\* In a power cycle every attempt but the last has been saved, under the numbers
\* that follow one another.
Counting ==
  /\ doing = "off" => since = attempts
  /\ Saving => since < attempts /\ \A s \in saved : s[1] < attempts
  /\ doing # "off" =>
       \A s \in saved : s[1] > since => s[2] = (sig_counter - (Current - s[1])) % Wrap

\* Until the names wrap no number is larger than that of the attempts before it,
\* the next one is free, and those of the signatures saved are below it.
Climbing ==
  attempts <= Wrap =>
    /\ doing # "off" => sig_counter < Current /\ \A s \in saved : s[2] < sig_counter
    /\ \A n \in Names : files[n] # Absent =>
         /\ n < attempts
         /\ doing = "idle" => n < sig_counter
         /\ Saving => n <= sig_counter

SigInv ==
  /\ SigTyped /\ Asked /\ Counting /\ Climbing
  /\ SavedStays /\ RecentStay /\ NumberedInOrder

LEMMA SigInvInit == SigInit => SigInv
  BY SigAssumption DEF SigInit, Init, NoCall, SigInv, SigTyped, Asked, Saving, Counting, Climbing,
     SavedStays, RecentStay, NumberedInOrder

-----------------------------------------------------------------------------
(* What the driver calls do to the files: nothing to any name but theirs. *)

LEMMA ReturnKeeps ==
  ASSUME SigTyped, Asked, Return
  PROVE  /\ files' = [n \in Names |-> files'[n]] /\ pending' = NoCall
         /\ Saving /\ \A n \in Names \ {Name} : files'[n] = files[n]
         /\ doing = "write" => files'[Name] = Image(attempts)
  <1>1. files' = After /\ pending # NoCall /\ pending' = NoCall
    BY DEF Return
  <1>2. Name \in Names /\ Saving /\ DOMAIN pending.new = {Name}
    BY <1>1, NameInNames DEF SigTyped, Asked
  <1>3. QED
    BY <1>1, <1>2 DEF After, Asked

LEMMA InterruptedKeeps ==
  ASSUME SigTyped, Asked, Interrupted
  PROVE  /\ files' = [n \in Names |-> files'[n]] /\ pending' = NoCall
         /\ Saving /\ \A n \in Names \ {Name} : files'[n] = files[n]
  <1>1. pending # NoCall /\ pending' = NoCall
    BY DEF Interrupted
  <1>2. Name \in Names /\ Saving /\ DOMAIN pending.new = {Name}
    BY <1>1, NameInNames DEF SigTyped, Asked
  <1>3. CASE files' \in {files, After}
    BY <1>1, <1>2, <1>3 DEF After, SigTyped
  <1>4. CASE \E n \in DOMAIN pending.new, k \in 0 .. MaxLength :
             \E s \in [1 .. k -> BlocksOf(files[n]) \union BlocksOf(pending.new[n])] :
                /\ Mixes(s, files[n], pending.new[n])
                /\ files' = [files EXCEPT ![n] = s]
    <2>1. \E s : files' = [files EXCEPT ![Name] = s]
      BY <1>2, <1>4
    <2>2. QED
      BY <1>1, <1>2, <2>1 DEF SigTyped
  <1>5. QED
    BY <1>3, <1>4 DEF Interrupted

\* Who begins a call of its own leaves the files alone.
LEMMA Asks ==
  ASSUME SigTyped, Asked, SaveStart \/ SaveCreate \/ SaveWrite
  PROVE  /\ files' = files /\ Name' = Name /\ Saving' /\ pending = NoCall
         /\ UNCHANGED <<sig_counter, saved, since>>
         /\ pending' # NoCall => DOMAIN pending'.new = {Name}
         /\ pending' # NoCall /\ doing' = "write" => pending'.new[Name] = Image(attempts')
  <1>1. CASE SaveStart
    BY <1>1 DEF SaveStart, Delete, Begin, Name, Saving, Asked, vars
  <1>2. CASE SaveCreate
    BY <1>2 DEF SaveCreate, Create, Begin, Name, Saving, Asked, sigVars
  <1>3. CASE SaveWrite
    BY <1>3 DEF SaveWrite, Write, Begin, Name, Saving, Asked, Image, sigVars
  <1>4. QED
    BY <1>1, <1>2, <1>3

-----------------------------------------------------------------------------
(* The name being saved is not that of a signature that is to stay. *)

LEMMA SavedTyped ==
  ASSUME SigTyped, NEW s \in saved
  PROVE  s[1] \in 1 .. attempts /\ s[2] \in Names /\ s[2] \in Int /\ s[1] \in Int /\ s = <<s[1], s[2]>>
  BY SigAssumption DEF SigTyped

\* Until the names wrap the name is the number.
LEMMA NameIsNumber ==
  ASSUME SigTyped, Climbing, Saving, attempts <= Wrap
  PROVE  Name = sig_counter
  <1>1. sig_counter < attempts
    BY DEF Climbing, Saving, Current
  <1>2. sig_counter \in 0 .. Wrap - 1
    BY <1>1, SigAssumption DEF SigTyped
  <1>3. QED
    BY <1>2, SigAssumption, ModuloSmall DEF Name

LEMMA SavedApart ==
  ASSUME SigTyped, Climbing, Saving, attempts <= Wrap, NEW s \in saved
  PROVE  s[2] # Name
  BY NameIsNumber, SavedTyped DEF Climbing, Saving, SigTyped

LEMMA RecentApart ==
  ASSUME SigTyped, Counting, Saving, NEW s \in saved, s[1] > since, attempts - s[1] < Wrap
  PROVE  s[2] # Name
  <1> DEFINE d == attempts - s[1]
  <1>1. s[2] = (sig_counter - d) % Wrap
    BY DEF Counting, Saving, Current
  <1>2. d \in 1 .. Wrap - 1
    BY SigAssumption, SavedTyped DEF Counting, SigTyped
  <1>3. QED
    BY <1>1, <1>2, SigAssumption, ModuloDiffers DEF Name, SigTyped

\* So what happens to the files while a signature is being saved happens to
\* none of those.
LEMMA OthersStay ==
  ASSUME SigInv, Saving, UNCHANGED <<attempts, saved>>, since' \in Int, since' >= since,
         \A n \in Names \ {Name} : files'[n] = files[n]
  PROVE  SavedStays' /\ RecentStay'
  <1> USE DEF SigInv
  <1>1. ASSUME NEW s \in saved, attempts <= Wrap PROVE files'[s[2]] = Image(s[1])
    <2>1. files[s[2]] = Image(s[1])
      BY <1>1 DEF SavedStays
    <2>2. s[2] # Name /\ s[2] \in Names
      BY <1>1, SavedApart, SavedTyped
    <2>3. QED
      BY <2>1, <2>2
  <1>2. ASSUME NEW s \in saved, s[1] > since', attempts - s[1] < Wrap
        PROVE  files'[s[2]] = Image(s[1])
    <2>1. s[1] > since
      BY <1>2, SavedTyped DEF SigTyped
    <2>2. files[s[2]] = Image(s[1])
      BY <1>2, <2>1 DEF RecentStay
    <2>3. s[2] # Name /\ s[2] \in Names
      BY <1>2, <2>1, RecentApart, SavedTyped
    <2>4. QED
      BY <2>2, <2>3
  <1>3. QED
    BY <1>1, <1>2 DEF SavedStays, RecentStay, Image

-----------------------------------------------------------------------------
(* Each step keeps the invariant. *)

LEMMA BootKeeps == ASSUME SigInv, SigInitCall PROVE SigInv'
  <1> USE DEF SigInv
  <1>1. /\ doing = "off" /\ doing' = "idle"
        /\ UNCHANGED <<files, pending, outcome, attempts, saved, since>>
    BY DEF SigInitCall
  <1>2. SavedStays' /\ RecentStay' /\ NumberedInOrder'
    BY <1>1 DEF SavedStays, RecentStay, NumberedInOrder, Image
  <1>3. Asked'
    BY <1>1 DEF Asked, Saving
  <1>4. sig_counter' \in Nat
    BY SigAssumption DEF SigInitCall, NextNumber
  <1>5. SigTyped'
    BY <1>1, <1>4 DEF SigTyped
  <1>6. Counting'
    BY <1>1, SavedTyped DEF Counting, Saving, SigTyped
  <1>7. ASSUME attempts <= Wrap, NEW s \in saved PROVE files[s[2]] # Absent
    <2>1. s[1] \in Payloads
      BY SavedTyped, SigAssumption DEF SigTyped
    <2>2. Image(s[1]) # Absent
      BY <2>1, SigAssumption
    <2>3. QED
      BY <1>7, <2>2 DEF SavedStays
  <1>8. ASSUME sig_counter' = 0, {n \in Names : files[n] # Absent} = {} PROVE Climbing'
    <2>1. \A n \in Names : files[n] = Absent
      BY <1>8
    <2>2. attempts <= Wrap => saved = {}
      BY <1>7, <2>1, SavedTyped
    <2>3. sig_counter' < attempts + 1 /\ Current' = attempts + 1
      BY <1>1, <1>8 DEF SigTyped, Current
    <2>4. QED
      BY <1>1, <2>1, <2>2, <2>3 DEF Climbing, Saving
  <1>9. ASSUME NEW max \in Names, files[max] # Absent, sig_counter' = max + 1,
               \A n \in Names : files[n] # Absent => n <= max
        PROVE  Climbing'
    <2>1. SUFFICES ASSUME attempts <= Wrap
                   PROVE  /\ max + 1 < attempts + 1 /\ \A s \in saved : s[2] < max + 1
                          /\ \A n \in Names : files[n] # Absent => n < attempts /\ n < max + 1
      BY <1>1, <1>9 DEF Climbing, Current, Saving
    <2>2. \A n \in Names : n \in Int
      BY SigAssumption
    <2>3. max < attempts
      BY <1>9, <2>1 DEF Climbing
    <2>4. \A n \in Names : files[n] # Absent => n < attempts /\ n < max + 1
      BY <1>9, <2>1, <2>2 DEF Climbing
    <2>5. \A s \in saved : s[2] < max + 1
      BY <1>7, <2>1, <2>4, SavedTyped
    <2>6. QED
      BY <2>2, <2>3, <2>4, <2>5 DEF SigTyped
  <1>10. QED
    BY <1>2, <1>3, <1>5, <1>6, <1>8, <1>9 DEF SigInitCall, NextNumber

LEMMA StartKeeps == ASSUME SigInv, SaveStart PROVE SigInv'
  <1> USE DEF SigInv
  <1>1. /\ doing = "idle" /\ doing' \in {"create", "delete"} /\ attempts' = attempts + 1
        /\ attempts < MaxAttempts /\ UNCHANGED <<files, sig_counter, saved, since>>
    BY Asks DEF SaveStart
  <1>2. SigTyped'
    BY <1>1, SigAssumption DEF SigTyped
  <1>3. Asked'
    BY Asks DEF Asked, Name
  <1>4. SavedStays' /\ NumberedInOrder'
    BY <1>1, SigAssumption DEF SavedStays, NumberedInOrder, SigTyped, Image
  <1>5. RecentStay'
    BY <1>1, SigAssumption, SavedTyped DEF RecentStay, SigTyped, Image
  <1>6. Counting'
    <2>1. since < attempts' /\ \A s \in saved : s[1] < attempts'
      BY <1>1, SavedTyped DEF SigTyped
    <2>2. Current' = Current
      BY <1>1 DEF Current
    <2>3. QED
      BY <1>1, <2>1, <2>2 DEF Counting, Saving
  <1>7. Climbing'
    <2>1. SUFFICES ASSUME attempts + 1 <= Wrap PROVE Climbing'
      BY <1>1 DEF Climbing
    <2>2. attempts <= Wrap /\ Current' = Current
      BY <1>1, <2>1, SigAssumption DEF SigTyped, Current
    <2>3. sig_counter < Current' /\ \A s \in saved : s[2] < sig_counter
      BY <1>1, <2>2 DEF Climbing
    <2>4. ASSUME NEW n \in Names, files[n] # Absent PROVE n < attempts + 1 /\ n <= sig_counter
      BY <1>1, <2>2, <2>4, SigAssumption DEF Climbing, SigTyped
    <2>5. QED
      BY <1>1, <2>3, <2>4 DEF Climbing, Saving
  <1>8. QED
    BY <1>2, <1>3, <1>4, <1>5, <1>6, <1>7

LEMMA AskKeeps == ASSUME SigInv, SaveCreate \/ SaveWrite PROVE SigInv'
  <1> USE DEF SigInv
  <1>1. UNCHANGED <<files, sig_counter, doing, attempts, saved, since>>
    BY DEF SaveCreate, Create, SaveWrite, Write, Begin, sigVars
  <1>2. Asked'
    BY Asks DEF Asked, Name
  <1>3. SigTyped' /\ Counting' /\ Climbing'
    BY <1>1 DEF SigTyped, Counting, Climbing, Saving, Current
  <1>4. SavedStays' /\ RecentStay' /\ NumberedInOrder'
    BY <1>1 DEF SavedStays, RecentStay, NumberedInOrder, Image
  <1>5. QED
    BY <1>2, <1>3, <1>4

LEMMA ReturnsKeep == ASSUME SigInv, DeleteReturns \/ CreateReturns PROVE SigInv'
  <1> USE DEF SigInv
  <1>1. /\ Return /\ doing' \in {"create", "write"}
        /\ UNCHANGED <<sig_counter, attempts, saved, since>>
    BY DEF DeleteReturns, CreateReturns
  <1>2. /\ files' = [n \in Names |-> files'[n]] /\ pending' = NoCall
        /\ Saving /\ \A n \in Names \ {Name} : files'[n] = files[n]
    BY <1>1, ReturnKeeps
  <1>3. SigTyped'
    BY <1>1, <1>2 DEF SigTyped
  <1>4. Asked'
    BY <1>2 DEF Asked
  <1>5. SavedStays' /\ RecentStay'
    BY <1>1, <1>2, OthersStay DEF SigTyped
  <1>6. NumberedInOrder'
    BY <1>1 DEF NumberedInOrder
  <1>7. Saving' /\ Current' = Current
    BY <1>1, <1>2 DEF Saving, Current
  <1>8. Counting'
    BY <1>1, <1>2, <1>7 DEF Counting, Saving
  <1>9. Climbing'
    <2>1. ASSUME attempts <= Wrap, NEW n \in Names, files'[n] # Absent
          PROVE  n < attempts /\ n <= sig_counter
      <3>1. CASE n = Name
        BY <1>2, <2>1, <3>1, NameIsNumber DEF Climbing, Saving, Current, SigTyped
      <3>2. CASE n # Name
        BY <1>2, <2>1, <3>2 DEF Climbing
      <3>3. QED
        BY <3>1, <3>2
    <2>2. QED
      BY <1>1, <1>2, <1>7, <2>1 DEF Climbing, Saving
  <1>10. QED
    BY <1>3, <1>4, <1>5, <1>6, <1>8, <1>9

LEMMA SavedKeeps == ASSUME SigInv, WriteReturns PROVE SigInv'
  <1> USE DEF SigInv
  <1>1. /\ Return /\ doing = "write" /\ doing' = "idle" /\ sig_counter' = sig_counter + 1
        /\ saved' = saved \union {<<attempts, Name>>} /\ UNCHANGED <<attempts, since>>
    BY DEF WriteReturns, Counted
  <1>2. /\ files' = [n \in Names |-> files'[n]] /\ pending' = NoCall
        /\ Saving /\ \A n \in Names \ {Name} : files'[n] = files[n]
        /\ files'[Name] = Image(attempts)
    BY <1>1, ReturnKeeps
  <1>3. since < attempts /\ \A s \in saved : s[1] < attempts
    BY <1>2 DEF Counting
  <1>4. <<attempts, Name>> \in (1 .. attempts) \X Names
    BY <1>3, NameInNames DEF SigTyped
  <1>5. SigTyped'
    BY <1>1, <1>2, <1>4 DEF SigTyped
  <1>6. Asked'
    BY <1>2 DEF Asked
  <1>7. SavedStays'
    <2>1. ASSUME NEW s \in saved, attempts <= Wrap PROVE files'[s[2]] = Image(s[1])
      BY <1>2, <2>1, SavedApart, SavedTyped DEF SavedStays
    <2>2. ASSUME NEW s \in saved', attempts <= Wrap PROVE files'[s[2]] = Image(s[1])
      BY <1>1, <1>2, <2>1, <2>2
    <2>3. QED
      BY <1>1, <2>2 DEF SavedStays, Image
  <1>8. RecentStay'
    <2>1. ASSUME NEW s \in saved, s[1] > since, attempts - s[1] < Wrap
          PROVE  files'[s[2]] = Image(s[1])
      BY <1>2, <2>1, RecentApart, SavedTyped DEF RecentStay
    <2>2. ASSUME NEW s \in saved', s[1] > since, attempts - s[1] < Wrap
          PROVE  files'[s[2]] = Image(s[1])
      BY <1>1, <1>2, <2>1, <2>2
    <2>3. QED
      BY <1>1, <2>2 DEF RecentStay, Image
  <1>9. Counting'
    <2>1. ASSUME NEW s \in saved, s[1] > since
          PROVE  s[2] = (sig_counter + 1 - (attempts + 1 - s[1])) % Wrap
      <3>1. s[2] = (sig_counter - (attempts - s[1])) % Wrap
        BY <1>1, <1>2, <2>1 DEF Counting, Saving, Current
      <3>2. sig_counter + 1 - (attempts + 1 - s[1]) = sig_counter - (attempts - s[1])
        BY SavedTyped DEF SigTyped
      <3>3. QED
        BY <3>1, <3>2
    <2>2. Name = (sig_counter + 1 - (attempts + 1 - attempts)) % Wrap
      BY DEF Name, SigTyped
    <2>3. ASSUME NEW s \in saved', s[1] > since
          PROVE  s[2] = (sig_counter + 1 - (attempts + 1 - s[1])) % Wrap
      BY <1>1, <2>1, <2>2, <2>3
    <2>4. Current' = attempts + 1 /\ ~Saving'
      BY <1>1 DEF Current, Saving
    <2>5. \A s \in saved' : s[1] > since' => s[2] = (sig_counter' - (Current' - s[1])) % Wrap
      <3>1. sig_counter' = sig_counter + 1 /\ Current' = attempts + 1 /\ since' = since
        BY <1>1, <2>4
      <3>2. sig_counter \in Int /\ attempts \in Int /\ \A s \in saved' : s[1] \in Int
        BY <1>1, SavedTyped DEF SigTyped
      <3>3. ASSUME NEW s \in saved', s[1] > since'
            PROVE  s[2] = (sig_counter' - (Current' - s[1])) % Wrap
        <4>1. s[2] = (sig_counter + 1 - (attempts + 1 - s[1])) % Wrap
          BY <2>3, <3>1, <3>3
        <4>2. sig_counter' - (Current' - s[1]) = sig_counter + 1 - (attempts + 1 - s[1])
          BY <3>1, <3>2
        <4>3. QED
          BY <4>1, <4>2
      <3>4. QED
        BY <3>3
    <2>6. QED
      BY <1>1, <2>4, <2>5 DEF Counting
  <1>10. ASSUME attempts <= Wrap
         PROVE  /\ Name = sig_counter /\ sig_counter < attempts
                /\ \A s \in saved : s[2] < sig_counter
                /\ \A n \in Names : files'[n] # Absent => n < attempts /\ n <= sig_counter
    <2>1. Name = sig_counter /\ sig_counter < attempts /\ \A s \in saved : s[2] < sig_counter
      BY <1>2, <1>10, NameIsNumber DEF Climbing, Saving, Current
    <2>2. ASSUME NEW n \in Names, files'[n] # Absent PROVE n < attempts /\ n <= sig_counter
      <3>1. CASE n = Name
        BY <2>1, <3>1 DEF SigTyped
      <3>2. CASE n # Name
        BY <1>2, <1>10, <2>2, <3>2 DEF Climbing
      <3>3. QED
        BY <3>1, <3>2
    <2>3. QED
      BY <2>1, <2>2
  <1>11. Climbing'
    <2>1. \A n \in Names : n \in Int
      BY SigAssumption
    <2>2. ASSUME attempts <= Wrap
          PROVE  /\ sig_counter + 1 < attempts + 1 /\ \A s \in saved' : s[2] < sig_counter + 1
                 /\ \A n \in Names : files'[n] # Absent => n < attempts /\ n < sig_counter + 1
      BY <1>1, <1>10, <2>1, <2>2, SavedTyped DEF SigTyped
    <2>3. QED
      BY <1>1, <2>2 DEF Climbing, Saving, Current
  <1>12. NumberedInOrder'
    BY <1>1, <1>3, <1>10, SavedTyped DEF NumberedInOrder, SigTyped
  <1>13. QED
    BY <1>5, <1>6, <1>7, <1>8, <1>9, <1>11, <1>12

LEMMA PowerLossKeeps == ASSUME SigInv, PowerLoss PROVE SigInv'
  <1> USE DEF SigInv
  <1>1. /\ doing' = "off" /\ sig_counter' = 0 /\ since' = attempts
        /\ UNCHANGED <<attempts, saved>>
    BY DEF PowerLoss
  <1>2. NumberedInOrder'
    BY <1>1 DEF NumberedInOrder
  <1>3. Counting'
    BY <1>1 DEF Counting, Saving
  <1>4. CASE Interrupted
    <2>1. /\ files' = [n \in Names |-> files'[n]] /\ pending' = NoCall
          /\ Saving /\ \A n \in Names \ {Name} : files'[n] = files[n]
      BY <1>4, InterruptedKeeps
    <2>2. SigTyped' /\ Asked'
      BY <1>1, <2>1 DEF SigTyped, Asked
    <2>3. SavedStays' /\ RecentStay'
      BY <1>1, <2>1, OthersStay DEF SigTyped
    <2>4. ASSUME attempts <= Wrap, NEW n \in Names, files'[n] # Absent PROVE n < attempts
      BY <2>1, <2>4, NameIsNumber DEF Climbing, Saving, Current, SigTyped
    <2>5. Climbing'
      BY <1>1, <2>4 DEF Climbing, Saving
    <2>6. QED
      BY <1>2, <1>3, <2>2, <2>3, <2>5
  <1>5. CASE pending = NoCall /\ UNCHANGED vars
    <2>1. files' = files /\ pending' = NoCall
      BY <1>5 DEF vars
    <2>2. SigTyped' /\ Asked' /\ Climbing'
      BY <1>1, <2>1 DEF SigTyped, Asked, Climbing, Saving
    <2>3. SavedStays' /\ RecentStay'
      BY <1>1, <2>1, SavedTyped DEF SavedStays, RecentStay, Image, SigTyped
    <2>4. QED
      BY <1>2, <1>3, <2>2, <2>3
  <1>6. QED
    BY <1>4, <1>5 DEF PowerLoss

LEMMA StepKeeps == ASSUME SigInv, [SigNext]_allVars PROVE SigInv'
  <1>1. CASE UNCHANGED allVars
    BY <1>1 DEF allVars, SigInv, SigTyped, Asked, Counting, Climbing, Saving, Current, Name,
       SavedStays, RecentStay, NumberedInOrder, Image
  <1>2. CASE SigNext
    BY <1>2, BootKeeps, StartKeeps, AskKeeps, ReturnsKeep, SavedKeeps, PowerLossKeeps DEF SigNext
  <1>3. QED
    BY <1>1, <1>2

LEMMA SigInvAlways == SigSpec => []SigInv
  BY SigInvInit, StepKeeps, PTL DEF SigSpec

\* sig_save loses no signature that it has saved: each stays on the card as it
\* was drawn, over any number of power losses anywhere in later saves, for as
\* many attempts as there are names (sig-save.h:83).
THEOREM SavedSignaturesStay == SigSpec => []SavedStays
  BY SigInvAlways, PTL DEF SigInv

\* When the names wrap, sig_save replaces the oldest signature of this power
\* cycle and no other ("Filename cycles", sig-save.h:79).
THEOREM RecentSignaturesStay == SigSpec => []RecentStay
  BY SigInvAlways, PTL DEF SigInv

\* sig_init resumes above every number that sig_save has given, also when the
\* last save was cut off: numbers follow the order of the signatures until they
\* wrap.
THEOREM NumbersFollowOrder == SigSpec => []NumberedInOrder
  BY SigInvAlways, PTL DEF SigInv
=============================================================================
