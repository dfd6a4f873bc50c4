------------------------------- MODULE SigSave -------------------------------
(***************************************************************************)
(* sig-save.h on top of FileStore: every signature goes to the file of the *)
(* next number, and a boot resumes after the highest number on the card.   *)
(* A name is its number; names wrap at Wrap (1000 in the code: three       *)
(* digits).  The power may fail in every state.                            *)
(***************************************************************************)
EXTENDS FileStore

CONSTANTS
    Wrap,         \* SIG000.BMP to SIG999.BMP
    ImageLength,  \* blocks of a bitmap
    MaxAttempts   \* bound: how often sig_save is called

VARIABLES
    sig_counter,
    doing,        \* where sig_save is
    attempts,     \* calls of sig_save so far; the next signature's identity
    saved,        \* the signatures whose sig_save returned, with their numbers
    since         \* how many of the attempts were before this power cycle

sigVars == <<sig_counter, doing, attempts, saved, since>>
allVars == <<files, pending, outcome, sig_counter, doing, attempts, saved, since>>

\* The bitmap of a signature.
Image(a) == [i \in 1 .. ImageLength |-> [of |-> a, n |-> i]]

ASSUME SigAssumption ==
    /\ Wrap \in Nat \ {0} /\ ImageLength \in 1 .. MaxLength
    /\ Names = 0 .. Wrap - 1 /\ Payloads = 1 .. MaxAttempts
    /\ MaxAttempts \in Nat /\ \A a \in Payloads : Image(a) # Absent

Name_DigitLost == sig_counter % (Wrap - 1)

\* The digits of the file name.
Name == sig_counter % Wrap

NextNumber_Same(max) == max

\* Where sig_init resumes after the highest number on the card.
NextNumber(max) == max + 1

Counted_Not == sig_counter

\* sig_counter++ at the end of sig_save.
Counted == sig_counter + 1

SigInit ==
    /\ Init
    /\ sig_counter = 0 /\ doing = "off" /\ attempts = 0
    /\ saved = {} /\ since = 0

\* sig_init: the highest number in the directory, plus one.
SigInitCall ==
    /\ doing = "off" /\ doing' = "idle"
    /\ LET found == {n \in Names : files[n] # Absent} IN
       \/ found = {} /\ sig_counter' = 0
       \/ \E max \in found : (\A n \in found : n <= max) /\ sig_counter' = NextNumber(max)
    /\ UNCHANGED <<files, pending, outcome, attempts, saved, since>>

\* sig_save: fat32_delete of the name, which may find nothing to delete.
SaveStart ==
    /\ doing = "idle" /\ attempts < MaxAttempts
    /\ attempts' = attempts + 1
    /\ IF files[Name] = Absent
         THEN doing' = "create" /\ UNCHANGED vars
         ELSE doing' = "delete" /\ Delete(Name)
    /\ UNCHANGED <<sig_counter, saved, since>>

DeleteReturns ==
    /\ doing = "delete" /\ Return
    /\ doing' = "create"
    /\ UNCHANGED <<sig_counter, attempts, saved, since>>

\* assert(fat32_create(...)): begun when the name is free, then returns.
SaveCreate ==
    /\ doing = "create" /\ Create(Name) /\ UNCHANGED sigVars

CreateReturns ==
    /\ doing = "create" /\ Return
    /\ doing' = "write"
    /\ UNCHANGED <<sig_counter, attempts, saved, since>>

SaveWrite ==
    /\ doing = "write" /\ Write(Name, ImageLength, attempts) /\ UNCHANGED sigVars

WriteReturns ==
    /\ doing = "write" /\ Return
    /\ doing' = "idle" /\ sig_counter' = Counted
    /\ saved' = saved \union {<<attempts, Name>>}
    /\ UNCHANGED <<attempts, since>>

\* The power fails, or the driver panics, within a call or between two.
PowerLoss ==
    /\ doing # "off" /\ doing' = "off" /\ sig_counter' = 0
    /\ Interrupted \/ (pending = NoCall /\ UNCHANGED vars)
    /\ since' = attempts
    /\ UNCHANGED <<attempts, saved>>
-----------------------------------------------------------------------------
SigNext ==
    \/ SigInitCall \/ SaveStart \/ DeleteReturns \/ SaveCreate \/ CreateReturns
    \/ SaveWrite \/ WriteReturns \/ PowerLoss

SigSpec == SigInit /\ [][SigNext]_allVars

\* A signature whose sig_save returned stays on the card as it was drawn, over
\* any number of reboots and interrupted saves, until the names wrap.
SavedStays == attempts <= Wrap => \A s \in saved : files[s[2]] = Image(s[1])

\* Of the signatures saved in this power cycle the last Wrap stay, also when
\* the file names have wrapped ("Filename cycles", sig-save.h:79) and wherever
\* the boot resumed: sig_save replaces the oldest of them and no other.
RecentStay ==
    \A s \in saved : s[1] > since /\ attempts - s[1] < Wrap => files[s[2]] = Image(s[1])

\* The signature is on the card as it was drawn.
OnCard(s) == files[s[2]] = Image(s[1])

\* sig_init: "find highest existing SIG file so we don't overwrite on reboot"
\* (sig-save.h:41).  At the least, the name a boot resumes with, which the next
\* sig_save deletes, is not that of a signature that is newer than another one
\* on the card.
BootSparesNewer ==
    [][SigInitCall =>
         \A s, t \in saved : t[1] < s[1] /\ OnCard(s) /\ OnCard(t) => Name' # s[2]]_allVars

\* The numbers follow the order of the signatures, across reboots, until they
\* wrap.
NumberedInOrder ==
    attempts <= Wrap => \A s, t \in saved : s[1] < t[1] => s[2] < t[2]
=============================================================================
