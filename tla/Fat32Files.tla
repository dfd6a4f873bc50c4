------------------------------ MODULE Fat32Files ------------------------------
(***************************************************************************)
(* The FAT32 driver implements FileStore.  The files are read off the card *)
(* between calls; during a call they are those the call began with, which  *)
(* a history variable remembers.                                           *)
(***************************************************************************)
EXTENDS Fat32

CONSTANT Absent    \* what a name holds that no file has

ASSUME AbsentAssumption ==
    \A n \in 0 .. MaxLength : Absent \notin [1 .. n -> Block \union {NoBlock}]

VARIABLES before, pending, outcome

history == <<before, pending, outcome>>

NoCall == [new |-> <<>>, kind |-> "none"]

\* The blocks that fat32_read finds of the dirent e, with the FAT f and the
\* given blocks on the card: those of e's chain, up to its size.
Contents(f, e, blocks) ==
    LET w == Walk(f, e.start)
        n == CHOOSE n \in 0 .. e.size :
                 /\ \A k \in 0 .. n - 1 : w[k] \in Clusters
                 /\ n = e.size \/ w[n] \notin Clusters
    IN  [i \in 1 .. n |-> blocks[w[i - 1]]]

ListingOf(f, d, blocks) ==
    [name \in Names |->
        IF \E s \in Slots : d[s].name = name
          THEN Contents(f, d[CHOOSE s \in Slots : d[s].name = name], blocks)
          ELSE Absent]

\* The files that the next boot would find.
Listing == ListingOf(diskFat, dir, data)

NoFiles == [name \in Names |-> Absent]

FilesInit == Init /\ before = NoFiles /\ pending = NoCall /\ outcome = "returned"

Announce(kind, new) ==
    /\ before' = Listing /\ pending' = [new |-> new, kind |-> kind]
    /\ UNCHANGED outcome

Settle(how) == before' = NoFiles /\ pending' = NoCall /\ outcome' = how

Prefix(s, k) == SubSeq(s, 1, IF k < Len(s) THEN k ELSE Len(s))

FilesNext ==
    \/ \E name \in Names :
          Create(name) /\ Announce("create", [n \in {name} |-> <<>>])
    \/ \E name \in Names :
          Delete(name) /\ Announce("delete", [n \in {name} |-> Absent])
    \/ \E oldname, newname \in Names :
          /\ Rename(oldname, newname)
          /\ Announce("rename", [n \in {oldname, newname} |->
                                    IF n = newname THEN Listing[oldname] ELSE Absent])
    \/ \E name \in Names, length \in 0 .. MaxLength :
          /\ Truncate(name, length)
          /\ Announce("truncate", [n \in {name} |-> Prefix(Listing[name], length)])
    \/ \E name \in Names, length \in 0 .. MaxLength, bytes \in Payloads :
          /\ Write(name, length, bytes)
          /\ Announce("write", [n \in {name} |->
                                   [i \in 1 .. length |-> [of |-> bytes, n |-> i]]])
    \/ Step /\ IF pc' = "idle" THEN Settle("returned") ELSE UNCHANGED history
    \/ PowerLoss /\ Settle("interrupted")
    \/ Restart /\ Settle("interrupted")

FilesSpec == FilesInit /\ [][FilesNext]_<<vars, history>>

\* What the volume holds once the call that runs returns.
Expected ==
    [n \in Names |-> IF n \in DOMAIN pending.new THEN pending.new[n] ELSE before[n]]

Store == INSTANCE FileStore WITH files <- IF pc = "idle" THEN Listing ELSE before

\* Should the power fail between two sectors of the FAT that is being written
\* (fat32.c:304), the card holds half of the new FAT and half of the old one.
\* Every file can still be read: each is as it was, or as the call makes it, and
\* where the call is writing a file, that one alone may mix blocks of both.  It
\* is writing to the card from there on that is unsafe (README, section 6).
TornFatKeepsFiles ==
    sec > 0 =>
        \/ Listing \in {before, Expected}
        \/ /\ what = "file"
           /\ \A name \in Names \ DOMAIN pending.new : Listing[name] = before[name]
           /\ \A name \in DOMAIN pending.new :
                  Store!Mixes(Listing[name], before[name], Expected[name])

\* Every call changes the files it names as it should and leaves every other
\* file alone, and an interrupted call has happened or has not, or mixes the
\* old and the new blocks of the one file it was writing.
ImplementsStore == Store!Spec
=============================================================================
