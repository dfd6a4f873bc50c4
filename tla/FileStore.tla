------------------------------ MODULE FileStore ------------------------------
(***************************************************************************)
(* What callers of fat32.h may rely on: a store of named files, each a     *)
(* sequence of blocks, changed by one call at a time.  A call that returns *)
(* has changed the files it names, as asked, and no other.  A call that is *)
(* interrupted, by a panic or by the loss of power, has changed no other   *)
(* file either: a creation, deletion, renaming or truncation has happened  *)
(* or it has not, and a file that was being written holds, at each place,  *)
(* the old block or the new one.                                           *)
(***************************************************************************)
EXTENDS Integers, Sequences

CONSTANTS Names, Payloads, MaxLength, Absent

VARIABLES
    files,     \* the contents of every name, or Absent
    pending,   \* the call in progress: what it makes of the files it names
    outcome    \* how the last call ended

vars == <<files, pending, outcome>>

NoCall == [new |-> <<>>, kind |-> "none"]

Init ==
    /\ files = [n \in Names |-> Absent]
    /\ pending = NoCall
    /\ outcome = "returned"

Begin(kind, new) ==
    /\ pending = NoCall
    /\ pending' = [new |-> new, kind |-> kind]
    /\ UNCHANGED <<files, outcome>>

Create(n) ==
    files[n] = Absent /\ Begin("create", [m \in {n} |-> <<>>])

Delete(n) ==
    files[n] # Absent /\ Begin("delete", [m \in {n} |-> Absent])

Rename(o, n) ==
    /\ files[o] # Absent /\ files[n] = Absent
    /\ Begin("rename", [m \in {o, n} |-> IF m = n THEN files[o] ELSE Absent])

Prefix(s, k) == SubSeq(s, 1, IF k < Len(s) THEN k ELSE Len(s))

Truncate(n, k) ==
    files[n] # Absent /\ Begin("truncate", [m \in {n} |-> Prefix(files[n], k)])

Write(n, k, p) ==
    /\ files[n] # Absent
    /\ Begin("write", [m \in {n} |-> [i \in 1 .. k |-> [of |-> p, n |-> i]]])

After == [n \in Names |-> IF n \in DOMAIN pending.new THEN pending.new[n] ELSE files[n]]

Return ==
    /\ pending # NoCall /\ pending' = NoCall /\ outcome' = "returned"
    /\ files' = After

BlocksOf(a) == {a[i] : i \in DOMAIN a}

\* s mixes the blocks of the contents a and b.
Mixes(s, a, b) ==
    \A i \in 1 .. Len(s) : (i <= Len(a) /\ s[i] = a[i]) \/ (i <= Len(b) /\ s[i] = b[i])

Interrupted ==
    /\ pending # NoCall /\ pending' = NoCall /\ outcome' = "interrupted"
    /\ \/ files' \in {files, After}
       \/ /\ pending.kind = "write"
          /\ \E n \in DOMAIN pending.new, k \in 0 .. MaxLength :
             \E s \in [1 .. k -> BlocksOf(files[n]) \union BlocksOf(pending.new[n])] :
                /\ Mixes(s, files[n], pending.new[n])
                /\ files' = [files EXCEPT ![n] = s]

Next ==
    \/ \E n \in Names : Create(n) \/ Delete(n)
    \/ \E o, n \in Names : Rename(o, n)
    \/ \E n \in Names, k \in 0 .. MaxLength : Truncate(n, k)
    \/ \E n \in Names, k \in 0 .. MaxLength, p \in Payloads : Write(n, k, p)
    \/ Return
    \/ Interrupted

Spec == Init /\ [][Next]_vars
=============================================================================
