----------------------------- MODULE BlockDevice -----------------------------
(***************************************************************************)
(* What pi-sd.h promises of the SD card: "read `nsec` sectors of the SD    *)
(* card starting at `lba` into a buffer", "write `data` to `nsec` sectors  *)
(* of the SD card starting at `lba`".  One request at a time; blocks move  *)
(* one by one and in any order, again if need be, and a request returns    *)
(* only when all of them have moved.  It may fail, which stops the program.*)
(***************************************************************************)
EXTENDS Integers, Sequences

CONSTANTS NSectors, Values, Junk

VARIABLES request,   \* what is being asked for; [op |-> "none"] between requests
          data,      \* its buffer
          disk

Idle == [op |-> "none", sector |-> 0, n |-> 0]
Failed == [op |-> "failed", sector |-> 0, n |-> 0]

Sector(i) == request.sector + i - 1
Asked == 1 .. request.n

Init ==
    /\ request = Idle
    /\ data = <<>>
    /\ disk \in [0 .. NSectors - 1 -> Values]

Start ==
    /\ request = Idle
    /\ \E op \in {"read", "write"}, s \in 0 .. NSectors - 1, n \in 1 .. NSectors :
         /\ s + n <= NSectors
         /\ request' = [op |-> op, sector |-> s, n |-> n]
         /\ data' \in [1 .. n -> Values \cup {Junk}]
    /\ UNCHANGED disk

ReadBlock ==
    /\ request.op = "read"
    /\ \E i \in Asked, v \in Values \cup {Junk} : data' = [data EXCEPT ![i] = v]
    /\ UNCHANGED <<request, disk>>

WriteBlock ==
    /\ request.op = "write"
    /\ \E i \in Asked : disk' = [disk EXCEPT ![Sector(i)] = data[i]]
    /\ UNCHANGED <<request, data>>

Return ==
    /\ request.op \in {"read", "write"}
    /\ \A i \in Asked : data[i] = disk[Sector(i)]
    /\ request' = Idle
    /\ UNCHANGED <<data, disk>>

Fail ==
    /\ request # Failed
    /\ request' = Failed
    /\ UNCHANGED <<data, disk>>

Next == Start \/ ReadBlock \/ WriteBlock \/ Return \/ Fail

Spec == Init /\ [][Next]_<<request, data, disk>>
=============================================================================
