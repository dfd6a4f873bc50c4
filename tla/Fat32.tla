-------------------------------- MODULE Fat32 --------------------------------
(***************************************************************************)
(* The FAT32 driver of oled-neopixel-sanity/libs/fat32/fat32.c, at the     *)
(* grain of one iteration of each of its loops.                            *)
(*                                                                         *)
(* The driver holds a copy of the FAT in memory (fs->fat), which every     *)
(* call edits in place and write_cluster_chain writes back in the end; it  *)
(* reads the root directory from the card at the start of every call and   *)
(* writes it back through write_cluster_chain.  Between two steps the cap  *)
(* may lose its power: what is on the card then is what the next boot      *)
(* finds.                                                                  *)
(*                                                                         *)
(* Lengths are counted in clusters: a length of n stands for the byte      *)
(* counts that need exactly n clusters, which is all that the loops of     *)
(* the driver distinguish.                                                 *)
(***************************************************************************)
EXTENDS Integers, Sequences

CONSTANTS
    NEntries,          \* fs->n_entries: entries of the FAT
    EntriesPerSector,  \* FAT entries in a 512-byte sector (128 on a card)
    DirChain,          \* the clusters of the root directory, in order
    BadClusters,       \* clusters the FAT marks BAD_CLUSTER
    SlotsPerCluster,   \* directory entries in a cluster
    DottedNames,       \* valid file names with an extension
    BareNames,         \* valid file names without one
    NoName,            \* the first name byte of a free dirent (0 or 0xE5)
    Payloads,          \* what callers write
    NoPayload,
    MaxLength,         \* longest file, in clusters
    Calls,             \* which of the uses below the callers make
    PowerLossAllowed,  \* whether the power may fail within a call
    TearResumed        \* bound: whether a card whose FAT a power failure has
                       \* left between two sectors is used again

(***************************************************************************)
(* Three uses of the interface that no caller in this repository makes but *)
(* that fat32.h allows.                                                    *)
(***************************************************************************)
Uses == {"rename_over", "truncate_to_zero", "truncate_beyond"}

FREE == 0                    \* FREE_CLUSTER
LAST == NEntries             \* any value whose type is LAST_CLUSTER
BAD  == NEntries + 1         \* BAD_CLUSTER

Clusters == 2 .. (NEntries - 1)
Entries  == {FREE, LAST, BAD} \union Clusters
Names    == DottedNames \union BareNames
DirClusters == {DirChain[i] : i \in DOMAIN DirChain}

Slots   == 1 .. (Len(DirChain) * SlotsPerCluster)
BlockOf(s) == ((s - 1) \div SlotsPerCluster) + 1
NSectors == NEntries \div EntriesPerSector

Block  == [of : Payloads, n : 1 .. MaxLength]
NoBlock == [of |-> NoPayload, n |-> 0]
Dirent == [name : Names \union {NoName}, size : 0 .. MaxLength,
           start : {0} \union Clusters]
FreeDirent == [name |-> NoName, size |-> 0, start |-> 0]

ASSUME GeometryAssumption ==
    /\ NEntries \in Nat /\ EntriesPerSector \in Nat \ {0}
    /\ SlotsPerCluster \in Nat \ {0} /\ MaxLength \in Nat
    /\ NEntries % EntriesPerSector = 0
    /\ BadClusters \subseteq Clusters
    /\ PowerLossAllowed \in BOOLEAN /\ TearResumed \in BOOLEAN

ASSUME DirAssumption ==
    /\ DirChain \in Seq(Clusters)
    /\ Len(DirChain) > 0
    /\ \A i, j \in DOMAIN DirChain : DirChain[i] = DirChain[j] => i = j
    /\ DirClusters \intersect BadClusters = {}

ASSUME NameAssumption ==
    /\ NoName \notin Names
    /\ DottedNames \intersect BareNames = {}
    /\ NoPayload \notin Payloads
    /\ Calls \subseteq Uses

VARIABLES
    fat,       \* fs->fat, in memory
    diskFat,   \* the first FAT on the card
    dir,       \* the dirents of the root directory on the card
    data,      \* what the card holds in the other clusters
    pc,        \* the loop the running call is in
    dirents,   \* the call's copy of the directory (dir when there is no call)
    what,      \* which buffer write_cluster_chain is writing
    cur,       \* current_cluster, cur_cluster or tail
    left,      \* bytes_left, in clusters
    offset,    \* offset into the buffer, in clusters
    payload,   \* file->data
    sec        \* FAT sectors written so far

card == <<diskFat, dir, data>>
call == <<pc, dirents, what, cur, left, offset, payload, sec>>
vars == <<fat, diskFat, dir, data, pc, dirents, what, cur, left, offset,
          payload, sec>>

TypeOK ==
    /\ fat     \in [0 .. NEntries - 1 -> Entries]
    /\ diskFat \in [0 .. NEntries - 1 -> Entries]
    /\ dir     \in [Slots -> Dirent]
    /\ dirents \in [Slots -> Dirent]
    /\ data    \in [Clusters -> Block \union {NoBlock}]
    /\ pc      \in {"idle", "write", "tail", "sync", "free", "cut", "panic"}
    /\ what    \in {"file", "dir"}
    /\ cur     \in Entries
    /\ left    \in Nat
    /\ offset  \in Nat
    /\ payload \in Payloads \union {NoPayload}
    /\ sec     \in Nat
-----------------------------------------------------------------------------
\* The FAT entry of the i-th cluster of the root directory.
AfterInDir(i) == IF i = Len(DirChain) THEN LAST ELSE DirChain[i + 1]

(***************************************************************************)
(* A formatted card: every cluster is free but the root directory's and    *)
(* the bad ones; entries 0 and 1 hold end-of-chain values.                 *)
(***************************************************************************)
FormattedFat ==
    [c \in 0 .. NEntries - 1 |->
        IF c < 2 THEN LAST
        ELSE IF c \in BadClusters THEN BAD
        ELSE IF c \in DirClusters THEN AfterInDir(CHOOSE i \in DOMAIN DirChain : DirChain[i] = c)
        ELSE FREE]

Init ==
    /\ fat = FormattedFat
    /\ diskFat = FormattedFat
    /\ dir = [s \in Slots |-> FreeDirent]
    /\ data = [c \in Clusters |-> NoBlock]
    /\ pc = "idle"
    /\ dirents = dir
    /\ what = "dir" /\ cur = 0 /\ left = 0 /\ offset = 0
    /\ payload = NoPayload /\ sec = 0

\* Where the call goes on, with the locals of the loop it enters.
Enter(loop, buffer, cluster, n, bytes) ==
    /\ pc' = loop /\ what' = buffer /\ cur' = cluster /\ left' = n
    /\ offset' = 0 /\ payload' = bytes /\ sec' = 0

WriteDirectory_OneTooLong ==
    Enter("write", "dir", DirChain[1], Len(DirChain) + 1, NoPayload)

\* write_cluster_chain(fs, directory->cluster_id, dirents, dir_n * 32)
WriteDirectory == Enter("write", "dir", DirChain[1], Len(DirChain), NoPayload)

\* The end of a call, by a return or by a panic.
Stop(how) == Enter(how, "dir", 0, 0, NoPayload)

First(i, S) == i \in S /\ \A j \in S : i <= j

-----------------------------------------------------------------------------
(***************************************************************************)
(* Small pieces of the code that several actions share.  A definition with *)
(* an underscore in its name is a plausible bug in the one that follows    *)
(* it: the properties are tried against it (README, "Mutants").            *)
(***************************************************************************)

Matches_OffByOne(name) ==
    {s \in Slots : s > 1 /\ name \in DottedNames /\ dir[s].name = name}

\* find_dirent_with_name compares with the "NAME.EXT" form of a dirent, which
\* always has a dot: a name without one is never found.
Matches(name) == {s \in Slots : name \in DottedNames /\ dir[s].name = name}

FreeFrom_NoCheck(c) == {i \in 3 .. NEntries - 1 : i >= c}

\* find_free_cluster: the candidates of its scan, which never wraps around.
FreeFrom(c) == {i \in 3 .. NEntries - 1 : i >= c /\ fat[i] = FREE}

EndsChain_WrongType(e) == e = FREE

\* fat32_fat_entry_type(e) == LAST_CLUSTER
EndsChain(e) == e = LAST

HasChain_OffByOne(c) == c > 3

\* The cluster number of a dirent that has clusters.
HasChain(c) == c >= 2

BytesWrite_WholeCluster == 1

\* bytes_write of fat32_truncate: at most a cluster.
BytesWrite == IF left > 1 THEN 1 ELSE left

CutsHere_Early == left <= 2

\* Where fat32_truncate edits the chain: nothing is left after this cluster.
CutsHere == left - BytesWrite = 0

SyncedFat_WithDirectory ==
    [c \in DOMAIN fat |->
        IF what = "dir" /\ c \div EntriesPerSector = sec THEN fat[c] ELSE diskFat[c]]

\* The FAT on the card once write_fat_to_disk has written sector sec.
SyncedFat ==
    [c \in DOMAIN fat |->
        IF c \div EntriesPerSector = sec THEN fat[c] ELSE diskFat[c]]
-----------------------------------------------------------------------------
Create(name) ==
    /\ pc = "idle" /\ Matches(name) = {}
    /\ LET free == {s \in Slots : dir[s].name = NoName} IN
       \/ /\ free = {}
          /\ Stop("panic") /\ UNCHANGED dirents
       \/ \E s \in free :
             /\ First(s, free)
             /\ dirents' = [dir EXCEPT ![s] = [name |-> name, size |-> 0, start |-> 0]]
             /\ WriteDirectory
    /\ UNCHANGED <<fat, card>>

Rename(oldname, newname) ==
    /\ pc = "idle"
    /\ "rename_over" \in Calls \/ \A s \in Slots : dir[s].name # newname
    /\ \E s \in Matches(oldname) :
          /\ First(s, Matches(oldname))
          /\ dirents' = [dir EXCEPT ![s].name = newname]
    /\ WriteDirectory
    /\ UNCHANGED <<fat, card>>

\* fat32_delete sets the first byte of the name to 0xE5 and leaves the size and
\* the cluster number in the dirent; nobody reads them there again, so that a
\* free dirent has one form here.
Delete(name) ==
    /\ pc = "idle"
    /\ \E s \in Matches(name) :
          /\ First(s, Matches(name))
          /\ dirents' = [dir EXCEPT ![s] = FreeDirent]
          /\ IF HasChain(dir[s].start)
               THEN Enter("free", "dir", dir[s].start, 0, NoPayload)
               ELSE WriteDirectory
    /\ UNCHANGED <<fat, card>>

\* The loop of fat32_delete: frees the chain, in memory.
FreeStep ==
    /\ pc = "free" /\ cur \in DOMAIN fat
    /\ fat' = [fat EXCEPT ![cur] = FREE]
    /\ IF EndsChain(fat[cur])
         THEN WriteDirectory /\ UNCHANGED dirents
         ELSE cur' = fat[cur] /\ UNCHANGED <<pc, dirents, what, left, offset, payload, sec>>
    /\ UNCHANGED card

Truncate(name, length) ==
    /\ pc = "idle"
    /\ \E s \in Matches(name) :
          /\ First(s, Matches(name))
          /\ "truncate_to_zero" \in Calls \/ length > 0
          /\ "truncate_beyond" \in Calls \/ length <= dir[s].size
          /\ dirents' = [dir EXCEPT ![s].size = length]
          /\ Enter("cut", "dir", dir[s].start, length, NoPayload)
    /\ UNCHANGED <<fat, card>>

\* The loop of fat32_truncate: ends the chain, then frees what follows.
CutStep ==
    /\ pc = "cut" /\ cur \in DOMAIN fat
    /\ fat' = IF CutsHere THEN [fat EXCEPT ![cur] = IF left > 0 THEN LAST ELSE FREE]
                            ELSE fat
    /\ IF EndsChain(fat[cur])
         THEN WriteDirectory /\ UNCHANGED dirents
         ELSE /\ cur' = fat[cur]
              /\ left' = left - BytesWrite
              /\ UNCHANGED <<pc, dirents, what, offset, payload, sec>>
    /\ UNCHANGED card

Write(name, length, bytes) ==
    /\ pc = "idle"
    /\ \E s \in Matches(name) :
          /\ First(s, Matches(name))
          /\ LET sized == [dir EXCEPT ![s].size = length] IN
             \/ /\ length = 0
                /\ dirents' = sized /\ WriteDirectory
                /\ UNCHANGED fat
             \/ /\ length > 0 /\ dir[s].start # 0
                /\ dirents' = sized
                /\ Enter("write", "file", dir[s].start, length, bytes)
                /\ UNCHANGED fat
             \/ /\ length > 0 /\ dir[s].start = 0
                /\ \E c \in FreeFrom(3) :
                      /\ First(c, FreeFrom(3))
                      /\ fat' = [fat EXCEPT ![c] = LAST]
                      /\ dirents' = [sized EXCEPT ![s].start = c]
                      /\ Enter("write", "file", c, length, bytes)
             \/ /\ length > 0 /\ dir[s].start = 0 /\ FreeFrom(3) = {}
                /\ Stop("panic")
                /\ UNCHANGED <<fat, dirents>>
    /\ UNCHANGED card
-----------------------------------------------------------------------------
\* The bytes that pi_sd_write puts on the card in one iteration.
WriteBlock ==
    IF what = "file"
      THEN /\ data' = [data EXCEPT ![cur] = [of |-> payload, n |-> offset + 1]]
           /\ UNCHANGED dir
      ELSE /\ dir' = [s \in Slots |-> IF BlockOf(s) = offset + 1
                                        THEN dirents[s] ELSE dir[s]]
           /\ UNCHANGED data

\* write_cluster_chain, the block that uses up the buffer: it ends the chain.
WriteLastBlock ==
    /\ pc = "write" /\ cur \in Clusters /\ left = 1
    /\ WriteBlock
    /\ fat' = [fat EXCEPT ![cur] = LAST]
    /\ IF EndsChain(fat[cur])
         THEN pc' = "sync" /\ cur' = 0
         ELSE pc' = "tail" /\ cur' = fat[cur]
    /\ left' = 0
    /\ UNCHANGED <<diskFat, dirents, what, offset, payload, sec>>

\* A block with more to follow, where the chain goes on.
WriteNextBlock ==
    /\ pc = "write" /\ cur \in Clusters /\ left > 1 /\ ~EndsChain(fat[cur])
    /\ WriteBlock
    /\ cur' = fat[cur] /\ left' = left - 1 /\ offset' = offset + 1
    /\ UNCHANGED <<fat, diskFat, pc, dirents, what, payload, sec>>

\* A block with more to follow, where the chain ends: it is extended.
WriteAndExtend ==
    /\ pc = "write" /\ cur \in Clusters /\ left > 1 /\ EndsChain(fat[cur])
    /\ WriteBlock
    /\ \/ \E c \in FreeFrom(cur) :
             /\ First(c, FreeFrom(cur))
             /\ fat' = [fat EXCEPT ![cur] = c, ![c] = LAST]
             /\ cur' = c /\ left' = left - 1 /\ offset' = offset + 1
             /\ UNCHANGED <<pc, dirents, what, payload, sec>>
       \/ /\ FreeFrom(cur) = {}
          /\ Stop("panic") /\ dirents' = dir'
          /\ UNCHANGED fat
    /\ UNCHANGED diskFat

\* The loop that frees the tail of a chain longer than the buffer.
TailStep ==
    /\ pc = "tail" /\ cur \in DOMAIN fat
    /\ fat' = [fat EXCEPT ![cur] = FREE]
    /\ IF EndsChain(fat[cur]) THEN pc' = "sync" /\ cur' = 0
                              ELSE cur' = fat[cur] /\ UNCHANGED pc
    /\ UNCHANGED <<card, dirents, what, left, offset, payload, sec>>

\* write_fat_to_disk, one sector; after the last one write_cluster_chain
\* returns to its caller.
SyncStep ==
    /\ pc = "sync"
    /\ diskFat' = SyncedFat
    /\ IF sec + 1 < NSectors
         THEN sec' = sec + 1 /\ UNCHANGED <<pc, dirents, what, cur, left, offset, payload>>
         ELSE IF what = "file" THEN WriteDirectory /\ UNCHANGED dirents
                               ELSE Stop("idle") /\ dirents' = dir
    /\ UNCHANGED <<fat, dir, data>>

\* cluster_to_lba asserts that its cluster is not below 2.
LbaAssertFails ==
    /\ pc = "write" /\ cur < 2
    /\ Stop("panic") /\ dirents' = dir
    /\ UNCHANGED <<fat, card>>
-----------------------------------------------------------------------------
\* fat32_mk, at the next boot: the FAT is what the card holds.
Boot ==
    /\ fat' = diskFat
    /\ Stop("idle") /\ dirents' = dir
    /\ UNCHANGED card

\* The power fails within a call.  Without TearResumed the story ends with a
\* failure between two sectors of the FAT: what the card holds there is still
\* a state, but no boot follows on it.
PowerLoss ==
    /\ PowerLossAllowed /\ pc \notin {"idle", "panic"} /\ (sec = 0 \/ TearResumed)
    /\ Boot
Restart   == pc = "panic" /\ Boot

Begin ==
    \/ \E name \in Names : Create(name)
    \/ \E oldname, newname \in Names : Rename(oldname, newname)
    \/ \E name \in Names : Delete(name)
    \/ \E name \in Names, length \in 0 .. MaxLength : Truncate(name, length)
    \/ \E name \in Names, length \in 0 .. MaxLength, bytes \in Payloads :
          Write(name, length, bytes)

Step ==
    \/ FreeStep \/ CutStep
    \/ WriteLastBlock \/ WriteNextBlock \/ WriteAndExtend \/ TailStep \/ SyncStep
    \/ LbaAssertFails

Next == Begin \/ Step \/ PowerLoss \/ Restart

Spec == Init /\ [][Next]_vars

\* The processor keeps executing a call it has begun: nothing preempts it.
FairSpec == Spec /\ WF_vars(Step)
-----------------------------------------------------------------------------
(***************************************************************************)
(* Correctness.  A view (f, d) of the volume is a FAT and a directory: the *)
(* running call works on (fat, dirents), the next boot finds (diskFat, dir)*)
(***************************************************************************)
InUse(f, c) == c \in Clusters \ DirClusters /\ f[c] \notin {FREE, BAD}

\* What a FAT entry or a dirent points to is in use, by a file.
NoDangling(f, d) ==
    /\ \A p \in Clusters \ DirClusters : f[p] \in Clusters => InUse(f, f[p])
    /\ \A s \in Slots : d[s].start # 0 => InUse(f, d[s].start)

\* No two pointers lead to the same cluster.
NoSharing(f, d) ==
    /\ \A p, q \in Clusters : f[p] \in Clusters /\ f[p] = f[q] => p = q
    /\ \A s, t \in Slots : d[s].start # 0 /\ d[s].start = d[t].start => s = t
    /\ \A s \in Slots, p \in Clusters : f[p] \in Clusters => d[s].start # f[p]

DirChainKept(f) ==
    \A i \in DOMAIN DirChain : f[DirChain[i]] = AfterInDir(i)

Sound(f, d) == NoDangling(f, d) /\ NoSharing(f, d)

\* The loops that free clusters hold the head of what is left to free in cur.
Freeing == pc \in {"free", "tail"} \/ (pc = "cut" /\ left = 0)

Unreferenced(f, d, c) ==
    /\ \A p \in Clusters : f[p] # c
    /\ \A s \in Slots : d[s].start # c

\* Whatever the running call has done to the FAT in memory, no file's chain
\* leads into a free cluster or into another file's chain, and what the loops
\* of fat32_delete, fat32_truncate and write_cluster_chain are about to free
\* belongs to no file any more.
MemorySound ==
    /\ Sound(fat, dirents)
    /\ Freeing => InUse(fat, cur) /\ Unreferenced(fat, dirents, cur)

\* Should the power fail, at any instant but between two sectors of a FAT that
\* is being written (fat32.c:304), the FAT and the directory on the card agree:
\* no file that the next boot finds leads into a free cluster or shares one
\* with another.  This is about the order in which fat32_write, fat32_delete
\* and fat32_truncate sync the FAT and the directory.
DiskSound == sec = 0 => Sound(diskFat, dir)

\* The root directory keeps its clusters, in memory and on the card, and no
\* block of a file is written over it (write_cluster_chain serves both).
DirIntact ==
    /\ DirChainKept(fat) /\ DirChainKept(diskFat)
    /\ pc = "write" => IF what = "dir" THEN cur = DirChain[offset + 1]
                                       ELSE cur \notin DirClusters

\* No two dirents carry the same name with an extension, during a call or
\* after a power failure (fat32_create's check, fat32_rename's missing one).
UniqueDottedNames ==
    \A d \in {dir, dirents} : \A s, t \in Slots :
        d[s].name = d[t].name /\ d[s].name \in DottedNames => s = t

\* The same of every valid name: "make sure there isn't already a file with
\* the same name" (fat32.c:430).
UniqueNames ==
    \A s, t \in Slots : dir[s].name = dir[t].name /\ dir[s].name \in Names => s = t

\* The k-th cluster of the chain that starts at c, counting from 0.
Walk(f, c) ==
    LET w[k \in 0 .. NEntries] ==
          IF k = 0 THEN c ELSE IF w[k-1] \in Clusters THEN f[w[k-1]] ELSE LAST
    IN  w

Files(d) == {s \in Slots : d[s].name # NoName}

\* Between calls a file's chain has at least the clusters its size asks for:
\* fat32_read hands out the size of the dirent with a buffer of the chain's.
SizeBacked ==
    pc = "idle" => \A s \in Files(dir) : \A k \in 0 .. dir[s].size - 1 :
                       Walk(fat, dir[s].start)[k] \in Clusters

\* Between calls every cluster in use is one of a file's chain: no call loses
\* clusters of the card.
NoLeak ==
    pc = "idle" => \A c \in Clusters : InUse(fat, c) =>
        \E s \in Files(dir), k \in 0 .. NEntries : Walk(fat, dir[s].start)[k] = c

\* "Special case: the file is empty to start with, so we need to update the
\* start cluster in the dirent" (fat32.c:570-571): a file that fat32_write
\* writes to, empty before or not, owns the cluster it writes.
WritesOwnClusters == pc = "write" /\ what = "file" => InUse(fat, cur)

\* find_free_cluster: "Start from cluster 3. Panic if there are none left."
\* (fat32.c:281).
PanicOnlyWhenFull == [][WriteAndExtend /\ pc' = "panic" => FreeFrom(3) = {}]_vars

\* Every call returns or panics: none of the loops over the FAT runs forever.
CallsEnd == []<>(pc \in {"idle", "panic"})
=============================================================================
