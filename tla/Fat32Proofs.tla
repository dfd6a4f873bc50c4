----------------------------- MODULE Fat32Proofs -----------------------------
(***************************************************************************)
(* Theorems about the FAT32 driver, for every geometry, every set of names *)
(* and every length.  In this order: the state is well formed; the root    *)
(* directory stays intact; no two files share a cluster and no chain leads *)
(* into a free one; no two files have one name; every cluster of a file is *)
(* at its place, so that sizes are backed and no cluster is lost; and the  *)
(* driver implements the store of files that its callers rely on.          *)
(***************************************************************************)
EXTENDS Fat32Files, FiniteSetTheorems, TLAPS

\* What the assumptions say of the chain of the root directory.
LEMMA DirChainFacts ==
    /\ DOMAIN DirChain = 1 .. Len(DirChain)
    /\ Len(DirChain) \in Nat \ {0}
    /\ \A i \in 1 .. Len(DirChain) : DirChain[i] \in Clusters
    /\ \A i \in 1 .. Len(DirChain) : DirChain[i] \in DirClusters
    /\ DirChain[1] \in Clusters /\ DirChain[1] \in DirClusters
    /\ DirClusters \subseteq Clusters
<1>1. DOMAIN DirChain = 1 .. Len(DirChain) /\ Len(DirChain) \in Nat \ {0}
    BY DirAssumption
<1>2. \A i \in 1 .. Len(DirChain) : DirChain[i] \in Clusters
    BY DirAssumption
<1>3. \A i \in 1 .. Len(DirChain) : DirChain[i] \in DirClusters
    BY <1>1 DEF DirClusters
<1>4. 1 \in 1 .. Len(DirChain)
    BY <1>1
<1> QED
    BY <1>1, <1>2, <1>3, <1>4 DEF DirClusters

\* The clusters are FAT indices; no end-of-chain, bad or free value is one.
LEMMA ClusterFacts ==
    /\ NEntries \in Nat
    /\ Clusters \subseteq 0 .. NEntries - 1
    /\ Clusters \subseteq Entries
    /\ {FREE, LAST, BAD} \subseteq Entries
    /\ FREE \notin Clusters /\ LAST \notin Clusters /\ BAD \notin Clusters
    /\ FREE # LAST /\ NEntries > 2
BY GeometryAssumption, DirChainFacts DEF Clusters, Entries, FREE, LAST, BAD

\* The root directory's chain stays inside the directory.
LEMMA AfterInDirFacts ==
    ASSUME NEW i \in DOMAIN DirChain
    PROVE  /\ AfterInDir(i) \in Entries
           /\ i < Len(DirChain) => AfterInDir(i) \in DirClusters
           /\ AfterInDir(i) # FREE
<1>1. CASE i = Len(DirChain)
    BY <1>1, ClusterFacts DEF AfterInDir
<1>2. CASE i # Len(DirChain)
    <2>1. i + 1 \in DOMAIN DirChain
        BY <1>2, DirChainFacts
    <2>2. AfterInDir(i) = DirChain[i + 1]
        BY <1>2 DEF AfterInDir
    <2> QED
        BY <2>1, <2>2, DirChainFacts, ClusterFacts DEF DirClusters
<1> QED
    BY <1>1, <1>2

\* The FAT of a formatted card is a FAT, with the root directory's chain in it.
LEMMA FormattedFatFacts ==
    /\ FormattedFat \in [0 .. NEntries - 1 -> Entries]
    /\ DirChainKept(FormattedFat)
<1>1. ASSUME NEW c \in DirClusters
      PROVE  /\ (CHOOSE i \in DOMAIN DirChain : DirChain[i] = c) \in DOMAIN DirChain
             /\ DirChain[CHOOSE i \in DOMAIN DirChain : DirChain[i] = c] = c
    BY DEF DirClusters
<1>2. ASSUME NEW c \in 0 .. NEntries - 1
      PROVE  FormattedFat[c] \in Entries
    BY <1>1, ClusterFacts, AfterInDirFacts DEF FormattedFat
<1>3. ASSUME NEW i \in DOMAIN DirChain
      PROVE  FormattedFat[DirChain[i]] = AfterInDir(i)
    <2> DEFINE c == DirChain[i]
    <2>1. c \in DirClusters /\ c \in 0 .. NEntries - 1 /\ ~(c < 2) /\ c \notin BadClusters
        BY DirAssumption, DirChainFacts, GeometryAssumption DEF DirClusters, Clusters
    <2>2. (CHOOSE j \in DOMAIN DirChain : DirChain[j] = c) = i
        BY <1>1, <2>1, DirAssumption
    <2> QED
        BY <2>1, <2>2 DEF FormattedFat
<1> QED
    BY <1>2, <1>3 DEF FormattedFat, DirChainKept

-----------------------------------------------------------------------------
(***************************************************************************)
(* Type correctness.  That the blocks written to the card are well-formed  *)
(* needs more than TypeOK: inside write_cluster_chain's loop there is      *)
(* something left to write, and it fits the longest file.                  *)
(***************************************************************************)
Writing ==
    pc = "write" =>
        /\ left >= 1
        /\ what = "file" => payload \in Payloads /\ offset + left <= MaxLength

TypeInv == TypeOK /\ Writing

LEMMA TypeInit == Init => TypeInv
<1> SUFFICES ASSUME Init PROVE TypeInv
    OBVIOUS
<1>1. FreeDirent \in Dirent
    BY GeometryAssumption DEF FreeDirent, Dirent
<1>2. dir \in [Slots -> Dirent] /\ dirents \in [Slots -> Dirent]
    BY <1>1 DEF Init
<1>3. data \in [Clusters -> Block \union {NoBlock}]
    BY DEF Init
<1> QED
    BY <1>2, <1>3, FormattedFatFacts, ClusterFacts DEF Init, TypeInv, TypeOK, Writing, FREE

(***************************************************************************)
(* How a call begins, in all that the proofs need to know of it: slot s of *)
(* the directory becomes e in the call's copy of it.                       *)
(***************************************************************************)
Panics == Stop("panic") /\ UNCHANGED <<fat, dirents>>

Replaces(s, e) ==
    /\ s \in Slots /\ e \in Dirent
    /\ (e.name = NoName => e = FreeDirent)
    /\ dirents' = [dir EXCEPT ![s] = e]

\* Create, Rename, Write of nothing, Delete of an empty file.
BeginsDir(s, e) ==
    /\ Replaces(s, e) /\ e.start \in {0, dir[s].start} /\ e.size \in {0, dir[s].size}
    /\ (e.start # dir[s].start => dir[s].name = NoName)
    /\ WriteDirectory /\ UNCHANGED fat

\* Delete of a file with clusters.
BeginsFree(s, e) ==
    /\ Replaces(s, e) /\ e.start = 0 /\ dir[s].start # 0 /\ e.size = 0
    /\ Enter("free", "dir", dir[s].start, 0, NoPayload) /\ UNCHANGED fat

BeginsCut(s, e, n) ==
    /\ Replaces(s, e) /\ e.start = dir[s].start
    /\ n \in 0 .. MaxLength /\ e.size = n
    /\ (n = 0 => "truncate_to_zero" \in Calls)
    /\ (n > dir[s].size => "truncate_beyond" \in Calls)
    /\ Enter("cut", "dir", dir[s].start, n, NoPayload) /\ UNCHANGED fat

\* Write to a file with clusters.
BeginsFile(s, e, n, p) ==
    /\ Replaces(s, e) /\ e.start = dir[s].start /\ dir[s].start # 0
    /\ n \in 1 .. MaxLength /\ e.size = n /\ p \in Payloads
    /\ Enter("write", "file", dir[s].start, n, p) /\ UNCHANGED fat

\* Write to a file without.
BeginsNewFile(s, e, c, n, p) ==
    /\ Replaces(s, e) /\ e.start = c /\ dir[s].start = 0
    /\ c \in Clusters /\ fat[c] = FREE /\ fat' = [fat EXCEPT ![c] = LAST]
    /\ n \in 1 .. MaxLength /\ e.size = n /\ p \in Payloads
    /\ Enter("write", "file", c, n, p)

\* Two directories differ in one slot at most.
OneChange(d, e) == \A s, t \in Slots : d[s] # e[s] /\ d[t] # e[t] => s = t

LEMMA BeginEffect ==
    ASSUME TypeOK, Begin
    PROVE  /\ pc = "idle" /\ UNCHANGED card
           /\ \/ Panics
              \/ \E s, e : BeginsDir(s, e) \/ BeginsFree(s, e)
              \/ \E s, e, n : BeginsCut(s, e, n)
              \/ \E s, e, n, p : BeginsFile(s, e, n, p)
              \/ \E s, e, c, n, p : BeginsNewFile(s, e, c, n, p)
<1> USE DEF Replaces
<1>0. NoName \notin Names /\ \A s \in Slots : dir[s] \in Dirent
    BY NameAssumption DEF TypeOK
<1>1. ASSUME NEW name \in Names, Create(name)
      PROVE  Panics \/ \E s, e : BeginsDir(s, e)
    <2>1. CASE Stop("panic") /\ UNCHANGED dirents
        BY <1>1, <2>1 DEF Create, Panics
    <2>2. CASE \E s \in Slots :
                  /\ dir[s].name = NoName
                  /\ dirents' = [dir EXCEPT ![s] = [name |-> name, size |-> 0, start |-> 0]]
                  /\ WriteDirectory
        <3> DEFINE e == [name |-> name, size |-> 0, start |-> 0]
        <3>1. e \in Dirent /\ e.start = 0 /\ e.size = 0 /\ e.name # NoName
            BY <1>0, GeometryAssumption DEF Dirent
        <3>2. PICK s \in Slots :
                  dir[s].name = NoName /\ dirents' = [dir EXCEPT ![s] = e] /\ WriteDirectory
            BY <2>2
        <3> HIDE DEF e
        <3>3. BeginsDir(s, e)
            BY <1>1, <3>1, <3>2 DEF Create, BeginsDir
        <3> QED
            BY <3>3
    <2> QED
        BY <1>1, <2>1, <2>2 DEF Create
<1>2. ASSUME NEW oldname \in Names, NEW newname \in Names, Rename(oldname, newname)
      PROVE  \E s, e : BeginsDir(s, e)
    <2>1. PICK s \in Slots : dirents' = [dir EXCEPT ![s].name = newname]
        BY <1>2 DEF Rename, Matches
    <2> DEFINE e == [dir[s] EXCEPT !.name = newname]
    <2>2. dir[s] \in Dirent
        BY DEF TypeOK
    <2>3. /\ e \in Dirent /\ e.start = dir[s].start /\ e.size = dir[s].size
          /\ e.name # NoName
        BY <1>0, <2>2 DEF Dirent
    <2>4. dirents' = [dir EXCEPT ![s] = e]
        BY <2>1
    <2> HIDE DEF e
    <2>5. BeginsDir(s, e)
        BY <1>2, <2>3, <2>4 DEF Rename, BeginsDir
    <2> QED
        BY <2>5
<1>3. ASSUME NEW name \in Names, Delete(name)
      PROVE  \E s, e : BeginsDir(s, e) \/ BeginsFree(s, e)
    <2>1. PICK s \in Slots :
              /\ dirents' = [dir EXCEPT ![s] = FreeDirent]
              /\ IF HasChain(dir[s].start)
                   THEN Enter("free", "dir", dir[s].start, 0, NoPayload)
                   ELSE WriteDirectory
        BY <1>3 DEF Delete, Matches
    <2>2. FreeDirent \in Dirent /\ FreeDirent.start = 0 /\ FreeDirent.size = 0
        BY GeometryAssumption DEF Dirent, FreeDirent
    <2>3. CASE HasChain(dir[s].start)
        <3>1. dir[s].start # 0
            BY <2>3 DEF HasChain
        <3>2. UNCHANGED fat
            BY <1>3 DEF Delete
        <3>3. BeginsFree(s, FreeDirent)
            BY <2>1, <2>2, <2>3, <3>1, <3>2 DEF BeginsFree
        <3> QED
            BY <3>3
    <2>4. CASE ~HasChain(dir[s].start)
        <3>1. dir[s].start = 0
            BY <1>0, <2>4 DEF HasChain, Dirent, Clusters
        <3>2. BeginsDir(s, FreeDirent)
            BY <1>3, <2>1, <2>2, <2>4, <3>1 DEF Delete, BeginsDir
        <3> QED
            BY <3>2
    <2> QED
        BY <2>3, <2>4
<1>4. ASSUME NEW name \in Names, NEW length \in 0 .. MaxLength, Truncate(name, length)
      PROVE  \E s, e, n : BeginsCut(s, e, n)
    <2>1. PICK s \in Slots :
              /\ dir[s].name = name
              /\ "truncate_to_zero" \in Calls \/ length > 0
              /\ "truncate_beyond" \in Calls \/ length <= dir[s].size
              /\ dirents' = [dir EXCEPT ![s].size = length]
              /\ Enter("cut", "dir", dir[s].start, length, NoPayload)
        BY <1>4 DEF Truncate, Matches
    <2> DEFINE e == [dir[s] EXCEPT !.size = length]
    <2>2. /\ e \in Dirent /\ e.start = dir[s].start /\ e.size = length
          /\ e.name # NoName
        BY <1>0, <2>1 DEF Dirent
    <2>3. dirents' = [dir EXCEPT ![s] = e]
        BY <2>1
    <2>4. /\ length = 0 => "truncate_to_zero" \in Calls
          /\ length > dir[s].size => "truncate_beyond" \in Calls
        BY <1>0, <2>1, GeometryAssumption DEF Dirent
    <2>5. UNCHANGED fat
        BY <1>4 DEF Truncate
    <2> HIDE DEF e
    <2>6. BeginsCut(s, e, length)
        BY <2>1, <2>2, <2>3, <2>4, <2>5 DEF BeginsCut
    <2> QED
        BY <2>6
<1>5. ASSUME NEW name \in Names, NEW length \in 0 .. MaxLength,
             NEW bytes \in Payloads, Write(name, length, bytes)
      PROVE  \/ Panics
             \/ \E s, e : BeginsDir(s, e)
             \/ \E s, e, n, p : BeginsFile(s, e, n, p)
             \/ \E s, e, c, n, p : BeginsNewFile(s, e, c, n, p)
    <2>1. PICK s \in Slots : dir[s].name = name /\
              LET sized == [dir EXCEPT ![s].size = length] IN
              \/ length = 0 /\ dirents' = sized /\ WriteDirectory /\ UNCHANGED fat
              \/ /\ length > 0 /\ dir[s].start # 0 /\ dirents' = sized
                 /\ Enter("write", "file", dir[s].start, length, bytes)
                 /\ UNCHANGED fat
              \/ /\ length > 0 /\ dir[s].start = 0
                 /\ \E c \in FreeFrom(3) :
                       /\ fat' = [fat EXCEPT ![c] = LAST]
                       /\ dirents' = [sized EXCEPT ![s].start = c]
                       /\ Enter("write", "file", c, length, bytes)
              \/ Stop("panic") /\ UNCHANGED <<fat, dirents>>
        BY <1>5 DEF Write, Matches
    <2> DEFINE e == [dir[s] EXCEPT !.size = length]
    <2>2. /\ e \in Dirent /\ e.start = dir[s].start /\ e.size = length
          /\ e.name # NoName
        BY <1>0, <2>1 DEF Dirent
    <2>3. [dir EXCEPT ![s].size = length] = [dir EXCEPT ![s] = e]
        OBVIOUS
    <2>4. CASE /\ length = 0 /\ dirents' = [dir EXCEPT ![s].size = length]
               /\ WriteDirectory /\ UNCHANGED fat
        <3> HIDE DEF e
        <3>1. BeginsDir(s, e)
            BY <2>2, <2>3, <2>4 DEF BeginsDir
        <3> QED
            BY <3>1
    <2>5. CASE /\ length > 0 /\ dir[s].start # 0
               /\ dirents' = [dir EXCEPT ![s].size = length]
               /\ Enter("write", "file", dir[s].start, length, bytes)
               /\ UNCHANGED fat
        <3> HIDE DEF e
        <3>1. BeginsFile(s, e, length, bytes)
            BY <2>2, <2>3, <2>5 DEF BeginsFile
        <3> QED
            BY <3>1
    <2>6. ASSUME length > 0, dir[s].start = 0, NEW c \in FreeFrom(3),
                 fat' = [fat EXCEPT ![c] = LAST],
                 dirents' = [[dir EXCEPT ![s].size = length] EXCEPT ![s].start = c],
                 Enter("write", "file", c, length, bytes)
          PROVE  \E s1, e1, c1, n, p : BeginsNewFile(s1, e1, c1, n, p)
        <3> DEFINE e2 == [e EXCEPT !.start = c]
        <3>1. c \in Clusters /\ fat[c] = FREE
            BY <2>6 DEF FreeFrom, Clusters
        <3>2. /\ e2 \in Dirent /\ e2.start = c /\ e2.size = length
              /\ e2.name # NoName
            BY <2>2, <3>1 DEF Dirent
        <3>3. dirents' = [dir EXCEPT ![s] = e2]
            BY <2>6 DEF TypeOK
        <3>4. length \in 1 .. MaxLength
            BY <2>6
        <3> HIDE DEF e2
        <3>5. BeginsNewFile(s, e2, c, length, bytes)
            BY <2>6, <3>1, <3>2, <3>3, <3>4 DEF BeginsNewFile
        <3> QED
            BY <3>5
    <2> QED
        BY <2>1, <2>4, <2>5, <2>6 DEF Panics
<1>6. pc = "idle" /\ UNCHANGED card
    BY DEF Begin, Create, Rename, Delete, Truncate, Write
<1> QED
    BY <1>1, <1>2, <1>3, <1>4, <1>5, <1>6 DEF Begin

\* The locals with which write_cluster_chain starts on the directory.
LEMMA WriteDirectoryLocals ==
    ASSUME WriteDirectory
    PROVE  /\ pc' = "write" /\ what' = "dir" /\ offset' = 0 /\ sec' = 0
           /\ cur' = DirChain[1] /\ cur' \in DirClusters /\ cur' \in Entries
           /\ left' = Len(DirChain) /\ left' \in Nat /\ left' >= 1
           /\ payload' = NoPayload
<1>1. /\ pc' = "write" /\ what' = "dir" /\ offset' = 0 /\ sec' = 0
      /\ cur' = DirChain[1] /\ left' = Len(DirChain) /\ payload' = NoPayload
    BY DEF WriteDirectory, Enter
<1>2. cur' \in DirClusters /\ cur' \in Entries
    BY <1>1, DirChainFacts, ClusterFacts
<1>3. left' \in Nat /\ left' >= 1
    BY <1>1, DirChainFacts
<1> QED
    BY <1>1, <1>2, <1>3

LEMMA BeginType == TypeInv /\ Begin => TypeInv'
<1> SUFFICES ASSUME TypeOK, Writing, Begin PROVE TypeInv'
    BY DEF TypeInv
<1>1. UNCHANGED <<diskFat, dir, data>>
    BY BeginEffect DEF card
<1>2. ASSUME NEW s, NEW e, Replaces(s, e)
      PROVE  /\ dirents' \in [Slots -> Dirent]
             /\ dir[s].start \in Entries
    <2>1. dir[s] \in Dirent
        BY <1>2 DEF Replaces, TypeOK
    <2> QED
        BY <1>2, <2>1, ClusterFacts DEF Replaces, TypeOK, Dirent, FREE
<1>3. CASE Panics
    BY <1>1, <1>3, ClusterFacts DEF Panics, Stop, Enter, TypeInv, TypeOK, Writing, FREE
<1>4. ASSUME NEW s, NEW e, BeginsDir(s, e)
      PROVE  TypeInv'
    BY <1>1, <1>2, <1>4, WriteDirectoryLocals DEF BeginsDir, TypeInv, TypeOK, Writing
<1>5. ASSUME NEW s, NEW e, BeginsFree(s, e)
      PROVE  TypeInv'
    BY <1>1, <1>2, <1>5 DEF BeginsFree, Enter, TypeInv, TypeOK, Writing
<1>6. ASSUME NEW s, NEW e, NEW n, BeginsCut(s, e, n)
      PROVE  TypeInv'
    BY <1>1, <1>2, <1>6, GeometryAssumption DEF BeginsCut, Enter, TypeInv, TypeOK, Writing
<1>7. ASSUME NEW s, NEW e, NEW n, NEW p, BeginsFile(s, e, n, p)
      PROVE  TypeInv'
    BY <1>1, <1>2, <1>7, GeometryAssumption DEF BeginsFile, Enter, TypeInv, TypeOK, Writing
<1>8. ASSUME NEW s, NEW e, NEW c, NEW n, NEW p, BeginsNewFile(s, e, c, n, p)
      PROVE  TypeInv'
    BY <1>1, <1>2, <1>8, GeometryAssumption, ClusterFacts
    DEF BeginsNewFile, Enter, TypeInv, TypeOK, Writing
<1> QED
    BY <1>3, <1>4, <1>5, <1>6, <1>7, <1>8, BeginEffect

\* What one iteration of write_cluster_chain puts on the card is well formed.
LEMMA WriteBlockType ==
    ASSUME TypeInv, pc = "write", WriteBlock, cur \in Clusters
    PROVE  /\ data' \in [Clusters -> Block \union {NoBlock}]
           /\ dir' \in [Slots -> Dirent]
<1>1. CASE what = "file"
    <2>1. [of |-> payload, n |-> offset + 1] \in Block
        BY <1>1, GeometryAssumption DEF TypeInv, TypeOK, Writing, Block
    <2> QED
        BY <1>1, <2>1 DEF WriteBlock, TypeInv, TypeOK
<1>2. CASE what # "file"
    BY <1>2 DEF WriteBlock, TypeInv, TypeOK
<1> QED
    BY <1>1, <1>2

LEMMA StepType == TypeInv /\ Step => TypeInv'
<1> SUFFICES ASSUME TypeInv, Step PROVE TypeInv'
    OBVIOUS
<1> USE DEF TypeInv
<1>1. CASE FreeStep
    BY <1>1, WriteDirectoryLocals, ClusterFacts DEF FreeStep, TypeOK, Writing, card
<1>2. CASE CutStep
    <2>1. left - BytesWrite \in Nat
        BY DEF TypeOK, BytesWrite
    <2>2. fat' \in [0 .. NEntries - 1 -> Entries]
        BY <1>2, ClusterFacts DEF CutStep, TypeOK
    <2> QED
        BY <1>2, <2>1, <2>2, WriteDirectoryLocals DEF CutStep, TypeOK, Writing, card
<1>3. CASE WriteLastBlock
    <2>1. cur' \in Entries
        BY <1>3, ClusterFacts DEF WriteLastBlock, TypeOK, FREE
    <2> QED
        BY <1>3, <2>1, WriteBlockType, ClusterFacts DEF WriteLastBlock, TypeOK, Writing
<1>4. CASE WriteNextBlock
    <2>1. pc = "write" /\ left > 1 /\ WriteBlock /\ cur \in Clusters
          /\ UNCHANGED <<fat, diskFat, pc, dirents, what, payload, sec>>
          /\ cur' = fat[cur] /\ left' = left - 1 /\ offset' = offset + 1
        BY <1>4 DEF WriteNextBlock
    <2>2. data' \in [Clusters -> Block \union {NoBlock}] /\ dir' \in [Slots -> Dirent]
        BY <2>1, WriteBlockType
    <2>3. cur' \in Entries
        BY <2>1, ClusterFacts DEF TypeOK
    <2>4. left' \in Nat /\ offset' \in Nat /\ left' >= 1
        BY <2>1 DEF TypeOK
    <2>5. what = "file" => offset' + left' <= MaxLength
        BY <2>1, GeometryAssumption DEF TypeOK, Writing
    <2> QED
        BY <2>1, <2>2, <2>3, <2>4, <2>5 DEF TypeOK, Writing
<1>5. CASE WriteAndExtend
    <2>1. ASSUME NEW c \in FreeFrom(cur),
                 fat' = [fat EXCEPT ![cur] = c, ![c] = LAST],
                 cur' = c /\ left' = left - 1 /\ offset' = offset + 1,
                 UNCHANGED <<pc, dirents, what, payload, sec>>
          PROVE  TypeInv'
        <3>1. c \in Clusters /\ c \in Entries
            BY ClusterFacts DEF FreeFrom, Clusters
        <3>2. fat' \in [0 .. NEntries - 1 -> Entries]
            BY <2>1, <3>1, ClusterFacts DEF TypeOK
        <3>3. pc = "write" /\ left > 1 /\ WriteBlock /\ cur \in Clusters /\ UNCHANGED diskFat
            BY <1>5 DEF WriteAndExtend
        <3>4. data' \in [Clusters -> Block \union {NoBlock}] /\ dir' \in [Slots -> Dirent]
            BY <3>3, WriteBlockType
        <3> QED
            BY <2>1, <3>1, <3>2, <3>3, <3>4 DEF TypeOK, Writing
    <2>2. CASE Stop("panic") /\ dirents' = dir' /\ UNCHANGED fat
        BY <1>5, <2>2, WriteBlockType, ClusterFacts
        DEF WriteAndExtend, Stop, Enter, TypeOK, Writing, FREE
    <2> QED
        BY <1>5, <2>1, <2>2 DEF WriteAndExtend
<1>6. CASE TailStep
    BY <1>6, ClusterFacts DEF TailStep, TypeOK, Writing, card, FREE
<1>7. CASE SyncStep
    <2>1. diskFat' \in [0 .. NEntries - 1 -> Entries]
        BY <1>7 DEF SyncStep, SyncedFat, TypeOK
    <2>2. CASE sec' = sec + 1 /\ UNCHANGED <<pc, dirents, what, cur, left, offset, payload>>
        BY <1>7, <2>1, <2>2 DEF SyncStep, TypeOK, Writing
    <2>3. CASE WriteDirectory /\ UNCHANGED dirents
        BY <1>7, <2>1, <2>3, WriteDirectoryLocals DEF SyncStep, TypeOK, Writing
    <2>4. CASE Stop("idle") /\ dirents' = dir
        BY <1>7, <2>1, <2>4, ClusterFacts DEF SyncStep, Stop, Enter, TypeOK, Writing, FREE
    <2> QED
        BY <1>7, <2>2, <2>3, <2>4 DEF SyncStep
<1>8. CASE LbaAssertFails
    BY <1>8, ClusterFacts DEF LbaAssertFails, Stop, Enter, TypeOK, Writing, card, FREE
<1> QED
    BY <1>1, <1>2, <1>3, <1>4, <1>5, <1>6, <1>7, <1>8 DEF Step

LEMMA BootType == TypeInv /\ Boot => TypeInv'
BY ClusterFacts DEF Boot, Stop, Enter, TypeInv, TypeOK, Writing, card, FREE

\* The state of the driver and of the card is always well formed.
THEOREM TypeCorrect == Spec => []TypeOK
<1>1. Init => TypeInv
    BY TypeInit
<1>2. TypeInv /\ [Next]_vars => TypeInv'
    <2> SUFFICES ASSUME TypeInv, [Next]_vars PROVE TypeInv'
        OBVIOUS
    <2>1. CASE UNCHANGED vars
        BY <2>1 DEF vars, TypeInv, TypeOK, Writing
    <2> QED
        BY <2>1, BeginType, StepType, BootType DEF Next, PowerLoss, Restart
<1>3. TypeInv => TypeOK
    BY DEF TypeInv
<1> QED
    BY <1>1, <1>2, <1>3, PTL DEF Spec
-----------------------------------------------------------------------------
(***************************************************************************)
(* The root directory.  No pointer outside its chain leads into it, so no  *)
(* walk that starts outside ever edits it; and the loop that writes it is  *)
(* at the cluster that its offset says.  None of this needs the callers to *)
(* be careful, nor the FAT to be written in one piece.                     *)
(***************************************************************************)
AvoidsDir(f) == \A p \in 0 .. NEntries - 1 : p \notin DirClusters => f[p] \notin DirClusters

StartsAvoidDir(d) == \A s \in Slots : d[s].start \notin DirClusters

DirPosition ==
    /\ pc \in {"free", "tail", "cut"} => cur \notin DirClusters
    /\ pc = "write" => IF what = "dir"
                         THEN /\ offset + left = Len(DirChain)
                              /\ cur = DirChain[offset + 1]
                         ELSE cur \notin DirClusters

DirInv ==
    /\ AvoidsDir(fat) /\ AvoidsDir(diskFat)
    /\ DirChainKept(fat) /\ DirChainKept(diskFat)
    /\ StartsAvoidDir(dir) /\ StartsAvoidDir(dirents)
    /\ DirPosition

LEMMA NotDirFacts ==
    /\ FREE \notin DirClusters /\ LAST \notin DirClusters
    /\ BAD \notin DirClusters /\ 0 \notin DirClusters
BY ClusterFacts, DirChainFacts DEF FREE

\* A free cluster is not the directory's.
LEMMA FreeNotDir ==
    ASSUME NEW f, DirChainKept(f), NEW c, f[c] = FREE
    PROVE  c \notin DirClusters
BY AfterInDirFacts DEF DirChainKept, DirClusters

\* An edit outside the directory's chain, with a value outside, leaves it alone.
LEMMA EditOutsideDir ==
    ASSUME NEW f \in [0 .. NEntries - 1 -> Entries], AvoidsDir(f), DirChainKept(f),
           NEW c, c \notin DirClusters, NEW v, v \notin DirClusters,
           NEW g, g = [f EXCEPT ![c] = v]
    PROVE  AvoidsDir(g) /\ DirChainKept(g)
<1>1. AvoidsDir(g)
    BY DEF AvoidsDir
<1>2. \A i \in DOMAIN DirChain : DirChain[i] \in 0 .. NEntries - 1 /\ DirChain[i] # c
    BY DirChainFacts, ClusterFacts DEF DirClusters
<1>3. DirChainKept(g)
    BY <1>2 DEF DirChainKept
<1> QED
    BY <1>1, <1>3

LEMMA DirInit == Init => DirInv
<1> SUFFICES ASSUME Init PROVE DirInv
    OBVIOUS
<1>1. AvoidsDir(FormattedFat)
    BY NotDirFacts DEF FormattedFat, AvoidsDir
<1>2. StartsAvoidDir(dir)
    BY NotDirFacts DEF Init, FreeDirent, StartsAvoidDir
<1> QED
    BY <1>1, <1>2, FormattedFatFacts DEF Init, DirInv, DirPosition, StartsAvoidDir

\* The directory's copy that a call works on.
LEMMA ReplacesAvoidsDir ==
    ASSUME TypeOK, StartsAvoidDir(dir), NEW s, NEW e, Replaces(s, e),
           e.start \notin DirClusters
    PROVE  StartsAvoidDir(dirents')
BY DEF TypeOK, StartsAvoidDir, Replaces

\* A loop that starts on the directory starts at its first cluster.
LEMMA WriteDirectoryPosition == ASSUME WriteDirectory PROVE DirPosition'
BY WriteDirectoryLocals DEF DirPosition

LEMMA BeginDirInv == TypeInv /\ DirInv /\ Begin => DirInv'
<1> SUFFICES ASSUME TypeOK, DirInv, Begin PROVE DirInv'
    BY DEF TypeInv
<1>1. UNCHANGED <<diskFat, dir, data>>
    BY BeginEffect DEF card
<1>2. SUFFICES ASSUME TRUE
             PROVE  AvoidsDir(fat') /\ DirChainKept(fat') /\ StartsAvoidDir(dirents') /\ DirPosition'
    BY <1>1 DEF DirInv, StartsAvoidDir, AvoidsDir, DirChainKept
<1>3. ASSUME NEW s, NEW e, Replaces(s, e)
      PROVE  dir[s].start \notin DirClusters
    BY <1>3 DEF Replaces, DirInv, StartsAvoidDir
<1>4. UNCHANGED fat => AvoidsDir(fat') /\ DirChainKept(fat')
    BY DEF DirInv, AvoidsDir, DirChainKept
<1>5. CASE Panics
    BY <1>4, <1>5 DEF Panics, Stop, Enter, DirInv, DirPosition, StartsAvoidDir
<1>6. ASSUME NEW s, NEW e, BeginsDir(s, e)
      PROVE  AvoidsDir(fat') /\ DirChainKept(fat') /\ StartsAvoidDir(dirents') /\ DirPosition'
    <2>1. e.start \notin DirClusters
        BY <1>3, <1>6, NotDirFacts DEF BeginsDir
    <2> QED
        BY <1>4, <1>6, <2>1, ReplacesAvoidsDir, WriteDirectoryPosition DEF BeginsDir, DirInv
<1>7. ASSUME NEW s, NEW e, BeginsFree(s, e)
      PROVE  AvoidsDir(fat') /\ DirChainKept(fat') /\ StartsAvoidDir(dirents') /\ DirPosition'
    <2>1. e.start \notin DirClusters
        BY <1>7, NotDirFacts DEF BeginsFree
    <2>2. DirPosition'
        BY <1>3, <1>7 DEF BeginsFree, Enter, DirPosition
    <2> QED
        BY <1>4, <1>7, <2>1, <2>2, ReplacesAvoidsDir DEF BeginsFree, DirInv
<1>8. ASSUME NEW s, NEW e, NEW n, BeginsCut(s, e, n)
      PROVE  AvoidsDir(fat') /\ DirChainKept(fat') /\ StartsAvoidDir(dirents') /\ DirPosition'
    <2>1. DirPosition'
        BY <1>3, <1>8 DEF BeginsCut, Enter, DirPosition
    <2> QED
        BY <1>3, <1>4, <1>8, <2>1, ReplacesAvoidsDir DEF BeginsCut, DirInv
<1>9. ASSUME NEW s, NEW e, NEW n, NEW p, BeginsFile(s, e, n, p)
      PROVE  AvoidsDir(fat') /\ DirChainKept(fat') /\ StartsAvoidDir(dirents') /\ DirPosition'
    <2>1. DirPosition'
        BY <1>3, <1>9 DEF BeginsFile, Enter, DirPosition
    <2> QED
        BY <1>3, <1>4, <1>9, <2>1, ReplacesAvoidsDir DEF BeginsFile, DirInv
<1>10. ASSUME NEW s, NEW e, NEW c, NEW n, NEW p, BeginsNewFile(s, e, c, n, p)
       PROVE  AvoidsDir(fat') /\ DirChainKept(fat') /\ StartsAvoidDir(dirents') /\ DirPosition'
    <2>1. c \notin DirClusters
        BY <1>10, FreeNotDir DEF BeginsNewFile, DirInv
    <2>2. AvoidsDir(fat') /\ DirChainKept(fat')
        BY <1>10, <2>1, EditOutsideDir, NotDirFacts DEF BeginsNewFile, DirInv, TypeOK
    <2>3. DirPosition'
        BY <1>10, <2>1 DEF BeginsNewFile, Enter, DirPosition
    <2> QED
        BY <1>10, <2>1, <2>2, <2>3, ReplacesAvoidsDir DEF BeginsNewFile, DirInv
<1> QED
    BY <1>5, <1>6, <1>7, <1>8, <1>9, <1>10, BeginEffect

\* While the directory is written its chain ends exactly where it does.
LEMMA DirWriteFacts ==
    ASSUME TypeInv, DirInv, pc = "write", what = "dir"
    PROVE  /\ left = 1 => fat[cur] = LAST
           /\ left > 1 => fat[cur] = DirChain[offset + 2] /\ ~EndsChain(fat[cur])
<1>1. offset + left = Len(DirChain) /\ cur = DirChain[offset + 1] /\ left >= 1
    BY DEF DirInv, DirPosition, TypeInv, Writing
<1>2. offset \in Nat /\ left \in Nat /\ offset + 1 \in DOMAIN DirChain
    BY <1>1, DirChainFacts DEF TypeInv, TypeOK
<1>3. fat[cur] = AfterInDir(offset + 1)
    BY <1>1, <1>2 DEF DirInv, DirChainKept
<1>4. left = 1 => fat[cur] = LAST
    BY <1>1, <1>2, <1>3 DEF AfterInDir
<1>5. ASSUME left > 1
      PROVE  fat[cur] = DirChain[offset + 2] /\ ~EndsChain(fat[cur])
    <2>1. fat[cur] = DirChain[offset + 2] /\ offset + 2 \in 1 .. Len(DirChain)
        BY <1>1, <1>2, <1>3, <1>5, DirChainFacts DEF AfterInDir
    <2> QED
        BY <2>1, DirChainFacts, ClusterFacts DEF EndsChain
<1> QED
    BY <1>4, <1>5

LEMMA StepDirInv == TypeInv /\ DirInv /\ Step => DirInv'
<1> SUFFICES ASSUME TypeInv, TypeOK, DirInv, Step PROVE DirInv'
    BY DEF TypeInv
<1>1. UNCHANGED diskFat => AvoidsDir(diskFat') /\ DirChainKept(diskFat')
    BY DEF DirInv, AvoidsDir, DirChainKept
<1>2. UNCHANGED dir => StartsAvoidDir(dir')
    BY DEF DirInv, StartsAvoidDir
<1>3. UNCHANGED dirents => StartsAvoidDir(dirents')
    BY DEF DirInv, StartsAvoidDir
<1>4. ASSUME NEW c, c \notin DirClusters, NEW v, v \notin DirClusters,
             fat' = [fat EXCEPT ![c] = v]
      PROVE  AvoidsDir(fat') /\ DirChainKept(fat')
    BY <1>4, EditOutsideDir DEF DirInv, TypeOK
<1>5. ASSUME cur \in DOMAIN fat, cur \notin DirClusters
      PROVE  fat[cur] \notin DirClusters
    BY <1>5 DEF DirInv, AvoidsDir, TypeOK
<1>6. UNCHANGED fat => AvoidsDir(fat') /\ DirChainKept(fat')
    BY DEF DirInv, AvoidsDir, DirChainKept
<1>7. CASE FreeStep
    <2>1. cur \in DOMAIN fat /\ cur \notin DirClusters
        BY <1>7 DEF FreeStep, DirInv, DirPosition
    <2>2. AvoidsDir(fat') /\ DirChainKept(fat')
        BY <1>4, <1>7, <2>1, NotDirFacts DEF FreeStep
    <2>3. UNCHANGED <<diskFat, dir, dirents>>
        BY <1>7 DEF FreeStep, card
    <2>4. DirPosition'
        <3>1. CASE EndsChain(fat[cur])
            BY <1>7, <3>1, WriteDirectoryPosition DEF FreeStep
        <3>2. CASE ~EndsChain(fat[cur])
            BY <1>5, <1>7, <2>1, <3>2 DEF FreeStep, DirPosition
        <3> QED
            BY <3>1, <3>2
    <2> QED
        BY <1>1, <1>2, <1>3, <2>2, <2>3, <2>4 DEF DirInv
<1>8. CASE CutStep
    <2>1. cur \in DOMAIN fat /\ cur \notin DirClusters
        BY <1>8 DEF CutStep, DirInv, DirPosition
    <2>2. AvoidsDir(fat') /\ DirChainKept(fat')
        BY <1>4, <1>6, <1>8, <2>1, NotDirFacts DEF CutStep
    <2>3. UNCHANGED <<diskFat, dir, dirents>>
        BY <1>8 DEF CutStep, card
    <2>4. DirPosition'
        <3>1. CASE EndsChain(fat[cur])
            BY <1>8, <3>1, WriteDirectoryPosition DEF CutStep
        <3>2. CASE ~EndsChain(fat[cur])
            BY <1>5, <1>8, <2>1, <3>2 DEF CutStep, DirPosition
        <3> QED
            BY <3>1, <3>2
    <2> QED
        BY <1>1, <1>2, <1>3, <2>2, <2>3, <2>4 DEF DirInv
<1>9. ASSUME pc = "write", what = "dir"
      PROVE  /\ left = 1 => fat[cur] = LAST
             /\ left > 1 => fat[cur] = DirChain[offset + 2] /\ ~EndsChain(fat[cur])
    BY <1>9, DirWriteFacts
<1>10. ASSUME WriteBlock
       PROVE  StartsAvoidDir(dir')
    BY <1>10 DEF WriteBlock, DirInv, StartsAvoidDir
<1>11. ASSUME pc = "write", what # "dir", cur \in Clusters
       PROVE  cur \notin DirClusters /\ cur \in DOMAIN fat
    BY <1>11, ClusterFacts DEF DirInv, DirPosition, TypeOK
<1>12. CASE WriteLastBlock
    <2>1. pc = "write" /\ left = 1 /\ WriteBlock /\ cur \in Clusters
          /\ UNCHANGED <<diskFat, dirents>> /\ fat' = [fat EXCEPT ![cur] = LAST]
        BY <1>12 DEF WriteLastBlock
    <2>2. CASE what = "dir"
        <3>1. fat[cur] = LAST
            BY <1>9, <2>1, <2>2
        <3>2. fat' = fat
            BY <2>1, <3>1 DEF TypeOK
        <3>3. DirPosition'
            BY <1>12, <3>1 DEF WriteLastBlock, EndsChain, DirPosition
        <3> QED
            BY <1>1, <1>3, <1>6, <1>10, <2>1, <3>2, <3>3 DEF DirInv
    <2>3. CASE what # "dir"
        <3>1. cur \notin DirClusters /\ fat[cur] \notin DirClusters
            BY <1>5, <1>11, <2>1, <2>3
        <3>2. DirPosition'
            BY <1>12, <3>1 DEF WriteLastBlock, DirPosition
        <3> QED
            BY <1>1, <1>3, <1>4, <1>10, <2>1, <3>1, <3>2, NotDirFacts DEF DirInv
    <2> QED
        BY <2>2, <2>3
<1>13. CASE WriteNextBlock
    <2>1. pc = "write" /\ left > 1 /\ WriteBlock /\ cur \in Clusters
          /\ UNCHANGED <<fat, diskFat, dirents, pc, what>>
          /\ cur' = fat[cur] /\ left' = left - 1 /\ offset' = offset + 1
        BY <1>13 DEF WriteNextBlock
    <2>2. DirPosition'
        <3>1. CASE what = "dir"
            <4>1. fat[cur] = DirChain[offset + 2] /\ offset + left = Len(DirChain)
                BY <1>9, <2>1, <3>1 DEF DirInv, DirPosition
            <4> QED
                BY <2>1, <3>1, <4>1, DirChainFacts DEF DirPosition, TypeOK
        <3>2. CASE what # "dir"
            BY <1>5, <1>11, <2>1, <3>2 DEF DirPosition
        <3> QED
            BY <3>1, <3>2
    <2> QED
        BY <1>1, <1>3, <1>6, <1>10, <2>1, <2>2 DEF DirInv
<1>14. CASE WriteAndExtend
    <2>1. pc = "write" /\ left > 1 /\ WriteBlock /\ cur \in Clusters
          /\ EndsChain(fat[cur]) /\ UNCHANGED diskFat
        BY <1>14 DEF WriteAndExtend
    <2>2. what # "dir" /\ UNCHANGED dir
        BY <1>9, <2>1 DEF WriteBlock, TypeOK
    <2>3. cur \notin DirClusters
        BY <1>11, <2>1, <2>2
    <2>4. ASSUME NEW c \in FreeFrom(cur),
                 fat' = [fat EXCEPT ![cur] = c, ![c] = LAST], cur' = c,
                 UNCHANGED <<pc, dirents, what>>
          PROVE  DirInv'
        <3>1. c \notin DirClusters
            BY FreeNotDir DEF FreeFrom, DirInv
        <3> DEFINE f == [fat EXCEPT ![cur] = c]
        <3>2. f \in [0 .. NEntries - 1 -> Entries]
            <4>1. c \in Clusters /\ c \in Entries
                BY ClusterFacts DEF FreeFrom, Clusters
            <4> QED
                BY <4>1 DEF TypeOK
        <3>3. AvoidsDir(f) /\ DirChainKept(f)
            BY <2>3, <3>1, EditOutsideDir DEF DirInv, TypeOK
        <3>4. fat' = [f EXCEPT ![c] = LAST]
            BY <2>4
        <3>5. AvoidsDir(fat') /\ DirChainKept(fat')
            BY <3>1, <3>2, <3>3, <3>4, EditOutsideDir, NotDirFacts
        <3>6. DirPosition'
            BY <2>1, <2>2, <2>4, <3>1 DEF DirPosition
        <3> QED
            BY <1>1, <1>2, <1>3, <2>1, <2>2, <2>4, <3>5, <3>6 DEF DirInv
    <2>5. CASE Stop("panic") /\ dirents' = dir' /\ UNCHANGED fat
        BY <1>1, <1>2, <1>6, <2>1, <2>2, <2>5 DEF Stop, Enter, DirInv, DirPosition, StartsAvoidDir
    <2> QED
        BY <1>14, <2>4, <2>5 DEF WriteAndExtend
<1>15. CASE TailStep
    <2>1. cur \in DOMAIN fat /\ cur \notin DirClusters /\ pc = "tail"
        BY <1>15 DEF TailStep, DirInv, DirPosition
    <2>2. AvoidsDir(fat') /\ DirChainKept(fat')
        BY <1>4, <1>15, <2>1, NotDirFacts DEF TailStep
    <2>3. UNCHANGED <<diskFat, dir, dirents>>
        BY <1>15 DEF TailStep, card
    <2>4. DirPosition'
        BY <1>5, <1>15, <2>1 DEF TailStep, DirPosition
    <2> QED
        BY <1>1, <1>2, <1>3, <2>2, <2>3, <2>4 DEF DirInv
<1>16. CASE SyncStep
    <2>1. \A c \in 0 .. NEntries - 1 : diskFat'[c] \in {fat[c], diskFat[c]}
        BY <1>16 DEF SyncStep, SyncedFat, TypeOK
    <2>2. AvoidsDir(diskFat') /\ DirChainKept(diskFat')
        <3>1. AvoidsDir(diskFat')
            BY <2>1 DEF DirInv, AvoidsDir
        <3>2. \A i \in DOMAIN DirChain : DirChain[i] \in 0 .. NEntries - 1
            BY DirChainFacts, ClusterFacts
        <3> QED
            BY <2>1, <3>1, <3>2 DEF DirInv, DirChainKept
    <2>3. UNCHANGED <<fat, dir>> /\ (UNCHANGED dirents \/ dirents' = dir)
        BY <1>16 DEF SyncStep
    <2>4. DirPosition'
        BY <1>16, WriteDirectoryPosition DEF SyncStep, Stop, Enter, DirPosition
    <2> QED
        BY <1>2, <1>6, <2>2, <2>3, <2>4 DEF DirInv, StartsAvoidDir
<1>17. CASE LbaAssertFails
    BY <1>1, <1>2, <1>6, <1>17
    DEF LbaAssertFails, Stop, Enter, card, DirInv, DirPosition, StartsAvoidDir
<1> QED
    BY <1>7, <1>8, <1>12, <1>13, <1>14, <1>15, <1>16, <1>17 DEF Step

LEMMA BootDirInv == DirInv /\ Boot => DirInv'
BY DEF Boot, Stop, Enter, card, DirInv, DirPosition, AvoidsDir, DirChainKept, StartsAvoidDir

\* The root directory keeps its clusters and is written where it lies, whatever
\* the callers do and wherever the power fails, also within the FAT's sectors.
THEOREM RootDirectoryIntact == Spec => []DirIntact
<1>1. Init => TypeInv /\ DirInv
    BY TypeInit, DirInit
<1>2. TypeInv /\ DirInv /\ [Next]_vars => (TypeInv /\ DirInv)'
    <2> SUFFICES ASSUME TypeInv, DirInv, [Next]_vars PROVE TypeInv' /\ DirInv'
        OBVIOUS
    <2>1. CASE UNCHANGED vars
        BY <2>1 DEF vars, TypeInv, TypeOK, Writing, DirInv, DirPosition, AvoidsDir,
                    DirChainKept, StartsAvoidDir
    <2> QED
        BY <2>1, BeginType, StepType, BootType, BeginDirInv, StepDirInv, BootDirInv
        DEF Next, PowerLoss, Restart
<1>3. DirInv => DirIntact
    BY DEF DirInv, DirPosition, DirIntact
<1> QED
    BY <1>1, <1>2, <1>3, PTL DEF Spec
-----------------------------------------------------------------------------
(***************************************************************************)
(* No two files ever share a cluster and no chain leads into a free one:   *)
(* in memory at any step, for callers that truncate no file to nothing;    *)
(* and on the card after any power failure, if its FAT is written in one   *)
(* piece.  No two files ever have the same name with an extension, for     *)
(* callers that rename no file to a name that is taken.                    *)
(***************************************************************************)
(***************************************************************************)
(* What the edits of the code do to a sound view of the volume.            *)
(***************************************************************************)
FAT == [0 .. NEntries - 1 -> Entries]
Directory == [Slots -> Dirent]

LEMMA InUseFacts ==
    ASSUME NEW f \in FAT, NEW c, InUse(f, c)
    PROVE  /\ c \in Clusters /\ c \notin DirClusters /\ c \in DOMAIN f
           /\ c # 0 /\ c # LAST /\ c # FREE
           /\ f[c] # LAST => f[c] \in Clusters
BY ClusterFacts DEF FAT, InUse, Entries, FREE

LEMMA StartFacts ==
    ASSUME NEW f, NEW d \in Directory, Sound(f, d), NEW s \in Slots
    PROVE  d[s].start = 0 \/ InUse(f, d[s].start)
BY DEF Sound, NoDangling

\* Freeing the head of a chain that nothing points to: the loops of
\* fat32_delete and write_cluster_chain, and the end of fat32_truncate's.
LEMMA FreeHead ==
    ASSUME NEW f \in FAT, NEW d \in Directory, Sound(f, d),
           NEW c, InUse(f, c), Unreferenced(f, d, c),
           NEW g, g = [f EXCEPT ![c] = FREE]
    PROVE  /\ Sound(g, d)
           /\ f[c] # LAST => InUse(g, f[c]) /\ Unreferenced(g, d, f[c])
<1>1. \A p \in Clusters : g[p] = IF p = c THEN FREE ELSE f[p]
    BY ClusterFacts DEF FAT
<1>2. FREE \notin Clusters /\ c \in Clusters \ DirClusters
    BY ClusterFacts DEF InUse
<1>3. \A x : InUse(f, x) /\ x # c => InUse(g, x)
    BY <1>1 DEF InUse
<1>4. NoDangling(g, d)
    BY <1>1, <1>2, <1>3 DEF Sound, NoDangling, Unreferenced
<1>5. NoSharing(g, d)
    BY <1>1, <1>2 DEF Sound, NoSharing
<1>6. ASSUME f[c] # LAST
      PROVE  InUse(g, f[c]) /\ Unreferenced(g, d, f[c])
    <2>1. f[c] \in Clusters /\ f[c] # c
        BY <1>2, <1>6, InUseFacts DEF Unreferenced
    <2>2. InUse(f, f[c])
        BY <1>2, <2>1 DEF Sound, NoDangling
    <2>3. Unreferenced(g, d, f[c])
        BY <1>1, <1>2, <2>1 DEF Sound, NoSharing, Unreferenced
    <2> QED
        BY <1>3, <2>1, <2>2, <2>3
<1> QED
    BY <1>4, <1>5, <1>6 DEF Sound

\* Ending a chain at a cluster in use leaves the rest of it unreferenced.
LEMMA EndChain ==
    ASSUME NEW f \in FAT, NEW d \in Directory, Sound(f, d),
           NEW c, InUse(f, c), NEW g, g = [f EXCEPT ![c] = LAST]
    PROVE  /\ Sound(g, d) /\ InUse(g, c)
           /\ f[c] # LAST => InUse(g, f[c]) /\ Unreferenced(g, d, f[c])
<1>1. \A p \in Clusters : g[p] = IF p = c THEN LAST ELSE f[p]
    BY ClusterFacts DEF FAT
<1>2. LAST \notin Clusters /\ LAST \notin {FREE, BAD} /\ c \in Clusters \ DirClusters
    BY ClusterFacts DEF InUse, LAST, BAD, FREE
<1>3. \A x : InUse(f, x) => InUse(g, x)
    BY <1>1, <1>2 DEF InUse
<1>4. NoDangling(g, d)
    BY <1>1, <1>2, <1>3 DEF Sound, NoDangling
<1>5. NoSharing(g, d)
    BY <1>1, <1>2 DEF Sound, NoSharing
<1>6. ASSUME f[c] # LAST
      PROVE  InUse(g, f[c]) /\ Unreferenced(g, d, f[c])
    <2>1. f[c] \in Clusters
        BY <1>6, InUseFacts
    <2>2. InUse(f, f[c])
        BY <1>2, <2>1 DEF Sound, NoDangling
    <2>3. Unreferenced(g, d, f[c])
        BY <1>1, <1>2, <2>1 DEF Sound, NoSharing, Unreferenced
    <2> QED
        BY <1>3, <2>2, <2>3
<1> QED
    BY <1>3, <1>4, <1>5, <1>6 DEF Sound

\* A free cluster is nobody's.
LEMMA FreeUnreferenced ==
    ASSUME NEW f \in FAT, NEW d \in Directory, Sound(f, d), DirChainKept(f),
           NEW c \in Clusters, f[c] = FREE
    PROVE  Unreferenced(f, d, c)
<1>1. ~InUse(f, c) /\ c # 0
    BY ClusterFacts DEF InUse, FREE
<1>2. \A p \in Clusters \ DirClusters : f[p] # c
    BY <1>1 DEF Sound, NoDangling
<1>3. \A p \in DirClusters : f[p] # c
    <2> SUFFICES ASSUME NEW i \in DOMAIN DirChain PROVE f[DirChain[i]] # c
        BY DEF DirClusters
    <2>1. f[DirChain[i]] = AfterInDir(i)
        BY DEF DirChainKept
    <2>2. AfterInDir(i) = LAST \/ AfterInDir(i) \in DirClusters
        BY DirChainFacts, AfterInDirFacts DEF AfterInDir
    <2> QED
        BY <2>1, <2>2, FreeNotDir, ClusterFacts
<1>4. \A s \in Slots : d[s].start # c
    BY <1>1 DEF Sound, NoDangling
<1> QED
    BY <1>2, <1>3, <1>4 DEF Unreferenced

\* Extending a chain by a free cluster.
LEMMA ExtendChain ==
    ASSUME NEW f \in FAT, NEW d \in Directory, Sound(f, d), DirChainKept(f),
           NEW c, InUse(f, c), f[c] = LAST,
           NEW n \in Clusters, f[n] = FREE,
           NEW g, g = [f EXCEPT ![c] = n, ![n] = LAST]
    PROVE  Sound(g, d) /\ InUse(g, n)
<1>1. Unreferenced(f, d, n) /\ n \notin DirClusters /\ n # c
    BY FreeUnreferenced, FreeNotDir DEF InUse
<1>2. \A p \in Clusters : g[p] = IF p = n THEN LAST ELSE IF p = c THEN n ELSE f[p]
    BY ClusterFacts, InUseFacts DEF FAT
<1>3. LAST \notin Clusters /\ LAST \notin {FREE, BAD} /\ c \in Clusters \ DirClusters
      /\ n \notin {FREE, BAD}
    BY ClusterFacts DEF InUse, LAST, BAD, FREE
<1>4. \A x : InUse(f, x) => InUse(g, x)
    BY <1>2, <1>3 DEF InUse
<1>5. InUse(g, n)
    BY <1>1, <1>2, <1>3 DEF InUse
<1>6. NoDangling(g, d)
    BY <1>2, <1>3, <1>4, <1>5 DEF Sound, NoDangling
<1>7. NoSharing(g, d)
    <2>1. \A p \in Clusters : f[p] # n
        BY <1>1 DEF Unreferenced
    <2>2. ASSUME NEW p \in Clusters, NEW q \in Clusters, g[p] \in Clusters, g[p] = g[q]
          PROVE  p = q
        <3>1. g[p] = LAST => p # n /\ FALSE
            BY <1>3, <2>2
        <3>2. p # n /\ q # n
            BY <1>2, <1>3, <2>2
        <3>3. CASE p = c
            BY <1>2, <2>1, <2>2, <3>2, <3>3
        <3>4. CASE p # c
            BY <1>2, <2>1, <2>2, <3>2, <3>4 DEF Sound, NoSharing
        <3> QED
            BY <3>3, <3>4
    <2>3. \A s, t \in Slots : d[s].start # 0 /\ d[s].start = d[t].start => s = t
        BY DEF Sound, NoSharing
    <2>4. ASSUME NEW s \in Slots, NEW p \in Clusters, g[p] \in Clusters
          PROVE  d[s].start # g[p]
        BY <1>1, <1>2, <1>3, <2>4 DEF Sound, NoSharing, Unreferenced
    <2> QED
        BY <2>2, <2>3, <2>4 DEF NoSharing
<1> QED
    BY <1>5, <1>6, <1>7 DEF Sound

\* Giving a free cluster to a file without any.
LEMMA AllocateFirst ==
    ASSUME NEW f \in FAT, NEW d \in Directory, Sound(f, d), DirChainKept(f),
           NEW s \in Slots, NEW c \in Clusters, f[c] = FREE,
           NEW e, \A t \in Slots : e[t].start = IF t = s THEN c ELSE d[t].start
    PROVE  Sound([f EXCEPT ![c] = LAST], e) /\ InUse([f EXCEPT ![c] = LAST], c)
<1> DEFINE g == [f EXCEPT ![c] = LAST]
<1>1. Unreferenced(f, d, c) /\ c \notin DirClusters
    BY FreeUnreferenced, FreeNotDir
<1>2. \A p \in Clusters : g[p] = IF p = c THEN LAST ELSE f[p]
    BY ClusterFacts DEF FAT
<1> HIDE DEF g
<1>3. LAST \notin Clusters /\ LAST \notin {FREE, BAD}
    BY ClusterFacts DEF LAST, BAD, FREE
<1>4. \A y : InUse(f, y) => InUse(g, y)
    BY <1>2, <1>3 DEF InUse
<1>5. InUse(g, c)
    BY <1>1, <1>2, <1>3 DEF InUse
<1>6. NoDangling(g, e)
    BY <1>2, <1>3, <1>4, <1>5 DEF Sound, NoDangling
<1>7. NoSharing(g, e)
    BY <1>1, <1>2, <1>3 DEF Sound, NoSharing, Unreferenced
<1> QED
    BY <1>5, <1>6, <1>7 DEF Sound, g

\* A directory with fewer pointers.
LEMMA FewerStarts ==
    ASSUME NEW f, NEW d, Sound(f, d), NEW e,
           \A s \in Slots : e[s].start \in {0, d[s].start}
    PROVE  Sound(f, e)
<1>1. NoDangling(f, e)
    BY DEF Sound, NoDangling
<1>2. NoSharing(f, e)
    <2>1. \A s, t \in Slots : e[s].start # 0 /\ e[s].start = e[t].start => s = t
        BY DEF Sound, NoSharing
    <2>2. \A s \in Slots, p \in Clusters : f[p] \in Clusters => e[s].start # f[p]
        BY ClusterFacts DEF Sound, NoSharing, FREE
    <2> QED
        BY <2>1, <2>2 DEF Sound, NoSharing
<1> QED
    BY <1>1, <1>2 DEF Sound

\* The directory with some of its blocks written and some not.
LEMMA HalfWrittenDirectory ==
    ASSUME NEW f, NEW d, NEW e, Sound(f, d), Sound(f, e), OneChange(d, e),
           NEW m, \A s \in Slots : m[s] \in {d[s], e[s]}
    PROVE  Sound(f, m) /\ OneChange(m, e)
<1>1. NoDangling(f, m)
    BY DEF Sound, NoDangling
<1>2. NoSharing(f, m)
    <2>1. ASSUME NEW s \in Slots, NEW t \in Slots, m[s].start # 0,
                 m[s].start = m[t].start, s # t
          PROVE  FALSE
        <3>1. (m[s] = d[s] /\ m[t] = d[t]) \/ (m[s] = e[s] /\ m[t] = e[t])
            BY <2>1 DEF OneChange
        <3> QED
            BY <2>1, <3>1 DEF Sound, NoSharing
    <2>2. \A s \in Slots, p \in Clusters : f[p] \in Clusters => m[s].start # f[p]
        BY DEF Sound, NoSharing
    <2> QED
        BY <2>1, <2>2 DEF Sound, NoSharing
<1>3. OneChange(m, e)
    BY DEF OneChange
<1> QED
    BY <1>1, <1>2, <1>3 DEF Sound
-----------------------------------------------------------------------------
(***************************************************************************)
(* The invariant.  MemorySound and DiskSound are about two of the views    *)
(* (fat, dirents), (diskFat, dir) of the volume; that a step keeps both    *)
(* rests on how the views differ while a call is under way.                *)
(***************************************************************************)
Views ==
    /\ Sound(fat, dirents)
    /\ OneChange(dir, dirents)
    /\ sec = 0 => Sound(diskFat, dir) /\ (what = "dir" => Sound(diskFat, dirents))

\* While the file is being written the call's directory points to more only.
FileFirst ==
    what = "file" =>
        /\ pc \in {"write", "tail", "sync"}
        /\ \A s \in Slots : dir[s].start \in {0, dirents[s].start}

AtCluster ==
    /\ Freeing => InUse(fat, cur) /\ Unreferenced(fat, dirents, cur)
    /\ pc = "cut" /\ left > 0 => cur = 0 \/ InUse(fat, cur)
    /\ pc = "write" /\ what = "file" => InUse(fat, cur)
    /\ pc = "tail" => what = "file"

\* The first k sectors of the FAT are on the card.
Synced(k) == \A c \in 0 .. NEntries - 1 : c \div EntriesPerSector < k => diskFat[c] = fat[c]

\* How much of the directory and of the FAT has reached the card.
Written ==
    /\ pc = "write" /\ what = "dir" =>
         \A s \in Slots : BlockOf(s) <= offset => dir[s] = dirents[s]
    /\ pc = "sync" /\ what = "dir" => dir = dirents
    /\ pc \in {"idle", "panic"} => what = "dir" /\ dirents = dir
    /\ pc = "idle" => fat = diskFat
    /\ sec # 0 => pc = "sync" /\ sec < NSectors /\ Synced(sec)

Reserved == fat[0] = LAST /\ diskFat[0] = LAST

SoundInv == Views /\ FileFirst /\ AtCluster /\ Written /\ Reserved

\* A card that a power failure leaves between two sectors of the FAT is not
\* used again, which a FAT of one sector rules out by itself.
TornCardIsLeft == PowerLossAllowed /\ TearResumed => EntriesPerSector = NEntries

\* Callers that truncate nothing to nothing.
Careful == "truncate_to_zero" \notin Calls /\ TornCardIsLeft

\* write_fat_to_disk writes every entry of the FAT.
LEMMA SectorFacts ==
    ASSUME NEW c \in 0 .. NEntries - 1
    PROVE  c \div EntriesPerSector \in 0 .. NSectors - 1
<1> DEFINE E == EntriesPerSector
           q == c \div E
<1>1. E \in Nat \ {0} /\ NEntries \in Nat /\ NEntries % E = 0 /\ c \in Nat /\ c < NEntries
    BY GeometryAssumption
<1>2. NSectors \in Nat /\ NEntries = E * NSectors
    BY <1>1 DEF NSectors
<1>3. q \in Nat /\ E * q <= c
    BY <1>1
<1>4. ASSUME q >= NSectors
      PROVE  FALSE
    <2>1. E * q >= E * NSectors
        BY <1>1, <1>2, <1>3, <1>4
    <2> QED
        BY <1>1, <1>2, <1>3, <2>1
<1> QED
    BY <1>2, <1>3, <1>4

\* The one sector of a FAT that has one is written in one step.
LEMMA OneSector ==
    ASSUME EntriesPerSector = NEntries
    PROVE  NSectors = 1
<1>1. NEntries \in Nat \ {0}
    BY ClusterFacts
<1>2. NSectors * NEntries = NEntries
    BY <1>1 DEF NSectors
<1> QED
    BY <1>1, <1>2 DEF NSectors

\* One sector more; with the last of them the FAT is on the card.
LEMMA SectorSynced ==
    ASSUME fat \in FAT, diskFat \in FAT, sec \in Nat, SyncStep, sec = 0 \/ Synced(sec)
    PROVE  /\ \A c \in 0 .. NEntries - 1 :
                c \div EntriesPerSector < sec + 1 => diskFat'[c] = fat[c]
           /\ ~(sec + 1 < NSectors) => diskFat' = fat
           /\ diskFat' \in FAT
<1>1. diskFat' = [c \in 0 .. NEntries - 1 |->
                     IF c \div EntriesPerSector = sec THEN fat[c] ELSE diskFat[c]]
    BY DEF SyncStep, SyncedFat, FAT
<1>2. NSectors \in Int
    BY GeometryAssumption DEF NSectors
<1>3. ASSUME NEW c \in 0 .. NEntries - 1
      PROVE  /\ c \div EntriesPerSector \in Nat
             /\ c \div EntriesPerSector < NSectors
    BY <1>2, SectorFacts
<1>4. ASSUME NEW c \in 0 .. NEntries - 1, c \div EntriesPerSector < sec + 1
      PROVE  diskFat'[c] = fat[c]
    <2>1. c \div EntriesPerSector = sec \/ c \div EntriesPerSector < sec
        BY <1>3, <1>4
    <2>2. c \div EntriesPerSector < sec => diskFat[c] = fat[c]
        BY <1>3 DEF Synced
    <2> QED
        BY <1>1, <2>1, <2>2
<1>5. ASSUME ~(sec + 1 < NSectors)
      PROVE  diskFat' = fat
    <2>1. \A c \in 0 .. NEntries - 1 : diskFat'[c] = fat[c]
        BY <1>2, <1>3, <1>4, <1>5
    <2>2. /\ diskFat' = [c \in 0 .. NEntries - 1 |-> diskFat'[c]]
          /\ fat = [c \in 0 .. NEntries - 1 |-> fat[c]]
        BY <1>1 DEF FAT
    <2> QED
        BY <2>1, <2>2
<1>6. diskFat' \in FAT
    BY <1>1 DEF FAT
<1> QED
    BY <1>4, <1>5, <1>6

LEMMA BlockFacts ==
    ASSUME NEW s \in Slots
    PROVE  BlockOf(s) \in 1 .. Len(DirChain)
<1> DEFINE K == SlotsPerCluster
           q == (s - 1) \div K
<1>1. K \in Nat \ {0} /\ Len(DirChain) \in Nat \ {0} /\ s \in 1 .. (Len(DirChain) * K)
    BY GeometryAssumption, DirChainFacts DEF Slots
<1>2. q \in Nat /\ K * q <= s - 1
    BY <1>1
<1>3. ASSUME q >= Len(DirChain)
      PROVE  FALSE
    <2>1. K * q >= K * Len(DirChain)
        BY <1>1, <1>2, <1>3
    <2> QED
        BY <1>1, <1>2, <2>1
<1> QED
    BY <1>1, <1>2, <1>3 DEF BlockOf

LEMMA SoundInit == Init => SoundInv
<1> SUFFICES ASSUME Init PROVE SoundInv
    OBVIOUS
<1>1. ASSUME NEW p \in Clusters \ DirClusters
      PROVE  FormattedFat[p] \in {BAD, FREE}
    BY <1>1, ClusterFacts DEF FormattedFat, Clusters
<1>2. \A s \in Slots : dir[s].start = 0
    BY DEF Init, FreeDirent
<1>3. NoDangling(FormattedFat, dir)
    BY <1>1, <1>2, ClusterFacts DEF NoDangling
<1>4. \A p, q \in Clusters : FormattedFat[p] \in Clusters /\ FormattedFat[p] = FormattedFat[q]
                               => p = q
    <2> SUFFICES ASSUME NEW p \in Clusters, NEW q \in Clusters,
                        FormattedFat[p] \in Clusters, FormattedFat[p] = FormattedFat[q]
                 PROVE  p = q
        OBVIOUS
    <2>1. p \in DirClusters /\ q \in DirClusters
        BY <1>1, ClusterFacts
    <2>2. PICK i \in DOMAIN DirChain, j \in DOMAIN DirChain : p = DirChain[i] /\ q = DirChain[j]
        BY <2>1 DEF DirClusters
    <2>3. FormattedFat[p] = AfterInDir(i) /\ FormattedFat[q] = AfterInDir(j)
        BY <2>2, FormattedFatFacts DEF DirChainKept
    <2>4. i # Len(DirChain) /\ j # Len(DirChain)
        BY <2>3, ClusterFacts DEF AfterInDir
    <2>5. DirChain[i + 1] = DirChain[j + 1]
        BY <2>3, <2>4 DEF AfterInDir
    <2>6. i + 1 \in DOMAIN DirChain /\ j + 1 \in DOMAIN DirChain /\ i \in Nat /\ j \in Nat
        BY <2>4, DirChainFacts
    <2>7. i + 1 = j + 1
        BY <2>5, <2>6, DirAssumption
    <2> QED
        BY <2>2, <2>6, <2>7
<1>5. NoSharing(FormattedFat, dir)
    BY <1>2, <1>4, ClusterFacts DEF NoSharing, FREE
<1>6. FormattedFat[0] = LAST
    BY ClusterFacts DEF FormattedFat
<1> QED
    BY <1>3, <1>5, <1>6
    DEF Init, SoundInv, Views, FileFirst, AtCluster, Written, Reserved, Sound, OneChange, Freeing

\* Between calls there is one view of the volume; a call that begins changes
\* one slot of its copy of the directory.
LEMMA BeginViews ==
    ASSUME TypeOK, SoundInv, pc = "idle", UNCHANGED card, NEW s, NEW e, Replaces(s, e)
    PROVE  /\ Sound(fat, dir) /\ Sound(diskFat, dir) /\ Sound(diskFat', dir')
           /\ dir \in Directory /\ fat \in FAT
           /\ dirents' \in Directory /\ OneChange(dir', dirents')
           /\ \A t \in Slots : dirents'[t].start = IF t = s THEN e.start ELSE dir[t].start
           /\ e.start \in {0, dir[s].start} =>
                Sound(fat, dirents') /\ Sound(diskFat', dirents')
<1>1. /\ dirents = dir /\ fat = diskFat
      /\ Sound(fat, dir) /\ Sound(diskFat, dir) /\ dir \in Directory /\ fat \in FAT
    BY DEF SoundInv, Written, Views, TypeOK, Directory, FAT
<1>2. dir' = dir /\ diskFat' = diskFat
    BY DEF card
<1>3. dirents' \in Directory /\ \A t \in Slots : dirents'[t] = IF t = s THEN e ELSE dir[t]
    BY <1>1 DEF Replaces, Directory
<1>4. OneChange(dir', dirents')
    BY <1>2, <1>3 DEF OneChange
<1>5. ASSUME e.start \in {0, dir[s].start}
      PROVE  Sound(fat, dirents') /\ Sound(diskFat', dirents')
    <2>1. \A t \in Slots : dirents'[t].start \in {0, dir[t].start}
        BY <1>3, <1>5
    <2> QED
        BY <1>1, <1>2, <2>1, FewerStarts
<1>6. Sound(diskFat', dir')
    BY <1>1, <1>2
<1> QED
    BY <1>1, <1>3, <1>4, <1>5, <1>6

LEMMA BeginSound ==
    ASSUME Careful, TypeInv, DirInv, SoundInv, Begin
    PROVE  SoundInv'
<1>1. pc = "idle" /\ UNCHANGED card /\ TypeOK
    BY BeginEffect DEF TypeInv
<1>2. /\ dirents = dir /\ fat = diskFat /\ what = "dir"
      /\ fat[0] = LAST /\ diskFat[0] = LAST
    BY <1>1 DEF SoundInv, Written, Reserved
<1>3. dir' = dir /\ diskFat' = diskFat
    BY <1>1 DEF card
<1>4. CASE Panics
    BY <1>1, <1>2, <1>3, <1>4
    DEF Panics, Stop, Enter, SoundInv, Views, FileFirst, AtCluster, Written, Reserved, Freeing,
        Sound, NoDangling, NoSharing, InUse, OneChange
<1>5. ASSUME NEW s, NEW e, BeginsDir(s, e)
      PROVE  SoundInv'
    <2>1. fat' = fat /\ e.start \in {0, dir[s].start} /\ Replaces(s, e) /\ WriteDirectory
        BY <1>5 DEF BeginsDir
    <2>2. Views'
        BY <1>1, <2>1, BeginViews DEF Views
    <2>3. pc' = "write" /\ what' = "dir" /\ offset' = 0 /\ sec' = 0
        BY <2>1, WriteDirectoryLocals
    <2>4. Written'
        BY <2>3, BlockFacts DEF Written
    <2> QED
        BY <1>2, <1>3, <2>1, <2>2, <2>3, <2>4 DEF SoundInv, FileFirst, AtCluster, Reserved, Freeing
<1>6. ASSUME NEW s, NEW e, BeginsFree(s, e)
      PROVE  SoundInv'
    <2>1. /\ fat' = fat /\ e.start = 0 /\ dir[s].start # 0 /\ Replaces(s, e) /\ s \in Slots
          /\ pc' = "free" /\ what' = "dir" /\ cur' = dir[s].start /\ left' = 0 /\ sec' = 0
        BY <1>6 DEF BeginsFree, Enter, Replaces
    <2>2. Views'
        BY <1>1, <2>1, BeginViews DEF Views
    <2>3. InUse(fat', cur')
        BY <1>1, <2>1, BeginViews, StartFacts
    <2>4. Unreferenced(fat', dirents', cur')
        <3>1. /\ Sound(fat, dir)
              /\ \A t \in Slots : dirents'[t].start = IF t = s THEN 0 ELSE dir[t].start
            BY <1>1, <2>1, BeginViews
        <3>2. cur' \in Clusters /\ cur' # 0
            BY <2>1, <2>3 DEF InUse
        <3>3. \A p \in Clusters : fat[p] # cur'
            BY <2>1, <3>1, <3>2 DEF Sound, NoSharing
        <3>4. \A t \in Slots : dirents'[t].start # cur'
            BY <2>1, <3>1, <3>2 DEF Sound, NoSharing
        <3> QED
            BY <2>1, <3>3, <3>4 DEF Unreferenced
    <2> QED
        BY <1>2, <1>3, <2>1, <2>2, <2>3, <2>4
        DEF SoundInv, FileFirst, AtCluster, Written, Reserved, Freeing
<1>7. ASSUME NEW s, NEW e, NEW n, BeginsCut(s, e, n)
      PROVE  SoundInv'
    <2>1. /\ fat' = fat /\ e.start = dir[s].start /\ Replaces(s, e) /\ s \in Slots
          /\ pc' = "cut" /\ what' = "dir" /\ cur' = dir[s].start /\ left' = n /\ sec' = 0
          /\ n # 0
        BY <1>7 DEF BeginsCut, Enter, Replaces, Careful
    <2>2. Views'
        BY <1>1, <2>1, BeginViews DEF Views
    <2>3. cur' = 0 \/ InUse(fat', cur')
        BY <1>1, <2>1, BeginViews, StartFacts
    <2> QED
        BY <1>2, <1>3, <2>1, <2>2, <2>3
        DEF SoundInv, FileFirst, AtCluster, Written, Reserved, Freeing
<1>8. ASSUME NEW s, NEW e, NEW n, NEW p, BeginsFile(s, e, n, p)
      PROVE  SoundInv'
    <2>1. /\ fat' = fat /\ e.start = dir[s].start /\ dir[s].start # 0 /\ Replaces(s, e)
          /\ s \in Slots /\ pc' = "write" /\ what' = "file" /\ cur' = dir[s].start /\ sec' = 0
        BY <1>8 DEF BeginsFile, Enter, Replaces
    <2>2. Views'
        BY <1>1, <2>1, BeginViews DEF Views
    <2>3. InUse(fat', cur')
        BY <1>1, <2>1, BeginViews, StartFacts
    <2>4. FileFirst'
        BY <1>1, <1>3, <2>1, BeginViews DEF FileFirst
    <2> QED
        BY <1>2, <1>3, <2>1, <2>2, <2>3, <2>4
        DEF SoundInv, AtCluster, Written, Reserved, Freeing
<1>9. ASSUME NEW s, NEW e, NEW c, NEW n, NEW p, BeginsNewFile(s, e, c, n, p)
      PROVE  SoundInv'
    <2>1. /\ fat' = [fat EXCEPT ![c] = LAST] /\ e.start = c /\ dir[s].start = 0
          /\ c \in Clusters /\ fat[c] = FREE /\ Replaces(s, e) /\ s \in Slots
          /\ pc' = "write" /\ what' = "file" /\ cur' = c /\ sec' = 0
        BY <1>9 DEF BeginsNewFile, Enter, Replaces
    <2>2. Sound(fat', dirents') /\ InUse(fat', cur')
        <3>1. DirChainKept(fat) /\ Sound(fat, dir) /\ dir \in Directory /\ fat \in FAT
            BY <1>1, <2>1, BeginViews DEF DirInv
        <3>2. \A t \in Slots : dirents'[t].start = IF t = s THEN c ELSE dir[t].start
            BY <1>1, <2>1, BeginViews
        <3>3. s \in Slots /\ c \in Clusters /\ fat[c] = FREE
            BY <2>1
        <3>4. \A d : (\A t \in Slots : d[t].start = IF t = s THEN c ELSE dir[t].start) =>
                /\ Sound([fat EXCEPT ![c] = LAST], d)
                /\ InUse([fat EXCEPT ![c] = LAST], c)
            BY <3>1, <3>3, AllocateFirst
        <3> QED
            BY <2>1, <3>2, <3>4
    <2>3. Views'
        BY <1>1, <2>1, <2>2, BeginViews DEF Views
    <2>4. FileFirst'
        BY <1>1, <1>3, <2>1, BeginViews DEF FileFirst
    <2>5. fat'[0] = LAST
        BY <1>1, <1>2, <2>1, ClusterFacts DEF FREE, TypeOK
    <2> QED
        BY <1>2, <1>3, <2>1, <2>2, <2>3, <2>4, <2>5
        DEF SoundInv, AtCluster, Written, Reserved, Freeing
<1> QED
    BY <1>1, <1>4, <1>5, <1>6, <1>7, <1>8, <1>9, BeginEffect

\* A block of the directory on its way to the card.
LEMMA DirectoryBlock ==
    ASSUME TypeOK, SoundInv, pc = "write", what = "dir", sec = 0, WriteBlock
    PROVE  /\ Sound(fat, dirents) /\ Sound(diskFat, dir') /\ Sound(diskFat, dirents)
           /\ OneChange(dir', dirents)
           /\ \A s \in Slots : BlockOf(s) <= offset + 1 => dir'[s] = dirents[s]
<1>1. \A s \in Slots : dir'[s] = IF BlockOf(s) = offset + 1 THEN dirents[s] ELSE dir[s]
    BY DEF WriteBlock
<1>2. /\ Sound(fat, dirents) /\ Sound(diskFat, dir) /\ Sound(diskFat, dirents)
      /\ OneChange(dir, dirents)
    BY DEF SoundInv, Views
<1>3. \A s \in Slots : dir'[s] \in {dir[s], dirents[s]}
    BY <1>1
<1>4. Sound(diskFat, dir') /\ OneChange(dir', dirents)
    BY <1>2, <1>3, HalfWrittenDirectory
<1>5. \A s \in Slots : BlockOf(s) <= offset => dir[s] = dirents[s]
    BY DEF SoundInv, Written
<1>6. ASSUME NEW s \in Slots, BlockOf(s) <= offset + 1
      PROVE  dir'[s] = dirents[s]
    <2>1. BlockOf(s) = offset + 1 \/ BlockOf(s) <= offset
        BY <1>6, BlockFacts, DirChainFacts DEF TypeOK
    <2> QED
        BY <1>1, <1>5, <2>1
<1> QED
    BY <1>2, <1>4, <1>6

\* write_fat_to_disk: with its last sector the card has memory's view.
LEMMA SyncSound == TypeInv /\ SoundInv /\ SyncStep => SoundInv'
<1> SUFFICES ASSUME TypeInv, SoundInv, SyncStep PROVE SoundInv'
    OBVIOUS
<1>1. /\ pc = "sync" /\ diskFat' = SyncedFat /\ fat' = fat /\ dir' = dir
      /\ fat \in FAT /\ diskFat \in FAT /\ sec \in Nat /\ what \in {"file", "dir"}
      /\ fat[0] = LAST /\ diskFat[0] = LAST
    BY DEF SyncStep, TypeInv, TypeOK, FAT, SoundInv, Reserved
<1>2. /\ Sound(fat, dirents) /\ OneChange(dir, dirents)
      /\ what = "file" => \A s \in Slots : dir[s].start \in {0, dirents[s].start}
      /\ what = "dir" => dir = dirents
    BY <1>1 DEF SoundInv, Views, FileFirst, Written
<1>3. Sound(fat, dir)
    BY <1>1, <1>2, FewerStarts
<1>4. /\ \A c \in 0 .. NEntries - 1 :
             c \div EntriesPerSector < sec + 1 => diskFat'[c] = fat[c]
      /\ ~(sec + 1 < NSectors) => diskFat' = fat
    <2>1. sec = 0 \/ Synced(sec)
        BY DEF SoundInv, Written
    <2> QED
        BY <1>1, <2>1, SectorSynced
<1>5. diskFat'[0] = LAST
    BY <1>1, ClusterFacts DEF SyncedFat, FAT
<1>6. CASE sec + 1 < NSectors
    <2>1. sec' = sec + 1 /\ UNCHANGED <<pc, dirents, what, cur, left, offset, payload>>
        BY <1>6 DEF SyncStep
    <2>2. Synced(sec)' /\ sec' # 0 /\ sec' < NSectors
        BY <1>1, <1>4, <1>6, <2>1 DEF Synced
    <2>3. Written'
        BY <1>1, <1>2, <2>1, <2>2 DEF Written
    <2>4. Views' /\ FileFirst' /\ AtCluster'
        BY <1>1, <1>2, <2>1, <2>2 DEF Views, FileFirst, AtCluster, Freeing
    <2> QED
        BY <1>1, <1>5, <2>3, <2>4 DEF SoundInv, Reserved
<1>7. CASE ~(sec + 1 < NSectors) /\ what = "file"
    <2>1. WriteDirectory /\ UNCHANGED dirents
        BY <1>7 DEF SyncStep
    <2>2. pc' = "write" /\ what' = "dir" /\ offset' = 0 /\ sec' = 0
        BY <2>1, WriteDirectoryLocals
    <2>3. Views'
        BY <1>1, <1>2, <1>3, <1>4, <1>7, <2>1 DEF Views
    <2> QED
        BY <1>1, <1>5, <2>1, <2>2, <2>3, BlockFacts
        DEF SoundInv, FileFirst, AtCluster, Written, Reserved, Freeing
<1>8. CASE ~(sec + 1 < NSectors) /\ what = "dir"
    <2>1. pc' = "idle" /\ what' = "dir" /\ sec' = 0 /\ dirents' = dir
        BY <1>8 DEF SyncStep, Stop, Enter
    <2>2. Views'
        BY <1>1, <1>3, <1>4, <1>8, <2>1 DEF Views, OneChange
    <2> QED
        BY <1>1, <1>4, <1>5, <1>8, <2>1, <2>2
        DEF SoundInv, FileFirst, AtCluster, Written, Reserved, Freeing
<1> QED
    BY <1>1, <1>6, <1>7, <1>8

LEMMA StepSound ==
    ASSUME TypeInv, DirInv, SoundInv, Step
    PROVE  SoundInv'
<1> SUFFICES ASSUME pc # "sync" PROVE SoundInv'
    BY SyncSound DEF Step, FreeStep, CutStep, WriteLastBlock, WriteNextBlock, WriteAndExtend,
                     TailStep, LbaAssertFails
<1>1. /\ TypeOK /\ fat \in FAT /\ diskFat \in FAT
      /\ dir \in Directory /\ dirents \in Directory
      /\ left \in Nat /\ offset \in Nat /\ what \in {"file", "dir"} /\ sec = 0
      /\ DirChainKept(fat) /\ fat[0] = LAST /\ diskFat[0] = LAST
    BY DEF TypeInv, TypeOK, FAT, Directory, SoundInv, Written, Reserved, DirInv
<1>2. /\ Sound(fat, dirents) /\ Sound(diskFat, dir) /\ OneChange(dir, dirents)
      /\ what = "dir" => Sound(diskFat, dirents)
      /\ what = "file" => /\ pc \in {"write", "tail", "sync"}
                          /\ \A s \in Slots : dir[s].start \in {0, dirents[s].start}
    BY <1>1 DEF SoundInv, Views, FileFirst
<1>3. what = "file" => Sound(fat, dir)
    BY <1>2, FewerStarts
<1>4. \A c : InUse(fat, c) => c # 0
    BY <1>1, InUseFacts
<1>5. CASE FreeStep
    <2>1. /\ pc = "free" /\ what = "dir" /\ InUse(fat, cur) /\ Unreferenced(fat, dirents, cur)
          /\ fat' = [fat EXCEPT ![cur] = FREE] /\ UNCHANGED <<diskFat, dir, dirents>>
        BY <1>1, <1>2, <1>5, WriteDirectoryLocals
        DEF FreeStep, card, SoundInv, AtCluster, Freeing
    <2>2. /\ Sound(fat', dirents)
          /\ fat[cur] # LAST => InUse(fat', fat[cur]) /\ Unreferenced(fat', dirents, fat[cur])
        BY <1>1, <1>2, <2>1, FreeHead
    <2>3. what' = "dir" /\ sec' = 0
        BY <1>1, <1>5, <2>1, WriteDirectoryLocals DEF FreeStep
    <2>4. Views'
        BY <1>2, <2>1, <2>2, <2>3 DEF Views
    <2>5. fat'[0] = LAST
        BY <1>1, <1>4, <2>1 DEF FAT
    <2>6. CASE EndsChain(fat[cur])
        <3>1. pc' = "write" /\ offset' = 0
            BY <1>5, <2>6, WriteDirectoryLocals DEF FreeStep
        <3> QED
            BY <1>1, <2>1, <2>3, <2>4, <2>5, <3>1, BlockFacts
            DEF SoundInv, FileFirst, AtCluster, Written, Reserved, Freeing
    <2>7. CASE ~EndsChain(fat[cur])
        <3>1. pc' = "free" /\ cur' = fat[cur]
            BY <1>5, <2>1, <2>7 DEF FreeStep
        <3>2. InUse(fat', cur') /\ Unreferenced(fat', dirents', cur')
            BY <2>1, <2>2, <2>7, <3>1 DEF EndsChain
        <3> QED
            BY <1>1, <2>1, <2>3, <2>4, <2>5, <3>1, <3>2
            DEF SoundInv, FileFirst, AtCluster, Written, Reserved, Freeing
    <2> QED
        BY <2>6, <2>7
<1>6. CASE TailStep
    <2>1. /\ pc = "tail" /\ what = "file" /\ what' = "file" /\ sec' = sec
          /\ InUse(fat, cur) /\ Unreferenced(fat, dirents, cur)
          /\ fat' = [fat EXCEPT ![cur] = FREE] /\ UNCHANGED <<diskFat, dir, dirents>>
        BY <1>1, <1>6 DEF TailStep, card, SoundInv, AtCluster, Freeing
    <2>2. /\ Sound(fat', dirents)
          /\ fat[cur] # LAST => InUse(fat', fat[cur]) /\ Unreferenced(fat', dirents, fat[cur])
        BY <1>1, <1>2, <2>1, FreeHead
    <2>3. Views'
        BY <1>2, <2>1, <2>2 DEF Views
    <2>4. fat'[0] = LAST
        BY <1>1, <1>4, <2>1 DEF FAT
    <2>5. pc' = "sync" \/ (pc' = "tail" /\ InUse(fat', cur') /\ Unreferenced(fat', dirents', cur'))
        BY <1>6, <2>1, <2>2 DEF TailStep, EndsChain
    <2>6. FileFirst'
        BY <1>2, <2>1, <2>5 DEF FileFirst
    <2> QED
        BY <1>1, <2>1, <2>3, <2>4, <2>5, <2>6 DEF SoundInv, AtCluster, Written, Reserved, Freeing
<1>7. CASE CutStep
    <2>1. /\ pc = "cut" /\ what = "dir" /\ UNCHANGED <<diskFat, dir, dirents>>
          /\ cur \in DOMAIN fat
        BY <1>1, <1>2, <1>7 DEF CutStep, card
    <2>2. what' = "dir" /\ sec' = 0
        BY <1>1, <1>7, <2>1, WriteDirectoryLocals DEF CutStep
    <2>3. SUFFICES /\ Sound(fat', dirents) /\ fat'[0] = LAST
                   /\ ~EndsChain(fat[cur]) =>
                        /\ left' > 0 => InUse(fat', fat[cur])
                        /\ left' = 0 => InUse(fat', fat[cur]) /\ Unreferenced(fat', dirents, fat[cur])
        <3>1. Views'
            BY <1>2, <2>1, <2>2, <2>3 DEF Views
        <3>2. CASE EndsChain(fat[cur])
            <4>1. pc' = "write" /\ offset' = 0
                BY <1>7, <3>2, WriteDirectoryLocals DEF CutStep
            <4> QED
                BY <1>1, <2>1, <2>2, <2>3, <3>1, <4>1, BlockFacts
                DEF SoundInv, FileFirst, AtCluster, Written, Reserved, Freeing
        <3>3. CASE ~EndsChain(fat[cur])
            <4>1. pc' = "cut" /\ cur' = fat[cur]
                BY <1>7, <2>1, <3>3 DEF CutStep
            <4> QED
                BY <1>1, <2>1, <2>2, <2>3, <3>1, <3>3, <4>1
                DEF SoundInv, FileFirst, AtCluster, Written, Reserved, Freeing
        <3> QED
            BY <3>2, <3>3
    <2>4. CASE left = 0
        <3>1. InUse(fat, cur) /\ Unreferenced(fat, dirents, cur)
            BY <2>1, <2>4 DEF SoundInv, AtCluster, Freeing
        <3>2. fat' = [fat EXCEPT ![cur] = FREE]
            BY <1>7, <2>4 DEF CutStep, CutsHere, BytesWrite
        <3>3. /\ Sound(fat', dirents)
              /\ fat[cur] # LAST => InUse(fat', fat[cur]) /\ Unreferenced(fat', dirents, fat[cur])
            BY <1>1, <1>2, <3>1, <3>2, FreeHead
        <3>4. fat'[0] = LAST
            BY <1>1, <1>4, <3>1, <3>2 DEF FAT
        <3> QED
            BY <3>3, <3>4 DEF EndsChain
    <2>5. CASE left > 0 /\ cur = 0
        <3>1. fat[cur] = LAST
            BY <1>1, <2>5
        <3>2. fat' = fat
            BY <1>1, <1>7, <2>5, <3>1 DEF CutStep, FAT
        <3> QED
            BY <1>1, <1>2, <3>1, <3>2 DEF EndsChain
    <2>6. CASE left > 0 /\ cur # 0
        <3>1. InUse(fat, cur)
            BY <2>1, <2>6 DEF SoundInv, AtCluster
        <3>2. CASE left = 1
            <4>1. fat' = [fat EXCEPT ![cur] = LAST]
                BY <1>7, <3>2 DEF CutStep, CutsHere, BytesWrite
            <4>2. /\ Sound(fat', dirents)
                  /\ fat[cur] # LAST => InUse(fat', fat[cur]) /\ Unreferenced(fat', dirents, fat[cur])
                BY <1>1, <1>2, <3>1, <4>1, EndChain
            <4>3. fat'[0] = LAST
                BY <1>1, <4>1 DEF FAT
            <4> QED
                BY <4>2, <4>3 DEF EndsChain
        <3>3. CASE left # 1
            <4>1. fat' = fat
                BY <1>1, <1>7, <2>6, <3>3 DEF CutStep, CutsHere, BytesWrite
            <4>2. fat[cur] # LAST => InUse(fat, fat[cur])
                BY <1>1, <1>2, <3>1, InUseFacts DEF Sound, NoDangling
            <4>3. ~EndsChain(fat[cur]) => left' > 0
                BY <1>1, <1>7, <2>6, <3>3 DEF CutStep, BytesWrite
            <4> QED
                BY <1>1, <1>2, <4>1, <4>2, <4>3 DEF EndsChain
        <3> QED
            BY <3>2, <3>3
    <2> QED
        BY <1>1, <2>4, <2>5, <2>6
<1>8. CASE WriteLastBlock
    <2>1. /\ pc = "write" /\ left = 1 /\ WriteBlock /\ UNCHANGED <<diskFat, dirents, what, sec>>
          /\ fat' = [fat EXCEPT ![cur] = LAST] /\ cur \in Clusters
        BY <1>8 DEF WriteLastBlock
    <2>2. fat'[0] = LAST
        BY <1>1, <2>1 DEF FAT
    <2>3. CASE what = "dir"
        <3>1. fat[cur] = LAST /\ fat' = fat
            BY <1>1, <2>1, <2>3, DirWriteFacts DEF FAT
        <3>2. pc' = "sync"
            BY <1>8, <3>1 DEF WriteLastBlock, EndsChain
        <3>3. /\ Sound(diskFat, dir') /\ Sound(diskFat, dirents) /\ OneChange(dir', dirents)
              /\ \A s \in Slots : BlockOf(s) <= offset + 1 => dir'[s] = dirents[s]
            BY <1>1, <2>1, <2>3, DirectoryBlock
        <3>4. offset + 1 = Len(DirChain)
            BY <2>1, <2>3 DEF DirInv, DirPosition
        <3>5. \A s \in Slots : dir'[s] = dirents[s]
            BY <3>3, <3>4, BlockFacts, DirChainFacts
        <3>6. dir' \in [Slots -> Dirent]
            BY <2>1, WriteBlockType
        <3>7. dir' = dirents'
            BY <1>1, <2>1, <3>5, <3>6 DEF Directory
        <3>8. Views'
            BY <1>2, <2>1, <3>1, <3>3 DEF Views
        <3> QED
            BY <1>1, <2>1, <2>2, <2>3, <3>2, <3>7, <3>8
            DEF SoundInv, FileFirst, AtCluster, Written, Reserved, Freeing
    <2>4. CASE what = "file"
        <3>1. UNCHANGED dir
            BY <2>1, <2>4 DEF WriteBlock
        <3>2. InUse(fat, cur)
            BY <2>1, <2>4 DEF SoundInv, AtCluster
        <3>3. /\ Sound(fat', dirents)
              /\ fat[cur] # LAST => InUse(fat', fat[cur]) /\ Unreferenced(fat', dirents, fat[cur])
            BY <1>1, <1>2, <2>1, <3>2, EndChain
        <3>4. pc' = "sync" \/ (pc' = "tail" /\ InUse(fat', cur') /\ Unreferenced(fat', dirents', cur'))
            BY <1>8, <2>1, <3>3 DEF WriteLastBlock, EndsChain
        <3>5. Views'
            BY <1>2, <2>1, <2>4, <3>1, <3>3 DEF Views
        <3>6. FileFirst'
            BY <1>2, <2>1, <2>4, <3>1, <3>4 DEF FileFirst
        <3> QED
            BY <1>1, <2>1, <2>2, <2>4, <3>4, <3>5, <3>6
            DEF SoundInv, AtCluster, Written, Reserved, Freeing
    <2> QED
        BY <1>1, <2>3, <2>4
<1>9. CASE WriteNextBlock
    <2>1. /\ pc = "write" /\ pc' = "write" /\ left > 1 /\ WriteBlock
          /\ UNCHANGED <<fat, diskFat, dirents, what, sec>>
          /\ cur' = fat[cur] /\ offset' = offset + 1 /\ ~EndsChain(fat[cur])
        BY <1>9 DEF WriteNextBlock
    <2>2. CASE what = "dir"
        <3>1. /\ Sound(diskFat, dir') /\ Sound(diskFat, dirents) /\ OneChange(dir', dirents)
              /\ \A s \in Slots : BlockOf(s) <= offset + 1 => dir'[s] = dirents[s]
            BY <1>1, <2>1, <2>2, DirectoryBlock
        <3>2. Views'
            BY <1>2, <2>1, <3>1 DEF Views
        <3> QED
            BY <1>1, <2>1, <2>2, <3>1, <3>2
            DEF SoundInv, FileFirst, AtCluster, Written, Reserved, Freeing
    <2>3. CASE what = "file"
        <3>1. UNCHANGED dir
            BY <2>1, <2>3 DEF WriteBlock
        <3>2. InUse(fat', cur')
            <4>1. InUse(fat, cur)
                BY <2>1, <2>3 DEF SoundInv, AtCluster
            <4> QED
                BY <1>1, <1>2, <2>1, <4>1, InUseFacts DEF Sound, NoDangling, EndsChain
        <3>3. Views'
            BY <1>2, <2>1, <2>3, <3>1 DEF Views
        <3>4. FileFirst'
            BY <1>2, <2>1, <2>3, <3>1 DEF FileFirst
        <3> QED
            BY <1>1, <2>1, <2>3, <3>2, <3>3, <3>4
            DEF SoundInv, AtCluster, Written, Reserved, Freeing
    <2> QED
        BY <1>1, <2>2, <2>3
<1>10. CASE WriteAndExtend
    <2>1. /\ pc = "write" /\ left > 1 /\ WriteBlock /\ UNCHANGED diskFat
          /\ EndsChain(fat[cur]) /\ fat[cur] = LAST
        BY <1>10 DEF WriteAndExtend, EndsChain
    <2>2. what = "file" /\ UNCHANGED dir
        BY <1>1, <2>1, DirWriteFacts DEF WriteBlock
    <2>3. InUse(fat, cur)
        BY <2>1, <2>2 DEF SoundInv, AtCluster
    <2>4. ASSUME NEW c \in FreeFrom(cur),
                 fat' = [fat EXCEPT ![cur] = c, ![c] = LAST], cur' = c,
                 UNCHANGED <<pc, dirents, what, sec>>
          PROVE  SoundInv'
        <3>1. c \in Clusters /\ fat[c] = FREE
            BY DEF FreeFrom, Clusters
        <3>2. Sound(fat', dirents) /\ InUse(fat', c)
            BY <1>1, <1>2, <2>1, <2>3, <2>4, <3>1, ExtendChain
        <3>3. Views'
            BY <1>2, <2>1, <2>2, <2>4, <3>2 DEF Views
        <3>4. FileFirst'
            BY <1>2, <2>1, <2>2, <2>4 DEF FileFirst
        <3>5. fat'[0] = LAST
            BY <1>1, <1>4, <2>3, <2>4, <3>1, ClusterFacts DEF FAT, FREE
        <3> QED
            BY <1>1, <2>1, <2>2, <2>4, <3>2, <3>3, <3>4, <3>5
            DEF SoundInv, AtCluster, Written, Reserved, Freeing
    <2>5. CASE Stop("panic") /\ dirents' = dir' /\ UNCHANGED fat
        <3>1. pc' = "panic" /\ what' = "dir" /\ sec' = 0
            BY <2>5 DEF Stop, Enter
        <3>2. Views'
            BY <1>2, <1>3, <2>1, <2>2, <2>5, <3>1 DEF Views, OneChange
        <3> QED
            BY <1>1, <2>1, <2>2, <2>5, <3>1, <3>2
            DEF SoundInv, FileFirst, AtCluster, Written, Reserved, Freeing
    <2> QED
        BY <1>10, <2>4, <2>5 DEF WriteAndExtend
<1>11. CASE SyncStep
    BY <1>11 DEF SyncStep
<1>12. CASE LbaAssertFails
    <2>1. pc = "write" /\ cur < 2
        BY <1>12 DEF LbaAssertFails
    <2>2. cur \in Clusters
        <3>1. CASE what = "file"
            BY <1>1, <2>1, <3>1 DEF SoundInv, AtCluster, InUse
        <3>2. CASE what = "dir"
            <4>1. cur = DirChain[offset + 1] /\ offset + left = Len(DirChain) /\ left >= 1
                BY <2>1, <3>2 DEF DirInv, DirPosition, TypeInv, Writing
            <4>2. offset + 1 \in 1 .. Len(DirChain)
                BY <1>1, <4>1, DirChainFacts
            <4> QED
                BY <4>1, <4>2, DirChainFacts
        <3> QED
            BY <1>1, <3>1, <3>2
    <2> QED
        BY <2>1, <2>2 DEF Clusters
<1> QED
    BY <1>5, <1>6, <1>7, <1>8, <1>9, <1>10, <1>11, <1>12 DEF Step

\* The power fails, or a panic is restarted, between two syncs of the FAT.
LEMMA WholeAtBoot ==
    ASSUME Careful, TypeOK, SoundInv, PowerLoss \/ Restart
    PROVE  sec = 0
<1>1. sec # 0 => pc = "sync" /\ sec < NSectors /\ sec \in Nat
    BY DEF SoundInv, Written, TypeOK
<1>2. CASE PowerLoss
    <2>1. CASE sec = 0
        BY <2>1
    <2>2. CASE TearResumed
        <3>1. NSectors = 1
            BY <1>2, <2>2, OneSector DEF PowerLoss, Careful, TornCardIsLeft
        <3> QED
            BY <1>1, <3>1
    <2> QED
        BY <1>2, <2>1, <2>2 DEF PowerLoss
<1>3. CASE Restart
    BY <1>1, <1>3 DEF Restart
<1> QED
    BY <1>2, <1>3

\* So the card has a sound view then.
LEMMA BootSound ==
    ASSUME Careful, TypeOK, SoundInv, PowerLoss \/ Restart
    PROVE  SoundInv'
<1>1. sec = 0 /\ Boot
    BY WholeAtBoot DEF PowerLoss, Restart
<1> QED
    BY <1>1 DEF Boot, Stop, Enter, card, SoundInv, Views, FileFirst, AtCluster, Written,
                Reserved, Freeing, OneChange

LEMMA VolumeInv ==
    ASSUME Careful
    PROVE  Spec => [](TypeInv /\ SoundInv)
<1>1. Init => TypeInv /\ DirInv /\ SoundInv
    BY TypeInit, DirInit, SoundInit
<1>2. TypeInv /\ DirInv /\ SoundInv /\ [Next]_vars => (TypeInv /\ DirInv /\ SoundInv)'
    <2> SUFFICES ASSUME TypeInv, DirInv, SoundInv, [Next]_vars
                 PROVE  TypeInv' /\ DirInv' /\ SoundInv'
        OBVIOUS
    <2>1. CASE UNCHANGED vars
        BY <2>1 DEF vars, TypeInv, TypeOK, Writing, DirInv, DirPosition, AvoidsDir,
                    DirChainKept, StartsAvoidDir, SoundInv, Views, FileFirst, AtCluster,
                    Written, Synced, Reserved, Freeing
    <2>2. CASE Begin
        BY <2>2, BeginType, BeginDirInv, BeginSound
    <2>3. CASE Step
        BY <2>3, StepType, StepDirInv, StepSound
    <2>4. CASE PowerLoss \/ Restart
        <3>1. Boot /\ TypeOK
            BY <2>4 DEF PowerLoss, Restart, TypeInv
        <3> QED
            BY <2>4, <3>1, BootType, BootDirInv, BootSound
    <2> QED
        BY <2>1, <2>2, <2>3, <2>4 DEF Next
<1> QED
    BY <1>1, <1>2, PTL DEF Spec

\* A file's chain never leads into a free cluster or into another file's, in
\* memory at any step, for callers that truncate no file to nothing, with a FAT
\* of any number of sectors, whatever power failures come between; a card that
\* a failure has left between two sectors of the FAT is not used again.
THEOREM MemoryStaysSound ==
    ASSUME Careful
    PROVE  Spec => []MemorySound
<1>1. TypeInv /\ SoundInv => MemorySound
    BY DEF SoundInv, Views, AtCluster, MemorySound
<1> QED
    BY <1>1, VolumeInv, PTL

\* And so it is on the card, for the same callers, whenever the power fails but
\* between two sectors of a FAT that is being written: the order in which the
\* calls sync the FAT and the directory never leaves the one pointing to what
\* the other has freed.
THEOREM VolumeSound ==
    ASSUME Careful
    PROVE  Spec => [](MemorySound /\ DiskSound)
<1>1. TypeInv /\ SoundInv => DiskSound
    BY DEF SoundInv, Views, DiskSound
<1> QED
    BY <1>1, VolumeInv, MemoryStaysSound, PTL

-----------------------------------------------------------------------------
(***************************************************************************)
(* Names: no two files of one name with an extension, at any step of a     *)
(* call and after any power failure, for callers that rename no file to a  *)
(* name that is taken.                                                     *)
(***************************************************************************)
Distinct(d) ==
    \A s, t \in Slots : d[s].name = d[t].name /\ d[s].name \in DottedNames => s = t

(***************************************************************************)
(* The invariant.  A directory of which some blocks are written mixes the  *)
(* card's with the call's, so it matters that these differ in one slot.    *)
(***************************************************************************)
NamesInv ==
    /\ Distinct(dir) /\ Distinct(dirents)
    /\ OneChange(dir, dirents)
    /\ pc = "idle" => dirents = dir

\* One slot gets a name that no other slot has, or keeps its own.
LEMMA NewName ==
    ASSUME TypeOK, Distinct(dir), NEW s \in Slots, NEW x,
           \/ x.name = dir[s].name
           \/ x.name \notin DottedNames
           \/ \A t \in Slots : dir[t].name # x.name,
           dirents' = [dir EXCEPT ![s] = x]
    PROVE  Distinct(dirents') /\ OneChange(dir, dirents')
<1>1. \A t \in Slots : dirents'[t] = IF t = s THEN x ELSE dir[t]
    BY DEF TypeOK
<1>2. Distinct(dirents')
    BY <1>1 DEF Distinct
<1>3. OneChange(dir, dirents')
    BY <1>1 DEF OneChange
<1> QED
    BY <1>2, <1>3

\* Some blocks of the call's directory are on the card, some are not.
LEMMA MixedNames ==
    ASSUME NEW d, NEW e, Distinct(d), Distinct(e), OneChange(d, e),
           NEW m, \A s \in Slots : m[s] \in {d[s], e[s]}
    PROVE  Distinct(m) /\ OneChange(m, e)
<1>1. ASSUME NEW s \in Slots, NEW t \in Slots, m[s].name = m[t].name,
             m[s].name \in DottedNames, s # t
      PROVE  FALSE
    <2>1. (m[s] = d[s] /\ m[t] = d[t]) \/ (m[s] = e[s] /\ m[t] = e[t])
        BY <1>1 DEF OneChange
    <2> QED
        BY <1>1, <2>1 DEF Distinct
<1>2. OneChange(m, e)
    BY DEF OneChange
<1> QED
    BY <1>1, <1>2 DEF Distinct

LEMMA BeginNames ==
    ASSUME "rename_over" \notin Calls, TypeOK, NamesInv, Begin
    PROVE  NamesInv'
<1>1. pc = "idle" /\ dirents = dir /\ Distinct(dir) /\ UNCHANGED dir
    BY BeginEffect DEF NamesInv, card
<1>2. SUFFICES ASSUME TRUE
             PROVE  Distinct(dirents') /\ OneChange(dir, dirents') /\ pc' # "idle"
    BY <1>1 DEF NamesInv
<1>3. pc' # "idle"
    BY DEF Begin, Create, Rename, Delete, Truncate, Write, Stop, WriteDirectory, Enter
<1>4. ASSUME UNCHANGED dirents
      PROVE  Distinct(dirents') /\ OneChange(dir, dirents')
    BY <1>1, <1>4 DEF OneChange
<1>5. NoName \notin DottedNames
    BY NameAssumption DEF Names
<1>6. ASSUME NEW name \in Names, Create(name)
      PROVE  Distinct(dirents') /\ OneChange(dir, dirents')
    <2>1. CASE UNCHANGED dirents
        BY <1>4, <2>1
    <2>2. CASE \E s \in Slots :
                  dirents' = [dir EXCEPT ![s] = [name |-> name, size |-> 0, start |-> 0]]
        <3>1. name \notin DottedNames \/ \A t \in Slots : dir[t].name # name
            BY <1>6 DEF Create, Matches
        <3> DEFINE x == [name |-> name, size |-> 0, start |-> 0]
        <3>2. x.name = name
            OBVIOUS
        <3> HIDE DEF x
        <3> QED
            BY <1>1, <2>2, <3>1, <3>2, NewName DEF x
    <2> QED
        BY <1>6, <2>1, <2>2 DEF Create
<1>7. ASSUME NEW oldname \in Names, NEW newname \in Names, Rename(oldname, newname)
      PROVE  Distinct(dirents') /\ OneChange(dir, dirents')
    <2>1. PICK s \in Slots : dirents' = [dir EXCEPT ![s].name = newname]
        BY <1>7 DEF Rename, Matches
    <2> DEFINE x == [dir[s] EXCEPT !.name = newname]
    <2>2. x.name = newname
        BY DEF TypeOK, Dirent
    <2>3. dirents' = [dir EXCEPT ![s] = x]
        BY <2>1
    <2>4. \A t \in Slots : dir[t].name # newname
        BY <1>7 DEF Rename
    <2> HIDE DEF x
    <2> QED
        BY <1>1, <2>2, <2>3, <2>4, NewName
<1>8. ASSUME NEW name \in Names, Delete(name)
      PROVE  Distinct(dirents') /\ OneChange(dir, dirents')
    <2>1. PICK s \in Slots : dirents' = [dir EXCEPT ![s] = FreeDirent]
        BY <1>8 DEF Delete, Matches
    <2>2. FreeDirent.name = NoName
        BY DEF FreeDirent
    <2> QED
        BY <1>1, <1>5, <2>1, <2>2, NewName
<1>9. ASSUME NEW name \in Names, NEW length \in 0 .. MaxLength, Truncate(name, length)
      PROVE  Distinct(dirents') /\ OneChange(dir, dirents')
    <2>1. PICK s \in Slots : dirents' = [dir EXCEPT ![s].size = length]
        BY <1>9 DEF Truncate, Matches
    <2> DEFINE x == [dir[s] EXCEPT !.size = length]
    <2>2. x.name = dir[s].name
        BY DEF TypeOK, Dirent
    <2>3. dirents' = [dir EXCEPT ![s] = x]
        BY <2>1
    <2> HIDE DEF x
    <2> QED
        BY <1>1, <2>2, <2>3, NewName
<1>10. ASSUME NEW name \in Names, NEW length \in 0 .. MaxLength,
              NEW bytes \in Payloads, Write(name, length, bytes)
       PROVE  Distinct(dirents') /\ OneChange(dir, dirents')
    <2>1. CASE UNCHANGED dirents
        BY <1>4, <2>1
    <2>2. ASSUME NEW s \in Slots, dirents' = [dir EXCEPT ![s].size = length]
          PROVE  Distinct(dirents') /\ OneChange(dir, dirents')
        <3> DEFINE x == [dir[s] EXCEPT !.size = length]
        <3>1. x.name = dir[s].name
            BY DEF TypeOK, Dirent
        <3>2. dirents' = [dir EXCEPT ![s] = x]
            BY <2>2
        <3> HIDE DEF x
        <3> QED
            BY <1>1, <3>1, <3>2, NewName
    <2>3. ASSUME NEW s \in Slots, NEW c,
                 dirents' = [[dir EXCEPT ![s].size = length] EXCEPT ![s].start = c]
          PROVE  Distinct(dirents') /\ OneChange(dir, dirents')
        <3> DEFINE x == [[dir[s] EXCEPT !.size = length] EXCEPT !.start = c]
        <3>1. x.name = dir[s].name
            BY DEF TypeOK, Dirent
        <3>2. dirents' = [dir EXCEPT ![s] = x]
            BY <2>3 DEF TypeOK
        <3> HIDE DEF x
        <3> QED
            BY <1>1, <3>1, <3>2, NewName
    <2> QED
        BY <1>10, <2>1, <2>2, <2>3 DEF Write, Matches
<1> QED
    BY <1>3, <1>6, <1>7, <1>8, <1>9, <1>10 DEF Begin

LEMMA StepNames == ASSUME TypeOK, NamesInv, Step PROVE NamesInv'
<1>1. \A s \in Slots : dir'[s] \in {dir[s], dirents[s]}
    BY DEF Step, FreeStep, CutStep, WriteLastBlock, WriteNextBlock, WriteAndExtend,
           WriteBlock, TailStep, SyncStep, LbaAssertFails, card
<1>2. dirents' = dirents \/ dirents' = dir'
    BY DEF Step, FreeStep, CutStep, WriteLastBlock, WriteNextBlock, WriteAndExtend,
           TailStep, SyncStep, LbaAssertFails, card
<1>3. pc' = "idle" => dirents' = dir'
    BY DEF Step, FreeStep, CutStep, WriteLastBlock, WriteNextBlock, WriteAndExtend,
           TailStep, SyncStep, LbaAssertFails, Stop, WriteDirectory, Enter, card
<1>4. Distinct(dir') /\ OneChange(dir', dirents)
    BY <1>1, MixedNames DEF NamesInv
<1>5. dirents' = dirents => NamesInv'
    BY <1>3, <1>4 DEF NamesInv
<1>6. dirents' = dir' => NamesInv'
    BY <1>4 DEF NamesInv, OneChange
<1> QED
    BY <1>2, <1>5, <1>6

LEMMA BootNames == ASSUME NamesInv, Boot PROVE NamesInv'
BY DEF Boot, Stop, Enter, card, NamesInv, Distinct, OneChange

\* No two dirents of the same name with an extension, on the card or in a call,
\* wherever the power fails: fat32_create's look-up is enough for callers that
\* rename nothing to a name that is taken.
THEOREM NamesUnique ==
    ASSUME "rename_over" \notin Calls
    PROVE  Spec => []UniqueDottedNames
<1>1. Init => TypeInv /\ NamesInv
    <2>1. Init => NamesInv
        BY NameAssumption DEF Init, NamesInv, Distinct, OneChange, FreeDirent, Names
    <2> QED
        BY <2>1, TypeInit
<1>2. TypeInv /\ NamesInv /\ [Next]_vars => (TypeInv /\ NamesInv)'
    <2> SUFFICES ASSUME TypeInv, TypeOK, NamesInv, [Next]_vars PROVE TypeInv' /\ NamesInv'
        BY DEF TypeInv
    <2>1. CASE UNCHANGED vars
        BY <2>1 DEF vars, TypeInv, TypeOK, Writing, NamesInv, Distinct, OneChange
    <2> QED
        BY <2>1, BeginType, StepType, BootType, BeginNames, StepNames, BootNames
        DEF Next, PowerLoss, Restart
<1>3. NamesInv => UniqueDottedNames
    BY DEF NamesInv, Distinct, UniqueDottedNames
<1> QED
    BY <1>1, <1>2, <1>3, PTL DEF Spec
-----------------------------------------------------------------------------
(***************************************************************************)
(* What a chain contains, for a driver whose power stays on and callers    *)
(* that cut no file to nothing or beyond its end (Steady).  Walk is a      *)
(* recursive function, so this begins with induction: a set of numbers     *)
(* that contains 0 and the successor of each of its members contains them  *)
(* all, since any others would have a least one.                           *)
(***************************************************************************)
\* Induction over the natural numbers, for a set of them.
LEMMA SetInduction ==
    ASSUME NEW T, 0 \in T, \A k \in Nat : k \in T => k + 1 \in T
    PROVE  Nat \subseteq T
<1> SUFFICES ASSUME Nat \ T # {} PROVE FALSE
    OBVIOUS
<1> DEFINE R == OpToRel(<, Nat)
<1>1. IsWellFoundedOn(R, Nat)
    BY NatLessThanWellFounded
<1>2. \A x, y \in Nat : x < y => <<x, y>> \in R
    BY DEF OpToRel
<1> HIDE DEF R
<1>3. Nat \ T \subseteq Nat
    OBVIOUS
<1>4. \E x \in Nat \ T : \A y \in Nat \ T : ~(<<y, x>> \in R)
    BY <1>1, <1>3, WFMin
<1>5. PICK x \in Nat \ T : \A y \in Nat \ T : ~(<<y, x>> \in R)
    BY <1>4
<1>6. x # 0 /\ x \in Nat
    BY <1>5
<1>7. x - 1 \in Nat /\ x - 1 < x
    BY <1>6
<1>8. x - 1 \in T
    BY <1>2, <1>5, <1>7
<1> QED
    BY <1>5, <1>6, <1>7, <1>8

\* One step along a chain.
Onward(f, x) == IF x \in Clusters THEN f[x] ELSE LAST

\* The first n steps of the walk from c along the FAT f.
WalksTo(w, f, c, n) ==
    /\ w \in [0 .. n -> Entries] /\ w[0] = c
    /\ \A k \in 1 .. n : w[k] = Onward(f, w[k - 1])

\* The recursive function of Walk exists, so that it walks along the FAT.
LEMMA WalkExists ==
    ASSUME NEW f \in FAT, NEW c \in Entries, NEW m \in Nat
    PROVE  \E w : WalksTo(w, f, c, m)
<1> DEFINE T == {n \in Nat : \E w : WalksTo(w, f, c, n)}
<1>1. 0 \in T
    <2>1. WalksTo([k \in 0 .. 0 |-> c], f, c, 0)
        BY DEF WalksTo
    <2> QED
        BY <2>1
<1>2. ASSUME NEW n \in Nat, n \in T
      PROVE  n + 1 \in T
    <2>1. PICK w : WalksTo(w, f, c, n)
        BY <1>2
    <2>2. w \in [0 .. n -> Entries] /\ w[0] = c /\ \A k \in 1 .. n : w[k] = Onward(f, w[k - 1])
        BY <2>1 DEF WalksTo
    <2>3. \A x \in Entries : Onward(f, x) \in Entries
        BY ClusterFacts DEF Onward, FAT
    <2> DEFINE e == Onward(f, w[n])
               v == [k \in 0 .. n + 1 |-> IF k = n + 1 THEN e ELSE w[k]]
    <2>4. e \in Entries
        BY <2>2, <2>3
    <2> HIDE DEF e
    <2>5. v \in [0 .. n + 1 -> Entries]
        BY <2>2, <2>4
    <2>6. v[0] = c
        BY <2>2
    <2>7. ASSUME NEW k \in 1 .. n + 1
          PROVE  v[k] = Onward(f, v[k - 1])
        <3>1. CASE k = n + 1
            BY <3>1 DEF e
        <3>2. CASE k # n + 1
            <4>1. k \in 1 .. n /\ k - 1 \in 0 .. n
                BY <3>2
            <4>2. v[k] = w[k] /\ v[k - 1] = w[k - 1]
                BY <4>1
            <4> QED
                BY <2>2, <4>1, <4>2
        <3> QED
            BY <3>1, <3>2
    <2>8. WalksTo(v, f, c, n + 1)
        BY <2>5, <2>6, <2>7 DEF WalksTo
    <2> QED
        BY <2>8
<1>3. Nat \subseteq T
    <2> HIDE DEF T
    <2> QED
        BY <1>1, <1>2, SetInduction
<1> QED
    BY <1>3

LEMMA WalkFacts ==
    ASSUME NEW f \in FAT, NEW c \in Entries
    PROVE  WalksTo(Walk(f, c), f, c, NEntries)
<1>1. NEntries \in Nat
    BY ClusterFacts
<1>2. PICK w : WalksTo(w, f, c, NEntries)
    BY <1>1, WalkExists
<1>3. w \in [0 .. NEntries -> Entries] /\ w[0] = c
      /\ \A k \in 1 .. NEntries : w[k] = Onward(f, w[k - 1])
    BY <1>2 DEF WalksTo
<1>4. w = [k \in 0 .. NEntries |->
              IF k = 0 THEN c ELSE IF w[k-1] \in Clusters THEN f[w[k-1]] ELSE LAST]
    <2>1. \A k \in 0 .. NEntries :
              w[k] = IF k = 0 THEN c ELSE IF w[k-1] \in Clusters THEN f[w[k-1]] ELSE LAST
        BY <1>1, <1>3 DEF Onward
    <2> QED
        BY <1>3, <2>1
<1> DEFINE v == Walk(f, c)
<1>5. v = [k \in 0 .. NEntries |->
              IF k = 0 THEN c ELSE IF v[k-1] \in Clusters THEN f[v[k-1]] ELSE LAST]
    BY <1>4, Zenon DEF Walk
<1> HIDE DEF v
<1>6. v[0] = c /\ DOMAIN v = 0 .. NEntries
    BY <1>1, <1>5
<1>7. \A k \in 1 .. NEntries : v[k] = Onward(f, v[k - 1])
    BY <1>1, <1>5 DEF Onward
<1>8. \A k \in Nat : k <= NEntries => v[k] = w[k]
    <2> DEFINE T == {k \in Nat : k <= NEntries => v[k] = w[k]}
    <2>1. 0 \in T
        BY <1>3, <1>6
    <2>2. ASSUME NEW k \in Nat, k \in T
          PROVE  k + 1 \in T
        <3>1. CASE k + 1 <= NEntries
            <4>1. k + 1 \in 1 .. NEntries /\ k <= NEntries
                BY <1>1, <3>1
            <4>2. v[k + 1] = Onward(f, v[k]) /\ w[k + 1] = Onward(f, w[k])
                BY <1>3, <1>7, <4>1
            <4> QED
                BY <2>2, <4>1, <4>2
        <3> QED
            BY <3>1
    <2>3. Nat \subseteq T
        <3> HIDE DEF T
        <3> QED
            BY <2>1, <2>2, SetInduction
    <2> QED
        BY <2>3
<1>9. v \in [0 .. NEntries -> Entries]
    BY <1>1, <1>3, <1>5, <1>6, <1>8
<1> QED
    BY <1>6, <1>7, <1>9 DEF WalksTo, v

(***************************************************************************)
(* Numbered chains.  o[c] is the slot whose file the cluster c belongs to, *)
(* or 0 for the chain that belongs to no file any more and starts at x     *)
(* (x = 0 when there is none); n[c] is its place in that chain, from 0.    *)
(***************************************************************************)
Ids == Slots \union {0}

HeadOf(d, x, i) == IF i = 0 THEN x ELSE d[i].start

HeadsFirst(f, d, x, o, n) ==
    \A i \in Ids : HeadOf(d, x, i) # 0 =>
        /\ InUse(f, HeadOf(d, x, i))
        /\ o[HeadOf(d, x, i)] = i /\ n[HeadOf(d, x, i)] = 0

LinksFollow(f, o, n) ==
    \A c \in Clusters : InUse(f, c) /\ f[c] # LAST =>
        InUse(f, f[c]) /\ o[f[c]] = o[c] /\ n[f[c]] = n[c] + 1

\* Every cluster in use is a first one or has one before it: none is lost.
Rooted(f, d, x, o, n) ==
    \A c \in Clusters : InUse(f, c) =>
        IF n[c] = 0 THEN c = HeadOf(d, x, o[c])
                    ELSE \E p \in Clusters : InUse(f, p) /\ f[p] = c

Apart(f, o, n) ==
    \A c, e \in Clusters : InUse(f, c) /\ InUse(f, e) /\ o[c] = o[e] /\ n[c] = n[e] => c = e

Numbered(f, d, x, o, n) ==
    /\ o \in [Clusters -> Ids] /\ n \in [Clusters -> Nat]
    /\ HeadsFirst(f, d, x, o, n) /\ LinksFollow(f, o, n)
    /\ Rooted(f, d, x, o, n) /\ Apart(f, o, n)

\* The chain of slot s does not end before its size.
Backed(f, d, o, n, s) ==
    \A c \in Clusters : InUse(f, c) /\ o[c] = s /\ f[c] = LAST => n[c] + 1 >= d[s].size

\* Before a cluster there is one at every lower place of its chain.
LEMMA PlacesBelow ==
    ASSUME NEW f \in FAT, NEW d, NEW x, NEW o, NEW n, Numbered(f, d, x, o, n),
           NEW c \in Clusters, InUse(f, c), NEW k \in 0 .. n[c]
    PROVE  \E p \in Clusters : InUse(f, p) /\ o[p] = o[c] /\ n[p] = k
<1> DEFINE T == {j \in Nat : j <= n[c] =>
                    \E p \in Clusters : InUse(f, p) /\ o[p] = o[c] /\ n[p] = n[c] - j}
<1>1. n \in [Clusters -> Nat] /\ n[c] \in Nat
    BY DEF Numbered
<1>2. 0 \in T
    BY <1>1
<1>3. ASSUME NEW j \in Nat, j \in T
      PROVE  j + 1 \in T
    <2>1. CASE j + 1 <= n[c]
        <3>1. PICK p \in Clusters : InUse(f, p) /\ o[p] = o[c] /\ n[p] = n[c] - j
            BY <1>1, <1>3, <2>1
        <3>2. n[p] # 0
            BY <1>1, <2>1, <3>1
        <3>3. PICK q \in Clusters : InUse(f, q) /\ f[q] = p
            BY <3>1, <3>2 DEF Numbered, Rooted
        <3>4. o[p] = o[q] /\ n[p] = n[q] + 1
            BY <3>1, <3>3, InUseFacts DEF Numbered, LinksFollow
        <3>5. n[q] = n[c] - (j + 1)
            BY <1>1, <3>1, <3>4
        <3> QED
            BY <3>1, <3>3, <3>4, <3>5
    <2>2. CASE ~(j + 1 <= n[c])
        BY <2>2
    <2> QED
        BY <2>1, <2>2
<1>4. Nat \subseteq T
    <2> HIDE DEF T
    <2> QED
        BY <1>2, <1>3, SetInduction
<1>5. n[c] - k \in Nat /\ n[c] - k <= n[c] /\ n[c] - (n[c] - k) = k
    BY <1>1
<1> QED
    BY <1>4, <1>5

\* A cluster in use belongs to a chain with a head.
LEMMA HasHead ==
    ASSUME NEW f \in FAT, NEW d, NEW x, NEW o, NEW n, Numbered(f, d, x, o, n),
           NEW c \in Clusters, InUse(f, c)
    PROVE  HeadOf(d, x, o[c]) \in Clusters
<1>1. 0 \in 0 .. n[c]
    BY DEF Numbered
<1>2. PICK p \in Clusters : InUse(f, p) /\ o[p] = o[c] /\ n[p] = 0
    BY <1>1, PlacesBelow
<1> QED
    BY <1>2 DEF Numbered, Rooted

\* There are no more places in a chain than clusters.
LEMMA PlaceBound ==
    ASSUME NEW f \in FAT, NEW d, NEW x, NEW o, NEW n, Numbered(f, d, x, o, n),
           NEW c \in Clusters, InUse(f, c)
    PROVE  n[c] < NEntries
<1>1. n[c] \in Nat /\ NEntries \in Nat /\ NEntries > 2
    BY ClusterFacts DEF Numbered
<1> SUFFICES ASSUME n[c] >= NEntries PROVE FALSE
    BY <1>1
<1> DEFINE at == [k \in 0 .. n[c] |->
                     CHOOSE p \in Clusters : InUse(f, p) /\ o[p] = o[c] /\ n[p] = k]
<1>2. ASSUME NEW k \in 0 .. n[c]
      PROVE  at[k] \in Clusters /\ n[at[k]] = k
    <2>1. \E p \in Clusters : InUse(f, p) /\ o[p] = o[c] /\ n[p] = k
        BY PlacesBelow
    <2> QED
        BY <2>1
<1>3. at \in [0 .. n[c] -> Clusters]
    BY <1>2
<1> HIDE DEF at
<1>4. IsFiniteSet(0 .. n[c]) /\ Cardinality(0 .. n[c]) = n[c] + 1
    <2>1. 0 \in Int /\ n[c] \in Int /\ ~(0 > n[c])
        BY <1>1
    <2> QED
        BY <2>1, FS_Interval
<1>5. IsFiniteSet(Clusters) /\ Cardinality(Clusters) = NEntries - 2
    <2>1. 2 \in Int /\ NEntries - 1 \in Int /\ ~(2 > NEntries - 1)
        BY <1>1
    <2>2. IsFiniteSet(2 .. (NEntries - 1))
          /\ Cardinality(2 .. (NEntries - 1)) = (NEntries - 1) - 2 + 1
        BY <2>1, FS_Interval
    <2> QED
        BY <1>1, <2>2 DEF Clusters
<1>6. Cardinality(Clusters) < Cardinality(0 .. n[c])
    BY <1>1, <1>4, <1>5
<1>7. \E j, k \in 0 .. n[c] : j # k /\ at[j] = at[k]
    BY <1>3, <1>4, <1>5, <1>6, FS_PigeonHole
<1> QED
    BY <1>2, <1>7

\* Freeing the head of the chain that is nobody's.
LEMMA FreeNumberedHead ==
    ASSUME NEW f \in FAT, NEW d \in Directory, NEW x \in Clusters, NEW o, NEW n,
           Numbered(f, d, x, o, n),
           NEW g, g = [f EXCEPT ![x] = FREE],
           NEW y, y = IF EndsChain(f[x]) THEN 0 ELSE f[x],
           NEW m, m = [c \in Clusters |-> IF o[c] = 0 /\ n[c] > 0 THEN n[c] - 1 ELSE n[c]]
    PROVE  /\ Numbered(g, d, y, o, m)
           /\ \A s \in Slots : Backed(f, d, o, n, s) => Backed(g, d, o, m, s)
<1>1. /\ o \in [Clusters -> Ids] /\ n \in [Clusters -> Nat] /\ m \in [Clusters -> Nat]
      /\ HeadsFirst(f, d, x, o, n) /\ LinksFollow(f, o, n)
      /\ Rooted(f, d, x, o, n) /\ Apart(f, o, n)
    BY DEF Numbered
<1>2. x # 0 /\ 0 \in Ids /\ 0 \notin Slots /\ FREE = 0 /\ FREE # LAST
    BY ClusterFacts DEF Ids, Slots, FREE
<1>3. InUse(f, x) /\ o[x] = 0 /\ n[x] = 0
    BY <1>1, <1>2 DEF HeadsFirst, HeadOf
<1>4. \A c \in Clusters : g[c] = IF c = x THEN FREE ELSE f[c]
    BY ClusterFacts DEF FAT
<1>5. \A c \in Clusters : InUse(g, c) <=> InUse(f, c) /\ c # x
    BY <1>4 DEF InUse
<1>6. \A c \in Clusters : InUse(f, c) /\ c # x /\ o[c] = 0 => n[c] > 0
    BY <1>1, <1>2, <1>3 DEF Apart
<1>7. \A c \in Clusters : InUse(f, c) /\ f[c] # LAST => f[c] \in Clusters /\ f[c] # x
    BY <1>1, <1>3, InUseFacts DEF LinksFollow
<1>8. \A s \in Slots : HeadOf(d, y, s) = d[s].start /\ HeadOf(d, x, s) = d[s].start
    BY <1>2 DEF HeadOf
<1>9. HeadOf(d, y, 0) = y /\ HeadOf(d, x, 0) = x
    BY DEF HeadOf
<1>10. HeadsFirst(g, d, y, o, m)
    <2>1. ASSUME NEW s \in Slots, d[s].start # 0
          PROVE  InUse(g, d[s].start) /\ o[d[s].start] = s /\ m[d[s].start] = 0
        <3>1. InUse(f, d[s].start) /\ o[d[s].start] = s /\ n[d[s].start] = 0
            BY <1>1, <1>8, <2>1 DEF HeadsFirst, Ids
        <3>2. d[s].start \in Clusters /\ d[s].start # x
            BY <1>2, <1>3, <3>1 DEF InUse
        <3> QED
            BY <1>2, <1>5, <3>1, <3>2
    <2>2. ASSUME y # 0
          PROVE  InUse(g, y) /\ o[y] = 0 /\ m[y] = 0
        <3>1. y = f[x] /\ f[x] # LAST
            BY <2>2 DEF EndsChain
        <3>2. InUse(f, y) /\ o[y] = 0 /\ n[y] = 1
            BY <1>1, <1>3, <3>1 DEF LinksFollow
        <3>3. y \in Clusters /\ y # x
            BY <1>3, <1>7, <3>1
        <3>4. InUse(g, y)
            BY <1>5, <3>2, <3>3
        <3>5. m[y] = 0
            BY <3>2, <3>3
        <3> QED
            BY <3>2, <3>4, <3>5
    <2> QED
        BY <1>8, <1>9, <2>1, <2>2 DEF HeadsFirst, Ids
<1>11. LinksFollow(g, o, m)
    <2> SUFFICES ASSUME NEW c \in Clusters, InUse(g, c), g[c] # LAST
                 PROVE  InUse(g, g[c]) /\ o[g[c]] = o[c] /\ m[g[c]] = m[c] + 1
        BY DEF LinksFollow
    <2>1. InUse(f, c) /\ c # x /\ g[c] = f[c]
        BY <1>4, <1>5
    <2>2. f[c] \in Clusters /\ f[c] # x /\ InUse(f, f[c]) /\ o[f[c]] = o[c] /\ n[f[c]] = n[c] + 1
        BY <1>1, <1>7, <2>1 DEF LinksFollow
    <2>3. n[c] \in Nat /\ (o[c] = 0 => n[c] > 0)
        BY <1>1, <1>6, <2>1
    <2>4. InUse(g, f[c])
        BY <1>5, <2>2
    <2>5. m[f[c]] = m[c] + 1
        BY <2>2, <2>3
    <2> QED
        BY <2>1, <2>2, <2>4, <2>5
<1>12. Rooted(g, d, y, o, m)
    <2> SUFFICES ASSUME NEW c \in Clusters, InUse(g, c)
                 PROVE  IF m[c] = 0 THEN c = HeadOf(d, y, o[c])
                                    ELSE \E p \in Clusters : InUse(g, p) /\ g[p] = c
        BY DEF Rooted
    <2>1. InUse(f, c) /\ c # x /\ n[c] \in Nat /\ o[c] \in Ids
        BY <1>1, <1>5
    <2>2. ASSUME NEW p \in Clusters, InUse(f, p), f[p] = c, p # x
          PROVE  \E q \in Clusters : InUse(g, q) /\ g[q] = c
        BY <1>4, <1>5, <2>2
    <2>3. CASE o[c] # 0
        <3>1. m[c] = n[c] /\ HeadOf(d, y, o[c]) = HeadOf(d, x, o[c])
            BY <1>1, <1>8, <2>1, <2>3 DEF Ids
        <3>2. CASE n[c] = 0
            BY <1>1, <2>1, <3>1, <3>2 DEF Rooted
        <3>3. CASE n[c] # 0
            <4>1. PICK p \in Clusters : InUse(f, p) /\ f[p] = c
                BY <1>1, <2>1, <3>3 DEF Rooted
            <4>2. p # x
                BY <1>1, <1>3, <2>1, <2>3, <4>1, InUseFacts DEF LinksFollow
            <4> QED
                BY <2>2, <3>1, <3>3, <4>1, <4>2
        <3> QED
            BY <3>2, <3>3
    <2>4. CASE o[c] = 0
        <3>1. n[c] > 0 /\ m[c] = n[c] - 1
            BY <1>6, <2>1, <2>4
        <3>2. PICK p \in Clusters : InUse(f, p) /\ f[p] = c
            BY <1>1, <2>1, <3>1 DEF Rooted
        <3>3. f[p] # LAST /\ o[p] = 0 /\ n[c] = n[p] + 1 /\ n[p] \in Nat
            BY <1>1, <2>1, <2>4, <3>2, InUseFacts DEF LinksFollow
        <3>4. CASE p = x
            <4>1. y = c /\ m[c] = 0
                BY <1>3, <3>1, <3>2, <3>3, <3>4 DEF EndsChain
            <4> QED
                BY <1>9, <2>4, <4>1
        <3>5. CASE p # x
            <4>1. n[p] > 0
                BY <1>6, <3>2, <3>3, <3>5
            <4>2. m[c] # 0
                BY <3>1, <3>3, <4>1
            <4> QED
                BY <2>2, <3>2, <3>5, <4>2
        <3> QED
            BY <3>4, <3>5
    <2> QED
        BY <2>3, <2>4
<1>13. Apart(g, o, m)
    <2> SUFFICES ASSUME NEW c \in Clusters, NEW e \in Clusters, InUse(g, c), InUse(g, e),
                        o[c] = o[e], m[c] = m[e]
                 PROVE  c = e
        BY DEF Apart
    <2>1. InUse(f, c) /\ InUse(f, e) /\ c # x /\ e # x
        BY <1>5
    <2>2. n[c] \in Nat /\ n[e] \in Nat /\ (o[c] = 0 => n[c] > 0 /\ n[e] > 0)
        BY <1>1, <1>6, <2>1
    <2>3. n[c] = n[e]
        BY <2>2
    <2> QED
        BY <1>1, <2>1, <2>3 DEF Apart
<1>14. ASSUME NEW s \in Slots, Backed(f, d, o, n, s)
       PROVE  Backed(g, d, o, m, s)
    <2> SUFFICES ASSUME NEW c \in Clusters, InUse(g, c), o[c] = s, g[c] = LAST
                 PROVE  m[c] + 1 >= d[s].size
        BY DEF Backed
    <2>1. InUse(f, c) /\ f[c] = LAST /\ m[c] = n[c]
        BY <1>2, <1>4, <1>5
    <2> QED
        BY <1>14, <2>1 DEF Backed
<1> QED
    BY <1>1, <1>10, <1>11, <1>12, <1>13, <1>14 DEF Numbered

ChainCut(f, d, o, n, c, g, y, p, m) ==
    /\ f \in FAT /\ d \in Directory /\ Numbered(f, d, 0, o, n)
    /\ c \in Clusters /\ InUse(f, c) /\ g = [f EXCEPT ![c] = LAST]
    /\ y = IF EndsChain(f[c]) THEN 0 ELSE f[c]
    /\ p = [e \in Clusters |-> IF o[e] = o[c] /\ n[e] > n[c] THEN 0 ELSE o[e]]
    /\ m = [e \in Clusters |-> IF o[e] = o[c] /\ n[e] > n[c] THEN n[e] - n[c] - 1 ELSE n[e]]

\* Ending a chain at cluster c: what follows is nobody's chain from then on.
LEMMA CutNumbered ==
    ASSUME NEW f, NEW d, NEW o, NEW n, NEW c, NEW g, NEW y, NEW p, NEW m,
           ChainCut(f, d, o, n, c, g, y, p, m)
    PROVE  /\ Numbered(g, d, y, p, m)
           /\ o[c] \in Slots /\ p[c] = o[c] /\ m[c] = n[c]
           /\ \A s \in Slots : s # o[c] /\ Backed(f, d, o, n, s) => Backed(g, d, p, m, s)
           /\ d[o[c]].size <= n[c] + 1 => Backed(g, d, p, m, o[c])
<1>0. /\ f \in FAT /\ d \in Directory /\ Numbered(f, d, 0, o, n)
      /\ c \in Clusters /\ InUse(f, c) /\ g = [f EXCEPT ![c] = LAST]
      /\ y = IF EndsChain(f[c]) THEN 0 ELSE f[c]
      /\ p = [e \in Clusters |-> IF o[e] = o[c] /\ n[e] > n[c] THEN 0 ELSE o[e]]
      /\ m = [e \in Clusters |-> IF o[e] = o[c] /\ n[e] > n[c] THEN n[e] - n[c] - 1 ELSE n[e]]
    BY DEF ChainCut
<1> USE <1>0
<1>1. /\ o \in [Clusters -> Ids] /\ n \in [Clusters -> Nat]
      /\ HeadsFirst(f, d, 0, o, n) /\ LinksFollow(f, o, n)
      /\ Rooted(f, d, 0, o, n) /\ Apart(f, o, n)
    BY DEF Numbered
<1>2. 0 \in Ids /\ 0 \notin Slots /\ 0 \notin Clusters /\ LAST # FREE /\ LAST # BAD
    BY ClusterFacts DEF Ids, Slots, FREE, LAST, BAD
<1>3. \A e \in Clusters : InUse(f, e) => o[e] # 0
    <2>1. HeadOf(d, 0, 0) = 0
        BY DEF HeadOf
    <2> QED
        BY <1>2, <2>1, HasHead
<1>4. o[c] \in Slots /\ n[c] \in Nat
    BY <1>1, <1>3 DEF Ids
<1> DEFINE Cut(e) == o[e] = o[c] /\ n[e] > n[c]
<1>5. \A e \in Clusters : /\ p[e] = IF Cut(e) THEN 0 ELSE o[e]
                          /\ m[e] = IF Cut(e) THEN n[e] - n[c] - 1 ELSE n[e]
                          /\ m[e] \in Nat /\ p[e] \in Ids
    BY <1>1, <1>2, <1>4
<1>6. p \in [Clusters -> Ids] /\ m \in [Clusters -> Nat]
    BY <1>5
<1>7. \A e \in Clusters : g[e] = IF e = c THEN LAST ELSE f[e]
    BY ClusterFacts DEF FAT
<1>8. \A e \in Clusters : InUse(g, e) <=> InUse(f, e)
    BY <1>2, <1>7 DEF InUse
<1>9. \A s \in Slots : HeadOf(d, y, s) = d[s].start /\ HeadOf(d, 0, s) = d[s].start
    BY <1>2 DEF HeadOf
<1>10. HeadOf(d, y, 0) = y
    BY DEF HeadOf
<1>11. ASSUME NEW e \in Clusters, InUse(f, e), f[e] # LAST
       PROVE  /\ f[e] \in Clusters /\ InUse(f, f[e])
              /\ o[f[e]] = o[e] /\ n[f[e]] = n[e] + 1 /\ n[e] \in Nat
    BY <1>1, <1>11, InUseFacts DEF LinksFollow
<1>12. y # 0 => y = f[c] /\ f[c] # LAST
    BY DEF EndsChain
<1>13. ~Cut(c) /\ p[c] = o[c] /\ m[c] = n[c]
    BY <1>4, <1>5
<1> HIDE DEF Cut
<1>14. HeadsFirst(g, d, y, p, m)
    <2>1. ASSUME NEW s \in Slots, d[s].start # 0
          PROVE  InUse(g, d[s].start) /\ p[d[s].start] = s /\ m[d[s].start] = 0
        <3>1. InUse(f, d[s].start) /\ o[d[s].start] = s /\ n[d[s].start] = 0
            BY <1>1, <1>9, <2>1 DEF HeadsFirst, Ids
        <3>2. d[s].start \in Clusters
            BY <3>1 DEF InUse
        <3>3. ~Cut(d[s].start)
            BY <1>4, <3>1 DEF Cut
        <3> QED
            BY <1>5, <1>8, <3>1, <3>2, <3>3
    <2>2. ASSUME y # 0
          PROVE  InUse(g, y) /\ p[y] = 0 /\ m[y] = 0
        <3>1. y = f[c] /\ y \in Clusters /\ InUse(f, y) /\ o[y] = o[c] /\ n[y] = n[c] + 1
            BY <1>11, <1>12, <2>2
        <3>2. Cut(y)
            BY <1>4, <3>1 DEF Cut
        <3>3. n[y] - n[c] - 1 = 0
            BY <1>4, <3>1
        <3> QED
            BY <1>5, <1>8, <3>1, <3>2, <3>3
    <2> QED
        BY <1>9, <1>10, <2>1, <2>2 DEF HeadsFirst, Ids
<1>15. LinksFollow(g, p, m)
    <2> SUFFICES ASSUME NEW e \in Clusters, InUse(g, e), g[e] # LAST
                 PROVE  InUse(g, g[e]) /\ p[g[e]] = p[e] /\ m[g[e]] = m[e] + 1
        BY DEF LinksFollow
    <2>1. InUse(f, e) /\ e # c /\ g[e] = f[e] /\ f[e] # LAST
        BY <1>7, <1>8
    <2>2. /\ f[e] \in Clusters /\ InUse(f, f[e])
          /\ o[f[e]] = o[e] /\ n[f[e]] = n[e] + 1 /\ n[e] \in Nat
        BY <1>11, <2>1
    <2>3. Cut(f[e]) <=> Cut(e)
        <3>1. o[e] = o[c] => n[e] # n[c]
            BY <1>1, <2>1 DEF Apart
        <3> QED
            BY <1>4, <2>2, <3>1 DEF Cut
    <2>4. p[f[e]] = p[e]
        BY <1>5, <2>2, <2>3
    <2>5. m[f[e]] = m[e] + 1
        BY <1>4, <1>5, <2>2, <2>3
    <2> QED
        BY <1>8, <2>1, <2>2, <2>4, <2>5
<1>16. Rooted(g, d, y, p, m)
    <2> SUFFICES ASSUME NEW e \in Clusters, InUse(g, e)
                 PROVE  IF m[e] = 0 THEN e = HeadOf(d, y, p[e])
                                    ELSE \E q \in Clusters : InUse(g, q) /\ g[q] = e
        BY DEF Rooted
    <2>1. InUse(f, e) /\ n[e] \in Nat /\ o[e] \in Slots
        BY <1>1, <1>3, <1>8 DEF Ids
    <2>2. CASE n[e] = 0
        <3>1. ~Cut(e)
            BY <1>4, <2>2 DEF Cut
        <3>2. e = HeadOf(d, 0, o[e])
            BY <1>1, <2>1, <2>2 DEF Rooted
        <3>3. p[e] = o[e] /\ m[e] = 0
            BY <1>5, <2>2, <3>1
        <3> QED
            BY <1>9, <2>1, <3>2, <3>3
    <2>3. CASE n[e] # 0
        <3>1. PICK q \in Clusters : InUse(f, q) /\ f[q] = e
            BY <1>1, <2>1, <2>3 DEF Rooted
        <3>2. o[e] = o[q] /\ n[e] = n[q] + 1 /\ n[q] \in Nat /\ f[q] # LAST
            BY <1>11, <2>1, <3>1, InUseFacts
        <3>3. CASE q = c
            <4>1. Cut(e) /\ n[e] - n[c] - 1 = 0
                BY <1>4, <3>2, <3>3 DEF Cut
            <4>2. p[e] = 0 /\ m[e] = 0
                BY <1>5, <4>1
            <4>3. y = e
                BY <3>1, <3>2, <3>3 DEF EndsChain
            <4> QED
                BY <1>10, <4>2, <4>3
        <3>4. CASE q # c
            <4>1. InUse(g, q) /\ g[q] = e
                BY <1>7, <1>8, <3>1, <3>4
            <4>2. m[e] # 0
                <5>1. CASE Cut(e)
                    <6>1. n[q] # n[c]
                        BY <1>1, <3>1, <3>2, <3>4, <5>1 DEF Cut, Apart
                    <6>2. n[e] - n[c] - 1 # 0
                        BY <1>4, <2>1, <3>2, <6>1
                    <6> QED
                        BY <1>5, <5>1, <6>2
                <5>2. CASE ~Cut(e)
                    BY <1>5, <2>3, <5>2
                <5> QED
                    BY <5>1, <5>2
            <4> QED
                BY <4>1, <4>2
        <3> QED
            BY <3>3, <3>4
    <2> QED
        BY <2>2, <2>3
<1>17. Apart(g, p, m)
    <2> SUFFICES ASSUME NEW e \in Clusters, NEW r \in Clusters, InUse(g, e), InUse(g, r),
                        p[e] = p[r], m[e] = m[r]
                 PROVE  e = r
        BY DEF Apart
    <2>1. InUse(f, e) /\ InUse(f, r) /\ o[e] # 0 /\ o[r] # 0 /\ n[e] \in Nat /\ n[r] \in Nat
        BY <1>1, <1>3, <1>8
    <2>2. Cut(e) <=> Cut(r)
        BY <1>5, <2>1
    <2>3. o[e] = o[r]
        BY <1>5, <2>2 DEF Cut
    <2>4. n[e] = n[r]
        BY <1>4, <1>5, <2>1, <2>2
    <2> QED
        BY <1>1, <2>1, <2>3, <2>4 DEF Apart
<1>18. ASSUME NEW s \in Slots, s # o[c], Backed(f, d, o, n, s)
       PROVE  Backed(g, d, p, m, s)
    <2> SUFFICES ASSUME NEW e \in Clusters, InUse(g, e), p[e] = s, g[e] = LAST
                 PROVE  m[e] + 1 >= d[s].size
        BY DEF Backed
    <2>1. ~Cut(e) /\ o[e] = s /\ m[e] = n[e] /\ e # c
        BY <1>2, <1>5, <1>18
    <2> QED
        BY <1>7, <1>8, <1>18, <2>1 DEF Backed
<1>19. ASSUME d[o[c]].size <= n[c] + 1
       PROVE  Backed(g, d, p, m, o[c])
    <2> SUFFICES ASSUME NEW e \in Clusters, InUse(g, e), p[e] = o[c], g[e] = LAST, e # c
                 PROVE  m[e] + 1 >= d[o[c]].size
        <3>1. m[c] + 1 >= d[o[c]].size
            <4>1. d[o[c]].size \in Nat
                BY <1>4 DEF Directory, Dirent
            <4> QED
                BY <1>4, <1>13, <1>19, <4>1
        <3> QED
            BY <3>1 DEF Backed
    <2>1. InUse(f, e) /\ f[e] = LAST /\ ~Cut(e) /\ o[e] = o[c] /\ n[e] \in Nat
        BY <1>1, <1>2, <1>4, <1>5, <1>7, <1>8
    <2>2. n[e] <= n[c] /\ n[e] # n[c]
        BY <1>1, <1>4, <2>1 DEF Cut, Apart
    \* The place after e's is taken by c or by a cluster before it.
    <2>3. n[e] + 1 \in 0 .. n[c]
        BY <1>4, <2>1, <2>2
    <2>4. PICK q \in Clusters : InUse(f, q) /\ o[q] = o[c] /\ n[q] = n[e] + 1
        BY <2>3, PlacesBelow
    <2>5. n[q] # 0
        BY <2>1, <2>4
    <2>6. PICK r \in Clusters : InUse(f, r) /\ f[r] = q
        BY <1>1, <2>4, <2>5 DEF Rooted
    <2>7. f[r] # LAST /\ o[r] = o[e] /\ n[r] = n[e]
        BY <1>1, <1>11, <2>1, <2>4, <2>6, InUseFacts
    <2>8. r = e
        BY <1>1, <2>1, <2>6, <2>7 DEF Apart
    <2> QED
        BY <2>1, <2>7, <2>8
<1> QED
    BY <1>4, <1>6, <1>13, <1>14, <1>15, <1>16, <1>17, <1>18, <1>19 DEF Numbered

\* The numbering is about the dirents' starts only.
LEMMA SameStarts ==
    ASSUME NEW f, NEW d, NEW x, NEW o, NEW n, Numbered(f, d, x, o, n),
           NEW e, \A s \in Slots : e[s].start = d[s].start
    PROVE  Numbered(f, e, x, o, n)
<1>1. \A i \in Ids : HeadOf(e, x, i) = HeadOf(d, x, i)
    BY DEF HeadOf, Ids
<1>2. Numbered(f, d, x, o, n)
    OBVIOUS
<1>3. HeadsFirst(f, e, x, o, n)
    BY <1>1, <1>2 DEF Numbered, HeadsFirst
<1>4. Rooted(f, e, x, o, n)
    <2>1. \A c \in Clusters : o[c] \in Ids
        BY <1>2 DEF Numbered
    <2> QED
        BY <1>1, <1>2, <2>1 DEF Numbered, Rooted
<1> QED
    BY <1>2, <1>3, <1>4 DEF Numbered

\* A file loses its head: its chain becomes the one that is nobody's.
LEMMA DisownNumbered ==
    ASSUME NEW f \in FAT, NEW d \in Directory, NEW o, NEW n, Numbered(f, d, 0, o, n),
           NEW s \in Slots, d[s].start # 0,
           NEW e, \A t \in Slots : e[t].start = IF t = s THEN 0 ELSE d[t].start,
           \A t \in Slots : t # s => e[t].size = d[t].size,
           NEW p, p = [c \in Clusters |-> IF o[c] = s THEN 0 ELSE o[c]]
    PROVE  /\ Numbered(f, e, d[s].start, p, n)
           /\ \A t \in Slots : t # s /\ Backed(f, d, o, n, t) => Backed(f, e, p, n, t)
           /\ Backed(f, e, p, n, s)
<1>1. /\ o \in [Clusters -> Ids] /\ n \in [Clusters -> Nat]
      /\ HeadsFirst(f, d, 0, o, n) /\ LinksFollow(f, o, n)
      /\ Rooted(f, d, 0, o, n) /\ Apart(f, o, n)
    BY DEF Numbered
<1>2. 0 \in Ids /\ 0 \notin Slots /\ 0 \notin Clusters
    BY ClusterFacts DEF Ids, Slots, FREE
<1>3. \A c \in Clusters : InUse(f, c) => o[c] # 0
    <2>1. HeadOf(d, 0, 0) = 0
        BY DEF HeadOf
    <2> QED
        BY <1>2, <2>1, HasHead
<1>4. \A c \in Clusters : p[c] = IF o[c] = s THEN 0 ELSE o[c]
    OBVIOUS
<1>5. p \in [Clusters -> Ids]
    BY <1>1, <1>2, <1>4
<1> DEFINE x == d[s].start
<1>6. /\ \A t \in Slots : HeadOf(d, 0, t) = d[t].start
      /\ \A t \in Slots : t # s => HeadOf(e, x, t) = d[t].start
      /\ HeadOf(e, x, s) = 0 /\ HeadOf(e, x, 0) = x
    BY <1>2 DEF HeadOf
<1>7. InUse(f, x) /\ o[x] = s /\ n[x] = 0 /\ x \in Clusters
    BY <1>1, <1>6 DEF HeadsFirst, Ids, InUse
<1> HIDE DEF x
<1>8. HeadsFirst(f, e, x, p, n)
    <2>1. ASSUME NEW t \in Slots, HeadOf(e, x, t) # 0
          PROVE  /\ InUse(f, HeadOf(e, x, t))
                 /\ p[HeadOf(e, x, t)] = t /\ n[HeadOf(e, x, t)] = 0
        <3>1. t # s /\ HeadOf(e, x, t) = d[t].start /\ HeadOf(d, 0, t) = d[t].start
            BY <1>6, <2>1
        <3>2. InUse(f, d[t].start) /\ o[d[t].start] = t /\ n[d[t].start] = 0
            BY <1>1, <2>1, <3>1 DEF HeadsFirst, Ids
        <3>3. d[t].start \in Clusters
            BY <3>2 DEF InUse
        <3>4. p[d[t].start] = t
            BY <1>4, <3>1, <3>2, <3>3
        <3> QED
            BY <3>1, <3>2, <3>4
    <2>2. InUse(f, x) /\ p[x] = 0 /\ n[x] = 0
        BY <1>4, <1>7
    <2> QED
        BY <1>6, <2>1, <2>2 DEF HeadsFirst, Ids
<1>9. LinksFollow(f, p, n)
    <2> SUFFICES ASSUME NEW c \in Clusters, InUse(f, c), f[c] # LAST
                 PROVE  InUse(f, f[c]) /\ p[f[c]] = p[c] /\ n[f[c]] = n[c] + 1
        BY DEF LinksFollow
    <2>1. f[c] \in Clusters
        BY InUseFacts
    <2> QED
        BY <1>1, <1>4, <2>1 DEF LinksFollow
<1>10. Rooted(f, e, x, p, n)
    <2> SUFFICES ASSUME NEW c \in Clusters, InUse(f, c), n[c] = 0
                 PROVE  c = HeadOf(e, x, p[c])
        BY <1>1 DEF Rooted
    <2>1. c = HeadOf(d, 0, o[c]) /\ o[c] \in Slots
        BY <1>1, <1>3 DEF Rooted, Ids
    <2>2. CASE o[c] = s
        BY <1>4, <1>6, <2>1, <2>2 DEF x
    <2>3. CASE o[c] # s
        BY <1>4, <1>6, <2>1, <2>3
    <2> QED
        BY <2>2, <2>3
<1>11. Apart(f, p, n)
    <2> SUFFICES ASSUME NEW c \in Clusters, NEW q \in Clusters, InUse(f, c), InUse(f, q),
                        p[c] = p[q], n[c] = n[q]
                 PROVE  c = q
        BY DEF Apart
    <2>1. o[c] # 0 /\ o[q] # 0
        BY <1>3
    <2>2. o[c] = o[q]
        BY <1>4, <2>1
    <2> QED
        BY <1>1, <2>2 DEF Apart
<1>12. ASSUME NEW t \in Slots, t # s, Backed(f, d, o, n, t)
       PROVE  Backed(f, e, p, n, t)
    <2> SUFFICES ASSUME NEW c \in Clusters, InUse(f, c), p[c] = t, f[c] = LAST
                 PROVE  n[c] + 1 >= e[t].size
        BY DEF Backed
    <2>1. o[c] = t /\ e[t].size = d[t].size
        BY <1>2, <1>4, <1>12
    <2> QED
        BY <1>12, <2>1 DEF Backed
<1>13. Backed(f, e, p, n, s)
    BY <1>2, <1>4 DEF Backed
<1> QED
    BY <1>1, <1>5, <1>8, <1>9, <1>10, <1>11, <1>12, <1>13 DEF Numbered, x

HeadGiven(f, d, o, n, s, b, e, g, p, m) ==
    /\ f \in FAT /\ DirChainKept(f) /\ d \in Directory /\ Numbered(f, d, 0, o, n)
    /\ s \in Slots /\ d[s].start = 0 /\ b \in Clusters /\ f[b] = FREE
    /\ \A t \in Slots : e[t].start = IF t = s THEN b ELSE d[t].start
    /\ \A t \in Slots : t # s => e[t].size = d[t].size
    /\ g = [f EXCEPT ![b] = LAST] /\ p = [o EXCEPT ![b] = s] /\ m = [n EXCEPT ![b] = 0]

\* A file without a chain gets one, of one cluster.
LEMMA NewNumbered ==
    ASSUME NEW f, NEW d, NEW o, NEW n, NEW s, NEW b, NEW e, NEW g, NEW p, NEW m,
           HeadGiven(f, d, o, n, s, b, e, g, p, m)
    PROVE  /\ Numbered(g, e, 0, p, m)
           /\ InUse(g, b) /\ p[b] = s /\ m[b] = 0
           /\ \A t \in Slots : t # s /\ Backed(f, d, o, n, t) => Backed(g, e, p, m, t)
<1>0. /\ f \in FAT /\ DirChainKept(f) /\ d \in Directory /\ Numbered(f, d, 0, o, n)
      /\ s \in Slots /\ d[s].start = 0 /\ b \in Clusters /\ f[b] = FREE
      /\ \A t \in Slots : e[t].start = IF t = s THEN b ELSE d[t].start
      /\ \A t \in Slots : t # s => e[t].size = d[t].size
      /\ g = [f EXCEPT ![b] = LAST] /\ p = [o EXCEPT ![b] = s] /\ m = [n EXCEPT ![b] = 0]
    BY DEF HeadGiven
<1> USE <1>0
<1>1. /\ o \in [Clusters -> Ids] /\ n \in [Clusters -> Nat]
      /\ HeadsFirst(f, d, 0, o, n) /\ LinksFollow(f, o, n)
      /\ Rooted(f, d, 0, o, n) /\ Apart(f, o, n)
    BY DEF Numbered
<1>2. 0 \in Ids /\ 0 \notin Slots /\ s \in Ids /\ LAST # FREE /\ LAST # BAD /\ LAST \notin Clusters
    BY ClusterFacts DEF Ids, Slots, FREE, LAST, BAD
<1>3. b \notin DirClusters /\ ~InUse(f, b) /\ b # 0
    BY FreeNotDir, ClusterFacts DEF InUse, FREE
<1>4. \A c \in Clusters : /\ g[c] = IF c = b THEN LAST ELSE f[c]
                          /\ p[c] = IF c = b THEN s ELSE o[c]
                          /\ m[c] = IF c = b THEN 0 ELSE n[c]
    BY <1>1, ClusterFacts DEF FAT
<1>5. p \in [Clusters -> Ids] /\ m \in [Clusters -> Nat]
    BY <1>1, <1>2
<1>6. \A c \in Clusters : InUse(g, c) <=> (InUse(f, c) \/ c = b)
    BY <1>2, <1>3, <1>4 DEF InUse
<1>7. /\ \A t \in Slots : HeadOf(e, 0, t) = (IF t = s THEN b ELSE d[t].start)
      /\ \A t \in Slots : HeadOf(d, 0, t) = d[t].start
      /\ HeadOf(e, 0, 0) = 0 /\ HeadOf(d, 0, 0) = 0
    BY <1>2 DEF HeadOf
<1>8. \A c \in Clusters : InUse(f, c) /\ f[c] # LAST => f[c] \in Clusters /\ f[c] # b
    BY <1>1, <1>3, InUseFacts DEF LinksFollow
<1>9. HeadsFirst(g, e, 0, p, m)
    <2> SUFFICES ASSUME NEW t \in Slots, HeadOf(e, 0, t) # 0
                 PROVE  /\ InUse(g, HeadOf(e, 0, t))
                        /\ p[HeadOf(e, 0, t)] = t /\ m[HeadOf(e, 0, t)] = 0
        BY <1>7 DEF HeadsFirst, Ids
    <2>1. CASE t = s
        BY <1>4, <1>6, <1>7, <2>1
    <2>2. CASE t # s
        <3>1. InUse(f, d[t].start) /\ o[d[t].start] = t /\ n[d[t].start] = 0
            BY <1>1, <1>7, <2>2 DEF HeadsFirst, Ids
        <3>2. d[t].start \in Clusters /\ d[t].start # b
            BY <1>3, <3>1 DEF InUse
        <3> QED
            BY <1>4, <1>6, <1>7, <2>2, <3>1, <3>2
    <2> QED
        BY <2>1, <2>2
<1>10. LinksFollow(g, p, m)
    <2> SUFFICES ASSUME NEW c \in Clusters, InUse(g, c), g[c] # LAST
                 PROVE  InUse(g, g[c]) /\ p[g[c]] = p[c] /\ m[g[c]] = m[c] + 1
        BY DEF LinksFollow
    <2>1. c # b /\ InUse(f, c) /\ g[c] = f[c]
        BY <1>4, <1>6
    <2>2. f[c] \in Clusters /\ f[c] # b
        BY <1>8, <2>1
    <2> QED
        BY <1>1, <1>4, <1>6, <2>1, <2>2 DEF LinksFollow
<1>11. Rooted(g, e, 0, p, m)
    <2> SUFFICES ASSUME NEW c \in Clusters, InUse(g, c)
                 PROVE  IF m[c] = 0 THEN c = HeadOf(e, 0, p[c])
                                    ELSE \E q \in Clusters : InUse(g, q) /\ g[q] = c
        BY DEF Rooted
    <2>1. CASE c = b
        BY <1>4, <1>7, <2>1
    <2>2. CASE c # b
        <3>1. InUse(f, c) /\ p[c] = o[c] /\ m[c] = n[c] /\ o[c] \in Ids
            BY <1>1, <1>4, <1>6, <2>2
        <3>2. CASE n[c] = 0
            <4>1. c = HeadOf(d, 0, o[c]) /\ c # 0
                BY <1>1, <3>1, <3>2, InUseFacts DEF Rooted
            <4>2. o[c] # s /\ o[c] # 0
                BY <1>7, <4>1
            <4> QED
                BY <1>7, <3>1, <3>2, <4>1, <4>2 DEF Ids
        <3>3. CASE n[c] # 0
            <4>1. PICK q \in Clusters : InUse(f, q) /\ f[q] = c
                BY <1>1, <3>1, <3>3 DEF Rooted
            <4>2. q # b
                BY <1>3, <4>1
            <4> QED
                BY <1>4, <1>6, <3>1, <3>3, <4>1, <4>2
        <3> QED
            BY <3>2, <3>3
    <2> QED
        BY <2>1, <2>2
<1>12. Apart(g, p, m)
    <2> SUFFICES ASSUME NEW c \in Clusters, NEW q \in Clusters, InUse(g, c), InUse(g, q),
                        p[c] = p[q], m[c] = m[q]
                 PROVE  c = q
        BY DEF Apart
    <2>1. ASSUME NEW r \in Clusters, InUse(f, r), o[r] = s
          PROVE  n[r] # 0
        <3>1. HeadOf(d, 0, s) = 0 /\ r # 0
            BY <1>7, <2>1, InUseFacts
        <3> QED
            BY <1>1, <2>1, <3>1 DEF Rooted
    <2>2. CASE c # b /\ q # b
        <3>1. /\ InUse(f, c) /\ InUse(f, q) /\ p[c] = o[c] /\ p[q] = o[q]
              /\ m[c] = n[c] /\ m[q] = n[q]
            BY <1>4, <1>6, <2>2
        <3> QED
            BY <1>1, <3>1 DEF Apart
    <2>3. ASSUME NEW r \in Clusters, InUse(g, r), r # b, p[r] = p[b], m[r] = m[b]
          PROVE  FALSE
        <3>1. InUse(f, r) /\ p[r] = o[r] /\ m[r] = n[r] /\ p[b] = s /\ m[b] = 0
            BY <1>4, <1>6, <2>3
        <3> QED
            BY <2>1, <2>3, <3>1
    <2> QED
        BY <2>2, <2>3
<1>13. ASSUME NEW t \in Slots, t # s, Backed(f, d, o, n, t)
       PROVE  Backed(g, e, p, m, t)
    <2> SUFFICES ASSUME NEW c \in Clusters, InUse(g, c), p[c] = t, g[c] = LAST
                 PROVE  m[c] + 1 >= e[t].size
        BY DEF Backed
    <2>1. c # b /\ InUse(f, c) /\ o[c] = t /\ f[c] = LAST /\ m[c] = n[c] /\ e[t].size = d[t].size
        BY <1>4, <1>6, <1>13
    <2> QED
        BY <1>13, <2>1 DEF Backed
<1> QED
    BY <1>4, <1>5, <1>6, <1>9, <1>10, <1>11, <1>12, <1>13 DEF Numbered

Extended(f, d, o, n, c, b, g, p, m) ==
    /\ f \in FAT /\ DirChainKept(f) /\ d \in Directory /\ Numbered(f, d, 0, o, n)
    /\ c \in Clusters /\ InUse(f, c) /\ f[c] = LAST /\ b \in Clusters /\ f[b] = FREE
    /\ g = [f EXCEPT ![c] = b, ![b] = LAST]
    /\ p = [o EXCEPT ![b] = o[c]] /\ m = [n EXCEPT ![b] = n[c] + 1]

\* A chain is extended by a free cluster.
LEMMA ExtendNumbered ==
    ASSUME NEW f, NEW d, NEW o, NEW n, NEW c, NEW b, NEW g, NEW p, NEW m,
           Extended(f, d, o, n, c, b, g, p, m)
    PROVE  /\ Numbered(g, d, 0, p, m)
           /\ InUse(g, b) /\ p[b] = o[c] /\ m[b] = n[c] + 1
           /\ \A t \in Slots : t # o[c] /\ Backed(f, d, o, n, t) => Backed(g, d, p, m, t)
<1>0. /\ f \in FAT /\ DirChainKept(f) /\ d \in Directory /\ Numbered(f, d, 0, o, n)
      /\ c \in Clusters /\ InUse(f, c) /\ f[c] = LAST /\ b \in Clusters /\ f[b] = FREE
      /\ g = [f EXCEPT ![c] = b, ![b] = LAST]
      /\ p = [o EXCEPT ![b] = o[c]] /\ m = [n EXCEPT ![b] = n[c] + 1]
    BY DEF Extended
<1> USE <1>0
<1>1. /\ o \in [Clusters -> Ids] /\ n \in [Clusters -> Nat]
      /\ HeadsFirst(f, d, 0, o, n) /\ LinksFollow(f, o, n)
      /\ Rooted(f, d, 0, o, n) /\ Apart(f, o, n)
    BY DEF Numbered
<1>2. LAST # FREE /\ LAST # BAD /\ LAST \notin Clusters
      /\ \A k \in Clusters : k # FREE /\ k # BAD /\ k # LAST /\ k # 0
    BY ClusterFacts DEF FREE, LAST, BAD
<1>3. b \notin DirClusters /\ ~InUse(f, b) /\ b # c /\ c \notin DirClusters
    BY FreeNotDir, ClusterFacts DEF InUse, FREE
<1>4. \A k \in Clusters : /\ g[k] = IF k = b THEN LAST ELSE IF k = c THEN b ELSE f[k]
                          /\ p[k] = IF k = b THEN o[c] ELSE o[k]
                          /\ m[k] = IF k = b THEN n[c] + 1 ELSE n[k]
    BY <1>1, <1>3, ClusterFacts DEF FAT
<1>5. p \in [Clusters -> Ids] /\ m \in [Clusters -> Nat] /\ n[c] \in Nat
    BY <1>1
<1>6. \A k \in Clusters : InUse(g, k) <=> (InUse(f, k) \/ k = b)
    BY <1>2, <1>3, <1>4 DEF InUse
<1>7. \A k \in Clusters : InUse(f, k) /\ f[k] # LAST => f[k] \in Clusters /\ f[k] # b
    BY <1>1, <1>3, InUseFacts DEF LinksFollow
<1>8. HeadsFirst(g, d, 0, p, m)
    <2> SUFFICES ASSUME NEW i \in Ids, HeadOf(d, 0, i) # 0
                 PROVE  /\ InUse(g, HeadOf(d, 0, i))
                        /\ p[HeadOf(d, 0, i)] = i /\ m[HeadOf(d, 0, i)] = 0
        BY DEF HeadsFirst
    <2>1. /\ InUse(f, HeadOf(d, 0, i))
          /\ o[HeadOf(d, 0, i)] = i /\ n[HeadOf(d, 0, i)] = 0
        BY <1>1 DEF HeadsFirst
    <2>2. HeadOf(d, 0, i) \in Clusters /\ HeadOf(d, 0, i) # b
        BY <1>3, <2>1 DEF InUse
    <2> QED
        BY <1>4, <1>6, <2>1, <2>2
<1>9. LinksFollow(g, p, m)
    <2> SUFFICES ASSUME NEW k \in Clusters, InUse(g, k), g[k] # LAST
                 PROVE  InUse(g, g[k]) /\ p[g[k]] = p[k] /\ m[g[k]] = m[k] + 1
        BY DEF LinksFollow
    <2>1. CASE k = c
        BY <1>3, <1>4, <1>6, <2>1
    <2>2. CASE k # c
        <3>1. k # b /\ InUse(f, k) /\ g[k] = f[k]
            BY <1>4, <1>6, <2>2
        <3>2. f[k] \in Clusters /\ f[k] # b
            BY <1>7, <3>1
        <3> QED
            BY <1>1, <1>4, <1>6, <3>1, <3>2 DEF LinksFollow
    <2> QED
        BY <2>1, <2>2
<1>10. Rooted(g, d, 0, p, m)
    <2> SUFFICES ASSUME NEW k \in Clusters, InUse(g, k)
                 PROVE  IF m[k] = 0 THEN k = HeadOf(d, 0, p[k])
                                    ELSE \E q \in Clusters : InUse(g, q) /\ g[q] = k
        BY DEF Rooted
    <2>1. CASE k = b
        <3>1. m[k] # 0
            BY <1>4, <1>5, <2>1
        <3>2. InUse(g, c) /\ g[c] = k
            BY <1>3, <1>4, <1>6, <2>1
        <3> QED
            BY <3>1, <3>2
    <2>2. CASE k # b
        <3>1. InUse(f, k) /\ p[k] = o[k] /\ m[k] = n[k]
            BY <1>4, <1>6, <2>2
        <3>2. CASE n[k] = 0
            BY <1>1, <3>1, <3>2 DEF Rooted
        <3>3. CASE n[k] # 0
            <4>1. PICK q \in Clusters : InUse(f, q) /\ f[q] = k
                BY <1>1, <3>1, <3>3 DEF Rooted
            <4>2. q # b /\ q # c
                BY <1>2, <1>3, <4>1
            <4>3. InUse(g, q) /\ g[q] = k
                BY <1>4, <1>6, <4>1, <4>2
            <4> QED
                BY <3>1, <3>3, <4>3
        <3> QED
            BY <3>2, <3>3
    <2> QED
        BY <2>1, <2>2
<1>11. Apart(g, p, m)
    \* Nobody has the place after the last of a chain.
    <2>1. ASSUME NEW k \in Clusters, InUse(f, k), o[k] = o[c], n[k] = n[c] + 1
          PROVE  FALSE
        <3>1. n[k] # 0
            BY <1>5, <2>1
        <3>2. PICK q \in Clusters : InUse(f, q) /\ f[q] = k
            BY <1>1, <2>1, <3>1 DEF Rooted
        <3>3. f[q] # LAST
            BY <1>2, <3>2
        <3>4. o[q] = o[c] /\ n[k] = n[q] + 1 /\ n[q] \in Nat
            BY <1>1, <2>1, <3>2, <3>3 DEF LinksFollow
        <3>5. n[q] = n[c]
            BY <1>5, <2>1, <3>4
        <3>6. q = c
            BY <1>1, <3>2, <3>4, <3>5 DEF Apart
        <3> QED
            BY <3>3, <3>6
    <2> SUFFICES ASSUME NEW k \in Clusters, NEW q \in Clusters, InUse(g, k), InUse(g, q),
                        p[k] = p[q], m[k] = m[q]
                 PROVE  k = q
        BY DEF Apart
    <2>2. CASE k # b /\ q # b
        BY <1>1, <1>4, <1>6, <2>2 DEF Apart
    <2>3. CASE k = b /\ q # b
        BY <1>4, <1>6, <2>1, <2>3
    <2>4. CASE k # b /\ q = b
        BY <1>4, <1>6, <2>1, <2>4
    <2> QED
        BY <2>2, <2>3, <2>4
<1>12. ASSUME NEW t \in Slots, t # o[c], Backed(f, d, o, n, t)
       PROVE  Backed(g, d, p, m, t)
    <2> SUFFICES ASSUME NEW k \in Clusters, InUse(g, k), p[k] = t, g[k] = LAST
                 PROVE  m[k] + 1 >= d[t].size
        BY DEF Backed
    <2>1. k # b /\ k # c
        BY <1>3, <1>4, <1>12
    <2>2. InUse(f, k) /\ o[k] = t /\ f[k] = LAST /\ m[k] = n[k]
        BY <1>4, <1>6, <2>1
    <2> QED
        BY <1>12, <2>2 DEF Backed
<1> QED
    BY <1>4, <1>5, <1>6, <1>8, <1>9, <1>10, <1>11, <1>12 DEF Numbered

\* The chain that is nobody's: what the running loop has left to free.
Loose == IF Freeing THEN cur ELSE 0

\* A view of the volume in which every cluster in use is some file's, and every
\* file has the clusters of its size.
Complete(f, d) ==
    \E o, n : Numbered(f, d, 0, o, n) /\ \A s \in Slots : Backed(f, d, o, n, s)

WritingFile == pc = "write" /\ what = "file"

\* Where the running call is in the numbered chains: the loops that free have
\* the rest at hand, fat32_truncate is left bytes before the size it cuts to,
\* and write_cluster_chain is at the place of its offset.
CallView(o, n) ==
    /\ Numbered(fat, dirents, Loose, o, n)
    /\ Freeing => cur \in Clusters
    /\ pc = "cut" /\ left > 0 =>
         InUse(fat, cur) /\ n[cur] + left = dirents[o[cur]].size
    /\ WritingFile =>
         InUse(fat, cur) /\ n[cur] = offset /\ offset + left = dirents[o[cur]].size
    /\ \A s \in Slots : Backed(fat, dirents, o, n, s) \/ (WritingFile /\ o[cur] = s)

\* A file without a cluster is empty; a free dirent has no cluster.
Tidy(d) ==
    \A s \in Slots : /\ d[s].start = 0 => d[s].size = 0
                     /\ d[s].name = NoName => d[s].start = 0

\* How far the running call is, and what of it has reached the card.
Progress ==
    /\ what = "file" => pc \in {"write", "tail", "sync"}
    /\ pc = "tail" => what = "file"
    /\ pc \in {"idle", "panic"} => what = "dir" /\ dirents = dir
    /\ pc = "idle" => fat = diskFat
    /\ pc = "write" /\ what = "dir" =>
         \A s \in Slots : BlockOf(s) <= offset => dir[s] = dirents[s]
    /\ pc = "sync" /\ what = "dir" => dir = dirents
    /\ pc = "sync" =>
         \A c \in 0 .. NEntries - 1 : c \div EntriesPerSector < sec => diskFat[c] = fat[c]
    /\ pc # "sync" => sec = 0

ChainInv ==
    /\ pc # "panic" => \E o, n : CallView(o, n)
    /\ pc \in {"idle", "panic"} \/ WritingFile => Complete(diskFat, dir)
    /\ Tidy(dir) /\ Tidy(dirents)
    /\ Progress

\* The power stays on; no file is cut to nothing or beyond its end.
Steady ==
    ~PowerLossAllowed /\ "truncate_to_zero" \notin Calls /\ "truncate_beyond" \notin Calls

\* A step into a loop with nothing loose, and one into a loop that frees.
LEMMA Settled ==
    ASSUME NEW o, NEW n, Numbered(fat', dirents', 0, o, n),
           \A s \in Slots : Backed(fat', dirents', o, n, s),
           pc' \in {"idle", "sync"} \/ (pc' = "write" /\ what' = "dir")
    PROVE  CallView(o, n)'
<1>1. ~Freeing' /\ ~WritingFile' /\ ~(pc' = "cut") /\ Loose' = 0
    BY DEF Freeing, Loose, WritingFile
<1> QED
    BY <1>1 DEF CallView

LEMMA FreeingOn ==
    ASSUME NEW o, NEW n, Numbered(fat', dirents', cur', o, n), cur' \in Clusters,
           \A s \in Slots : Backed(fat', dirents', o, n, s),
           pc' \in {"free", "tail"} \/ (pc' = "cut" /\ left' = 0)
    PROVE  CallView(o, n)'
<1>1. Freeing' /\ ~WritingFile' /\ ~(pc' = "cut" /\ left' > 0) /\ Loose' = cur'
    BY DEF Freeing, Loose, WritingFile
<1> QED
    BY <1>1 DEF CallView

LEMMA ChainInit == Init => ChainInv
<1> SUFFICES ASSUME Init PROVE ChainInv
    OBVIOUS
<1>1. pc = "idle" /\ fat = FormattedFat /\ diskFat = FormattedFat /\ dirents = dir
      /\ what = "dir" /\ sec = 0 /\ FormattedFat \in FAT
    BY FormattedFatFacts DEF Init, FAT
<1>2. \A s \in Slots : dir[s] = FreeDirent
    BY DEF Init
<1>3. \A s \in Slots : dir[s].start = 0 /\ dir[s].size = 0
    BY <1>2 DEF FreeDirent
<1>4. ASSUME NEW c \in Clusters
      PROVE  ~InUse(FormattedFat, c)
    BY ClusterFacts DEF FormattedFat, InUse, Clusters
<1> DEFINE o == [c \in Clusters |-> 0]
           n == [c \in Clusters |-> 0]
<1>5. o \in [Clusters -> Ids] /\ n \in [Clusters -> Nat]
    BY DEF Ids
<1> HIDE DEF o, n
<1>6. Numbered(FormattedFat, dir, 0, o, n)
    <2>1. HeadsFirst(FormattedFat, dir, 0, o, n)
        BY <1>3 DEF HeadsFirst, HeadOf, Ids
    <2> QED
        BY <1>4, <1>5, <2>1 DEF Numbered, LinksFollow, Rooted, Apart
<1>7. \A s \in Slots : Backed(FormattedFat, dir, o, n, s)
    BY <1>4 DEF Backed
<1>8. CallView(o, n)
    <2>1. ~Freeing /\ ~WritingFile /\ Loose = 0
        BY <1>1 DEF Freeing, WritingFile, Loose
    <2> QED
        BY <1>1, <1>6, <1>7, <2>1 DEF CallView
<1>9. Complete(diskFat, dir)
    BY <1>1, <1>6, <1>7 DEF Complete
<1>10. Tidy(dir)
    BY <1>3 DEF Tidy
<1> QED
    BY <1>1, <1>8, <1>9, <1>10 DEF ChainInv, Progress

LEMMA BeginChain ==
    ASSUME Steady, TypeInv, DirInv, ChainInv, Begin
    PROVE  ChainInv'
<1>1. pc = "idle" /\ UNCHANGED <<diskFat, dir, data>> /\ TypeOK
    BY BeginEffect DEF TypeInv, card
<1>2. /\ dirents = dir /\ fat = diskFat /\ what = "dir" /\ sec = 0
      /\ Complete(fat, dir) /\ Complete(diskFat, dir) /\ Tidy(dir)
    BY <1>1 DEF ChainInv, Progress
<1>3. fat \in FAT /\ dir \in Directory /\ DirChainKept(fat)
    BY <1>1 DEF TypeOK, FAT, Directory, DirInv
<1>4. Complete(diskFat', dir') /\ Tidy(dir')
    BY <1>1, <1>2 DEF Complete, Tidy
<1>5. PICK o, n : Numbered(fat, dir, 0, o, n) /\ \A s \in Slots : Backed(fat, dir, o, n, s)
    BY <1>2 DEF Complete
<1>6. \A c \in Clusters : InUse(fat, c) => n[c] \in Nat
    BY <1>5 DEF Numbered
<1>7. ASSUME NEW s, NEW e, Replaces(s, e)
      PROVE  /\ s \in Slots /\ e \in Dirent /\ dir[s] \in Dirent
             /\ \A t \in Slots : dirents'[t] = IF t = s THEN e ELSE dir[t]
             /\ e.size \in Nat /\ dir[s].size \in Nat
             /\ (e.start = 0 => e.size = 0) => Tidy(dirents')
             /\ dir[s].start # 0 =>
                  InUse(fat, dir[s].start) /\ o[dir[s].start] = s /\ n[dir[s].start] = 0
    <2>1. s \in Slots /\ e \in Dirent /\ (e.name = NoName => e = FreeDirent)
          /\ \A t \in Slots : dirents'[t] = IF t = s THEN e ELSE dir[t]
        BY <1>3, <1>7 DEF Replaces, Directory
    <2>2. dir[s] \in Dirent /\ e.size \in Nat /\ dir[s].size \in Nat
        BY <1>3, <2>1 DEF Directory, Dirent
    <2>3. ASSUME e.start = 0 => e.size = 0
          PROVE  Tidy(dirents')
        <3>1. e.name = NoName => e.start = 0
            BY <2>1 DEF FreeDirent
        <3> QED
            BY <1>2, <2>1, <2>3, <3>1 DEF Tidy
    <2>4. HeadOf(dir, 0, s) = dir[s].start
        BY <2>1 DEF HeadOf, Slots
    <2>5. ASSUME dir[s].start # 0
          PROVE  InUse(fat, dir[s].start) /\ o[dir[s].start] = s /\ n[dir[s].start] = 0
        BY <1>5, <2>1, <2>4, <2>5 DEF Numbered, HeadsFirst, Ids
    <2> QED
        BY <2>1, <2>2, <2>3, <2>5
<1>8. SUFFICES /\ pc' # "panic" => \E p, m : CallView(p, m)'
               /\ pc' = "panic" \/ pc' \in {"free", "cut"} \/ pc' = "write"
               /\ Tidy(dirents') /\ sec' = 0
               /\ what' = "file" => pc' = "write"
               /\ pc' = "panic" => dirents' = dir
               /\ offset' = 0 /\ what' \in {"file", "dir"}
    <2>1. Progress'
        BY <1>1, <1>8, BlockFacts DEF Progress
    <2> QED
        BY <1>4, <1>8, <2>1 DEF ChainInv
<1>9. CASE Panics
    BY <1>2, <1>9 DEF Panics, Stop, Enter
<1>10. ASSUME NEW s, NEW e, BeginsDir(s, e)
       PROVE  /\ \E p, m : CallView(p, m)'
              /\ pc' = "write" /\ Tidy(dirents') /\ sec' = 0 /\ offset' = 0 /\ what' = "dir"
    <2>1. /\ Replaces(s, e) /\ e.start \in {0, dir[s].start} /\ e.size \in {0, dir[s].size}
          /\ (e.start # dir[s].start => dir[s].name = NoName)
          /\ WriteDirectory /\ fat' = fat
        BY <1>10 DEF BeginsDir
    <2>2. s \in Slots /\ \A t \in Slots : dirents'[t] = IF t = s THEN e ELSE dir[t]
        BY <1>7, <2>1
    <2>3. e.start = dir[s].start
        BY <1>2, <2>1, <2>2 DEF Tidy
    <2>4. Numbered(fat', dirents', 0, o, n)
        BY <1>5, <2>1, <2>2, <2>3, SameStarts
    <2>5. \A t \in Slots : Backed(fat', dirents', o, n, t)
        <3>1. \A t \in Slots : dirents'[t].size = dir[t].size \/ dirents'[t].size = 0
            BY <2>1, <2>2
        <3> QED
            BY <1>5, <1>6, <2>1, <3>1 DEF Backed
    <2>6. pc' = "write" /\ what' = "dir" /\ sec' = 0 /\ offset' = 0
        BY <2>1, WriteDirectoryLocals
    <2>7. CallView(o, n)'
        BY <2>4, <2>5, <2>6, Settled
    <2>8. Tidy(dirents')
        BY <1>2, <1>7, <2>1, <2>2, <2>3 DEF Tidy
    <2> QED
        BY <2>6, <2>7, <2>8
<1>11. ASSUME NEW s, NEW e, BeginsFree(s, e)
       PROVE  /\ \E p, m : CallView(p, m)'
              /\ pc' = "free" /\ Tidy(dirents') /\ sec' = 0 /\ offset' = 0 /\ what' = "dir"
    <2>1. /\ Replaces(s, e) /\ e.start = 0 /\ dir[s].start # 0 /\ e.size = 0
          /\ pc' = "free" /\ what' = "dir" /\ cur' = dir[s].start /\ left' = 0
          /\ sec' = 0 /\ offset' = 0 /\ fat' = fat
        BY <1>11 DEF BeginsFree, Enter
    <2>2. /\ s \in Slots /\ \A t \in Slots : dirents'[t] = IF t = s THEN e ELSE dir[t]
          /\ InUse(fat, dir[s].start)
        BY <1>7, <2>1
    <2> DEFINE p == [c \in Clusters |-> IF o[c] = s THEN 0 ELSE o[c]]
    <2>3. \A t \in Slots : dirents'[t].start = IF t = s THEN 0 ELSE dir[t].start
        BY <2>1, <2>2
    <2>4. \A t \in Slots : t # s => dirents'[t].size = dir[t].size
        BY <2>2
    <2> HIDE DEF p
    <2>5. /\ Numbered(fat, dirents', dir[s].start, p, n)
          /\ \A t \in Slots : t # s /\ Backed(fat, dir, o, n, t) => Backed(fat, dirents', p, n, t)
          /\ Backed(fat, dirents', p, n, s)
        BY <1>3, <1>5, <2>1, <2>2, <2>3, <2>4, DisownNumbered DEF p
    <2>6. cur' \in Clusters
        BY <2>1, <2>2 DEF InUse
    <2>7. \A t \in Slots : Backed(fat', dirents', p, n, t)
        BY <1>5, <2>1, <2>5
    <2>8. CallView(p, n)'
        BY <2>1, <2>5, <2>6, <2>7, FreeingOn
    <2> QED
        BY <1>7, <2>1, <2>8
<1>12. ASSUME NEW s, NEW e, NEW k, BeginsCut(s, e, k)
       PROVE  /\ \E p, m : CallView(p, m)'
              /\ pc' = "cut" /\ Tidy(dirents') /\ sec' = 0 /\ offset' = 0 /\ what' = "dir"
    <2>1. /\ Replaces(s, e) /\ e.start = dir[s].start /\ e.size = k
          /\ k \in 0 .. MaxLength /\ k # 0 /\ ~(k > dir[s].size)
          /\ pc' = "cut" /\ what' = "dir" /\ cur' = dir[s].start /\ left' = k
          /\ sec' = 0 /\ offset' = 0 /\ fat' = fat
        BY <1>12 DEF BeginsCut, Enter, Steady
    <2>2. /\ s \in Slots /\ \A t \in Slots : dirents'[t] = IF t = s THEN e ELSE dir[t]
          /\ dir[s].size \in Nat /\ e.size \in Nat
        BY <1>7, <2>1
    <2>3. k \in Nat /\ k > 0 /\ k <= dir[s].size
        BY <2>1, <2>2
    <2>4. dir[s].start # 0
        BY <1>2, <2>2, <2>3 DEF Tidy
    <2>5. InUse(fat, dir[s].start) /\ o[dir[s].start] = s /\ n[dir[s].start] = 0
        BY <1>7, <2>1, <2>4
    <2>6. Numbered(fat', dirents', 0, o, n)
        BY <1>5, <2>1, <2>2, SameStarts
    <2>7. \A t \in Slots : Backed(fat', dirents', o, n, t)
        <3>1. \A t \in Slots : t # s => dirents'[t].size = dir[t].size
            BY <2>2
        <3>2. dirents'[s].size = k
            BY <2>1, <2>2
        <3>3. Backed(fat', dirents', o, n, s)
            BY <1>5, <1>6, <2>1, <2>2, <2>3, <3>2 DEF Backed
        <3>4. ASSUME NEW t \in Slots, t # s
              PROVE  Backed(fat', dirents', o, n, t)
            BY <1>5, <2>1, <3>1, <3>4 DEF Backed
        <3> QED
            BY <3>3, <3>4
    <2>8. ~Freeing' /\ ~WritingFile' /\ Loose' = 0
        BY <2>1, <2>3 DEF Freeing, WritingFile, Loose
    <2>9. InUse(fat', cur') /\ n[cur'] + left' = dirents'[o[cur']].size
        BY <2>1, <2>2, <2>3, <2>5
    <2>10. CallView(o, n)'
        BY <2>6, <2>7, <2>8, <2>9 DEF CallView
    <2>11. Tidy(dirents')
        BY <1>7, <2>1, <2>4
    <2> QED
        BY <2>1, <2>10, <2>11
<1>13. ASSUME NEW s, NEW e, NEW k, NEW b, BeginsFile(s, e, k, b)
       PROVE  /\ \E p, m : CallView(p, m)'
              /\ pc' = "write" /\ Tidy(dirents') /\ sec' = 0 /\ offset' = 0 /\ what' = "file"
    <2>1. /\ Replaces(s, e) /\ e.start = dir[s].start /\ dir[s].start # 0 /\ e.size = k
          /\ k \in 1 .. MaxLength
          /\ pc' = "write" /\ what' = "file" /\ cur' = dir[s].start /\ left' = k
          /\ sec' = 0 /\ offset' = 0 /\ fat' = fat
        BY <1>13 DEF BeginsFile, Enter
    <2>2. /\ s \in Slots /\ \A t \in Slots : dirents'[t] = IF t = s THEN e ELSE dir[t]
          /\ InUse(fat, dir[s].start) /\ o[dir[s].start] = s /\ n[dir[s].start] = 0
        BY <1>7, <2>1
    <2>3. Numbered(fat', dirents', 0, o, n)
        BY <1>5, <2>1, <2>2, SameStarts
    <2>4. ASSUME NEW t \in Slots, t # s
          PROVE  Backed(fat', dirents', o, n, t)
        BY <1>5, <2>1, <2>2, <2>4 DEF Backed
    <2>5. ~Freeing' /\ WritingFile' /\ Loose' = 0
        BY <2>1 DEF Freeing, WritingFile, Loose
    <2>6. InUse(fat', cur') /\ n[cur'] = offset' /\ offset' + left' = dirents'[o[cur']].size
          /\ o[cur'] = s
        BY <2>1, <2>2
    <2>7. CallView(o, n)'
        BY <2>1, <2>3, <2>4, <2>5, <2>6 DEF CallView
    <2> QED
        BY <1>7, <2>1, <2>7
<1>14. ASSUME NEW s, NEW e, NEW c, NEW k, NEW b, BeginsNewFile(s, e, c, k, b)
       PROVE  /\ \E p, m : CallView(p, m)'
              /\ pc' = "write" /\ Tidy(dirents') /\ sec' = 0 /\ offset' = 0 /\ what' = "file"
    <2>1. /\ Replaces(s, e) /\ e.start = c /\ dir[s].start = 0 /\ e.size = k
          /\ c \in Clusters /\ fat[c] = FREE /\ fat' = [fat EXCEPT ![c] = LAST]
          /\ k \in 1 .. MaxLength
          /\ pc' = "write" /\ what' = "file" /\ cur' = c /\ left' = k
          /\ sec' = 0 /\ offset' = 0
        BY <1>14 DEF BeginsNewFile, Enter
    <2>2. s \in Slots /\ \A t \in Slots : dirents'[t] = IF t = s THEN e ELSE dir[t]
        BY <1>7, <2>1
    <2> DEFINE p == [o EXCEPT ![c] = s]
               m == [n EXCEPT ![c] = 0]
    <2>3. \A t \in Slots : dirents'[t].start = IF t = s THEN c ELSE dir[t].start
        BY <2>1, <2>2
    <2>4. \A t \in Slots : t # s => dirents'[t].size = dir[t].size
        BY <2>2
    <2> HIDE DEF p, m
    <2>5. /\ Numbered(fat', dirents', 0, p, m)
          /\ InUse(fat', c) /\ p[c] = s /\ m[c] = 0
          /\ \A t \in Slots : t # s /\ Backed(fat, dir, o, n, t) => Backed(fat', dirents', p, m, t)
        <3>1. p = [o EXCEPT ![c] = s] /\ m = [n EXCEPT ![c] = 0]
            BY DEF p, m
        <3>2. /\ fat \in FAT /\ DirChainKept(fat) /\ dir \in Directory /\ Numbered(fat, dir, 0, o, n)
              /\ s \in Slots /\ dir[s].start = 0 /\ c \in Clusters /\ fat[c] = FREE
              /\ fat' = [fat EXCEPT ![c] = LAST]
            BY <1>3, <1>5, <2>1, <2>2
        <3>3. HeadGiven(fat, dir, o, n, s, c, dirents', fat', p, m)
            BY <2>3, <2>4, <3>1, <3>2 DEF HeadGiven
        <3> QED
            BY <3>3, NewNumbered
    <2>6. ~Freeing' /\ WritingFile' /\ Loose' = 0
        BY <2>1 DEF Freeing, WritingFile, Loose
    <2>7. m[cur'] = offset' /\ offset' + left' = dirents'[p[cur']].size
        BY <2>1, <2>2, <2>5
    <2>8. CallView(p, m)'
        BY <1>5, <2>1, <2>5, <2>6, <2>7 DEF CallView
    <2>9. c # 0
        BY <2>1, ClusterFacts DEF FREE
    <2> QED
        BY <1>7, <2>1, <2>8, <2>9
<1> QED
    BY <1>9, <1>10, <1>11, <1>12, <1>13, <1>14, BeginEffect, <1>1

\* What a step finds: numbered chains, with nothing loose or with cur loose.
LEMMA ViewFacts ==
    ASSUME TypeInv, DirInv, ChainInv, pc # "panic"
    PROVE  /\ fat \in FAT /\ dirents \in Directory /\ DirChainKept(fat)
           /\ \E o, n : CallView(o, n)
BY DEF TypeInv, TypeOK, FAT, Directory, DirInv, ChainInv

LEMMA AllBacked ==
    ASSUME NEW o, NEW n, CallView(o, n), ~WritingFile
    PROVE  \A s \in Slots : Backed(fat, dirents, o, n, s)
BY DEF CallView

\* One step of a loop that frees.
LEMMA FreeOne ==
    ASSUME fat \in FAT, dirents \in Directory, NEW o, NEW n, CallView(o, n), Freeing,
           fat' = [fat EXCEPT ![cur] = FREE], dirents' = dirents
    PROVE  /\ EndsChain(fat[cur]) \/ fat[cur] \in Clusters
           /\ \E m : /\ Numbered(fat', dirents', IF EndsChain(fat[cur]) THEN 0 ELSE fat[cur], o, m)
                     /\ \A s \in Slots : Backed(fat', dirents', o, m, s)
<1>1. Numbered(fat, dirents, cur, o, n) /\ cur \in Clusters /\ ~WritingFile
    BY DEF CallView, Loose, Freeing, WritingFile
<1>2. \A s \in Slots : Backed(fat, dirents, o, n, s)
    BY <1>1, AllBacked
<1>3. InUse(fat, cur)
    <2>1. HeadOf(dirents, cur, 0) = cur /\ 0 \in Ids /\ cur # 0
        BY <1>1, ClusterFacts DEF HeadOf, Ids, FREE
    <2> QED
        BY <1>1, <2>1 DEF Numbered, HeadsFirst
<1>4. EndsChain(fat[cur]) \/ fat[cur] \in Clusters
    BY <1>3, InUseFacts DEF EndsChain
<1> DEFINE m == [c \in Clusters |-> IF o[c] = 0 /\ n[c] > 0 THEN n[c] - 1 ELSE n[c]]
           y == IF EndsChain(fat[cur]) THEN 0 ELSE fat[cur]
<1>5. /\ Numbered(fat', dirents, y, o, m)
      /\ \A s \in Slots : Backed(fat, dirents, o, n, s) => Backed(fat', dirents, o, m, s)
    BY <1>1, FreeNumberedHead
<1> HIDE DEF m
<1> QED
    BY <1>2, <1>4, <1>5

LEMMA FreeStepChain == TypeInv /\ DirInv /\ ChainInv /\ FreeStep => ChainInv'
<1> SUFFICES ASSUME TypeInv, DirInv, ChainInv, FreeStep PROVE ChainInv'
    OBVIOUS
<1>1. pc = "free" /\ fat' = [fat EXCEPT ![cur] = FREE] /\ dirents' = dirents
      /\ dir' = dir /\ diskFat' = diskFat /\ Freeing
    BY DEF FreeStep, card, Freeing
<1>2. fat \in FAT /\ dirents \in Directory
    BY <1>1, ViewFacts
<1>3. PICK o, n : CallView(o, n)
    BY <1>1, ViewFacts
<1>4. PICK m : /\ Numbered(fat', dirents', IF EndsChain(fat[cur]) THEN 0 ELSE fat[cur], o, m)
               /\ \A s \in Slots : Backed(fat', dirents', o, m, s)
    BY <1>1, <1>2, <1>3, FreeOne
<1>5. EndsChain(fat[cur]) \/ fat[cur] \in Clusters
    BY <1>1, <1>2, <1>3, FreeOne
<1>6. Tidy(dir') /\ Tidy(dirents') /\ sec = 0 /\ what = "dir"
    BY <1>1 DEF ChainInv, Progress, TypeInv, TypeOK
<1>7. CASE EndsChain(fat[cur])
    <2>1. pc' = "write" /\ what' = "dir" /\ offset' = 0 /\ sec' = 0
        BY <1>7, WriteDirectoryLocals DEF FreeStep
    <2>2. CallView(o, m)'
        BY <1>4, <1>7, <2>1, Settled
    <2>3. Progress'
        BY <2>1, BlockFacts DEF Progress
    <2> QED
        BY <1>6, <2>1, <2>2, <2>3 DEF ChainInv, WritingFile
<1>8. CASE ~EndsChain(fat[cur])
    <2>1. pc' = "free" /\ what' = "dir" /\ sec' = 0 /\ cur' = fat[cur]
        BY <1>1, <1>6, <1>8 DEF FreeStep
    <2>2. CallView(o, m)'
        BY <1>4, <1>5, <1>8, <2>1, FreeingOn
    <2>3. Progress'
        BY <2>1 DEF Progress
    <2> QED
        BY <1>6, <2>1, <2>2, <2>3 DEF ChainInv, WritingFile
<1> QED
    BY <1>7, <1>8

LEMMA TailStepChain == TypeInv /\ DirInv /\ ChainInv /\ TailStep => ChainInv'
<1> SUFFICES ASSUME TypeInv, DirInv, ChainInv, TailStep PROVE ChainInv'
    OBVIOUS
<1>1. /\ pc = "tail" /\ fat' = [fat EXCEPT ![cur] = FREE] /\ dirents' = dirents
      /\ dir' = dir /\ diskFat' = diskFat /\ Freeing /\ what' = what /\ sec' = sec
      /\ offset' = offset
    BY DEF TailStep, card, Freeing
<1>2. fat \in FAT /\ dirents \in Directory
    BY <1>1, ViewFacts
<1>3. PICK o, n : CallView(o, n)
    BY <1>1, ViewFacts
<1>4. PICK m : /\ Numbered(fat', dirents', IF EndsChain(fat[cur]) THEN 0 ELSE fat[cur], o, m)
               /\ \A s \in Slots : Backed(fat', dirents', o, m, s)
    BY <1>1, <1>2, <1>3, FreeOne
<1>5. EndsChain(fat[cur]) \/ fat[cur] \in Clusters
    BY <1>1, <1>2, <1>3, FreeOne
<1>6. Tidy(dir') /\ Tidy(dirents') /\ sec = 0 /\ what = "file"
    BY <1>1 DEF ChainInv, Progress
<1>7. CASE EndsChain(fat[cur])
    <2>1. pc' = "sync"
        BY <1>7 DEF TailStep
    <2>2. CallView(o, m)'
        BY <1>4, <1>7, <2>1, Settled
    <2>3. ASSUME NEW c \in 0 .. NEntries - 1
          PROVE  ~(c \div EntriesPerSector < 0)
        BY SectorFacts
    <2>4. Progress'
        BY <1>1, <1>6, <2>1, <2>3 DEF Progress
    <2> QED
        BY <1>6, <2>1, <2>2, <2>4 DEF ChainInv, WritingFile
<1>8. CASE ~EndsChain(fat[cur])
    <2>1. pc' = "tail" /\ cur' = fat[cur]
        BY <1>1, <1>8 DEF TailStep
    <2>2. CallView(o, m)'
        BY <1>4, <1>5, <1>8, <2>1, FreeingOn
    <2>3. Progress'
        BY <1>1, <1>6, <2>1 DEF Progress
    <2> QED
        BY <1>6, <2>1, <2>2, <2>3 DEF ChainInv, WritingFile
<1> QED
    BY <1>7, <1>8

\* The edit that ends a file's chain at cur, with the file's size reached there.
LEMMA CutOne ==
    ASSUME fat \in FAT, dirents \in Directory, NEW o, NEW n, CallView(o, n), ~Freeing,
           InUse(fat, cur), dirents[o[cur]].size <= n[cur] + 1,
           fat' = [fat EXCEPT ![cur] = LAST], dirents' = dirents
    PROVE  /\ EndsChain(fat[cur]) \/ fat[cur] \in Clusters
           /\ \E p, m : /\ Numbered(fat', dirents', IF EndsChain(fat[cur]) THEN 0 ELSE fat[cur], p, m)
                        /\ \A s \in Slots : Backed(fat', dirents', p, m, s)
<1>1. Numbered(fat, dirents, 0, o, n) /\ cur \in Clusters
    BY InUseFacts DEF CallView, Loose
<1>2. EndsChain(fat[cur]) \/ fat[cur] \in Clusters
    BY InUseFacts DEF EndsChain
<1>3. \A s \in Slots : s # o[cur] => Backed(fat, dirents, o, n, s)
    BY DEF CallView
<1> DEFINE y == IF EndsChain(fat[cur]) THEN 0 ELSE fat[cur]
           p == [e \in Clusters |-> IF o[e] = o[cur] /\ n[e] > n[cur] THEN 0 ELSE o[e]]
           m == [e \in Clusters |-> IF o[e] = o[cur] /\ n[e] > n[cur]
                                      THEN n[e] - n[cur] - 1 ELSE n[e]]
<1> HIDE DEF p, m, y
<1>4. /\ Numbered(fat', dirents, y, p, m)
      /\ o[cur] \in Slots
      /\ \A s \in Slots : s # o[cur] /\ Backed(fat, dirents, o, n, s) => Backed(fat', dirents, p, m, s)
      /\ Backed(fat', dirents, p, m, o[cur])
    <2>1. ChainCut(fat, dirents, o, n, cur, fat', y, p, m)
        BY <1>1 DEF ChainCut, p, m, y
    <2>2. Numbered(fat', dirents, y, p, m) /\ o[cur] \in Slots
        BY <2>1, CutNumbered
    <2>3. dirents[o[cur]].size <= n[cur] + 1 => Backed(fat', dirents, p, m, o[cur])
        BY <2>1, CutNumbered, Zenon
    <2>4. ASSUME NEW s \in Slots, s # o[cur], Backed(fat, dirents, o, n, s)
          PROVE  Backed(fat', dirents, p, m, s)
        BY <2>1, <2>4, CutNumbered
    <2> QED
        BY <2>2, <2>3, <2>4
<1>5. \A s \in Slots : Backed(fat', dirents', p, m, s)
    BY <1>3, <1>4
<1>6. Numbered(fat', dirents', IF EndsChain(fat[cur]) THEN 0 ELSE fat[cur], p, m)
    BY <1>4 DEF y
<1> QED
    BY <1>2, <1>5, <1>6

LEMMA CutStepChain == TypeInv /\ DirInv /\ ChainInv /\ CutStep => ChainInv'
<1> SUFFICES ASSUME TypeInv, DirInv, ChainInv, CutStep PROVE ChainInv'
    OBVIOUS
<1>1. /\ pc = "cut" /\ dirents' = dirents /\ dir' = dir /\ diskFat' = diskFat
      /\ fat' = (IF CutsHere THEN [fat EXCEPT ![cur] = IF left > 0 THEN LAST ELSE FREE] ELSE fat)
      /\ left \in Nat
    BY DEF CutStep, card, TypeInv, TypeOK
<1>2. fat \in FAT /\ dirents \in Directory
    BY <1>1, ViewFacts
<1>3. PICK o, n : CallView(o, n)
    BY <1>1, ViewFacts
<1>4. Tidy(dir') /\ Tidy(dirents') /\ sec = 0 /\ what = "dir"
    BY <1>1 DEF ChainInv, Progress, TypeInv, TypeOK
<1>5. \A s \in Slots : Backed(fat, dirents, o, n, s)
    BY <1>1, <1>3, AllBacked DEF WritingFile
<1>6. ASSUME NEW p, NEW m, NEW x,
             Numbered(fat', dirents', x, p, m), \A s \in Slots : Backed(fat', dirents', p, m, s),
             WriteDirectory, x = 0
      PROVE  ChainInv'
    <2>1. pc' = "write" /\ what' = "dir" /\ offset' = 0 /\ sec' = 0
        BY <1>6, WriteDirectoryLocals
    <2>2. CallView(p, m)'
        BY <1>6, <2>1, Settled
    <2>3. Progress'
        BY <2>1, BlockFacts DEF Progress
    <2> QED
        BY <1>4, <2>1, <2>2, <2>3 DEF ChainInv, WritingFile
<1>7. ASSUME NEW p, NEW m, CallView(p, m)', ~WriteDirectory
      PROVE  ChainInv'
    <2>1. pc' = "cut" /\ what' = "dir" /\ sec' = 0
        BY <1>1, <1>4, <1>7 DEF CutStep
    <2>2. Progress'
        BY <2>1 DEF Progress
    <2> QED
        BY <1>4, <1>7, <2>1, <2>2 DEF ChainInv, WritingFile
<1>8. EndsChain(fat[cur]) => WriteDirectory
    BY DEF CutStep
<1>9. ~EndsChain(fat[cur]) => /\ pc' = "cut" /\ what' = "dir" /\ cur' = fat[cur]
                              /\ left' = left - BytesWrite /\ ~WriteDirectory
    BY <1>1, <1>4 DEF CutStep, WriteDirectory, Enter
<1>10. CASE left = 0
    <2>1. fat' = [fat EXCEPT ![cur] = FREE] /\ Freeing /\ BytesWrite = 0
        BY <1>1, <1>10 DEF CutsHere, BytesWrite, Freeing
    <2>2. PICK m : /\ Numbered(fat', dirents', IF EndsChain(fat[cur]) THEN 0 ELSE fat[cur], o, m)
                   /\ \A s \in Slots : Backed(fat', dirents', o, m, s)
        BY <1>1, <1>2, <1>3, <2>1, FreeOne
    <2>3. EndsChain(fat[cur]) \/ fat[cur] \in Clusters
        BY <1>1, <1>2, <1>3, <2>1, FreeOne
    <2>4. CASE EndsChain(fat[cur])
        BY <1>6, <1>8, <2>2, <2>4
    <2>5. CASE ~EndsChain(fat[cur])
        <3>1. pc' = "cut" /\ left' = 0 /\ cur' = fat[cur] /\ cur' \in Clusters
            BY <1>9, <1>10, <2>1, <2>3, <2>5
        <3>2. CallView(o, m)'
            BY <2>2, <2>5, <3>1, FreeingOn
        <3> QED
            BY <1>7, <1>9, <2>5, <3>2
    <2> QED
        BY <2>4, <2>5
<1>11. left > 0 => InUse(fat, cur) /\ n[cur] + left = dirents[o[cur]].size
                   /\ ~Freeing /\ n[cur] \in Nat /\ cur \in Clusters
    BY <1>1, <1>2, <1>3, InUseFacts DEF CallView, Freeing, Numbered
<1>12. CASE left = 1
    <2>1. fat' = [fat EXCEPT ![cur] = LAST] /\ BytesWrite = 1
        BY <1>1, <1>12 DEF CutsHere, BytesWrite
    <2>2. InUse(fat, cur) /\ dirents[o[cur]].size <= n[cur] + 1 /\ ~Freeing
        BY <1>11, <1>12
    <2>3. PICK p, m :
              /\ Numbered(fat', dirents', IF EndsChain(fat[cur]) THEN 0 ELSE fat[cur], p, m)
              /\ \A s \in Slots : Backed(fat', dirents', p, m, s)
        BY <1>1, <1>2, <1>3, <2>1, <2>2, CutOne
    <2>4. EndsChain(fat[cur]) \/ fat[cur] \in Clusters
        BY <2>2, <1>2, InUseFacts DEF EndsChain
    <2>5. CASE EndsChain(fat[cur])
        BY <1>6, <1>8, <2>3, <2>5
    <2>6. CASE ~EndsChain(fat[cur])
        <3>1. pc' = "cut" /\ left' = 0 /\ cur' = fat[cur] /\ cur' \in Clusters
            BY <1>9, <1>12, <2>1, <2>4, <2>6
        <3>2. CallView(p, m)'
            BY <2>3, <2>6, <3>1, FreeingOn
        <3> QED
            BY <1>7, <1>9, <2>6, <3>2
    <2> QED
        BY <2>5, <2>6
<1>13. CASE left > 1
    <2>1. fat' = fat /\ BytesWrite = 1
        BY <1>1, <1>13 DEF CutsHere, BytesWrite
    <2>2. Numbered(fat', dirents', 0, o, n) /\ \A s \in Slots : Backed(fat', dirents', o, n, s)
        <3>1. Loose = 0
            BY <1>1, <1>11, <1>13 DEF Loose
        <3> QED
            BY <1>1, <1>3, <1>5, <2>1, <3>1 DEF CallView
    <2>3. CASE EndsChain(fat[cur])
        BY <1>6, <1>8, <2>2, <2>3
    <2>4. CASE ~EndsChain(fat[cur])
        <3>1. pc' = "cut" /\ left' = left - 1 /\ cur' = fat[cur]
            BY <1>9, <2>1, <2>4
        <3>2. InUse(fat, cur') /\ o[cur'] = o[cur] /\ n[cur'] = n[cur] + 1
            <4>1. LinksFollow(fat, o, n) /\ cur \in Clusters /\ InUse(fat, cur)
                BY <1>1, <1>11, <1>13, <2>1, <2>2 DEF Numbered
            <4> QED
                BY <2>4, <3>1, <4>1 DEF LinksFollow, EndsChain
        <3>3. n[cur'] + left' = dirents'[o[cur']].size
            BY <1>1, <1>11, <1>13, <3>1, <3>2
        <3>4. ~Freeing' /\ ~WritingFile' /\ Loose' = 0
            BY <1>1, <1>13, <3>1 DEF Freeing, WritingFile, Loose
        <3>5. CallView(o, n)'
            BY <2>1, <2>2, <3>2, <3>3, <3>4 DEF CallView
        <3> QED
            BY <1>7, <1>9, <2>4, <3>5
    <2> QED
        BY <2>3, <2>4
<1> QED
    BY <1>1, <1>10, <1>12, <1>13

\* A file's block that is not the last one is written at its place.
LEMMA FileWriting ==
    ASSUME TypeInv, DirInv, pc = "write", what = "file", NEW o, NEW n, CallView(o, n)
    PROVE  /\ Numbered(fat, dirents, 0, o, n) /\ ~Freeing
           /\ InUse(fat, cur) /\ cur \in Clusters /\ o[cur] \in Ids
           /\ n[cur] = offset /\ offset + left = dirents[o[cur]].size
           /\ offset \in Nat /\ left \in Nat /\ left >= 1
           /\ \A s \in Slots : s # o[cur] => Backed(fat, dirents, o, n, s)
<1>1. ~Freeing /\ Loose = 0 /\ WritingFile
    BY DEF Freeing, Loose, WritingFile
<1>2. /\ Numbered(fat, dirents, 0, o, n) /\ InUse(fat, cur)
      /\ n[cur] = offset /\ offset + left = dirents[o[cur]].size
      /\ \A s \in Slots : s # o[cur] => Backed(fat, dirents, o, n, s)
    BY <1>1 DEF CallView
<1>3. cur \in Clusters
    BY <1>2 DEF InUse
<1>4. offset \in Nat /\ left \in Nat /\ left >= 1
    BY DEF TypeInv, TypeOK, Writing
<1> QED
    BY <1>1, <1>2, <1>3, <1>4 DEF Numbered

\* The directory's blocks that have been written are the call's.
LEMMA DirWriting ==
    ASSUME TypeInv, DirInv, ChainInv, pc = "write", what = "dir", WriteBlock
    PROVE  /\ \A s \in Slots : BlockOf(s) <= offset + 1 => dir'[s] = dirents[s]
           /\ \A s \in Slots : dir'[s] = dir[s] \/ dir'[s] = dirents[s]
           /\ dir' \in [Slots -> Dirent] /\ dirents \in [Slots -> Dirent]
           /\ Tidy(dir')
           /\ left = 1 => dir' = dirents
<1>1. dir' = [s \in Slots |-> IF BlockOf(s) = offset + 1 THEN dirents[s] ELSE dir[s]]
    BY DEF WriteBlock
<1>2. /\ offset \in Nat /\ left \in Nat /\ offset + left = Len(DirChain)
      /\ dir \in [Slots -> Dirent] /\ dirents \in [Slots -> Dirent]
    BY DEF TypeInv, TypeOK, DirInv, DirPosition
<1>3. \A s \in Slots : BlockOf(s) <= offset => dir[s] = dirents[s]
    BY DEF ChainInv, Progress
<1>4. \A s \in Slots : BlockOf(s) \in 1 .. Len(DirChain)
    BY BlockFacts
<1>5. \A s \in Slots : BlockOf(s) <= offset + 1 => dir'[s] = dirents[s]
    BY <1>1, <1>2, <1>3, <1>4
<1>6. \A s \in Slots : dir'[s] = dir[s] \/ dir'[s] = dirents[s]
    BY <1>1
<1>7. dir' \in [Slots -> Dirent]
    BY <1>1, <1>2
<1>8. Tidy(dir')
    BY <1>6 DEF Tidy, ChainInv
<1>9. ASSUME left = 1
      PROVE  dir' = dirents
    <2>1. \A s \in Slots : dir'[s] = dirents[s]
        BY <1>2, <1>4, <1>5, <1>9
    <2> QED
        BY <1>2, <1>7, <2>1
<1> QED
    BY <1>2, <1>5, <1>6, <1>7, <1>8, <1>9

LEMMA WriteLastBlockChain == TypeInv /\ DirInv /\ ChainInv /\ WriteLastBlock => ChainInv'
<1> SUFFICES ASSUME TypeInv, DirInv, ChainInv, WriteLastBlock PROVE ChainInv'
    OBVIOUS
<1>1. /\ pc = "write" /\ left = 1 /\ cur \in Clusters /\ fat' = [fat EXCEPT ![cur] = LAST]
      /\ dirents' = dirents /\ diskFat' = diskFat /\ what' = what /\ offset' = offset
      /\ sec' = sec /\ WriteBlock
    BY DEF WriteLastBlock
<1>2. fat \in FAT /\ dirents \in Directory
    BY <1>1, ViewFacts
<1>3. PICK o, n : CallView(o, n)
    BY <1>1, ViewFacts
<1>4. Tidy(dirents') /\ sec' = 0
    BY <1>1 DEF ChainInv, Progress
<1>5. \A c \in 0 .. NEntries - 1 : ~(c \div EntriesPerSector < 0)
    BY SectorFacts
<1>6. CASE what = "file"
    <2>1. dir' = dir
        BY <1>1, <1>6 DEF WriteBlock
    <2>2. InUse(fat, cur) /\ dirents[o[cur]].size <= n[cur] + 1 /\ ~Freeing
        BY <1>1, <1>3, <1>6, FileWriting
    <2>3. PICK p, m :
              /\ Numbered(fat', dirents', IF EndsChain(fat[cur]) THEN 0 ELSE fat[cur], p, m)
              /\ \A s \in Slots : Backed(fat', dirents', p, m, s)
        BY <1>1, <1>2, <1>3, <2>2, CutOne
    <2>4. EndsChain(fat[cur]) \/ fat[cur] \in Clusters
        BY <1>2, <2>2, InUseFacts DEF EndsChain
    <2>5. CASE EndsChain(fat[cur])
        <3>1. pc' = "sync"
            BY <2>5 DEF WriteLastBlock
        <3>2. CallView(p, m)'
            BY <2>3, <2>5, <3>1, Settled
        <3>3. Progress'
            BY <1>1, <1>4, <1>5, <1>6, <3>1 DEF Progress
        <3> QED
            BY <1>4, <2>1, <3>1, <3>2, <3>3 DEF ChainInv, WritingFile
    <2>6. CASE ~EndsChain(fat[cur])
        <3>1. pc' = "tail" /\ cur' = fat[cur]
            BY <2>6 DEF WriteLastBlock
        <3>2. CallView(p, m)'
            BY <2>3, <2>4, <2>6, <3>1, FreeingOn
        <3>3. Progress'
            BY <1>1, <1>4, <1>6, <3>1 DEF Progress
        <3> QED
            BY <1>4, <2>1, <3>1, <3>2, <3>3 DEF ChainInv, WritingFile
    <2> QED
        BY <2>5, <2>6
<1>7. CASE what = "dir"
    <2>1. fat[cur] = LAST
        BY <1>1, <1>7, DirWriteFacts
    <2>2. fat' = fat
        BY <1>1, <1>2, <2>1 DEF FAT
    <2>3. dir' = dirents /\ Tidy(dir')
        BY <1>1, <1>7, DirWriting
    <2>4. pc' = "sync"
        BY <2>1 DEF WriteLastBlock, EndsChain
    <2>5. Numbered(fat, dirents, 0, o, n) /\ \A s \in Slots : Backed(fat, dirents, o, n, s)
        <3>1. Loose = 0 /\ ~WritingFile
            BY <1>1, <1>7 DEF Loose, Freeing, WritingFile
        <3> QED
            BY <1>3, <3>1 DEF CallView
    <2>6. CallView(o, n)'
        BY <1>1, <2>2, <2>4, <2>5, Settled
    <2>7. Progress'
        BY <1>1, <1>4, <1>5, <1>7, <2>3, <2>4 DEF Progress
    <2> QED
        BY <1>4, <2>3, <2>4, <2>6, <2>7 DEF ChainInv, WritingFile
<1> QED
    BY <1>6, <1>7 DEF TypeInv, TypeOK

LEMMA WriteNextBlockChain == TypeInv /\ DirInv /\ ChainInv /\ WriteNextBlock => ChainInv'
<1> SUFFICES ASSUME TypeInv, DirInv, ChainInv, WriteNextBlock PROVE ChainInv'
    OBVIOUS
<1>1. /\ pc = "write" /\ left > 1 /\ cur \in Clusters /\ ~EndsChain(fat[cur]) /\ fat' = fat
      /\ pc' = "write" /\ cur' = fat[cur] /\ left' = left - 1 /\ offset' = offset + 1
      /\ dirents' = dirents /\ diskFat' = diskFat /\ what' = what /\ sec' = sec /\ WriteBlock
    BY DEF WriteNextBlock
<1>2. fat \in FAT /\ dirents \in Directory
    BY <1>1, ViewFacts
<1>3. PICK o, n : CallView(o, n)
    BY <1>1, ViewFacts
<1>4. Tidy(dirents') /\ sec' = 0
    BY <1>1 DEF ChainInv, Progress
<1>5. CASE what = "file"
    <2>1. dir' = dir /\ Tidy(dir')
        BY <1>1, <1>5 DEF WriteBlock, ChainInv
    <2>2. /\ Numbered(fat, dirents, 0, o, n)
          /\ InUse(fat, cur) /\ cur \in Clusters
          /\ n[cur] = offset /\ offset + left = dirents[o[cur]].size
          /\ offset \in Nat /\ left \in Nat
          /\ \A s \in Slots : s # o[cur] => Backed(fat, dirents, o, n, s)
        BY <1>1, <1>3, <1>5, FileWriting
    <2>3. InUse(fat, cur') /\ o[cur'] = o[cur] /\ n[cur'] = n[cur] + 1
        BY <1>1, <2>2 DEF Numbered, LinksFollow, EndsChain
    <2>4. n[cur'] = offset' /\ offset' + left' = dirents'[o[cur']].size
        BY <1>1, <2>2, <2>3
    <2>5. ~Freeing' /\ Loose' = 0 /\ WritingFile'
        BY <1>1, <1>5 DEF Freeing, Loose, WritingFile
    <2>6. \A s \in Slots : s # o[cur'] => Backed(fat', dirents', o, n, s)
        BY <1>1, <2>2, <2>3
    <2>7. Numbered(fat', dirents', 0, o, n) /\ InUse(fat', cur')
        BY <1>1, <2>2, <2>3
    <2>8. CallView(o, n)'
        BY <1>1, <2>4, <2>5, <2>6, <2>7 DEF CallView
    <2>9. Complete(diskFat', dir')
        BY <1>1, <1>5, <2>1 DEF ChainInv, WritingFile
    <2>10. Progress'
        BY <1>1, <1>4, <1>5 DEF Progress
    <2> QED
        BY <1>4, <2>1, <2>8, <2>9, <2>10 DEF ChainInv
<1>6. CASE what = "dir"
    <2>1. Numbered(fat, dirents, 0, o, n) /\ \A s \in Slots : Backed(fat, dirents, o, n, s)
        <3>1. Loose = 0 /\ ~WritingFile
            BY <1>1, <1>6 DEF Loose, Freeing, WritingFile
        <3> QED
            BY <1>3, <3>1 DEF CallView
    <2>2. CallView(o, n)'
        BY <1>1, <1>6, <2>1, Settled
    <2>3. /\ \A s \in Slots : BlockOf(s) <= offset + 1 => dir'[s] = dirents[s]
          /\ Tidy(dir')
        BY <1>1, <1>6, DirWriting
    <2>4. Progress'
        BY <1>1, <1>4, <1>6, <2>3 DEF Progress
    <2> QED
        BY <1>1, <1>4, <1>6, <2>2, <2>3, <2>4 DEF ChainInv, WritingFile
<1> QED
    BY <1>5, <1>6 DEF TypeInv, TypeOK

LEMMA WriteAndExtendChain == TypeInv /\ DirInv /\ ChainInv /\ WriteAndExtend => ChainInv'
<1> SUFFICES ASSUME TypeInv, DirInv, ChainInv, WriteAndExtend PROVE ChainInv'
    OBVIOUS
<1>1. /\ pc = "write" /\ left > 1 /\ cur \in Clusters /\ fat[cur] = LAST
      /\ diskFat' = diskFat /\ WriteBlock
    BY DEF WriteAndExtend, EndsChain
<1>2. fat \in FAT /\ dirents \in Directory /\ DirChainKept(fat)
    BY <1>1, ViewFacts
<1>3. PICK o, n : CallView(o, n)
    BY <1>1, ViewFacts
<1>4. Tidy(dirents) /\ Tidy(dir) /\ sec = 0
    BY <1>1 DEF ChainInv, Progress
<1>5. what = "file"
    BY <1>1, DirWriteFacts DEF EndsChain, TypeInv, TypeOK
<1>6. dir' = dir /\ Complete(diskFat', dir')
    BY <1>1, <1>5 DEF WriteBlock, ChainInv, WritingFile
<1>7. /\ Numbered(fat, dirents, 0, o, n)
      /\ InUse(fat, cur) /\ cur \in Clusters
      /\ n[cur] = offset /\ offset + left = dirents[o[cur]].size
      /\ offset \in Nat /\ left \in Nat
      /\ \A s \in Slots : s # o[cur] => Backed(fat, dirents, o, n, s)
    BY <1>1, <1>3, <1>5, FileWriting
<1>8. ASSUME NEW c, c \in FreeFrom(cur), fat' = [fat EXCEPT ![cur] = c, ![c] = LAST],
             cur' = c, left' = left - 1, offset' = offset + 1,
             UNCHANGED <<pc, dirents, what, payload, sec>>
      PROVE  ChainInv'
    <2>1. c \in Clusters /\ fat[c] = FREE
        BY <1>8 DEF FreeFrom, Clusters
    <2>2. PICK p : p = [o EXCEPT ![c] = o[cur]]
        OBVIOUS
    <2>3. PICK m : m = [n EXCEPT ![c] = n[cur] + 1]
        OBVIOUS
    <2>4. /\ Numbered(fat', dirents, 0, p, m)
          /\ InUse(fat', c) /\ p[c] = o[cur] /\ m[c] = n[cur] + 1
          /\ \A s \in Slots : s # o[cur] /\ Backed(fat, dirents, o, n, s)
                               => Backed(fat', dirents, p, m, s)
        <3>1. Extended(fat, dirents, o, n, cur, c, fat', p, m)
            BY <1>1, <1>2, <1>7, <1>8, <2>1, <2>2, <2>3 DEF Extended
        <3> QED
            BY <3>1, ExtendNumbered
    <2>5. ~Freeing' /\ Loose' = 0 /\ WritingFile'
        BY <1>1, <1>5, <1>8 DEF Freeing, Loose, WritingFile
    <2>6. m[cur'] = offset' /\ offset' + left' = dirents'[p[cur']].size
        BY <1>1, <1>7, <1>8, <2>4
    <2>7. \A s \in Slots : s # p[cur'] => Backed(fat', dirents', p, m, s)
        BY <1>7, <1>8, <2>4
    <2>8. Numbered(fat', dirents', 0, p, m) /\ InUse(fat', cur')
        BY <1>8, <2>4
    <2>9. CallView(p, m)'
        <3>1. ~(pc' = "cut")
            BY <1>1, <1>8
        <3>2. \A s \in Slots : Backed(fat', dirents', p, m, s) \/ (WritingFile' /\ p[cur'] = s)
            BY <2>5, <2>7
        <3> QED
            BY <2>5, <2>6, <2>8, <3>1, <3>2 DEF CallView
    <2>10. Progress'
        BY <1>1, <1>4, <1>5, <1>8 DEF Progress
    <2> QED
        BY <1>4, <1>6, <1>8, <2>9, <2>10 DEF ChainInv
<1>9. ASSUME Stop("panic"), dirents' = dir', UNCHANGED fat
      PROVE  ChainInv'
    <2>1. pc' = "panic" /\ what' = "dir" /\ sec' = 0
        BY <1>9 DEF Stop, Enter
    <2>2. Progress'
        BY <1>9, <2>1 DEF Progress
    <2> QED
        BY <1>4, <1>6, <1>9, <2>1, <2>2 DEF ChainInv
<1> QED
    BY <1>8, <1>9 DEF WriteAndExtend

\* write_fat_to_disk, and what write_cluster_chain's callers do next.
LEMMA SyncStepChain == TypeInv /\ DirInv /\ ChainInv /\ SyncStep => ChainInv'
<1> SUFFICES ASSUME TypeInv, DirInv, ChainInv, SyncStep PROVE ChainInv'
    OBVIOUS
<1>1. /\ pc = "sync" /\ diskFat' = SyncedFat /\ fat' = fat /\ dir' = dir
      /\ fat \in FAT /\ diskFat \in FAT /\ sec \in Nat /\ what \in {"file", "dir"}
    BY DEF SyncStep, TypeInv, TypeOK, FAT
<1>2. PICK o, n : CallView(o, n)
    BY <1>1, ViewFacts
<1>3. Numbered(fat, dirents, 0, o, n) /\ \A s \in Slots : Backed(fat, dirents, o, n, s)
    <2>1. Loose = 0 /\ ~WritingFile
        BY <1>1 DEF Loose, Freeing, WritingFile
    <2> QED
        BY <1>2, <2>1 DEF CallView
<1>4. Tidy(dir') /\ Tidy(dirents) /\ (what = "dir" => dir = dirents)
    BY <1>1 DEF ChainInv, Progress
<1>5. Synced(sec)
    BY <1>1 DEF ChainInv, Progress, Synced
<1>6. /\ \A c \in 0 .. NEntries - 1 :
             c \div EntriesPerSector < sec + 1 => diskFat'[c] = fat[c]
      /\ ~(sec + 1 < NSectors) => diskFat' = fat
    BY <1>1, <1>5, SectorSynced
<1>7. CASE sec + 1 < NSectors
    <2>1. sec' = sec + 1 /\ UNCHANGED <<pc, dirents, what, cur, left, offset, payload>>
        BY <1>7 DEF SyncStep
    <2>2. CallView(o, n)'
        BY <1>1, <1>3, <2>1, Settled
    <2>3. Progress'
        BY <1>1, <1>4, <1>6, <2>1 DEF Progress
    <2> QED
        BY <1>1, <1>4, <2>1, <2>2, <2>3 DEF ChainInv, WritingFile
<1>8. CASE ~(sec + 1 < NSectors) /\ what = "file"
    <2>1. WriteDirectory /\ dirents' = dirents
        BY <1>8 DEF SyncStep
    <2>2. pc' = "write" /\ what' = "dir" /\ offset' = 0 /\ sec' = 0
        BY <2>1, WriteDirectoryLocals
    <2>3. CallView(o, n)'
        BY <1>1, <1>3, <2>1, <2>2, Settled
    <2>4. Progress'
        BY <2>2, BlockFacts DEF Progress
    <2> QED
        BY <1>4, <2>1, <2>2, <2>3, <2>4 DEF ChainInv, WritingFile
<1>9. CASE ~(sec + 1 < NSectors) /\ what = "dir"
    <2>1. pc' = "idle" /\ what' = "dir" /\ sec' = 0 /\ dirents' = dir
        BY <1>9 DEF SyncStep, Stop, Enter
    <2>2. diskFat' = fat
        BY <1>6, <1>9
    <2>3. CallView(o, n)'
        BY <1>1, <1>3, <1>4, <1>9, <2>1, Settled
    <2>4. Complete(diskFat', dir')
        BY <1>1, <1>3, <1>4, <1>9, <2>2 DEF Complete
    <2>5. Progress'
        BY <1>1, <2>1, <2>2 DEF Progress
    <2> QED
        BY <1>1, <1>4, <2>1, <2>3, <2>4, <2>5 DEF ChainInv
<1> QED
    BY <1>1, <1>7, <1>8, <1>9

LEMMA NoLbaFailure == TypeInv /\ DirInv /\ ChainInv => ~LbaAssertFails
<1> SUFFICES ASSUME TypeInv, DirInv, ChainInv, pc = "write", cur < 2 PROVE FALSE
    BY DEF LbaAssertFails
<1>1. NEntries \in Nat /\ Clusters = 2 .. NEntries - 1
    BY ClusterFacts DEF Clusters
<1>2. CASE what = "file"
    <2>1. \E o, n : CallView(o, n)
        BY DEF ChainInv
    <2>2. cur \in Clusters
        BY <1>2, <2>1, FileWriting
    <2> QED
        BY <1>1, <2>2
<1>3. CASE what = "dir"
    <2>1. cur = DirChain[offset + 1] /\ offset + left = Len(DirChain)
          /\ left >= 1 /\ offset \in Nat /\ left \in Nat
        BY <1>3 DEF DirInv, DirPosition, TypeInv, TypeOK, Writing
    <2>2. offset + 1 \in 1 .. Len(DirChain)
        BY <2>1, DirChainFacts
    <2>3. cur \in Clusters
        BY <2>1, <2>2, DirChainFacts
    <2> QED
        BY <1>1, <2>3
<1> QED
    BY <1>2, <1>3 DEF TypeInv, TypeOK

LEMMA StepChain == TypeInv /\ DirInv /\ ChainInv /\ Step => ChainInv'
BY FreeStepChain, CutStepChain, WriteLastBlockChain, WriteNextBlockChain,
   WriteAndExtendChain, TailStepChain, SyncStepChain, NoLbaFailure DEF Step

\* A boot after a panic finds the chains of the card.
LEMMA RestartChain == ChainInv /\ Restart => ChainInv'
<1> SUFFICES ASSUME ChainInv, Restart PROVE ChainInv'
    OBVIOUS
<1>1. /\ pc = "panic" /\ fat' = diskFat /\ diskFat' = diskFat /\ dir' = dir /\ dirents' = dir
      /\ pc' = "idle" /\ what' = "dir" /\ sec' = 0
    BY DEF Restart, Boot, Stop, Enter, card
<1>2. Complete(diskFat, dir) /\ Tidy(dir)
    BY <1>1 DEF ChainInv
<1>3. PICK o, n : /\ Numbered(diskFat, dir, 0, o, n)
                  /\ \A s \in Slots : Backed(diskFat, dir, o, n, s)
    BY <1>2 DEF Complete
<1>4. CallView(o, n)'
    BY <1>1, <1>3, Settled
<1>5. Progress'
    BY <1>1 DEF Progress
<1> QED
    BY <1>1, <1>2, <1>4, <1>5 DEF ChainInv

\* The walk from a file's first cluster finds each of its clusters at its place.
LEMMA WalkFinds ==
    ASSUME NEW f \in FAT, NEW d \in Directory, NEW o, NEW n, Numbered(f, d, 0, o, n),
           NEW s \in Slots, NEW c \in Clusters, InUse(f, c), o[c] = s
    PROVE  n[c] \in 0 .. NEntries /\ Walk(f, d[s].start)[n[c]] = c
<1>1. /\ n \in [Clusters -> Nat] /\ LinksFollow(f, o, n) /\ Rooted(f, d, 0, o, n)
      /\ HeadOf(d, 0, s) = d[s].start /\ NEntries \in Nat
    BY ClusterFacts DEF Numbered, HeadOf, Slots
<1>2. d[s].start \in Entries
    BY ClusterFacts DEF Directory, Dirent, FREE
<1> DEFINE w == Walk(f, d[s].start)
<1>3. w[0] = d[s].start /\ \A k \in 1 .. NEntries : w[k] = Onward(f, w[k - 1])
    BY <1>2, WalkFacts DEF WalksTo
<1> HIDE DEF w
<1> DEFINE T == {k \in Nat : \A e \in Clusters :
                    InUse(f, e) /\ o[e] = s /\ n[e] = k => w[k] = e}
<1>4. 0 \in T
    BY <1>1, <1>3 DEF Rooted
<1>5. ASSUME NEW k \in Nat, k \in T
      PROVE  k + 1 \in T
    <2> SUFFICES ASSUME NEW e \in Clusters, InUse(f, e), o[e] = s, n[e] = k + 1
                 PROVE  w[k + 1] = e
        OBVIOUS
    <2>1. PICK q \in Clusters : InUse(f, q) /\ f[q] = e
        BY <1>1 DEF Rooted
    <2>2. o[q] = s /\ n[q] = k
        BY <1>1, <2>1, InUseFacts DEF LinksFollow
    <2>3. w[k] = q
        BY <1>5, <2>1, <2>2
    <2>4. k + 1 < NEntries
        BY PlaceBound
    <2>5. w[k + 1] = Onward(f, w[k])
        BY <1>1, <1>3, <2>4
    <2> QED
        BY <2>1, <2>3, <2>5 DEF Onward
<1>6. Nat \subseteq T
    <2> HIDE DEF T
    <2> QED
        BY <1>4, <1>5, SetInduction
<1>7. n[c] \in Nat /\ n[c] < NEntries
    BY <1>1, PlaceBound
<1> QED
    BY <1>1, <1>6, <1>7 DEF w

\* A file has a cluster at each place below its size.
LEMMA PlacesFilled ==
    ASSUME NEW f \in FAT, NEW d \in Directory, NEW o, NEW n, Numbered(f, d, 0, o, n),
           NEW s \in Slots, Backed(f, d, o, n, s), d[s].start # 0,
           NEW j \in 0 .. d[s].size - 1
    PROVE  \E c \in Clusters : InUse(f, c) /\ o[c] = s /\ n[c] = j
<1>1. /\ n \in [Clusters -> Nat] /\ LinksFollow(f, o, n)
      /\ HeadOf(d, 0, s) = d[s].start /\ d[s].size \in Nat /\ s \in Ids
    BY DEF Numbered, HeadOf, Slots, Ids, Directory, Dirent
<1> DEFINE T == {k \in Nat : k < d[s].size =>
                    \E c \in Clusters : InUse(f, c) /\ o[c] = s /\ n[c] = k}
<1>2. 0 \in T
    BY <1>1, InUseFacts DEF Numbered, HeadsFirst
<1>3. ASSUME NEW k \in Nat, k \in T
      PROVE  k + 1 \in T
    <2> SUFFICES ASSUME k + 1 < d[s].size
                 PROVE  \E c \in Clusters : InUse(f, c) /\ o[c] = s /\ n[c] = k + 1
        OBVIOUS
    <2>1. PICK c \in Clusters : InUse(f, c) /\ o[c] = s /\ n[c] = k
        BY <1>1, <1>3
    <2>2. f[c] # LAST
        BY <1>1, <2>1 DEF Backed
    <2>3. InUse(f, f[c]) /\ o[f[c]] = s /\ n[f[c]] = k + 1
        BY <1>1, <2>1, <2>2 DEF LinksFollow
    <2>4. f[c] \in Clusters
        BY <2>3, InUseFacts
    <2> QED
        BY <2>3, <2>4
<1>4. Nat \subseteq T
    <2> HIDE DEF T
    <2> QED
        BY <1>2, <1>3, SetInduction
<1>5. j \in Nat /\ j < d[s].size
    BY <1>1
<1> QED
    BY <1>4, <1>5

LEMMA ChainsBacked == TypeInv /\ ChainInv => SizeBacked
<1> SUFFICES ASSUME TypeInv, ChainInv, pc = "idle", NEW s \in Files(dir),
                    NEW k \in 0 .. dir[s].size - 1
             PROVE  Walk(fat, dir[s].start)[k] \in Clusters
    BY DEF SizeBacked
<1>1. PICK o, n : CallView(o, n)
    BY DEF ChainInv
<1>2. /\ Numbered(fat, dir, 0, o, n) /\ \A t \in Slots : Backed(fat, dir, o, n, t)
      /\ Tidy(dir)
    BY <1>1 DEF CallView, Loose, Freeing, WritingFile, ChainInv, Progress
<1>3. s \in Slots /\ fat \in FAT /\ dir \in Directory /\ dir[s].size \in Nat
    BY DEF Files, TypeInv, TypeOK, FAT, Directory, Dirent
<1>4. dir[s].start # 0
    BY <1>2, <1>3 DEF Tidy
<1>5. PICK c \in Clusters : InUse(fat, c) /\ o[c] = s /\ n[c] = k
    BY <1>2, <1>3, <1>4, PlacesFilled
<1> QED
    BY <1>2, <1>3, <1>5, WalkFinds

LEMMA ChainsReached == TypeInv /\ ChainInv => NoLeak
<1> SUFFICES ASSUME TypeInv, ChainInv, pc = "idle", NEW c \in Clusters, InUse(fat, c)
             PROVE  \E s \in Files(dir), k \in 0 .. NEntries : Walk(fat, dir[s].start)[k] = c
    BY DEF NoLeak
<1>1. PICK o, n : CallView(o, n)
    BY DEF ChainInv
<1>2. Numbered(fat, dir, 0, o, n) /\ Tidy(dir)
    BY <1>1 DEF CallView, Loose, Freeing, WritingFile, ChainInv, Progress
<1>3. fat \in FAT /\ dir \in Directory
    BY DEF TypeInv, TypeOK, FAT, Directory
<1>4. HeadOf(dir, 0, o[c]) \in Clusters
    BY <1>2, <1>3, HasHead
<1>5. o[c] \in Slots /\ dir[o[c]].start # 0
    BY <1>2, <1>4, ClusterFacts DEF HeadOf, Numbered, Ids, FREE
<1>6. o[c] \in Files(dir)
    BY <1>2, <1>5 DEF Tidy, Files
<1> QED
    BY <1>2, <1>3, <1>5, <1>6, WalkFinds

LEMMA ChainsKept == ASSUME Steady PROVE Spec => [](TypeInv /\ DirInv /\ ChainInv)
<1>1. Init => TypeInv /\ DirInv /\ ChainInv
    BY TypeInit, DirInit, ChainInit
<1>2. TypeInv /\ DirInv /\ ChainInv /\ [Next]_vars => (TypeInv /\ DirInv /\ ChainInv)'
    <2> SUFFICES ASSUME TypeInv, DirInv, ChainInv, [Next]_vars
                 PROVE  TypeInv' /\ DirInv' /\ ChainInv'
        OBVIOUS
    <2>1. TypeInv' /\ DirInv'
        <3>1. CASE UNCHANGED vars
            BY <3>1 DEF vars, TypeInv, TypeOK, Writing, DirInv, DirPosition, AvoidsDir,
                        DirChainKept, StartsAvoidDir
        <3> QED
            BY <3>1, BeginType, StepType, BootType, BeginDirInv, StepDirInv, BootDirInv
            DEF Next, PowerLoss, Restart
    <2>2. CASE UNCHANGED vars
        <3>1. /\ UNCHANGED <<fat, diskFat, dir, data, pc, dirents, what, cur, left, offset, sec>>
              /\ Freeing' = Freeing /\ WritingFile' = WritingFile /\ Loose' = Loose
            BY <2>2 DEF vars, Freeing, WritingFile, Loose
        <3>2. ASSUME NEW o, NEW n, CallView(o, n)
              PROVE  CallView(o, n)'
            <4>1. Numbered(fat', dirents', Loose', o, n)
                BY <3>1, <3>2 DEF CallView
            <4>2. \A s \in Slots : Backed(fat', dirents', o, n, s) \/ (WritingFile' /\ o[cur'] = s)
                BY <3>1, <3>2 DEF CallView
            <4>3. /\ Freeing' => cur' \in Clusters
                  /\ pc' = "cut" /\ left' > 0 =>
                       InUse(fat', cur') /\ n[cur'] + left' = dirents'[o[cur']].size
                  /\ WritingFile' =>
                       /\ InUse(fat', cur') /\ n[cur'] = offset'
                       /\ offset' + left' = dirents'[o[cur']].size
                BY <3>1, <3>2 DEF CallView
            <4> QED
                BY <4>1, <4>2, <4>3 DEF CallView
        <3>3. Progress' /\ (WritingFile' <=> WritingFile)
            BY <3>1 DEF ChainInv, Progress
        <3>4. pc' # "panic" => \E o, n : CallView(o, n)'
            BY <3>1, <3>2 DEF ChainInv
        <3>5. pc' \in {"idle", "panic"} \/ WritingFile' => Complete(diskFat', dir')
            BY <3>1 DEF ChainInv
        <3>6. Tidy(dir') /\ Tidy(dirents')
            BY <3>1 DEF ChainInv
        <3> QED
            BY <2>1, <3>3, <3>4, <3>5, <3>6 DEF ChainInv
    <2>3. CASE PowerLoss
        BY <2>3 DEF PowerLoss, Steady
    <2> QED
        BY <2>1, <2>2, <2>3, BeginChain, StepChain, RestartChain DEF Next
<1> QED
    BY <1>1, <1>2, PTL DEF Spec

\* Between calls every file's chain has the clusters that its size asks for,
\* over any sequence of calls, panics of a full card included.
THEOREM SizesBacked == ASSUME Steady PROVE Spec => []SizeBacked
BY ChainsKept, ChainsBacked, PTL

\* Between calls every cluster in use belongs to a file: neither fat32_delete,
\* fat32_truncate nor write_cluster_chain, which frees the tail of a longer
\* chain, loses clusters, and a panic loses nothing of what the card holds.
THEOREM NothingLeaks == ASSUME Steady PROVE Spec => []NoLeak
BY ChainsKept, ChainsReached, PTL
-----------------------------------------------------------------------------
(***************************************************************************)
(* Chains seen from their first cluster, in any sound view of the volume.  *)
(***************************************************************************)
\* What Walk returns, step by step.
LEMMA WalkSteps ==
    ASSUME NEW f \in FAT, NEW d \in Directory, NEW s \in Slots, NEW w,
           w = Walk(f, d[s].start)
    PROVE  /\ w \in [0 .. NEntries -> Entries] /\ w[0] = d[s].start
           /\ NEntries \in Nat
           /\ \A k \in 0 .. NEntries - 1 :
                w[k + 1] = IF w[k] \in Clusters THEN f[w[k]] ELSE LAST
<1>1. d[s].start \in Entries /\ NEntries \in Nat
    BY ClusterFacts DEF Directory, Dirent, FREE
<1>2. WalksTo(w, f, d[s].start, NEntries)
    BY <1>1, WalkFacts
<1>3. ASSUME NEW k \in 0 .. NEntries - 1
      PROVE  w[k + 1] = IF w[k] \in Clusters THEN f[w[k]] ELSE LAST
    <2>1. k + 1 \in 1 .. NEntries /\ (k + 1) - 1 = k
        BY <1>1
    <2> QED
        BY <1>2, <2>1 DEF WalksTo, Onward
<1> QED
    BY <1>1, <1>2, <1>3 DEF WalksTo

\* A chain that has left the clusters never comes back.
LEMMA WalkDown ==
    ASSUME NEW f \in FAT, NEW d \in Directory, NEW s \in Slots, NEW w,
           w = Walk(f, d[s].start), NEW m \in 0 .. NEntries, w[m] \in Clusters,
           NEW k \in 0 .. m
    PROVE  w[k] \in Clusters
<1>1. /\ NEntries \in Nat
      /\ \A j \in 0 .. NEntries - 1 : w[j + 1] = IF w[j] \in Clusters THEN f[w[j]] ELSE LAST
    BY WalkSteps
<1> DEFINE T == {j \in Nat : j <= m => w[m - j] \in Clusters}
<1>2. 0 \in T
    OBVIOUS
<1>3. ASSUME NEW j \in Nat, j \in T
      PROVE  j + 1 \in T
    <2>1. CASE j + 1 <= m
        <3>1. m - (j + 1) \in 0 .. NEntries - 1 /\ (m - (j + 1)) + 1 = m - j
            BY <1>1, <2>1
        <3>2. w[m - j] \in Clusters
            BY <1>3, <2>1
        <3> QED
            BY <1>1, <3>1, <3>2, ClusterFacts
    <2> QED
        BY <2>1
<1>4. Nat \subseteq T
    <2> HIDE DEF T
    <2> QED
        BY <1>2, <1>3, SetInduction
<1>5. m - k \in Nat /\ m - k <= m /\ m - (m - k) = k
    BY <1>1
<1> QED
    BY <1>4, <1>5

\* Two chains of a sound view meet nowhere, and none meets itself.
LEMMA ChainsMeetNowhere ==
    ASSUME NEW f \in FAT, NEW d \in Directory, Sound(f, d),
           NEW s \in Slots, NEW t \in Slots,
           NEW v, v = Walk(f, d[s].start), NEW w, w = Walk(f, d[t].start),
           NEW k \in 0 .. NEntries, NEW m \in 0 .. NEntries,
           v[k] \in Clusters, v[k] = w[m]
    PROVE  s = t /\ k = m
<1>1. /\ NEntries \in Nat /\ v[0] = d[s].start /\ w[0] = d[t].start
      /\ \A j \in 0 .. NEntries - 1 : v[j + 1] = IF v[j] \in Clusters THEN f[v[j]] ELSE LAST
      /\ \A j \in 0 .. NEntries - 1 : w[j + 1] = IF w[j] \in Clusters THEN f[w[j]] ELSE LAST
    BY WalkSteps
<1>2. FREE = 0 /\ 0 \notin Clusters /\ LAST \notin Clusters
    BY ClusterFacts DEF FREE
<1>3. /\ \A p, q \in Clusters : f[p] \in Clusters /\ f[p] = f[q] => p = q
      /\ d[s].start # 0 /\ d[s].start = d[t].start => s = t
      /\ \A p \in Clusters : f[p] \in Clusters => d[s].start # f[p] /\ d[t].start # f[p]
    BY DEF Sound, NoSharing
<1> DEFINE T == {j \in Nat : \A i \in 0 .. NEntries :
                    j <= NEntries /\ v[j] \in Clusters /\ v[j] = w[i] => s = t /\ j = i}
<1>4. 0 \in T
    <2> SUFFICES ASSUME NEW i \in 0 .. NEntries, v[0] \in Clusters, v[0] = w[i]
                 PROVE  s = t /\ 0 = i
        OBVIOUS
    <2>1. CASE i = 0
        BY <1>1, <1>2, <1>3, <2>1
    <2>2. CASE i # 0
        <3>1. i - 1 \in 0 .. NEntries - 1 /\ (i - 1) + 1 = i
            BY <1>1, <2>2
        <3>2. w[i - 1] \in Clusters /\ w[i] = f[w[i - 1]]
            BY <1>1, <1>2, <3>1
        <3>3. f[w[i - 1]] \in Clusters /\ d[s].start = f[w[i - 1]]
            BY <1>1, <3>2
        <3> QED
            BY <1>3, <3>2, <3>3
    <2> QED
        BY <2>1, <2>2
<1>5. ASSUME NEW j \in Nat, j \in T
      PROVE  j + 1 \in T
    <2> SUFFICES ASSUME NEW i \in 0 .. NEntries, j + 1 <= NEntries,
                        v[j + 1] \in Clusters, v[j + 1] = w[i]
                 PROVE  s = t /\ j + 1 = i
        OBVIOUS
    <2>1. j \in 0 .. NEntries - 1 /\ v[j] \in Clusters /\ v[j + 1] = f[v[j]]
        BY <1>1, <1>2
    <2>2. i # 0
        <3>1. f[v[j]] \in Clusters /\ f[v[j]] # d[t].start
            BY <1>3, <2>1
        <3>2. f[v[j]] = w[i]
            BY <2>1
        <3> QED
            BY <1>1, <3>1, <3>2
    <2>3. i - 1 \in 0 .. NEntries - 1 /\ i - 1 \in 0 .. NEntries /\ (i - 1) + 1 = i
        BY <1>1, <2>2
    <2>4. w[i - 1] \in Clusters /\ w[i] = f[w[i - 1]]
        BY <1>1, <1>2, <2>3
    <2>5. v[j] = w[i - 1]
        <3>1. f[v[j]] \in Clusters /\ f[v[j]] = f[w[i - 1]]
            BY <2>1, <2>4
        <3> QED
            BY <1>3, <2>1, <2>4, <3>1
    <2>6. s = t /\ j = i - 1
        BY <1>1, <1>5, <2>1, <2>3, <2>5
    <2> QED
        BY <2>3, <2>6
<1>6. Nat \subseteq T
    <2> HIDE DEF T
    <2> QED
        BY <1>4, <1>5, SetInduction
<1> QED
    BY <1>1, <1>6

\* So a chain ends before it has as many clusters as the FAT has entries.
LEMMA ChainEnds ==
    ASSUME NEW f \in FAT, NEW d \in Directory, Sound(f, d), NEW s \in Slots
    PROVE  Walk(f, d[s].start)[NEntries] \notin Clusters
<1> SUFFICES ASSUME Walk(f, d[s].start)[NEntries] \in Clusters PROVE FALSE
    OBVIOUS
<1> DEFINE w == Walk(f, d[s].start)
           v == [k \in 0 .. NEntries |-> w[k]]
<1>1. NEntries \in Nat /\ NEntries \in 0 .. NEntries
    BY ClusterFacts
<1>2. \A k \in 0 .. NEntries : w[k] \in Clusters
    BY <1>1, WalkDown
<1>3. \A k, m \in 0 .. NEntries : w[k] = w[m] => k = m
    BY <1>2, ChainsMeetNowhere
<1> HIDE DEF w
<1>4. v \in [0 .. NEntries -> Clusters] /\ \A k, m \in 0 .. NEntries : v[k] = v[m] => k = m
    BY <1>2, <1>3
<1> HIDE DEF v
<1>5. IsFiniteSet(0 .. NEntries) /\ Cardinality(0 .. NEntries) = NEntries + 1
    BY <1>1, FS_Interval
<1>6. IsFiniteSet(Clusters) /\ Cardinality(Clusters) = NEntries - 2
    <2>1. 2 \in Int /\ NEntries - 1 \in Int /\ ~(2 > NEntries - 1)
        BY ClusterFacts
    <2> QED
        BY <1>1, <2>1, FS_Interval DEF Clusters
<1>7. Cardinality(Clusters) < Cardinality(0 .. NEntries)
    BY <1>1, <1>5, <1>6
<1>8. \E k, m \in 0 .. NEntries : k # m /\ v[k] = v[m]
    BY <1>4, <1>5, <1>6, <1>7, FS_PigeonHole
<1> QED
    BY <1>4, <1>8

\* The FATs f and g lead on alike from the first m steps of v.
AgreeBelow(f, g, v, m) == \A k \in 0 .. m - 1 : v[k] \in Clusters => g[v[k]] = f[v[k]]

\* Two FATs that agree on the first m clusters of a chain have these in common.
LEMMA WalksAgree ==
    ASSUME NEW f \in FAT, NEW g \in FAT, NEW d \in Directory, NEW e \in Directory,
           NEW s \in Slots, d[s].start = e[s].start, NEW v, v = Walk(f, d[s].start),
           NEW w, w = Walk(g, e[s].start), NEW m \in 0 .. NEntries,
           AgreeBelow(f, g, v, m)
    PROVE  \A k \in 0 .. m : w[k] = v[k]
<1>1. /\ NEntries \in Nat /\ v[0] = w[0]
      /\ \A j \in 0 .. NEntries - 1 : v[j + 1] = IF v[j] \in Clusters THEN f[v[j]] ELSE LAST
      /\ \A j \in 0 .. NEntries - 1 : w[j + 1] = IF w[j] \in Clusters THEN g[w[j]] ELSE LAST
    BY WalkSteps
<1> DEFINE T == {k \in Nat : k <= m => w[k] = v[k]}
<1>2. 0 \in T
    BY <1>1
<1>3. ASSUME NEW k \in Nat, k \in T
      PROVE  k + 1 \in T
    <2>1. CASE k + 1 <= m
        <3>1. k \in 0 .. m - 1 /\ k \in 0 .. NEntries - 1 /\ w[k] = v[k]
            BY <1>1, <1>3, <2>1
        <3> QED
            BY <1>1, <3>1 DEF AgreeBelow
    <2> QED
        BY <2>1
<1>4. Nat \subseteq T
    <2> HIDE DEF T
    <2> QED
        BY <1>2, <1>3, SetInduction
<1> QED
    BY <1>4

\* The chain of slot s avoids the clusters of X.
Off(f, d, s, X) == \A k \in 0 .. NEntries : Walk(f, d[s].start)[k] \notin X

\* What nothing points to is on no chain.
LEMMA UnreferencedOff ==
    ASSUME NEW f \in FAT, NEW d \in Directory, NEW x \in Clusters,
           Unreferenced(f, d, x), NEW s \in Slots
    PROVE  Off(f, d, s, {x})
<1> SUFFICES ASSUME NEW k \in 0 .. NEntries, Walk(f, d[s].start)[k] = x PROVE FALSE
    BY DEF Off
<1> DEFINE w == Walk(f, d[s].start)
<1>1. /\ NEntries \in Nat /\ w[0] = d[s].start
      /\ \A j \in 0 .. NEntries - 1 : w[j + 1] = IF w[j] \in Clusters THEN f[w[j]] ELSE LAST
    BY WalkSteps
<1> HIDE DEF w
<1>2. k # 0
    BY <1>1 DEF Unreferenced, w
<1>3. k - 1 \in 0 .. NEntries - 1 /\ (k - 1) + 1 = k
    BY <1>1, <1>2
<1> QED
    BY <1>1, <1>3, ClusterFacts DEF Unreferenced, w

\* A cluster of one file is on no other file's chain.
LEMMA OthersOff ==
    ASSUME NEW f \in FAT, NEW d \in Directory, Sound(f, d), NEW s \in Slots,
           NEW m \in 0 .. NEntries, Walk(f, d[s].start)[m] \in Clusters,
           NEW t \in Slots, t # s
    PROVE  Off(f, d, t, {Walk(f, d[s].start)[m]})
BY ChainsMeetNowhere DEF Off

-----------------------------------------------------------------------------
(***************************************************************************)
(* What a file contains.  Contents chooses the number of blocks that the   *)
(* size and the chain both allow; in a sound view there is one such number.*)
(***************************************************************************)
View(f, d) == f \in FAT /\ d \in Directory /\ Sound(f, d)

Spans(f, e, n) ==
    /\ n \in 0 .. e.size /\ n <= NEntries
    /\ \A k \in 0 .. n - 1 : Walk(f, e.start)[k] \in Clusters
    /\ n = e.size \/ Walk(f, e.start)[n] \notin Clusters

\* Some number of blocks is what the size and a chain that ends both allow.
LEMMA SpanOfChain ==
    ASSUME NEW f, NEW e, e.size \in Nat, Walk(f, e.start)[NEntries] \notin Clusters
    PROVE  \E n : Spans(f, e, n)
<1> DEFINE w == Walk(f, e.start)
<1>1. /\ NEntries \in Nat /\ w[NEntries] \notin Clusters /\ e.size \in Nat
    BY ClusterFacts
<1> SUFFICES ASSUME \A n : ~Spans(f, e, n) PROVE FALSE
    OBVIOUS
<1>2. \A n \in 0 .. e.size :
          n <= NEntries /\ (\A k \in 0 .. n - 1 : w[k] \in Clusters) =>
              n # e.size /\ w[n] \in Clusters
    BY DEF Spans
<1> HIDE DEF w
<1> DEFINE T == {n \in Nat : /\ n <= NEntries /\ n <= e.size
                             /\ \A k \in 0 .. n - 1 : w[k] \in Clusters}
<1>3. 0 \in T
    BY <1>1
<1>4. ASSUME NEW n \in Nat, n \in T
      PROVE  n + 1 \in T
    <2>1. n # e.size /\ w[n] \in Clusters
        BY <1>1, <1>2, <1>4
    <2>2. n # NEntries
        BY <1>1, <2>1
    <2>3. n + 1 <= NEntries /\ n + 1 <= e.size
        BY <1>1, <1>4, <2>1, <2>2
    <2>4. ASSUME NEW k \in 0 .. (n + 1) - 1
          PROVE  w[k] \in Clusters
        BY <1>4, <2>1, <2>4
    <2> QED
        BY <2>3, <2>4
<1>5. Nat \subseteq T
    <2> HIDE DEF T
    <2> QED
        BY <1>3, <1>4, SetInduction
<1>6. NEntries + 1 \in T
    BY <1>1, <1>5
<1> QED
    BY <1>1, <1>6

LEMMA SpanExists ==
    ASSUME NEW f, NEW d, View(f, d), NEW s \in Slots
    PROVE  \E n : Spans(f, d[s], n)
<1>1. d[s].size \in Nat /\ Walk(f, d[s].start)[NEntries] \notin Clusters
    BY ChainEnds DEF View, Directory, Dirent
<1> QED
    BY <1>1, SpanOfChain

\* So that is the number that Contents chooses: there is no other.
Along(w, n, blocks) == [i \in 1 .. n |-> blocks[w[i - 1]]]

LEMMA ContentsSpan ==
    ASSUME NEW f, NEW e \in Dirent, NEW n, Spans(f, e, n), NEW blocks
    PROVE  Contents(f, e, blocks) = Along(Walk(f, e.start), n, blocks)
<1> DEFINE w == Walk(f, e.start)
<1> DEFINE Fits(m) == /\ \A k \in 0 .. m - 1 : w[k] \in Clusters
                      /\ m = e.size \/ w[m] \notin Clusters
<1>1. NEntries \in Nat /\ e.size \in Nat
    BY ClusterFacts DEF Dirent
<1>2. n \in 0 .. e.size /\ n <= NEntries /\ Fits(n)
    BY DEF Spans
<1>3. Contents(f, e, blocks) =
          [i \in 1 .. (CHOOSE m \in 0 .. e.size : Fits(m)) |-> blocks[w[i - 1]]]
    BY DEF Contents
<1>4. ASSUME NEW m \in 0 .. e.size, Fits(m)
      PROVE  m = n
    <2>1. m <= n
        <3> SUFFICES ASSUME n < m PROVE FALSE
            BY <1>1, <1>2
        <3>1. n \in 0 .. m - 1 /\ n # e.size
            BY <1>1, <1>2
        <3> QED
            BY <1>2, <1>4, <3>1
    <2>2. n <= m
        <3> SUFFICES ASSUME m < n PROVE FALSE
            BY <1>1, <1>2
        <3>1. m \in 0 .. n - 1 /\ m # e.size
            BY <1>1, <1>2
        <3> QED
            BY <1>2, <1>4, <3>1
    <2> QED
        BY <1>1, <1>2, <2>1, <2>2
<1> HIDE DEF Fits
<1>5. (CHOOSE m \in 0 .. e.size : Fits(m)) = n
    BY <1>2, <1>4
<1> QED
    BY <1>3, <1>5 DEF Along

LEMMA ContentsAre ==
    ASSUME NEW f, NEW d, View(f, d), NEW s \in Slots, NEW n, Spans(f, d[s], n), NEW blocks,
           NEW w, w = Walk(f, d[s].start)
    PROVE  Contents(f, d[s], blocks) = [i \in 1 .. n |-> blocks[w[i - 1]]]
<1>1. d[s] \in Dirent
    BY DEF View, Directory
<1>2. Contents(f, d[s], blocks) = Along(Walk(f, d[s].start), n, blocks)
    BY <1>1, ContentsSpan
<1> QED
    BY <1>2 DEF Along

\* Contents are as many blocks as the longest file has at most, and no Absent.
LEMMA ContentsType ==
    ASSUME NEW f, NEW d, View(f, d), NEW s \in Slots,
           NEW blocks \in [Clusters -> Block \union {NoBlock}],
           NEW c, c = Contents(f, d[s], blocks)
    PROVE  /\ Len(c) \in 0 .. d[s].size /\ Len(c) \in 0 .. MaxLength
           /\ c \in [1 .. Len(c) -> Block \union {NoBlock}]
           /\ c # Absent
<1>1. PICK n : Spans(f, d[s], n)
    BY SpanExists
<1>2. c = [i \in 1 .. n |-> blocks[Walk(f, d[s].start)[i - 1]]]
    BY <1>1, ContentsAre
<1>3. n \in 0 .. d[s].size /\ n \in 0 .. MaxLength /\ n \in Nat
    BY <1>1, GeometryAssumption DEF Spans, View, Directory, Dirent
<1>4. \A i \in 1 .. n : i - 1 \in 0 .. n - 1
    BY <1>3
<1>5. \A i \in 1 .. n : blocks[Walk(f, d[s].start)[i - 1]] \in Block \union {NoBlock}
    BY <1>1, <1>4 DEF Spans
<1>6. c \in [1 .. n -> Block \union {NoBlock}] /\ Len(c) = n
    BY <1>2, <1>3, <1>5
<1> QED
    BY <1>3, <1>6, AbsentAssumption

\* The first n steps of v and w find the same blocks in D and in E.
SameBlocks(v, w, D, E, n) ==
    \A k \in 0 .. NEntries : k < n =>
        /\ v[k] \in Clusters <=> w[k] \in Clusters
        /\ v[k] \in Clusters => D[v[k]] = E[w[k]]

\* Two views of a file with the same blocks at the same places.
LEMMA ContentsSame ==
    ASSUME NEW f, NEW d, View(f, d), NEW g, NEW e, View(g, e), NEW s \in Slots,
           d[s].size = e[s].size, NEW D, NEW E,
           NEW v, v = Walk(f, d[s].start), NEW w, w = Walk(g, e[s].start),
           SameBlocks(v, w, D, E, d[s].size)
    PROVE  Contents(f, d[s], D) = Contents(g, e[s], E)
<1>1. PICK n : Spans(f, d[s], n)
    BY SpanExists
<1>2. /\ n \in 0 .. d[s].size /\ n <= NEntries /\ n \in Nat /\ d[s].size \in Nat
      /\ NEntries \in Nat
      /\ \A k \in 0 .. n - 1 : v[k] \in Clusters
      /\ n = d[s].size \/ v[n] \notin Clusters
    BY <1>1, ClusterFacts DEF Spans, View, Directory, Dirent
<1>3. \A k \in 0 .. n - 1 : k \in 0 .. NEntries /\ k < d[s].size
    BY <1>2
<1>4. \A k \in 0 .. n - 1 : w[k] \in Clusters /\ D[v[k]] = E[w[k]]
    BY <1>2, <1>3 DEF SameBlocks
<1>5. n = e[s].size \/ w[n] \notin Clusters
    BY <1>2 DEF SameBlocks
<1>6. Spans(g, e[s], n)
    BY <1>2, <1>4, <1>5 DEF Spans
<1>7. Contents(f, d[s], D) = [i \in 1 .. n |-> D[v[i - 1]]]
    BY <1>1, ContentsAre
<1>8. Contents(g, e[s], E) = [i \in 1 .. n |-> E[w[i - 1]]]
    BY <1>6, ContentsAre
<1>9. \A i \in 1 .. n : D[v[i - 1]] = E[w[i - 1]]
    BY <1>2, <1>4
<1> QED
    BY <1>7, <1>8, <1>9

\* A file of size zero, or without clusters, has no blocks.
LEMMA ContentsEmpty ==
    ASSUME NEW f, NEW d, View(f, d), NEW s \in Slots, NEW D,
           d[s].size = 0 \/ d[s].start = 0
    PROVE  Contents(f, d[s], D) = <<>>
<1>1. Walk(f, d[s].start)[0] = d[s].start
    BY WalkSteps DEF View
<1>2. PICK n : Spans(f, d[s], n)
    BY SpanExists
<1>3. Contents(f, d[s], D) = [i \in 1 .. n |-> D[Walk(f, d[s].start)[i - 1]]]
    BY <1>2, ContentsAre
<1>4. n = 0
    <2>1. n \in Nat /\ (d[s].size = 0 => n = 0)
        BY <1>2 DEF Spans, View, Directory, Dirent
    <2>2. n > 0 => Walk(f, d[s].start)[0] \in Clusters
        BY <1>2, <2>1 DEF Spans
    <2> QED
        BY <1>1, <2>1, <2>2, ClusterFacts DEF FREE
<1> QED
    BY <1>3, <1>4

\* A shorter size takes the first of the blocks.
LEMMA ContentsPrefix ==
    ASSUME NEW f, NEW d, View(f, d), NEW e, View(f, e), NEW s \in Slots, NEW D,
           e[s].start = d[s].start, e[s].size <= d[s].size
    PROVE  Contents(f, e[s], D) = Prefix(Contents(f, d[s], D), e[s].size)
<1> DEFINE w == Walk(f, d[s].start)
           k == e[s].size
<1>1. PICK n : Spans(f, d[s], n)
    BY SpanExists
<1>2. PICK m : Spans(f, e[s], m)
    BY SpanExists
<1>3. /\ n \in Nat /\ n <= d[s].size /\ d[s].size \in Nat /\ NEntries \in Nat
      /\ \A j \in 0 .. n - 1 : w[j] \in Clusters
      /\ n = d[s].size \/ w[n] \notin Clusters
    BY <1>1, ClusterFacts DEF Spans, View, Directory, Dirent
<1>12. Contents(f, d[s], D) = [i \in 1 .. n |-> D[w[i - 1]]]
    BY <1>1, ContentsAre
<1>4. Contents(f, e[s], D) = [i \in 1 .. m |-> D[w[i - 1]]]
    BY <1>2, ContentsAre
<1>5. /\ m \in Nat /\ m <= k /\ k \in Nat
      /\ \A j \in 0 .. m - 1 : w[j] \in Clusters
      /\ m = k \/ w[m] \notin Clusters
    BY <1>2 DEF Spans, View, Directory, Dirent
<1> HIDE DEF w, k
<1>6. k <= d[s].size
    BY DEF k
<1>7. m = IF k < n THEN k ELSE n
    <2>1. m <= n
        <3> SUFFICES ASSUME n < m PROVE FALSE
            BY <1>3, <1>5
        <3>1. n \in 0 .. m - 1 /\ n # d[s].size
            BY <1>3, <1>5, <1>6
        <3> QED
            BY <1>3, <1>5, <3>1
    <2>2. m < k => n <= m
        <3> SUFFICES ASSUME m < n, m < k PROVE FALSE
            BY <1>3, <1>5
        <3>1. m \in 0 .. n - 1
            BY <1>3, <1>5
        <3> QED
            BY <1>3, <1>5, <3>1
    <2> QED
        BY <1>3, <1>5, <2>1, <2>2
<1> DEFINE c == Contents(f, d[s], D)
<1>8. c = [i \in 1 .. n |-> D[w[i - 1]]] /\ Len(c) = n
    BY <1>3, <1>12
<1> HIDE DEF c
<1>9. Prefix(c, k) = SubSeq(c, 1, m)
    BY <1>7, <1>8 DEF Prefix
<1>10. SubSeq(c, 1, m) = [i \in 1 .. m |-> c[i]]
    BY <1>3, <1>5
<1>11. \A i \in 1 .. m : c[i] = D[w[i - 1]]
    BY <1>3, <1>5, <1>7, <1>8
<1> QED
    BY <1>4, <1>9, <1>10, <1>11 DEF c, k

-----------------------------------------------------------------------------
(***************************************************************************)
(* What the volume lists.                                                  *)
(***************************************************************************)
LEMMA ListingAt ==
    ASSUME BareNames = {}, NEW f, NEW d, Distinct(d), NEW s \in Slots, d[s].name \in Names, NEW D
    PROVE  ListingOf(f, d, D)[d[s].name] = Contents(f, d[s], D)
<1> DEFINE nm == d[s].name
<1>1. \A t \in Slots : d[t].name = nm => t = s
    BY DEF Distinct, Names
<1>2. (CHOOSE t \in Slots : d[t].name = nm) = s
    BY <1>1
<1>3. ListingOf(f, d, D)[nm] =
          IF \E t \in Slots : d[t].name = nm
            THEN Contents(f, d[CHOOSE t \in Slots : d[t].name = nm], D)
            ELSE Absent
    BY DEF ListingOf
<1> QED
    BY <1>2, <1>3

\* A name that no dirent carries.
LEMMA ListingNone ==
    ASSUME NEW f, NEW d, NEW D, NEW n \in Names, \A s \in Slots : d[s].name # n
    PROVE  ListingOf(f, d, D)[n] = Absent
BY DEF ListingOf

\* Two views that list a name alike.
LEMMA ListingSame ==
    ASSUME BareNames = {}, NEW f, NEW d, Distinct(d), NEW g, NEW e, Distinct(e),
           NEW D, NEW E, NEW n \in Names,
           \A s \in Slots : d[s].name = n <=> e[s].name = n,
           \A s \in Slots : d[s].name = n => Contents(f, d[s], D) = Contents(g, e[s], E)
    PROVE  ListingOf(f, d, D)[n] = ListingOf(g, e, E)[n]
<1>1. CASE \E s \in Slots : d[s].name = n
    <2>1. PICK s \in Slots : d[s].name = n
        BY <1>1
    <2>2. e[s].name = n
        BY <2>1
    <2>3. ListingOf(f, d, D)[n] = Contents(f, d[s], D)
        BY <2>1, ListingAt
    <2>4. ListingOf(g, e, E)[n] = Contents(g, e[s], E)
        BY <2>2, ListingAt
    <2> QED
        BY <2>1, <2>3, <2>4
<1>2. CASE \A s \in Slots : d[s].name # n
    <2>1. \A s \in Slots : e[s].name # n
        BY <1>2
    <2> QED
        BY <1>2, <2>1, ListingNone
<1> QED
    BY <1>1, <1>2

\* The FATs f and g, and the blocks D and E, differ in X only.
EditedIn(X, f, g, D, E) == \A p \in Clusters \ X : g[p] = f[p] /\ E[p] = D[p]

\* The chain of the file n avoids X.
FileOff(f, d, n, X) == \A t \in Slots : d[t].name = n => Off(f, d, t, X)

\* The directories d and e differ in slot s only.
ChangedAt(d, e, s) == \A t \in Slots \ {s} : e[t] = d[t]

\* Edits of the FAT and of blocks in X change no file whose chain avoids X.
LEMMA Untouched ==
    ASSUME BareNames = {}, NEW f, NEW d, View(f, d), Distinct(d), NEW g, View(g, d),
           NEW X, NEW D, NEW E,
           EditedIn(X, f, g, D, E), NEW n \in Names, FileOff(f, d, n, X)
    PROVE  ListingOf(g, d, E)[n] = ListingOf(f, d, D)[n]
<1>1. ASSUME NEW t \in Slots, d[t].name = n
      PROVE  Contents(f, d[t], D) = Contents(g, d[t], E)
    <2> DEFINE v == Walk(f, d[t].start)
               w == Walk(g, d[t].start)
    <2>1. \A k \in 0 .. NEntries : v[k] \notin X
        BY <1>1 DEF FileOff, Off
    <2>2. NEntries \in 0 .. NEntries /\ NEntries \in Nat
        BY ClusterFacts
    <2>3. AgreeBelow(f, g, v, NEntries)
        BY <2>1, <2>2 DEF EditedIn, AgreeBelow
    <2>4. f \in FAT /\ g \in FAT /\ d \in Directory
        BY DEF View
    <2>5. \A k \in 0 .. NEntries : w[k] = v[k]
        BY <2>2, <2>3, <2>4, WalksAgree
    <2>6. \A k \in 0 .. NEntries : v[k] \in Clusters => D[v[k]] = E[v[k]]
        BY <2>1 DEF EditedIn
    <2>7. SameBlocks(v, w, D, E, d[t].size)
        BY <2>5, <2>6 DEF SameBlocks
    <2> QED
        BY <2>7, ContentsSame
<1> QED
    BY <1>1, ListingSame

\* A directory in which one slot changed.
LEMMA ListingChange ==
    ASSUME BareNames = {}, NEW f, NEW d, Distinct(d), NEW e, Distinct(e), NEW s \in Slots,
           ChangedAt(d, e, s), NEW D, NEW n \in Names
    PROVE  ListingOf(f, e, D)[n] =
             IF e[s].name = n THEN Contents(f, e[s], D)
             ELSE IF d[s].name = n THEN Absent
             ELSE ListingOf(f, d, D)[n]
<1>1. CASE e[s].name = n
    BY <1>1, ListingAt
<1>2. CASE e[s].name # n /\ d[s].name = n
    <2>1. \A t \in Slots \ {s} : d[t].name # n
        BY <1>2 DEF Distinct, Names
    <2>2. \A t \in Slots : e[t].name # n
        BY <1>2, <2>1 DEF ChangedAt
    <2> QED
        BY <1>2, <2>2, ListingNone
<1>3. CASE e[s].name # n /\ d[s].name # n
    <2>1. \A t \in Slots : d[t].name = n <=> e[t].name = n
        BY <1>3 DEF ChangedAt
    <2>2. \A t \in Slots : d[t].name = n => Contents(f, d[t], D) = Contents(f, e[t], D)
        BY <1>3 DEF ChangedAt
    <2> QED
        BY <1>3, <2>1, <2>2, ListingSame
<1> QED
    BY <1>1, <1>2, <1>3

-----------------------------------------------------------------------------
(***************************************************************************)
(* The driver implements FileStore, for callers that make none of the      *)
(* three uses and whose names have extensions.  A card whose FAT the power *)
(* failed in the middle of is not used again.                              *)
(***************************************************************************)
Ordinary == Calls = {} /\ BareNames = {} /\ TornCardIsLeft

Known == TypeInv /\ DirInv /\ SoundInv /\ NamesInv

\* l is b but for the one file that the write q is of: that holds old and new.
Blend(l, b, q) ==
    /\ q.kind = "write"
    /\ \E n \in DOMAIN q.new, k \in 0 .. MaxLength :
       \E s \in [1 .. k -> Store!BlocksOf(b[n]) \union Store!BlocksOf(q.new[n])] :
          Store!Mixes(s, b[n], q.new[n]) /\ l = [b EXCEPT ![n] = s]

\* What the next boot may find when the call in progress is interrupted.
MayFind(l) == l = before \/ l = Expected \/ Blend(l, before, pending)

\* fat32_truncate's loop is where the rest of the size says.
CuttingAt(s) ==
    LET e == dirents[s] IN
    /\ left <= e.size /\ e.size - left <= NEntries
    /\ Walk(fat, e.start)[e.size - left] = cur

(***************************************************************************)
(* While the FAT is edited for a new directory or the directory is written *)
(* its files are already the expected ones, with either FAT; while sectors *)
(* of the FAT are on their way (sec # 0) the card has neither.             *)
(***************************************************************************)
DirPhase ==
    what = "dir" /\ pc \notin {"idle", "panic"} =>
        /\ ListingOf(fat, dirents, data) = Expected
        /\ sec = 0 => ListingOf(diskFat, dirents, data) = Expected
        /\ pc = "cut" /\ left > 0 => \E s \in Slots : CuttingAt(s)

(***************************************************************************)
(* While a file is written no other file changes, the blocks on the card   *)
(* under the old dirent are old ones or new ones, and the first of the     *)
(* call's chain hold the new ones.                                         *)
(***************************************************************************)
NewBlock(i) == [of |-> payload, n |-> i]

Kept(name) ==
    \A n \in Names \ {name} :
        /\ ListingOf(fat, dirents, data)[n] = before[n]
        /\ sec = 0 => Listing[n] = before[n]

Blocks(b) == b \in [1 .. Len(b) -> Block \union {NoBlock}] /\ Len(b) \in Nat

\* Each block of c is one of b's, in its place, or one of the first m of p.
Patched(c, b, p, m) ==
    /\ Blocks(b)
    /\ \A i \in 1 .. Len(c) :
           (i <= Len(b) /\ c[i] = b[i]) \/ (i <= m /\ c[i] = [of |-> p, n |-> i])

WrittenTo(s, m) ==
    LET w == Walk(fat, dirents[s].start) IN
    /\ m <= NEntries
    /\ \A k \in 0 .. m - 1 : w[k] \in Clusters /\ data[w[k]] = NewBlock(k + 1)

\* The chains of the FAT f are beginnings of those of g.
Grows(f, g) == \A c \in Clusters : f[c] \in Clusters => g[c] = f[c]

\* What a write of m blocks of p makes of the file nm.
WriteOf(nm, m, p) ==
    [new |-> [n \in {nm} |-> [i \in 1 .. m |-> [of |-> p, n |-> i]]], kind |-> "write"]

FileView(s) ==
    LET e == dirents[s]
        w == Walk(fat, e.start)
    IN  /\ e.name \in Names /\ dir[s].name = e.name
        /\ ChangedAt(dir, dirents, s)
        /\ pending = WriteOf(e.name, e.size, payload)
        /\ Kept(e.name) /\ Blocks(before[e.name])
        /\ sec = 0 => Patched(Contents(diskFat, dir[s], data), before[e.name], payload, e.size)
        /\ pc = "write" => /\ WrittenTo(s, offset) /\ w[offset] = cur
                           /\ offset + left = e.size /\ Grows(diskFat, fat)
        /\ pc # "write" => WrittenTo(s, e.size) /\ w[e.size] \notin Clusters

FilesInv ==
    /\ pc = "idle" => pending = NoCall
    /\ pc # "idle" => /\ pending # NoCall /\ before = [n \in Names |-> before[n]]
                      /\ sec = 0 => MayFind(Listing)
    /\ DirPhase
    /\ what = "file" => \E s \in Slots : FileView(s)

\* The two views of the volume in what the next lemmas need of them.
Seen ==
    /\ View(fat, dirents) /\ dir \in Directory /\ diskFat \in FAT
    /\ pc # "sync" => sec = 0
    /\ sec = 0 => View(diskFat, dir) /\ (what = "dir" => View(diskFat, dirents))
    /\ Distinct(dir) /\ Distinct(dirents) /\ OneChange(dir, dirents)
    /\ data \in [Clusters -> Block \union {NoBlock}]
    /\ DirChainKept(fat)
    /\ what \in {"file", "dir"}
    /\ pc \in {"idle", "panic"} => what = "dir" /\ dirents = dir
    /\ pc = "idle" => fat = diskFat
    /\ what = "file" => pc \in {"write", "tail", "sync"}
                        /\ \A s \in Slots : dir[s].start \in {0, dirents[s].start}

\* The earlier invariants give the two views, before a step and after it.
LEMMA KnownSeen == Known => Seen
BY DEF Known, TypeInv, TypeOK, DirInv, SoundInv, Views, Written, FileFirst, NamesInv, Seen,
       View, FAT, Directory

LEMMA KnownSeenNext == Known' => Seen'
BY DEF Known, TypeInv, TypeOK, DirInv, SoundInv, Views, Written, FileFirst, NamesInv, Seen,
       View, FAT, Directory

\* Two listings that agree on every name.
LEMMA ListingsEqual ==
    ASSUME NEW f, NEW d, NEW D, NEW l, l = [n \in Names |-> l[n]],
           \A n \in Names : ListingOf(f, d, D)[n] = l[n]
    PROVE  ListingOf(f, d, D) = l
<1>1. ListingOf(f, d, D) = [n \in Names |-> ListingOf(f, d, D)[n]]
    BY DEF ListingOf
<1> QED
    BY <1>1

-----------------------------------------------------------------------------
(***************************************************************************)
(* The beginnings of the calls.                                            *)
(***************************************************************************)
LEMMA Announced ==
    ASSUME Seen, pc = "idle", pc' # "idle", UNCHANGED card,
           NEW kind, kind # "none", NEW new, Announce(kind, new),
           DirPhase', what' = "file" => \E s \in Slots : FileView(s)'
    PROVE  FilesInv'
<1>1. before' = Listing /\ pending' = [new |-> new, kind |-> kind]
    BY DEF Announce
<1>2. Listing' = Listing
    BY DEF card, Listing
<1>3. pending' # NoCall
    BY <1>1 DEF NoCall
<1>4. before' = [n \in Names |-> before'[n]]
    BY <1>1 DEF Listing, ListingOf
<1>5. MayFind(Listing)'
    BY <1>1, <1>2 DEF MayFind
<1> QED
    BY <1>3, <1>4, <1>5 DEF FilesInv

\* A call that gives slot s the dirent that makes the directory as expected.
LEMMA NewDirectory ==
    ASSUME Ordinary, Seen, Seen', pc = "idle", UNCHANGED card, UNCHANGED fat,
           NEW kind, NEW new, Announce(kind, new), NEW s \in Slots,
           ChangedAt(dir, dirents', s),
           \A n \in Names :
               IF dirents'[s].name = n THEN n \in DOMAIN new /\ new[n] = Contents(fat, dirents'[s], data)
               ELSE IF dir[s].name = n THEN n \in DOMAIN new /\ new[n] = Absent
               ELSE n \notin DOMAIN new
    PROVE  /\ ListingOf(fat, dirents, data)' = Expected'
           /\ ListingOf(diskFat, dirents, data)' = Expected'
<1>1. /\ before' = Listing /\ pending'.new = new /\ fat = diskFat
      /\ fat' = fat /\ diskFat' = diskFat /\ data' = data
      /\ Distinct(dir) /\ Distinct(dirents') /\ BareNames = {}
    BY DEF Announce, Seen, card, Ordinary
<1>2. Expected' = [n \in Names |-> IF n \in DOMAIN new THEN new[n] ELSE Listing[n]]
    BY <1>1 DEF Expected
<1>3. ASSUME NEW n \in Names
      PROVE  ListingOf(fat, dirents', data)[n] = Expected'[n]
    <2>1. ListingOf(fat, dirents', data)[n] =
             IF dirents'[s].name = n THEN Contents(fat, dirents'[s], data)
             ELSE IF dir[s].name = n THEN Absent
             ELSE ListingOf(fat, dir, data)[n]
        BY <1>1, ListingChange
    <2>2. ListingOf(fat, dir, data) = Listing
        BY <1>1 DEF Listing
    <2> QED
        BY <1>2, <2>1, <2>2
<1>4. Expected' = [n \in Names |-> Expected'[n]]
    BY <1>2
<1>5. ListingOf(fat, dirents', data) = Expected'
    BY <1>3, <1>4, ListingsEqual
<1> QED
    BY <1>1, <1>5

\* fat32_create: the new dirent makes the directory as expected, or the call
\* panics because there is no free one.
LEMMA CreateFiles ==
    ASSUME Ordinary, Seen, Seen', NEW name \in Names, Create(name),
           Announce("create", [n \in {name} |-> <<>>])
    PROVE  FilesInv'
<1>1. pc = "idle" /\ UNCHANGED card /\ UNCHANGED fat
    BY DEF Create
<1>2. CASE Stop("panic")
    <2>1. pc' = "panic" /\ what' = "dir"
        BY <1>2 DEF Stop, Enter
    <2> QED
        BY <1>1, <2>1, Announced DEF DirPhase
<1>3. ASSUME NEW s \in Slots, dir[s].name = NoName, WriteDirectory,
             dirents' = [dir EXCEPT ![s] = [name |-> name, size |-> 0, start |-> 0]]
      PROVE  FilesInv'
    <2>1. pc' = "write" /\ what' = "dir"
        BY <1>3 DEF WriteDirectory, Enter
    <2>2. /\ ChangedAt(dir, dirents', s)
          /\ dirents'[s].name = name /\ dirents'[s].size = 0
        BY <1>3 DEF Seen, View, Directory, ChangedAt
    <2>3. View(fat', dirents')
        BY DEF Seen
    <2>4. Contents(fat, dirents'[s], data) = <<>>
        BY <1>1, <2>2, <2>3, ContentsEmpty
    <2> DEFINE new == [n \in {name} |-> <<>>]
    <2>5. \A n \in Names : n \in DOMAIN new <=> n = name
        OBVIOUS
    <2>6. new[name] = <<>> /\ NoName \notin Names
        BY NameAssumption
    <2> HIDE DEF new
    <2>7. /\ ListingOf(fat, dirents, data)' = Expected'
          /\ ListingOf(diskFat, dirents, data)' = Expected'
        <3>1. Announce("create", new)
            BY DEF new
        <3>2. \A n \in Names :
               IF dirents'[s].name = n THEN n \in DOMAIN new /\ new[n] = Contents(fat, dirents'[s], data)
               ELSE IF dir[s].name = n THEN n \in DOMAIN new /\ new[n] = Absent
               ELSE n \notin DOMAIN new
            BY <1>3, <2>2, <2>4, <2>5, <2>6
        <3> QED
            BY <1>1, <2>2, <3>1, <3>2, NewDirectory
    <2>8. DirPhase'
        BY <2>1, <2>7 DEF DirPhase
    <2> QED
        BY <1>1, <2>1, <2>8, Announced
<1> QED
    BY <1>2, <1>3 DEF Create

\* fat32_rename: the dirent takes its chain to the new name.
LEMMA RenameFiles ==
    ASSUME Ordinary, Seen, Seen', NEW oldname \in Names, NEW newname \in Names,
           Rename(oldname, newname),
           Announce("rename", [n \in {oldname, newname} |->
                                   IF n = newname THEN Listing[oldname] ELSE Absent])
    PROVE  FilesInv'
<1>1. pc = "idle" /\ UNCHANGED card /\ UNCHANGED fat /\ WriteDirectory
    BY DEF Rename
<1>2. \A t \in Slots : dir[t].name # newname
    BY DEF Rename, Ordinary
<1>3. PICK s \in Slots : dir[s].name = oldname /\ dirents' = [dir EXCEPT ![s].name = newname]
    BY DEF Rename, Matches
<1>4. /\ ChangedAt(dir, dirents', s)
      /\ dirents'[s].name = newname /\ dirents'[s].size = dir[s].size
      /\ dirents'[s].start = dir[s].start
    BY <1>3 DEF Seen, View, Directory, Dirent, ChangedAt
<1>5. Contents(fat, dirents'[s], data) = Listing[oldname]
    <2>1. Listing[oldname] = Contents(diskFat, dir[s], data)
        BY <1>3, ListingAt DEF Seen, Ordinary, Listing
    <2>2. Contents(fat, dirents'[s], data) = Contents(fat, dir[s], data)
        BY <1>4 DEF Contents
    <2> QED
        BY <1>1, <2>1, <2>2 DEF Seen
<1>6. pc' = "write" /\ what' = "dir"
    BY <1>1 DEF WriteDirectory, Enter
<1> DEFINE new == [n \in {oldname, newname} |-> IF n = newname THEN Listing[oldname] ELSE Absent]
<1>7. /\ \A n \in Names : n \in DOMAIN new <=> n = oldname \/ n = newname
      /\ new[newname] = Listing[oldname] /\ (oldname # newname => new[oldname] = Absent)
    OBVIOUS
<1>8. Announce("rename", new) /\ oldname # newname
    BY <1>2, <1>3
<1> HIDE DEF new
<1>9. /\ ListingOf(fat, dirents, data)' = Expected'
      /\ ListingOf(diskFat, dirents, data)' = Expected'
    <2>1. \A n \in Names :
          IF dirents'[s].name = n THEN n \in DOMAIN new /\ new[n] = Contents(fat, dirents'[s], data)
          ELSE IF dir[s].name = n THEN n \in DOMAIN new /\ new[n] = Absent
          ELSE n \notin DOMAIN new
        BY <1>3, <1>4, <1>5, <1>7, <1>8
    <2> QED
        BY <1>1, <1>4, <1>8, <2>1, NewDirectory
<1>10. DirPhase'
    BY <1>6, <1>9 DEF DirPhase
<1> QED
    BY <1>1, <1>6, <1>8, <1>10, Announced

\* fat32_delete: the dirent goes before the chain does.
LEMMA DeleteFiles ==
    ASSUME Ordinary, Seen, Seen', NEW name \in Names, Delete(name),
           Announce("delete", [n \in {name} |-> Absent])
    PROVE  FilesInv'
<1>1. pc = "idle" /\ UNCHANGED card /\ UNCHANGED fat
    BY DEF Delete
<1>2. PICK s \in Slots : dir[s].name = name /\ dirents' = [dir EXCEPT ![s] = FreeDirent]
    BY DEF Delete, Matches
<1>3. /\ ChangedAt(dir, dirents', s)
      /\ dirents'[s].name = NoName /\ NoName \notin Names
    BY <1>2, NameAssumption DEF Seen, View, Directory, FreeDirent, ChangedAt
<1>4. pc' \in {"write", "free"} /\ what' = "dir"
    BY DEF Delete, WriteDirectory, Enter
<1> DEFINE new == [n \in {name} |-> Absent]
<1>5. \A n \in Names : (n \in DOMAIN new <=> n = name) /\ new[name] = Absent
    OBVIOUS
<1>6. Announce("delete", new)
    OBVIOUS
<1> HIDE DEF new
<1>7. /\ ListingOf(fat, dirents, data)' = Expected'
      /\ ListingOf(diskFat, dirents, data)' = Expected'
    <2>1. \A n \in Names :
          IF dirents'[s].name = n THEN n \in DOMAIN new /\ new[n] = Contents(fat, dirents'[s], data)
          ELSE IF dir[s].name = n THEN n \in DOMAIN new /\ new[n] = Absent
          ELSE n \notin DOMAIN new
        BY <1>2, <1>3, <1>5
    <2> QED
        BY <1>1, <1>3, <1>6, <2>1, NewDirectory
<1>8. DirPhase'
    BY <1>4, <1>7 DEF DirPhase
<1> QED
    BY <1>1, <1>4, <1>6, <1>8, Announced

\* fat32_truncate: the size shrinks before the chain does.
LEMMA TruncateFiles ==
    ASSUME Ordinary, Seen, Seen', NEW name \in Names, NEW length \in 0 .. MaxLength,
           Truncate(name, length),
           Announce("truncate", [n \in {name} |-> Prefix(Listing[name], length)])
    PROVE  FilesInv'
<1>1. pc = "idle" /\ UNCHANGED card /\ UNCHANGED fat
    BY DEF Truncate
<1>2. PICK s \in Slots : /\ dir[s].name = name /\ dirents' = [dir EXCEPT ![s].size = length]
                         /\ length > 0 /\ length <= dir[s].size
                         /\ Enter("cut", "dir", dir[s].start, length, NoPayload)
    BY DEF Truncate, Matches, Ordinary
<1>3. /\ ChangedAt(dir, dirents', s)
      /\ dirents'[s].name = name /\ dirents'[s].size = length
      /\ dirents'[s].start = dir[s].start
    BY <1>2 DEF Seen, View, Directory, Dirent, ChangedAt
<1>4. pc' = "cut" /\ what' = "dir" /\ cur' = dir[s].start /\ left' = length
    BY <1>2 DEF Enter
<1>5. Contents(fat, dirents'[s], data) = Prefix(Listing[name], length)
    <2>1. Listing[name] = Contents(fat, dir[s], data)
        BY <1>1, <1>2, ListingAt DEF Seen, Ordinary, Listing
    <2>2. View(fat, dir) /\ View(fat, dirents')
        BY <1>1 DEF Seen
    <2>3. Contents(fat, dirents'[s], data) = Prefix(Contents(fat, dir[s], data), dirents'[s].size)
        <3>1. dirents'[s].start = dir[s].start /\ dirents'[s].size <= dir[s].size
            BY <1>2, <1>3
        <3> QED
            BY <2>2, <3>1, ContentsPrefix
    <2> QED
        BY <1>3, <2>1, <2>3
<1> DEFINE new == [n \in {name} |-> Prefix(Listing[name], length)]
<1>6. \A n \in Names : (n \in DOMAIN new <=> n = name) /\ new[name] = Prefix(Listing[name], length)
    OBVIOUS
<1>7. Announce("truncate", new)
    OBVIOUS
<1> HIDE DEF new
<1>8. /\ ListingOf(fat, dirents, data)' = Expected'
      /\ ListingOf(diskFat, dirents, data)' = Expected'
    <2>1. \A n \in Names :
          IF dirents'[s].name = n THEN n \in DOMAIN new /\ new[n] = Contents(fat, dirents'[s], data)
          ELSE IF dir[s].name = n THEN n \in DOMAIN new /\ new[n] = Absent
          ELSE n \notin DOMAIN new
        BY <1>2, <1>3, <1>5, <1>6
    <2> QED
        BY <1>1, <1>3, <1>7, <2>1, NewDirectory
<1>9. CuttingAt(s)'
    <2>1. Walk(fat', dirents'[s].start)[0] = dirents'[s].start
        BY WalkSteps DEF Seen, View
    <2> QED
        BY <1>3, <1>4, <2>1, ClusterFacts DEF CuttingAt
<1>10. DirPhase'
    BY <1>4, <1>8, <1>9 DEF DirPhase
<1> QED
    BY <1>1, <1>4, <1>7, <1>10, Announced

\* A write of a file with blocks begins, in the file's own or a new cluster.
LEMMA FileBegins ==
    ASSUME Ordinary, Seen, Seen', pc = "idle", UNCHANGED card,
           NEW name \in Names, NEW length \in 1 .. MaxLength, NEW bytes \in Payloads,
           Announce("write", [n \in {name} |-> [i \in 1 .. length |-> [of |-> bytes, n |-> i]]]),
           NEW s \in Slots, dir[s].name = name, NEW c,
           ChangedAt(dir, dirents', s),
           dirents'[s].name = name, dirents'[s].size = length, dirents'[s].start = c,
           Enter("write", "file", c, length, bytes),
           NEW X, X = {} \/ \E x \in Clusters : X = {x} /\ fat[x] = FREE,
           \A p \in Clusters \ X : fat'[p] = fat[p]
    PROVE  FileView(s)'
<1>1. /\ before' = Listing /\ fat = diskFat /\ dir' = dir /\ diskFat' = diskFat /\ data' = data
      /\ pending' = [new |-> [n \in {name} |-> [i \in 1 .. length |-> [of |-> bytes, n |-> i]]],
                     kind |-> "write"]
      /\ Distinct(dir) /\ Distinct(dirents') /\ BareNames = {}
    BY DEF Announce, Seen, card, Ordinary
<1>2. pc' = "write" /\ what' = "file" /\ cur' = c /\ left' = length /\ offset' = 0 /\ payload' = bytes
    BY DEF Enter
<1>3. Listing' = Listing /\ Listing = ListingOf(fat, dir, data)
    BY <1>1 DEF Listing
<1>4. View(fat, dir) /\ View(fat', dir)
    <2>1. View(fat', dirents') /\ View(fat, dir)
        BY <1>1 DEF Seen
    <2>2. \A t \in Slots : dir[t].start \in {0, dirents'[t].start}
        BY <1>1, <1>2 DEF Seen
    <2> QED
        BY <2>1, <2>2, FewerStarts DEF View
<1>5. \A t \in Slots : Off(fat, dir, t, X)
    <2> SUFFICES ASSUME NEW t \in Slots PROVE Off(fat, dir, t, X)
        OBVIOUS
    <2>1. CASE X = {}
        BY <2>1 DEF Off
    <2>2. ASSUME NEW x \in Clusters, X = {x}, fat[x] = FREE
          PROVE  Off(fat, dir, t, X)
        <3>1. Unreferenced(fat, dir, x)
            BY <1>4, <2>2, FreeUnreferenced DEF View, Seen
        <3> QED
            BY <1>4, <2>2, <3>1, UnreferencedOff DEF View
    <2> QED
        BY <2>1, <2>2
<1>6. Kept(name)'
    <2> SUFFICES ASSUME NEW n \in Names \ {name}
                 PROVE  ListingOf(fat', dirents', data)[n] = Listing[n]
        BY <1>1, <1>3 DEF Kept
    <2>1. ListingOf(fat', dirents', data)[n] = ListingOf(fat', dir, data)[n]
        <3>1. dirents'[s].name # n /\ dir[s].name # n
            OBVIOUS
        <3>2. Distinct(dir) /\ Distinct(dirents') /\ BareNames = {} /\ n \in Names
            BY <1>1
        <3>3. ListingOf(fat', dirents', data)[n] =
                 IF dirents'[s].name = n THEN Contents(fat', dirents'[s], data)
                 ELSE IF dir[s].name = n THEN Absent
                 ELSE ListingOf(fat', dir, data)[n]
            BY <3>2, ListingChange
        <3> QED
            BY <3>1, <3>3
    <2>2. ListingOf(fat', dir, data)[n] = ListingOf(fat, dir, data)[n]
        <3>1. Distinct(dir) /\ BareNames = {} /\ n \in Names
            BY <1>1
        <3>2. EditedIn(X, fat, fat', data, data) /\ FileOff(fat, dir, n, X)
            BY <1>5 DEF EditedIn, FileOff
        <3> QED
            BY <1>4, <3>1, <3>2, Untouched
    <2> QED
        BY <1>3, <2>1, <2>2
<1>7. Patched(Contents(diskFat, dir[s], data), Listing[name], bytes, length)
    <2>1. Listing[name] = Contents(diskFat, dir[s], data)
        <3>1. Distinct(dir) /\ BareNames = {} /\ dir[s].name \in Names
            BY <1>1
        <3>2. ListingOf(diskFat, dir, data)[dir[s].name] = Contents(diskFat, dir[s], data)
            BY <3>1, ListingAt
        <3> QED
            BY <3>2 DEF Listing
    <2> DEFINE l == Contents(diskFat, dir[s], data)
    <2>2. Len(l) \in Nat /\ l \in [1 .. Len(l) -> Block \union {NoBlock}]
        BY ContentsType DEF Seen
    <2> HIDE DEF l
    <2>3. Patched(l, l, bytes, length)
        BY <2>2 DEF Patched, Blocks
    <2> QED
        BY <2>1, <2>3 DEF l
<1>12. Blocks(Listing[name])
    BY <1>7 DEF Patched
<1>8. Grows(diskFat', fat')
    <2> SUFFICES ASSUME NEW p \in Clusters, fat[p] \in Clusters PROVE fat'[p] = fat[p]
        BY <1>1 DEF Grows
    <2> QED
        BY ClusterFacts
<1>9. Walk(fat', dirents'[s].start)[0] = dirents'[s].start
    BY WalkSteps DEF Seen, View
<1>10. WrittenTo(s, 0)' /\ length \in Nat
    BY ClusterFacts DEF WrittenTo
<1>11. pending' = WriteOf(name, length, bytes)
    BY <1>1 DEF WriteOf
<1> QED
    BY <1>1, <1>2, <1>6, <1>7, <1>8, <1>9, <1>10, <1>11, <1>12 DEF FileView, ChangedAt

\* fat32_write: of nothing, over the file's clusters, into a first cluster, or
\* into a full card.
LEMMA WriteFiles ==
    ASSUME Ordinary, Seen, Seen', NEW name \in Names, NEW length \in 0 .. MaxLength,
           NEW bytes \in Payloads, Write(name, length, bytes),
           Announce("write", [n \in {name} |-> [i \in 1 .. length |-> [of |-> bytes, n |-> i]]])
    PROVE  FilesInv'
<1> DEFINE sized(s) == [dir EXCEPT ![s].size = length]
<1>1. pc = "idle" /\ UNCHANGED card
    BY DEF Write
<1>2. PICK s \in Slots :
         /\ dir[s].name = name
         /\ \/ /\ length = 0
               /\ dirents' = sized(s) /\ WriteDirectory
               /\ UNCHANGED fat
            \/ /\ length > 0 /\ dir[s].start # 0
               /\ dirents' = sized(s)
               /\ Enter("write", "file", dir[s].start, length, bytes)
               /\ UNCHANGED fat
            \/ /\ length > 0 /\ dir[s].start = 0
               /\ \E c \in FreeFrom(3) :
                     /\ fat' = [fat EXCEPT ![c] = LAST]
                     /\ dirents' = [sized(s) EXCEPT ![s].start = c]
                     /\ Enter("write", "file", c, length, bytes)
            \/ Stop("panic")
    BY DEF Write, Matches
<1>3. /\ \A t \in Slots \ {s} : sized(s)[t] = dir[t]
      /\ sized(s)[s].name = name /\ sized(s)[s].size = length
      /\ sized(s)[s].start = dir[s].start
    BY <1>2 DEF Seen, View, Directory, Dirent
<1> DEFINE new == [n \in {name} |-> [i \in 1 .. length |-> [of |-> bytes, n |-> i]]]
<1>4. Announce("write", new)
    OBVIOUS
<1>5. CASE length = 0 /\ dirents' = sized(s) /\ WriteDirectory /\ UNCHANGED fat
    <2>1. pc' = "write" /\ what' = "dir"
        BY <1>5 DEF WriteDirectory, Enter
    <2>2. Contents(fat, dirents'[s], data) = <<>>
        <3>1. View(fat, dirents') /\ dirents'[s].size = 0
            BY <1>3, <1>5 DEF Seen
        <3> QED
            BY <3>1, ContentsEmpty
    <2>3. \A n \in Names : (n \in DOMAIN new <=> n = name) /\ new[name] = <<>>
        BY <1>5
    <2> HIDE DEF new
    <2>4. /\ ChangedAt(dir, dirents', s)
          /\ \A n \in Names :
               IF dirents'[s].name = n THEN n \in DOMAIN new /\ new[n] = Contents(fat, dirents'[s], data)
               ELSE IF dir[s].name = n THEN n \in DOMAIN new /\ new[n] = Absent
               ELSE n \notin DOMAIN new
        BY <1>2, <1>3, <1>5, <2>2, <2>3 DEF ChangedAt
    <2>5. /\ ListingOf(fat, dirents, data)' = Expected'
          /\ ListingOf(diskFat, dirents, data)' = Expected'
        BY <1>1, <1>4, <1>5, <2>4, NewDirectory
    <2>6. DirPhase'
        BY <2>1, <2>5 DEF DirPhase
    <2> QED
        BY <1>1, <1>4, <2>1, <2>6, Announced
<1>6. CASE /\ length > 0 /\ dir[s].start # 0
           /\ dirents' = sized(s)
           /\ Enter("write", "file", dir[s].start, length, bytes)
           /\ UNCHANGED fat
    <2>1. pc' = "write" /\ what' = "file" /\ length \in 1 .. MaxLength
        BY <1>6 DEF Enter
    <2>2. FileView(s)'
        <3>1. \E X : X = {} /\ \A p \in Clusters \ X : fat'[p] = fat[p]
            BY <1>6
        <3>2. /\ ChangedAt(dir, dirents', s)
              /\ dirents'[s].name = name /\ dirents'[s].size = length
              /\ dirents'[s].start = dir[s].start
            BY <1>3, <1>6 DEF ChangedAt
        <3> QED
            BY <1>1, <1>2, <1>4, <1>6, <2>1, <3>1, <3>2, FileBegins
    <2>3. DirPhase'
        BY <2>1 DEF DirPhase
    <2> QED
        BY <1>1, <1>4, <2>1, <2>2, <2>3, Announced
<1>7. ASSUME length > 0, dir[s].start = 0, NEW c \in FreeFrom(3),
             fat' = [fat EXCEPT ![c] = LAST],
             dirents' = [sized(s) EXCEPT ![s].start = c],
             Enter("write", "file", c, length, bytes)
      PROVE  FilesInv'
    <2>1. pc' = "write" /\ what' = "file" /\ length \in 1 .. MaxLength
        BY <1>7 DEF Enter
    <2>2. c \in Clusters /\ fat[c] = FREE
        BY <1>7, ClusterFacts DEF FreeFrom, Clusters
    <2>3. /\ ChangedAt(dir, dirents', s)
          /\ dirents'[s].name = name /\ dirents'[s].size = length /\ dirents'[s].start = c
        <3>1. sized(s) \in Directory
            BY DEF Seen, View, Directory, Dirent
        <3> HIDE DEF sized
        <3> QED
            BY <1>3, <1>7, <3>1 DEF Directory, Dirent, ChangedAt
    <2>4. FileView(s)'
        <3>1. \A p \in Clusters \ {c} : fat'[p] = fat[p]
            BY <1>7
        <3>2. \E X : (\E x \in Clusters : X = {x} /\ fat[x] = FREE)
                     /\ \A p \in Clusters \ X : fat'[p] = fat[p]
            BY <2>2, <3>1
        <3> QED
            BY <1>1, <1>2, <1>4, <1>7, <2>1, <2>3, <3>2, FileBegins
    <2>5. DirPhase'
        BY <2>1 DEF DirPhase
    <2> QED
        BY <1>1, <1>4, <2>1, <2>4, <2>5, Announced
<1>8. CASE Stop("panic")
    <2>1. pc' = "panic" /\ what' = "dir"
        BY <1>8 DEF Stop, Enter
    <2> QED
        BY <1>1, <1>4, <2>1, Announced DEF DirPhase
<1> QED
    BY <1>2, <1>5, <1>6, <1>7, <1>8

-----------------------------------------------------------------------------
(***************************************************************************)
(* The steps on the directory's buffer.                                    *)
(***************************************************************************)
\* A step that leaves the card and the call alone leaves what may be found.
LEMMA CardKept ==
    ASSUME FilesInv, pc # "idle", sec = 0, UNCHANGED card, UNCHANGED history
    PROVE  /\ pending' # NoCall /\ before' = [n \in Names |-> before'[n]]
           /\ MayFind(Listing)' /\ Expected' = Expected /\ Listing' = Listing
<1>1. /\ Listing' = Listing /\ Expected' = Expected
      /\ (Blend(Listing, before, pending)' <=> Blend(Listing, before, pending))
    BY DEF card, history, Listing, Expected, Blend
<1> QED
    BY <1>1 DEF FilesInv, MayFind, history

\* A panic leaves the card for the next boot.
LEMMA PanicFiles ==
    ASSUME FilesInv, pc # "idle", sec = 0, pc' = "panic", what' = "dir",
           UNCHANGED card, UNCHANGED history
    PROVE  FilesInv'
BY CardKept DEF FilesInv, DirPhase

\* An edit of the FAT that leaves every chain alone.
LEMMA AllUntouched ==
    ASSUME BareNames = {}, NEW f, NEW d, View(f, d), Distinct(d), NEW g, View(g, d),
           NEW X, NEW D, NEW E, EditedIn(X, f, g, D, E), \A t \in Slots : Off(f, d, t, X)
    PROVE  ListingOf(g, d, E) = ListingOf(f, d, D)
<1>1. ASSUME NEW n \in Names
      PROVE  ListingOf(g, d, E)[n] = ListingOf(f, d, D)[n]
    <2>1. FileOff(f, d, n, X)
        BY DEF FileOff
    <2> QED
        BY <2>1, Untouched
<1>2. ListingOf(f, d, D) = [n \in Names |-> ListingOf(f, d, D)[n]]
    BY DEF ListingOf
<1> QED
    BY <1>1, <1>2, ListingsEqual

\* An edit of the FAT in memory that leaves the listing alone.
LEMMA MemoryEdit ==
    ASSUME FilesInv, pc \notin {"idle", "panic"}, sec = 0, pc' \notin {"idle", "panic"},
           what = "dir", what' = "dir", UNCHANGED card, UNCHANGED history, UNCHANGED dirents,
           ListingOf(fat', dirents, data) = ListingOf(fat, dirents, data),
           pc' = "cut" /\ left' > 0 => \E s \in Slots : CuttingAt(s)'
    PROVE  FilesInv'
<1>1. /\ pending' # NoCall /\ before' = [n \in Names |-> before'[n]]
      /\ MayFind(Listing)' /\ Expected' = Expected
    BY CardKept
<1>2. /\ ListingOf(fat, dirents, data) = Expected
      /\ ListingOf(diskFat, dirents, data) = Expected
    BY DEF FilesInv, DirPhase
<1>3. /\ ListingOf(fat, dirents, data)' = Expected'
      /\ ListingOf(diskFat, dirents, data)' = Expected'
    BY <1>1, <1>2 DEF card
<1> QED
    BY <1>1, <1>3 DEF FilesInv, DirPhase

\* Freeing the head of a chain that nothing points to.
LEMMA FreeingFiles ==
    ASSUME Ordinary, Seen, Seen', FilesInv, pc \notin {"idle", "panic", "sync"},
           what = "dir", what' = "dir",
           UNCHANGED card, UNCHANGED history, UNCHANGED dirents,
           cur \in Clusters, Unreferenced(fat, dirents, cur),
           fat' = [fat EXCEPT ![cur] = FREE],
           pc' \notin {"idle", "panic"}, pc' = "cut" => left' = 0
    PROVE  FilesInv'
<1>1. /\ View(fat, dirents) /\ View(fat', dirents) /\ Distinct(dirents)
      /\ BareNames = {}
    BY DEF Seen, Ordinary
<1>2. EditedIn({cur}, fat, fat', data, data)
    BY <1>1 DEF EditedIn
<1>3. \A t \in Slots : Off(fat, dirents, t, {cur})
    BY <1>1, UnreferencedOff DEF View
<1>4. ListingOf(fat', dirents, data) = ListingOf(fat, dirents, data)
    BY <1>1, <1>2, <1>3, AllUntouched
<1> QED
    BY <1>4, MemoryEdit DEF Seen

\* The loop of fat32_delete frees nothing that is listed.
LEMMA FreeStepFiles ==
    ASSUME Ordinary, Known, Known', FilesInv, FreeStep, UNCHANGED history
    PROVE  FilesInv'
<1>1. Seen /\ Seen'
    BY KnownSeen, KnownSeenNext
<1>2. pc = "free" /\ what = "dir" /\ fat' = [fat EXCEPT ![cur] = FREE] /\ UNCHANGED card
    BY <1>1 DEF FreeStep, Seen
<1>3. cur \in Clusters /\ Unreferenced(fat, dirents, cur)
    BY <1>2 DEF Known, SoundInv, AtCluster, Freeing, InUse
<1>4. pc' \in {"free", "write"} /\ what' = "dir" /\ dirents' = dirents
    BY <1>2 DEF FreeStep, WriteDirectory, Enter
<1> QED
    BY <1>1, <1>2, <1>3, <1>4, FreeingFiles

\* The FAT g ends the chain of slot s at the cluster x, where its size ends it.
CutShort(f, g, d, s, x) ==
    /\ d[s].size >= 1 /\ d[s].size - 1 <= NEntries
    /\ x \in Clusters /\ Walk(f, d[s].start)[d[s].size - 1] = x
    /\ g = [f EXCEPT ![x] = LAST]

\* Ending a chain where the size ends the file changes no contents.
LEMMA CutListing ==
    ASSUME Ordinary, NEW f, NEW d, View(f, d), Distinct(d), NEW s \in Slots,
           NEW g, View(g, d), NEW x, CutShort(f, g, d, s, x), NEW D
    PROVE  ListingOf(g, d, D) = ListingOf(f, d, D)
<1>0. /\ d[s].size >= 1 /\ d[s].size - 1 <= NEntries
      /\ x \in Clusters /\ Walk(f, d[s].start)[d[s].size - 1] = x
      /\ g = [f EXCEPT ![x] = LAST]
    BY DEF CutShort
<1> DEFINE v == Walk(f, d[s].start)
           w == Walk(g, d[s].start)
           m == d[s].size - 1
<1>1. /\ m \in 0 .. NEntries /\ v[m] = x /\ NEntries \in Nat /\ d[s].size = m + 1 /\ m \in Nat
      /\ BareNames = {} /\ f \in FAT /\ g \in FAT /\ d \in Directory
      /\ v = Walk(f, d[s].start) /\ w = Walk(g, d[s].start)
    BY <1>0, ClusterFacts DEF View, Directory, Dirent, Ordinary
<1> HIDE DEF v, w, m
<1>2. EditedIn({x}, f, g, D, D)
    BY <1>0, <1>1 DEF EditedIn, FAT
<1>3. Contents(f, d[s], D) = Contents(g, d[s], D)
    <2>1. \A k \in 0 .. m - 1 : k \in 0 .. NEntries /\ k # m
        BY <1>1
    <2>2. \A k \in 0 .. m - 1 : v[k] # x
        BY <1>0, <1>1, <2>1, ChainsMeetNowhere DEF View
    <2>3. AgreeBelow(f, g, v, m)
        BY <1>2, <2>2 DEF EditedIn, AgreeBelow
    <2>4. \A k \in 0 .. m : w[k] = v[k]
        BY <1>1, <2>3, WalksAgree
    <2>5. \A k \in 0 .. NEntries : k < d[s].size => w[k] = v[k]
        <3>1. \A k \in 0 .. NEntries : k < d[s].size => k \in 0 .. m
            BY <1>1
        <3> QED
            BY <2>4, <3>1
    <2>6. SameBlocks(v, w, D, D, d[s].size)
        BY <2>5 DEF SameBlocks
    <2> QED
        BY <1>1, <2>6, ContentsSame
<1>4. ASSUME NEW n \in Names
      PROVE  ListingOf(g, d, D)[n] = ListingOf(f, d, D)[n]
    <2>1. CASE d[s].name = n
        <3>1. /\ ListingOf(f, d, D)[d[s].name] = Contents(f, d[s], D)
              /\ ListingOf(g, d, D)[d[s].name] = Contents(g, d[s], D)
            BY <1>1, <2>1, ListingAt
        <3> QED
            BY <1>3, <2>1, <3>1
    <2>2. CASE d[s].name # n
        <3>1. \A t \in Slots \ {s} : Off(f, d, t, {v[m]})
            BY <1>0, <1>1, OthersOff DEF View
        <3>2. FileOff(f, d, n, {x})
            BY <1>1, <2>2, <3>1 DEF FileOff
        <3> QED
            BY <1>1, <1>2, <3>2, Untouched
    <2> QED
        BY <2>1, <2>2
<1>5. /\ ListingOf(f, d, D) = [n \in Names |-> ListingOf(f, d, D)[n]]
      /\ ListingOf(g, d, D) = [n \in Names |-> ListingOf(g, d, D)[n]]
    BY DEF ListingOf
<1> QED
    BY <1>4, <1>5, Zenon

\* The loop of fat32_truncate, up to the cut, at it and after it.
LEMMA CutStepFiles ==
    ASSUME Ordinary, Known, Known', FilesInv, CutStep, UNCHANGED history
    PROVE  FilesInv'
<1>1. Seen /\ Seen' /\ left \in Nat /\ fat[0] = LAST
    BY KnownSeen, KnownSeenNext DEF Known, TypeInv, TypeOK, SoundInv, Reserved
<1>2. pc = "cut" /\ what = "dir" /\ UNCHANGED card
    BY <1>1 DEF CutStep, Seen
<1>3. /\ pc' \in {"cut", "write"} /\ what' = "dir" /\ dirents' = dirents
      /\ pc' = "cut" => cur' = fat[cur] /\ left' = left - BytesWrite /\ ~EndsChain(fat[cur])
      /\ fat' = IF CutsHere THEN [fat EXCEPT ![cur] = IF left > 0 THEN LAST ELSE FREE] ELSE fat
    BY <1>2 DEF CutStep, WriteDirectory, Enter
<1>4. CASE left = 0
    <2>1. cur \in Clusters /\ Unreferenced(fat, dirents, cur)
        BY <1>2, <1>4 DEF Known, SoundInv, AtCluster, Freeing, InUse
    <2>2. fat' = [fat EXCEPT ![cur] = FREE] /\ (pc' = "cut" => left' = 0)
        BY <1>3, <1>4 DEF CutsHere, BytesWrite
    <2> QED
        BY <1>1, <1>2, <1>3, <2>1, <2>2, FreeingFiles
<1>5. CASE left > 0
    <2>1. PICK s \in Slots : CuttingAt(s)
        BY <1>2, <1>5 DEF FilesInv, DirPhase
    <2> DEFINE e == dirents[s]
               w == Walk(fat, e.start)
    <2>2. /\ left <= e.size /\ e.size - left <= NEntries /\ w[e.size - left] = cur
          /\ e.size \in Nat /\ NEntries \in Nat
        BY <1>1, <2>1, ClusterFacts DEF CuttingAt, Seen, View, Directory, Dirent
    <2>3. View(fat, dirents) /\ View(fat', dirents) /\ Distinct(dirents)
        BY <1>1, <1>3 DEF Seen
    <2>4. cur = 0 \/ cur \in Clusters
        BY <1>2, <1>5 DEF Known, SoundInv, AtCluster, InUse
    <2>5. ListingOf(fat', dirents, data) = ListingOf(fat, dirents, data)
        <3>1. CASE left > 1 \/ cur = 0
            <4>1. fat' = fat
                BY <1>1, <1>3, <1>5, <2>3, <3>1 DEF CutsHere, BytesWrite, View, FAT
            <4> QED
                BY <4>1
        <3>2. CASE left = 1 /\ cur \in Clusters
            <4>1. fat' = [fat EXCEPT ![cur] = LAST]
                BY <1>3, <3>2 DEF CutsHere, BytesWrite
            <4>2. CutShort(fat, fat', dirents, s, cur)
                BY <2>2, <3>2, <4>1 DEF CutShort
            <4> QED
                BY <2>3, <4>2, CutListing
        <3> QED
            BY <1>1, <1>5, <2>4, <3>1, <3>2
    <2>6. ASSUME pc' = "cut", left' > 0
          PROVE  CuttingAt(s)'
        <3>1. left > 1 /\ left' = left - 1 /\ cur' = fat[cur] /\ cur \in Clusters
            BY <1>1, <1>3, <1>5, <2>4, <2>6 DEF BytesWrite, EndsChain
        <3>2. fat' = fat
            BY <1>1, <1>3, <3>1 DEF CutsHere, BytesWrite
        <3>3. e.size - left # NEntries
            BY <2>2, <2>3, <3>1, ChainEnds DEF View
        <3>4. e.size - left \in 0 .. NEntries - 1 /\ e.size - (left - 1) = (e.size - left) + 1
            BY <1>1, <2>2, <3>3
        <3>5. w[(e.size - left) + 1] = fat[cur]
            BY <2>2, <2>3, <3>1, <3>4, WalkSteps DEF View
        <3> QED
            BY <1>1, <1>3, <2>2, <3>1, <3>2, <3>4, <3>5 DEF CuttingAt
    <2> QED
        BY <1>1, <1>2, <1>3, <2>5, <2>6, MemoryEdit DEF Seen
<1> QED
    BY <1>1, <1>4, <1>5

\* A block of the directory puts the whole change on the card or none of it.
LEMMA DirBlockFiles ==
    ASSUME Seen, Seen', FilesInv, pc = "write", what = "dir", WriteBlock,
           UNCHANGED history, UNCHANGED <<fat, diskFat, dirents>>,
           pc' \in {"write", "sync"}, what' = "dir"
    PROVE  FilesInv'
<1>1. data' = data /\ dir' \in {dir, dirents}
    <2>1. dir' = [s \in Slots |-> IF BlockOf(s) = offset + 1 THEN dirents[s] ELSE dir[s]]
        BY DEF WriteBlock
    <2>2. dir = [s \in Slots |-> dir[s]] /\ dirents = [s \in Slots |-> dirents[s]]
          /\ OneChange(dir, dirents)
        BY DEF Seen, View, Directory
    <2>5. data' = data
        BY DEF WriteBlock
    <2>6. dir' = [s \in Slots |-> dir'[s]]
        BY DEF Seen, View, Directory
    <2>3. CASE \E s \in Slots : BlockOf(s) = offset + 1 /\ dir[s] # dirents[s]
        <3>1. PICK s \in Slots : BlockOf(s) = offset + 1 /\ dir[s] # dirents[s]
            BY <2>3
        <3>2. \A t \in Slots : t # s => dir[t] = dirents[t]
            BY <2>2, <3>1 DEF OneChange
        <3>3. \A t \in Slots : dir'[t] = dirents[t]
            BY <2>1, <3>1, <3>2
        <3> QED
            BY <2>2, <2>5, <2>6, <3>3
    <2>4. CASE \A s \in Slots : BlockOf(s) = offset + 1 => dir[s] = dirents[s]
        <3>1. \A t \in Slots : dir'[t] = dir[t]
            BY <2>1, <2>4
        <3> QED
            BY <2>2, <2>5, <2>6, <3>1
    <2> QED
        BY <2>3, <2>4, <2>5
<1>2. /\ ListingOf(fat, dirents, data) = Expected /\ ListingOf(diskFat, dirents, data) = Expected
      /\ MayFind(Listing) /\ pending # NoCall /\ before = [n \in Names |-> before[n]]
    BY DEF FilesInv, DirPhase, Seen
<1>3. Expected' = Expected /\ UNCHANGED <<before, pending>>
    BY DEF history, Expected
<1>4. Listing' \in {Listing, Expected}
    BY <1>1, <1>2 DEF Listing
<1>5. MayFind(Listing)'
    <2>1. MayFind(Expected)
        BY DEF MayFind
    <2>2. MayFind(Listing')
        BY <1>2, <1>4, <2>1
    <2> QED
        BY <1>3, <2>2 DEF MayFind, Blend
<1>6. /\ ListingOf(fat, dirents, data)' = Expected'
      /\ ListingOf(diskFat, dirents, data)' = Expected'
    BY <1>1, <1>2, <1>3
<1> QED
    BY <1>2, <1>3, <1>5, <1>6 DEF FilesInv, DirPhase

\* write_cluster_chain with the directory's buffer, which neither extends the
\* chain nor leaves a tail.
LEMMA WriteDirFiles ==
    ASSUME Known, Known', FilesInv, what = "dir", UNCHANGED history,
           WriteLastBlock \/ WriteNextBlock \/ WriteAndExtend
    PROVE  FilesInv'
<1>1. Seen /\ Seen' /\ TypeInv /\ DirInv
    BY KnownSeen, KnownSeenNext DEF Known
<1>2. pc = "write" /\ WriteBlock /\ cur \in Clusters
    BY DEF WriteLastBlock, WriteNextBlock, WriteAndExtend
<1>3. /\ left = 1 => fat[cur] = LAST
      /\ left > 1 => ~EndsChain(fat[cur])
    BY <1>1, <1>2, DirWriteFacts
<1>4. CASE WriteLastBlock
    <2>1. fat' = fat
        <3>1. fat[cur] = LAST /\ fat' = [fat EXCEPT ![cur] = LAST]
            BY <1>3, <1>4 DEF WriteLastBlock
        <3> QED
            BY <1>1, <3>1 DEF Seen, View, FAT
    <2>2. pc' = "sync"
        BY <1>3, <1>4 DEF WriteLastBlock, EndsChain
    <2> QED
        BY <1>1, <1>2, <1>4, <2>1, <2>2, DirBlockFiles DEF WriteLastBlock
<1>5. CASE WriteNextBlock
    <2>1. pc' = "write" /\ what' = "dir" /\ UNCHANGED <<fat, diskFat, dirents>>
        BY <1>2, <1>5 DEF WriteNextBlock
    <2> QED
        BY <1>1, <1>2, <2>1, DirBlockFiles
<1>6. CASE WriteAndExtend
    BY <1>3, <1>6 DEF WriteAndExtend
<1> QED
    BY <1>4, <1>5, <1>6

\* The last sector of the FAT puts all of it on the card.
LEMMA WholeFat ==
    ASSUME Known, SyncStep, ~(sec + 1 < NSectors)
    PROVE  /\ diskFat' = fat
           /\ IF what = "file" THEN WriteDirectory /\ UNCHANGED dirents
                               ELSE Stop("idle") /\ dirents' = dir
<1>1. fat \in FAT /\ diskFat \in FAT /\ sec \in Nat /\ (sec = 0 \/ Synced(sec))
    BY DEF Known, SoundInv, Written, TypeInv, TypeOK, FAT
<1>2. diskFat' = fat
    BY <1>1, SectorSynced
<1> QED
    BY <1>2 DEF SyncStep

\* One of the FAT's other sectors.
LEMMA PartOfFat ==
    ASSUME Known, SyncStep, sec + 1 < NSectors
    PROVE  /\ pc = "sync" /\ pc' = "sync" /\ sec' # 0
           /\ UNCHANGED <<fat, dir, data, dirents, what, left, offset, payload>>
BY DEF SyncStep, Known, TypeInv, TypeOK

\* The FAT follows the directory to the card.
LEMMA SyncDirFiles ==
    ASSUME Known, FilesInv, SyncStep, what = "dir", pc' # "idle", UNCHANGED history
    PROVE  FilesInv'
<1>1. sec + 1 < NSectors
    BY WholeFat DEF Stop, Enter
<1>2. /\ pc = "sync" /\ pc' = "sync" /\ sec' # 0 /\ what' = "dir"
      /\ UNCHANGED <<fat, dir, data, dirents>>
    BY <1>1, PartOfFat
<1>3. /\ ListingOf(fat, dirents, data) = Expected
      /\ pending # NoCall /\ before = [n \in Names |-> before[n]]
    BY <1>2 DEF FilesInv, DirPhase
<1>4. Expected' = Expected /\ UNCHANGED <<before, pending>>
    BY DEF history, Expected
<1> QED
    BY <1>2, <1>3, <1>4 DEF FilesInv, DirPhase

\* A call returns when all of the FAT has followed it.
LEMMA ReturnFiles ==
    ASSUME Known, FilesInv, SyncStep, what = "dir", pc' = "idle"
    PROVE  what' = "dir" /\ pending # NoCall /\ Listing' = Expected
<1>1. pc = "sync" /\ UNCHANGED <<dir, data>>
    BY DEF SyncStep
<1>2. dir = dirents
    BY <1>1 DEF Known, SoundInv, Written
<1>3. ~(sec + 1 < NSectors)
    BY <1>1, PartOfFat
<1>4. diskFat' = fat /\ what' = "dir"
    BY <1>3, WholeFat DEF Stop, Enter
<1>5. ListingOf(fat, dirents, data) = Expected /\ pending # NoCall
    BY <1>1 DEF FilesInv, DirPhase
<1> QED
    BY <1>1, <1>2, <1>4, <1>5 DEF Listing

\* Between calls there is nothing to hold.
LEMMA IdleFiles ==
    ASSUME pc' = "idle", what' = "dir", Settle(outcome')
    PROVE  FilesInv'
BY DEF FilesInv, DirPhase, Settle

-----------------------------------------------------------------------------
(***************************************************************************)
(* The steps on a file's buffer.                                           *)
(***************************************************************************)
\* A chain of a FAT is the beginning of that of one that grew out of it.
LEMMA GrowsWalk ==
    ASSUME NEW f \in FAT, NEW g \in FAT, NEW d \in Directory, NEW e \in Directory,
           NEW s \in Slots, d[s].start = e[s].start, Grows(f, g),
           NEW v, v = Walk(f, d[s].start), NEW w, w = Walk(g, e[s].start),
           NEW k \in 0 .. NEntries, v[k] \in Clusters
    PROVE  w[k] = v[k]
<1>1. /\ NEntries \in Nat
      /\ \A j \in 0 .. NEntries - 1 : v[j + 1] = IF v[j] \in Clusters THEN f[v[j]] ELSE LAST
    BY WalkSteps
<1>2. ASSUME NEW j \in 0 .. k - 1, v[j] \in Clusters
      PROVE  g[v[j]] = f[v[j]]
    <2>1. j \in 0 .. NEntries - 1 /\ j + 1 \in 0 .. k
        BY <1>1
    <2>2. v[j + 1] \in Clusters
        BY <2>1, WalkDown
    <2> QED
        BY <1>1, <1>2, <2>1, <2>2 DEF Grows
<1>3. AgreeBelow(f, g, v, k)
    BY <1>2 DEF AgreeBelow
<1>4. k \in 0 .. k
    BY <1>1
<1> QED
    BY <1>3, <1>4, WalksAgree

\* b says what every name holds.
OnNames(b) == b = [n \in Names |-> b[n]]

\* What is listed when one file mixes old blocks and new ones.
LEMMA FoundMixed ==
    ASSUME Ordinary, NEW f, NEW d, View(f, d), Distinct(d), NEW s \in Slots,
           NEW D \in [Clusters -> Block \union {NoBlock}],
           NEW b, OnNames(b), NEW nm \in Names, d[s].name = nm,
           \A n \in Names \ {nm} : ListingOf(f, d, D)[n] = b[n],
           NEW p, NEW m \in Nat, Patched(Contents(f, d[s], D), b[nm], p, m),
           NEW q, q = WriteOf(nm, m, p)
    PROVE  Blend(ListingOf(f, d, D), b, q)
<1>0. ListingOf(f, d, D)[nm] = Contents(f, d[s], D)
    <2>1. BareNames = {}
        BY DEF Ordinary
    <2> QED
        BY <2>1, ListingAt
<1> DEFINE l == ListingOf(f, d, D)
           c == Contents(f, d[s], D)
           new == [i \in 1 .. m |-> [of |-> p, n |-> i]]
           a == b[nm]
<1>1. l[nm] = c
    BY <1>0
<1>2. Len(c) \in 0 .. MaxLength /\ c \in [1 .. Len(c) -> Block \union {NoBlock}]
    BY ContentsType
<1>3. q.new[nm] = new /\ nm \in DOMAIN q.new /\ q.kind = "write"
    BY DEF WriteOf
<1>4. Len(new) = m /\ DOMAIN new = 1 .. m /\ \A i \in 1 .. m : new[i] = [of |-> p, n |-> i]
    OBVIOUS
<1>5. /\ a \in [1 .. Len(a) -> Block \union {NoBlock}] /\ Len(a) \in Nat
      /\ \A i \in 1 .. Len(c) :
             (i <= Len(a) /\ c[i] = a[i]) \/ (i <= m /\ c[i] = [of |-> p, n |-> i])
    BY DEF Patched, Blocks
<1>6. l = [n \in Names |-> l[n]]
    BY DEF ListingOf
<1> HIDE DEF c, new, a, l
<1>7. Store!Mixes(c, a, new)
    BY <1>2, <1>4, <1>5 DEF Store!Mixes
<1>8. c \in [1 .. Len(c) -> Store!BlocksOf(a) \union Store!BlocksOf(new)]
    <2>1. ASSUME NEW i \in 1 .. Len(c)
          PROVE  c[i] \in Store!BlocksOf(a) \union Store!BlocksOf(new)
        <3>1. CASE i <= Len(a) /\ c[i] = a[i]
            <4>1. i \in DOMAIN a
                BY <1>2, <1>5, <3>1
            <4> QED
                BY <3>1, <4>1 DEF Store!BlocksOf
        <3>2. CASE i <= m /\ c[i] = [of |-> p, n |-> i]
            <4>1. i \in DOMAIN new /\ c[i] = new[i]
                BY <1>2, <1>4, <3>2
            <4> QED
                BY <4>1 DEF Store!BlocksOf
        <3> QED
            BY <1>5, <3>1, <3>2
    <2> QED
        BY <1>2, <2>1
<1>9. l = [b EXCEPT ![nm] = c]
    <2>1. [b EXCEPT ![nm] = c] = [n \in Names |-> IF n = nm THEN c ELSE b[n]]
        BY DEF OnNames
    <2>2. \A n \in Names : l[n] = IF n = nm THEN c ELSE b[n]
        BY <1>1 DEF l
    <2> QED
        BY <1>6, <2>1, <2>2
<1>10. /\ q.kind = "write" /\ nm \in DOMAIN q.new /\ Len(c) \in 0 .. MaxLength
       /\ c \in [1 .. Len(c) -> Store!BlocksOf(b[nm]) \union Store!BlocksOf(q.new[nm])]
       /\ Store!Mixes(c, b[nm], q.new[nm]) /\ l = [b EXCEPT ![nm] = c]
    BY <1>2, <1>3, <1>7, <1>8, <1>9 DEF a
<1> QED
    BY <1>10 DEF Blend, l

\* A step after which the file is being written or its chain being synced.
LEMMA FileGoesOn ==
    ASSUME Ordinary, Seen', FilesInv, pc # "idle", pc' # "idle", what' = "file",
           UNCHANGED history, NEW s \in Slots, FileView(s)'
    PROVE  FilesInv'
<1>1. pending' # NoCall /\ before' = [n \in Names |-> before'[n]]
    BY DEF FilesInv, history
<1>2. ASSUME sec' = 0
      PROVE  MayFind(Listing)'
    <2> DEFINE e == dirents'[s]
    <2>1. /\ e.name \in Names /\ dir'[s].name = e.name /\ e.size \in Nat
          /\ pending' = WriteOf(e.name, e.size, payload')
          /\ \A n \in Names \ {e.name} : ListingOf(diskFat', dir', data')[n] = before'[n]
          /\ Patched(Contents(diskFat', dir'[s], data'), before'[e.name], payload', e.size)
        BY <1>2 DEF FileView, Kept, Listing, Seen, View, Directory, Dirent
    <2>2. View(diskFat', dir') /\ Distinct(dir') /\ data' \in [Clusters -> Block \union {NoBlock}]
        BY <1>2 DEF Seen
    <2> HIDE DEF e
    <2>3. Blend(ListingOf(diskFat', dir', data'), before', pending')
        BY <1>1, <2>1, <2>2, FoundMixed DEF OnNames
    <2> QED
        BY <2>3 DEF MayFind, Listing
<1>3. DirPhase'
    BY DEF DirPhase
<1> QED
    BY <1>1, <1>2, <1>3 DEF FilesInv

\* A block of the file on the card, as the next boot would find it.
LEMMA CardBlock ==
    ASSUME Ordinary, Seen, pc = "write", what = "file", NEW s \in Slots, FileView(s),
           cur \in Clusters, offset \in Nat, left \in Nat, left >= 1,
           NEW E, E = [data EXCEPT ![cur] = NewBlock(offset + 1)]
    PROVE  /\ \A n \in Names \ {dirents[s].name} : ListingOf(diskFat, dir, E)[n] = before[n]
           /\ Patched(Contents(diskFat, dir[s], E), before[dirents[s].name], payload, dirents[s].size)
<1> DEFINE e == dirents[s]
           v == Walk(diskFat, dir[s].start)
           w == Walk(fat, dirents[s].start)
<1>1. /\ View(fat, dirents) /\ View(diskFat, dir) /\ Distinct(dir) /\ BareNames = {}
      /\ fat \in FAT /\ diskFat \in FAT /\ dir \in Directory /\ dirents \in Directory
      /\ Sound(fat, dirents)
    BY DEF Seen, View, Ordinary
<1>2. /\ Grows(diskFat, fat) /\ w[offset] = cur /\ offset <= NEntries
      /\ offset + left = e.size /\ ChangedAt(dir, dirents, s) /\ dir[s].name = e.name
      /\ \A n \in Names \ {e.name} : Listing[n] = before[n]
      /\ Patched(Contents(diskFat, dir[s], data), before[e.name], payload, e.size)
      /\ dir[s].start \in {0, e.start}
    BY DEF FileView, WrittenTo, Kept, Seen
<1>3. NEntries \in Nat /\ offset \in 0 .. NEntries
    BY <1>2, ClusterFacts
<1>4. \A x \in Clusters \ {cur} : E[x] = data[x]
    BY DEF Seen
<1>5. E[cur] = [of |-> payload, n |-> offset + 1]
    BY DEF Seen, NewBlock
<1>6. ASSUME NEW n \in Names \ {e.name}
      PROVE  ListingOf(diskFat, dir, E)[n] = before[n]
    <2>1. ASSUME NEW t \in Slots, dir[t].name = n, NEW k \in 0 .. NEntries,
                 Walk(diskFat, dir[t].start)[k] = cur
          PROVE  FALSE
        <3>1. t # s /\ dirents[t] = dir[t]
            BY <1>2, <2>1 DEF ChangedAt
        <3>2. Walk(fat, dirents[t].start)[k] = cur
            BY <1>1, <1>2, <2>1, <3>1, GrowsWalk
        <3> QED
            BY <1>1, <1>2, <1>3, <3>1, <3>2, ChainsMeetNowhere
    <2>2. FileOff(diskFat, dir, n, {cur})
        BY <2>1 DEF FileOff, Off
    <2>3. EditedIn({cur}, diskFat, diskFat, data, E)
        BY <1>4 DEF EditedIn
    <2>4. n \in Names
        OBVIOUS
    <2>5. ListingOf(diskFat, dir, E)[n] = ListingOf(diskFat, dir, data)[n]
        BY <1>1, <2>2, <2>3, <2>4, Untouched
    <2> QED
        BY <1>2, <2>5 DEF Listing
<1>7. Patched(Contents(diskFat, dir[s], E), before[e.name], payload, e.size)
    <2>1. PICK n : Spans(diskFat, dir[s], n)
        BY <1>1, SpanExists
    <2>2. v = Walk(diskFat, dir[s].start) /\ w = Walk(fat, dirents[s].start)
        OBVIOUS
    <2>3. /\ n \in Nat /\ n <= NEntries
          /\ \A k \in 0 .. n - 1 : v[k] \in Clusters
        BY <2>1, <1>1 DEF Spans, Directory, Dirent
    <2> HIDE DEF v, w
    <2>4. ASSUME NEW B
          PROVE  Contents(diskFat, dir[s], B) = [i \in 1 .. n |-> B[v[i - 1]]]
        BY <1>1, <2>1, <2>2, ContentsAre
    <2> DEFINE c == Contents(diskFat, dir[s], data)
               h == Contents(diskFat, dir[s], E)
    <2>5. c = [i \in 1 .. n |-> data[v[i - 1]]] /\ h = [i \in 1 .. n |-> E[v[i - 1]]]
        BY <2>4
    <2> HIDE DEF c, h
    <2>6. Len(c) = n /\ Len(h) = n
        BY <2>3, <2>5
    <2>7. \A i \in 1 .. n : c[i] = data[v[i - 1]] /\ h[i] = E[v[i - 1]]
        BY <2>5
    <2>8. ASSUME NEW i \in 1 .. n
          PROVE  h[i] = c[i] \/ (i <= e.size /\ h[i] = [of |-> payload, n |-> i])
        <3>1. i - 1 \in 0 .. n - 1 /\ i - 1 \in 0 .. NEntries /\ v[i - 1] \in Clusters
            BY <1>3, <2>3
        <3>2. CASE v[i - 1] # cur
            BY <1>4, <2>7, <3>1, <3>2
        <3>3. CASE v[i - 1] = cur
            <4>1. dir[s].start = dirents[s].start
                <5>1. v[0] = dir[s].start
                    BY <1>1, <2>2, WalkSteps
                <5>2. \E k \in 0 .. n - 1 : k = 0
                    BY <2>3
                <5>3. v[0] \in Clusters
                    BY <2>3, <5>2
                <5> QED
                    BY <1>2, <5>1, <5>3, ClusterFacts DEF FREE
            <4>2. w[i - 1] = cur
                BY <1>1, <1>2, <2>2, <3>1, <3>3, <4>1, GrowsWalk
            <4>3. i - 1 = offset
                BY <1>1, <1>2, <1>3, <2>2, <3>1, <4>2, ChainsMeetNowhere
            <4>4. i = offset + 1 /\ i <= e.size
                BY <1>2, <2>3, <4>3
            <4> QED
                BY <1>5, <2>7, <3>3, <4>4
        <3> QED
            BY <3>2, <3>3
    <2>9. Patched(c, before[e.name], payload, e.size)
        BY <1>2 DEF c
    <2>10. Patched(h, before[e.name], payload, e.size)
        BY <2>6, <2>8, <2>9 DEF Patched, Blocks
    <2> QED
        BY <2>10 DEF h
<1> QED
    BY <1>6, <1>7

\* The clusters that a block's edits of the FAT touch: its own and a free one.
Touches(X, f, x) == x \in X /\ \A y \in X \ {x} : y \in Clusters /\ f[y] = FREE

\* They are on no chain but, at the block's place, on that of its file.
LEMMA BlockAlone ==
    ASSUME NEW f, NEW d, View(f, d), NEW s \in Slots, NEW m \in 0 .. NEntries, NEW x \in Clusters,
           Walk(f, d[s].start)[m] = x, DirChainKept(f), NEW X, Touches(X, f, x),
           NEW t \in Slots, NEW k \in 0 .. NEntries, Walk(f, d[t].start)[k] \in X
    PROVE  t = s /\ k = m
<1> DEFINE y == Walk(f, d[t].start)[k]
<1>1. f \in FAT /\ d \in Directory /\ Sound(f, d)
    BY DEF View
<1>2. CASE y = x
    BY <1>1, <1>2, ChainsMeetNowhere
<1>3. CASE y # x
    <2>1. y \in Clusters /\ f[y] = FREE
        BY <1>3 DEF Touches
    <2>2. Unreferenced(f, d, y)
        BY <1>1, <2>1, FreeUnreferenced
    <2>3. Off(f, d, t, {y})
        BY <1>1, <2>1, <2>2, UnreferencedOff
    <2> QED
        BY <2>3 DEF Off
<1> QED
    BY <1>2, <1>3

\* A block of the file in the call's view.
LEMMA FileBlock ==
    ASSUME Ordinary, Seen, Seen', pc = "write", what = "file", NEW s \in Slots, FileView(s),
           cur \in Clusters, offset \in Nat, left \in Nat, left >= 1,
           data' = [data EXCEPT ![cur] = NewBlock(offset + 1)],
           UNCHANGED <<diskFat, dir, dirents, payload>>, UNCHANGED history,
           NEW m, m = offset + 1, NEW X, Touches(X, fat, cur), EditedIn(X, fat, fat', data, data')
    PROVE  /\ Kept(dirents[s].name)'
           /\ Patched(Contents(diskFat, dir[s], data), before[dirents[s].name],
                      payload, dirents[s].size)'
           /\ WrittenTo(s, m)'
           /\ Walk(fat', dirents[s].start)[offset] = cur /\ offset \in 0 .. NEntries - 1
<1> DEFINE e == dirents[s]
           w == Walk(fat, dirents[s].start)
           h == Walk(fat', dirents[s].start)
<1>1. /\ View(fat, dirents) /\ View(fat', dirents) /\ Distinct(dirents) /\ BareNames = {}
      /\ fat \in FAT /\ fat' \in FAT /\ dirents \in Directory
      /\ Sound(fat, dirents) /\ DirChainKept(fat)
      /\ w = Walk(fat, dirents[s].start) /\ h = Walk(fat', dirents[s].start)
    BY DEF Seen, View, Ordinary
<1>2. /\ w[offset] = cur /\ offset <= NEntries
      /\ \A n \in Names \ {e.name} : ListingOf(fat, dirents, data)[n] = before[n]
      /\ \A k \in 0 .. offset - 1 : w[k] \in Clusters /\ data[w[k]] = NewBlock(k + 1)
    BY DEF FileView, WrittenTo, Kept
<1> HIDE DEF w, h
<1>3. NEntries \in Nat /\ offset \in 0 .. NEntries /\ offset \in 0 .. NEntries - 1
    <2>1. offset # NEntries
        BY <1>1, <1>2, ChainEnds
    <2> QED
        BY <1>2, <2>1, ClusterFacts
<1>4. ASSUME NEW t \in Slots, NEW k \in 0 .. NEntries, Walk(fat, dirents[t].start)[k] \in X
      PROVE  t = s /\ k = offset
    BY <1>1, <1>2, <1>3, <1>4, BlockAlone DEF w
<1>5. ASSUME NEW n \in Names \ {e.name}
      PROVE  ListingOf(fat', dirents, data')[n] = before[n]
    <2>1. FileOff(fat, dirents, n, X)
        BY <1>4 DEF FileOff, Off
    <2>2. n \in Names
        OBVIOUS
    <2>3. ListingOf(fat', dirents, data')[n] = ListingOf(fat, dirents, data)[n]
        BY <1>1, <2>1, <2>2, Untouched
    <2> QED
        BY <1>2, <2>3
<1>6. \A n \in Names \ {e.name} : ListingOf(diskFat, dir, data')[n] = before[n]
    BY CardBlock
<1>7. Kept(e.name)'
    BY <1>5, <1>6 DEF Kept, Listing, history
<1>8. Patched(Contents(diskFat, dir[s], data), before[e.name], payload, e.size)'
    <2>1. Patched(Contents(diskFat, dir[s], data'), before[e.name], payload, e.size)
        BY CardBlock
    <2> QED
        BY <2>1 DEF history
<1>9. \A k \in 0 .. offset : h[k] = w[k]
    <2>1. ASSUME NEW k \in 0 .. offset - 1, w[k] \in Clusters
          PROVE  fat'[w[k]] = fat[w[k]]
        <3>1. k \in 0 .. NEntries /\ k # offset
            BY <1>3
        <3>2. w[k] \notin X
            BY <1>1, <1>4, <3>1
        <3> QED
            BY <2>1, <3>2 DEF EditedIn
    <2>2. AgreeBelow(fat, fat', w, offset)
        BY <2>1 DEF AgreeBelow
    <2> QED
        BY <1>1, <1>3, <2>2, WalksAgree
<1>10. h[offset] = cur
    BY <1>2, <1>3, <1>9
<1>11. ASSUME NEW k \in 0 .. offset
       PROVE  h[k] \in Clusters /\ data'[h[k]] = NewBlock(k + 1)
    <2>1. CASE k = offset
        BY <1>10, <2>1 DEF Seen
    <2>2. CASE k # offset
        <3>1. k \in 0 .. offset - 1 /\ k \in 0 .. NEntries
            BY <1>3, <2>2
        <3>2. w[k] \in Clusters /\ data[w[k]] = NewBlock(k + 1) /\ h[k] = w[k]
            BY <1>2, <1>9, <3>1
        <3>3. w[k] # cur
            BY <1>1, <1>2, <1>3, <2>2, <3>1, <3>2, ChainsMeetNowhere
        <3> QED
            BY <3>2, <3>3 DEF Seen
    <2> QED
        BY <2>1, <2>2
<1>12. WrittenTo(s, m)'
    <2>1. m <= NEntries /\ m - 1 = offset
        BY <1>3
    <2>2. \A k \in 0 .. offset : h[k] \in Clusters /\ data'[h[k]] = [of |-> payload', n |-> k + 1]
        BY <1>11 DEF NewBlock
    <2> QED
        BY <2>1, <2>2 DEF WrittenTo, NewBlock, h
<1> QED
    BY <1>1, <1>3, <1>7, <1>8, <1>10, <1>12

\* What a block's step finds.
LEMMA FileBlockFacts ==
    ASSUME Known, Known', FilesInv, pc = "write", what = "file", WriteBlock
    PROVE  /\ Seen /\ Seen' /\ offset \in Nat /\ left \in Nat /\ left >= 1
           /\ data' = [data EXCEPT ![cur] = NewBlock(offset + 1)] /\ dir' = dir
           /\ \E s \in Slots : FileView(s)
BY KnownSeen, KnownSeenNext DEF Known, TypeInv, TypeOK, Writing, FilesInv, WriteBlock, NewBlock

\* A block with more to follow in the chain.
LEMMA NextBlockFiles ==
    ASSUME Ordinary, Known, Known', FilesInv, what = "file", WriteNextBlock, UNCHANGED history
    PROVE  FilesInv'
<1>1. /\ pc = "write" /\ cur \in Clusters /\ left > 1 /\ WriteBlock
      /\ cur' = fat[cur] /\ left' = left - 1 /\ offset' = offset + 1
      /\ UNCHANGED <<fat, diskFat, pc, dirents, what, payload>>
    BY DEF WriteNextBlock
<1>2. /\ Seen /\ Seen' /\ offset \in Nat /\ left \in Nat /\ left >= 1
      /\ data' = [data EXCEPT ![cur] = NewBlock(offset + 1)] /\ dir' = dir
    BY <1>1, FileBlockFacts
<1>3. PICK s \in Slots : FileView(s)
    BY <1>1, FileBlockFacts
<1>4. Touches({cur}, fat, cur) /\ EditedIn({cur}, fat, fat', data, data')
    BY <1>1, <1>2 DEF Touches, EditedIn, Seen
<1> PICK m : m = offset + 1
    OBVIOUS
<1>5. /\ Kept(dirents[s].name)'
      /\ Patched(Contents(diskFat, dir[s], data), before[dirents[s].name], payload, dirents[s].size)'
      /\ WrittenTo(s, m)'
      /\ Walk(fat', dirents[s].start)[offset] = cur /\ offset \in 0 .. NEntries - 1
    BY <1>1, <1>2, <1>3, <1>4, FileBlock
<1>6. Walk(fat', dirents[s].start)[offset + 1] = fat[cur]
    BY <1>1, <1>2, <1>5, WalkSteps DEF Seen, View
<1>7. FileView(s)'
    BY <1>1, <1>2, <1>3, <1>5, <1>6 DEF FileView, ChangedAt, history, WrittenTo, Grows
<1> QED
    BY <1>1, <1>2, <1>7, FileGoesOn

\* The cluster after the one that the block is in.
LEMMA WalkAfter ==
    ASSUME Seen', NEW s \in Slots
    PROVE  \A k \in 0 .. NEntries - 1 : Walk(fat', dirents'[s].start)[k] \in Clusters =>
               Walk(fat', dirents'[s].start)[k + 1] = fat'[Walk(fat', dirents'[s].start)[k]]
<1>1. fat' \in FAT /\ dirents' \in Directory
    BY DEF Seen, View
<1> DEFINE w == Walk(fat', dirents'[s].start)
<1>2. \A j \in 0 .. NEntries - 1 : w[j + 1] = IF w[j] \in Clusters THEN fat'[w[j]] ELSE LAST
    BY <1>1, WalkSteps
<1> QED
    BY <1>2

\* The block that uses up the buffer and ends the chain.
LEMMA LastBlockFiles ==
    ASSUME Ordinary, Known, Known', FilesInv, what = "file", WriteLastBlock, UNCHANGED history
    PROVE  FilesInv'
<1>1. /\ pc = "write" /\ cur \in Clusters /\ left = 1 /\ WriteBlock
      /\ fat' = [fat EXCEPT ![cur] = LAST] /\ pc' \in {"sync", "tail"}
      /\ UNCHANGED <<diskFat, dirents, what, payload>>
    BY DEF WriteLastBlock
<1>2. /\ Seen /\ Seen' /\ offset \in Nat /\ left \in Nat /\ left >= 1
      /\ data' = [data EXCEPT ![cur] = NewBlock(offset + 1)] /\ dir' = dir
    BY <1>1, FileBlockFacts
<1>3. PICK s \in Slots : FileView(s)
    BY <1>1, FileBlockFacts
<1>4. Touches({cur}, fat, cur) /\ EditedIn({cur}, fat, fat', data, data')
    BY <1>1, <1>2 DEF Touches, EditedIn, Seen, View, FAT
<1> PICK m : m = offset + 1
    OBVIOUS
<1>5. /\ Kept(dirents[s].name)'
      /\ Patched(Contents(diskFat, dir[s], data), before[dirents[s].name], payload, dirents[s].size)'
      /\ WrittenTo(s, m)'
      /\ Walk(fat', dirents[s].start)[offset] = cur /\ offset \in 0 .. NEntries - 1
    BY <1>1, <1>2, <1>3, <1>4, FileBlock
<1>6. Walk(fat', dirents[s].start)[m] = LAST
    <2>1. fat'[cur] = LAST
        BY <1>1, <1>2, ClusterFacts DEF Seen, View, FAT
    <2> QED
        BY <1>1, <1>2, <1>5, <2>1, WalkAfter
<1>7. m = dirents[s].size
    BY <1>1, <1>3 DEF FileView
<1>8. (WrittenTo(s, dirents[s].size) /\ Walk(fat, dirents[s].start)[dirents[s].size] \notin Clusters)'
    BY <1>1, <1>5, <1>6, <1>7, ClusterFacts DEF WrittenTo
<1>9. FileView(s)'
    BY <1>1, <1>2, <1>3, <1>5, <1>8 DEF FileView, ChangedAt, history
<1> QED
    BY <1>1, <1>2, <1>9, FileGoesOn

\* A block after which the chain is extended, or the card is full.
LEMMA ExtendFiles ==
    ASSUME Ordinary, Known, Known', FilesInv, what = "file", WriteAndExtend, UNCHANGED history
    PROVE  FilesInv'
<1>1. /\ pc = "write" /\ cur \in Clusters /\ left > 1 /\ WriteBlock /\ fat[cur] = LAST
      /\ diskFat' = diskFat
    BY DEF WriteAndExtend, EndsChain
<1>2. /\ Seen /\ Seen' /\ offset \in Nat /\ left \in Nat /\ left >= 1
      /\ data' = [data EXCEPT ![cur] = NewBlock(offset + 1)] /\ dir' = dir
    BY <1>1, FileBlockFacts
<1>3. PICK s \in Slots : FileView(s)
    BY <1>1, FileBlockFacts
<1> PICK m : m = offset + 1
    OBVIOUS
<1>4. ASSUME NEW c \in FreeFrom(cur), fat' = [fat EXCEPT ![cur] = c, ![c] = LAST],
             cur' = c, left' = left - 1, offset' = offset + 1,
             UNCHANGED <<pc, dirents, what, payload>>
      PROVE  FilesInv'
    <2>1. c \in Clusters /\ fat[c] = FREE /\ c # cur /\ fat \in FAT /\ FREE # LAST
        BY <1>1, <1>2, <1>4, ClusterFacts DEF FreeFrom, Clusters, Seen, View
    <2>2. \A p \in 0 .. NEntries - 1 : fat'[p] = IF p = c THEN LAST ELSE IF p = cur THEN c ELSE fat[p]
        BY <1>1, <1>4, <2>1, ClusterFacts DEF FAT
    <2>3. Touches({cur, c}, fat, cur)
        BY <2>1 DEF Touches
    <2>4. EditedIn({cur, c}, fat, fat', data, data')
        BY <1>2, <2>2, ClusterFacts DEF EditedIn, Seen
    <2>5. /\ Kept(dirents[s].name)'
          /\ Patched(Contents(diskFat, dir[s], data), before[dirents[s].name], payload, dirents[s].size)'
          /\ WrittenTo(s, m)'
          /\ Walk(fat', dirents[s].start)[offset] = cur /\ offset \in 0 .. NEntries - 1
        BY <1>1, <1>2, <1>3, <1>4, <2>3, <2>4, FileBlock
    <2>6. fat'[cur] = c
        BY <1>1, <2>1, <2>2, ClusterFacts
    <2>7. Walk(fat', dirents[s].start)[m] = c
        BY <1>1, <1>2, <1>4, <2>5, <2>6, WalkAfter
    <2>8. Grows(diskFat', fat')
        <3>1. Grows(diskFat, fat)
            BY <1>1, <1>3 DEF FileView
        <3>2. \A p \in Clusters : diskFat[p] \in Clusters => p # cur /\ p # c
            BY <1>1, <2>1, <3>1, ClusterFacts DEF Grows
        <3> QED
            BY <1>1, <2>2, <3>1, <3>2, ClusterFacts DEF Grows
    <2>9. (WrittenTo(s, offset) /\ Walk(fat, dirents[s].start)[offset] = cur)'
        BY <1>4, <2>5, <2>7 DEF WrittenTo
    <2>10. (offset + left = dirents[s].size)'
        BY <1>1, <1>2, <1>3, <1>4 DEF FileView
    <2>11. FileView(s)'
        BY <1>1, <1>2, <1>3, <1>4, <2>5, <2>8, <2>9, <2>10
        DEF FileView, ChangedAt, history
    <2> QED
        BY <1>1, <1>2, <1>4, <2>11, FileGoesOn
<1>5. ASSUME Stop("panic"), UNCHANGED fat
      PROVE  FilesInv'
    <2>1. pc' = "panic" /\ what' = "dir"
        BY <1>5 DEF Stop, Enter
    <2> DEFINE e == dirents[s]
    <2>2. /\ e.name \in Names /\ dir[s].name = e.name /\ e.size \in Nat
          /\ pending = WriteOf(e.name, e.size, payload)
        BY <1>2, <1>3 DEF FileView, Seen, View, Directory, Dirent
    <2>3. /\ \A n \in Names \ {e.name} : ListingOf(diskFat, dir, data')[n] = before[n]
          /\ Patched(Contents(diskFat, dir[s], data'), before[e.name], payload, e.size)
        BY <1>1, <1>2, <1>3, CardBlock
    <2>4. /\ View(diskFat, dir) /\ Distinct(dir) /\ data' \in [Clusters -> Block \union {NoBlock}]
          /\ pending # NoCall /\ OnNames(before)
        BY <1>1, <1>2 DEF Seen, FilesInv, OnNames
    <2> HIDE DEF e
    <2>5. Blend(ListingOf(diskFat, dir, data'), before, pending)
        BY <2>2, <2>3, <2>4, FoundMixed
    <2>6. MayFind(Listing)'
        <3>1. ListingOf(diskFat', dir', data') = ListingOf(diskFat, dir, data')
            BY <1>1, <1>2
        <3>2. before' = before /\ pending' = pending
            BY DEF history
        <3>3. Blend(ListingOf(diskFat', dir', data'), before', pending')
            BY <2>5, <3>1, <3>2
        <3> QED
            BY <3>3 DEF MayFind, Listing
    <2> QED
        BY <2>1, <2>4, <2>6 DEF FilesInv, DirPhase, OnNames, history
<1> QED
    BY <1>4, <1>5 DEF WriteAndExtend

\* Freeing what the written file's chain has left behind.
LEMMA TailFiles ==
    ASSUME Ordinary, Known, Known', FilesInv, TailStep, UNCHANGED history
    PROVE  FilesInv'
<1>1. /\ pc = "tail" /\ fat' = [fat EXCEPT ![cur] = FREE] /\ pc' \in {"tail", "sync"}
      /\ UNCHANGED card /\ UNCHANGED <<dirents, what, payload, sec>>
    BY DEF TailStep
<1>2. Seen /\ Seen' /\ cur \in Clusters /\ Unreferenced(fat, dirents, cur) /\ what = "file"
    BY <1>1, KnownSeen, KnownSeenNext DEF Known, SoundInv, AtCluster, Freeing, InUse
<1>3. PICK s \in Slots : FileView(s)
    BY <1>2 DEF FilesInv
<1>4. /\ View(fat, dirents) /\ View(fat', dirents) /\ Distinct(dirents) /\ BareNames = {}
      /\ fat \in FAT /\ fat' \in FAT /\ dirents \in Directory
    BY <1>1, <1>2 DEF Seen, View, Ordinary
<1>5. EditedIn({cur}, fat, fat', data, data)
    BY <1>1, <1>4 DEF EditedIn
<1>6. \A t \in Slots : Off(fat, dirents, t, {cur})
    BY <1>2, <1>4, UnreferencedOff
<1>7. ListingOf(fat', dirents, data) = ListingOf(fat, dirents, data)
    BY <1>4, <1>5, <1>6, AllUntouched
<1> DEFINE w == Walk(fat, dirents[s].start)
           h == Walk(fat', dirents[s].start)
<1>8. \A k \in 0 .. NEntries : h[k] = w[k]
    <2>1. NEntries \in 0 .. NEntries /\ NEntries \in Nat
        BY ClusterFacts
    <2>2. AgreeBelow(fat, fat', w, NEntries)
        BY <1>5, <1>6, <2>1 DEF EditedIn, AgreeBelow, Off
    <2> QED
        BY <1>4, <2>1, <2>2, WalksAgree
<1>9. Kept(dirents[s].name)'
    BY <1>1, <1>3, <1>7 DEF FileView, Kept, Listing, card, history
<1>10. (WrittenTo(s, dirents[s].size) /\ Walk(fat, dirents[s].start)[dirents[s].size] \notin Clusters)'
    <2>1. /\ dirents[s].size <= NEntries /\ w[dirents[s].size] \notin Clusters
          /\ \A k \in 0 .. dirents[s].size - 1 : w[k] \in Clusters /\ data[w[k]] = NewBlock(k + 1)
        BY <1>1, <1>3 DEF FileView, WrittenTo
    <2>2. dirents[s].size \in Nat /\ NEntries \in Nat
        BY <1>4, ClusterFacts DEF Directory, Dirent
    <2>3. \A k \in 0 .. dirents[s].size : k \in 0 .. NEntries
        BY <2>1, <2>2
    <2> HIDE DEF w, h
    <2>4. \A k \in 0 .. dirents[s].size : h[k] = w[k]
        BY <1>8, <2>3
    <2>5. \A k \in 0 .. dirents[s].size - 1 : h[k] \in Clusters /\ data[h[k]] = NewBlock(k + 1)
        BY <2>1, <2>2, <2>4
    <2>6. h[dirents[s].size] \notin Clusters
        BY <2>1, <2>2, <2>4
    <2> QED
        BY <1>1, <2>1, <2>5, <2>6 DEF WrittenTo, NewBlock, h, card
<1>11. FileView(s)'
    BY <1>1, <1>3, <1>9, <1>10 DEF FileView, ChangedAt, history, card
<1> QED
    BY <1>1, <1>2, <1>11, FileGoesOn

\* What a written file contains when its FAT, but not its dirent, is on the card.
LEMMA OldDirent ==
    ASSUME Seen, what = "file", pc # "write", NEW s \in Slots, FileView(s), View(fat, dir)
    PROVE  Patched(Contents(fat, dir[s], data), before[dirents[s].name], payload, dirents[s].size)
<1> DEFINE e == dirents[s]
           c == Contents(fat, dir[s], data)
           w == Walk(fat, e.start)
<1>1. /\ e.size \in Nat /\ e.size <= NEntries /\ w[e.size] \notin Clusters
      /\ \A k \in 0 .. e.size - 1 : w[k] \in Clusters /\ data[w[k]] = NewBlock(k + 1)
      /\ before[e.name] \in [1 .. Len(before[e.name]) -> Block \union {NoBlock}]
      /\ Len(before[e.name]) \in Nat
    <2>1. WrittenTo(s, e.size) /\ w[e.size] \notin Clusters /\ Blocks(before[e.name])
        BY DEF FileView
    <2>2. e.size \in Nat
        BY DEF Seen, View, Directory, Dirent
    <2> QED
        BY <2>1, <2>2 DEF WrittenTo, Blocks
<1>2. dir[s].start \in {0, e.start} /\ fat \in FAT /\ dirents \in Directory
    BY DEF Seen, View
<1>3. CASE dir[s].start = 0
    <2>1. c = <<>>
        BY <1>3, ContentsEmpty
    <2>2. Len(c) = 0
        BY <2>1
    <2> HIDE DEF c
    <2> QED
        BY <1>1, <2>2 DEF Patched, Blocks, c
<1>4. CASE dir[s].start = e.start
    <2>1. PICK n : Spans(fat, dir[s], n)
        BY SpanExists
    <2>2. w = Walk(fat, dir[s].start)
        BY <1>4
    <2>8. c = [i \in 1 .. n |-> data[Walk(fat, dir[s].start)[i - 1]]]
        BY <2>1, ContentsAre
    <2>3. n \in Nat /\ n <= NEntries /\ (\A k \in 0 .. n - 1 : w[k] \in Clusters) /\ NEntries \in Nat
        BY <2>1, <1>4, ClusterFacts DEF Spans, View, Directory, Dirent
    <2> HIDE DEF w
    <2>4. c = [i \in 1 .. n |-> data[w[i - 1]]]
        BY <2>2, <2>8
    <2>5. n <= e.size
        <3> SUFFICES ASSUME n > e.size PROVE FALSE
            BY <1>1, <2>3
        <3>1. e.size \in 0 .. n - 1
            BY <1>1, <2>3
        <3> QED
            BY <1>1, <2>3, <3>1
    <2> HIDE DEF c
    <2>6. Len(c) = n
        BY <2>3, <2>4
    <2>7. ASSUME NEW i \in 1 .. n
          PROVE  i <= e.size /\ c[i] = [of |-> payload, n |-> i]
        <3>1. i - 1 \in 0 .. e.size - 1 /\ (i - 1) + 1 = i /\ i <= e.size
            BY <1>1, <2>3, <2>5
        <3>2. data[w[i - 1]] = NewBlock(i)
            BY <1>1, <3>1
        <3> QED
            BY <2>4, <3>1, <3>2 DEF NewBlock
    <2> QED
        BY <1>1, <2>6, <2>7 DEF Patched, Blocks, c
<1> QED
    BY <1>2, <1>3, <1>4

\* The file's blocks and the FAT are on the card: the directory follows.
LEMMA SyncedFileFiles ==
    ASSUME Ordinary, Known, Known', FilesInv, SyncStep, ~(sec + 1 < NSectors), what = "file",
           UNCHANGED history
    PROVE  FilesInv'
<1>1. /\ pc = "sync" /\ diskFat' = fat /\ pc' = "write" /\ what' = "dir"
      /\ UNCHANGED <<fat, dir, data, dirents>>
    BY WholeFat DEF SyncStep, WriteDirectory, Enter
<1>2. Seen /\ Seen' /\ BareNames = {}
    BY KnownSeen, KnownSeenNext DEF Ordinary
<1>3. PICK s \in Slots : FileView(s)
    BY DEF FilesInv
<1> DEFINE e == dirents[s]
<1>4. /\ View(fat, dirents) /\ View(fat, dir) /\ Distinct(dir) /\ Distinct(dirents)
      /\ data \in [Clusters -> Block \union {NoBlock}]
    BY <1>1, <1>2 DEF Seen
<1>5. /\ e.name \in Names /\ dir[s].name = e.name /\ e.size \in Nat /\ ChangedAt(dir, dirents, s)
      /\ pending = WriteOf(e.name, e.size, payload)
      /\ \A n \in Names \ {e.name} : ListingOf(fat, dirents, data)[n] = before[n]
      /\ pending # NoCall /\ OnNames(before)
    BY <1>1, <1>3, <1>4 DEF FileView, Kept, View, Directory, Dirent, FilesInv, OnNames
<1>6. ListingOf(fat, dirents, data) = Expected
    <2>1. Contents(fat, dirents[s], data) = [i \in 1 .. e.size |-> [of |-> payload, n |-> i]]
        <3> DEFINE w == Walk(fat, e.start)
        <3>1. /\ e.size <= NEntries /\ w[e.size] \notin Clusters
              /\ \A k \in 0 .. e.size - 1 : w[k] \in Clusters /\ data[w[k]] = NewBlock(k + 1)
            BY <1>1, <1>3 DEF FileView, WrittenTo
        <3>2. Spans(fat, dirents[s], e.size)
            BY <1>5, <3>1 DEF Spans
        <3>3. Contents(fat, dirents[s], data) = [i \in 1 .. e.size |-> data[w[i - 1]]]
            BY <1>4, <3>2, ContentsAre
        <3>4. \A i \in 1 .. e.size : i - 1 \in 0 .. e.size - 1 /\ (i - 1) + 1 = i
            BY <1>5
        <3>5. \A i \in 1 .. e.size : data[w[i - 1]] = [of |-> payload, n |-> i]
            BY <3>1, <3>4 DEF NewBlock
        <3> QED
            BY <3>3, <3>5
    <2>2. ListingOf(fat, dirents, data)[dirents[s].name] = Contents(fat, dirents[s], data)
        BY <1>2, <1>4, <1>5, ListingAt
    <2>3. ASSUME NEW n \in Names
          PROVE  ListingOf(fat, dirents, data)[n] = Expected[n]
        <3>1. CASE n = e.name
            BY <1>5, <2>1, <2>2, <3>1 DEF Expected, WriteOf
        <3>2. CASE n # e.name
            BY <1>5, <3>2 DEF Expected, WriteOf
        <3> QED
            BY <3>1, <3>2
    <2>4. Expected = [n \in Names |-> Expected[n]]
        BY DEF Expected
    <2> QED
        BY <2>3, <2>4, ListingsEqual
<1>7. ASSUME NEW n \in Names \ {e.name}
      PROVE  ListingOf(fat, dir, data)[n] = before[n]
    <2>1. n \in Names /\ dir[s].name # n /\ dirents[s].name # n
        BY <1>5
    <2>2. BareNames = {} /\ Distinct(dir) /\ Distinct(dirents) /\ ChangedAt(dir, dirents, s)
        BY <1>2, <1>4, <1>5
    <2>3. ListingOf(fat, dirents, data)[n] =
             IF dirents[s].name = n THEN Contents(fat, dirents[s], data)
             ELSE IF dir[s].name = n THEN Absent
             ELSE ListingOf(fat, dir, data)[n]
        BY <2>1, <2>2, ListingChange
    <2> QED
        BY <1>5, <2>1, <2>3
<1>8. Patched(Contents(fat, dir[s], data), before[e.name], payload, e.size)
    BY <1>1, <1>2, <1>3, <1>4, OldDirent
<1> HIDE DEF e
<1>9. Blend(ListingOf(fat, dir, data), before, pending)
    BY <1>4, <1>5, <1>7, <1>8, FoundMixed
<1>10. Expected' = Expected /\ before' = before /\ pending' = pending
    BY DEF history, Expected
<1>11. MayFind(Listing)'
    <2>1. Blend(ListingOf(diskFat', dir', data'), before', pending')
        BY <1>1, <1>9, <1>10
    <2> QED
        BY <2>1 DEF MayFind, Listing
<1>12. /\ ListingOf(fat, dirents, data)' = Expected'
       /\ ListingOf(diskFat, dirents, data)' = Expected'
    BY <1>1, <1>6, <1>10
<1> QED
    BY <1>1, <1>5, <1>10, <1>11, <1>12 DEF FilesInv, DirPhase, OnNames

\* The FAT on its way to the card, before its last sector and with it.
LEMMA SyncFileFiles ==
    ASSUME Ordinary, Known, Known', FilesInv, SyncStep, what = "file", UNCHANGED history
    PROVE  FilesInv'
<1>1. CASE ~(sec + 1 < NSectors)
    BY <1>1, SyncedFileFiles
<1>2. CASE sec + 1 < NSectors
    <2>1. /\ pc = "sync" /\ pc' = "sync" /\ sec' # 0
          /\ UNCHANGED <<fat, dir, data, dirents, what, left, offset, payload>>
        BY <1>2, PartOfFat
    <2>2. PICK s \in Slots : FileView(s)
        BY DEF FilesInv
    <2>3. Kept(dirents[s].name)' /\ (WrittenTo(s, dirents[s].size))'
        BY <2>1, <2>2 DEF FileView, Kept, WrittenTo, NewBlock, history
    <2>4. FileView(s)'
        BY <2>1, <2>2, <2>3 DEF FileView, ChangedAt, history
    <2> QED
        BY <2>1, <2>4, KnownSeenNext, FileGoesOn
<1> QED
    BY <1>1, <1>2

\* Every step of a call that does not return.
LEMMA StepFiles ==
    ASSUME Ordinary, Known, Known', FilesInv, Step, pc' # "idle", UNCHANGED history
    PROVE  FilesInv'
<1>1. what \in {"file", "dir"}
    BY DEF Known, TypeInv, TypeOK
<1>2. CASE FreeStep
    BY <1>2, FreeStepFiles
<1>3. CASE CutStep
    BY <1>3, CutStepFiles
<1>4. CASE (WriteLastBlock \/ WriteNextBlock \/ WriteAndExtend) /\ what = "dir"
    BY <1>4, WriteDirFiles
<1>5. CASE (WriteLastBlock \/ WriteNextBlock \/ WriteAndExtend) /\ what = "file"
    BY <1>5, LastBlockFiles, NextBlockFiles, ExtendFiles
<1>6. CASE TailStep
    BY <1>6, TailFiles
<1>7. CASE SyncStep
    BY <1>1, <1>7, SyncFileFiles, SyncDirFiles
<1>8. CASE LbaAssertFails
    BY <1>8, PanicFiles, KnownSeen DEF LbaAssertFails, Stop, Enter, Seen
<1> QED
    BY <1>1, <1>2, <1>3, <1>4, <1>5, <1>6, <1>7, <1>8 DEF Step

-----------------------------------------------------------------------------
(***************************************************************************)
(* The invariant, and the refinement step by step.                         *)
(***************************************************************************)
LEMMA KnownInit == Init => Known
<1> SUFFICES ASSUME Init PROVE Known
    OBVIOUS
<1>1. NamesInv
    BY NameAssumption DEF Init, NamesInv, Distinct, OneChange, FreeDirent, Names
<1> QED
    BY <1>1, TypeInit, DirInit, SoundInit DEF Known

\* Every step keeps the earlier invariants, for these callers.
LEMMA KnownNext ==
    ASSUME Ordinary, Known, [Next]_vars
    PROVE  Known'
<1>1. Careful /\ "rename_over" \notin Calls
    BY DEF Ordinary, Careful
<1>2. TypeInv /\ TypeOK /\ DirInv /\ SoundInv /\ NamesInv
    BY DEF Known, TypeInv
<1>3. CASE UNCHANGED vars
    BY <1>2, <1>3 DEF Known, vars, TypeInv, TypeOK, Writing, DirInv, DirPosition, AvoidsDir,
                      DirChainKept, StartsAvoidDir, SoundInv, Views, FileFirst, AtCluster,
                      Written, Synced, Reserved, Freeing, NamesInv, Distinct, OneChange
<1>4. CASE Begin
    BY <1>1, <1>2, <1>4, BeginType, BeginDirInv, BeginSound, BeginNames DEF Known
<1>5. CASE Step
    BY <1>1, <1>2, <1>5, StepType, StepDirInv, StepSound, StepNames DEF Known
<1>6. CASE PowerLoss \/ Restart
    <2>1. Boot
        BY <1>6 DEF PowerLoss, Restart
    <2> QED
        BY <1>1, <1>2, <1>6, <2>1, BootType, BootDirInv, BootSound, BootNames DEF Known
<1> QED
    BY <1>3, <1>4, <1>5, <1>6 DEF Next

\* The history only watches.
LEMMA FilesNextIsNext == ASSUME [FilesNext]_<<vars, history>> PROVE [Next]_vars
BY DEF FilesNext, Next, Begin

\* An empty card and no call.
LEMMA FilesInvInit == FilesInit => FilesInv
BY DEF FilesInit, FilesInv, DirPhase, Init

\* Every step of the driver keeps the invariant.
LEMMA FilesInvNext ==
    ASSUME Ordinary, Known, FilesInv, [FilesNext]_<<vars, history>>
    PROVE  Known' /\ FilesInv'
<1>1. Known'
    BY FilesNextIsNext, KnownNext
<1>2. Seen /\ Seen'
    BY <1>1, KnownSeen, KnownSeenNext
<1>3. CASE UNCHANGED <<vars, history>>
    <2>1. /\ UNCHANGED <<fat, diskFat, dir, data, pc, dirents, what, cur, left, offset, payload, sec>>
          /\ UNCHANGED <<before, pending>>
        BY <1>3 DEF vars, history
    <2>2. Listing' = Listing /\ Expected' = Expected
        BY <2>1 DEF Listing, Expected
    <2>3. MayFind(Listing)' <=> MayFind(Listing)
        BY <2>1, <2>2 DEF MayFind, Blend
    <2>4. DirPhase' <=> DirPhase
        BY <2>1, <2>2 DEF DirPhase, CuttingAt
    <2>5. ASSUME NEW s \in Slots
          PROVE  FileView(s)' <=> FileView(s)
        <3>1. Kept(dirents[s].name)' <=> Kept(dirents[s].name)
            BY <2>1, <2>2 DEF Kept
        <3>2. /\ WrittenTo(s, offset)' <=> WrittenTo(s, offset)
              /\ WrittenTo(s, dirents[s].size)' <=> WrittenTo(s, dirents[s].size)
            BY <2>1 DEF WrittenTo, NewBlock
        <3> QED
            BY <2>1, <3>1, <3>2 DEF FileView
    <2> QED
        BY <1>1, <2>1, <2>3, <2>4, <2>5 DEF FilesInv
<1>4. ASSUME NEW name \in Names, Create(name), Announce("create", [n \in {name} |-> <<>>])
      PROVE  FilesInv'
    BY <1>2, <1>4, CreateFiles
<1>5. ASSUME NEW name \in Names, Delete(name), Announce("delete", [n \in {name} |-> Absent])
      PROVE  FilesInv'
    BY <1>2, <1>5, DeleteFiles
<1>6. ASSUME NEW oldname \in Names, NEW newname \in Names, Rename(oldname, newname),
             Announce("rename", [n \in {oldname, newname} |->
                                     IF n = newname THEN Listing[oldname] ELSE Absent])
      PROVE  FilesInv'
    BY <1>2, <1>6, RenameFiles
<1>7. ASSUME NEW name \in Names, NEW length \in 0 .. MaxLength, Truncate(name, length),
             Announce("truncate", [n \in {name} |-> Prefix(Listing[name], length)])
      PROVE  FilesInv'
    BY <1>2, <1>7, TruncateFiles
<1>8. ASSUME NEW name \in Names, NEW length \in 0 .. MaxLength, NEW bytes \in Payloads,
             Write(name, length, bytes),
             Announce("write", [n \in {name} |-> [i \in 1 .. length |-> [of |-> bytes, n |-> i]]])
      PROVE  FilesInv'
    BY <1>2, <1>8, WriteFiles
<1>9. CASE Step /\ IF pc' = "idle" THEN Settle("returned") ELSE UNCHANGED history
    <2>1. CASE pc' = "idle"
        <3>1. what' = "dir"
            BY <1>2, <2>1 DEF Seen
        <3>2. Settle(outcome')
            BY <1>9, <2>1 DEF Settle
        <3> QED
            BY <1>1, <2>1, <3>1, <3>2, IdleFiles
    <2>2. CASE pc' # "idle"
        BY <1>1, <1>9, <2>2, StepFiles
    <2> QED
        BY <2>1, <2>2
<1>10. CASE (PowerLoss \/ Restart) /\ Settle("interrupted")
    <2>1. pc' = "idle" /\ what' = "dir" /\ Settle(outcome')
        BY <1>10 DEF PowerLoss, Restart, Boot, Stop, Enter, Settle
    <2> QED
        BY <1>1, <2>1, IdleFiles
<1> QED
    BY <1>1, <1>3, <1>4, <1>5, <1>6, <1>7, <1>8, <1>9, <1>10 DEF FilesNext

\* The files that the store sees.
VisibleFiles == IF pc = "idle" THEN Listing ELSE before

StoreStep == Store!Next \/ UNCHANGED <<VisibleFiles, pending, outcome>>

\* A formatted card holds no files.
LEMMA FilesInitIsStoreInit == FilesInit => Store!Init
<1> SUFFICES ASSUME FilesInit PROVE Store!Init
    OBVIOUS
<1>1. pc = "idle" /\ dir = [s \in Slots |-> FreeDirent] /\ pending = NoCall /\ outcome = "returned"
    BY DEF FilesInit, Init
<1>2. \A n \in Names, s \in Slots : dir[s].name # n
    BY <1>1, NameAssumption DEF FreeDirent
<1>3. \A n \in Names : Listing[n] = Absent
    BY <1>2, ListingNone DEF Listing
<1>4. Listing = [n \in Names |-> Absent]
    <2>1. Listing = [n \in Names |-> Listing[n]]
        BY DEF Listing, ListingOf
    <2> QED
        BY <1>3, <2>1
<1> QED
    BY <1>1, <1>4 DEF Store!Init, Store!NoCall, NoCall

\* What is listed under a name that a look-up finds, or does not.
LEMMA LookedUp ==
    ASSUME Ordinary, Seen, pc = "idle", NEW name \in Names
    PROVE  /\ (\E s \in Slots : dir[s].name = name) => Listing[name] # Absent
           /\ (\A s \in Slots : dir[s].name # name) => Listing[name] = Absent
<1>1. ASSUME NEW s \in Slots, dir[s].name = name
      PROVE  Listing[name] # Absent
    <2>1. Distinct(dir) /\ BareNames = {} /\ View(diskFat, dir)
          /\ data \in [Clusters -> Block \union {NoBlock}]
        BY DEF Seen, Ordinary
    <2>2. Listing[name] = Contents(diskFat, dir[s], data)
        BY <1>1, <2>1, ListingAt DEF Listing
    <2> QED
        BY <2>1, <2>2, ContentsType
<1>2. (\A s \in Slots : dir[s].name # name) => Listing[name] = Absent
    BY ListingNone DEF Listing
<1> QED
    BY <1>1, <1>2

\* The calls begin as the store's do.
LEMMA AnnouncedIsBegin ==
    ASSUME FilesInv, pc = "idle", pc' # "idle", NEW kind, NEW new, Announce(kind, new)
    PROVE  Store!Begin(kind, new) /\ VisibleFiles = Listing
BY DEF FilesInv, Announce, Store!Begin, Store!NoCall, NoCall, VisibleFiles

\* The driver's look-ups let a call begin where the store does.
LEMMA BeginIsStoreStep ==
    ASSUME Ordinary, Seen, FilesInv,
           \/ \E name \in Names :
                 Create(name) /\ Announce("create", [n \in {name} |-> <<>>])
           \/ \E name \in Names :
                 Delete(name) /\ Announce("delete", [n \in {name} |-> Absent])
           \/ \E oldname, newname \in Names :
                 /\ Rename(oldname, newname)
                 /\ Announce("rename", [n \in {oldname, newname} |->
                                           IF n = newname THEN Listing[oldname] ELSE Absent])
           \/ \E name \in Names, length \in 0 .. MaxLength :
                 /\ Truncate(name, length)
                 /\ Announce("truncate", [n \in {name} |-> Prefix(Listing[name], length)])
           \/ \E name \in Names, length \in 0 .. MaxLength, bytes \in Payloads :
                 /\ Write(name, length, bytes)
                 /\ Announce("write", [n \in {name} |->
                                          [i \in 1 .. length |-> [of |-> bytes, n |-> i]]])
    PROVE  Store!Next
<1>1. ASSUME NEW name \in Names, Create(name), Announce("create", [n \in {name} |-> <<>>])
      PROVE  Store!Next
    <2>1. pc = "idle" /\ pc' # "idle" /\ \A s \in Slots : dir[s].name # name
        BY <1>1 DEF Create, Stop, WriteDirectory, Enter, Matches, Ordinary, Names
    <2>2. Listing[name] = Absent
        BY <2>1, LookedUp
    <2>3. Store!Begin("create", [n \in {name} |-> <<>>]) /\ VisibleFiles = Listing
        BY <1>1, <2>1, AnnouncedIsBegin
    <2>4. Store!Create(name)
        BY <2>2, <2>3 DEF Store!Create, VisibleFiles
    <2> QED
        BY <2>4 DEF Store!Next
<1>2. ASSUME NEW name \in Names, Delete(name), Announce("delete", [n \in {name} |-> Absent])
      PROVE  Store!Next
    <2>1. pc = "idle" /\ pc' # "idle" /\ \E s \in Slots : dir[s].name = name
        BY <1>2 DEF Delete, WriteDirectory, Enter, Matches
    <2>2. Listing[name] # Absent
        BY <2>1, LookedUp
    <2>3. Store!Begin("delete", [n \in {name} |-> Absent]) /\ VisibleFiles = Listing
        BY <1>2, <2>1, AnnouncedIsBegin
    <2>4. Store!Delete(name)
        BY <2>2, <2>3 DEF Store!Delete, VisibleFiles
    <2> QED
        BY <2>4 DEF Store!Next
<1>3. ASSUME NEW oldname \in Names, NEW newname \in Names, Rename(oldname, newname),
             Announce("rename", [n \in {oldname, newname} |->
                                     IF n = newname THEN Listing[oldname] ELSE Absent])
      PROVE  Store!Next
    <2>1. /\ pc = "idle" /\ pc' # "idle" /\ \E s \in Slots : dir[s].name = oldname
          /\ \A s \in Slots : dir[s].name # newname
        BY <1>3 DEF Rename, WriteDirectory, Enter, Matches, Ordinary
    <2>2. Listing[oldname] # Absent /\ Listing[newname] = Absent
        BY <2>1, LookedUp
    <2>3. /\ Store!Begin("rename", [n \in {oldname, newname} |->
                                        IF n = newname THEN Listing[oldname] ELSE Absent])
          /\ VisibleFiles = Listing
        BY <1>3, <2>1, AnnouncedIsBegin
    <2>4. Store!Rename(oldname, newname)
        BY <2>2, <2>3 DEF Store!Rename, VisibleFiles
    <2> QED
        BY <2>4 DEF Store!Next
<1>4. ASSUME NEW name \in Names, NEW length \in 0 .. MaxLength, Truncate(name, length),
             Announce("truncate", [n \in {name} |-> Prefix(Listing[name], length)])
      PROVE  Store!Next
    <2>1. pc = "idle" /\ pc' # "idle" /\ \E s \in Slots : dir[s].name = name
        BY <1>4 DEF Truncate, Enter, Matches
    <2>2. Listing[name] # Absent
        BY <2>1, LookedUp
    <2>3. /\ Store!Begin("truncate", [n \in {name} |-> Prefix(Listing[name], length)])
          /\ VisibleFiles = Listing
        BY <1>4, <2>1, AnnouncedIsBegin
    <2>4. Store!Truncate(name, length)
        BY <2>2, <2>3 DEF Store!Truncate, Store!Prefix, Prefix, VisibleFiles
    <2> QED
        BY <2>4 DEF Store!Next
<1>5. ASSUME NEW name \in Names, NEW length \in 0 .. MaxLength, NEW bytes \in Payloads,
             Write(name, length, bytes),
             Announce("write", [n \in {name} |-> [i \in 1 .. length |-> [of |-> bytes, n |-> i]]])
      PROVE  Store!Next
    <2>1. pc = "idle" /\ pc' # "idle" /\ \E s \in Slots : dir[s].name = name
        BY <1>5 DEF Write, WriteDirectory, Stop, Enter, Matches
    <2>2. Listing[name] # Absent
        BY <2>1, LookedUp
    <2>3. /\ Store!Begin("write", [n \in {name} |-> [i \in 1 .. length |-> [of |-> bytes, n |-> i]]])
          /\ VisibleFiles = Listing
        BY <1>5, <2>1, AnnouncedIsBegin
    <2>4. Store!Write(name, length, bytes)
        BY <2>2, <2>3 DEF Store!Write, VisibleFiles
    <2> QED
        BY <2>4 DEF Store!Next
<1> QED
    BY <1>1, <1>2, <1>3, <1>4, <1>5

\* A call under way: what the store makes of it when it returns.
LEMMA AfterIsExpected == ASSUME pc # "idle" PROVE Store!After = Expected
BY DEF Store!After, Expected

\* A call is a stutter of the store until its last step, which is its return.
LEMMA StepIsStoreStep ==
    ASSUME Ordinary, Known, Known', FilesInv, Step,
           IF pc' = "idle" THEN Settle("returned") ELSE UNCHANGED history
    PROVE  StoreStep
<1>1. pc # "idle"
    BY DEF Step, FreeStep, CutStep, WriteLastBlock, WriteNextBlock, WriteAndExtend, TailStep,
           SyncStep, LbaAssertFails
<1>2. CASE pc' # "idle"
    BY <1>1, <1>2 DEF StoreStep, VisibleFiles, history
<1>3. CASE pc' = "idle"
    <2>1. SyncStep
        BY <1>1, <1>3 DEF Step, FreeStep, CutStep, WriteLastBlock, WriteNextBlock,
           WriteAndExtend, TailStep, LbaAssertFails, Stop, WriteDirectory, Enter
    <2>2. what = "dir"
        <3>1. what \in {"file", "dir"}
            BY DEF Known, TypeInv, TypeOK
        <3>2. what = "file" => pc' \in {"write", "sync"}
            BY <2>1 DEF SyncStep, WriteDirectory, Enter
        <3> QED
            BY <1>3, <3>1, <3>2
    <2>3. pending # NoCall /\ Listing' = Expected
        BY <1>3, <2>1, <2>2, ReturnFiles
    <2>4. pending' = NoCall /\ outcome' = "returned"
        BY <1>3 DEF Settle
    <2>5. Store!Return
        BY <1>1, <1>3, <2>3, <2>4, AfterIsExpected DEF Store!Return, Store!NoCall, NoCall
    <2> QED
        BY <2>5 DEF StoreStep, Store!Next
<1> QED
    BY <1>2, <1>3

\* A boot after a power failure or a panic is an interruption of the store.
LEMMA BootIsStoreStep ==
    ASSUME Ordinary, Known, FilesInv, PowerLoss \/ Restart, Settle("interrupted")
    PROVE  StoreStep
<1>0. sec = 0
    BY WholeAtBoot DEF Ordinary, Careful, Known, TypeInv
<1>1. pc # "idle" /\ pc' = "idle" /\ UNCHANGED card
    BY DEF PowerLoss, Restart, Boot, Stop, Enter
<1>2. Listing' = Listing
    BY <1>1 DEF card, Listing
<1>3. MayFind(Listing) /\ pending # NoCall
    BY <1>0, <1>1 DEF FilesInv
<1>4. pending' = NoCall /\ outcome' = "interrupted"
    BY DEF Settle
<1>5. Store!Interrupted
    <2>1. CASE Listing \in {before, Expected}
        BY <1>1, <1>2, <1>3, <1>4, <2>1, AfterIsExpected DEF Store!Interrupted, Store!NoCall, NoCall
    <2>2. CASE Blend(Listing, before, pending)
        BY <1>1, <1>2, <1>3, <1>4, <2>2 DEF Store!Interrupted, Store!NoCall, NoCall, Blend
    <2> QED
        BY <1>3, <2>1, <2>2 DEF MayFind
<1> QED
    BY <1>5 DEF StoreStep, Store!Next

\* Every step of the driver is a step of the store or a stutter.
LEMMA FilesNextIsStoreStep ==
    ASSUME Ordinary, Known, FilesInv, [FilesNext]_<<vars, history>>
    PROVE  StoreStep
<1>1. Known' /\ Seen
    BY FilesInvNext, KnownSeen
<1>2. CASE UNCHANGED <<vars, history>>
    BY <1>2 DEF vars, history, StoreStep, VisibleFiles, Listing
<1>3. CASE Step /\ IF pc' = "idle" THEN Settle("returned") ELSE UNCHANGED history
    BY <1>1, <1>3, StepIsStoreStep
<1>4. CASE (PowerLoss \/ Restart) /\ Settle("interrupted")
    BY <1>4, BootIsStoreStep
<1> QED
    BY <1>1, <1>2, <1>3, <1>4, BeginIsStoreStep DEF FilesNext, StoreStep

\* The driver implements the file store of FileStore: a call that returns has
\* made of the files it names what it was asked to, and of no other anything;
\* after a power failure at any step, or a panic, the next boot finds the call
\* done, not done, or old and new blocks in the one file that was being
\* written.  For callers that make none of the three uses and names with
\* extensions, whatever the geometry of the card, the names, the lengths and
\* what is written; a card whose FAT the power failed in the middle of is not
\* booted from again.
THEOREM FilesImplementStore == ASSUME Ordinary PROVE FilesSpec => ImplementsStore
<1>1. FilesInit => Known /\ FilesInv
    BY KnownInit, FilesInvInit DEF FilesInit
<1>2. Known /\ FilesInv /\ [FilesNext]_<<vars, history>> => (Known /\ FilesInv)'
    BY FilesInvNext
<1>3. FilesSpec => [](Known /\ FilesInv)
    BY <1>1, <1>2, PTL DEF FilesSpec
<1>4. Known /\ FilesInv /\ [FilesNext]_<<vars, history>> => [Store!Next]_Store!vars
    BY FilesNextIsStoreStep DEF StoreStep, Store!vars, VisibleFiles
<1> QED
    BY <1>3, <1>4, FilesInitIsStoreInit, PTL DEF FilesSpec, ImplementsStore, Store!Spec
-----------------------------------------------------------------------------
(***************************************************************************)
(* A card whose FAT the power failed in the middle of, each entry an old   *)
(* one or a new one.  What is needed is how far the FAT in memory has gone *)
(* from that on the card: for the files that a call does not write, not    *)
(* where their blocks are; for the one that it writes, it has let the      *)
(* chain grow, or it has cut it, but never led it elsewhere.               *)
(***************************************************************************)
\* The FATs f and g lead to the same blocks of the dirent e.
LeadAlike(f, g, e) ==
    LET w == Walk(f, e.start) IN
    \A k \in 0 .. NEntries : k + 1 < e.size /\ w[k] \in Clusters => g[w[k]] = f[w[k]]

OthersAlike ==
    pc \notin {"idle", "panic"} =>
        \A t \in Slots :
            (what = "file" => dirents[t].name \notin DOMAIN pending.new) =>
                LeadAlike(fat, diskFat, dirents[t])

\* Until the last block the chain is as it was, or it ends at the block.
OwnChain ==
    what = "file" =>
        /\ pc = "write" => fat = diskFat \/ EndsChain(fat[cur])
        /\ pc = "tail" => Grows(fat, diskFat)
        /\ pc = "sync" => Grows(diskFat, fat) \/ Grows(fat, diskFat)

\* What the old dirent of the written file leads to, with the FAT on the card.
OldFile ==
    pc = "sync" /\ what = "file" =>
        \A s \in Slots : dir[s].name \in DOMAIN pending.new =>
            /\ Walk(diskFat, dir[s].start)[NEntries] \notin Clusters
            /\ Patched(Contents(diskFat, dir[s], data), before[dir[s].name],
                       payload, dirents[s].size)

TearInv == OthersAlike /\ OwnChain /\ OldFile

\* Two FATs that lead alike read alike, whatever else they hold.
LEMMA AlikeReads ==
    ASSUME NEW f, NEW d, View(f, d), NEW g \in FAT, NEW s \in Slots,
           LeadAlike(f, g, d[s]), NEW D
    PROVE  Contents(g, d[s], D) = Contents(f, d[s], D)
<1> DEFINE e == d[s]
           v == Walk(f, e.start)
           w == Walk(g, e.start)
<1>1. PICK n : Spans(f, e, n)
    BY SpanExists
<1>2. /\ n \in Nat /\ n <= e.size /\ e.size \in Nat /\ n <= NEntries /\ NEntries \in Nat
      /\ \A k \in 0 .. n - 1 : v[k] \in Clusters
      /\ n = e.size \/ v[n] \notin Clusters
      /\ e \in Dirent /\ f \in FAT /\ d \in Directory
    BY <1>1, ClusterFacts DEF Spans, View, Directory, Dirent
<1>3. \A k \in 0 .. NEntries : k + 1 < e.size /\ v[k] \in Clusters => g[v[k]] = f[v[k]]
    BY DEF LeadAlike
<1> DEFINE m == IF n = e.size THEN IF n = 0 THEN 0 ELSE n - 1 ELSE n
<1>4. m \in 0 .. NEntries /\ \A k \in 0 .. m - 1 : k \in 0 .. NEntries /\ k + 1 < e.size
    BY <1>2
<1>5. AgreeBelow(f, g, v, m)
    BY <1>3, <1>4 DEF AgreeBelow
<1>6. \A k \in 0 .. m : w[k] = v[k]
    BY <1>2, <1>4, <1>5, WalksAgree
<1>7. (\A k \in 0 .. n - 1 : k \in 0 .. m) /\ (n # e.size => n \in 0 .. m)
    BY <1>2
<1>8. Contents(f, e, D) = Along(v, n, D)
    BY <1>1, <1>2, ContentsSpan
<1> HIDE DEF v, w, m
<1>9. (\A k \in 0 .. n - 1 : w[k] = v[k]) /\ (n = e.size \/ w[n] \notin Clusters)
    BY <1>2, <1>6, <1>7
<1>10. Spans(g, e, n)
    BY <1>2, <1>9 DEF Spans, w
<1>11. Contents(g, e, D) = Along(w, n, D)
    BY <1>2, <1>10, ContentsSpan DEF w
<1>12. \A i \in 1 .. n : D[w[i - 1]] = D[v[i - 1]]
    BY <1>2, <1>9
<1>13. Along(w, n, D) = Along(v, n, D)
    BY <1>12 DEF Along
<1> QED
    BY <1>8, <1>11, <1>13

\* An edit of the FAT away from where a dirent's blocks are.
LEMMA AlikeEdit ==
    ASSUME NEW f, NEW d, View(f, d), NEW h \in FAT, NEW g, NEW s \in Slots,
           LeadAlike(f, g, d[s]), NEW X, \A p \in Clusters \ X : h[p] = f[p],
           \A k \in 0 .. NEntries : k + 1 < d[s].size => Walk(f, d[s].start)[k] \notin X
    PROVE  LeadAlike(h, g, d[s])
<1> DEFINE v == Walk(f, d[s].start)
           w == Walk(h, d[s].start)
<1>1. NEntries \in Nat /\ d[s].size \in Nat /\ f \in FAT /\ d \in Directory
    BY ClusterFacts DEF View, Directory, Dirent
<1>2. \A k \in 0 .. NEntries : k + 1 < d[s].size /\ v[k] \in Clusters => g[v[k]] = f[v[k]]
    BY DEF LeadAlike
<1>3. ASSUME NEW k \in 0 .. NEntries, k + 1 < d[s].size, w[k] \in Clusters
      PROVE  g[w[k]] = h[w[k]]
    <2>1. \A j \in 0 .. k - 1 : j \in 0 .. NEntries /\ j + 1 < d[s].size
        BY <1>1, <1>3
    <2>2. AgreeBelow(f, h, v, k)
        BY <2>1 DEF AgreeBelow
    <2>3. \A j \in 0 .. k : w[j] = v[j]
        BY <1>1, <2>2, WalksAgree
    <2>4. k \in 0 .. k
        BY <1>1
    <2>5. w[k] = v[k] /\ v[k] \notin X
        BY <1>3, <2>3, <2>4
    <2> HIDE DEF v, w
    <2> QED
        BY <1>2, <1>3, <2>5
<1> QED
    BY <1>3 DEF LeadAlike

\* A FAT that comes nearer to another.
LEMMA AlikeNearer ==
    ASSUME NEW f, NEW g, NEW h, \A c \in Clusters : h[c] \in {f[c], g[c]}, NEW e,
           LeadAlike(f, g, e)
    PROVE  LeadAlike(f, h, e)
BY DEF LeadAlike

\* A FAT whose chains are beginnings of another's finds the first blocks only.
LEMMA GrowsReads ==
    ASSUME NEW f \in FAT, NEW g \in FAT, NEW d \in Directory, NEW s \in Slots, Grows(f, g),
           Walk(g, d[s].start)[NEntries] \notin Clusters, NEW D, NEW b, NEW p, NEW m,
           Patched(Contents(g, d[s], D), b, p, m)
    PROVE  /\ Walk(f, d[s].start)[NEntries] \notin Clusters
           /\ Patched(Contents(f, d[s], D), b, p, m)
<1> DEFINE e == d[s]
           v == Walk(f, e.start)
           w == Walk(g, e.start)
<1>1. NEntries \in Nat /\ NEntries \in 0 .. NEntries /\ e \in Dirent /\ e.size \in Nat
    BY ClusterFacts DEF Directory, Dirent
<1>2. \A k \in 0 .. NEntries : v[k] \in Clusters => w[k] = v[k]
    BY GrowsWalk
<1>3. v[NEntries] \notin Clusters
    BY <1>1, <1>2
<1>4. PICK n : Spans(f, e, n)
    BY <1>1, <1>3, SpanOfChain
<1>5. PICK q : Spans(g, e, q)
    BY <1>1, SpanOfChain
<1>6. /\ n \in Nat /\ n <= e.size /\ n <= NEntries /\ \A k \in 0 .. n - 1 : v[k] \in Clusters
      /\ q \in Nat /\ q <= e.size /\ (q = e.size \/ w[q] \notin Clusters)
    BY <1>1, <1>4, <1>5 DEF Spans
<1>7. n <= q
    <2> SUFFICES ASSUME q < n PROVE FALSE
        BY <1>6
    <2>1. q \in 0 .. n - 1 /\ q \in 0 .. NEntries /\ q # e.size
        BY <1>1, <1>6
    <2> QED
        BY <1>2, <1>6, <2>1
<1> DEFINE c == Contents(f, e, D)
           l == Contents(g, e, D)
<1>8. c = Along(v, n, D) /\ l = Along(w, q, D)
    BY <1>1, <1>4, <1>5, ContentsSpan
<1>9. Patched(l, b, p, m)
    OBVIOUS
<1> HIDE DEF c, l, v, w
<1>10. Len(c) = n /\ Len(l) = q
    BY <1>6, <1>8 DEF Along
<1>11. ASSUME NEW i \in 1 .. n
       PROVE  c[i] = l[i]
    <2>1. i - 1 \in 0 .. n - 1 /\ i - 1 \in 0 .. NEntries /\ i \in 1 .. q
        BY <1>1, <1>6, <1>7
    <2>2. c[i] = D[v[i - 1]] /\ l[i] = D[w[i - 1]]
        BY <1>8, <2>1 DEF Along
    <2> QED
        BY <1>2, <1>6, <2>1, <2>2
<1>12. \A i \in 1 .. n : i \in 1 .. q
    BY <1>6, <1>7
<1>13. Patched(c, b, p, m)
    BY <1>9, <1>10, <1>11, <1>12 DEF Patched
<1> QED
    BY <1>3, <1>13 DEF c, v

\* An edit of the FAT in memory that leaves the files not written alone.
LEMMA OthersKept ==
    ASSUME Seen, Seen', OthersAlike, pc \notin {"idle", "panic"},
           UNCHANGED <<diskFat, dirents, what, pending>>,
           NEW X, \A p \in Clusters \ X : fat'[p] = fat[p],
           \A t \in Slots : (what = "file" => dirents[t].name \notin DOMAIN pending.new) =>
               \A k \in 0 .. NEntries : k + 1 < dirents[t].size =>
                   Walk(fat, dirents[t].start)[k] \notin X
    PROVE  OthersAlike'
<1>1. View(fat, dirents) /\ fat' \in FAT
    BY DEF Seen, View
<1>2. ASSUME NEW t \in Slots, what = "file" => dirents[t].name \notin DOMAIN pending.new
      PROVE  LeadAlike(fat', diskFat, dirents[t])
    <2>1. LeadAlike(fat, diskFat, dirents[t])
        BY <1>2 DEF OthersAlike
    <2> QED
        BY <1>1, <1>2, <2>1, AlikeEdit
<1> QED
    BY <1>2 DEF OthersAlike

\* The call works on the directory: the other two parts do not apply.
LEMMA OthersSuffice == ASSUME what' = "dir", OthersAlike' PROVE TearInv'
BY DEF TearInv, OwnChain, OldFile

LEMMA SameFatTear ==
    ASSUME what = "dir", what' = "dir", TearInv, pc \notin {"idle", "panic"},
           UNCHANGED <<fat, diskFat, dirents>>
    PROVE  TearInv'
BY OthersSuffice DEF TearInv, OthersAlike

LEMMA FreeingTear ==
    ASSUME Seen, Seen', TearInv, pc \notin {"idle", "panic"}, what = "dir", what' = "dir",
           UNCHANGED <<diskFat, dirents, pending>>,
           cur \in Clusters, Unreferenced(fat, dirents, cur), fat' = [fat EXCEPT ![cur] = FREE]
    PROVE  TearInv'
<1>1. fat \in FAT /\ dirents \in Directory
    BY DEF Seen, View
<1>2. \A p \in Clusters \ {cur} : fat'[p] = fat[p]
    BY <1>1
<1>3. \A t \in Slots : Off(fat, dirents, t, {cur})
    BY <1>1, UnreferencedOff
<1>4. OthersAlike'
    BY <1>2, <1>3, OthersKept DEF TearInv, Off
<1> QED
    BY <1>4, OthersSuffice

LEMMA FreeStepTear ==
    ASSUME Known, Known', TearInv, FreeStep, UNCHANGED history
    PROVE  TearInv'
<1>1. Seen /\ Seen'
    BY KnownSeen, KnownSeenNext
<1>2. pc = "free" /\ what = "dir" /\ fat' = [fat EXCEPT ![cur] = FREE] /\ diskFat' = diskFat
    BY <1>1 DEF FreeStep, Seen, card
<1>3. cur \in Clusters /\ Unreferenced(fat, dirents, cur)
    BY <1>2 DEF Known, SoundInv, AtCluster, Freeing, InUse
<1>4. what' = "dir" /\ dirents' = dirents /\ pending' = pending
    BY <1>2 DEF FreeStep, WriteDirectory, Enter, history
<1> QED
    BY <1>1, <1>2, <1>3, <1>4, FreeingTear

LEMMA CutStepTear ==
    ASSUME Ordinary, Known, Known', FilesInv, TearInv, CutStep, UNCHANGED history
    PROVE  TearInv'
<1>1. Seen /\ Seen' /\ left \in Nat /\ fat[0] = LAST
    BY KnownSeen, KnownSeenNext DEF Known, TypeInv, TypeOK, SoundInv, Reserved
<1>2. pc = "cut" /\ what = "dir" /\ diskFat' = diskFat
    BY <1>1 DEF CutStep, Seen, card
<1>3. /\ what' = "dir" /\ dirents' = dirents /\ pending' = pending
      /\ fat' = IF CutsHere THEN [fat EXCEPT ![cur] = IF left > 0 THEN LAST ELSE FREE] ELSE fat
    BY <1>2 DEF CutStep, WriteDirectory, Enter, history
<1>4. CASE left = 0
    <2>1. cur \in Clusters /\ Unreferenced(fat, dirents, cur)
        BY <1>2, <1>4 DEF Known, SoundInv, AtCluster, Freeing, InUse
    <2>2. fat' = [fat EXCEPT ![cur] = FREE]
        BY <1>3, <1>4 DEF CutsHere, BytesWrite
    <2> QED
        BY <1>1, <1>2, <1>3, <2>1, <2>2, FreeingTear
<1>5. CASE left > 1 \/ (left > 0 /\ cur = 0)
    <2>1. fat' = fat
        BY <1>1, <1>3, <1>5 DEF CutsHere, BytesWrite, Seen, View, FAT
    <2> QED
        BY <1>2, <1>3, <2>1, SameFatTear
<1>6. CASE left = 1 /\ cur # 0
    <2>1. cur \in Clusters
        BY <1>2, <1>6 DEF Known, SoundInv, AtCluster, InUse
    <2>2. PICK s \in Slots : CuttingAt(s)
        BY <1>2, <1>6 DEF FilesInv, DirPhase
    <2> DEFINE e == dirents[s]
    <2>3. /\ 1 <= e.size /\ e.size - 1 <= NEntries /\ Walk(fat, e.start)[e.size - 1] = cur
          /\ e.size \in Nat /\ NEntries \in Nat
        BY <1>1, <1>6, <2>2, ClusterFacts DEF CuttingAt, Seen, View, Directory, Dirent
    <2>4. \A p \in Clusters \ {cur} : fat'[p] = fat[p]
        BY <1>1, <1>3, <1>6 DEF Seen, View, FAT
    <2>5. ASSUME NEW t \in Slots, NEW k \in 0 .. NEntries, k + 1 < dirents[t].size,
                 Walk(fat, dirents[t].start)[k] = cur
          PROVE  FALSE
        <3>1. fat \in FAT /\ dirents \in Directory /\ Sound(fat, dirents)
            BY <1>1 DEF Seen, View
        <3>2. e.size - 1 \in 0 .. NEntries
            BY <2>3
        <3>3. t = s /\ k = e.size - 1
            BY <2>1, <2>3, <2>5, <3>1, <3>2, ChainsMeetNowhere
        <3> QED
            BY <2>3, <2>5, <3>3
    <2>6. \A t \in Slots : \A k \in 0 .. NEntries :
              k + 1 < dirents[t].size => Walk(fat, dirents[t].start)[k] \notin {cur}
        BY <2>5
    <2>7. pc \notin {"idle", "panic"} /\ OthersAlike /\ UNCHANGED <<diskFat, dirents, what, pending>>
        BY <1>2, <1>3 DEF TearInv
    <2>8. OthersAlike'
        BY <1>1, <2>4, <2>6, <2>7, OthersKept
    <2> QED
        BY <1>3, <2>8, OthersSuffice
<1> QED
    BY <1>1, <1>4, <1>5, <1>6

\* The blocks of the directory change no FAT.
LEMMA WriteDirTear ==
    ASSUME Known, TearInv, what = "dir", WriteLastBlock \/ WriteNextBlock \/ WriteAndExtend
    PROVE  TearInv'
<1>1. Seen /\ TypeInv /\ DirInv
    BY KnownSeen DEF Known
<1>2. pc = "write" /\ cur \in Clusters
    BY DEF WriteLastBlock, WriteNextBlock, WriteAndExtend
<1>3. (left = 1 => fat[cur] = LAST) /\ (left > 1 => ~EndsChain(fat[cur]))
    BY <1>1, <1>2, DirWriteFacts
<1>4. UNCHANGED <<diskFat, dirents, what>> /\ fat' = fat
    <2>1. CASE WriteLastBlock
        BY <1>1, <1>3, <2>1 DEF WriteLastBlock, Seen, View, FAT
    <2>2. CASE WriteNextBlock
        BY <2>2 DEF WriteNextBlock
    <2>3. CASE WriteAndExtend
        BY <1>3, <2>3 DEF WriteAndExtend
    <2> QED
        BY <2>1, <2>2, <2>3
<1> QED
    BY <1>2, <1>4, SameFatTear

\* Only the file that a call writes is named by what is pending.
LEMMA WrittenOnly ==
    ASSUME Ordinary, Seen, NEW s \in Slots, FileView(s)
    PROVE  /\ \A t \in Slots : dirents[t].name \notin DOMAIN pending.new => t # s
           /\ \A t \in Slots : dir[t].name \in DOMAIN pending.new => t = s
           /\ DOMAIN pending.new = {dirents[s].name} /\ dir[s].name = dirents[s].name
<1>1. /\ dirents[s].name \in Names /\ dir[s].name = dirents[s].name
      /\ pending = WriteOf(dirents[s].name, dirents[s].size, payload)
    BY DEF FileView
<1>2. DOMAIN pending.new = {dirents[s].name}
    BY <1>1 DEF WriteOf
<1>3. \A t \in Slots : dir[t].name = dir[s].name => t = s
    BY <1>1 DEF Seen, Distinct, Names, Ordinary
<1> QED
    BY <1>1, <1>2, <1>3

\* A block of the file, in its chain or beyond it.
LEMMA FileBlockTear ==
    ASSUME Ordinary, Known, Known', FilesInv, FilesInv', TearInv,
           pc = "write", what = "file", cur \in Clusters,
           UNCHANGED <<diskFat, dirents, what, pending>>,
           NEW X, Touches(X, fat, cur), \A p \in Clusters \ X : fat'[p] = fat[p]
    PROVE  OthersAlike'
<1>1. Seen /\ Seen'
    BY KnownSeen, KnownSeenNext
<1>2. PICK s \in Slots : FileView(s)
    BY DEF FilesInv
<1>3. Walk(fat, dirents[s].start)[offset] = cur /\ offset <= NEntries
    BY <1>2 DEF FileView, WrittenTo
<1>4. offset \in 0 .. NEntries
    BY <1>3, ClusterFacts DEF Known, TypeInv, TypeOK
<1>5. View(fat, dirents) /\ DirChainKept(fat)
    BY <1>1 DEF Seen
<1>6. ASSUME NEW t \in Slots, t # s, NEW k \in 0 .. NEntries
      PROVE  Walk(fat, dirents[t].start)[k] \notin X
    BY <1>3, <1>4, <1>5, <1>6, BlockAlone
<1>7. \A t \in Slots : dirents[t].name \notin DOMAIN pending.new => t # s
    BY <1>1, <1>2, WrittenOnly
<1>8. \A t \in Slots : (what = "file" => dirents[t].name \notin DOMAIN pending.new) =>
          \A k \in 0 .. NEntries : k + 1 < dirents[t].size =>
              Walk(fat, dirents[t].start)[k] \notin X
    BY <1>6, <1>7
<1>9. pc \notin {"idle", "panic"} /\ OthersAlike
    BY DEF TearInv
<1> QED
    BY <1>1, <1>8, <1>9, OthersKept

LEMMA NextBlockTear ==
    ASSUME Ordinary, Known, Known', FilesInv, FilesInv', TearInv, what = "file",
           WriteNextBlock, UNCHANGED history
    PROVE  TearInv'
<1>1. /\ pc = "write" /\ pc' = "write" /\ cur \in Clusters /\ ~EndsChain(fat[cur])
      /\ UNCHANGED <<fat, diskFat, dirents, what, pending>>
    BY DEF WriteNextBlock, history
<1>2. Touches({cur}, fat, cur)
    BY <1>1 DEF Touches
<1>3. OthersAlike'
    BY <1>1, <1>2, FileBlockTear
<1>4. OwnChain' /\ OldFile'
    BY <1>1 DEF TearInv, OwnChain, OldFile
<1> QED
    BY <1>3, <1>4 DEF TearInv

LEMMA ExtendTear ==
    ASSUME Ordinary, Known, Known', FilesInv, FilesInv', TearInv, what = "file",
           WriteAndExtend, UNCHANGED history
    PROVE  TearInv'
<1>1. /\ pc = "write" /\ cur \in Clusters /\ fat[cur] = LAST /\ UNCHANGED <<diskFat, pending>>
      /\ fat \in FAT
    BY KnownSeen DEF WriteAndExtend, EndsChain, history, Seen, View
<1>2. ASSUME NEW c \in FreeFrom(cur), fat' = [fat EXCEPT ![cur] = c, ![c] = LAST], cur' = c,
             UNCHANGED <<pc, dirents, what>>
      PROVE  TearInv'
    <2>1. c \in Clusters /\ fat[c] = FREE
        BY <1>1, <1>2, ClusterFacts DEF FreeFrom, Clusters
    <2>2. Touches({cur, c}, fat, cur) /\ \A p \in Clusters \ {cur, c} : fat'[p] = fat[p]
        <3>1. \A p \in 0 .. NEntries - 1 :
                  fat'[p] = IF p = c THEN LAST ELSE IF p = cur THEN c ELSE fat[p]
            BY <1>1, <1>2, <2>1, ClusterFacts DEF FAT
        <3> QED
            BY <2>1, <3>1, ClusterFacts DEF Touches
    <2>3. OthersAlike'
        BY <1>1, <1>2, <2>2, FileBlockTear
    <2>4. fat'[c] = LAST
        BY <1>1, <1>2, <2>1, ClusterFacts DEF FAT
    <2>5. OwnChain' /\ OldFile'
        BY <1>1, <1>2, <2>4 DEF OwnChain, OldFile, EndsChain
    <2> QED
        BY <2>3, <2>5 DEF TearInv
<1>3. CASE Stop("panic")
    BY <1>3 DEF Stop, Enter, TearInv, OthersAlike, OwnChain, OldFile
<1> QED
    BY <1>2, <1>3 DEF WriteAndExtend

\* With its chain written a file's old dirent finds a mix: the FAT on the card
\* is that before the call.
LEMMA OldFileFound ==
    ASSUME Ordinary, Seen', FilesInv', pc' = "sync", what' = "file", sec' = 0
    PROVE  OldFile'
<1>1. PICK s \in Slots : FileView(s)'
    BY DEF FilesInv
<1>2. /\ dirents'[s].name \in Names /\ dir'[s].name = dirents'[s].name
      /\ pending' = WriteOf(dirents'[s].name, dirents'[s].size, payload')
      /\ Patched(Contents(diskFat', dir'[s], data'), before'[dirents'[s].name],
                 payload', dirents'[s].size)
    BY <1>1 DEF FileView
<1>3. View(diskFat', dir') /\ Distinct(dir')
    BY DEF Seen
<1>4. Walk(diskFat', dir'[s].start)[NEntries] \notin Clusters
    BY <1>3, ChainEnds DEF View
<1>5. \A t \in Slots : dir'[t].name \in DOMAIN pending'.new => t = s
    <2>1. DOMAIN pending'.new = {dirents'[s].name}
        BY <1>2 DEF WriteOf
    <2> QED
        BY <1>2, <1>3, <2>1 DEF Distinct, Names, Ordinary
<1> QED
    BY <1>2, <1>4, <1>5 DEF OldFile

LEMMA LastBlockTear ==
    ASSUME Ordinary, Known, Known', FilesInv, FilesInv', TearInv, what = "file",
           WriteLastBlock, UNCHANGED history
    PROVE  TearInv'
<1>1. /\ pc = "write" /\ cur \in Clusters /\ fat' = [fat EXCEPT ![cur] = LAST]
      /\ pc' = IF EndsChain(fat[cur]) THEN "sync" ELSE "tail"
      /\ UNCHANGED <<diskFat, dirents, what, pending, sec>>
    BY DEF WriteLastBlock, history
<1>2. Seen /\ Seen' /\ sec = 0 /\ fat \in FAT
    BY <1>1, KnownSeen, KnownSeenNext DEF Seen, View
<1>3. Touches({cur}, fat, cur) /\ \A p \in Clusters \ {cur} : fat'[p] = fat[p]
    BY <1>1, <1>2 DEF Touches
<1>4. OthersAlike'
    BY <1>1, <1>3, FileBlockTear
<1>5. OwnChain'
    <2>1. CASE EndsChain(fat[cur])
        <3>1. fat' = fat
            BY <1>1, <1>2, <2>1 DEF EndsChain, FAT
        <3>2. Grows(diskFat, fat)
            BY <1>1 DEF FilesInv, FileView
        <3> QED
            BY <1>1, <2>1, <3>1, <3>2 DEF OwnChain
    <2>2. CASE ~EndsChain(fat[cur])
        <3>1. fat = diskFat
            BY <1>1, <2>2 DEF TearInv, OwnChain
        <3>2. Grows(fat', diskFat)
            BY <1>1, <1>2, <3>1, ClusterFacts DEF Grows, FAT
        <3> QED
            BY <1>1, <2>2, <3>2 DEF OwnChain
    <2> QED
        BY <2>1, <2>2
<1>6. OldFile'
    <2>1. CASE pc' = "sync"
        <3>1. what' = "file" /\ sec' = 0
            BY <1>1, <1>2
        <3> QED
            BY <1>2, <2>1, <3>1, OldFileFound
    <2>2. CASE pc' # "sync"
        BY <2>2 DEF OldFile
    <2> QED
        BY <2>1, <2>2
<1> QED
    BY <1>4, <1>5, <1>6 DEF TearInv

\* Freeing the tail: the chains of the FAT in memory only lose clusters.
LEMMA TailTear ==
    ASSUME Ordinary, Known, Known', FilesInv, FilesInv', TearInv, TailStep, UNCHANGED history
    PROVE  TearInv'
<1>1. /\ pc = "tail" /\ fat' = [fat EXCEPT ![cur] = FREE] /\ pc' \in {"tail", "sync"}
      /\ UNCHANGED <<diskFat, dirents, what, pending, sec>>
    BY DEF TailStep, card, history
<1>2. Seen /\ Seen' /\ cur \in Clusters /\ Unreferenced(fat, dirents, cur) /\ what = "file"
    BY <1>1, KnownSeen, KnownSeenNext DEF Known, SoundInv, AtCluster, Freeing, InUse
<1>3. fat \in FAT /\ dirents \in Directory /\ sec = 0
    BY <1>1, <1>2 DEF Seen, View
<1>4. \A p \in Clusters \ {cur} : fat'[p] = fat[p]
    BY <1>1, <1>3
<1>5. \A t \in Slots : \A k \in 0 .. NEntries : Walk(fat, dirents[t].start)[k] \notin {cur}
    BY <1>2, <1>3, UnreferencedOff DEF Off
<1>6. OthersAlike'
    <2>1. pc \notin {"idle", "panic"} /\ OthersAlike
        BY <1>1 DEF TearInv
    <2> QED
        BY <1>1, <1>2, <1>4, <1>5, <2>1, OthersKept
<1>7. OwnChain'
    <2>1. Grows(fat, diskFat)
        BY <1>1, <1>2 DEF TearInv, OwnChain
    <2>2. Grows(fat', diskFat)
        BY <1>1, <1>3, <2>1, ClusterFacts DEF Grows, FAT, FREE
    <2> QED
        BY <1>1, <2>2 DEF OwnChain
<1>8. OldFile'
    <2>1. CASE pc' = "sync"
        <3>1. what' = "file" /\ sec' = 0
            BY <1>1, <1>2, <1>3
        <3> QED
            BY <1>2, <2>1, <3>1, OldFileFound
    <2>2. CASE pc' # "sync"
        BY <2>2 DEF OldFile
    <2> QED
        BY <2>1, <2>2
<1> QED
    BY <1>6, <1>7, <1>8 DEF TearInv

\* A sector brings the FAT on the card nearer to that in memory.
LEMMA SectorNearer ==
    ASSUME Seen, SyncStep
    PROVE  \A c \in Clusters : diskFat'[c] \in {fat[c], diskFat[c]}
<1>1. fat \in FAT
    BY DEF Seen, View
<1>2. diskFat' = [c \in 0 .. NEntries - 1 |->
                     IF c \div EntriesPerSector = sec THEN fat[c] ELSE diskFat[c]]
    BY <1>1 DEF SyncStep, SyncedFat, FAT
<1> QED
    BY <1>2, ClusterFacts

\* What the old dirent of the written file finds in the FAT that is on its way.
LEMMA OldFileNew ==
    ASSUME Ordinary, Seen, what = "file", pc = "sync", NEW s \in Slots, FileView(s)
    PROVE  /\ Walk(fat, dir[s].start)[NEntries] \notin Clusters
           /\ Patched(Contents(fat, dir[s], data), before[dirents[s].name], payload, dirents[s].size)
<1>1. View(fat, dir)
    <2>1. View(fat, dirents) /\ dir \in Directory
          /\ \A t \in Slots : dir[t].start \in {0, dirents[t].start}
        BY DEF Seen
    <2> QED
        BY <2>1, FewerStarts DEF View
<1>2. Walk(fat, dir[s].start)[NEntries] \notin Clusters
    BY <1>1, ChainEnds DEF View
<1> QED
    BY <1>1, <1>2, OldDirent

LEMMA PartialSyncTear ==
    ASSUME Ordinary, Known, Known', FilesInv, TearInv, SyncStep, sec + 1 < NSectors,
           UNCHANGED history
    PROVE  TearInv'
<1>1. /\ pc = "sync" /\ pc' = "sync" /\ UNCHANGED <<fat, dir, data, dirents, what, payload>>
      /\ UNCHANGED <<before, pending>>
    BY PartOfFat DEF history
<1>2. Seen /\ Seen'
    BY KnownSeen, KnownSeenNext
<1>3. \A c \in Clusters : diskFat'[c] \in {fat[c], diskFat[c]}
    BY <1>2, SectorNearer
<1>4. OthersAlike'
    <2>1. ASSUME NEW t \in Slots, LeadAlike(fat, diskFat, dirents[t])
          PROVE  LeadAlike(fat, diskFat', dirents[t])
        BY <1>3, <2>1, AlikeNearer
    <2> QED
        BY <1>1, <2>1 DEF TearInv, OthersAlike
<1>5. what = "file" => Grows(diskFat, fat) \/ Grows(fat, diskFat)
    BY <1>1 DEF TearInv, OwnChain
<1>6. /\ Grows(diskFat, fat) => Grows(diskFat', fat)
      /\ Grows(fat, diskFat) => Grows(fat, diskFat') /\ Grows(diskFat', diskFat)
    BY <1>3 DEF Grows
<1>7. OwnChain'
    BY <1>1, <1>5, <1>6 DEF OwnChain
<1>8. OldFile'
    <2> SUFFICES ASSUME what = "file", NEW s \in Slots, dir[s].name \in DOMAIN pending.new
                 PROVE  /\ Walk(diskFat', dir[s].start)[NEntries] \notin Clusters
                        /\ Patched(Contents(diskFat', dir[s], data), before[dir[s].name],
                                   payload, dirents[s].size)
        BY <1>1 DEF OldFile
    <2>1. FileView(s) /\ dir[s].name = dirents[s].name
        <3>1. PICK r \in Slots : FileView(r)
            BY DEF FilesInv
        <3> QED
            BY <1>2, <3>1, WrittenOnly
    <2>2. fat \in FAT /\ diskFat \in FAT /\ diskFat' \in FAT /\ dir \in Directory
        BY <1>2 DEF Seen, View
    <2>3. CASE Grows(diskFat, fat)
        <3>1. /\ Walk(fat, dir[s].start)[NEntries] \notin Clusters
              /\ Patched(Contents(fat, dir[s], data), before[dir[s].name], payload, dirents[s].size)
            BY <1>1, <1>2, <2>1, OldFileNew
        <3> QED
            BY <1>6, <2>2, <2>3, <3>1, GrowsReads
    <2>4. CASE Grows(fat, diskFat)
        <3>1. /\ Walk(diskFat, dir[s].start)[NEntries] \notin Clusters
              /\ Patched(Contents(diskFat, dir[s], data), before[dir[s].name], payload, dirents[s].size)
            BY <1>1 DEF TearInv, OldFile
        <3> QED
            BY <1>6, <2>2, <2>4, <3>1, GrowsReads
    <2> QED
        BY <1>5, <2>3, <2>4
<1> QED
    BY <1>4, <1>7, <1>8 DEF TearInv

LEMMA SyncTear ==
    ASSUME Ordinary, Known, Known', FilesInv, TearInv, SyncStep, pc' # "idle", UNCHANGED history
    PROVE  TearInv'
<1>1. CASE sec + 1 < NSectors
    BY <1>1, PartialSyncTear
<1>2. CASE ~(sec + 1 < NSectors)
    <2>1. diskFat' = fat /\ fat' = fat /\ what' = "dir"
        BY <1>2, WholeFat DEF SyncStep, WriteDirectory, Stop, Enter
    <2>2. OthersAlike'
        BY <2>1 DEF OthersAlike, LeadAlike
    <2> QED
        BY <2>1, <2>2, OthersSuffice
<1> QED
    BY <1>1, <1>2

\* A call begins with the FAT that is on the card; at most it gives a file its
\* first cluster.
LEMMA BeginTear ==
    ASSUME Ordinary, Known, Known', FilesInv', Begin
    PROVE  TearInv'
<1>1. /\ Seen /\ Seen' /\ TypeOK
    BY KnownSeen, KnownSeenNext DEF Known, TypeInv
<1>2. /\ pc = "idle" /\ diskFat' = diskFat /\ fat = diskFat /\ fat \in FAT
      /\ \/ Panics
         \/ \E s, e : BeginsDir(s, e) \/ BeginsFree(s, e)
         \/ \E s, e, n : BeginsCut(s, e, n)
         \/ \E s, e, n, p : BeginsFile(s, e, n, p)
         \/ \E s, e, c, n, p : BeginsNewFile(s, e, c, n, p)
    BY <1>1, BeginEffect DEF Seen, View, card
<1>3. CASE fat' = fat /\ pc' # "sync" /\ pc' # "tail"
    BY <1>2, <1>3 DEF TearInv, OthersAlike, LeadAlike, OwnChain, OldFile
<1>4. CASE Panics
    BY <1>4 DEF Panics, Stop, Enter, TearInv, OthersAlike, OwnChain, OldFile
<1>5. ASSUME NEW s, NEW e, BeginsDir(s, e) \/ BeginsFree(s, e)
      PROVE  TearInv'
    BY <1>3, <1>5 DEF BeginsDir, BeginsFree, WriteDirectory, Enter
<1>6. ASSUME NEW s, NEW e, NEW n, BeginsCut(s, e, n)
      PROVE  TearInv'
    BY <1>3, <1>6 DEF BeginsCut, Enter
<1>7. ASSUME NEW s, NEW e, NEW n, NEW p, BeginsFile(s, e, n, p)
      PROVE  TearInv'
    BY <1>3, <1>7 DEF BeginsFile, Enter
<1>8. ASSUME NEW s, NEW e, NEW c, NEW n, NEW p, BeginsNewFile(s, e, c, n, p)
      PROVE  TearInv'
    <2>1. /\ s \in Slots /\ e \in Dirent /\ dirents' = [dir EXCEPT ![s] = e] /\ e.start = c
          /\ dir[s].start = 0 /\ c \in Clusters /\ fat' = [fat EXCEPT ![c] = LAST]
          /\ pc' = "write" /\ what' = "file" /\ cur' = c
        BY <1>8 DEF BeginsNewFile, Replaces, Enter
    <2>2. dirents'[s].start = c /\ \A p1 \in Clusters \ {c} : fat'[p1] = fat[p1]
        BY <1>1, <1>2, <2>1 DEF Seen, View, Directory, FAT
    <2>3. PICK r \in Slots : FileView(r)'
        BY <2>1 DEF FilesInv
    <2>4. /\ dirents'[r].name \in Names /\ DOMAIN pending'.new = {dirents'[r].name}
          /\ dir'[r].name = dirents'[r].name /\ ChangedAt(dir', dirents', r)
        BY <2>3 DEF FileView, WriteOf
    <2>5. r = s
        <3>1. dir'[s].start = 0 /\ s \in Slots
            BY <1>1, <2>1 DEF Begin, card, Create, Rename, Delete, Truncate, Write
        <3> QED
            BY <2>1, <2>2, <2>4, <3>1, ClusterFacts DEF ChangedAt, FREE
    <2>6. ASSUME NEW t \in Slots, dirents'[t].name \notin DOMAIN pending'.new
          PROVE  LeadAlike(fat', diskFat', dirents'[t])
        <3> DEFINE w == Walk(fat', dirents'[t].start)
        <3>1. t # s
            BY <2>4, <2>5, <2>6
        <3>2. /\ fat' \in FAT /\ dirents' \in Directory /\ Sound(fat', dirents')
            BY <1>1 DEF Seen, View
        <3>3. s \in Slots /\ 0 \in 0 .. NEntries
            BY <2>1, ClusterFacts
        <3>4. Walk(fat', dirents'[s].start)[0] = dirents'[s].start
            BY <3>2, <3>3, WalkSteps
        <3>5. Walk(fat', dirents'[s].start)[0] \in Clusters
            BY <2>1, <2>2, <3>4
        <3>6. Off(fat', dirents', t, {Walk(fat', dirents'[s].start)[0]})
            BY <3>1, <3>2, <3>3, <3>5, OthersOff
        <3>7. Off(fat', dirents', t, {c})
            BY <2>2, <3>6, <3>4
        <3>8. \A k \in 0 .. NEntries : w[k] # c
            BY <3>7 DEF Off
        <3> HIDE DEF w
        <3>9. \A k \in 0 .. NEntries : w[k] \in Clusters => diskFat'[w[k]] = fat'[w[k]]
            BY <1>2, <2>2, <3>8
        <3> QED
            BY <3>9 DEF LeadAlike, w
    <2>7. OthersAlike'
        BY <2>1, <2>6 DEF OthersAlike
    <2>8. OwnChain' /\ OldFile'
        BY <1>2, <2>1, ClusterFacts DEF OwnChain, OldFile, EndsChain, FAT
    <2> QED
        BY <2>7, <2>8 DEF TearInv
<1> QED
    BY <1>2, <1>4, <1>5, <1>6, <1>7, <1>8

LEMMA TearInit == Init => TearInv
BY DEF Init, TearInv, OthersAlike, OwnChain, OldFile

LEMMA TearNext ==
    ASSUME Ordinary, Known, Known', FilesInv, FilesInv', TearInv,
           [FilesNext]_<<vars, history>>
    PROVE  TearInv'
<1>1. CASE UNCHANGED <<vars, history>>
    <2>1. /\ UNCHANGED <<fat, diskFat, dir, data, pc, dirents, what, cur, payload>>
          /\ UNCHANGED <<before, pending>>
        BY <1>1 DEF vars, history
    <2> QED
        BY <2>1 DEF TearInv, OthersAlike, LeadAlike, OwnChain, OldFile
<1>2. CASE Begin
    BY <1>2, BeginTear
<1>3. CASE pc' \in {"idle", "panic"} /\ what' = "dir"
    BY <1>3 DEF TearInv, OthersAlike, OwnChain, OldFile
<1>4. CASE PowerLoss \/ Restart
    BY <1>3, <1>4 DEF PowerLoss, Restart, Boot, Stop, Enter
<1>5. CASE Step /\ IF pc' = "idle" THEN Settle("returned") ELSE UNCHANGED history
    <2>1. what \in {"file", "dir"} /\ Seen'
        BY KnownSeenNext DEF Known, TypeInv, TypeOK
    <2>2. CASE pc' = "idle"
        BY <1>3, <2>1, <2>2 DEF Seen
    <2>3. CASE pc' # "idle" /\ UNCHANGED history
        <3>1. CASE FreeStep
            BY <2>3, <3>1, FreeStepTear
        <3>2. CASE CutStep
            BY <2>3, <3>2, CutStepTear
        <3>3. CASE (WriteLastBlock \/ WriteNextBlock \/ WriteAndExtend) /\ what = "dir"
            BY <3>3, WriteDirTear
        <3>4. CASE (WriteLastBlock \/ WriteNextBlock \/ WriteAndExtend) /\ what = "file"
            BY <2>3, <3>4, LastBlockTear, NextBlockTear, ExtendTear
        <3>5. CASE TailStep
            BY <2>3, <3>5, TailTear
        <3>6. CASE SyncStep
            BY <2>3, <3>6, SyncTear
        <3>7. CASE LbaAssertFails
            BY <1>3, <3>7 DEF LbaAssertFails, Stop, Enter
        <3> QED
            BY <1>5, <2>1, <3>1, <3>2, <3>3, <3>4, <3>5, <3>6, <3>7 DEF Step
    <2> QED
        BY <1>5, <2>2, <2>3
<1> QED
    BY <1>1, <1>2, <1>4, <1>5 DEF FilesNext, Begin

\* The running call has left the dirent of n alone and does not write the file.
NotWritten(n) ==
    /\ what = "file" => n \notin DOMAIN pending.new
    /\ \A t \in Slots : dir[t].name = n \/ dirents[t].name = n => dir[t] = dirents[t]

\* Both views have the file n, with the same blocks, or neither has it.
FoundAlike(f, d, g, e, D, n) ==
    \A t \in Slots :
        /\ d[t].name = n <=> e[t].name = n
        /\ d[t].name = n => Contents(f, d[t], D) = Contents(g, e[t], D)

LEMMA ListingAlike ==
    ASSUME BareNames = {}, NEW f, NEW d, Distinct(d), NEW g, NEW e, Distinct(e), NEW D,
           NEW n \in Names, FoundAlike(f, d, g, e, D, n)
    PROVE  ListingOf(f, d, D)[n] = ListingOf(g, e, D)[n]
<1>1. /\ \A t \in Slots : d[t].name = n <=> e[t].name = n
      /\ \A t \in Slots : d[t].name = n => Contents(f, d[t], D) = Contents(g, e[t], D)
    BY DEF FoundAlike
<1> QED
    BY <1>1, ListingSame

\* What the next boot would list, by name, from a FAT of which a part is new.
LEMMA TornListing ==
    ASSUME Ordinary, Seen, TearInv, pc = "sync", NEW n \in Names, NotWritten(n)
    PROVE  Listing[n] = ListingOf(fat, dirents, data)[n]
<1>1. /\ View(fat, dirents) /\ diskFat \in FAT /\ Distinct(dir) /\ Distinct(dirents)
      /\ BareNames = {}
    BY DEF Seen, Ordinary
<1>2. ASSUME NEW t \in Slots, dir[t].name = n
      PROVE  Contents(diskFat, dir[t], data) = Contents(fat, dirents[t], data)
    <2>1. LeadAlike(fat, diskFat, dirents[t]) /\ dir[t] = dirents[t]
        BY <1>2 DEF TearInv, OthersAlike, NotWritten
    <2>2. Contents(diskFat, dirents[t], data) = Contents(fat, dirents[t], data)
        BY <1>1, <2>1, AlikeReads
    <2> QED
        BY <2>1, <2>2
<1>3. FoundAlike(diskFat, dir, fat, dirents, data, n)
    BY <1>2 DEF FoundAlike, NotWritten
<1>4. ListingOf(diskFat, dir, data)[n] = ListingOf(fat, dirents, data)[n]
    BY <1>1, <1>3, ListingAlike
<1> QED
    BY <1>4 DEF Listing

LEMMA TornReads == ASSUME Ordinary, Known, FilesInv, TearInv PROVE TornFatKeepsFiles
<1> SUFFICES ASSUME sec > 0
             PROVE  \/ Listing = Expected
                    \/ /\ what = "file"
                       /\ \A n \in Names \ DOMAIN pending.new : Listing[n] = before[n]
                       /\ \A n \in DOMAIN pending.new :
                              Store!Mixes(Listing[n], before[n], Expected[n])
    BY DEF TornFatKeepsFiles
<1>1. Seen /\ pc = "sync" /\ what \in {"file", "dir"}
    BY KnownSeen DEF Known, SoundInv, Written, Seen
<1>2. CASE what = "dir"
    <2>1. dir = dirents /\ ListingOf(fat, dirents, data) = Expected
        BY <1>1, <1>2 DEF Known, SoundInv, Written, FilesInv, DirPhase
    <2>2. \A n \in Names : ListingOf(diskFat, dir, data)[n] = Expected[n]
        BY <1>1, <1>2, <2>1, TornListing DEF Listing, NotWritten
    <2>3. Expected = [n \in Names |-> Expected[n]]
        BY DEF Expected
    <2>4. Listing = Expected
        BY <2>2, <2>3, ListingsEqual DEF Listing
    <2> QED
        BY <2>4
<1>3. CASE what = "file"
    <2>1. PICK s \in Slots : FileView(s)
        BY <1>3 DEF FilesInv
    <2> DEFINE e == dirents[s]
               c == Contents(diskFat, dir[s], data)
               new == [i \in 1 .. e.size |-> [of |-> payload, n |-> i]]
    <2>2. /\ e.name \in Names /\ dir[s].name = e.name /\ DOMAIN pending.new = {e.name}
          /\ ChangedAt(dir, dirents, s) /\ pending = WriteOf(e.name, e.size, payload)
          /\ \A n \in Names \ {e.name} : ListingOf(fat, dirents, data)[n] = before[n]
        BY <2>1, <1>1, WrittenOnly DEF FileView, Kept
    <2>3. ASSUME NEW n \in Names \ DOMAIN pending.new
          PROVE  Listing[n] = before[n]
        <3>1. \A t \in Slots : t # s => dir[t] = dirents[t]
            BY <2>2 DEF ChangedAt
        <3>2. n \in Names /\ n # e.name /\ dir[s].name # n /\ dirents[s].name # n
            BY <2>2, <2>3
        <3>3. NotWritten(n)
            BY <2>3, <3>1, <3>2 DEF NotWritten
        <3>4. Listing[n] = ListingOf(fat, dirents, data)[n]
            BY <1>1, <3>2, <3>3, TornListing
        <3> QED
            BY <2>2, <3>2, <3>4
    <2>4. Listing[e.name] = c
        <3>1. BareNames = {} /\ Distinct(dir)
            BY <1>1 DEF Seen, Ordinary
        <3> QED
            BY <2>2, <3>1, ListingAt DEF Listing
    <2>5. Patched(c, before[e.name], payload, e.size)
        BY <1>1, <1>3, <2>2 DEF TearInv, OldFile
    <2>6. Expected[e.name] = new
        BY <2>2 DEF Expected, WriteOf
    <2>7. e.size \in Nat
        BY <1>1 DEF Seen, View, Directory, Dirent
    <2> HIDE DEF c, e
    <2>8. Len(new) = e.size /\ \A i \in 1 .. e.size : new[i] = [of |-> payload, n |-> i]
        BY <2>7
    <2>9. \A i \in 1 .. Len(c) : i <= e.size => i \in 1 .. e.size
        BY <2>7
    <2> HIDE DEF new
    <2>10. Store!Mixes(c, before[e.name], new)
        BY <2>5, <2>8, <2>9 DEF Store!Mixes, Patched
    <2> QED
        BY <1>3, <2>2, <2>3, <2>4, <2>6, <2>10
<1> QED
    BY <1>1, <1>2, <1>3

\* Should the power fail in the middle of the FAT, whatever sectors it has, all
\* files can be read off the card as they were or as the call makes them; the
\* one that a call is writing may mix its old blocks and its new ones.
THEOREM TornFatReads == ASSUME Ordinary PROVE FilesSpec => []TornFatKeepsFiles
<1>1. FilesInit => Known /\ FilesInv /\ TearInv
    BY KnownInit, FilesInvInit, TearInit DEF FilesInit
<1>2. Known /\ FilesInv /\ TearInv /\ [FilesNext]_<<vars, history>>
          => (Known /\ FilesInv /\ TearInv)'
    BY FilesInvNext, TearNext
<1>3. Known /\ FilesInv /\ TearInv => TornFatKeepsFiles
    BY TornReads
<1> QED
    BY <1>1, <1>2, <1>3, PTL DEF FilesSpec
==============================================================================
