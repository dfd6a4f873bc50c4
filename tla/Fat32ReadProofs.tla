--------------------------- MODULE Fat32ReadProofs ---------------------------
(***************************************************************************)
(* fat32_read hands out the whole file, for every FAT and every well-formed*)
(* chain in it.                                                            *)
(***************************************************************************)
EXTENDS Fat32Read, SequenceTheorems, WellFoundedInduction, TLAPS

\* Induction over the natural numbers, for a set of them: any others would have
\* a least one.
LEMMA SetInduction ==
    ASSUME NEW T, 0 \in T, \A k \in Nat : k \in T => k + 1 \in T
    PROVE  Nat \subseteq T
<1> SUFFICES ASSUME Nat \ T # {} PROVE FALSE
    OBVIOUS
<1> DEFINE R == OpToRel(<, Nat)
<1>1. IsWellFoundedOn(R, Nat)
    BY NatLessThanWellFounded
<1>2. \A x, y \in Nat : x < y => <<x, y>> \in R
    BY DEF OpToRel
<1> HIDE DEF R
<1>3. Nat \ T \subseteq Nat
    OBVIOUS
<1>4. \E x \in Nat \ T : \A y \in Nat \ T : ~(<<y, x>> \in R)
    BY <1>1, <1>3, WFMin
<1>5. PICK x \in Nat \ T : \A y \in Nat \ T : ~(<<y, x>> \in R)
    BY <1>4
<1>6. x # 0 /\ x \in Nat
    BY <1>5
<1>7. x - 1 \in Nat /\ x - 1 < x /\ (x - 1) + 1 = x
    BY <1>6
<1>8. x - 1 \notin T
    BY <1>5, <1>7
<1> QED
    BY <1>2, <1>5, <1>6, <1>7, <1>8

FAT == [0 .. NEntries - 1 -> Entries]

LEMMA EntryFacts ==
    /\ NEntries \in Nat /\ NEntries > 2
    /\ Clusters \subseteq 0 .. NEntries - 1 /\ Clusters \subseteq Entries
    /\ FREE \in Entries /\ LAST \in Entries /\ LAST \notin Clusters /\ FREE # LAST
    /\ 0 \notin Clusters /\ LAST >= 2 /\ \A c \in Clusters : c >= 2
BY NEntriesAssumption DEF Clusters, Entries, FREE, LAST

\* One more cluster in front of the chains that follow the entries.
After(f, h, x) == IF x \in Clusters THEN <<x>> \o h[f[x]] ELSE <<>>

\* The chains of at most m clusters, by their bound: what Chain recurs over.
Layers(h, f, m) ==
    /\ h \in [0 .. m -> [Entries -> Seq(Clusters)]]
    /\ \A x \in Entries : h[0][x] = <<>>
    /\ \A k \in 1 .. m, x \in Entries : h[k][x] = After(f, h[k - 1], x)

LEMMA LayersExist ==
    ASSUME NEW f \in FAT, NEW m \in Nat
    PROVE  \E h : Layers(h, f, m)
<1> DEFINE T == {k \in Nat : \E h : Layers(h, f, k)}
<1>1. 0 \in T
    <2> DEFINE h == [k \in 0 .. 0 |-> [x \in Entries |-> <<>>]]
    <2>1. [x \in Entries |-> <<>>] \in [Entries -> Seq(Clusters)]
        OBVIOUS
    <2>2. Layers(h, f, 0)
        BY <2>1 DEF Layers
    <2> QED
        BY <2>2
<1>2. ASSUME NEW k \in Nat, k \in T
      PROVE  k + 1 \in T
    <2>1. PICK h : Layers(h, f, k)
        BY <1>2
    <2>2. /\ h \in [0 .. k -> [Entries -> Seq(Clusters)]]
          /\ \A x \in Entries : h[0][x] = <<>>
          /\ \A i \in 1 .. k, x \in Entries : h[i][x] = After(f, h[i - 1], x)
        BY <2>1 DEF Layers
    <2> DEFINE top == [x \in Entries |-> After(f, h[k], x)]
               g == [i \in 0 .. k + 1 |-> IF i = k + 1 THEN top ELSE h[i]]
    <2>3. top \in [Entries -> Seq(Clusters)]
        <3> SUFFICES ASSUME NEW x \in Entries PROVE After(f, h[k], x) \in Seq(Clusters)
            OBVIOUS
        <3>1. CASE x \in Clusters
            <4>1. f[x] \in Entries
                BY <3>1, EntryFacts DEF FAT
            <4>2. h[k] \in [Entries -> Seq(Clusters)]
                BY <2>2
            <4>3. h[k][f[x]] \in Seq(Clusters) /\ <<x>> \in Seq(Clusters)
                BY <3>1, <4>1, <4>2
            <4>4. <<x>> \o h[k][f[x]] \in Seq(Clusters)
                BY <4>3, ConcatProperties
            <4> QED
                BY <3>1, <4>4 DEF After
        <3>2. CASE x \notin Clusters
            BY <3>2 DEF After
        <3> QED
            BY <3>1, <3>2
    <2> HIDE DEF top
    <2>4. g \in [0 .. k + 1 -> [Entries -> Seq(Clusters)]]
        BY <2>2, <2>3
    <2>5. \A i \in 0 .. k : g[i] = h[i]
        OBVIOUS
    <2>6. g[k + 1] = top
        OBVIOUS
    <2> HIDE DEF g
    <2>7. ASSUME NEW i \in 1 .. k + 1, NEW x \in Entries
          PROVE  g[i][x] = After(f, g[i - 1], x)
        <3>1. CASE i = k + 1
            <4>1. g[i] = top /\ g[i - 1] = h[k]
                BY <2>5, <2>6, <3>1
            <4> QED
                BY <4>1 DEF top
        <3>2. CASE i # k + 1
            <4>1. i \in 1 .. k /\ i \in 0 .. k /\ i - 1 \in 0 .. k
                BY <3>2
            <4> QED
                BY <2>2, <2>5, <4>1
        <3> QED
            BY <3>1, <3>2
    <2>8. Layers(g, f, k + 1)
        BY <2>2, <2>4, <2>5, <2>7 DEF Layers
    <2> QED
        BY <2>8
<1>3. Nat \subseteq T
    <2> HIDE DEF T
    <2> QED
        BY <1>1, <1>2, SetInduction
<1> QED
    BY <1>3

\* The recursive function of Chain exists, so that it obeys its equation.
LEMMA ChainFrom ==
    ASSUME NEW f \in FAT
    PROVE  \E v : /\ \A c : Chain(f, c) = v[NEntries][c]
                  /\ \A x \in Entries, n \in 0 .. NEntries :
                        v[n][x] = IF n = 0 \/ x \notin Clusters THEN <<>>
                                  ELSE <<x>> \o v[n - 1][f[x]]
<1> DEFINE From(g) == g = [n \in 0 .. NEntries |-> [x \in Entries |->
                         IF n = 0 \/ x \notin Clusters THEN <<>> ELSE <<x>> \o g[n - 1][f[x]]]]
           v == CHOOSE g : From(g)
<1>1. \A c : Chain(f, c) = v[NEntries][c]
    BY Zenon DEF Chain
<1>2. PICK h : Layers(h, f, NEntries)
    BY EntryFacts, LayersExist
<1>3. ASSUME NEW x \in Entries, NEW n \in 0 .. NEntries
      PROVE  h[n][x] = IF n = 0 \/ x \notin Clusters THEN <<>> ELSE <<x>> \o h[n - 1][f[x]]
    <2>1. CASE n = 0
        BY <1>2, <2>1 DEF Layers
    <2>2. CASE n # 0
        <3>1. n \in 1 .. NEntries
            BY <2>2, EntryFacts
        <3>2. h[n][x] = After(f, h[n - 1], x)
            BY <1>2, <3>1 DEF Layers
        <3> QED
            BY <2>2, <3>2 DEF After
    <2> QED
        BY <2>1, <2>2
<1>4. From(h)
    <2>1. h \in [0 .. NEntries -> [Entries -> Seq(Clusters)]]
        BY <1>2 DEF Layers
    <2>2. ASSUME NEW n \in 0 .. NEntries
          PROVE  h[n] = [x \in Entries |-> IF n = 0 \/ x \notin Clusters THEN <<>>
                                           ELSE <<x>> \o h[n - 1][f[x]]]
        BY <1>3, <2>1
    <2> QED
        BY <2>1, <2>2
<1>5. From(v)
    <2> HIDE DEF From
    <2> QED
        BY <1>4
<1> HIDE DEF v
<1>6. ASSUME NEW x \in Entries, NEW n \in 0 .. NEntries
      PROVE  v[n][x] = IF n = 0 \/ x \notin Clusters THEN <<>> ELSE <<x>> \o v[n - 1][f[x]]
    <2> DEFINE row == [y \in Entries |-> IF n = 0 \/ y \notin Clusters THEN <<>>
                                         ELSE <<y>> \o v[n - 1][f[y]]]
    <2>1. v[n] = row
        BY <1>5, Zenon
    <2>2. row[x] = IF n = 0 \/ x \notin Clusters THEN <<>> ELSE <<x>> \o v[n - 1][f[x]]
        OBVIOUS
    <2> HIDE DEF row
    <2> QED
        BY <2>1, <2>2
<1> QED
    BY <1>1, <1>6

\* The clusters of q follow each other in the FAT f, from x on.
Linked(f, q, x) ==
    /\ q \in Seq(Clusters)
    /\ Len(q) > 0 => q[1] = x
    /\ \A i \in 1 .. Len(q) - 1 : q[i + 1] = f[q[i]]

LEMMA OneMoreLinked ==
    ASSUME NEW f \in FAT, NEW x \in Clusters, NEW q, Linked(f, q, f[x])
    PROVE  Linked(f, <<x>> \o q, x) /\ Len(<<x>> \o q) = Len(q) + 1
<1> DEFINE r == <<x>> \o q
<1>1. q \in Seq(Clusters) /\ <<x>> \in Seq(Clusters) /\ Len(<<x>>) = 1 /\ Len(q) \in Nat
    BY DEF Linked
<1>2. /\ r \in Seq(Clusters) /\ Len(r) = Len(q) + 1
      /\ r[1] = x /\ \A i \in 1 .. Len(q) : r[i + 1] = q[i]
    BY <1>1
<1> HIDE DEF r
<1>3. ASSUME NEW i \in 1 .. Len(r) - 1
      PROVE  r[i + 1] = f[r[i]]
    <2>1. i \in 1 .. Len(q) /\ r[i + 1] = q[i]
        BY <1>1, <1>2
    <2>2. CASE i = 1
        BY <1>2, <2>1, <2>2 DEF Linked
    <2>3. CASE i # 1
        <3>1. i - 1 \in 1 .. Len(q) - 1 /\ (i - 1) + 1 = i /\ i - 1 \in 1 .. Len(q)
            BY <1>1, <2>1, <2>3
        <3>2. q[i] = f[q[i - 1]] /\ r[i] = q[i - 1]
            BY <1>2, <3>1 DEF Linked
        <3> QED
            BY <2>1, <3>2
    <2> QED
        BY <2>2, <2>3
<1>4. Linked(f, r, x)
    BY <1>2, <1>3 DEF Linked
<1> QED
    BY <1>2, <1>4 DEF r

\* A chain is linked in the FAT from its first cluster on.
LEMMA ChainLinked ==
    ASSUME NEW f \in FAT, NEW c \in Entries
    PROVE  /\ Linked(f, Chain(f, c), c)
           /\ c \in Clusters => Len(Chain(f, c)) > 0
<1>1. PICK v : /\ \A e : Chain(f, e) = v[NEntries][e]
               /\ \A x \in Entries, n \in 0 .. NEntries :
                     v[n][x] = IF n = 0 \/ x \notin Clusters THEN <<>>
                               ELSE <<x>> \o v[n - 1][f[x]]
    BY ChainFrom
<1> DEFINE Good(n) == \A x \in Entries : /\ Linked(f, v[n][x], x)
                                         /\ n > 0 /\ x \in Clusters => Len(v[n][x]) > 0
           T == {n \in Nat : n <= NEntries => Good(n)}
<1>2. \A x : Linked(f, <<>>, x)
    BY DEF Linked
<1>3. 0 \in T
    <2>1. 0 \in 0 .. NEntries
        BY EntryFacts
    <2>2. \A x \in Entries : v[0][x] = <<>>
        BY <1>1, <2>1
    <2> QED
        BY <1>2, <2>2
<1>4. ASSUME NEW n \in Nat, n \in T
      PROVE  n + 1 \in T
    <2> SUFFICES ASSUME n + 1 <= NEntries, NEW x \in Entries
                 PROVE  Linked(f, v[n + 1][x], x) /\ (x \in Clusters => Len(v[n + 1][x]) > 0)
        OBVIOUS
    <2>1. n + 1 \in 0 .. NEntries /\ n <= NEntries /\ n + 1 # 0 /\ (n + 1) - 1 = n
        BY EntryFacts
    <2>2. CASE x \notin Clusters
        <3>1. v[n + 1][x] = <<>>
            BY <1>1, <2>1, <2>2
        <3> QED
            BY <1>2, <2>2, <3>1
    <2>3. CASE x \in Clusters
        <3>1. v[n + 1][x] = <<x>> \o v[n][f[x]]
            BY <1>1, <2>1, <2>3
        <3>2. f[x] \in Entries
            BY <2>3, EntryFacts DEF FAT
        <3>3. Linked(f, v[n][f[x]], f[x])
            BY <1>4, <2>1, <3>2
        <3>4. Linked(f, v[n + 1][x], x) /\ Len(v[n + 1][x]) = Len(v[n][f[x]]) + 1
            BY <2>3, <3>1, <3>3, OneMoreLinked
        <3>5. Len(v[n][f[x]]) \in Nat
            BY <3>3 DEF Linked
        <3> QED
            BY <3>4, <3>5
    <2> QED
        BY <2>2, <2>3
<1>5. Nat \subseteq T
    <2> HIDE DEF T
    <2> QED
        BY <1>3, <1>4, SetInduction
<1>6. NEntries \in Nat /\ NEntries > 0
    BY EntryFacts
<1>7. Good(NEntries)
    BY <1>5, <1>6
<1>8. Chain(f, c) = v[NEntries][c]
    BY <1>1
<1> QED
    BY <1>6, <1>7, <1>8

-----------------------------------------------------------------------------
(***************************************************************************)
(* The invariant, with q for the file's chain.  get_cluster_chain_length   *)
(* has counted its first length clusters and looks at what follows them;   *)
(* read_cluster_chain has copied them in order, and one cluster more when  *)
(* it is done, since it tests the cluster number and not its FAT entry.    *)
(***************************************************************************)
Whole(q) == Linked(fat, q, start) /\ Len(q) > 0 /\ fat[q[Len(q)]] = LAST

Counting(q) == length \in 1 .. Len(q) /\ entry = fat[q[length]] /\ cur = start /\ buffer = <<>>

Copied(q) ==
    /\ length = Len(q) /\ buffer \in Seq(Entries)
    /\ \A i \in 1 .. Len(buffer) : i <= Len(q) => buffer[i] = q[i]

Copying(q) ==
    /\ Copied(q) /\ Len(buffer) <= Len(q)
    /\ cur = IF Len(buffer) = Len(q) THEN LAST ELSE q[Len(buffer) + 1]

ReadInv ==
    /\ fat \in FAT /\ start \in {0} \union Clusters
    /\ start = 0 => cur = 0 /\ pc # "done"
    /\ start # 0 => LET q == Chain(fat, start) IN
         /\ Whole(q)
         /\ pc = "length" => Counting(q)
         /\ pc = "read" => Copying(q)
         /\ pc = "done" => Copied(q) /\ Len(buffer) = Len(q) + 1

LEMMA ReadInit == Init => ReadInv
<1> SUFFICES ASSUME Init PROVE ReadInv
    OBVIOUS
<1>1. fat \in FAT /\ start \in {0} \union Clusters /\ pc = "length" /\ cur = start /\ buffer = <<>>
      /\ WellFormed(fat, start) /\ entry = fat[start] /\ length = 1
    BY DEF Init, FAT, FirstCount
<1>2. ASSUME start # 0
      PROVE  Whole(Chain(fat, start)) /\ Counting(Chain(fat, start))
    <2> DEFINE q == Chain(fat, start)
    <2>1. start \in Clusters /\ start \in Entries
        BY <1>1, <1>2, EntryFacts
    <2>2. Linked(fat, q, start) /\ Len(q) > 0
        BY <1>1, <2>1, ChainLinked
    <2>3. fat[q[Len(q)]] = LAST
        BY <1>1, <1>2 DEF WellFormed
    <2> HIDE DEF q
    <2>4. Len(q) \in Nat /\ q[1] = start
        BY <2>2 DEF Linked
    <2>5. Whole(q) /\ Counting(q)
        BY <1>1, <2>2, <2>3, <2>4 DEF Whole, Counting
    <2> QED
        BY <2>5 DEF q
<1> QED
    BY <1>1, <1>2 DEF ReadInv

\* Where a chain goes on after one of its clusters.
LEMMA NextFacts ==
    ASSUME fat \in FAT, NEW q, Whole(q), NEW i \in 1 .. Len(q)
    PROVE  /\ Len(q) \in Nat /\ q[i] \in Clusters /\ q[i] \in DOMAIN fat
           /\ i = Len(q) => fat[q[i]] = LAST
           /\ i < Len(q) => fat[q[i]] = q[i + 1] /\ fat[q[i]] # LAST /\ fat[q[i]] \in Clusters
<1>1. q \in Seq(Clusters) /\ Len(q) \in Nat /\ q[i] \in Clusters
    BY DEF Whole, Linked
<1>2. i = Len(q) => fat[q[i]] = LAST
    BY DEF Whole
<1>3. ASSUME i < Len(q)
      PROVE  fat[q[i]] = q[i + 1] /\ q[i + 1] \in Clusters
    <2>1. i \in 1 .. Len(q) - 1 /\ i + 1 \in 1 .. Len(q)
        BY <1>1, <1>3
    <2> QED
        BY <1>1, <2>1 DEF Whole, Linked
<1> QED
    BY <1>1, <1>2, <1>3, EntryFacts DEF FAT

LEMMA ReadNext == ReadInv /\ [Next]_vars => ReadInv'
<1> SUFFICES ASSUME ReadInv, [Next]_vars PROVE ReadInv'
    OBVIOUS
<1>1. CASE UNCHANGED vars
    BY <1>1 DEF vars, ReadInv, Whole, Counting, Copying, Copied
<1>2. CASE Next
    <2>1. fat' = fat /\ start' = start
        BY <1>2 DEF Next, CountCluster, CopyCluster, LbaAssertFails
    <2>2. CASE start = 0
        BY <1>2, <2>1, <2>2 DEF ReadInv, Next, CountCluster, CopyCluster, LbaAssertFails
    <2>3. CASE start # 0
        <3> DEFINE q == Chain(fat, start)
        <3> HIDE DEF q
        <3>1. /\ fat \in FAT /\ start \in Clusters /\ Whole(q)
              /\ pc = "length" => Counting(q)
              /\ pc = "read" => Copying(q)
              /\ pc = "done" => Copied(q) /\ Len(buffer) = Len(q) + 1
            BY <2>3 DEF ReadInv, q
        <3>2. Len(q) \in Nat /\ q' = q /\ Len(q) > 0
            BY <2>1, <3>1 DEF Whole, Linked, q
        <3>3. Whole(q)'
            BY <2>1, <3>1, <3>2 DEF Whole
        <3>4. SUFFICES /\ pc' = "length" => Counting(q)'
                       /\ pc' = "read" => Copying(q)'
                       /\ pc' = "done" => Copied(q)' /\ Len(buffer') = Len(q) + 1
            BY <2>1, <2>3, <3>1, <3>2, <3>3, <3>4 DEF ReadInv, q
        <3>5. CASE CountCluster
            <4>1. pc = "length" /\ UNCHANGED <<cur, buffer>> /\ buffer = <<>> /\ cur = start
                  /\ length \in 1 .. Len(q) /\ entry = fat[q[length]]
                BY <3>1, <3>5 DEF CountCluster, Counting
            <4>2. CASE EndsChain(entry)
                <5>1. length = Len(q)
                    <6>1. length < Len(q) => fat[q[length]] # LAST
                        BY <3>1, <4>1, NextFacts
                    <6> QED
                        BY <3>2, <4>1, <4>2, <6>1 DEF EndsChain
                <5>2. pc' = "read" /\ length' = length
                    BY <3>5, <4>2 DEF CountCluster
                <5>3. cur = q[1]
                    BY <3>1, <4>1 DEF Whole, Linked
                <5>4. Copying(q)'
                    BY <3>2, <4>1, <5>1, <5>2, <5>3 DEF Copying, Copied
                <5> QED
                    BY <5>2, <5>4
            <4>3. CASE ~EndsChain(entry)
                <5>1. length' = length + 1 /\ entry' = fat[entry] /\ pc' = "length"
                    BY <3>5, <4>1, <4>3 DEF CountCluster
                <5>2. length < Len(q) /\ entry = q[length + 1]
                    BY <3>1, <3>2, <4>1, <4>3, NextFacts DEF EndsChain
                <5>3. Counting(q)'
                    BY <2>1, <3>2, <4>1, <5>1, <5>2 DEF Counting
                <5> QED
                    BY <5>1, <5>3
            <4> QED
                BY <4>2, <4>3
        <3>6. CASE CopyCluster
            <4>1. /\ pc = "read" /\ buffer' = Append(buffer, cur) /\ length' = length
                  /\ length = Len(q) /\ buffer \in Seq(Entries) /\ Len(buffer) \in Nat
                  /\ \A i \in 1 .. Len(buffer) : i <= Len(q) => buffer[i] = q[i]
                  /\ Len(buffer) <= Len(q)
                  /\ cur = IF Len(buffer) = Len(q) THEN LAST ELSE q[Len(buffer) + 1]
                BY <3>1, <3>6 DEF CopyCluster, Copying, Copied
            <4>2. Len(buffer) < Len(q) => /\ Len(buffer) + 1 \in 1 .. Len(q)
                                          /\ cur = q[Len(buffer) + 1]
                BY <3>2, <4>1
            <4>3. Len(buffer) < Len(q) => cur \in Clusters
                BY <3>1, <4>2, NextFacts
            <4>4. cur \in Entries
                BY <3>2, <4>1, <4>3, EntryFacts
            <4>5. /\ buffer' \in Seq(Entries) /\ Len(buffer') = Len(buffer) + 1
                  /\ \A i \in 1 .. Len(buffer) : buffer'[i] = buffer[i]
                  /\ buffer'[Len(buffer) + 1] = cur
                BY <4>1, <4>4
            <4>6. Copied(q)'
                BY <3>2, <4>1, <4>2, <4>5 DEF Copied
            <4>7. CASE EndsChain(cur)
                <5>1. Len(buffer) = Len(q)
                    BY <3>2, <4>1, <4>3, <4>7, EntryFacts DEF EndsChain
                <5>2. pc' = "done"
                    BY <3>6, <4>7 DEF CopyCluster
                <5> QED
                    BY <4>5, <4>6, <5>1, <5>2
            <4>8. CASE ~EndsChain(cur)
                <5>1. Len(buffer) < Len(q) /\ cur' = fat[cur] /\ pc' = "read"
                    BY <3>2, <3>6, <4>1, <4>8 DEF CopyCluster, EndsChain
                <5>2. Len(buffer') <= Len(q)
                    BY <3>2, <4>1, <4>5, <5>1
                <5>3. cur' = IF Len(buffer') = Len(q) THEN LAST ELSE q[Len(buffer') + 1]
                    BY <3>1, <3>2, <4>1, <4>2, <4>5, <5>1, NextFacts
                <5>4. Copying(q)'
                    BY <3>2, <4>6, <5>2, <5>3 DEF Copying
                <5> QED
                    BY <5>1, <5>4
            <4> QED
                BY <4>7, <4>8
        <3>7. CASE LbaAssertFails
            BY <3>7 DEF LbaAssertFails
        <3> QED
            BY <1>2, <3>5, <3>6, <3>7 DEF Next
    <2> QED
        BY <2>2, <2>3
<1> QED
    BY <1>1, <1>2

LEMMA ReadDone == ReadInv => ReadsTheChain
<1> SUFFICES ASSUME ReadInv, pc = "done"
             PROVE  /\ length = Len(Chain(fat, start))
                    /\ SubSeq(buffer, 1, length) = Chain(fat, start)
    BY DEF ReadsTheChain
<1> DEFINE q == Chain(fat, start)
<1> HIDE DEF q
<1>1. q \in Seq(Clusters) /\ Copied(q) /\ Len(buffer) = Len(q) + 1
    BY DEF ReadInv, Whole, Linked, q
<1>2. /\ Len(q) \in Nat /\ length = Len(q) /\ buffer \in Seq(Entries)
      /\ \A i \in 1 .. Len(q) : buffer[i] = q[i]
    BY <1>1 DEF Copied
<1>3. SubSeq(buffer, 1, length) = q
    <2>1. SubSeq(buffer, 1, length) = [i \in 1 .. Len(q) |-> buffer[i]]
        BY <1>1, <1>2
    <2>2. q = [i \in 1 .. Len(q) |-> q[i]]
        BY <1>1
    <2> QED
        BY <1>2, <2>1, <2>2
<1> QED
    BY <1>2, <1>3 DEF q

\* When fat32_read returns, the buffer begins with the clusters of the file's
\* chain, in order, and the allocation counts exactly those.
THEOREM ReadIsWhole == Spec => []ReadsTheChain
BY ReadInit, ReadNext, ReadDone, PTL DEF Spec
=============================================================================
