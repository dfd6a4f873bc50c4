------------------------------ MODULE Fat32Read ------------------------------
(***************************************************************************)
(* Reading a file: fat32_read counts the clusters of the chain             *)
(* (get_cluster_chain_length), allocates a buffer for them and copies the  *)
(* clusters into it (read_cluster_chain), one iteration of a loop at a     *)
(* time, over any FAT in which the chain of the file is well formed.       *)
(***************************************************************************)
EXTENDS Integers, Sequences, FiniteSets

CONSTANT NEntries   \* fs->n_entries

FREE == 0
LAST == NEntries
Clusters == 2 .. (NEntries - 1)
Entries  == {FREE, LAST} \union Clusters

ASSUME NEntriesAssumption == NEntries \in Nat /\ NEntries > 2

VARIABLES
    fat,      \* fs->fat
    start,    \* matching_dir->cluster_id
    pc,
    entry,    \* the FAT entry get_cluster_chain_length looks at
    length,   \* chain_length, then n_clusters
    cur,      \* current_cluster
    buffer    \* the clusters copied, in order; the allocation holds length

vars == <<fat, start, pc, entry, length, cur, buffer>>

\* The chain that starts at c, as far as it goes (at most NEntries clusters).
Chain(f, c) ==
    LET from[n \in 0 .. NEntries] ==
          [x \in Entries |-> IF n = 0 \/ x \notin Clusters THEN <<>>
                             ELSE <<x>> \o from[n - 1][f[x]]]
    IN  from[NEntries][c]

WellFormed(f, c) ==
    \/ c = 0
    \/ \E n \in 1 .. NEntries - 1 : Len(Chain(f, c)) = n /\ f[Chain(f, c)[n]] = LAST

EndsChain_WrongType(e) == e = FREE

\* fat32_fat_entry_type(e) == LAST_CLUSTER
EndsChain(e) == e = LAST

FirstCount_Zero == 0

\* chain_length before the loop: the first cluster is counted already.
FirstCount == 1

Init ==
    /\ fat \in {f \in [0 .. NEntries - 1 -> Entries] : f[0] = LAST /\ f[1] = LAST}
    /\ start \in {0} \union Clusters
    /\ WellFormed(fat, start)
    /\ pc = "length" /\ entry = fat[start] /\ length = FirstCount
    /\ cur = start /\ buffer = <<>>

CountCluster ==
    /\ pc = "length"
    /\ \/ /\ EndsChain(entry)
          /\ pc' = "read" /\ UNCHANGED <<entry, length>>
       \/ /\ ~EndsChain(entry) /\ entry \in DOMAIN fat
          /\ length' = length + 1 /\ entry' = fat[entry] /\ UNCHANGED pc
    /\ UNCHANGED <<fat, start, cur, buffer>>

\* One cluster is copied; the loop ends when the type of the cluster number
\* itself, not of its FAT entry, is LAST_CLUSTER.
CopyCluster ==
    /\ pc = "read" /\ cur >= 2
    /\ buffer' = Append(buffer, cur)
    /\ IF EndsChain(cur) THEN pc' = "done" /\ UNCHANGED cur
                         ELSE cur' = fat[cur] /\ UNCHANGED pc
    /\ UNCHANGED <<fat, start, entry, length>>

\* The assertion of cluster_to_lba.
LbaAssertFails ==
    /\ pc = "read" /\ cur < 2
    /\ pc' = "panic"
    /\ UNCHANGED <<fat, start, entry, length, cur, buffer>>

Next == CountCluster \/ CopyCluster \/ LbaAssertFails

Spec == Init /\ [][Next]_vars /\ WF_vars(Next)
-----------------------------------------------------------------------------
\* The buffer that fat32_read hands out begins with the clusters of the file's
\* chain, in order, and its allocation counts exactly those.
ReadsTheChain ==
    pc = "done" => /\ length = Len(Chain(fat, start))
                   /\ SubSeq(buffer, 1, length) = Chain(fat, start)

\* Counting and copying end, for every well-formed chain and every empty file.
ReadEnds == <>(pc \in {"done", "panic"})

\* read_cluster_chain: "Assume the provided buffer is large enough for the
\* whole chain" (fat32.c:119), which get_cluster_chain_length is to ensure.
WithinBuffer == Len(buffer) <= length
=============================================================================
