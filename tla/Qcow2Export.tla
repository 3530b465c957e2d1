----------------------------- MODULE Qcow2Export -----------------------------
(***************************************************************************)
(* qcow2-to-stdout.py: writes a disk as a qcow2 image to a pipe.  Nothing  *)
(* written can be changed, so the clusters of every kind are counted       *)
(* before the first is written: one pass over the disk decides which data  *)
(* clusters the image has, the refcount blocks are counted until their own *)
(* number no longer changes, the offsets follow from the counts, and the   *)
(* tables and the data are written in file order.  A disk is a sequence of *)
(* bytes; offsets in the image are in clusters.                            *)
(***************************************************************************)
EXTENDS Integers, Sequences, FiniteSets, SequencesExt

CONSTANTS
    Jobs,             \* the calls: disk, base, maps, data file (see JobShape)
    SectorSize,       \* 512
    ClusterSize,      \* cluster_size
    EntriesPerTable,  \* cluster_size // 8: entries of an L1, L2 or refcount table
    RefcountsPerBlock,\* cluster_size * 8 // refcount_bits
    MaxL1Entries      \* 32 MB of L1 table

None == <<>>              \* an optional argument that is not given
Some(x) == <<x>>
Unset == -1               \* an entry of a table that is 0

IsMap(m) == m \in Seq([start : Nat, length : Nat, data : BOOLEAN])
JobShape(j) ==
    /\ j.disk \in Seq(Nat)
    /\ j.base = None \/ (DOMAIN j.base = {1} /\ j.base[1] \in Seq(Nat))
    /\ j.map = None \/ (DOMAIN j.map = {1} /\ IsMap(j.map[1]))
    /\ j.baseMap = None \/ (DOMAIN j.baseMap = {1} /\ IsMap(j.baseMap[1]))
    /\ j.dataFile \in {"none", "external", "raw"}    \* neither, -d, -R
    /\ j.refused \in BOOLEAN    \* a check of main fails

(* The base of a difference is an older, so not a larger, state of the disk. *)
ASSUME JobsAssumption ==
    \A j \in Jobs : JobShape(j) /\ (j.base # None => Len(j.base[1]) <= Len(j.disk))
ASSUME SizesAssumption ==
    /\ SectorSize \in Nat \ {0}
    /\ ClusterSize \in Nat \ {0} /\ ClusterSize % SectorSize = 0
    /\ EntriesPerTable \in Nat \ {0, 1}
    /\ RefcountsPerBlock \in Nat /\ RefcountsPerBlock >= EntriesPerTable
    /\ MaxL1Entries \in Nat

VARIABLES
    job,       \* the arguments
    phase,
    todo,      \* clusters the current loop has still to look at
    left,      \* diff_nonzero_clusters_set
    l1_bitmap, l2_bitmap,    \* the indices that are set
    allocated_l2_tables, allocated_data_clusters,
    total_allocated_clusters, allocated_refcount_blocks, allocated_refcount_tables,
    out        \* the clusters written

counts == <<total_allocated_clusters, allocated_refcount_blocks, allocated_refcount_tables>>
bitmaps == <<l1_bitmap, l2_bitmap, allocated_l2_tables, allocated_data_clusters>>
vars == <<job, phase, todo, left, bitmaps, counts, out>>

-----------------------------------------------------------------------------
DivUp(n, d) == (n + d - 1) \div d
AlignUp(n, d) == d * DivUp(n, d)

(* os.pread of a cluster: less than a cluster at the end of the disk. *)
Pread(bytes, idx) ==
    SubSeq(bytes, idx * ClusterSize + 1,
           IF (idx + 1) * ClusterSize < Len(bytes) THEN (idx + 1) * ClusterSize ELSE Len(bytes))
Pad(cluster) == cluster \o [i \in 1..(ClusterSize - Len(cluster)) |-> 0]
ZeroCluster == [i \in 1..ClusterSize |-> 0]

Base == job.base[1]        \* diff_file_name
ByMap == job.map # None
(* The size of the disk is the map's, which is exact, or the file's. *)
DiskSize == IF ByMap THEN Len(job.disk) ELSE AlignUp(Len(job.disk), SectorSize)
TotalDataClusters == DivUp(DiskSize, ClusterSize)
L1Entries == DivUp(TotalDataClusters, EntriesPerTable)
L1Tables == DivUp(L1Entries, EntriesPerTable)
LastCluster(bytes) == DivUp(Len(bytes), ClusterSize)

(* The number of indices set before this one: how far cur_offset has moved. *)
Before(bitmap, idx) == Cardinality({k \in bitmap : k < idx})

(* The indices that are set, as the loops over a bitmap meet them. *)
InOrder(bitmap) ==
    [i \in 1..Cardinality(bitmap) |-> CHOOSE k \in bitmap : Before(bitmap, k) = i - 1]

(* parse_json_files: from the first to the last whole cluster of each      *)
(* extent that has data.                                                   *)
ParseMap(map) ==
    LET data == InOrder({i \in DOMAIN map : map[i].data})
        extent(i) == map[data[i]]
    IN  [i \in DOMAIN data |-> <<extent(i).start \div ClusterSize,
                                 ((extent(i).start + extent(i).length) \div ClusterSize) - 1>>]

UpTo(l, r) == [i \in 1..(r - l + 1) |-> l + i - 1]
ClustersOf(intervals) ==
    FlattenSeq([i \in DOMAIN intervals |-> UpTo(intervals[i][1], intervals[i][2])])

(* The clusters of which a map says that they have data. *)
Listed(map) == LET clusters == ClustersOf(ParseMap(map)) IN {clusters[i] : i \in DOMAIN clusters}

(* Interval: sorted by their first clusters. *)
Interval(intervals) == SortSeq(intervals, LAMBDA a, b : a[1] < b[1])

(* Interval.__contains__: the binary search narrows the range r until its  *)
(* middle holds the cluster or nothing is left.                            *)
Within(iv, c) == iv[1] <= c /\ c <= iv[2]
Middle(r) == (r[1] + r[2]) \div 2
Narrowed(ivs, c, r) ==
    IF r[1] > r[2] \/ Within(ivs[Middle(r)], c) THEN r
    ELSE IF c < ivs[Middle(r)][1] THEN <<r[1], Middle(r) - 1>> ELSE <<Middle(r) + 1, r[2]>>

(* Which interval the cluster is in, 0 when in none. *)
Search(ivs, c) ==
    LET round[k \in 0..Len(ivs)] ==
            IF k = 0 THEN <<1, Len(ivs)>> ELSE Narrowed(ivs, c, round[k - 1])
        r == round[Len(ivs)]
    IN  IF ivs = <<>> \/ Last(ivs)[2] < c \/ ivs[1][1] > c \/ r[1] > r[2] THEN 0 ELSE Middle(r)

(* What is left of the intervals when the cluster is taken from one. *)
Take(ivs, at, c) ==
    LET l == ivs[at][1]
        r == ivs[at][2]
    IN  IF c = l /\ c = r THEN RemoveAt(ivs, at)
        ELSE IF c = l THEN ReplaceAt(ivs, at, <<l + 1, r>>)
        ELSE IF c = r THEN ReplaceAt(ivs, at, <<l, r - 1>>)
        ELSE ReplaceAt(InsertAt(ivs, at + 1, <<c + 1, r>>), at, <<l, c>>)

(* What qemu-img says of its disks: the extents of a map are in order, and  *)
(* a cluster that none of them has in full reads as zeroes.                *)
MapTrue(map, bytes) ==
    /\ Interval(ParseMap(map)) = ParseMap(map)
    /\ \A idx \in 0..(LastCluster(bytes) - 1) :
          idx \in Listed(map) \/ Pad(Pread(bytes, idx)) = ZeroCluster
MapsTrue ==
    \A j \in Jobs :
        /\ j.map # None => MapTrue(j.map[1], j.disk)
        /\ j.baseMap # None /\ j.base # None => MapTrue(j.baseMap[1], j.base[1])

(* The extents follow one another and end with the disk. *)
MapInside(map, bytes) ==
    /\ \A i \in DOMAIN map : map[i].start + map[i].length <= Len(bytes)
    /\ \A i, k \in DOMAIN map : i < k => map[i].start + map[i].length <= map[k].start
MapsInside ==
    \A j \in Jobs :
        /\ j.map # None => MapInside(j.map[1], j.disk)
        /\ j.baseMap # None /\ j.base # None => MapInside(j.baseMap[1], j.base[1])

(* No disk lacks a cluster that its base has. *)
NothingDiscarded ==
    \A j \in Jobs :
        j.map # None /\ j.baseMap # None /\ j.base # None
            => Listed(j.baseMap[1]) \subseteq Listed(j.map[1])

-----------------------------------------------------------------------------
Init ==
    /\ job \in Jobs
    /\ phase = "start" /\ todo = <<>> /\ left = <<>>
    /\ l1_bitmap = {} /\ l2_bitmap = {}
    /\ allocated_l2_tables = 0 /\ allocated_data_clusters = 0
    /\ total_allocated_clusters = 0
    /\ allocated_refcount_blocks = 0 /\ allocated_refcount_tables = 0
    /\ out = <<>>

(* sys.exit or an exception: a check of main, the size of the L1 table, or *)
(* a difference by maps without the map of the base.                       *)
Fail ==
    /\ phase = "start"
    /\ \/ job.refused
       \/ L1Entries > MaxL1Entries
       \/ job.dataFile # "raw" /\ ByMap /\ job.base # None /\ job.baseMap = None
    /\ phase' = "failed"
    /\ UNCHANGED <<job, todo, left, bitmaps, counts, out>>

Accepted == phase = "start" /\ ~job.refused /\ L1Entries <= MaxL1Entries

(* data_file_raw: every cluster is there. *)
AllocateRaw ==
    /\ Accepted /\ job.dataFile = "raw"
    /\ l1_bitmap' = 0..(L1Entries - 1) /\ allocated_l2_tables' = L1Entries
    /\ l2_bitmap' = 0..(TotalDataClusters - 1)
    /\ phase' = "count"
    /\ UNCHANGED <<job, todo, left, allocated_data_clusters, counts, out>>

StartByMap ==
    /\ Accepted /\ job.dataFile # "raw" /\ ByMap
    /\ \/ job.base = None /\ phase' = "map" /\ UNCHANGED left
       \/ /\ job.base # None /\ job.baseMap # None
          /\ phase' = "mapDiff"
          /\ left' = Interval(ParseMap(job.baseMap[1]))
    /\ todo' = ClustersOf(ParseMap(job.map[1]))
    /\ UNCHANGED <<job, bitmaps, counts, out>>

StartByReading ==
    /\ Accepted /\ job.dataFile # "raw" /\ ~ByMap
    /\ phase' = "read"
    /\ todo' = UpTo(0, LastCluster(job.disk) - 1)
    /\ UNCHANGED <<job, left, bitmaps, counts, out>>

(* An allocated cluster has an L2 entry, and needs its L2 table. *)
AllocateCluster(idx) ==
    LET l1_idx == idx \div EntriesPerTable IN
    /\ l2_bitmap' = l2_bitmap \cup {idx}
    /\ allocated_data_clusters' = allocated_data_clusters + 1
    /\ l1_bitmap' = l1_bitmap \cup {l1_idx}
    /\ allocated_l2_tables' =
           IF l1_idx \in l1_bitmap THEN allocated_l2_tables ELSE allocated_l2_tables + 1

(* check_cluster_allocate: only the disk's cluster is padded. *)
CheckClusterAllocate(idx, other) ==
    IF Pad(Pread(job.disk, idx)) # other THEN AllocateCluster(idx) ELSE UNCHANGED bitmaps

NextCluster == todo' = Tail(todo) /\ UNCHANGED <<job, phase, counts, out>>

ReadClusterPastBase(idx) ==    \* mutant: the rest of the disk is not read
    /\ phase = "read" /\ todo # <<>> /\ idx = Head(todo)
    /\ IF job.base # None
       THEN IF idx < LastCluster(Base) THEN CheckClusterAllocate(idx, Pread(Base, idx))
            ELSE UNCHANGED bitmaps
       ELSE CheckClusterAllocate(idx, ZeroCluster)
    /\ NextCluster /\ UNCHANGED left
(* Without maps: compared with the base, with zeroes where it has ended or *)
(* there is none.                                                          *)
ReadCluster(idx) ==
    /\ phase = "read" /\ todo # <<>> /\ idx = Head(todo)
    /\ IF job.base # None /\ idx < LastCluster(Base)
       THEN CheckClusterAllocate(idx, Pread(Base, idx))
       ELSE CheckClusterAllocate(idx, ZeroCluster)
    /\ NextCluster /\ UNCHANGED left

MapCluster(idx) ==
    /\ phase \in {"map", "leftover"} /\ todo # <<>> /\ idx = Head(todo)
    /\ AllocateCluster(idx)
    /\ NextCluster /\ UNCHANGED left

MapDiffClusterKeeps(idx) ==    \* mutant: "in" does not take the cluster out of the set
    /\ phase = "mapDiff" /\ todo # <<>> /\ idx = Head(todo)
    /\ LET at == Search(left, idx) IN
       IF idx < LastCluster(Base) /\ at # 0
       THEN CheckClusterAllocate(idx, Pread(Base, idx))
       ELSE AllocateCluster(idx)
    /\ NextCluster /\ UNCHANGED left
(* With both maps: a cluster both have is compared, and taken from the set *)
(* of the base's.                                                          *)
MapDiffCluster(idx) ==
    /\ phase = "mapDiff" /\ todo # <<>> /\ idx = Head(todo)
    /\ LET at == IF idx >= LastCluster(Base) THEN 0 ELSE Search(left, idx) IN
       IF at # 0
       THEN /\ left' = Take(left, at, idx)
            /\ CheckClusterAllocate(idx, Pread(Base, idx))
       ELSE AllocateCluster(idx) /\ UNCHANGED left
    /\ NextCluster

(* What is left of the base's set is not in the disk, and is written too. *)
StartLeftover ==
    /\ phase = "mapDiff" /\ todo = <<>>
    /\ todo' = ClustersOf(left) /\ phase' = "leftover"
    /\ UNCHANGED <<job, left, bitmaps, counts, out>>

EndLoop ==
    /\ phase \in {"read", "map", "leftover"} /\ todo = <<>>
    /\ phase' = "count"
    /\ UNCHANGED <<job, todo, left, bitmaps, counts, out>>

-----------------------------------------------------------------------------
(* The refcount blocks and the table of them count clusters, and are       *)
(* clusters to count.                                                      *)
CountClusters ==
    /\ phase = "count"
    /\ total_allocated_clusters' = 1 + L1Tables + allocated_l2_tables
           + (IF job.dataFile = "none" THEN allocated_data_clusters ELSE 0)
    /\ allocated_refcount_blocks' = DivUp(total_allocated_clusters', RefcountsPerBlock)
    /\ allocated_refcount_tables' = DivUp(allocated_refcount_blocks', EntriesPerTable)
    /\ phase' = "grow"
    /\ UNCHANGED <<job, todo, left, bitmaps, out>>

GrowRefcountsOnce ==    \* mutant: no second look
    /\ phase = "grow"
    /\ total_allocated_clusters' =
           total_allocated_clusters + allocated_refcount_tables + allocated_refcount_blocks
    /\ phase' = "header"
    /\ UNCHANGED <<job, todo, left, bitmaps, allocated_refcount_blocks, allocated_refcount_tables, out>>
GrowRefcountsAlways ==    \* mutant: >= for >
    /\ phase = "grow"
    /\ LET total == total_allocated_clusters + allocated_refcount_tables + allocated_refcount_blocks
           blocks == DivUp(total, RefcountsPerBlock)
       IN  /\ blocks >= allocated_refcount_blocks
           /\ allocated_refcount_blocks' = blocks
           /\ allocated_refcount_tables' = DivUp(blocks, EntriesPerTable)
    /\ UNCHANGED <<job, phase, todo, left, bitmaps, total_allocated_clusters, out>>
GrowRefcounts ==
    /\ phase = "grow"
    /\ LET total == total_allocated_clusters + allocated_refcount_tables + allocated_refcount_blocks
           blocks == DivUp(total, RefcountsPerBlock)
       IN  IF blocks > allocated_refcount_blocks
           THEN /\ allocated_refcount_blocks' = blocks
                /\ allocated_refcount_tables' = DivUp(blocks, EntriesPerTable)
                /\ UNCHANGED <<phase, total_allocated_clusters>>
           ELSE /\ total_allocated_clusters' = total
                /\ phase' = "header"
                /\ UNCHANGED <<allocated_refcount_blocks, allocated_refcount_tables>>
    /\ UNCHANGED <<job, todo, left, bitmaps, out>>

(* The layout: header, refcount table, refcount blocks, L1, L2, data. *)
RefcountTableOffset == 1
RefcountBlockOffset == RefcountTableOffset + allocated_refcount_tables
L1TableOffset == RefcountBlockOffset + allocated_refcount_blocks
L2TableOffset == L1TableOffset + L1Tables
DataClustersOffset == L2TableOffset + allocated_l2_tables

Write(clusters, from, to) ==
    /\ phase = from /\ phase' = to
    /\ out' = out \o clusters
    /\ UNCHANGED <<job, todo, left, bitmaps, counts>>

(* The header's feature bits and extensions: whether the data is in a file *)
(* of its own, and whether that file is raw.                               *)
Features == [data_file |-> job.dataFile # "none", raw |-> job.dataFile = "raw"]

WriteHeader ==
    Write(<<[disk_size |-> DiskSize, l1_entries |-> L1Entries,
             l1_table |-> IF L1Tables = 0 THEN 0 ELSE L1TableOffset,
             refcount_table |-> RefcountTableOffset,
             refcount_tables |-> allocated_refcount_tables,
             features |-> Features]>>,
          "header", "refcountTable")

(* Each table is a cluster of entries, the last one padded with 0. *)
Tables(n, entries) ==
    [t \in 1..n |-> [i \in 1..EntriesPerTable |-> entries[(t - 1) * EntriesPerTable + i - 1]]]

EntriesOf(n) == 0..(n * EntriesPerTable - 1)

WriteRefcountTable ==
    Write(Tables(allocated_refcount_tables,
                 [k \in EntriesOf(allocated_refcount_tables) |->
                     IF k < allocated_refcount_blocks THEN RefcountBlockOffset + k ELSE Unset]),
          "refcountTable", "refcountBlocks")

(* One count of 1 for each cluster of the image. *)
WriteRefcountBlocks ==
    Write([b \in 1..allocated_refcount_blocks |->
              [i \in 1..RefcountsPerBlock |->
                  IF (b - 1) * RefcountsPerBlock + i - 1 < total_allocated_clusters THEN 1 ELSE 0]],
          "refcountBlocks", "l1")

WriteL1Table ==
    Write(Tables(L1Tables,
                 [k \in EntriesOf(L1Tables) |->
                     IF k \in l1_bitmap THEN L2TableOffset + Before(l1_bitmap, k) ELSE Unset]),
          "l1", "l2")

L2Entry(idx) ==
    IF idx \notin l2_bitmap THEN Unset
    ELSE IF job.dataFile = "none" THEN DataClustersOffset + Before(l2_bitmap, idx)
    ELSE idx

WriteL2Tables ==
    Write(LET tables == Tables(L1Entries, [k \in EntriesOf(L1Entries) |-> L2Entry(k)])
              set == InOrder(l1_bitmap)
          IN  [i \in DOMAIN set |-> tables[set[i] + 1]],
          "l2", "data")

WriteDataClusters ==
    Write(IF job.dataFile # "none" THEN <<>>
          ELSE LET set == InOrder(l2_bitmap \cap (0..(TotalDataClusters - 1)))
               IN  [i \in DOMAIN set |-> Pad(Pread(job.disk, set[i]))],
          "data", "done")

Next ==
    \/ Fail \/ AllocateRaw \/ StartByMap \/ StartByReading
    \/ \E idx \in 0..TotalDataClusters : ReadCluster(idx)
    \/ \E idx \in 0..TotalDataClusters : MapCluster(idx)
    \/ \E idx \in 0..TotalDataClusters : MapDiffCluster(idx)
    \/ StartLeftover \/ EndLoop
    \/ CountClusters \/ GrowRefcounts
    \/ WriteHeader \/ WriteRefcountTable \/ WriteRefcountBlocks
    \/ WriteL1Table \/ WriteL2Tables \/ WriteDataClusters

(* One sequential program, which nothing but its pipe delays. *)
Spec == Init /\ [][Next]_vars /\ WF_vars(Next)

-----------------------------------------------------------------------------
(* The image as its reader sees it, by the qcow2 format (external).        *)
Cluster(n) == out[n + 1]
TableEntry(table, k) == Cluster(table + (k \div EntriesPerTable))[(k % EntriesPerTable) + 1]
ImgL1(k) == TableEntry(Cluster(0).l1_table, k)
ImgL2(idx) ==
    LET l2 == ImgL1(idx \div EntriesPerTable) IN
    IF l2 = Unset THEN Unset ELSE TableEntry(l2, idx % EntriesPerTable)
(* The entry is a place in the image, or in the data file, which is the disk. *)
ImgData(idx) ==
    IF Cluster(0).features.data_file THEN Pad(Pread(job.disk, ImgL2(idx)))
    ELSE Cluster(ImgL2(idx))
ImgRefcount(n) ==
    LET block == n \div RefcountsPerBlock
        at == IF block < Cluster(0).refcount_tables * EntriesPerTable
              THEN TableEntry(Cluster(0).refcount_table, block) ELSE Unset
    IN  IF at = Unset THEN 0 ELSE Cluster(at)[(n % RefcountsPerBlock) + 1]

Done == phase = "done"
GuestClusters == 0..(TotalDataClusters - 1)

(* The image gives the disk back: a cluster it has is the disk's, and one  *)
(* it leaves out is the base's, or zero where there is no base, whichever  *)
(* way the clusters were chosen (write_qcow2_content).                     *)
Restores ==
    Done => \A idx \in GuestClusters :
        LET beneath == IF job.base = None \/ (job.base # None /\ idx >= LastCluster(Base))
                       THEN ZeroCluster ELSE Pad(Pread(Base, idx))
        IN  (IF ImgL2(idx) = Unset THEN beneath ELSE ImgData(idx)) = Pad(Pread(job.disk, idx))

(* "At this point we have the exact number of clusters that the output     *)
(* image is going to use": the refcount of a cluster is the number of      *)
(* times the header and the tables refer to it, 1 for every cluster of the *)
(* file and 0 for all that the blocks have room for beyond it.             *)
RefcountsTrue ==
    Done =>
    LET h == Cluster(0)
        blocks == {k \in 0..(h.refcount_tables * EntriesPerTable - 1) :
                      TableEntry(h.refcount_table, k) # Unset}
        l1s == {k \in 0..(L1Entries - 1) : ImgL1(k) # Unset}
        l2s == IF job.dataFile # "none" THEN {}
               ELSE {k \in 0..(L1Entries * EntriesPerTable - 1) : ImgL2(k) # Unset}
        Uses(n) == (IF n = 0 THEN 1 ELSE 0)
            + (IF n - h.refcount_table \in 0..(h.refcount_tables - 1) THEN 1 ELSE 0)
            + Cardinality({k \in blocks : TableEntry(h.refcount_table, k) = n})
            + (IF n # 0 /\ n - h.l1_table \in 0..(L1Tables - 1) THEN 1 ELSE 0)
            + Cardinality({k \in l1s : ImgL1(k) = n})
            + Cardinality({k \in l2s : ImgL2(k) = n})
    IN  \A n \in ((0..Len(out)) \cup 0..(Cardinality(blocks) * RefcountsPerBlock)) :
            /\ ImgRefcount(n) = Uses(n)
            /\ Uses(n) = IF n < Len(out) THEN 1 ELSE 0

(* "will only export clusters that are different between the files": a     *)
(* cluster that both disks have in full, and both maps list if there are   *)
(* maps, is left out when it is the same in both.                          *)
OnlyDifferences ==
    (Done /\ job.base # None /\ job.dataFile # "raw") =>
        \A idx \in GuestClusters :
            (/\ (idx + 1) * ClusterSize <= Len(Base)
             /\ Pread(job.disk, idx) = Pread(Base, idx)
             /\ ByMap => idx \in Listed(job.map[1]) /\ idx \in Listed(job.baseMap[1]))
            => ImgL2(idx) = Unset

(* The program ends: the loops over clusters do, and so does the one that  *)
(* counts refcount blocks until nothing changes.                           *)
Ends == <>(phase \in {"done", "failed"})
=============================================================================
