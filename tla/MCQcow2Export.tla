--------------------------- MODULE MCQcow2Export ---------------------------
EXTENDS Qcow2Export

CONSTANTS
    Clusters,     \* clusters of the disks whose contents are enumerated
    MayDiscard    \* may the disk lack clusters its base has?

(* What a cluster holds: nothing, zeroes that were written, or data. *)
Hole == "hole"
Byte(c) == IF c = "data" THEN 1 ELSE 0

Bytes(contents, size) == [i \in 1..size |-> Byte(contents[(i - 1) \div ClusterSize + 1])]

(* The map of a disk: one extent per run of clusters that are alike in     *)
(* being there or not.                                                     *)
Starts(contents) ==
    {i \in DOMAIN contents : i = 1 \/ (i # 1 /\ (contents[i] = Hole) # (contents[i - 1] = Hole))}
MapOf(contents) ==
    LET starts == SetToSortSeq(Starts(contents), <) IN
    [k \in DOMAIN starts |->
        [start |-> (starts[k] - 1) * ClusterSize,
         length |-> ((IF k = Len(starts) THEN Len(contents) + 1 ELSE starts[k + 1]) - starts[k])
                        * ClusterSize,
         data |-> contents[starts[k]] # Hole]]

Job(disk, base, map, baseMap, dataFile) ==
    [disk |-> disk, base |-> base, map |-> map, baseMap |-> baseMap,
     dataFile |-> dataFile, refused |-> FALSE]

Contents(n) == [1..n -> {Hole, "zero", "data"}]
BaseContents(n) == [1..n -> {Hole, "data"}]
Pairs ==
    {<<c, b>> \in Contents(Clusters) \X UNION {BaseContents(n) : n \in {1, Clusters - 1, Clusters}} :
        MayDiscard \/ \A i \in DOMAIN b : b[i] # Hole => c[i] # Hole}
Whole(c) == Bytes(c, Len(c) * ClusterSize)

(* Disks that end within a cluster, and within a sector. *)
Short == {Bytes(c, 2 * ClusterSize + t) : c \in Contents(3), t \in {1, 2}} \cup {<<>>}

JobsValue ==
    {Job(Whole(p[1]), Some(Whole(p[2])), Some(MapOf(p[1])), Some(MapOf(p[2])), "none") : p \in Pairs}
    \cup {Job(Whole(p[1]), Some(Whole(p[2])), None, None, "none") : p \in Pairs}
    \cup {Job(Whole(c), None, Some(MapOf(c)), None, f) :
              c \in Contents(Clusters), f \in {"none", "external", "raw"}}
    \cup {Job(d, b, None, None, f) :
              d \in Short, b \in {None, Some(<<>>)}, f \in {"none", "external", "raw"}}
    \cup {Job(d, Some(Bytes(c, 5)), None, None, "none") : d \in Short \ {<<>>}, c \in BaseContents(2)}
    \cup {Job(Whole([i \in 1..Clusters |-> "data"]), Some(<<1>>),
              Some(MapOf([i \in 1..Clusters |-> "data"])), None, "none"),
          Job(Whole([i \in 1..(2 * Clusters) |-> "data"]), None, None, None, "none"),
          [Job(<<1>>, None, None, None, "none") EXCEPT !.refused = TRUE]}

ASSUME MapsAreTrue == MapsTrue /\ MapsInside /\ (~MayDiscard => NothingDiscarded)
=============================================================================
