------------------------------ MODULE Assembly ------------------------------
(***************************************************************************)
(* The rows behind the positions of Cut: the scans the walk reads, the     *)
(* ranges of them that wait (src/walk/cut.rs), and the parts assembled     *)
(* from the ranges a seal drains (src/walk/assemble.rs and                 *)
(* src/manifest/part.rs).                                                  *)
(*                                                                         *)
(* Every action is one of Cut's with what its handler does to the rows, or *)
(* a step Cut does not see.  A scan is the items the walk has visited of   *)
(* it, and is known by its place in scans, as the code knows one by the    *)
(* address of its rows.  A name, and its text index in a part, is the path *)
(* component it stands for.                                                *)
(***************************************************************************)
EXTENDS Cut, FiniteSets, SequencesExt

CONSTANTS
    MaxSkipped,  \* bound: items that are no rows
    MaxLater     \* bound: later scans of large directories

ASSUME AssemblyAssumption == MaxSkipped \in Nat /\ MaxLater \in Nat

VARIABLES
    scans,       \* the items of each scan that the walk has visited
    reading,     \* the scan each open directory is read from
    waiting,     \* the ranges of rows that are not in a part yet
    built        \* history: the parts the sink has accepted, as assembled

rowVars == <<scans, reading, waiting, built>>

Item(kind, name) == [kind |-> kind, name |-> name]

\* An entry that is skipped, or failed under Skip.
Skipped == Item("skipped", 0)

IsRow(item) == item.kind # "skipped"

-----------------------------------------------------------------------------
(* Waiting rows.                                                           *)

\* The items of a range, when found is what the scans have.
ItemsOf(found, range) == SubSeq(found[range.rows], range.from + 1, range.to)

RangeOf(scan, index, depth) ==
    [rows |-> scan, from |-> index, to |-> index + 1, depth |-> depth, count |-> 1]

\* The range ends right before this item of the same directory.
GoesOn(range, scan, index, depth) ==
    range.to = index /\ range.depth = depth /\ range.rows = scan

\* The waiting rows with the next item of the top level.
Extended ==
    LET scan == reading[Top]
        index == Len(scans[scan])
    IN  IF waiting # <<>> /\ GoesOn(Last(waiting), scan, index, Top - 1)
        THEN Front(waiting) \o
                 <<[Last(waiting) EXCEPT !.to = index + 1, !.count = @ + 1]>>
        ELSE Append(waiting, RangeOf(scan, index, Top - 1))

\* The rows of the first k ranges.
Counts(ranges) ==
    LET sum[k \in 0..Len(ranges)] == IF k = 0 THEN 0 ELSE sum[k - 1] + ranges[k].count
    IN  sum

\* The rows among the first n items.
Seen(items) ==
    LET seen[n \in 0..Len(items)] ==
            IF n = 0 THEN 0 ELSE seen[n - 1] + (IF IsRow(items[n]) THEN 1 ELSE 0)
    IN  seen

\* Where the first n rows of a range end in its scan.
EndOfRows(found, range, n) ==
    LET items == found[range.rows]
    IN  CHOOSE at \in range.from..range.to :
            /\ Seen(items)[at] - Seen(items)[range.from] = n
            /\ at > range.from => IsRow(items[at])

\* Mutant: the row at the split is in both halves.
SplitOffFrontTwice(found, range, n) ==
    LET at == EndOfRows(found, range, n)
    IN  [front |-> [range EXCEPT !.to = at, !.count = n],
         rest |-> [range EXCEPT !.from = at - 1, !.count = @ - n]]

SplitOffFront(found, range, n) ==
    LET at == EndOfRows(found, range, n)
    IN  [front |-> [range EXCEPT !.to = at, !.count = n],
         rest |-> [range EXCEPT !.from = at, !.count = @ - n]]

\* The first n rows of the ranges, and the others.
Drain(found, ranges, n) ==
    LET whole == CHOOSE k \in 0..Len(ranges) :
                     /\ Counts(ranges)[k] <= n
                     /\ k < Len(ranges) => Counts(ranges)[k + 1] > n
        left == n - Counts(ranges)[whole]
        split == SplitOffFront(found, ranges[whole + 1], left)
    IN  IF left = 0
        THEN [sources |-> SubSeq(ranges, 1, whole),
              rest |-> SubSeq(ranges, whole + 1, Len(ranges))]
        ELSE [sources |-> Append(SubSeq(ranges, 1, whole), split.front),
              rest |-> <<split.rest>> \o SubSeq(ranges, whole + 2, Len(ranges))]

-----------------------------------------------------------------------------
(* Parts: push_stem, push_directory, push_file and push_symlink, and the   *)
(* node of the directory that holds the rows of each depth.                *)

EmptyPart(stem) ==
    [stem |-> stem, directories |-> <<>>, files |-> <<>>, symlinks |-> <<>>,
     nodes |-> [k \in 1..(Len(stem) + 1) |-> k - 1]]

Row(parent, item) == [parent |-> parent, name |-> <<item.name>>]

DirectoryNode(part, index) == 1 + Len(part.stem) + index

NodesWith(nodes, depth, node) == Append(SubSeq(nodes, 1, depth + 1), node)

\* Adds an entry of the directory at depth.
Push(part, item, depth) ==
    LET row == Row(part.nodes[depth + 1], item)
    IN  CASE item.kind = "directory" ->
                 [part EXCEPT
                     !.directories = Append(@, row),
                     !.nodes = NodesWith(@, depth, DirectoryNode(part, Len(part.directories)))]
          [] item.kind = "file" -> [part EXCEPT !.files = Append(@, row)]
          [] item.kind = "symlink" -> [part EXCEPT !.symlinks = Append(@, row)]
          [] item.kind = "skipped" -> part

\* Adds the items of a range, one after the other.
PushAll(part, items, depth) ==
    LET pushed[n \in 0..Len(items)] ==
            IF n = 0 THEN part ELSE Push(pushed[n - 1], items[n], depth)
    IN  pushed[Len(items)]

Assemble(found, stem, sources) ==
    LET made[k \in 0..Len(sources)] ==
            IF k = 0 THEN EmptyPart(stem)
            ELSE PushAll(made[k - 1], ItemsOf(found, sources[k]), sources[k].depth)
    IN  made[Len(sources)]

\* What a handler seals of ranges, which has its row: those that its action in
\* Cut moves base over.
SealFrom(ranges) ==
    LET drained == Drain(scans', ranges, base' - base)
    IN  IF base' = base
        THEN waiting' = ranges /\ UNCHANGED built
        ELSE /\ waiting' = drained.rest
             /\ built' = IF parts' = parts THEN built
                         ELSE Append(built, Assemble(scans', Last(parts').stem, drained.sources))

-----------------------------------------------------------------------------
(* The run loop.                                                           *)

Visited(item) == [scans EXCEPT ![reading[Top]] = Append(@, item)]

AssemblyInit ==
    /\ Init
    /\ scans = <<>> /\ reading = <<>>
    /\ waiting = <<>> /\ built = <<>>

StartScan ==
    /\ Start
    /\ IF pc' = "visit"
       THEN scans' = <<<<>>>> /\ reading' = <<1>>
       ELSE UNCHANGED <<scans, reading>>
    /\ UNCHANGED <<waiting, built>>

LeafRow(bytes) ==
    /\ Leaf(bytes)
    /\ \E kind \in {"file", "symlink"} : scans' = Visited(Item(kind, position))
    /\ SealFrom(Extended)
    /\ UNCHANGED reading

EnterRow(bytes) ==
    /\ Enter(bytes)
    /\ LET found == Visited(Item("directory", position))
       IN  IF pc' = "budget"
           THEN scans' = Append(found, <<>>) /\ reading' = Append(reading, Len(found) + 1)
           ELSE scans' = found /\ UNCHANGED reading
    /\ SealFrom(Extended)

SkippedItems == SelectSeq(FlattenSeq(scans), LAMBDA item : ~IsRow(item))

\* An item that is no row.  The scan has counted it.
SkippedItem ==
    /\ Visiting
    /\ Len(SkippedItems) < MaxSkipped
    /\ scans' = Visited(Skipped)
    /\ UNCHANGED <<vars, reading, waiting, built>>

Directories == {p \in DOMAIN rows : rows[p].dir}

\* Mutant: the path is cut back to the directory above.
ReadOnAbove ==
    /\ Visiting
    /\ Len(scans) <= Cardinality(Directories) + MaxLater
    /\ scans' = Append(scans, <<>>)
    /\ reading' = [reading EXCEPT ![Top] = Len(scans')]
    /\ path' = SubSeq(path, 1, stack[Top].path_len - 1)
    /\ UNCHANGED <<pc, stack, base, position, total, measuring, completed, offers, rows, parts>>
    /\ UNCHANGED <<waiting, built>>

\* The scan is used up, and the next one of the same directory replaces it.
ReadOn ==
    /\ Visiting
    /\ Len(scans) <= Cardinality(Directories) + MaxLater
    /\ scans' = Append(scans, <<>>)
    /\ reading' = [reading EXCEPT ![Top] = Len(scans')]
    /\ path' = SubSeq(path, 1, stack[Top].path_len)
    /\ UNCHANGED <<pc, stack, base, position, total, measuring, completed, offers, rows, parts>>
    /\ UNCHANGED <<waiting, built>>

\* Splitting reads nothing.
Cutting ==
    /\ Split \/ Offer
    /\ UNCHANGED <<scans, reading>>
    /\ SealFrom(waiting)

Finishing ==
    /\ FinishRoot \/ FinishSplit \/ FinishMeasured
    /\ UNCHANGED scans
    /\ reading' = Front(reading)
    /\ SealFrom(waiting)

\* What has nothing to do with rows.
Passing ==
    /\ Cancelled \/ FailedEntry \/ WithinBudget \/ Offered \/ Terminating
    /\ UNCHANGED rowVars

AssemblyNext ==
    \/ StartScan
    \/ \E bytes \in Sizes : LeafRow(bytes) \/ EnterRow(bytes)
    \/ SkippedItem \/ ReadOn
    \/ Cutting \/ Finishing \/ Passing

AssemblySpec == AssemblyInit /\ [][AssemblyNext]_<<vars, rowVars>>

-----------------------------------------------------------------------------
(* Reading a part.                                                         *)

\* Mutant: the stem's nodes are numbered from its innermost directory.
NodeFromBelow(part, n) ==
    IF n <= Len(part.stem)
    THEN [parent |-> n - 1, name |-> part.stem[Len(part.stem) + 1 - n]]
    ELSE part.directories[n - Len(part.stem)]

\* The directory that holds node n, and the node's own name.
Node(part, n) ==
    IF n <= Len(part.stem)
    THEN [parent |-> n - 1, name |-> part.stem[n]]
    ELSE part.directories[n - Len(part.stem)]

\* The paths of the nodes.
NodePaths(part) ==
    LET above[n \in 0..(Len(part.stem) + Len(part.directories))] ==
            IF n = 0 THEN <<>>
            ELSE Append(above[Node(part, n).parent], Node(part, n).name)
    IN  above

Path(part, row) == Append(NodePaths(part)[row.parent], row.name)

\* Walk order, component by component.  Names sort as their positions do, since
\* a listing is sorted.
WalkOrder(p, q) ==
    \/ IsStrictPrefix(p, q)
    \/ \E k \in DOMAIN p \intersect DOMAIN q :
           /\ SubSeq(p, 1, k - 1) = SubSeq(q, 1, k - 1)
           /\ p[k][1] < q[k][1]

Least(paths) == CHOOSE p \in paths : \A q \in paths : p = q \/ WalkOrder(p, q)

FirstPath(part) ==
    Least({Path(part, table[1]) :
               table \in {part.directories, part.files, part.symlinks} \ {<<>>}})

\* Every entry with its path.
Unsorted(part) ==
    LET all(table, kind) == [k \in DOMAIN table |-> [path |-> Path(part, table[k]), kind |-> kind]]
    IN  all(part.directories, "directory") \o all(part.files, "file")
            \o all(part.symlinks, "symlink")

\* In walk order: the entry at n has n - 1 before it.
Entries(part) ==
    LET all == Unsorted(part)
        before(k) == {l \in DOMAIN all :
                         \/ WalkOrder(all[l].path, all[k].path)
                         \/ all[l].path = all[k].path /\ l < k}
    IN  [n \in DOMAIN all |->
            all[CHOOSE k \in DOMAIN all : Cardinality(before(k)) = n - 1]]

-----------------------------------------------------------------------------
(* Properties.                                                             *)

\* The rows among the items of a range are those from p on, each once and in walk
\* order, and the range knows their number and their depth.
RowsFrom(range, p) ==
    LET items == scans[range.rows]
        seen == Seen(items)
    IN  /\ range.count = seen[range.to] - seen[range.from]
        /\ \A n \in (range.from + 1)..range.to :
               IsRow(items[n]) =>
                   /\ items[n].name = p + seen[n - 1] - seen[range.from]
                   /\ rows[items[n].name + 1].depth = range.depth

\* The ranges that wait are the rows from base up to position, each once and in
\* walk order, and each range knows the depth and the number of its own: what a
\* seal drains is what it counts, and the depth it takes the stem to is right.
WaitingIsTheRows ==
    pc \in {"visit", "budget", "offer"}
        => /\ Counts(waiting)[Len(waiting)] = position - base
           /\ \A k \in DOMAIN waiting : RowsFrom(waiting[k], base + Counts(waiting)[k - 1])

\* The rows do not disturb the cuts: with its scans, ranges and later scans, the
\* walk takes the steps of Cut and no others.
WalksAsCut == Init /\ [][Next]_vars

\* The path of the row at p.
TruePath(p) ==
    [d \in 1..(rows[p + 1].depth + 1) |->
        IF d <= rows[p + 1].depth THEN <<Ancestor(p, d - 1)>> ELSE <<p>>]

\* The item of the row at p.
TrueKind(p) ==
    CHOOSE kind \in {"file", "symlink", "directory"} :
        \E k \in DOMAIN scans : Contains(scans[k], Item(kind, p))

\* A part read without any other part gives its rows, with their kinds and the
\* whole paths they have in the tree, in walk order.
PartsReadBack ==
    \A k \in DOMAIN built :
        Entries(built[k]) =
            [n \in 1..(parts[k].end - parts[k].first) |->
                [path |-> TruePath(parts[k].first + n - 1),
                 kind |-> TrueKind(parts[k].first + n - 1)]]

\* The parts that a search over the first paths finds for the directory at path:
\* the last that starts at or before it, and all that start inside it.
Search(path_) ==
    LET first(k) == FirstPath(built[k])
        upTo == {k \in DOMAIN built : first(k) = path_ \/ WalkOrder(first(k), path_)}
    IN  {k \in upTo : \A l \in upTo : l <= k}
            \union {k \in DOMAIN built : IsPrefix(path_, first(k))}

\* "A directory is one contiguous run of the walk, so a search over the first
\* paths finds the parts it spans."
SearchFindsDirectory ==
    pc = "done" =>
        \A d \in Directories :
            Search(TruePath(d - 1)) =
                {k \in DOMAIN parts : \E p \in parts[k].first..(parts[k].end - 1) :
                     IsPrefix(TruePath(d - 1), TruePath(p))}
=============================================================================
