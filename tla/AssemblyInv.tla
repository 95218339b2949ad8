---------------------------- MODULE AssemblyInv ----------------------------
(***************************************************************************)
(* The inductive invariant of Assembly: the shape of the tree that is      *)
(* walked, what the scans hold of it, the ranges that wait, and the parts  *)
(* that are made of them.                                                  *)
(***************************************************************************)
EXTENDS Assembly, CutParts

-----------------------------------------------------------------------------
(* Trees.  These operators take the rows, so that lemmas about them hold   *)
(* before and after a step.                                                *)

\* The rows of a tree in walk order: what is deeper than the row before it is an
\* entry of that row, which is a directory.
Tree(rs) ==
    /\ rs \in Seq(RowType)
    /\ rs # <<>> => rs[1].depth = 0
    /\ \A p \in 1..(Len(rs) - 1) :
           \/ rs[p + 1].depth <= rs[p].depth
           \/ rs[p].dir /\ rs[p + 1].depth = rs[p].depth + 1

\* Cut's Ancestor.
AncestorIn(rs, p, k) ==
    CHOOSE q \in 0..(p - 1) :
        /\ rs[q + 1].depth = k
        /\ \A r \in (q + 1)..(p - 1) : rs[r + 1].depth > k

\* The path of the directory that has the row at p.
FrontOf(rs, p) == [d \in 1..rs[p + 1].depth |-> <<AncestorIn(rs, p, d - 1)>>]

PathOf(rs, p) == Append(FrontOf(rs, p), <<p>>)

-----------------------------------------------------------------------------
(* Scans.                                                                  *)

Kinds == {"directory", "file", "symlink"}

ItemType == [kind : Kinds \union {"skipped"}, name : Nat]

\* The item of the row at p is of this kind.
Named(found, kind, p) ==
    \E s \in DOMAIN found : \E n \in DOMAIN found[s] : found[s][n] = Item(kind, p)

\* Each item that is a row names one, and no two name the same.
ScansAre(found, rs) ==
    /\ found \in Seq(Seq(ItemType))
    /\ \A s \in DOMAIN found : \A n \in DOMAIN found[s] :
           IsRow(found[s][n]) =>
               /\ found[s][n].name < Len(rs)
               /\ found[s][n].kind = "directory" <=> rs[found[s][n].name + 1].dir
    /\ \A s, t \in DOMAIN found : \A n \in DOMAIN found[s] : \A m \in DOMAIN found[t] :
           IsRow(found[s][n]) /\ IsRow(found[t][m]) /\ found[s][n].name = found[t][m].name
               => s = t /\ n = m

\* Each open directory is read from a scan of its own.
ReadingInv ==
    /\ reading \in Seq(Nat)
    /\ Len(reading) = Top
    /\ \A i \in DOMAIN reading : reading[i] \in DOMAIN scans

-----------------------------------------------------------------------------
(* Ranges.                                                                 *)

RangeType == [rows : Nat, from : Nat, to : Nat, depth : Nat, count : Nat]

\* The range lies in its scan, and is the rows from p on.
RangeIs(found, rs, range, p) ==
    LET items == found[range.rows]
        seen == Seen(items)
    IN  /\ range \in RangeType
        /\ range.rows \in DOMAIN found
        /\ range.from <= range.to
        /\ range.to <= Len(items)
        /\ range.count = seen[range.to] - seen[range.from]
        /\ \A n \in (range.from + 1)..range.to :
               IsRow(items[n]) =>
                   /\ items[n].name = p + seen[n - 1] - seen[range.from]
                   /\ rs[items[n].name + 1].depth = range.depth

\* The ranges are the rows from p up to q, each once and in order.
RangesAre(found, rs, ranges, p, q) ==
    /\ ranges \in Seq(RangeType)
    /\ Counts(ranges)[Len(ranges)] = q - p
    /\ \A k \in DOMAIN ranges : RangeIs(found, rs, ranges[k], p + Counts(ranges)[k - 1])

-----------------------------------------------------------------------------
(* Parts.                                                                  *)

TableRowType == [parent : Nat, name : Seq(Nat)]

PartTypes ==
    [stem : Seq(Seq(Nat)), directories : Seq(TableRowType), files : Seq(TableRowType),
     symlinks : Seq(TableRowType), nodes : Seq(Nat)]

Nodes(part) == 0..(Len(part.stem) + Len(part.directories))

\* The path of node n.
Leads(rs, part, n) ==
    IF n <= Len(part.stem)
    THEN SubSeq(part.stem, 1, n)
    ELSE PathOf(rs, part.directories[n - Len(part.stem)].name[1])

\* Rows of this kind between first and q, in order, below directories that are
\* theirs.
TableIs(found, rs, part, table, kind, first, q) ==
    /\ \A k \in DOMAIN table : \E p \in first..(q - 1) :
           /\ table[k].name = <<p>>
           /\ Named(found, kind, p)
           /\ table[k].parent \in Nodes(part)
           /\ Leads(rs, part, table[k].parent) = FrontOf(rs, p)
    /\ \A k, l \in DOMAIN table : k < l => table[k].name[1] < table[l].name[1]

HasRow(table, p) == \E k \in DOMAIN table : table[k].name = <<p>>

\* A part of the rows from first up to q.
PartIs(found, rs, part, first, q) ==
    /\ part \in PartTypes
    /\ part.stem = FrontOf(rs, first)
    /\ TableIs(found, rs, part, part.directories, "directory", first, q)
    /\ TableIs(found, rs, part, part.files, "file", first, q)
    /\ TableIs(found, rs, part, part.symlinks, "symlink", first, q)
    /\ \A k \in DOMAIN part.directories : part.directories[k].parent < Len(part.stem) + k
    /\ \A p \in first..(q - 1) :
           \/ HasRow(part.directories, p)
           \/ HasRow(part.files, p)
           \/ HasRow(part.symlinks, p)

\* The nodes of the directories above the row at q are known.
Ready(rs, part, q) ==
    \A d \in 0..rs[q + 1].depth :
        /\ d + 1 \in DOMAIN part.nodes
        /\ part.nodes[d + 1] \in Nodes(part)
        /\ Leads(rs, part, part.nodes[d + 1]) = SubSeq(FrontOf(rs, q), 1, d)

-----------------------------------------------------------------------------
(* The invariant.                                                          *)

BuiltInv ==
    /\ Len(built) = Len(parts)
    /\ \A k \in 1..Len(parts) : PartIs(scans, rows, built[k], parts[k].first, parts[k].end)

AssemblyInvariant ==
    /\ Tree(rows)
    /\ ScansAre(scans, rows)
    /\ ReadingInv
    /\ pc = "start" => scans = <<>> /\ waiting = <<>>
    /\ Running => RangesAre(scans, rows, waiting, base, position)
    /\ built \in Seq(PartTypes)
    /\ BuiltInv
=============================================================================
