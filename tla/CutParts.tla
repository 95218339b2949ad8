------------------------------ MODULE CutParts ------------------------------
(***************************************************************************)
(* What src/walk.rs promises of every part that Cut makes, stated over the *)
(* whole tree, and the invariant from which it follows.                    *)
(***************************************************************************)
EXTENDS CutInv

-----------------------------------------------------------------------------
(* Sizes and subtrees.                                                     *)

\* The estimates of the first p of the rows rs, added up.
Totals(rs) ==
    LET t[p \in 0..Len(rs)] == IF p = 0 THEN 0 ELSE t[p - 1] + rs[p].bytes
    IN  t

\* The estimate of the rows from position p up to, not including, q.
Bytes(p, q) == Totals(rows)[q] - Totals(rows)[p]

\* The subtree of the row at p ends at q.
EndsAt(p, q) ==
    /\ \A r \in (p + 1)..(q - 1) : rows[r + 1].depth > rows[p + 1].depth
    /\ q < position => rows[q + 1].depth <= rows[p + 1].depth

EndOf(p) == CHOOSE q \in (p + 1)..position : EndsAt(p, q)

Size(p) == Bytes(p, EndOf(p))

\* A directory whose subtree does not fit the budget.
OverBudget(p) == rows[p + 1].dir /\ Size(p) > Budget

-----------------------------------------------------------------------------
(* Properties.                                                             *)

\* A directory whose whole subtree fits the budget is never split.
FittingDirectoriesAreWhole ==
    \A k \in DOMAIN parts : \A p \in 0..(position - 1) :
        (rows[p + 1].dir /\ p < parts[k].end /\ parts[k].end < EndOf(p)) => OverBudget(p)

\* A directory's own row goes into the first part of its contents.
OwnRowWithContents ==
    \A k \in DOMAIN parts :
        LET p == parts[k].end - 1
        IN  rows[p + 1].dir => EndOf(p) = p + 1

\* The rows from p up to m are own rows of directories that are cut.
AllOver(p, m) == \A r \in p..(m - 1) : OverBudget(r)

\* The rows from m up to q are of no directory that is cut.
NoneOver(m, q) == \A r \in m..(q - 1) : ~OverBudget(r)

\* The rows from m up to n fit the budget, or are one row.
Fits(m, n) == Bytes(m, n) <= Budget \/ n = m + 1

\* A part is the own rows of directories that are cut, and then one sibling run,
\* which passes the budget only when it is one file or link that alone does.
PartsWithinBudget ==
    \A k \in DOMAIN parts : \E m \in parts[k].first..parts[k].end :
        /\ AllOver(parts[k].first, m)
        /\ NoneOver(m, parts[k].end)
        /\ Fits(m, parts[k].end)

\* The rows that wait at a visit are own rows of directories that are cut, then
\* one open run, and then one measured directory, which is within the budget.
WaitingBounded ==
    pc = "visit" =>
        \E m \in base..position : \E n \in m..position :
            /\ AllOver(base, m)
            /\ NoneOver(m, position)
            /\ Fits(m, n)
            /\ Bytes(n, position) <= Budget

\* A part's stem names the directories above its first row, from the root down.
StemsNameAncestors ==
    \A k \in DOMAIN parts :
        LET p == parts[k].first
        IN  parts[k].stem = [d \in 1..rows[p + 1].depth |-> <<Ancestor(p, d - 1)>>]

-----------------------------------------------------------------------------
(* The invariant.                                                          *)

\* The innermost split level, whose children are gathered in runs, and where
\* its open run starts.
RunLevel == stack[Inner - 1]

\* Where the open run ends: at the next child to be offered to it.
RunEnd == IF offers # <<>> THEN offers[1].position ELSE FinishedEnd(Inner - 1)

\* The directory open at level i has a row, and everything after it is below it.
NestInv ==
    \A i \in 2..Top :
        /\ rows[stack[i].row + 1].dir
        /\ \A q \in (stack[i].row + 1)..(position - 1) : rows[q + 1].depth >= i - 1

TotalsInv ==
    /\ total = Totals(rows)[position]
    /\ \A i \in 2..Top : stack[i].start_total = Totals(rows)[stack[i].row]

\* A split directory passes the budget.  Between two items no other does.
SplitInv ==
    /\ \A i \in 2..(Inner - 1) : total - stack[i].start_total > Budget
    /\ pc = "visit" => \A i \in Inner..Top : total - stack[i].start_total <= Budget

\* A finished child, with everything below it, is the rows up to end.
Whole(child, end) ==
    /\ child.position < end
    /\ child.bytes = Bytes(child.position, end)
    /\ Fits(child.position, end)

\* The children from the one at lo to the one at hi are all the rows from p up
\* to q.
Cover(children, lo, hi, p, q) ==
    /\ lo > hi => p = q
    /\ lo <= hi => children[lo].position = p
    /\ \A k \in lo..hi : Whole(children[k], IF k < hi THEN children[k + 1].position ELSE q)

\* The last of the finished children of level i.
LastChild(i) == IF i < Top THEN stack[i + 1].completed ELSE Len(completed)

\* The finished children of a measuring level are all of its contents so far.
ChildrenInv ==
    \A i \in Inner..Top :
        Cover(completed, stack[i].completed + 1, LastChild(i), Contents(i), FinishedEnd(i))

\* The children still to be offered are all that comes after the open run.
OfferedInv == Cover(offers, 1, Len(offers), RunEnd, FinishedEnd(Inner - 1))

\* What waits before the open run are own rows of directories that are cut. In
\* the run, no directory is.
RunIsInv ==
    LET run == RunLevel.run_first
    IN  /\ run <= RunEnd
        /\ RunLevel.run_bytes = Bytes(run, RunEnd)
        /\ Fits(run, RunEnd)
        /\ AllOver(base, run)
        /\ \A r \in run..(position - 1) : OverBudget(r) => \E i \in Inner..Top : r = stack[i].row

\* A part ends before a row that is not below its last one.
EndsInv ==
    \A k \in DOMAIN parts :
        LET e == parts[k].end
        IN  /\ e <= position
            /\ Running => e <= base
            /\ e < position => rows[e + 1].depth <= rows[e].depth
            /\ Running /\ e = position => rows[e].depth >= Top - 1

PartsInv ==
    /\ Len(rows) = position
    /\ EndsInv
    /\ FittingDirectoriesAreWhole
    /\ PartsWithinBudget
    /\ StemsNameAncestors
    /\ Running =>
          NestInv /\ TotalsInv /\ SplitInv /\ ChildrenInv /\ OfferedInv /\ RunIsInv
=============================================================================
