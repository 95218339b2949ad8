------------------------------- MODULE CutInv -------------------------------
(***************************************************************************)
(* The inductive invariant of Cut: what the walker's positions and offsets *)
(* have to do with one another, between any two steps of the run loop.     *)
(***************************************************************************)
EXTENDS Cut

Running == pc \in {"visit", "budget", "offer"}

\* The outermost level that is not split.  While the children of a level that
\* has just been split are offered, measuring still points at that level.
Inner == IF pc = "offer" THEN measuring + 1 ELSE measuring

\* Where the contents of the directory open at level i start.
Contents(i) == IF i = 1 THEN 0 ELSE stack[i].row + 1

\* Where the finished children of an open level end.
FinishedEnd(i) == IF i < Top THEN stack[i + 1].row ELSE position

RowsInv ==
    /\ Len(rows) = position
    /\ base <= position
    /\ position > 0 => rows[1].depth = 0

\* The open directories are nested, and the first row of each one's contents is
\* an entry of it.
LevelsInv ==
    /\ Top >= 1
    /\ Inner \in 2..(Top + 1)
    /\ \A i \in 1..Top : stack[i].split <=> i < Inner
    /\ \A i \in 2..Top :
          /\ stack[i].row < position
          /\ stack[i].start_total <= total
          /\ rows[stack[i].row + 1].depth = i - 2
          /\ stack[i].row + 1 < position => rows[stack[i].row + 2].depth = i - 1
    /\ \A i, j \in 2..Top : i < j => stack[i].row < stack[j].row

PathInv ==
    /\ path = OpenRows
    /\ \A i \in 1..Top : stack[i].path_len = i - 1

\* Where the kth of the finished children belongs, seen from level i: above its
\* row, below it, or among its own children.
InSlice(i, k) ==
    /\ k <= stack[i].completed => completed[k].position < stack[i].row
    /\ stack[i].completed < k
          => /\ stack[i].row < completed[k].position
             /\ completed[k].position < position
             /\ i = Top \/ k <= stack[i + 1].completed
                   => rows[completed[k].position + 1].depth = i - 1

\* The finished children of the measuring levels are in walk order, each level's
\* in its own slice, and the slices of the split levels are gone.
CompletedInv ==
    /\ \A k, l \in 1..Len(completed) :
          k < l => completed[k].position < completed[l].position
    /\ \A i \in 1..Top : i <= Inner => stack[i].completed = 0
    /\ Inner > Top => completed = <<>>
    /\ \A i \in 1..Top : stack[i].completed <= Len(completed)
    /\ \A i, j \in 1..Top : i <= j => stack[i].completed <= stack[j].completed
    /\ \A i \in Inner..Top : \A k \in 1..Len(completed) : InSlice(i, k)

\* The children of the split level that are still to be offered: in walk order,
\* none before the open run.
OffersInv ==
    /\ pc # "offer" => offers = <<>>
    /\ \A k, l \in 1..Len(offers) : k < l => offers[k].position < offers[l].position
    /\ \A k \in 1..Len(offers) :
          /\ stack[Inner - 1].run_first <= offers[k].position
          /\ offers[k].position < FinishedEnd(Inner - 1)
          /\ rows[offers[k].position + 1].depth = Inner - 2

\* Only own rows of split directories wait before the open run of the innermost
\* split level, and the run starts at an entry of that level.
RunInv ==
    LET run == stack[Inner - 1].run_first
    IN  /\ base <= run
        /\ Contents(Inner - 1) <= run
        /\ run <= FinishedEnd(Inner - 1)
        /\ run < position => rows[run + 1].depth = Inner - 2
        /\ base < run => \E j \in 2..(Inner - 1) : base = stack[j].row

\* The accepted parts tile the rows before the first waiting one.
TilesInv ==
    /\ PartsTile
    /\ pc # "error" => base = SealedEnd(parts)

\* The inductive invariant: Init implies it, and every step preserves it.
IInv ==
    /\ TypeOK
    /\ TilesInv
    /\ pc = "start" =>
          base = 0 /\ position = 0 /\ total = 0 /\ measuring = 2 /\ path = <<>>
          /\ completed = <<>> /\ offers = <<>> /\ rows = <<>>
    /\ Running =>
          RowsInv /\ LevelsInv /\ PathInv /\ CompletedInv /\ OffersInv /\ RunInv
=============================================================================
