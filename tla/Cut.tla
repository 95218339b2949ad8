-------------------------------- MODULE Cut --------------------------------
(***************************************************************************)
(* The cutter, src/walk/cut.rs: the walk in walk order, which decides      *)
(* where parts end.                                                        *)
(*                                                                         *)
(* The tree is not given beforehand: at every step of the walk the         *)
(* directory being visited may turn out to hold one more file or link, one *)
(* more directory, an entry that cannot be read, or nothing more, so a     *)
(* behaviour is a walk of some tree.  A name is abstracted to the position *)
(* of the row that bears it, and an estimate to a member of Sizes.         *)
(*                                                                         *)
(* Positions are the code's: the first row of the walk is at 0, and        *)
(* rows[p + 1] is the row at p.  Indices of levels are one more than the   *)
(* code's: stack[1] is the root, so a row of depth d is an entry of the    *)
(* directory open at stack[d + 1].                                         *)
(***************************************************************************)
EXTENDS Integers, Sequences

CONSTANTS
    Budget,      \* WalkOptions::budget
    Sizes,       \* the estimates a row may have
    OnError,     \* WalkOptions::on_error
    MaxRows,     \* bound: rows in the tree
    MaxDepth     \* bound: directories between the root and an entry

ASSUME CutAssumption ==
    /\ Budget \in Nat
    /\ Sizes \subseteq Nat \ {0}
    /\ OnError \in {"Fail", "Skip"}
    /\ MaxRows \in Nat
    /\ MaxDepth \in Nat

VARIABLES
    pc,          \* where in the run loop the walk is
    stack,       \* the open directories, the root first
    base,        \* the position of the first waiting row
    position,    \* the position of the next row to come
    total,       \* running estimate of every row so far
    path,        \* the names of the relative path
    measuring,   \* index of the outermost measuring level
    completed,   \* the finished children of the measuring levels
    offers,      \* the children of the level being split still to be offered
    rows,        \* history: every row so far
    parts        \* history: every part the sink has accepted

vars == <<pc, stack, base, position, total, path, measuring, completed, offers, rows, parts>>

\* run_first while an over-budget child is being walked: usize::MAX, which is
\* past every position.
NoRun == MaxRows + 1

Top == Len(stack)

Level(row, start, pathLen, split, done) ==
    [row |-> row, start_total |-> start, path_len |-> pathLen,
     split |-> split, run_first |-> 0, run_bytes |-> 0, completed |-> done]

Root == Level(0, 0, 0, TRUE, 0)

\* The level with its open run at f, which holds b.
WithRun(level, f, b) == [level EXCEPT !.run_first = f, !.run_bytes = b]

SetRun(open, i, f, b) == [open EXCEPT ![i] = WithRun(@, f, b)]

Init ==
    /\ pc = "start"
    /\ stack = <<>>
    /\ base = 0 /\ position = 0 /\ total = 0
    /\ path = <<>>
    /\ measuring = 2
    /\ completed = <<>> /\ offers = <<>>
    /\ rows = <<>> /\ parts = <<>>

-----------------------------------------------------------------------------
(* Parts.                                                                  *)

\* Mutant: each name is all of the path up to the end of the directory's.
StemOfPaths(open, d) ==
    [k \in 1..d |-> SubSeq(path, 1, open[k + 1].path_len)]

\* The names of the open directories above a row of depth d: each is what the
\* path has after the name of the directory above.
Stem(open, d) ==
    [k \in 1..d |-> SubSeq(path, open[k].path_len + 1, open[k + 1].path_len)]

\* Every row before end into a part, and on to next.  The sink may refuse the
\* part, or the part may not be assembled: the walk ends there, and whatever
\* else the handler does no longer matters.
Seal(open, end, next) ==
    IF end = base
    THEN /\ pc' = next
         /\ UNCHANGED <<base, parts>>
    ELSE /\ base' = end
         /\ \/ /\ parts' = Append(parts, [first |-> base, end |-> end,
                                          stem |-> Stem(open, rows[base + 1].depth)])
               /\ pc' = next
            \/ /\ pc' = "error"
               /\ UNCHANGED parts

SealIf(condition, open, end, next) ==
    IF condition
    THEN Seal(open, end, next)
    ELSE /\ pc' = next
         /\ UNCHANGED <<base, parts>>

-----------------------------------------------------------------------------
(* Sibling runs.                                                           *)

\* Mutant: the run is closed only once it has passed the budget.
RunIsFullAfterwards(level, p, bytes) ==
    level.run_first < p /\ level.run_bytes > Budget

\* A child of the level that does not fit the open run beside what it holds.
RunIsFull(level, p, bytes) ==
    level.run_first < p /\ level.run_bytes + bytes > Budget

\* Offers a finished child of the split level i to its open run.
AddToRun(open, i, p, bytes, next) ==
    LET full == RunIsFull(open[i], p, bytes)
    IN  /\ SealIf(full, open, p, next)
        /\ stack' = IF full THEN SetRun(open, i, p, bytes)
                    ELSE SetRun(open, i, open[i].run_first, open[i].run_bytes + bytes)

Child(p, bytes) == [position |-> p, bytes |-> bytes]

\* A child of level i is finished: its row at p, and everything below it.
Finished(open, done, i, p, bytes, next) ==
    IF open[i].split
    THEN /\ AddToRun(open, i, p, bytes, next)
         /\ completed' = done
    ELSE /\ completed' = Append(done, Child(p, bytes))
         /\ stack' = open
         /\ pc' = next
         /\ UNCHANGED <<base, parts>>

-----------------------------------------------------------------------------
(* The run loop.                                                           *)

Visiting == pc = "visit" /\ Top > 0

\* The root, which has no row.  A root that cannot be read ends the walk under
\* either policy.
Start ==
    /\ pc = "start"
    /\ \/ pc' = "visit" /\ stack' = <<Root>>
       \/ pc' = "error" /\ UNCHANGED stack
    /\ UNCHANGED <<base, position, total, path, measuring, completed, offers, rows, parts>>

\* The flag is read before every item.
Cancelled ==
    /\ Visiting
    /\ pc' = "error"
    /\ UNCHANGED <<stack, base, position, total, path, measuring, completed, offers, rows, parts>>

\* An entry that could not be read.  Under Skip, the scan has counted it.
FailedEntry ==
    /\ Visiting
    /\ OnError = "Fail"
    /\ pc' = "error"
    /\ UNCHANGED <<stack, base, position, total, path, measuring, completed, offers, rows, parts>>

\* A file or symlink row.
Leaf(bytes) ==
    /\ Visiting
    /\ position < MaxRows
    /\ rows' = Append(rows, [depth |-> Top - 1, bytes |-> bytes, dir |-> FALSE])
    /\ position' = position + 1
    /\ total' = total + bytes
    /\ Finished(stack, completed, Top, position, bytes, "budget")
    /\ UNCHANGED <<path, measuring, offers>>

\* A directory.  One that cannot be read has a row and ends the walk under
\* Fail, and is empty under Skip.
Enter(bytes) ==
    /\ Visiting
    /\ position < MaxRows
    /\ Top <= MaxDepth
    /\ rows' = Append(rows, [depth |-> Top - 1, bytes |-> bytes, dir |-> TRUE])
    /\ position' = position + 1
    /\ path' = Append(SubSeq(path, 1, stack[Top].path_len), position)
    /\ \/ /\ stack' = Append(stack, Level(position, total, Len(path'), FALSE, Len(completed)))
          /\ total' = total + bytes
          /\ pc' = "budget"
       \/ /\ OnError = "Fail"
          /\ pc' = "error"
          /\ UNCHANGED <<stack, total>>
    /\ UNCHANGED <<base, measuring, completed, offers, parts>>

-----------------------------------------------------------------------------
(* Splitting: the loop of check_budget, and in it the loop over the        *)
(* finished children of the level that is split.                           *)

\* Mutant: the estimate of the walk so far, not of the level.
WalkPastBudget ==
    measuring <= Top /\ total > Budget

\* Only the outermost measuring level can be the first to pass the budget.
PastBudget ==
    /\ measuring <= Top
    /\ total - stack[measuring].start_total > Budget

WithinBudget ==
    /\ pc = "budget"
    /\ ~PastBudget
    /\ pc' = "visit"
    /\ UNCHANGED <<stack, base, position, total, path, measuring, completed, offers, rows, parts>>

\* The finished children of level i are completed[from + 1] up to completed[to].
OfLevel(i) ==
    [from |-> stack[i].completed,
     to |-> IF i < Top THEN stack[i + 1].completed ELSE Len(completed)]

\* Mutant: the offsets of the levels below are not moved down.
SplitLevelsShiftingNone(i, n) ==
    [k \in 1..Top |->
        IF k = i - 1 THEN WithRun(stack[k], NoRun, 0)
        ELSE IF k = i THEN [WithRun(stack[k], stack[k].row + 1, 0) EXCEPT !.split = TRUE]
        ELSE stack[k]]

\* The levels once level i is split and its n finished children are drained.
SplitLevels(i, n) ==
    [k \in 1..Top |->
        IF k = i - 1 THEN WithRun(stack[k], NoRun, 0)
        ELSE IF k = i THEN [WithRun(stack[k], stack[k].row + 1, 0) EXCEPT !.split = TRUE]
        ELSE IF k > i THEN [stack[k] EXCEPT !.completed = @ - n]
        ELSE stack[k]]

\* Mutant: also closes a run that has nothing but this child.
ClosesAnyRun(i) == stack[i - 1].run_first <= stack[i].row

\* The parent is already split, and this child closes its open run.
ClosesRun(i) == stack[i - 1].run_first < stack[i].row

Split ==
    /\ pc = "budget"
    /\ PastBudget
    /\ SealIf(ClosesRun(measuring), stack, stack[measuring].row, "offer")
    /\ LET d == OfLevel(measuring)
       IN  /\ offers' = SubSeq(completed, d.from + 1, d.to)
           /\ completed' = SubSeq(completed, 1, d.from)
                           \o SubSeq(completed, d.to + 1, Len(completed))
           /\ stack' = SplitLevels(measuring, d.to - d.from)
    /\ UNCHANGED <<position, total, path, measuring, rows>>

Offer ==
    /\ pc = "offer"
    /\ offers # <<>>
    /\ AddToRun(stack, measuring, Head(offers).position, Head(offers).bytes, "offer")
    /\ offers' = Tail(offers)
    /\ UNCHANGED <<position, total, path, measuring, completed, rows>>

\* Mutant: the level that was split stays the outermost measuring one.
OfferedAgain ==
    /\ pc = "offer"
    /\ offers = <<>>
    /\ pc' = "budget"
    /\ UNCHANGED <<stack, base, position, total, path, measuring, completed, offers, rows, parts>>

Offered ==
    /\ pc = "offer"
    /\ offers = <<>>
    /\ measuring' = measuring + 1
    /\ pc' = "budget"
    /\ UNCHANGED <<stack, base, position, total, path, completed, offers, rows, parts>>

-----------------------------------------------------------------------------
(* Finishing a level.                                                      *)

Below == SubSeq(stack, 1, Top - 1)

Pop ==
    /\ path' = SubSeq(path, 1, stack[Top - 1].path_len)
    /\ measuring' = IF measuring < Top THEN measuring ELSE Top
    /\ UNCHANGED <<position, total, offers, rows>>

\* Mutant: what waits at the end is not sealed.
FinishRootUnsealed ==
    /\ Visiting
    /\ Top = 1
    /\ pc' = "done"
    /\ stack' = <<>>
    /\ UNCHANGED <<base, parts, position, total, path, measuring, completed, offers, rows>>

FinishRoot ==
    /\ Visiting
    /\ Top = 1
    /\ Seal(stack, position, "done")
    /\ stack' = <<>>
    /\ UNCHANGED <<position, total, path, measuring, completed, offers, rows>>

\* Mutant: a split directory's own row alone is left waiting.
SealsRunAtEnd(this) == this.run_first < position

\* Mutant: nothing is sealed when a directory ends.
SealsNothingAtEnd(this) == FALSE

\* Whether what waits of a split directory is sealed when it ends: a run of
\* its children, or its own row when that row alone passes the budget.
SealsAtEnd(this) == this.run_first < position \/ base <= this.row

\* Sealed before the pop: a part that starts inside the directory needs it
\* for its stem.
FinishSplit ==
    /\ Visiting
    /\ Top > 1
    /\ stack[Top].split
    /\ SealIf(SealsAtEnd(stack[Top]), stack, position, "visit")
    /\ stack' = SetRun(Below, Top - 1, position, 0)
    /\ completed' = SubSeq(completed, 1, stack[Top].completed)
    /\ Pop

FinishMeasured ==
    /\ Visiting
    /\ Top > 1
    /\ ~stack[Top].split
    /\ Finished(Below, SubSeq(completed, 1, stack[Top].completed), Top - 1,
                stack[Top].row, total - stack[Top].start_total, "visit")
    /\ Pop

-----------------------------------------------------------------------------

Terminating == pc \in {"done", "error"} /\ UNCHANGED vars

Step ==
    \/ Start \/ Cancelled \/ FailedEntry
    \/ \E bytes \in Sizes : Leaf(bytes) \/ Enter(bytes)
    \/ WithinBudget \/ Split \/ Offer \/ Offered
    \/ FinishRoot \/ FinishSplit \/ FinishMeasured

Next == Step \/ Terminating

Spec == Init /\ [][Next]_vars /\ WF_vars(Step)

-----------------------------------------------------------------------------
(* Properties.                                                             *)

RowType == [depth : Nat, bytes : Nat, dir : BOOLEAN]

LevelType ==
    [row : Nat, start_total : Nat, path_len : Nat, split : BOOLEAN,
     run_first : 0..NoRun, run_bytes : Nat, completed : Nat]

ChildType == [position : Nat, bytes : Nat]

PartType == [first : Nat, end : Nat, stem : Seq(Seq(Nat))]

\* The types.  In particular no position, offset or running total that the
\* code subtracts from another goes below 0.
TypeOK ==
    /\ pc \in {"start", "visit", "budget", "offer", "done", "error"}
    /\ stack \in Seq(LevelType)
    /\ base \in Nat /\ position \in 0..MaxRows /\ total \in Nat
    /\ path \in Seq(Nat)
    /\ measuring \in Nat \ {0, 1}
    /\ completed \in Seq(ChildType)
    /\ offers \in Seq(ChildType)
    /\ rows \in Seq(RowType)
    /\ parts \in Seq(PartType)

\* The directory of depth k above the row at p: the last row of that depth.
Ancestor(p, k) ==
    CHOOSE q \in 0..(p - 1) :
        /\ rows[q + 1].depth = k
        /\ \A r \in (q + 1)..(p - 1) : rows[r + 1].depth > k

\* The open directories below the root, by the positions of their rows.
OpenRows == [k \in 1..(Top - 1) |-> stack[k + 1].row]

\* Whenever rows wait, the directories above the first of them are all still
\* open, so a part that is sealed now can name its stem: seal never reaches
\* past the stack, whichever handler calls it.
StemIsOpen ==
    (pc \notin {"done", "error"} /\ base < position)
        => rows[base + 1].depth < Top

\* The path the walk builds and truncates by the levels' path_len names the
\* open directories: a stem cut from it is right.
PathNamesLevels ==
    pc \in {"visit", "budget", "offer"}
        => /\ path = OpenRows
           /\ \A i \in 1..Top : stack[i].path_len = i - 1

Tiles(ps) ==
    \A k \in 1..Len(ps) :
        /\ ps[k].first < ps[k].end
        /\ ps[k].first = IF k = 1 THEN 0 ELSE ps[k - 1].end

SealedEnd(ps) == IF ps = <<>> THEN 0 ELSE ps[Len(ps)].end

\* No part is empty, each starts where the one before it ended, the first at the
\* first row of the walk, and a walk that ends well leaves no row behind: every
\* row leaves in exactly one part, in walk order.
PartsTile ==
    /\ Tiles(parts)
    /\ pc = "done" => position = SealedEnd(parts)
=============================================================================
