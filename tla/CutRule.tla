------------------------------ MODULE CutRule ------------------------------
(***************************************************************************)
(* What the cuts of Cut should be: the rule of tests/parts.rs, stated over *)
(* the whole tree.                                                         *)
(***************************************************************************)
EXTENDS CutParts

MaxSize == CHOOSE b \in Sizes : \A c \in Sizes : c <= b

-----------------------------------------------------------------------------
(* The rule of the tests: fn split and fn emit.                            *)

\* The rows from p up to q, as a list.
RowList(p, q) == [k \in 1..(q - p) |-> p + k - 1]

RuleState == [carry : Seq(Nat), group : Seq(Nat), bytes : Nat, parts : Seq(Seq(Nat))]

NothingYet == [carry |-> <<>>, group |-> <<>>, bytes |-> 0, parts |-> <<>>]

Emit(s) ==
    [carry |-> <<>>, group |-> <<>>, bytes |-> 0,
     parts |-> Append(s.parts, s.carry \o s.group)]

EmitGroup(s) == IF s.group = <<>> THEN s ELSE Emit(s)

\* The row of a directory that is cut, to leave with the first of its contents.
Carry(s, p) == [EmitGroup(s) EXCEPT !.carry = Append(@, p)]

\* And if there was nothing in it, it leaves alone.
Leave(s, p) == IF s.carry # <<>> /\ s.carry[Len(s.carry)] = p THEN Emit(s) ELSE s

Gather(s, p) ==
    LET open == IF s.bytes + Size(p) > Budget THEN EmitGroup(s) ELSE s
    IN  [open EXCEPT !.group = @ \o RowList(p, EndOf(p)), !.bytes = @ + Size(p)]

\* The loop of fn split: the children still to come are those from at up to end.
Calls == [at : 0..position, end : 0..position, state : RuleState]

Call(p, end, s) == [at |-> p, end |-> end, state |-> s]

SplitRule ==
    LET split[call \in Calls] ==
            LET p == call.at
            IN  IF p >= call.end THEN EmitGroup(call.state)
                ELSE split[Call(EndOf(p), call.end,
                         IF OverBudget(p)
                         THEN Leave(split[Call(p + 1, EndOf(p), Carry(call.state, p))], p)
                         ELSE Gather(call.state, p))]
    IN  split

RuleParts == SplitRule[Call(0, position, NothingYet)].parts

-----------------------------------------------------------------------------
(* Properties.                                                             *)

\* A walk that ends well has cut exactly the parts of the recursive rule over
\* the finished tree, although it decided each cut with only the rows so far.
CutsMatchRule ==
    pc = "done"
        => [k \in DOMAIN parts |-> RowList(parts[k].first, parts[k].end)] = RuleParts

\* Every walk ends: the cutter's loops do.
Terminates == <>(pc \in {"done", "error"})

\* Under "Memory", src/walk.rs says that the estimates of the rows that wait add
\* up to less than about two budgets.  Two more rows are allowed for here.
WaitingUnderTwoBudgets ==
    pc = "visit" => Bytes(base, position) <= 2 * Budget + 2 * MaxSize

-----------------------------------------------------------------------------
(* The invariant behind CutsMatchRule, beside IInv and PartsInv.           *)

\* No row is more than one level below the row before it.
DepthsInv ==
    \A p \in 0..(position - 1) :
        rows[p + 1].depth <= IF p = 0 THEN 0 ELSE rows[p].depth + 1

\* Each row from p up to m has the one after it, if that is before end, below it.
Descends(p, m, end) ==
    \A r \in p..(m - 1) : r + 1 < end => rows[r + 2].depth > rows[r + 1].depth

\* A part that is own rows up to m and then one run, as long as it could be: where
\* the run ends, its directory ends, or the next child is cut or does not fit.
Shape(part, m) ==
    /\ part.first <= m /\ m <= part.end
    /\ AllOver(part.first, m) /\ NoneOver(m, part.end) /\ Fits(m, part.end)
    /\ Descends(part.first, m, part.end)
    /\ \A r \in m..(part.end - 1) : rows[r + 1].depth >= rows[m + 1].depth
    /\ m < part.end /\ part.end < position =>
          /\ rows[part.end + 1].depth <= rows[m + 1].depth
          /\ rows[part.end + 1].depth = rows[m + 1].depth
                => OverBudget(part.end) \/ Bytes(m, EndOf(part.end)) > Budget

\* And a run that ends with the rows so far is of a directory that has been left.
Greedy(part, depth) ==
    \E m \in part.first..part.end :
        /\ Shape(part, m)
        /\ m < part.end /\ part.end = position => rows[m + 1].depth >= depth

GreedyParts == \A k \in DOMAIN parts : Greedy(parts[k], IF Running THEN Top ELSE 0)

\* What waits before the open run is the own rows of directories each in the one
\* before it, the last of them the innermost split one.
WaitInv ==
    LET run == RunLevel.run_first
    IN  base < run =>
            /\ Inner > 2
            /\ run = RunLevel.row + 1
            /\ Descends(base, run, position)

PositionsOf(children) == {children[k].position : k \in DOMAIN children}

\* Every finished entry of a measuring level is one of its children, and every one
\* after the open run is still to be offered.
KnownInv ==
    /\ \A i \in Inner..Top : \A r \in Contents(i)..(FinishedEnd(i) - 1) :
          rows[r + 1].depth = i - 1 => r \in PositionsOf(completed)
    /\ \A r \in RunEnd..(FinishedEnd(Inner - 1) - 1) :
          rows[r + 1].depth = Inner - 2 => r \in PositionsOf(offers)

GreedyInv ==
    /\ DepthsInv
    /\ GreedyParts
    /\ Running => WaitInv /\ KnownInv
=============================================================================
