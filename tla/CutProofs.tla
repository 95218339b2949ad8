----------------------------- MODULE CutProofs -----------------------------
(***************************************************************************)
(* Proofs about Cut, for every budget, every set of estimates and every    *)
(* tree.                                                                   *)
(*                                                                         *)
(* First, the invariant of CutInv is inductive, and so no subtraction goes *)
(* below 0 (TypeOK), every part can name its stem (StemIsOpen), the path   *)
(* names the open directories (PathNamesLevels) and the parts tile the     *)
(* rows (PartsTile).                                                       *)
(*                                                                         *)
(* Then what src/walk.rs promises of the parts: the properties of          *)
(* CutParts.  The inductive invariant is PartsInv beside IInv.  It says    *)
(* what is gathered for the next part: before the open run of the          *)
(* innermost split level only own rows of directories that are cut, in the *)
(* run none, and after it the finished children, that together are all the *)
(* rows since.                                                             *)
(*                                                                         *)
(* Then that the parts of a walk that ends well are those of the tests'    *)
(* recursive rule (CutsMatchRule).  Half of it is an invariant, GreedyInv  *)
(* of CutRule: each part is own rows of directories that are cut and then  *)
(* one run that could not be longer.  It needs the children of the         *)
(* measuring levels to be all the entries there are (KnownInv), or a run   *)
(* would pass one by.  The other half is about the finished tree only: the *)
(* rule has one value at every call, and from the last row to the first,   *)
(* whatever it is called with beside those parts, it makes the rest of     *)
(* them.                                                                   *)
(***************************************************************************)
EXTENDS CutRule, SequenceTheorems, NatInduction, TLAPS

-----------------------------------------------------------------------------
(* The operators the actions are built from.                               *)

LEMMA LevelFields ==
    ASSUME NEW level \in LevelType
    PROVE  /\ level.row \in Nat
           /\ level.start_total \in Nat
           /\ level.path_len \in Nat
           /\ level.split \in BOOLEAN
           /\ level.run_first \in Nat
           /\ level.run_first \in 0..NoRun
           /\ level.run_bytes \in Nat
           /\ level.completed \in Nat
<1>1. level.run_first \in 0..NoRun
  BY DEF LevelType
<1>2. level.run_first \in Nat
  BY <1>1
<1>3. QED
  BY <1>1, <1>2 DEF LevelType

LEMMA WithRunLevel ==
    ASSUME NEW level \in LevelType, NEW f \in 0..NoRun, NEW b \in Nat
    PROVE  /\ WithRun(level, f, b) \in LevelType
           /\ WithRun(level, f, b).run_first = f
           /\ WithRun(level, f, b).run_bytes = b
           /\ WithRun(level, f, b).row = level.row
           /\ WithRun(level, f, b).start_total = level.start_total
           /\ WithRun(level, f, b).path_len = level.path_len
           /\ WithRun(level, f, b).split = level.split
           /\ WithRun(level, f, b).completed = level.completed
  BY DEF WithRun, LevelType

\* The levels of new are those of old but for their open runs.
SameLevels(new, old) ==
    /\ Len(new) = Len(old)
    /\ \A j \in 1..Len(old) : /\ new[j].row = old[j].row
                              /\ new[j].start_total = old[j].start_total
                              /\ new[j].path_len = old[j].path_len
                              /\ new[j].split = old[j].split
                              /\ new[j].completed = old[j].completed

\* The levels of new are those of old, but the run of level i starts at f.
RunMoved(new, old, i, f) ==
    /\ new \in Seq(LevelType)
    /\ SameLevels(new, old)
    /\ \A j \in 1..Len(old) : j # i => new[j] = old[j]
    /\ new[i].run_first = f

\* Setting the run of one level leaves everything else of the stack as it was.
LEMMA SetRunFacts ==
    ASSUME NEW open \in Seq(LevelType), NEW i \in 1..Len(open),
           NEW f \in 0..NoRun, NEW b \in Nat
    PROVE  RunMoved(SetRun(open, i, f, b), open, i, f)
<1>1. open[i] \in LevelType
  BY ElementOfSeq
<1>2. WithRun(open[i], f, b) \in LevelType
  BY <1>1, WithRunLevel
<1>3. /\ SetRun(open, i, f, b) \in Seq(LevelType)
      /\ Len(SetRun(open, i, f, b)) = Len(open)
      /\ \A j \in 1..Len(open) : SetRun(open, i, f, b)[j] = IF j = i THEN WithRun(open[i], f, b) ELSE open[j]
  BY <1>2, ExceptSeq DEF SetRun
<1>4. /\ WithRun(open[i], f, b).run_first = f
      /\ WithRun(open[i], f, b).run_bytes = b
      /\ WithRun(open[i], f, b).row = open[i].row
      /\ WithRun(open[i], f, b).start_total = open[i].start_total
      /\ WithRun(open[i], f, b).path_len = open[i].path_len
      /\ WithRun(open[i], f, b).split = open[i].split
      /\ WithRun(open[i], f, b).completed = open[i].completed
  BY SMTT(60), <1>1, WithRunLevel
<1>5. SetRun(open, i, f, b)[i] = WithRun(open[i], f, b)
  BY <1>3
<1>6. QED
  BY <1>3, <1>4, <1>5 DEF SameLevels, RunMoved

PathLens(open) == \A k \in 1..Len(open) : open[k].path_len = k - 1

\* The directories above the first waiting row are all open.
CanSeal(open) ==
    base < position => rows[base + 1].depth < Len(open) /\ rows[base + 1].depth <= Len(path)

\* The rows before b are in accepted parts, unless the walk has failed.
Sealed(b, next) ==
    /\ base' = b
    /\ base' \in Nat
    /\ pc' \in {next, "error"}
    /\ parts' \in Seq(PartType)
    /\ Tiles(parts')
    /\ pc' # "error" => base' = SealedEnd(parts')

\* The stem of a part is a sequence of names, as long as the levels above its
\* first row are there.
LEMMA StemType ==
    ASSUME path \in Seq(Nat), NEW open \in Seq(LevelType),
           PathLens(open),
           NEW d \in Nat, d < Len(open), d <= Len(path)
    PROVE  Stem(open, d) \in Seq(Seq(Nat))
<1>1. ASSUME NEW k \in 1..d
      PROVE  SubSeq(path, open[k].path_len + 1, open[k + 1].path_len) \in Seq(Nat)
  <2>1. /\ k \in 1..Len(open) /\ k + 1 \in 1..Len(open)
        /\ Len(open) \in Nat /\ Len(path) \in Nat
    BY LenProperties
  <2>2. open[k].path_len + 1 = k /\ open[k + 1].path_len = k
    BY <2>1 DEF PathLens
  <2>3. k \in 1..Len(path)
    BY <2>1
  <2>4. \A i \in k..k : path[i] \in Nat
    BY <2>3, ElementOfSeq
  <2>5. SubSeq(path, k, k) \in Seq(Nat)
    BY <2>4, SubSeqProperties
  <2>6. QED
    BY <2>2, <2>5
<1>2. Stem(open, d) \in [1..d -> Seq(Nat)]
  BY <1>1 DEF Stem
<1>3. QED
  BY <1>2, SeqDef

\* What a seal does to the parts, when the rows before end can be sealed.
LEMMA SealFacts ==
    ASSUME TypeOK, TilesInv, pc # "error", Len(rows) = position,
           NEW open \in Seq(LevelType),
           PathLens(open), CanSeal(open),
           NEW end \in Nat, base <= end, end <= position,
           NEW next, Seal(open, end, next)
    PROVE  Sealed(end, next)
<1>1. CASE end = base \/ parts' = parts
  BY <1>1 DEF Sealed, Seal, TypeOK, TilesInv, PartsTile, SealedEnd
<1>2. CASE end # base /\ parts' # parts
  <2> DEFINE part == [first |-> base, end |-> end, stem |-> Stem(open, rows[base + 1].depth)]
  <2>1. /\ base \in Nat /\ position \in Nat /\ base < end
        /\ parts \in Seq(PartType) /\ rows \in Seq(RowType) /\ path \in Seq(Nat)
    BY <1>2 DEF TypeOK
  <2>2. rows[base + 1] \in RowType
    BY <2>1, ElementOfSeq
  <2>3. Stem(open, rows[base + 1].depth) \in Seq(Seq(Nat))
    BY SMTT(60), <2>1, <2>2, StemType DEF RowType, CanSeal
  <2>4. part \in PartType
    BY <2>1, <2>3 DEF PartType
  <2>5. parts' = Append(parts, part) /\ pc' = next /\ base' = end
    BY <1>2 DEF Seal
  <2> HIDE DEF part
  <2>6. /\ parts' \in Seq(PartType)
        /\ parts' # <<>>
        /\ Len(parts') = Len(parts) + 1
        /\ Len(parts) \in Nat
        /\ \A k \in 1..Len(parts) : parts'[k] = parts[k]
        /\ parts'[Len(parts) + 1] = part
    BY SMTT(60), <2>1, <2>4, <2>5, AppendProperties, LenProperties
  <2>7. part.first = base /\ part.end = end
    BY DEF part
  <2>8. base = IF parts = <<>> THEN 0 ELSE parts[Len(parts)].end
    BY DEF TilesInv, SealedEnd
  <2>9. parts = <<>> <=> Len(parts) = 0
    BY <2>1, EmptySeq
  <2>10. ASSUME NEW k \in 1..Len(parts')
         PROVE  /\ parts'[k].first < parts'[k].end
                /\ parts'[k].first = IF k = 1 THEN 0 ELSE parts'[k - 1].end
    <3>1. CASE k <= Len(parts)
      <4>1. k \in 1..Len(parts) /\ (k # 1 => k - 1 \in 1..Len(parts))
        BY <3>1, <2>6
      <4>2. QED
        BY <4>1, <2>6 DEF TilesInv, PartsTile, Tiles
    <3>2. CASE k = Len(parts) + 1
      BY <3>2, <2>1, <2>6, <2>7, <2>8, <2>9
    <3>3. QED
      BY <3>1, <3>2, <2>6
  <2>11. base' = SealedEnd(parts')
    BY <2>5, <2>6, <2>7 DEF SealedEnd
  <2>12. QED
    BY <2>5, <2>6, <2>10, <2>11 DEF Tiles, Sealed
<1>3. QED
  BY <1>1, <1>2

-----------------------------------------------------------------------------
(* What the invariant says of the levels and of the first waiting row.     *)

LEMMA LevelTypes ==
    ASSUME TypeOK
    PROVE  /\ Top \in Nat
           /\ \A i \in 1..Top : /\ stack[i] \in LevelType
                                /\ stack[i].row \in Nat
                                /\ stack[i].start_total \in Nat
                                /\ stack[i].path_len \in Nat
                                /\ stack[i].split \in BOOLEAN
                                /\ stack[i].run_first \in 0..NoRun
                                /\ stack[i].run_bytes \in Nat
                                /\ stack[i].completed \in Nat
<1>1. stack \in Seq(LevelType)
  BY DEF TypeOK
<1>2. Top \in Nat /\ \A i \in 1..Top : stack[i] \in LevelType
  BY <1>1, LenProperties, ElementOfSeq DEF Top
<1>3. QED
  BY <1>2 DEF LevelType

LEMMA RowTypes ==
    ASSUME TypeOK, RowsInv
    PROVE  \A p \in 0..(position - 1) : /\ p + 1 \in 1..Len(rows)
                                       /\ rows[p + 1] \in RowType
                                       /\ rows[p + 1].depth \in Nat
                                       /\ rows[p + 1].bytes \in Nat
<1>1. \A p \in 0..(position - 1) : p + 1 \in 1..Len(rows)
  BY DEF TypeOK, RowsInv
<1>2. \A p \in 0..(position - 1) : rows[p + 1] \in RowType
  BY <1>1, ElementOfSeq DEF TypeOK
<1>3. QED
  BY <1>1, <1>2 DEF RowType

\* While the walk runs, the first waiting row is an entry of the innermost split
\* level or of one above it.
LEMMA WaitingDepth ==
    ASSUME IInv, Running
    PROVE  /\ base < position => /\ rows[base + 1].depth <= Inner - 2
                                 /\ rows[base + 1].depth < Top
                                 /\ rows[base + 1].depth \in Nat
           /\ Len(path) = Top - 1
           /\ PathLens(stack)
           /\ CanSeal(stack)
<1> USE DEF IInv
<1>1. Top \in Nat /\ Inner \in 2..(Top + 1) /\ base \in Nat /\ position \in Nat
  BY LevelTypes DEF LevelsInv, TypeOK
<1>2. Len(path) = Top - 1
  BY <1>1, LevelTypes DEF PathInv, OpenRows, LevelsInv
<1>3. ASSUME base < position
      PROVE  rows[base + 1].depth <= Inner - 2
  <2>1. CASE base = stack[Inner - 1].run_first
    BY <2>1, <1>1, <1>3, RowTypes DEF RunInv
  <2>2. CASE base < stack[Inner - 1].run_first
    <3>1. PICK j \in 2..(Inner - 1) : base = stack[j].row
      BY <2>2 DEF RunInv
    <3>2. rows[base + 1].depth = j - 2
      BY <3>1, <1>1 DEF LevelsInv
    <3>3. QED
      BY <3>1, <3>2, <1>1
  <2>3. QED
    BY <2>1, <2>2, <1>1, LevelTypes DEF RunInv, NoRun
<1>4. base < position => rows[base + 1].depth < Top /\ rows[base + 1].depth \in Nat
  BY <1>1, <1>3, RowTypes
<1>5. PathLens(stack) /\ Top = Len(stack)
  BY DEF PathInv, PathLens, Top
<1>6. CanSeal(stack)
  BY <1>1, <1>2, <1>4, <1>5 DEF CanSeal
<1>7. QED
  BY <1>2, <1>3, <1>4, <1>5, <1>6

\* Offering a child to a run changes nothing but the run.
LEMMA AddToRunStack ==
    ASSUME NEW open \in Seq(LevelType), NEW i \in 1..Len(open), position \in 0..MaxRows,
           NEW p \in Nat, p <= position, NEW bytes \in Nat, NEW next,
           AddToRun(open, i, p, bytes, next)
    PROVE  RunMoved(stack', open, i,
               IF RunIsFull(open[i], p, bytes) THEN p ELSE open[i].run_first)
<1>1. open[i] \in LevelType
  BY ElementOfSeq
<1>2. /\ open[i].run_first \in 0..NoRun
      /\ open[i].run_bytes \in Nat
  BY <1>1, LevelFields
<1>. open[i].run_bytes + bytes \in Nat
  BY <1>2
<1>. p \in 0..NoRun
  BY CutAssumption DEF NoRun
<1>3. CASE RunIsFull(open[i], p, bytes)
  BY <1>3, <1>2, SetRunFacts DEF AddToRun
<1>4. CASE ~RunIsFull(open[i], p, bytes)
  BY <1>4, <1>2, SetRunFacts DEF AddToRun
<1>5. QED
  BY <1>3, <1>4

\* Offering a child seals what waits before it, or nothing.
LEMMA AddToRunParts ==
    ASSUME TypeOK, TilesInv, pc # "error", Len(rows) = position,
           NEW open \in Seq(LevelType), NEW i \in 1..Len(open),
           PathLens(open), CanSeal(open),
           NEW p \in Nat, base <= open[i].run_first, p <= position,
           NEW bytes, NEW next, AddToRun(open, i, p, bytes, next)
    PROVE  Sealed(IF RunIsFull(open[i], p, bytes) THEN p ELSE base, next)
<1>1. CASE RunIsFull(open[i], p, bytes)
  <2>1. Seal(open, p, next)
    BY <1>1 DEF AddToRun, SealIf
  <2>2. open[i].run_first \in Nat /\ base \in Nat
    BY ElementOfSeq, LevelFields DEF TypeOK
  <2>3. base <= p
    BY <1>1, <2>2 DEF RunIsFull
  <2>4. Sealed(p, next)
    BY <2>1, <2>3, SealFacts
  <2>5. QED
    BY <1>1, <2>4
<1>2. CASE ~RunIsFull(open[i], p, bytes)
  BY <1>2 DEF Sealed, AddToRun, SealIf, TilesInv, PartsTile, TypeOK
<1>3. QED
  BY <1>1, <1>2

-----------------------------------------------------------------------------
(* Every action preserves the invariant.                                   *)

\* One row more.
LEMMA AppendRow ==
    ASSUME TypeOK, RowsInv, position < MaxRows, NEW row \in RowType, rows' = Append(rows, row)
    PROVE  /\ rows' \in Seq(RowType)
           /\ Len(rows') = position + 1
           /\ rows'[position + 1] = row
           /\ \A p \in 0..(position - 1) : rows'[p + 1] = rows[p + 1]
<1>1. rows \in Seq(RowType) /\ Len(rows) = position /\ position \in Nat
  BY DEF TypeOK, RowsInv
<1>2. /\ rows' \in Seq(RowType)
      /\ Len(rows') = position + 1
      /\ rows'[position + 1] = row
      /\ \A k \in 1..position : rows'[k] = rows[k]
  BY <1>1, AppendProperties
<1>3. \A p \in 0..(position - 1) : p + 1 \in 1..position
  BY <1>1
<1>4. QED
  BY <1>2, <1>3

\* What Leaf and Enter say of the levels stays so with one row more, an entry of
\* the top level.
LEMMA LevelsWithRow ==
    ASSUME TypeOK, RowsInv, LevelsInv, position < MaxRows,
           NEW row \in RowType, row.depth = Top - 1, rows' = Append(rows, row)
    PROVE  /\ rows'[1].depth = 0
           /\ \A i \in 2..Top :
                 /\ rows'[stack[i].row + 1].depth = i - 2
                 /\ rows'[stack[i].row + 2].depth = i - 1
<1>1. /\ Len(rows') = position + 1
      /\ rows'[position + 1] = row
      /\ \A p \in 0..(position - 1) : rows'[p + 1] = rows[p + 1]
  BY AppendRow
<1>2. /\ Top \in Nat /\ Top >= 1 /\ position \in Nat
      /\ \A i \in 2..Top : stack[i].row \in Nat /\ stack[i].row < position
  BY LevelTypes DEF LevelsInv, TypeOK
<1>3. rows'[1].depth = 0
  <2>1. CASE position = 0
    BY <2>1, <1>2, <1>1
  <2>2. CASE position > 0
    BY <2>2, <1>1, <1>2 DEF RowsInv
  <2>3. QED
    BY <2>1, <2>2, <1>2
<1>4. ASSUME NEW i \in 2..Top
      PROVE  /\ rows'[stack[i].row + 1].depth = i - 2
             /\ rows'[stack[i].row + 2].depth = i - 1
  <2>1. /\ stack[i].row \in 0..(position - 1)
        /\ rows[stack[i].row + 1].depth = i - 2
        /\ stack[i].row + 1 < position => rows[stack[i].row + 2].depth = i - 1
    BY <1>2 DEF LevelsInv
  <2>2. rows'[stack[i].row + 1].depth = i - 2
    BY <2>1, <1>1
  <2>3. CASE stack[i].row + 1 < position
    <3>1. stack[i].row + 1 \in 0..(position - 1)
      BY SMTT(60), <2>1, <2>3, <1>2
    <3>2. rows'[(stack[i].row + 1) + 1] = rows[(stack[i].row + 1) + 1]
      BY <3>1, <1>1
    <3>3. (stack[i].row + 1) + 1 = stack[i].row + 2
      BY <2>1
    <3>4. QED
      BY <3>2, <3>3, <2>1, <2>2, <2>3
  <2>4. CASE stack[i].row + 1 >= position
    <3>1. stack[i].row + 2 = position + 1
      BY SMTT(60), <2>1, <2>4, <1>2
    <3>2. i = Top
      <4>1. SUFFICES ASSUME i # Top PROVE FALSE
        OBVIOUS
      <4>2. Top \in 2..Top /\ i < Top
        BY <4>1, <1>2
      <4>3. stack[i].row < stack[Top].row
        BY <4>2 DEF LevelsInv
      <4>4. QED
        BY <4>2, <4>3, <2>1, <2>4, <1>2
    <3>3. QED
      BY <3>1, <3>2, <2>2, <1>1
  <2>5. stack[i].row + 1 < position \/ stack[i].row + 1 >= position
    BY <2>1, <1>2
  <2>6. QED
    BY <2>2, <2>3, <2>4, <2>5
<1>5. QED
  BY <1>3, <1>4

\* The invariant, by its parts: after an error only the types and the accepted
\* parts matter.
LEMMA InvFromParts ==
    ASSUME TypeOK', Tiles(parts'), pc' # "error" => base' = SealedEnd(parts'),
           pc' \in {"visit", "budget", "offer", "error"},
           pc' # "error" =>
               RowsInv' /\ LevelsInv' /\ PathInv' /\ CompletedInv' /\ OffersInv' /\ RunInv'
    PROVE  IInv'
  BY DEF IInv, TilesInv, PartsTile, Running

LEMMA LeafStep ==
    ASSUME IInv, NEW bytes \in Sizes, Leaf(bytes)
    PROVE  IInv'
<1> DEFINE row == [depth |-> Top - 1, bytes |-> bytes, dir |-> FALSE]
<1>1. /\ pc = "visit" /\ Running /\ Inner = measuring
      /\ TypeOK /\ TilesInv /\ RowsInv /\ LevelsInv /\ PathInv
      /\ CompletedInv /\ OffersInv /\ RunInv
  BY DEF Leaf, Visiting, Running, Inner, IInv
<1>2. /\ position \in Nat /\ position < MaxRows /\ total \in Nat /\ bytes \in Nat
      /\ Top \in Nat /\ Top >= 1 /\ Top \in 1..Top
  BY <1>1, CutAssumption, LevelTypes DEF Leaf, TypeOK, LevelsInv
<1>3. /\ rows' = Append(rows, row) /\ position' = position + 1 /\ total' = total + bytes
      /\ UNCHANGED <<path, measuring, offers>>
      /\ Finished(stack, completed, Top, position, bytes, "budget")
  BY DEF Leaf
<1>4. row \in RowType /\ row.depth = Top - 1
  BY <1>2 DEF RowType
<1> HIDE DEF row
<1>5. /\ rows' \in Seq(RowType)
      /\ Len(rows') = position + 1
      /\ rows'[position + 1].depth = Top - 1
      /\ \A p \in 0..(position - 1) : rows'[p + 1] = rows[p + 1]
  BY <1>1, <1>2, <1>3, <1>4, AppendRow
<1>6. /\ rows'[1].depth = 0
      /\ \A i \in 2..Top : /\ rows'[stack[i].row + 1].depth = i - 2
                           /\ rows'[stack[i].row + 2].depth = i - 1
  BY <1>1, <1>2, <1>3, <1>4, LevelsWithRow
<1>7. /\ PathLens(stack) /\ CanSeal(stack)
      /\ stack \in Seq(LevelType) /\ Top \in 1..Len(stack)
      /\ pc # "error" /\ Len(rows) = position /\ position <= position
      /\ position \in 0..MaxRows
  BY <1>1, <1>2, WaitingDepth DEF Top, TypeOK, RowsInv
<1> DEFINE full == RunIsFull(stack[Top], position, bytes)
<1>8. ASSUME stack[Top].split
      PROVE  /\ Inner = Top + 1 /\ completed = <<>> /\ completed' = completed
             /\ RunMoved(stack', stack, Top, IF full THEN position ELSE stack[Top].run_first)
             /\ Sealed(IF full THEN position ELSE base, "budget")
  <2>1. Inner = Top + 1 /\ completed = <<>>
    BY <1>1, <1>2, <1>8 DEF LevelsInv, CompletedInv
  <2>2. AddToRun(stack, Top, position, bytes, "budget") /\ completed' = completed
    BY <1>3, <1>8 DEF Finished
  <2>3. base <= stack[Top].run_first
    BY <1>1, <1>2, <2>1 DEF RunInv
  <2>4. RunMoved(stack', stack, Top, IF full THEN position ELSE stack[Top].run_first)
    BY <1>2, <1>7, <2>2, AddToRunStack
  <2>5. Sealed(IF full THEN position ELSE base, "budget")
    BY <1>1, <1>2, <1>7, <2>2, <2>3, AddToRunParts
  <2>6. QED
    BY <2>1, <2>2, <2>4, <2>5
<1>9. ASSUME ~stack[Top].split
      PROVE  /\ Inner <= Top /\ stack' = stack
             /\ completed' = Append(completed, Child(position, bytes))
             /\ Sealed(base, "budget")
  <2>1. Inner <= Top
    BY <1>1, <1>2, <1>9 DEF LevelsInv
  <2>2. QED
    BY <1>1, <1>3, <1>9, <2>1 DEF Finished, Sealed, TypeOK, TilesInv, PartsTile
<1>10. /\ stack' \in Seq(LevelType) /\ SameLevels(stack', stack)
       /\ completed' \in Seq(ChildType)
       /\ Sealed(base', "budget") /\ base' <= position
  <2>1. CASE stack[Top].split
    BY <1>1, <1>2, <1>8, <2>1 DEF RunMoved, TypeOK, RowsInv, Sealed
  <2>2. CASE ~stack[Top].split
    <3>1. Child(position, bytes) \in ChildType
      BY <1>2 DEF ChildType, Child
    <3>2. completed \in Seq(ChildType)
      BY <1>1 DEF TypeOK
    <3>3. Append(completed, Child(position, bytes)) \in Seq(ChildType)
      BY <3>1, <3>2, AppendProperties
    <3>4. QED
      BY <1>1, <1>7, <1>9, <2>2, <3>3 DEF SameLevels, RowsInv, Sealed
  <2>3. QED
    BY <2>1, <2>2
<1>11. /\ Top' = Top /\ Len(stack') = Top
       /\ pc' \in {"budget", "error"}
       /\ pc' # "error" => Inner' = Inner
       /\ \A i \in 1..Top : /\ stack'[i].row = stack[i].row
                             /\ stack'[i].start_total = stack[i].start_total
                             /\ stack'[i].path_len = stack[i].path_len
                             /\ stack'[i].split = stack[i].split
                             /\ stack'[i].completed = stack[i].completed
  BY <1>1, <1>3, <1>10 DEF SameLevels, Top, Inner, Sealed
<1>12. TypeOK'
  <2>1. position' \in 0..MaxRows /\ total' \in Nat
    BY <1>2, <1>3, CutAssumption
  <2>2. path' \in Seq(Nat) /\ measuring' \in Nat \ {0, 1} /\ offers' \in Seq(ChildType)
    BY <1>1, <1>3 DEF TypeOK
  <2>3. base' \in Nat /\ parts' \in Seq(PartType) /\ pc' \in {"budget", "error"}
    BY <1>10 DEF Sealed
  <2>4. QED
    BY <2>1, <2>2, <2>3, <1>5, <1>10 DEF TypeOK
<1>13. RowsInv'
  BY <1>2, <1>3, <1>5, <1>6, <1>10 DEF RowsInv, Sealed
<1>14. pc' # "error" => LevelsInv'
  <2>1. ASSUME NEW i \in 2..Top
        PROVE  /\ stack'[i].row < position'
               /\ stack'[i].start_total <= total'
    <3>1. /\ stack'[i].row = stack[i].row /\ stack'[i].start_total = stack[i].start_total
          /\ stack[i].row \in Nat /\ stack[i].start_total \in Nat
      BY <1>1, <1>2, <1>11, LevelTypes
    <3>2. stack[i].row < position /\ stack[i].start_total <= total
      BY <1>1 DEF LevelsInv
    <3>3. QED
      BY <1>2, <1>3, <3>1, <3>2
  <2>2. ASSUME NEW i \in 2..Top
        PROVE  /\ rows'[stack'[i].row + 1].depth = i - 2
               /\ rows'[stack'[i].row + 2].depth = i - 1
    <3>1. i \in 1..Top
      BY <1>2
    <3>2. stack'[i].row = stack[i].row
      BY <1>11, <3>1
    <3>3. rows'[stack[i].row + 1].depth = i - 2 /\ rows'[stack[i].row + 2].depth = i - 1
      BY <1>6
    <3>4. QED
      BY <3>2, <3>3
  <2>3. \A i, j \in 2..Top : i < j => stack'[i].row < stack'[j].row
    BY <1>1, <1>2, <1>11 DEF LevelsInv
  <2>4. pc' # "error" => \A i \in 1..Top : stack'[i].split <=> i < Inner'
    BY <1>1, <1>11 DEF LevelsInv
  <2>5. QED
    BY <1>1, <1>2, <1>11, <2>1, <2>2, <2>3, <2>4 DEF LevelsInv
<1>15. PathInv'
  BY <1>2, <1>11, <1>1, <1>3 DEF OpenRows, PathInv
<1>16. pc' # "error" => CompletedInv'
  <2>1. CASE stack[Top].split
    BY <1>1, <1>2, <1>8, <1>11, <2>1, EmptySeq DEF CompletedInv
  <2>2. CASE ~stack[Top].split
    <3> DEFINE n == Len(completed)
    <3>1. /\ n \in Nat /\ Len(completed') = n + 1
          /\ \A k \in 1..n : completed'[k] = completed[k]
          /\ completed'[n + 1].position = position
          /\ completed' # <<>>
      <4>1. completed \in Seq(ChildType) /\ Child(position, bytes) \in ChildType
        BY <1>1, <1>2 DEF TypeOK, Child, ChildType
      <4>2. completed' = Append(completed, Child(position, bytes))
        BY <1>9, <2>2
      <4>3. completed'[n + 1] = Child(position, bytes)
        BY <4>1, <4>2, AppendProperties
      <4>4. completed'[n + 1].position = position
        BY <4>3 DEF Child
      <4>5. QED
        BY <4>1, <4>2, <4>4, AppendProperties, LenProperties
    <3>2. /\ Inner \in 2..Top
          /\ \A i \in 1..Top : stack[i].completed \in Nat /\ stack[i].completed <= n
          /\ \A i \in 2..Top : stack[i].row \in Nat /\ stack[i].row < position
      <4>1. Inner \in 2..Top
        BY <1>1, <1>2, <1>9, <2>2 DEF LevelsInv
      <4>2. \A i \in 1..Top : stack[i].completed \in Nat /\ stack[i].row \in Nat
        BY <1>1, LevelTypes
      <4>3. \A i \in 1..Top : stack[i].completed <= n
        BY <1>1 DEF CompletedInv
      <4>4. \A i \in 2..Top : i \in 1..Top /\ stack[i].row < position
        BY <1>1, <1>2 DEF LevelsInv
      <4>5. QED
        BY <4>1, <4>2, <4>3, <4>4
    <3>3. ASSUME NEW k \in 1..n
          PROVE  completed[k].position \in 0..(position - 1)
      <4>1. stack[Inner].completed = 0 /\ Inner \in Inner..Top /\ Inner \in 1..Top
        BY <1>1, <3>2 DEF CompletedInv
      <4>2. InSlice(Inner, k) /\ k > 0
        BY <1>1, <4>1 DEF CompletedInv
      <4>3. completed[k].position < position
        BY <4>1, <4>2 DEF InSlice
      <4>4. completed[k] \in ChildType
        BY <1>1, ElementOfSeq DEF TypeOK
      <4>5. completed[k].position \in Nat
        BY <4>4 DEF ChildType
      <4>6. QED
        BY <4>3, <4>5, <1>2
    <3>4. \A k, l \in 1..Len(completed') :
             k < l => completed'[k].position < completed'[l].position
      <4>1. \A k, l \in 1..n : k < l => completed[k].position < completed[l].position
        BY <1>1 DEF CompletedInv
      <4>2. SUFFICES ASSUME NEW k \in 1..(n + 1), NEW l \in 1..(n + 1), k < l
                     PROVE  completed'[k].position < completed'[l].position
        BY <3>1
      <4>3. k \in 1..n
        BY <3>1, <4>2
      <4>4. CASE l \in 1..n
        BY <3>1, <4>1, <4>2, <4>3, <4>4
      <4>5. CASE l = n + 1
        BY <1>2, <3>3, <4>3, <3>1, <4>5
      <4>6. QED
        BY <3>1, <4>4, <4>5
    <3>5. SUFFICES ASSUME pc' # "error" PROVE CompletedInv'
      OBVIOUS
    <3>6. Inner' = Inner /\ Top' = Top /\ position' = position + 1
      BY <1>3, <1>11, <3>5
    <3>7. ASSUME NEW i \in Inner..Top, NEW k \in 1..(n + 1)
          PROVE  InSlice(i, k)'
      <4>1. /\ i \in 2..Top /\ stack'[i].completed = stack[i].completed /\ stack'[i].row = stack[i].row
            /\ i # Top => i + 1 \in 1..Top /\ stack'[i + 1].completed = stack[i + 1].completed
        BY <1>2, <1>11, <3>2
      <4>2. CASE k \in 1..n
        <5>1. completed'[k] = completed[k] /\ InSlice(i, k)
          BY <1>1, <3>1, <4>2 DEF CompletedInv
        <5>2. rows'[completed[k].position + 1] = rows[completed[k].position + 1]
          BY <3>3, <4>2, <1>5
        <5>3. completed[k].position < position + 1
          BY <3>3, <4>2, <1>2
        <5>4. QED
          BY <3>6, <4>1, <5>1, <5>2, <5>3 DEF InSlice
      <4>3. CASE k = n + 1
        <5>1. completed'[k].position = position /\ stack[i].completed < k /\ stack[i].row < position
          BY <3>1, <3>2, <4>1, <4>3
        <5>2. i # Top => ~(k <= stack[i + 1].completed)
          BY <3>1, <3>2, <4>1, <4>3
        <5>3. rows'[completed'[k].position + 1].depth = Top - 1
          BY <1>5, <5>1
        <5>4. completed'[k].position < position'
          BY <1>2, <3>6, <5>1
        <5>5. ~(k <= stack[i].completed)
          BY <3>1, <3>2, <4>1, <4>3
        <5>6. QED
          BY <3>6, <4>1, <5>1, <5>2, <5>3, <5>4, <5>5 DEF InSlice
      <4>4. QED
        BY <3>1, <4>2, <4>3
    <3>8. /\ \A i \in 1..Top : i <= Inner => stack[i].completed = 0
          /\ \A i, j \in 1..Top : i <= j => stack[i].completed <= stack[j].completed
      BY <1>1 DEF CompletedInv
    <3>9. \A i \in 1..Top : stack[i].completed <= n + 1
      BY <3>1, <3>2
    <3>10. \A i \in 1..Top : stack'[i].completed = stack[i].completed
      BY <1>2, <1>11
    <3>11. \A i \in Inner'..Top' : \A k \in 1..Len(completed') : InSlice(i, k)'
      BY <3>1, <3>6, <3>7
    <3>12. ~(Inner > Top)
      BY <1>2, <3>2
    <3>13. QED
      BY <3>1, <3>4, <3>6, <3>8, <3>9, <3>10, <3>11, <3>12 DEF CompletedInv
  <2>3. QED
    BY <2>1, <2>2
<1>17. pc' # "error" => OffersInv'
  BY <1>1, <1>3, <1>11, EmptySeq DEF OffersInv
<1>18. pc' # "error" => RunInv'
  <2>1. SUFFICES ASSUME pc' # "error" PROVE RunInv'
    OBVIOUS
  <2>2. Inner' = Inner /\ Top' = Top /\ position' = position + 1
    BY <1>3, <1>11, <2>1
  <2> DEFINE i == Inner - 1
             run == stack[i].run_first
  <2>3. /\ Inner \in 2..(Top + 1) /\ i \in 1..Top /\ run \in Nat /\ base \in Nat
        /\ Contents(i) = IF i = 1 THEN 0 ELSE stack[i].row + 1
        /\ i # 1 => stack[i].row \in Nat /\ stack[i].row < position
    <3>1. Inner \in 2..(Top + 1) /\ i \in 1..Top
      BY <1>1, <1>2 DEF LevelsInv
    <3>2. stack[i].row \in Nat /\ run \in 0..NoRun
      BY <1>1, <3>1, LevelTypes
    <3>3. i # 1 => i \in 2..Top
      BY <1>2, <3>1
    <3>4. run \in Nat /\ base \in Nat
      BY <1>1, <3>2 DEF TypeOK
    <3>5. Contents(i) = IF i = 1 THEN 0 ELSE stack[i].row + 1
      BY DEF Contents
    <3>6. i # 1 => stack[i].row < position
      BY <1>1, <3>3 DEF LevelsInv
    <3>7. QED
      BY <3>1, <3>2, <3>4, <3>5, <3>6
  <2>4. /\ base <= run /\ Contents(i) <= run /\ run <= FinishedEnd(i)
        /\ run < position => rows[run + 1].depth = Inner - 2
        /\ base < run => \E j \in 2..i : base = stack[j].row
    BY <1>1 DEF RunInv
  <2>5. Contents(i)' = Contents(i)
    BY <1>11, <2>2, <2>3 DEF Contents
  <2>6. CASE stack[Top].split
    <3>1. i = Top /\ FinishedEnd(i) = position /\ FinishedEnd(i)' = position + 1
      BY <1>2, <1>8, <2>2, <2>6 DEF FinishedEnd
    <3>2. stack'[i].run_first = IF full THEN position ELSE run
      BY <1>8, <2>6, <3>1 DEF RunMoved
    <3>3. base' = IF full THEN position ELSE base
      BY <1>8, <2>6 DEF Sealed
    <3>4. Contents(i) <= position
      BY <1>2, <2>3
    <3>5. rows'[position + 1].depth = Inner - 2
      BY <1>2, <1>5, <1>8, <2>6
    <3>6. CASE full
      <4>1. stack'[i].run_first = position /\ base' = position
        BY <3>2, <3>3, <3>6
      <4>2. QED
        BY <1>2, <2>2, <2>5, <3>1, <3>4, <3>5, <4>1 DEF RunInv
    <3>7. CASE ~full
      <4>1. stack'[i].run_first = run /\ base' = base
        BY <3>2, <3>3, <3>7
      <4>2. run < position => rows'[run + 1] = rows[run + 1]
        BY <1>2, <2>3, <1>5
      <4>3. run < position + 1 => rows'[run + 1].depth = Inner - 2
        BY <1>2, <2>3, <2>4, <3>5, <4>2
      <4>4. run <= position + 1
        BY <1>2, <2>3, <2>4, <3>1
      <4>5. base < run => \E j \in 2..i : base = stack'[j].row
        BY <1>2, <1>11, <2>4, <3>1
      <4>6. QED
        BY <2>2, <2>4, <2>5, <3>1, <4>1, <4>3, <4>4, <4>5 DEF RunInv
    <3>8. QED
      BY <3>6, <3>7
  <2>7. CASE ~stack[Top].split
    <3>1. i < Top /\ i + 1 \in 2..Top
      BY <1>2, <1>9, <2>3, <2>7
    <3>2. FinishedEnd(i)' = FinishedEnd(i) /\ FinishedEnd(i) = stack[i + 1].row
      BY <1>11, <2>2, <3>1 DEF FinishedEnd
    <3>3. stack[i + 1].row < position /\ stack[i + 1].row \in Nat
      BY <1>1, <3>1, LevelTypes DEF LevelsInv
    <3>4. run < position
      BY <1>2, <2>3, <2>4, <3>2, <3>3
    <3>5. rows'[run + 1].depth = Inner - 2
      BY <1>2, <1>5, <2>3, <2>4, <3>4
    <3>6. stack' = stack /\ base' = base
      BY <1>9, <2>7 DEF Sealed
    <3>7. QED
      BY <2>2, <2>4, <2>5, <3>2, <3>5, <3>6 DEF RunInv
  <2>8. QED
    BY <2>6, <2>7
<1>19. QED
  BY <1>10, <1>11, <1>12, <1>13, <1>14, <1>15, <1>16, <1>17, <1>18, InvFromParts DEF Sealed

\* Steps that only end the walk with an error.
LEMMA ErrorStep ==
    ASSUME IInv, pc' = "error",
           UNCHANGED <<stack, base, position, total, path, measuring, completed, offers, rows, parts>>
    PROVE  IInv'
<1>1. TypeOK'
  BY DEF IInv, TypeOK
<1>2. Tiles(parts')
  BY DEF IInv, TilesInv, PartsTile, Tiles
<1>3. QED
  BY <1>1, <1>2, InvFromParts

LEMMA StartStep ==
    ASSUME IInv, Start
    PROVE  IInv'
<1>1. CASE pc' = "error"
  BY <1>1, ErrorStep DEF Start
<1>2. CASE pc' # "error"
  <2>1. /\ pc = "start" /\ pc' = "visit" /\ stack' = <<Root>>
        /\ UNCHANGED <<base, position, total, path, measuring, completed, offers, rows, parts>>
        /\ base = 0 /\ position = 0 /\ measuring = 2 /\ path = <<>>
        /\ completed = <<>> /\ offers = <<>> /\ rows = <<>>
        /\ TypeOK /\ TilesInv
    BY <1>2 DEF Start, IInv
  <2>2. /\ Root \in LevelType /\ Root.row = 0 /\ Root.path_len = 0 /\ Root.split
        /\ Root.run_first = 0 /\ Root.completed = 0
    BY CutAssumption DEF NoRun, Root, Level, LevelType
  <2>3. stack' \in Seq(LevelType) /\ Len(stack') = 1 /\ stack'[1] = Root
    BY <2>1, <2>2
  <2>4. TypeOK'
    BY <2>1, <2>3 DEF TypeOK
  <2>5. Top' = 1 /\ Inner' = 2
    BY <2>1, <2>3 DEF Top, Inner
  <2>6. RowsInv'
    BY <2>1, EmptySeq DEF RowsInv
  <2>7. LevelsInv'
    BY <2>2, <2>3, <2>5 DEF LevelsInv
  <2>8. PathInv'
    BY <2>5, <2>1, <2>2, <2>3 DEF OpenRows, PathInv
  <2>9. CompletedInv'
    BY <2>1, <2>2, <2>3, <2>5, EmptySeq DEF CompletedInv
  <2>10. OffersInv'
    BY <2>1, EmptySeq DEF OffersInv
  <2>11. RunInv'
    BY <2>1, <2>2, <2>3, <2>5 DEF RunInv, Contents, FinishedEnd
  <2>12. Tiles(parts') /\ base' = SealedEnd(parts')
    BY <2>1 DEF TilesInv, PartsTile, Tiles, SealedEnd
  <2>13. QED
    BY <2>1, <2>4, <2>6, <2>7, <2>8, <2>9, <2>10, <2>11, <2>12, InvFromParts
<1>3. QED
  BY <1>1, <1>2

\* The run loop moves on, with the same outermost measuring level.
LEMMA MoveOn ==
    ASSUME IInv, Running, pc' \in {"visit", "budget"}, offers = <<>>,
           measuring' = Inner,
           UNCHANGED <<stack, base, position, total, path, completed, offers, rows, parts>>
    PROVE  IInv'
<1> USE DEF IInv
<1>1. Top' = Top /\ Inner' = Inner
  BY DEF Top, Inner
<1>2. TypeOK'
  BY LevelTypes DEF LevelsInv, TypeOK
<1>3. RowsInv' /\ LevelsInv'
  BY <1>1 DEF RowsInv, LevelsInv
<1>4. PathInv'
  BY <1>1 DEF PathInv, OpenRows
<1>5. CompletedInv'
  BY <1>1 DEF CompletedInv, InSlice
<1>6. OffersInv'
  BY EmptySeq DEF OffersInv
<1>7. RunInv'
  BY <1>1 DEF RunInv, Contents, FinishedEnd
<1>8. Tiles(parts') /\ base' = SealedEnd(parts')
  BY DEF TilesInv, PartsTile, Tiles, SealedEnd, Running
<1>9. QED
  BY <1>2, <1>3, <1>4, <1>5, <1>6, <1>7, <1>8, InvFromParts

LEMMA WithinBudgetStep ==
    ASSUME IInv, WithinBudget
    PROVE  IInv'
<1>1. Running /\ offers = <<>> /\ Inner = measuring
  BY DEF WithinBudget, Running, IInv, OffersInv, Inner
<1>2. QED
  BY <1>1, MoveOn DEF WithinBudget

LEMMA OfferedStep ==
    ASSUME IInv, Offered
    PROVE  IInv'
<1>1. Running /\ offers = <<>> /\ Inner = measuring + 1
  BY DEF Offered, Running, Inner
<1>2. QED
  BY <1>1, MoveOn DEF Offered

\* The root is finished: everything that waits is sealed.
LEMMA FinishRootStep ==
    ASSUME IInv, FinishRoot
    PROVE  IInv'
<1>1. /\ Running /\ pc = "visit" /\ stack' = <<>>
      /\ UNCHANGED <<position, total, path, measuring, completed, offers, rows>>
      /\ Seal(stack, position, "done")
      /\ TypeOK /\ TilesInv /\ RowsInv
  BY DEF FinishRoot, Visiting, Running, IInv
<1>2. PathLens(stack) /\ CanSeal(stack)
  BY <1>1, WaitingDepth
<1>3. stack \in Seq(LevelType) /\ position \in Nat
  BY <1>1, CutAssumption DEF TypeOK
<1>4. Sealed(position, "done")
  BY <1>1, <1>2, <1>3, SealFacts DEF RowsInv
<1>5. stack' \in Seq(LevelType)
  BY <1>1, EmptySeq
<1>6. TypeOK'
  BY <1>1, <1>4, <1>5 DEF TypeOK, Sealed
<1>7. TilesInv'
  BY <1>1, <1>4 DEF TilesInv, PartsTile, Sealed
<1>8. pc' \in {"done", "error"}
  BY <1>4 DEF Sealed
<1>9. QED
  BY <1>6, <1>7, <1>8 DEF IInv, Running

\* Directories below the root: what the invariant says of them.
LEMMA OpenFacts ==
    ASSUME IInv, Running
    PROVE  /\ Top \in Nat /\ Top >= 1 /\ Inner \in 2..(Top + 1)
           /\ position \in Nat /\ base \in Nat /\ total \in Nat /\ Len(completed) \in Nat
           /\ base <= position
           /\ stack \in Seq(LevelType) /\ Top = Len(stack) /\ completed \in Seq(ChildType)
           /\ path \in Seq(Nat) /\ Len(path) = Top - 1
           /\ \A i \in 1..Top : /\ stack[i].row \in Nat
                                /\ stack[i].completed \in Nat
                                /\ stack[i].run_first \in Nat
                                /\ stack[i].path_len = i - 1
                                /\ stack[i].split <=> i < Inner
           /\ \A i \in 2..Top : /\ stack[i].row < position
                                /\ stack[i].start_total \in Nat
                                /\ stack[i].start_total <= total
                                /\ rows[stack[i].row + 1].depth = i - 2
           /\ \A i, j \in 2..Top : i < j => stack[i].row < stack[j].row
           /\ \A k \in 1..Len(completed) : completed[k].position \in Nat
<1> USE DEF IInv
<1>1. TypeOK
  OBVIOUS
<1>2. \A i \in 1..Top : stack[i].run_first \in Nat
  BY LevelTypes, LevelFields
<1>3. \A k \in 1..Len(completed) : completed[k].position \in Nat
  <2>1. \A k \in 1..Len(completed) : completed[k] \in ChildType
    BY <1>1, ElementOfSeq DEF TypeOK
  <2>2. QED
    BY <2>1 DEF ChildType
<1>4. \A i \in 1..Top : stack[i].row \in Nat /\ stack[i].completed \in Nat /\ stack[i].start_total \in Nat
  BY LevelTypes
<1>5. /\ Top \in Nat /\ position \in Nat /\ base \in Nat /\ total \in Nat /\ Len(completed) \in Nat
      /\ stack \in Seq(LevelType) /\ completed \in Seq(ChildType) /\ path \in Seq(Nat)
  BY <1>1, LevelTypes, LenProperties, CutAssumption DEF TypeOK
<1>6. \A i \in 1..Top : stack[i].path_len = i - 1 /\ (stack[i].split <=> i < Inner)
  BY DEF PathInv, LevelsInv
<1>7. \A i \in 2..Top : i \in 1..Top
  BY <1>5
<1>8. QED
  BY <1>2, <1>3, <1>4, <1>5, <1>6, <1>7, WaitingDepth DEF LevelsInv, RowsInv, Top

\* The stack without its top, and the path without its last name.
LEMMA PopFacts ==
    ASSUME IInv, Running, Top > 1
    PROVE  /\ Below \in Seq(LevelType) /\ Len(Below) = Top - 1
           /\ \A k \in 1..(Top - 1) : Below[k] = stack[k]
           /\ SubSeq(path, 1, stack[Top - 1].path_len) \in Seq(Nat)
           /\ SubSeq(path, 1, stack[Top - 1].path_len) = [k \in 1..(Top - 2) |-> stack[k + 1].row]
<1>1. /\ Top \in Nat /\ stack \in Seq(LevelType) /\ Top = Len(stack) /\ path \in Seq(Nat)
      /\ Len(path) = Top - 1 /\ stack[Top - 1].path_len = Top - 2
  BY OpenFacts
<1>2. Below \in Seq(LevelType) /\ Len(Below) = Top - 1 /\ \A k \in 1..(Top - 1) : Below[k] = stack[k]
  BY <1>1, SubSeqProperties, ElementOfSeq DEF Below
<1>3. /\ SubSeq(path, 1, Top - 2) \in Seq(Nat)
      /\ Len(SubSeq(path, 1, Top - 2)) = Top - 2
      /\ \A k \in 1..(Top - 2) : SubSeq(path, 1, Top - 2)[k] = path[k]
  BY <1>1, SubSeqProperties, ElementOfSeq
<1>4. path = [k \in 1..(Top - 1) |-> stack[k + 1].row]
  BY DEF IInv, PathInv, OpenRows
<1>5. SubSeq(path, 1, Top - 2) = [k \in 1..(Top - 2) |-> stack[k + 1].row]
  BY <1>1, <1>4, <1>3, LenProperties
<1>6. QED
  BY <1>1, <1>2, <1>3, <1>5

\* What leaving a directory does to the levels, when the open run of the directory
\* above may have moved.
LEMMA PopLevels ==
    ASSUME IInv, Running, pc' = "visit", Top > 1,
           stack' \in Seq(LevelType), SameLevels(stack', Below),
           path' = SubSeq(path, 1, stack[Top - 1].path_len),
           measuring' = (IF Inner < Top THEN Inner ELSE Top),
           UNCHANGED <<position, total, offers, rows>>
    PROVE  /\ Top' = Top - 1 /\ Inner' = (IF Inner < Top THEN Inner ELSE Top)
           /\ LevelsInv' /\ PathInv' /\ path' \in Seq(Nat) /\ measuring' \in Nat \ {0, 1}
           /\ \A i \in 1..(Top - 1) : /\ stack'[i].row = stack[i].row
                                      /\ stack'[i].completed = stack[i].completed
<1>1. /\ Top \in Nat /\ Inner \in 2..(Top + 1)
      /\ Below \in Seq(LevelType) /\ Len(Below) = Top - 1
      /\ \A k \in 1..(Top - 1) : Below[k] = stack[k]
      /\ path' \in Seq(Nat)
      /\ path' = [k \in 1..(Top - 2) |-> stack[k + 1].row]
  BY OpenFacts, PopFacts
<1>2. /\ Top' = Top - 1
      /\ \A i \in 1..(Top - 1) : /\ stack'[i].row = stack[i].row
                                 /\ stack'[i].start_total = stack[i].start_total
                                 /\ stack'[i].path_len = stack[i].path_len
                                 /\ stack'[i].split = stack[i].split
                                 /\ stack'[i].completed = stack[i].completed
  BY <1>1 DEF SameLevels, Top
<1>3. Inner' = (IF Inner < Top THEN Inner ELSE Top) /\ measuring' \in Nat \ {0, 1}
  BY <1>1 DEF Inner
<1>4. LevelsInv'
  <2>1. LevelsInv
    BY DEF IInv
  <2>2. Top' >= 1 /\ Inner' \in 2..(Top' + 1)
    BY <1>1, <1>2, <1>3
  <2>3. ASSUME NEW i \in 1..(Top - 1)
        PROVE  stack'[i].split <=> i < Inner'
    <3>1. stack[i].split <=> i < Inner
      BY <1>1, <2>1 DEF LevelsInv
    <3>2. i < Inner <=> i < Inner'
      BY <1>1, <1>3
    <3>3. stack'[i].split = stack[i].split
      BY <1>2
    <3>4. QED
      BY <3>1, <3>2, <3>3
  <2>4. \A i \in 2..(Top - 1) :
          /\ stack'[i].row < position'
          /\ stack'[i].start_total <= total'
          /\ rows'[stack'[i].row + 1].depth = i - 2
          /\ stack'[i].row + 1 < position' => rows'[stack'[i].row + 2].depth = i - 1
    <3>1. \A i \in 2..(Top - 1) : i \in 2..Top /\ i \in 1..(Top - 1)
      BY <1>1
    <3>2. QED
      BY <1>2, <2>1, <3>1 DEF LevelsInv
  <2>5. \A i, j \in 2..(Top - 1) : i < j => stack'[i].row < stack'[j].row
    <3>1. \A i \in 2..(Top - 1) : i \in 2..Top /\ i \in 1..(Top - 1)
      BY <1>1
    <3>2. QED
      BY <1>2, <2>1, <3>1 DEF LevelsInv
  <2>6. QED
    BY <1>2, <2>2, <2>3, <2>4, <2>5 DEF LevelsInv
<1>5. PathInv'
  <2>1. OpenRows' = [k \in 1..(Top - 2) |-> stack[k + 1].row]
    <3>1. OpenRows' = [k \in 1..(Top - 2) |-> stack'[k + 1].row]
      BY <1>1, <1>2 DEF OpenRows
    <3>2. \A k \in 1..(Top - 2) : k + 1 \in 1..(Top - 1)
      BY <1>1
    <3>3. QED
      BY <1>2, <3>1, <3>2
  <2>2. \A i \in 1..(Top - 1) : stack[i].path_len = i - 1
    BY <1>1, OpenFacts
  <2>3. QED
    BY <1>1, <1>2, <2>1, <2>2 DEF PathInv
<1>6. QED
  BY <1>1, <1>2, <1>3, <1>4, <1>5

\* A split directory is finished, with everything of it in parts.
LEMMA FinishSplitStep ==
    ASSUME IInv, FinishSplit
    PROVE  IInv'
<1> USE DEF IInv
<1>1. /\ Running /\ pc = "visit" /\ Top > 1 /\ stack[Top].split /\ Inner = measuring
      /\ stack' = SetRun(Below, Top - 1, position, 0)
      /\ completed' = SubSeq(completed, 1, stack[Top].completed)
      /\ SealIf(SealsAtEnd(stack[Top]), stack, position, "visit")
      /\ path' = SubSeq(path, 1, stack[Top - 1].path_len)
      /\ measuring' = (IF measuring < Top THEN measuring ELSE Top)
      /\ UNCHANGED <<position, total, offers, rows>>
  BY DEF FinishSplit, Visiting, Running, Inner, Pop
<1>2. /\ Top \in Nat /\ position \in Nat /\ base \in Nat /\ base <= position
      /\ Inner = Top + 1 /\ Top \in 1..Top
      /\ \A i \in 1..Top : stack[i].row \in Nat
      /\ \A i \in 2..Top : stack[i].row < position
      /\ \A i, j \in 2..Top : i < j => stack[i].row < stack[j].row
      /\ stack[Top].run_first \in Nat
  <2>1. /\ Top \in Nat /\ Top >= 1 /\ position \in Nat /\ base \in Nat /\ base <= position
        /\ \A i \in 1..Top : stack[i].row \in Nat /\ stack[i].run_first \in Nat
        /\ \A i \in 2..Top : stack[i].row < position
        /\ \A i, j \in 2..Top : i < j => stack[i].row < stack[j].row
    BY <1>1, OpenFacts
  <2>2. Top \in 1..Top /\ Inner \in 2..(Top + 1) /\ (stack[Top].split <=> Top < Inner)
    BY <1>1, <2>1 DEF LevelsInv
  <2>3. Inner = Top + 1
    BY <1>1, <2>1, <2>2
  <2>4. QED
    BY <2>1, <2>2, <2>3
<1>3. PathLens(stack) /\ CanSeal(stack) /\ stack \in Seq(LevelType)
  BY <1>1, WaitingDepth, OpenFacts
\* What is not sealed is nothing.
<1>4. ~SealsAtEnd(stack[Top]) => base = position
  <2>1. SUFFICES ASSUME ~SealsAtEnd(stack[Top]) PROVE base = position
    OBVIOUS
  <2>2. stack[Top].run_first >= position /\ ~(base <= stack[Top].row)
    BY <1>2, <2>1 DEF SealsAtEnd
  <2>3. /\ base <= stack[Top].run_first
        /\ stack[Top].run_first <= position
        /\ base < stack[Top].run_first => \E j \in 2..Top : base = stack[j].row
    BY <1>1, <1>2 DEF RunInv, FinishedEnd
  <2>4. \A j \in 2..Top : stack[j].row <= stack[Top].row
    <3>1. \A j \in 2..Top : j = Top \/ (j < Top /\ Top \in 2..Top)
      BY <1>1, <1>2
    <3>2. \A j \in 2..Top : j \in 1..Top
      BY <1>2
    <3>3. QED
      BY <1>2, <3>1, <3>2
  <2>5. ~(base < stack[Top].run_first)
    BY <2>2, <2>3, <2>4
  <2>6. QED
    BY <1>2, <2>2, <2>3, <2>5
<1>5. Sealed(position, "visit")
  <2>1. CASE SealsAtEnd(stack[Top])
    BY <1>1, <2>1, <1>2, <1>3, SealFacts DEF SealIf, RowsInv
  <2>2. CASE ~SealsAtEnd(stack[Top])
    BY <1>1, <1>4, <2>2 DEF SealIf, Sealed, TypeOK, TilesInv, PartsTile
  <2>3. QED
    BY <2>1, <2>2
<1>6. RunMoved(stack', Below, Top - 1, position)
  <2>1. Below \in Seq(LevelType) /\ Len(Below) = Top - 1
    BY <1>1, PopFacts
  <2>2. position \in 0..NoRun
    BY CutAssumption DEF TypeOK, NoRun
  <2>3. Top - 1 \in 1..Len(Below)
    BY <1>1, <1>2, <2>1
  <2>4. QED
    BY <1>1, <2>1, <2>2, <2>3, SetRunFacts
<1>7. /\ stack' \in Seq(LevelType) /\ SameLevels(stack', Below)
      /\ stack'[Top - 1].run_first = position
  BY <1>6 DEF RunMoved
<1>8. completed = <<>> /\ completed' = <<>> /\ Len(completed') = 0
  BY <1>1, <1>2, EmptySeq DEF CompletedInv
<1>9. CASE pc' = "visit"
  <2>1. /\ Top' = Top - 1 /\ Inner' = Top
        /\ LevelsInv' /\ PathInv' /\ path' \in Seq(Nat) /\ measuring' \in Nat \ {0, 1}
        /\ \A i \in 1..(Top - 1) : /\ stack'[i].row = stack[i].row
                                   /\ stack'[i].completed = stack[i].completed
    BY <1>1, <1>2, <1>7, <1>9, PopLevels
  <2>2. TypeOK'
    BY <1>1, <1>5, <1>7, <1>8, <1>9, <2>1, EmptySeq DEF TypeOK, Sealed
  <2>3. RowsInv'
    BY <1>1, <1>2, <1>5 DEF RowsInv, Sealed
  <2>4. CompletedInv'
    <3>1. \A i \in 1..(Top - 1) : stack[i].completed = 0
      BY <1>1, <1>2 DEF CompletedInv
    <3>2. /\ \A k \in 1..Len(completed') : FALSE
          /\ \A i \in Inner'..Top' : FALSE
          /\ Len(completed') = 0
      BY <1>2, <1>8, <2>1, EmptySeq
    <3>3. \A i \in 1..Top' : stack'[i].completed = 0
      BY <2>1, <3>1
    <3>4. QED
      BY <1>8, <3>2, <3>3 DEF CompletedInv
  <2>5. OffersInv'
    BY <1>1, <1>9, EmptySeq DEF OffersInv
  <2>6. RunInv'
    <3>1. base' = position /\ position' = position
      BY <1>1, <1>5 DEF Sealed
    <3>2. FinishedEnd(Top)' = position
      BY <1>2, <2>1, <3>1 DEF FinishedEnd
    <3>3. Contents(Top)' <= position
      <4>1. CASE Top - 1 = 1
        BY <1>2, <2>1, <4>1 DEF Contents
      <4>2. CASE Top - 1 # 1
        <5>1. Top - 1 \in 2..Top /\ Top - 1 \in 1..(Top - 1)
          BY <1>1, <1>2, <4>2
        <5>2. stack[Top - 1].row < position
          BY <1>2, <5>1
        <5>3. stack[Top - 1].row \in Nat
          BY <1>2, <5>1
        <5>4. Contents(Top)' = stack[Top - 1].row + 1
          BY <2>1, <4>2, <5>1 DEF Contents
        <5>5. QED
          BY <1>2, <5>2, <5>3, <5>4
      <4>3. QED
        BY <4>1, <4>2
    <3>4. Inner' - 1 = Top' /\ Top' = Top - 1
      BY <1>2, <2>1
    <3>5. QED
      BY <1>2, <1>7, <3>1, <3>2, <3>3, <3>4 DEF RunInv
  <2>7. QED
    BY <1>5, <1>9, <2>1, <2>2, <2>3, <2>4, <2>5, <2>6, InvFromParts DEF Sealed
<1>10. CASE pc' # "visit"
  <2>1. path' \in Seq(Nat) /\ measuring' \in Nat \ {0, 1}
    BY <1>1, PopFacts, <1>2 DEF TypeOK
  <2>2. pc' = "error"
    BY <1>5, <1>10 DEF Sealed
  <2>3. TypeOK'
    BY <1>1, <1>5, <1>7, <1>8, <2>1, <2>2, EmptySeq DEF TypeOK, Sealed
  <2>4. QED
    BY <1>5, <2>2, <2>3, InvFromParts DEF Sealed
<1>11. QED
  BY <1>9, <1>10

\* A directory that fits is finished: it is a child of the one above.
LEMMA FinishMeasuredStep ==
    ASSUME IInv, FinishMeasured
    PROVE  IInv'
<1> USE DEF IInv
<1> DEFINE p == stack[Top].row
           bytes == total - stack[Top].start_total
           c == stack[Top].completed
           kept == SubSeq(completed, 1, c)
           full == RunIsFull(Below[Top - 1], p, bytes)
<1>1. /\ Running /\ pc = "visit" /\ Top > 1 /\ ~stack[Top].split /\ Inner = measuring
      /\ Finished(Below, kept, Top - 1, p, bytes, "visit")
      /\ path' = SubSeq(path, 1, stack[Top - 1].path_len)
      /\ measuring' = (IF measuring < Top THEN measuring ELSE Top)
      /\ UNCHANGED <<position, total, offers, rows>>
  BY DEF FinishMeasured, Visiting, Running, Inner, Pop
<1>2. /\ Top \in Nat /\ position \in Nat /\ base \in Nat /\ base <= position
      /\ Inner \in 2..Top /\ Top \in 1..Top /\ Top \in 2..Top
      /\ p \in Nat /\ p < position /\ bytes \in Nat /\ c \in Nat
      /\ rows[p + 1].depth = Top - 2
  <2>1. /\ Top \in Nat /\ Top >= 1 /\ position \in Nat /\ base \in Nat /\ base <= position /\ total \in Nat
        /\ \A i \in 1..Top : stack[i].row \in Nat /\ stack[i].completed \in Nat
        /\ \A i \in 2..Top : /\ stack[i].row < position
                             /\ stack[i].start_total \in Nat
                             /\ stack[i].start_total <= total
                             /\ rows[stack[i].row + 1].depth = i - 2
    BY <1>1, OpenFacts
  <2>2. Top \in 1..Top /\ Top \in 2..Top /\ Inner \in 2..(Top + 1) /\ (stack[Top].split <=> Top < Inner)
    BY <1>1, <2>1 DEF LevelsInv
  <2>3. Inner \in 2..Top
    BY <1>1, <2>1, <2>2
  <2>4. bytes \in Nat
    BY <2>1, <2>2
  <2>5. p \in Nat /\ p < position /\ c \in Nat /\ rows[p + 1].depth = Top - 2
    BY <2>1, <2>2
  <2>6. QED
    BY <2>1, <2>2, <2>3, <2>4, <2>5
<1>3. /\ Below \in Seq(LevelType) /\ Len(Below) = Top - 1 /\ Top - 1 \in 1..Len(Below)
      /\ \A k \in 1..(Top - 1) : Below[k] = stack[k]
      /\ path' \in Seq(Nat)
  BY <1>1, PopFacts, <1>2
<1>4. /\ kept \in Seq(ChildType) /\ Len(kept) = c
      /\ \A k \in 1..c : k \in 1..Len(completed) /\ kept[k] = completed[k]
  <2>1. completed \in Seq(ChildType) /\ Len(completed) \in Nat
    BY <1>1, OpenFacts
  <2>2. c <= Len(completed)
    BY <1>1, <1>2 DEF CompletedInv
  <2>3. \A k \in 1..c : k \in 1..Len(completed) /\ completed[k] \in ChildType
    BY <1>2, <2>1, <2>2, ElementOfSeq
  <2>4. QED
    BY <1>2, <2>1, <2>2, <2>3, SubSeqProperties
\* The directory above can still name the stem of what waits.
<1>5. PathLens(Below) /\ CanSeal(Below)
  <2>1. /\ base < position => /\ rows[base + 1].depth <= Inner - 2
                              /\ rows[base + 1].depth \in Nat
        /\ Len(path) = Top - 1 /\ PathLens(stack)
    BY <1>1, WaitingDepth
  <2>2. PathLens(Below)
    <3>1. \A k \in 1..(Top - 1) : stack[k].path_len = k - 1
      BY <1>1, OpenFacts, <1>2
    <3>2. QED
      BY <1>3, <3>1 DEF PathLens
  <2>3. CanSeal(Below)
    BY <1>2, <1>3, <2>1 DEF CanSeal
  <2>4. QED
    BY <2>2, <2>3
<1>6. /\ pc # "error" /\ Len(rows) = position /\ position \in 0..MaxRows /\ p <= position
      /\ TypeOK /\ TilesInv
  BY SMTT(60), <1>1, <1>2 DEF RowsInv, TypeOK
<1> HIDE DEF p, bytes, kept
<1> DEFINE run == stack[Top - 1].run_first
\* Either the directory above is split, and has an open run, or it is measuring too.
<1>7. ASSUME stack[Top - 1].split
      PROVE  /\ Inner = Top /\ completed' = kept /\ c = 0
             /\ RunMoved(stack', Below, Top - 1, IF full THEN p ELSE run)
             /\ Sealed(IF full THEN p ELSE base, "visit")
             /\ base <= run /\ run <= p /\ run \in Nat
  <2>1. Top - 1 \in 1..Top
    BY <1>1, <1>2
  <2>2. Inner = Top
    <3>1. Top - 1 < Inner
      BY <1>1, <1>7, <2>1 DEF LevelsInv
    <3>2. QED
      BY <1>2, <3>1
  <2>3. c = 0
    BY <1>1, <1>2, <2>2 DEF CompletedInv
  <2>4. Below[Top - 1] = stack[Top - 1]
    BY <1>2, <1>3
  <2>5. AddToRun(Below, Top - 1, p, bytes, "visit") /\ completed' = kept
    BY <1>1, <1>7, <2>4 DEF Finished
  <2>6. run \in Nat
    BY <1>1, <2>1, OpenFacts
  <2>7. base <= run /\ run <= p
    BY <1>1, <2>2, <1>2 DEF RunInv, FinishedEnd, p
  <2>8. RunMoved(stack', Below, Top - 1, IF full THEN p ELSE run)
    BY <1>2, <1>3, <1>6, <2>4, <2>5, AddToRunStack
  <2>9. Sealed(IF full THEN p ELSE base, "visit")
    BY <2>4, <2>7, <1>2, <1>3, <1>5, <1>6, <2>5, AddToRunParts
  <2>10. QED
    BY <2>2, <2>3, <2>5, <2>6, <2>7, <2>8, <2>9
<1>8. ASSUME ~stack[Top - 1].split
      PROVE  /\ Inner \in 2..(Top - 1) /\ stack' = Below
             /\ completed' = Append(kept, Child(p, bytes))
             /\ Sealed(base, "visit")
  <2>1. Top - 1 \in 1..Top
    BY <1>1, <1>2
  <2>2. Inner \in 2..(Top - 1)
    BY <1>1, <1>8, <2>1, <1>2 DEF LevelsInv
  <2>3. Below[Top - 1] = stack[Top - 1]
    BY <1>2, <1>3
  <2>4. /\ completed' = Append(kept, Child(p, bytes)) /\ stack' = Below
        /\ pc' = "visit" /\ UNCHANGED <<base, parts>>
    BY <1>1, <1>8, <2>3 DEF Finished
  <2>5. Sealed(base, "visit")
    BY <2>4, <1>6 DEF Sealed, TypeOK, TilesInv, PartsTile
  <2>6. QED
    BY <2>2, <2>4, <2>5
<1>9. Child(p, bytes) \in ChildType /\ Child(p, bytes).position = p
  BY <1>2 DEF Child, ChildType
<1>10. /\ stack' \in Seq(LevelType) /\ SameLevels(stack', Below)
       /\ completed' \in Seq(ChildType)
       /\ Sealed(base', "visit") /\ base' <= position
  <2>1. CASE stack[Top - 1].split
    <3>1. stack' \in Seq(LevelType) /\ SameLevels(stack', Below)
      BY <1>7, <2>1 DEF RunMoved
    <3>2. completed' \in Seq(ChildType)
      BY <1>4, <1>7, <2>1
    <3>3. base' = IF full THEN p ELSE base
      BY <1>7, <2>1 DEF Sealed
    <3>4. Sealed(base', "visit")
      BY <1>7, <2>1, <3>3
    <3>5. QED
      BY <1>2, <3>1, <3>2, <3>3, <3>4
  <2>2. CASE ~stack[Top - 1].split
    <3>1. completed' \in Seq(ChildType)
      BY <1>4, <1>8, <1>9, <2>2, AppendProperties
    <3>2. stack' \in Seq(LevelType) /\ SameLevels(stack', Below)
      BY <1>3, <1>8, <2>2 DEF SameLevels
    <3>3. base' = base
      BY <1>8, <2>2 DEF Sealed
    <3>4. QED
      BY <1>2, <1>8, <2>2, <3>1, <3>2, <3>3
  <2>3. QED
    BY <2>1, <2>2
<1>11. /\ base' \in Nat /\ pc' \in {"visit", "error"} /\ parts' \in Seq(PartType) /\ Tiles(parts')
       /\ pc' # "error" => base' = SealedEnd(parts')
  BY <1>10 DEF Sealed
<1>12. measuring' \in Nat \ {0, 1} /\ measuring' = measuring
  BY <1>1, <1>2
<1>13. TypeOK'
  BY <1>1, <1>3, <1>10, <1>11, <1>12, <1>6 DEF TypeOK
<1>14. CASE pc' = "error"
  BY <1>11, <1>13, <1>14, InvFromParts
<1>15. CASE pc' # "error"
  <2>1. pc' = "visit"
    BY <1>11, <1>15
  <2>2. measuring' = (IF Inner < Top THEN Inner ELSE Top)
    BY <1>1
  <2>3. /\ Top' = Top - 1 /\ Inner' = (IF Inner < Top THEN Inner ELSE Top)
        /\ LevelsInv' /\ PathInv'
        /\ \A i \in 1..(Top - 1) : /\ stack'[i].row = stack[i].row
                                   /\ stack'[i].completed = stack[i].completed
    BY <1>1, <1>10, <2>1, <2>2, PopLevels
  <2>4. Inner' = Inner
    BY <1>2, <2>3
  <2>5. RowsInv'
    BY <1>1, <1>10 DEF RowsInv
  <2>6. OffersInv'
    BY <1>1, <2>1, EmptySeq DEF OffersInv
  <2>7. CompletedInv'
    <3>1. CASE stack[Top - 1].split
      <4>1. completed' = <<>> /\ Len(completed') = 0 /\ Inner = Top
        BY <1>4, <1>7, <3>1, EmptySeq
      <4>2. \A i \in 1..(Top - 1) : stack[i].completed = 0
        BY <1>1, <1>2, <4>1 DEF CompletedInv
      <4>3. QED
        BY <1>2, <2>3, <4>1, <4>2 DEF CompletedInv
    <3>2. CASE ~stack[Top - 1].split
      <4>1. Inner \in 2..(Top - 1) /\ completed' = Append(kept, Child(p, bytes))
        BY <1>8, <3>2
      <4>2. /\ Len(completed') = c + 1
            /\ \A k \in 1..c : completed'[k] = completed[k]
            /\ completed'[c + 1].position = p
        BY <1>4, <1>9, <4>1, AppendProperties
      <4>3. \A k \in 1..c : completed[k].position < p /\ completed[k].position \in Nat
        <5>1. \A k \in 1..c : InSlice(Top, k)
          <6>1. \A j \in Inner..Top : \A k \in 1..Len(completed) : InSlice(j, k)
            BY <1>1 DEF CompletedInv
          <6>2. Top \in Inner..Top /\ \A k \in 1..c : k \in 1..Len(completed)
            BY <1>2, <1>4, <4>1
          <6>3. QED
            BY <6>1, <6>2
        <5>2. \A k \in 1..c : completed[k].position < p
          BY <1>2, <5>1 DEF InSlice, p
        <5>3. \A k \in 1..Len(completed) : completed[k].position \in Nat
          BY <1>1, OpenFacts
        <5>4. QED
          BY <1>4, <5>2, <5>3
      <4>4. \A i \in 1..(Top - 1) : stack[i].completed \in Nat /\ stack[i].completed <= c
        <5>1. \A i \in 1..Top : stack[i].completed \in Nat
          BY <1>1, OpenFacts
        <5>2. \A i \in 1..Top : i <= Top => stack[i].completed <= c
          BY <1>1, <1>2 DEF CompletedInv
        <5>3. QED
          BY <1>2, <5>1, <5>2
      <4>5. \A k, l \in 1..Len(completed') : k < l => completed'[k].position < completed'[l].position
        <5>1. \A k, l \in 1..c : k < l => completed[k].position < completed[l].position
          BY <1>1, <1>4 DEF CompletedInv
        <5>2. SUFFICES ASSUME NEW k \in 1..(c + 1), NEW l \in 1..(c + 1), k < l
                       PROVE  completed'[k].position < completed'[l].position
          BY <4>2
        <5>3. k \in 1..c
          BY <1>2, <5>2
        <5>4. CASE l \in 1..c
          BY <4>2, <5>1, <5>2, <5>3, <5>4
        <5>5. CASE l = c + 1
          BY <4>2, <4>3, <5>3, <5>5
        <5>6. QED
          BY <1>2, <5>4, <5>5
      <4>6. ASSUME NEW i \in Inner..(Top - 1), NEW k \in 1..(c + 1)
            PROVE  InSlice(i, k)'
        <5>1. /\ i \in 1..(Top - 1) /\ i \in 2..Top /\ i \in Inner..Top
              /\ stack'[i].row = stack[i].row /\ stack'[i].completed = stack[i].completed
              /\ i # Top - 1 => i + 1 \in 1..(Top - 1) /\ stack'[i + 1].completed = stack[i + 1].completed
          BY <1>2, <2>3, <4>1
        <5>2. CASE k \in 1..c
          <6>1. InSlice(i, k) /\ completed'[k] = completed[k]
            BY <1>1, <1>4, <4>2, <5>1, <5>2 DEF CompletedInv
          <6>2. i = Top - 1 => k <= stack[i + 1].completed
            BY <1>2, <5>2
          <6>3. i # Top
            BY <1>2
          <6>4. /\ k <= stack'[i].completed => completed'[k].position < stack'[i].row
                /\ stack'[i].completed < k
                       => /\ stack'[i].row < completed'[k].position
                          /\ completed'[k].position < position'
            BY <1>1, <5>1, <6>1 DEF InSlice
          <6>5. (stack'[i].completed < k /\ (i = Top' \/ k <= stack'[i + 1].completed))
                   => rows'[completed'[k].position + 1].depth = i - 1
            BY <1>1, <2>3, <5>1, <6>1, <6>2 DEF InSlice
          <6>6. QED
            BY <6>4, <6>5 DEF InSlice
        <5>3. CASE k = c + 1
          <6>1. completed'[k].position = p /\ stack'[i].completed < k /\ ~(k <= stack'[i].completed)
            <7>1. stack'[i].completed \in Nat /\ stack'[i].completed <= c
              BY <4>4, <5>1
            <7>2. completed'[k].position = p
              BY <4>2, <5>3
            <7>3. QED
              BY SMTT(60), <1>2, <5>3, <7>1, <7>2
          <6>2. stack[i].row < p
            <7>1. i < Top
              BY <1>2
            <7>2. QED
              BY <1>1, <1>2, <5>1, <7>1 DEF LevelsInv, p
          <6>3. i # Top - 1 => ~(k <= stack'[i + 1].completed)
            BY <1>2, <4>4, <5>1, <5>3
          <6>4. i = Top - 1 => rows'[completed'[k].position + 1].depth = i - 1
            BY <1>1, <1>2, <6>1
          <6>5. QED
            BY <1>1, <1>2, <2>3, <5>1, <6>1, <6>2, <6>3, <6>4 DEF InSlice
        <5>4. QED
          BY <1>2, <5>2, <5>3
      <4>7. /\ \A i \in 1..(Top - 1) : i <= Inner => stack'[i].completed = 0
            /\ \A i \in 1..(Top - 1) : stack'[i].completed <= c + 1
            /\ \A i, j \in 1..(Top - 1) : i <= j => stack'[i].completed <= stack'[j].completed
        <5>1. \A i \in 1..(Top - 1) : i \in 1..Top
          BY <1>2
        <5>2. /\ \A i \in 1..(Top - 1) : i <= Inner => stack[i].completed = 0
              /\ \A i, j \in 1..(Top - 1) : i <= j => stack[i].completed <= stack[j].completed
          BY <1>1, <5>1 DEF CompletedInv
        <5>3. \A i \in 1..(Top - 1) : stack[i].completed <= c + 1
          BY <1>2, <4>4
        <5>4. QED
          BY <2>3, <5>2, <5>3
      <4>8. ~(Inner' > Top')
        BY <1>2, <2>3, <2>4, <4>1
      <4>9. \A i \in Inner'..Top' : \A k \in 1..Len(completed') : InSlice(i, k)'
        BY <2>3, <2>4, <4>2, <4>6
      <4>10. QED
        BY <2>3, <2>4, <4>2, <4>5, <4>7, <4>8, <4>9 DEF CompletedInv
    <3>3. QED
      BY <3>1, <3>2
  <2>8. RunInv'
    <3>1. CASE stack[Top - 1].split
      <4>1. /\ Inner' - 1 = Top' /\ Top' = Top - 1 /\ Inner = Top /\ Inner' = Top
        BY <1>2, <1>7, <2>3, <2>4, <3>1
      <4>2. FinishedEnd(Top)' = position
        BY <1>1, <1>2, <4>1 DEF FinishedEnd
      <4>3. Contents(Top)' = Contents(Top - 1)
        BY <1>1, <1>2, <2>3, <4>1 DEF Contents
      <4>4. /\ Contents(Top - 1) <= run
            /\ base < run => \E j \in 2..(Top - 1) : base = stack[j].row
            /\ run < position => rows[run + 1].depth = Top - 2
        BY <1>1, <4>1 DEF RunInv
      <4>5. Contents(Top - 1) \in Nat
        <5>1. Top - 1 \in 1..Top
          BY <1>1, <1>2
        <5>2. stack[Top - 1].row \in Nat
          BY <1>1, <5>1, OpenFacts
        <5>3. QED
          BY <5>2 DEF Contents
      <4>6. CASE full
        <5>1. stack'[Top - 1].run_first = p /\ base' = p
          BY <1>7, <3>1, <4>6 DEF RunMoved, Sealed
        <5>2. Contents(Top - 1) <= p
          BY <1>2, <1>7, <3>1, <4>4, <4>5
        <5>3. QED
          BY <1>1, <1>2, <4>1, <4>2, <4>3, <5>1, <5>2 DEF RunInv
      <4>7. CASE ~full
        <5>1. stack'[Top - 1].run_first = run /\ base' = base
          BY <1>7, <3>1, <4>7 DEF RunMoved, Sealed
        <5>2. run <= position /\ base <= run
          BY <1>2, <1>7, <3>1
        <5>3. base < run => \E j \in 2..(Top - 1) : base = stack'[j].row
          BY <1>2, <2>3, <4>4
        <5>4. QED
          BY <1>1, <1>2, <4>1, <4>2, <4>3, <4>4, <5>1, <5>2, <5>3 DEF RunInv
      <4>8. QED
        BY <4>6, <4>7
    <3>2. CASE ~stack[Top - 1].split
      <4> DEFINE i == Inner - 1
      <4>1. Inner \in 2..(Top - 1) /\ stack' = Below /\ base' = base
        BY <1>8, <3>2 DEF Sealed
      <4>2. /\ i \in 1..(Top - 1) /\ i + 1 \in 1..(Top - 1) /\ i < Top - 1 /\ i < Top
            /\ Inner' - 1 = i
        BY <1>2, <2>4, <4>1
      <4>3. stack'[i] = stack[i] /\ stack'[i + 1] = stack[i + 1]
        BY <1>3, <4>1, <4>2
      <4>4. FinishedEnd(Inner - 1)' = FinishedEnd(i) /\ Contents(Inner - 1)' = Contents(i)
        BY <2>3, <4>2, <4>3 DEF FinishedEnd, Contents
      <4>5. \A j \in 2..i : stack'[j].row = stack[j].row
        BY <1>2, <2>3, <4>2
      <4>6. /\ base <= stack[i].run_first /\ Contents(i) <= stack[i].run_first
            /\ stack[i].run_first <= FinishedEnd(i)
            /\ stack[i].run_first < position => rows[stack[i].run_first + 1].depth = Inner - 2
            /\ base < stack[i].run_first => \E j \in 2..i : base = stack[j].row
        BY <1>1 DEF RunInv
      <4>7. QED
        BY <1>1, <2>4, <4>1, <4>2, <4>3, <4>4, <4>5, <4>6 DEF RunInv
    <3>3. QED
      BY <3>1, <3>2
  <2>9. QED
    BY <1>11, <1>13, <2>1, <2>3, <2>5, <2>6, <2>7, <2>8, InvFromParts
<1>16. QED
  BY <1>14, <1>15

\* What a directory has when it is opened.
LEMMA LevelMade ==
    ASSUME NEW row \in Nat, NEW start \in Nat, NEW pathLen \in Nat, NEW done \in Nat
    PROVE  /\ Level(row, start, pathLen, FALSE, done) \in LevelType
           /\ Level(row, start, pathLen, FALSE, done).row = row
           /\ Level(row, start, pathLen, FALSE, done).start_total = start
           /\ Level(row, start, pathLen, FALSE, done).path_len = pathLen
           /\ ~Level(row, start, pathLen, FALSE, done).split
           /\ Level(row, start, pathLen, FALSE, done).completed = done
<1>1. 0 \in 0..NoRun
  BY CutAssumption DEF NoRun
<1>2. QED
  BY <1>1 DEF Level, LevelType

\* A directory is entered: a level more, with nothing in it yet.
LEMMA EnterStep ==
    ASSUME IInv, NEW bytes \in Sizes, Enter(bytes)
    PROVE  IInv'
<1> USE DEF IInv
<1> DEFINE row == [depth |-> Top - 1, bytes |-> bytes, dir |-> TRUE]
           level == Level(position, total, Len(path'), FALSE, Len(completed))
<1>1. /\ Running /\ pc = "visit" /\ Inner = measuring /\ position < MaxRows
      /\ rows' = Append(rows, row) /\ position' = position + 1
      /\ path' = Append(SubSeq(path, 1, stack[Top].path_len), position)
      /\ UNCHANGED <<base, measuring, completed, offers, parts>>
      /\ \/ stack' = Append(stack, level) /\ total' = total + bytes /\ pc' = "budget"
         \/ pc' = "error" /\ UNCHANGED <<stack, total>>
  BY DEF Enter, Visiting, Running, Inner
<1>2. /\ Top \in Nat /\ Top >= 1 /\ Inner \in 2..(Top + 1)
      /\ position \in Nat /\ base \in Nat /\ total \in Nat /\ Len(completed) \in Nat
      /\ base <= position /\ bytes \in Nat
      /\ stack \in Seq(LevelType) /\ Top = Len(stack) /\ completed \in Seq(ChildType)
      /\ path \in Seq(Nat) /\ Len(path) = Top - 1 /\ Top \in 1..Top
      /\ stack[Top].path_len = Top - 1
  <2>1. /\ Top \in Nat /\ Top >= 1 /\ Inner \in 2..(Top + 1)
        /\ position \in Nat /\ base \in Nat /\ total \in Nat /\ Len(completed) \in Nat
        /\ base <= position
        /\ stack \in Seq(LevelType) /\ Top = Len(stack) /\ completed \in Seq(ChildType)
        /\ path \in Seq(Nat) /\ Len(path) = Top - 1
        /\ \A i \in 1..Top : stack[i].path_len = i - 1
    BY <1>1, OpenFacts
  <2>2. bytes \in Nat
    BY CutAssumption
  <2>3. QED
    BY <2>1, <2>2
<1>3. row \in RowType /\ row.depth = Top - 1
  BY <1>2 DEF RowType
<1> HIDE DEF row
<1>4. /\ rows' \in Seq(RowType)
      /\ Len(rows') = position + 1
      /\ rows'[position + 1].depth = Top - 1
      /\ \A p \in 0..(position - 1) : rows'[p + 1] = rows[p + 1]
  BY <1>1, <1>3, AppendRow
<1>5. /\ rows'[1].depth = 0
      /\ \A i \in 2..Top : /\ rows'[stack[i].row + 1].depth = i - 2
                           /\ rows'[stack[i].row + 2].depth = i - 1
  BY <1>1, <1>3, LevelsWithRow
<1>6. /\ path' = Append(path, position) /\ path' \in Seq(Nat) /\ Len(path') = Top
      /\ \A k \in 1..(Top - 1) : path'[k] = path[k]
      /\ path'[Top] = position
  <2>1. SubSeq(path, 1, Top - 1) = path
    BY <1>2, SubSeqProperties, ElementOfSeq, SeqEqual
  <2>2. path' = Append(path, position)
    BY <1>1, <1>2, <2>1
  <2>3. QED
    BY <1>2, <2>2, AppendProperties
<1>7. position' \in 0..MaxRows /\ 0 \in 0..NoRun
  BY <1>1, <1>2, CutAssumption DEF NoRun
<1>8. /\ Tiles(parts') /\ base' = SealedEnd(parts')
      /\ base' \in Nat /\ parts' \in Seq(PartType)
      /\ measuring' \in Nat \ {0, 1} /\ completed' \in Seq(ChildType) /\ offers' \in Seq(ChildType)
  BY <1>1 DEF TilesInv, PartsTile, Tiles, SealedEnd, TypeOK
<1>9. CASE pc' = "error" /\ UNCHANGED <<stack, total>>
  BY <1>2, <1>4, <1>6, <1>7, <1>8, <1>9, InvFromParts DEF TypeOK
<1>10. CASE stack' = Append(stack, level) /\ total' = total + bytes /\ pc' = "budget"
  <2>1. level = Level(position, total, Top, FALSE, Len(completed))
    BY <1>6
  <2> HIDE DEF level
  <2>2. level \in LevelType
    BY <1>2, <2>1, LevelMade
  <2>3. /\ level.row = position /\ level.start_total = total /\ level.path_len = Top
        /\ ~level.split /\ level.completed = Len(completed)
    <3> DEFINE done == Len(completed)
               made == Level(position, total, Top, FALSE, done)
    <3>1. position \in Nat /\ total \in Nat /\ Top \in Nat /\ done \in Nat
      BY <1>2
    <3> HIDE DEF done
    <3>2. /\ made.row = position /\ made.start_total = total /\ made.path_len = Top
          /\ made.completed = done
      BY DEF Level
    <3>3. ~made.split
      BY DEF Level
    <3>4. QED
      BY <2>1, <3>2, <3>3 DEF done
  <2>4. /\ stack' \in Seq(LevelType) /\ Len(stack') = Top + 1
        /\ \A i \in 1..Top : stack'[i] = stack[i]
        /\ stack'[Top + 1] = level
    BY <1>2, <1>10, <2>2, AppendProperties
  <2>5. Top' = Top + 1 /\ Inner' = Inner
    BY <1>1, <1>10, <2>4 DEF Top, Inner
  <2>6. TypeOK'
    BY <1>2, <1>4, <1>6, <1>7, <1>8, <1>10, <2>4 DEF TypeOK
  <2>7. RowsInv'
    BY <1>1, <1>2, <1>4, <1>5 DEF RowsInv
  <2>8. LevelsInv'
    <3>1. Top' >= 1 /\ Inner' \in 2..(Top' + 1)
      BY <1>2, <2>5
    <3>2. ASSUME NEW i \in 1..(Top + 1)
          PROVE  stack'[i].split <=> i < Inner
      <4>1. CASE i \in 1..Top
        BY <1>1, <2>4, <4>1 DEF LevelsInv
      <4>2. CASE i = Top + 1
        BY <1>2, <2>3, <2>4, <4>2
      <4>3. QED
        BY <1>2, <4>1, <4>2
    <3>3. ASSUME NEW i \in 2..(Top + 1)
          PROVE  /\ stack'[i].row < position'
                 /\ stack'[i].start_total <= total'
                 /\ rows'[stack'[i].row + 1].depth = i - 2
                 /\ stack'[i].row + 1 < position' => rows'[stack'[i].row + 2].depth = i - 1
      <4>1. CASE i \in 2..Top
        <5>1. stack'[i] = stack[i] /\ i \in 1..Top
          BY <1>2, <2>4, <4>1
        <5>2. /\ stack[i].row \in Nat /\ stack[i].row < position
              /\ stack[i].start_total \in Nat /\ stack[i].start_total <= total
          BY <1>1, <4>1, <5>1, OpenFacts
        <5>3. stack[i].row < position + 1 /\ stack[i].start_total <= total + bytes
          <6>1. \A a, b, c \in Nat : a <= b => a <= b + c
            OBVIOUS
          <6>2. \A a, b \in Nat : a < b => a < b + 1
            OBVIOUS
          <6>3. QED
            BY <1>2, <5>2, <6>1, <6>2
        <5>4. QED
          BY <1>1, <1>5, <1>10, <4>1, <5>1, <5>3
      <4>2. CASE i = Top + 1
        <5>1. stack'[i].row = position /\ stack'[i].start_total = total
          BY <2>3, <2>4, <4>2
        <5>2. rows'[position + 1].depth = i - 2
          BY <1>2, <1>4, <4>2
        <5>3. QED
          BY <1>1, <1>2, <1>10, <5>1, <5>2
      <4>3. QED
        BY <1>2, <4>1, <4>2
    <3>4. ASSUME NEW i \in 2..(Top + 1), NEW j \in 2..(Top + 1), i < j
          PROVE  stack'[i].row < stack'[j].row
      <4>1. i \in 2..Top /\ i \in 1..Top /\ stack'[i] = stack[i]
        BY <1>2, <2>4, <3>4
      <4>2. CASE j \in 2..Top
        <5>1. stack'[j] = stack[j]
          BY <1>2, <2>4, <4>2
        <5>2. QED
          BY <1>1, <3>4, <4>1, <4>2, <5>1 DEF LevelsInv
      <4>3. CASE j = Top + 1
        BY <2>3, <2>4, <4>3, <1>1, <4>1 DEF LevelsInv
      <4>4. QED
        BY <1>2, <4>2, <4>3
    <3>5. QED
      BY <2>5, <3>1, <3>2, <3>3, <3>4 DEF LevelsInv
  <2>9. PathInv'
    <3>1. OpenRows' = [k \in 1..Top |-> stack'[k + 1].row]
      BY <1>2, <2>5 DEF OpenRows
    <3>2. DOMAIN path' = 1..Top
      BY <1>6, LenProperties
    <3>3. ASSUME NEW k \in 1..Top PROVE path'[k] = stack'[k + 1].row
      <4>1. CASE k = Top
        BY <1>6, <2>3, <2>4, <4>1
      <4>2. CASE k # Top
        <5>1. k \in 1..(Top - 1) /\ k + 1 \in 1..Top
          BY <1>2, <4>2
        <5>2. path[k] = stack[k + 1].row
          BY <1>1, <5>1 DEF PathInv, OpenRows
        <5>3. QED
          BY <1>6, <2>4, <5>1, <5>2
      <4>3. QED
        BY <4>1, <4>2
    <3>4. path' = OpenRows'
      BY <1>6, LenProperties, <3>1, <3>3
    <3>5. ASSUME NEW i \in 1..(Top + 1) PROVE stack'[i].path_len = i - 1
      <4>1. CASE i \in 1..Top
        BY <1>1, <2>4, <4>1 DEF PathInv
      <4>2. CASE i = Top + 1
        BY <1>2, <2>3, <2>4, <4>2
      <4>3. QED
        BY <1>2, <4>1, <4>2
    <3>6. QED
      BY <2>5, <3>4, <3>5 DEF PathInv
  <2>10. CompletedInv'
    <3>1. ASSUME NEW i \in 1..(Top + 1)
          PROVE  /\ i \in 1..Top => stack'[i].completed = stack[i].completed
                 /\ i = Top + 1 => stack'[i].completed = Len(completed)
                 /\ stack'[i].completed \in Nat
                 /\ stack'[i].completed <= Len(completed)
      <4>1. CASE i \in 1..Top
        <5>1. stack[i].completed \in Nat /\ stack[i].completed <= Len(completed)
          BY <1>1, <4>1, OpenFacts DEF CompletedInv
        <5>2. stack'[i] = stack[i] /\ i # Top + 1
          BY <1>2, <2>4, <4>1
        <5>3. QED
          BY <5>1, <5>2
      <4>2. CASE i = Top + 1
        <5>1. stack'[i].completed = Len(completed) /\ i \notin 1..Top
          BY <1>2, <2>3, <2>4, <4>2
        <5>2. QED
          BY <1>2, <5>1
      <4>3. i \in 1..Top \/ i = Top + 1
        BY <1>2
      <4>4. QED
        BY <4>1, <4>2, <4>3
    <3>2. ASSUME NEW i \in 1..(Top + 1), i <= Inner PROVE stack'[i].completed = 0
      <4>1. CASE i \in 1..Top
        BY <1>1, <3>1, <3>2, <4>1 DEF CompletedInv
      <4>2. CASE i = Top + 1
        <5>1. Inner > Top
          BY <1>2, <3>2, <4>2
        <5>2. completed = <<>>
          BY <1>1, <5>1 DEF CompletedInv
        <5>3. QED
          BY <3>1, <4>2, <5>2, EmptySeq
      <4>3. i \in 1..Top \/ i = Top + 1
        BY <1>2
      <4>4. QED
        BY <4>1, <4>2, <4>3
    <3>3. ~(Inner > Top + 1)
      BY <1>2
    <3>4. ASSUME NEW i \in 1..(Top + 1), NEW j \in 1..(Top + 1), i <= j
          PROVE  stack'[i].completed <= stack'[j].completed
      <4>1. CASE j \in 1..Top
        <5>1. i \in 1..Top
          BY <1>2, <3>4, <4>1
        <5>2. QED
          BY <1>1, <3>1, <3>4, <4>1, <5>1 DEF CompletedInv
      <4>2. CASE j = Top + 1
        BY <3>1, <4>2
      <4>3. j \in 1..Top \/ j = Top + 1
        BY <1>2
      <4>4. QED
        BY <4>1, <4>2, <4>3
    <3>5. ASSUME NEW i \in Inner..(Top + 1), NEW k \in 1..Len(completed)
          PROVE  InSlice(i, k)'
      <4>1. i \in 1..(Top + 1) /\ completed[k].position \in Nat /\ completed' = completed
        BY <1>1, <1>2, OpenFacts
      <4>2. completed[k].position < position
        <5>1. Inner \in 1..Top
          <6>1. completed # <<>>
            BY EmptySeq
          <6>2. QED
            BY SMTT(60), <1>1, <1>2, <6>1 DEF CompletedInv
        <5>2. Inner \in Inner..Top /\ Inner <= Inner
          BY <1>2, <5>1
        <5>3. stack[Inner].completed = 0
          BY <1>1, <5>1, <5>2 DEF CompletedInv
        <5>4. InSlice(Inner, k)
          BY <1>1, <5>2 DEF CompletedInv
        <5>5. 0 < k
          OBVIOUS
        <5>6. QED
          BY <5>3, <5>4, <5>5 DEF InSlice
      <4>3. completed[k].position < position'
        BY <1>1, <1>2, <4>1, <4>2
      <4>4. CASE i = Top + 1
        <5>1. stack'[i].completed = Len(completed) /\ stack'[i].row = position
          BY <2>3, <2>4, <3>1, <4>4
        <5>2. k <= Len(completed) /\ ~(Len(completed) < k)
          BY <1>2
        <5>3. QED
          BY <4>1, <4>2, <5>1, <5>2 DEF InSlice
      <4>5. CASE i \in 1..Top
        <5>1. /\ stack'[i].completed = stack[i].completed
              /\ stack'[i].row = stack[i].row
              /\ i # Top'
          BY <1>2, <2>4, <2>5, <4>5
        <5>2. InSlice(i, k)
          <6>1. i \in Inner..Top
            BY <1>2, <4>5
          <6>2. QED
            BY <1>1, <6>1 DEF CompletedInv
        <5>3. completed[k].position \in 0..(position - 1)
          BY <1>2, <4>1, <4>2
        <5>4. rows'[completed[k].position + 1] = rows[completed[k].position + 1]
          BY <1>4, <5>3
        <5>5. k <= stack'[i + 1].completed => i = Top \/ k <= stack[i + 1].completed
          <6>1. CASE i = Top
            BY <6>1
          <6>2. CASE i # Top
            <7>1. i + 1 \in 1..Top
              BY <1>2, <4>5, <6>2
            <7>2. QED
              BY <2>4, <7>1
          <6>3. QED
            BY <6>1, <6>2
        <5>6. QED
          BY <4>1, <4>3, <5>1, <5>2, <5>4, <5>5 DEF InSlice
      <4>6. QED
        BY <1>2, <4>1, <4>4, <4>5
    <3>6. \A k, l \in 1..Len(completed) :
             k < l => completed[k].position < completed[l].position
      BY <1>1 DEF CompletedInv
    <3>7. Top' = Top + 1 /\ Inner' = Inner /\ completed' = completed
      BY <1>1, <2>5
    <3>8. QED
      BY <3>1, <3>2, <3>3, <3>4, <3>5, <3>6, <3>7 DEF CompletedInv
  <2>11. OffersInv'
    BY <1>1, <1>10, EmptySeq DEF OffersInv
  <2>12. RunInv'
    <3> HIDE DEF level
    <3>1. PICK i \in 1..Top : i = Inner - 1
      BY <1>2
    <3> DEFINE run == stack[i].run_first
    <3>2. /\ stack'[i] = stack[i] /\ Inner' - 1 = i /\ run \in Nat
          /\ Inner = i + 1 /\ i >= 1
      BY SMTT(60), <1>1, <1>2, <2>4, <2>5, <3>1, OpenFacts
    <3>3. /\ base <= run /\ Contents(i) <= run /\ run <= FinishedEnd(i)
          /\ run < position => rows[run + 1].depth = Inner - 2
          /\ base < run => \E j \in 2..i : base = stack[j].row
      BY <1>1, <3>1 DEF RunInv
    <3>4. Contents(i)' = Contents(i)
      BY <2>5, <3>2 DEF Contents
    <3>5. FinishedEnd(i)' = FinishedEnd(i) /\ FinishedEnd(i) <= position
      <4>1. CASE i = Top
        BY SMTT(60), <1>2, <2>3, <2>4, <2>5, <4>1 DEF FinishedEnd
      <4>2. CASE i # Top
        <5>1. i < Top /\ i < Top' /\ i + 1 \in 2..Top /\ i + 1 \in 1..Top
          BY SMTT(60), <1>2, <2>5, <3>2, <4>2
        <5>2. stack'[i + 1] = stack[i + 1] /\ stack[i + 1].row < position /\ stack[i + 1].row \in Nat
          BY <1>1, <2>4, <5>1, OpenFacts
        <5>3. FinishedEnd(i)' = stack'[i + 1].row /\ FinishedEnd(i) = stack[i + 1].row
          BY <5>1 DEF FinishedEnd
        <5>4. QED
          BY SMTT(60), <1>2, <5>2, <5>3
      <4>3. QED
        BY <4>1, <4>2
    <3>6. rows'[run + 1].depth = Inner - 2
      <4>1. CASE run < position
        <5>1. run \in 0..(position - 1)
          BY <1>2, <3>2, <4>1
        <5>2. QED
          BY <1>4, <3>3, <4>1, <5>1
      <4>2. CASE run >= position
        <5>1. run = position /\ FinishedEnd(i) = position
          <6>1. \A a, b, c \in Nat : a <= b /\ b <= c /\ a >= c => a = c /\ b = c
            OBVIOUS
          <6>2. FinishedEnd(i) \in Nat
            BY <1>1, <1>2, OpenFacts DEF FinishedEnd
          <6>3. QED
            BY <1>2, <3>2, <3>3, <3>5, <4>2, <6>1, <6>2
        <5>2. i = Top
          <6>1. SUFFICES ASSUME i # Top PROVE FALSE
            OBVIOUS
          <6>2. i < Top /\ i + 1 \in 2..Top
            BY <1>2, <3>2, <6>1
          <6>3. stack[i + 1].row < position /\ FinishedEnd(i) = stack[i + 1].row
            BY <1>1, <6>2, OpenFacts DEF FinishedEnd
          <6>4. QED
            BY <1>2, <5>1, <6>3
        <5>3. QED
          BY <1>4, <5>1, <1>2, <3>2, <5>2
      <4>3. QED
        BY SMTT(60), <1>2, <3>2, <4>1, <4>2
    <3>7. base < run => \E j \in 2..i : base = stack'[j].row
      <4>1. \A j \in 2..i : j \in 1..Top
        BY <1>2, <3>2
      <4>2. QED
        BY <2>4, <3>3, <4>1
    <3>8. Inner' = Inner /\ base' = base
      BY <1>1, <2>5
    <3>9. Contents(Inner - 1)' = Contents(i) /\ FinishedEnd(Inner - 1)' = FinishedEnd(i)
      BY <3>2, <3>4, <3>5 DEF Contents, FinishedEnd
    <3>10. QED
      BY <3>1, <3>2, <3>3, <3>6, <3>7, <3>8, <3>9 DEF RunInv
  <2>13. QED
    BY <1>8, <1>10, <2>6, <2>7, <2>8, <2>9, <2>10, <2>11, <2>12, InvFromParts
<1>11. QED
  BY <1>1, <1>9, <1>10

\* A finished child of the split level is offered to its run.
LEMMA OfferStep ==
    ASSUME IInv, Offer
    PROVE  IInv'
<1> USE DEF IInv
<1> DEFINE m == measuring
           p == Head(offers).position
           bytes == Head(offers).bytes
           full == RunIsFull(stack[m], p, bytes)
           f == IF full THEN p ELSE stack[m].run_first
<1>1. /\ Running /\ pc = "offer" /\ Inner = m + 1
      /\ offers # <<>> /\ offers' = Tail(offers)
      /\ AddToRun(stack, m, p, bytes, "offer")
      /\ UNCHANGED <<position, total, path, measuring, completed, rows>>
      /\ TypeOK /\ TilesInv /\ RowsInv /\ LevelsInv /\ PathInv
      /\ CompletedInv /\ OffersInv /\ RunInv
  BY DEF Offer, Running, Inner
<1>2. /\ Top \in Nat /\ m \in 1..Top /\ Inner - 1 = m /\ Inner \in 2..(Top + 1)
      /\ position \in Nat /\ base \in Nat /\ base <= position
      /\ stack \in Seq(LevelType) /\ Top = Len(stack)
      /\ stack[m].run_first \in Nat
      /\ \A i \in 1..Top : stack[i].row \in Nat
      /\ \A i \in 2..Top : stack[i].row < position
  <2>1. /\ Top \in Nat /\ Inner \in 2..(Top + 1)
        /\ position \in Nat /\ base \in Nat /\ base <= position
        /\ stack \in Seq(LevelType) /\ Top = Len(stack)
        /\ \A i \in 1..Top : stack[i].row \in Nat /\ stack[i].run_first \in Nat
        /\ \A i \in 2..Top : stack[i].row < position
    BY <1>1, OpenFacts
  <2>2. m \in 1..Top /\ Inner - 1 = m
    BY <1>1, <2>1 DEF TypeOK
  <2>3. QED
    BY <2>1, <2>2
\* The child that is offered is the first of the offers.
<1>3. /\ Len(offers) \in Nat /\ Len(offers) >= 1 /\ offers \in Seq(ChildType)
      /\ Head(offers) = offers[1] /\ offers[1] \in ChildType
      /\ p = offers[1].position /\ p \in Nat /\ bytes \in Nat
  <2>1. offers \in Seq(ChildType) /\ Len(offers) \in Nat
    BY <1>1, LenProperties DEF TypeOK
  <2>2. Len(offers) >= 1
    BY <1>1, <2>1, EmptySeq
  <2>3. Head(offers) = offers[1] /\ offers[1] \in ChildType
    BY <1>1, <2>1, <2>2, ElementOfSeq
  <2>4. QED
    BY <2>1, <2>2, <2>3 DEF ChildType
<1>4. /\ Len(offers') = Len(offers) - 1 /\ offers' \in Seq(ChildType)
      /\ \A k \in 1..(Len(offers) - 1) : offers'[k] = offers[k + 1]
  BY <1>1, <1>3, HeadTailProperties
<1>5. /\ stack[m].run_first <= p /\ p < FinishedEnd(m)
      /\ rows[p + 1].depth = Inner - 2
  BY <1>1, <1>2, <1>3 DEF OffersInv
<1>6. FinishedEnd(m) <= position /\ FinishedEnd(m) \in Nat
  <2>1. CASE m < Top
    <3>1. m + 1 \in 2..Top /\ m + 1 \in 1..Top
      BY <1>2, <2>1
    <3>2. QED
      BY <1>2, <2>1, <3>1 DEF FinishedEnd
  <2>2. CASE ~(m < Top)
    BY <1>2, <2>2 DEF FinishedEnd
  <2>3. QED
    BY <2>1, <2>2
<1>7. p < position /\ p <= position /\ position \in 0..MaxRows
  <2>1. position \in 0..MaxRows
    BY <1>1 DEF TypeOK
  <2> DEFINE e == FinishedEnd(m)
  <2>2. p \in Nat /\ p < e /\ e <= position /\ e \in Nat /\ position \in Nat
    BY <1>2, <1>3, <1>5, <1>6
  <2> HIDE DEF p, e
  <2>3. p < position /\ p <= position
    BY <2>2
  <2>4. QED
    BY <2>1, <2>3
<1>8. /\ base <= stack[m].run_first /\ Contents(m) <= stack[m].run_first
      /\ stack[m].run_first <= FinishedEnd(m)
      /\ stack[m].run_first < position => rows[stack[m].run_first + 1].depth = Inner - 2
      /\ base < stack[m].run_first => \E j \in 2..m : base = stack[j].row
  BY <1>1, <1>2 DEF RunInv
<1>9. Sealed(IF full THEN p ELSE base, "offer")
  <2>1. PathLens(stack) /\ CanSeal(stack)
    BY <1>1, WaitingDepth
  <2>2. m \in 1..Len(stack) /\ Len(rows) = position /\ pc # "error"
    BY <1>1, <1>2 DEF RowsInv
  <2> HIDE DEF m, p, bytes, full
  <2>3. Sealed(IF RunIsFull(stack[m], p, bytes) THEN p ELSE base, "offer")
    BY <1>1, <1>2, <1>3, <1>7, <1>8, <2>1, <2>2, AddToRunParts
  <2>4. QED
    BY <2>3 DEF full
<1>10. RunMoved(stack', stack, m, f)
  <2> HIDE DEF m, p, bytes, full, f
  <2>1. m \in 1..Len(stack)
    BY <1>2
  <2>2. RunMoved(stack', stack, m, IF RunIsFull(stack[m], p, bytes) THEN p ELSE stack[m].run_first)
    BY <1>1, <1>2, <1>3, <1>7, <2>1, AddToRunStack
  <2>3. QED
    BY <2>2 DEF full, f
<1> HIDE DEF f, full, p, bytes
<1>11. /\ stack' \in Seq(LevelType) /\ SameLevels(stack', stack)
       /\ stack'[m].run_first = f
       /\ Top' = Top
  BY <1>10 DEF RunMoved, SameLevels, Top
<1>12. \A i \in 1..Top : /\ stack'[i].row = stack[i].row
                         /\ stack'[i].start_total = stack[i].start_total
                         /\ stack'[i].path_len = stack[i].path_len
                         /\ stack'[i].split = stack[i].split
                         /\ stack'[i].completed = stack[i].completed
  BY <1>2, <1>11 DEF SameLevels
<1>13. TypeOK'
  BY <1>1, <1>4, <1>9, <1>11 DEF TypeOK, Sealed
<1>14. CASE pc' = "offer"
  <2>1. Inner' = Inner
    BY <1>1, <1>14 DEF Inner
  <2>2. base' = (IF full THEN p ELSE base)
    BY <1>9 DEF Sealed
  <2>3. RowsInv'
    BY <1>1, <1>2, <1>7, <2>2 DEF RowsInv
  <2>4. LevelsInv'
    <3>1. \A i \in 2..Top : i \in 1..Top
      BY <1>2
    <3>2. QED
      BY <1>1, <1>11, <1>12, <2>1, <3>1 DEF LevelsInv
  <2>5. PathInv'
    <3>1. \A k \in 1..(Top - 1) : k + 1 \in 1..Top
      BY <1>2
    <3>2. OpenRows' = OpenRows
      BY <1>2, <1>11, <1>12, <3>1 DEF OpenRows
    <3>3. QED
      BY <1>1, <1>11, <1>12, <3>2 DEF PathInv
  <2>6. CompletedInv'
    <3>1. ASSUME NEW i \in Inner..Top, NEW k \in 1..Len(completed)
          PROVE  InSlice(i, k)'
      <4>1. InSlice(i, k) /\ i \in 1..Top
        BY <1>1, <1>2 DEF CompletedInv
      <4>2. i # Top => i + 1 \in 1..Top
        BY <1>2, <4>1
      <4>3. QED
        BY <1>1, <1>11, <1>12, <4>1, <4>2 DEF InSlice
    <3>2. /\ \A k, l \in 1..Len(completed) :
                k < l => completed[k].position < completed[l].position
          /\ \A i \in 1..Top : i <= Inner => stack[i].completed = 0
          /\ Inner > Top => completed = <<>>
          /\ \A i \in 1..Top : stack[i].completed <= Len(completed)
          /\ \A i, j \in 1..Top : i <= j => stack[i].completed <= stack[j].completed
      BY <1>1 DEF CompletedInv
    <3>3. completed' = completed
      BY <1>1
    <3>4. QED
      BY <1>11, <1>12, <2>1, <3>1, <3>2, <3>3 DEF CompletedInv
  <2>7. Contents(m)' = Contents(m) /\ FinishedEnd(m)' = FinishedEnd(m) /\ Inner' - 1 = m
    <3>1. m < Top => m + 1 \in 1..Top
      BY <1>2
    <3>2. QED
      BY <1>1, <1>2, <1>11, <1>12, <2>1, <3>1 DEF Contents, FinishedEnd
  <2>8. OffersInv'
    <3>1. ASSUME NEW k \in 1..Len(offers')
          PROVE  /\ offers'[k] = offers[k + 1]
                 /\ k + 1 \in 1..Len(offers)
      BY <1>3, <1>4
    <3>2. ASSUME NEW k \in 1..Len(offers'), NEW l \in 1..Len(offers'), k < l
          PROVE  offers'[k].position < offers'[l].position
      BY <1>1, <3>1, <3>2 DEF OffersInv
    <3>3. ASSUME NEW k \in 1..Len(offers')
          PROVE  /\ stack'[m].run_first <= offers'[k].position
                 /\ offers'[k].position < FinishedEnd(m)
                 /\ rows[offers'[k].position + 1].depth = Inner - 2
      <4>1. /\ stack[m].run_first <= offers[k + 1].position
            /\ offers[k + 1].position < FinishedEnd(m)
            /\ rows[offers[k + 1].position + 1].depth = Inner - 2
        BY <1>1, <1>2, <3>1 DEF OffersInv
      <4>2. p < offers[k + 1].position /\ offers[k + 1].position \in Nat
        <5>1. 1 \in 1..Len(offers) /\ 1 < k + 1 /\ offers[k + 1] \in ChildType
          BY <1>3, <3>1, ElementOfSeq
        <5>2. QED
          BY <1>1, <1>3, <3>1, <5>1 DEF OffersInv, ChildType
      <4>3. f <= offers[k + 1].position
        BY SMTT(60), <1>2, <1>3, <4>1, <4>2 DEF f
      <4>4. QED
        BY <1>11, <3>1, <4>1, <4>3
    <3>4. Inner' = Inner /\ rows' = rows
      BY <1>1, <2>1
    <3>5. FinishedEnd(Inner - 1)' = FinishedEnd(m)
      BY <1>1, <2>7 DEF FinishedEnd
    <3>6. QED
      BY <1>2, <1>14, <2>7, <3>2, <3>3, <3>4, <3>5 DEF OffersInv
  <2>9. RunInv'
    <3>1. /\ base' <= f /\ Contents(m) <= f /\ f <= FinishedEnd(m)
          /\ f < position => rows[f + 1].depth = Inner - 2
      <4>1. Contents(m) \in Nat
        BY <1>2 DEF Contents
      <4>2. CASE full
        <5>1. base' = p /\ f = p
          BY <2>2, <4>2 DEF f
        <5>2. Contents(m) <= p /\ p <= FinishedEnd(m) /\ p <= p
          <6> DEFINE c == Contents(m)
                     run == stack[m].run_first
                     e == FinishedEnd(m)
          <6>1. /\ c \in Nat /\ run \in Nat /\ p \in Nat /\ e \in Nat
                /\ c <= run /\ run <= p /\ p < e
            BY <1>2, <1>3, <1>5, <1>6, <1>8, <4>1
          <6> HIDE DEF c, run, e, p
          <6>2. c <= p /\ p <= e /\ p <= p
            BY <6>1
          <6>3. QED
            BY <6>2 DEF c, e
        <5>3. QED
          BY <1>5, <5>1, <5>2
      <4>3. CASE ~full
        BY <2>2, <4>3, <1>8 DEF f
      <4>4. QED
        BY <4>2, <4>3
    <3>2. base' < f => \E j \in 2..m : base' = stack'[j].row
      <4>1. CASE full
        BY <1>3, <2>2, <4>1 DEF f
      <4>2. CASE ~full
        BY <1>2, <1>8, <1>12, <2>2, <4>2 DEF f
      <4>3. QED
        BY <4>1, <4>2
    <3>3. Inner' = Inner /\ position' = position /\ rows' = rows
      BY <1>1, <2>1
    <3>4. Contents(Inner - 1)' = Contents(m) /\ FinishedEnd(Inner - 1)' = FinishedEnd(m)
      BY <1>1, <2>7 DEF FinishedEnd, Contents
    <3>5. QED
      BY <1>2, <1>11, <3>1, <3>2, <3>3, <3>4 DEF RunInv
  <2>10. QED
    BY <1>9, <1>13, <1>14, <2>3, <2>4, <2>5, <2>6, <2>8, <2>9, InvFromParts DEF Sealed
<1>15. CASE pc' # "offer"
  BY <1>9, <1>13, <1>15, InvFromParts DEF Sealed
<1>16. QED
  BY <1>14, <1>15

LEMMA SplitLevelFields ==
    ASSUME NEW level \in LevelType
    PROVE  /\ [level EXCEPT !.split = TRUE] \in LevelType
           /\ [level EXCEPT !.split = TRUE].row = level.row
           /\ [level EXCEPT !.split = TRUE].start_total = level.start_total
           /\ [level EXCEPT !.split = TRUE].path_len = level.path_len
           /\ [level EXCEPT !.split = TRUE].split = TRUE
           /\ [level EXCEPT !.split = TRUE].run_first = level.run_first
           /\ [level EXCEPT !.split = TRUE].completed = level.completed
  BY DEF LevelType

LEMMA ShiftedLevelFields ==
    ASSUME NEW level \in LevelType, NEW n \in Nat, n <= level.completed
    PROVE  /\ [level EXCEPT !.completed = @ - n] \in LevelType
           /\ [level EXCEPT !.completed = @ - n].row = level.row
           /\ [level EXCEPT !.completed = @ - n].start_total = level.start_total
           /\ [level EXCEPT !.completed = @ - n].path_len = level.path_len
           /\ [level EXCEPT !.completed = @ - n].split = level.split
           /\ [level EXCEPT !.completed = @ - n].completed = level.completed - n
<1>1. level.completed \in Nat /\ level.completed - n \in Nat
  BY LevelFields
<1>2. [level EXCEPT !.completed = @ - n] = [level EXCEPT !.completed = level.completed - n]
  OBVIOUS
<1>3. \A c \in Nat : /\ [level EXCEPT !.completed = c] \in LevelType
                     /\ [level EXCEPT !.completed = c].row = level.row
                     /\ [level EXCEPT !.completed = c].start_total = level.start_total
                     /\ [level EXCEPT !.completed = c].path_len = level.path_len
                     /\ [level EXCEPT !.completed = c].split = level.split
                     /\ [level EXCEPT !.completed = c].completed = c
  BY DEF LevelType
<1>4. QED
  BY <1>1, <1>2, <1>3

\* What splitting level m makes of the level at i, when n children are drained.
LevelSplit(new, i, m, n) ==
    /\ new \in LevelType
    /\ new.row = stack[i].row
    /\ new.start_total = stack[i].start_total
    /\ new.path_len = stack[i].path_len
    /\ new.split <=> (stack[i].split \/ i = m)
    /\ new.completed = IF i > m THEN stack[i].completed - n ELSE stack[i].completed
    /\ i = m => new.run_first = stack[i].row + 1

LEMMA SplitLevelsFacts ==
    ASSUME TypeOK, NEW m \in 2..Top, NEW n \in Nat, stack[m].row < position,
           \A i \in 1..Top : m < i => n <= stack[i].completed
    PROVE  /\ SplitLevels(m, n) \in Seq(LevelType)
           /\ Len(SplitLevels(m, n)) = Top
           /\ \A i \in 1..Top : LevelSplit(SplitLevels(m, n)[i], i, m, n)
<1>1. /\ Top \in Nat /\ m \in 1..Top
      /\ \A i \in 1..Top : stack[i] \in LevelType
  BY LevelTypes
<1>2. NoRun \in 0..NoRun /\ stack[m].row + 1 \in 0..NoRun
  <2>1. stack[m].row \in Nat
    BY <1>1, LevelTypes
  <2>2. position \in 0..MaxRows /\ MaxRows \in Nat
    BY CutAssumption DEF TypeOK
  <2>3. \A r, p, max \in Nat : r < p /\ p <= max => r + 1 \in 0..(max + 1)
    OBVIOUS
  <2>4. QED
    BY <2>1, <2>2, <2>3 DEF NoRun
<1>3. ASSUME NEW i \in 1..Top
      PROVE  LevelSplit(SplitLevels(m, n)[i], i, m, n)
  <2>1. CASE i = m
    <3> DEFINE moved == WithRun(stack[i], stack[i].row + 1, 0)
    <3>1. SplitLevels(m, n)[i] = [moved EXCEPT !.split = TRUE]
      BY <1>1, <2>1 DEF SplitLevels
    <3>2. /\ moved \in LevelType /\ moved.row = stack[i].row
          /\ moved.start_total = stack[i].start_total
          /\ moved.path_len = stack[i].path_len
          /\ moved.completed = stack[i].completed
          /\ moved.run_first = stack[i].row + 1
      <4> DEFINE level == stack[i]
                 first == stack[i].row + 1
      <4>1. level \in LevelType /\ first \in 0..NoRun
        BY <1>1, <1>2, <2>1
      <4> HIDE DEF level, first
      <4>2. /\ WithRun(level, first, 0) \in LevelType
            /\ WithRun(level, first, 0).run_first = first
            /\ WithRun(level, first, 0).row = level.row
            /\ WithRun(level, first, 0).start_total = level.start_total
            /\ WithRun(level, first, 0).path_len = level.path_len
            /\ WithRun(level, first, 0).completed = level.completed
        BY <4>1, WithRunLevel
      <4>3. QED
        BY <4>2 DEF level, first
    <3> HIDE DEF moved
    <3>3. /\ [moved EXCEPT !.split = TRUE] \in LevelType
          /\ [moved EXCEPT !.split = TRUE].row = moved.row
          /\ [moved EXCEPT !.split = TRUE].start_total = moved.start_total
          /\ [moved EXCEPT !.split = TRUE].path_len = moved.path_len
          /\ [moved EXCEPT !.split = TRUE].split = TRUE
          /\ [moved EXCEPT !.split = TRUE].run_first = moved.run_first
          /\ [moved EXCEPT !.split = TRUE].completed = moved.completed
      BY <3>2, SplitLevelFields
    <3>4. ~(i > m)
      BY <1>1, <2>1
    <3>5. QED
      BY <2>1, <3>1, <3>2, <3>3, <3>4 DEF LevelSplit
  <2>2. CASE i = m - 1
    <3>1. SplitLevels(m, n)[i] = WithRun(stack[i], NoRun, 0)
      BY <1>1, <2>2 DEF SplitLevels
    <3>2. /\ WithRun(stack[i], NoRun, 0) \in LevelType
          /\ WithRun(stack[i], NoRun, 0).row = stack[i].row
          /\ WithRun(stack[i], NoRun, 0).start_total = stack[i].start_total
          /\ WithRun(stack[i], NoRun, 0).path_len = stack[i].path_len
          /\ WithRun(stack[i], NoRun, 0).split = stack[i].split
          /\ WithRun(stack[i], NoRun, 0).completed = stack[i].completed
      <4> DEFINE level == stack[i]
                 none == NoRun
      <4>1. level \in LevelType /\ none \in 0..NoRun
        BY <1>1, <1>2
      <4> HIDE DEF level, none
      <4>2. /\ WithRun(level, none, 0) \in LevelType
            /\ WithRun(level, none, 0).row = level.row
            /\ WithRun(level, none, 0).start_total = level.start_total
            /\ WithRun(level, none, 0).path_len = level.path_len
            /\ WithRun(level, none, 0).split = level.split
            /\ WithRun(level, none, 0).completed = level.completed
        BY <4>1, WithRunLevel
      <4>3. QED
        BY <4>2 DEF level, none
    <3>3. ~(i > m) /\ i # m
      BY <1>1, <2>2
    <3>4. QED
      BY <3>1, <3>2, <3>3 DEF LevelSplit
  <2>3. CASE i > m
    <3>1. SplitLevels(m, n)[i] = [stack[i] EXCEPT !.completed = @ - n]
      BY <1>1, <2>3 DEF SplitLevels
    <3>2. /\ [stack[i] EXCEPT !.completed = @ - n] \in LevelType
          /\ [stack[i] EXCEPT !.completed = @ - n].row = stack[i].row
          /\ [stack[i] EXCEPT !.completed = @ - n].start_total = stack[i].start_total
          /\ [stack[i] EXCEPT !.completed = @ - n].path_len = stack[i].path_len
          /\ [stack[i] EXCEPT !.completed = @ - n].split = stack[i].split
          /\ [stack[i] EXCEPT !.completed = @ - n].completed = stack[i].completed - n
      BY <1>1, <2>3, ShiftedLevelFields
    <3>3. i # m
      BY <1>1, <2>3
    <3>4. QED
      BY <2>3, <3>1, <3>2, <3>3 DEF LevelSplit
  <2>4. CASE i < m - 1
    BY <1>1, <2>4 DEF SplitLevels, LevelSplit
  <2>5. QED
    BY <1>1, <2>1, <2>2, <2>3, <2>4
<1>4. DOMAIN SplitLevels(m, n) = 1..Top
  BY DEF SplitLevels
<1>5. SplitLevels(m, n) \in [1..Top -> LevelType]
  BY <1>3 DEF LevelSplit, SplitLevels
<1>6. SplitLevels(m, n) \in Seq(LevelType) /\ Len(SplitLevels(m, n)) = Top
  <2>1. SplitLevels(m, n) \in Seq(LevelType)
    <3> DEFINE levels == SplitLevels(m, n)
    <3>1. Top \in Nat /\ levels \in [1..Top -> LevelType]
      BY <1>1, <1>5
    <3> HIDE DEF levels
    <3>2. levels \in Seq(LevelType)
      BY SMTT(60), <3>1, SeqDef
    <3>3. QED
      BY <3>2 DEF levels
  <2>2. QED
    BY <1>1, <1>4, <2>1, LenProperties
<1>7. QED
  BY <1>3, <1>6

\* What a split of level m does to the levels and to the finished children, n of which
\* are the level's.
SplitMade(m, n) ==
    /\ stack[m].completed = 0 /\ n \in Nat /\ n <= Len(completed)
    /\ \A i \in 1..Top : m < i => n <= stack[i].completed
    /\ stack' = SplitLevels(m, n)
    /\ offers' \in Seq(ChildType) /\ Len(offers') = n
    /\ \A k \in 1..n : offers'[k] = completed[k]
    /\ completed' \in Seq(ChildType) /\ Len(completed') = Len(completed) - n
    /\ \A k \in 1..(Len(completed) - n) : completed'[k] = completed[k + n]
    /\ stack' \in Seq(LevelType) /\ Len(stack') = Top /\ Top' = Top
    /\ \A i \in 1..Top : LevelSplit(stack'[i], i, m, n)
    /\ \A i \in 1..Top : /\ stack'[i].row = stack[i].row
                         /\ stack'[i].start_total = stack[i].start_total
                         /\ stack'[i].path_len = stack[i].path_len
    /\ stack'[m].run_first = stack[m].row + 1
    /\ \A i \in 1..Top :
          /\ stack'[i].split <=> i < m + 1
          /\ i <= m => stack'[i].completed = stack[i].completed
          /\ m < i => stack'[i].completed = stack[i].completed - n

LEMMA SplitFacts ==
    ASSUME IInv, Split, NEW m, m = measuring,
           NEW n, n = IF m < Top THEN stack[m + 1].completed ELSE Len(completed)
    PROVE  SplitMade(m, n)
<1> USE DEF IInv
<1>1. /\ Running /\ pc = "budget" /\ Inner = m /\ m <= Top
      /\ TypeOK /\ TilesInv /\ RowsInv /\ LevelsInv /\ PathInv
      /\ CompletedInv /\ OffersInv /\ RunInv
      /\ UNCHANGED <<position, total, path, measuring, rows>>
  BY DEF Split, PastBudget, Running, Inner
<1>2. /\ Top \in Nat /\ m \in 2..Top /\ m \in 1..Top /\ m - 1 \in 1..Top
      /\ position \in Nat /\ base \in Nat /\ base <= position
      /\ stack \in Seq(LevelType) /\ Top = Len(stack)
      /\ completed \in Seq(ChildType) /\ Len(completed) \in Nat
      /\ \A i \in 1..Top : /\ stack[i].row \in Nat /\ stack[i].completed \in Nat
                           /\ stack[i].run_first \in Nat
                           /\ stack[i].split <=> i < m
      /\ \A i \in 2..Top : stack[i].row < position
      /\ \A i, j \in 2..Top : i < j => stack[i].row < stack[j].row
      /\ \A k \in 1..Len(completed) : completed[k].position \in Nat
  <2>1. /\ Top \in Nat /\ m \in 2..(Top + 1)
        /\ position \in Nat /\ base \in Nat /\ base <= position
        /\ stack \in Seq(LevelType) /\ Top = Len(stack)
        /\ completed \in Seq(ChildType) /\ Len(completed) \in Nat
        /\ \A i \in 1..Top : /\ stack[i].row \in Nat /\ stack[i].completed \in Nat
                             /\ stack[i].run_first \in Nat
                             /\ stack[i].split <=> i < m
        /\ \A i \in 2..Top : stack[i].row < position
        /\ \A i, j \in 2..Top : i < j => stack[i].row < stack[j].row
        /\ \A k \in 1..Len(completed) : completed[k].position \in Nat
    BY <1>1, OpenFacts
  <2>2. m \in 2..Top /\ m \in 1..Top /\ m - 1 \in 1..Top
    BY <1>1, <2>1
  <2>3. QED
    BY <2>1, <2>2
<1>3. /\ stack[m].completed = 0 /\ n \in Nat /\ n <= Len(completed)
      /\ \A i \in 1..Top : m < i => n <= stack[i].completed
  <2>1. stack[m].completed = 0
    BY <1>1, <1>2 DEF CompletedInv
  <2>2. m < Top => m + 1 \in 1..Top
    BY <1>2
  <2>3. n \in Nat /\ n <= Len(completed)
    BY <1>1, <1>2, <2>2 DEF CompletedInv
  <2>4. ASSUME NEW i \in 1..Top, m < i PROVE n <= stack[i].completed
    BY <1>2, <2>4, <1>1 DEF CompletedInv
  <2>5. QED
    BY <2>1, <2>3, <2>4
<1>4. /\ offers' = SubSeq(completed, 1, n)
      /\ completed' = SubSeq(completed, 1, 0) \o SubSeq(completed, n + 1, Len(completed))
      /\ stack' = SplitLevels(m, n)
  <2>1. /\ OfLevel(m).from = 0 /\ OfLevel(m).to = n
    BY <1>3 DEF OfLevel
  <2>2. n - 0 = n /\ 0 + 1 = 1
    BY <1>3
  <2>3. QED
    BY <2>1, <2>2 DEF Split
<1>5. /\ offers' \in Seq(ChildType) /\ Len(offers') = n
      /\ \A k \in 1..n : offers'[k] = completed[k]
  BY <1>2, <1>3, ElementOfSeq, <1>4, SubSeqProperties
<1>6. /\ completed' \in Seq(ChildType) /\ Len(completed') = Len(completed) - n
      /\ \A k \in 1..(Len(completed) - n) : completed'[k] = completed[k + n]
  <2> DEFINE rest == SubSeq(completed, n + 1, Len(completed))
  <2>1. \A k \in (n + 1)..Len(completed) : completed[k] \in ChildType
    BY <1>2, <1>3, ElementOfSeq
  <2>2. /\ rest \in Seq(ChildType) /\ Len(rest) = Len(completed) - n
        /\ \A k \in 1..(Len(completed) - n) : rest[k] = completed[k + n]
    <3>1. /\ rest \in Seq(ChildType)
          /\ Len(rest) = IF n + 1 <= Len(completed) THEN Len(completed) - (n + 1) + 1 ELSE 0
          /\ \A k \in 1..(Len(completed) - (n + 1) + 1) : rest[k] = completed[(n + 1) + k - 1]
      <4> DEFINE lo == n + 1
                 hi == Len(completed)
      <4>1. lo \in Int /\ hi \in Int
        BY <1>2, <1>3
      <4>2. \A k \in lo..hi : completed[k] \in ChildType
        BY <2>1
      <4>3. rest = SubSeq(completed, lo, hi)
        OBVIOUS
      <4> HIDE DEF lo, hi, rest
      <4>4. /\ rest \in Seq(ChildType)
            /\ Len(rest) = IF lo <= hi THEN hi - lo + 1 ELSE 0
            /\ \A k \in 1..(hi - lo + 1) : rest[k] = completed[lo + k - 1]
        BY <4>1, <4>2, <4>3, SubSeqProperties
      <4>5. QED
        BY <4>4 DEF lo, hi
    <3>2. Len(rest) = Len(completed) - n
      <4> DEFINE l == Len(completed)
      <4>1. l \in Nat /\ n \in Nat /\ n <= l /\ Len(rest) = IF n + 1 <= l THEN l - (n + 1) + 1 ELSE 0
        BY <1>2, <1>3, <3>1
      <4> HIDE DEF l
      <4>2. (n + 1 <= l => l - (n + 1) + 1 = l - n) /\ (~(n + 1 <= l) => l - n = 0)
        BY <4>1
      <4>3. QED
        BY <4>1, <4>2 DEF l
    <3>3. ASSUME NEW k \in 1..(Len(completed) - n) PROVE rest[k] = completed[k + n]
      <4>1. k \in 1..(Len(completed) - (n + 1) + 1) /\ (n + 1) + k - 1 = k + n
        BY <1>2, <1>3
      <4>2. QED
        BY <3>1, <4>1
    <3>4. QED
      BY <3>1, <3>2, <3>3
  <2> HIDE DEF rest
  <2>3. SubSeq(completed, 1, 0) = <<>>
    BY <1>2, SubSeqProperties, EmptySeq
  <2>4. <<>> \o rest = rest
    BY <2>2, ConcatEmptySeq
  <2>5. completed' = rest
    BY <1>4, <2>3, <2>4 DEF rest
  <2>6. QED
    BY <2>2, <2>5
<1>7. /\ stack' \in Seq(LevelType) /\ Len(stack') = Top
      /\ \A i \in 1..Top : LevelSplit(stack'[i], i, m, n)
  <2>1. stack[m].row < position
    BY <1>2
  <2>2. QED
    BY ZenonT(30), <1>1, <1>2, <1>3, <1>4, <2>1, SplitLevelsFacts
<1>8. /\ Top' = Top
      /\ \A i \in 1..Top : /\ stack'[i].row = stack[i].row
                           /\ stack'[i].start_total = stack[i].start_total
                           /\ stack'[i].path_len = stack[i].path_len
      /\ stack'[m].run_first = stack[m].row + 1
  BY <1>2, <1>7 DEF Top, LevelSplit
<1>9. \A i \in 1..Top :
         /\ stack'[i].split <=> i < m + 1
         /\ i <= m => stack'[i].completed = stack[i].completed
         /\ m < i => stack'[i].completed = stack[i].completed - n
  <2>1. ASSUME NEW i \in 1..Top
        PROVE  /\ stack'[i].split <=> i < m + 1
               /\ i <= m => stack'[i].completed = stack[i].completed
               /\ m < i => stack'[i].completed = stack[i].completed - n
    <3>1. /\ stack'[i].split <=> (stack[i].split \/ i = m)
          /\ stack'[i].completed = IF i > m THEN stack[i].completed - n ELSE stack[i].completed
      BY <1>7 DEF LevelSplit
    <3>2. stack[i].split <=> i < m
      BY <1>2
    <3>3. QED
      BY <1>2, <3>1, <3>2
  <2>2. QED
    BY <2>1
<1>10. QED
  BY <1>3, <1>4, <1>5, <1>6, <1>7, <1>8, <1>9 DEF SplitMade

\* The directory that passed the budget is split: its row may close the run of
\* the level above, its finished children are drained, its own run is opened.
LEMMA SplitStep ==
    ASSUME IInv, Split
    PROVE  IInv'
<1> DEFINE m == measuring
           n == IF m < Top THEN stack[m + 1].completed ELSE Len(completed)
           closes == stack[m - 1].run_first < stack[m].row
<1>1. SplitMade(m, n)
  BY SplitFacts
<1> USE DEF IInv
<1>2. /\ Running /\ pc = "budget" /\ Inner = m /\ m <= Top
      /\ TypeOK /\ TilesInv /\ RowsInv /\ LevelsInv /\ PathInv
      /\ CompletedInv /\ OffersInv /\ RunInv
      /\ UNCHANGED <<position, total, path, measuring, rows>>
      /\ SealIf(closes, stack, stack[m].row, "offer")
  BY DEF Split, PastBudget, Running, Inner, ClosesRun
<1>3. /\ Top \in Nat /\ m \in 2..Top /\ m \in 1..Top /\ m - 1 \in 1..Top
      /\ position \in Nat /\ base \in Nat /\ base <= position
      /\ stack \in Seq(LevelType) /\ Top = Len(stack)
      /\ completed \in Seq(ChildType) /\ Len(completed) \in Nat
      /\ \A i \in 1..Top : /\ stack[i].row \in Nat /\ stack[i].completed \in Nat
                           /\ stack[i].run_first \in Nat
                           /\ stack[i].split <=> i < m
      /\ \A i \in 2..Top : stack[i].row < position
      /\ \A i, j \in 2..Top : i < j => stack[i].row < stack[j].row
      /\ \A k \in 1..Len(completed) : completed[k].position \in Nat
  <2>1. /\ Top \in Nat /\ m \in 2..(Top + 1)
        /\ position \in Nat /\ base \in Nat /\ base <= position
        /\ stack \in Seq(LevelType) /\ Top = Len(stack)
        /\ completed \in Seq(ChildType) /\ Len(completed) \in Nat
        /\ \A i \in 1..Top : /\ stack[i].row \in Nat /\ stack[i].completed \in Nat
                             /\ stack[i].run_first \in Nat
                             /\ stack[i].split <=> i < m
        /\ \A i \in 2..Top : stack[i].row < position
        /\ \A i, j \in 2..Top : i < j => stack[i].row < stack[j].row
        /\ \A k \in 1..Len(completed) : completed[k].position \in Nat
    BY <1>2, OpenFacts
  <2>2. m \in 2..Top /\ m \in 1..Top /\ m - 1 \in 1..Top
    BY <1>2, <2>1
  <2>3. QED
    BY <2>1, <2>2
<1> HIDE DEF n
<1>4. /\ stack[m].completed = 0 /\ n \in Nat /\ n <= Len(completed)
      /\ \A i \in 1..Top : m < i => n <= stack[i].completed
  BY <1>1 DEF SplitMade
<1>5. /\ offers' \in Seq(ChildType) /\ Len(offers') = n
      /\ \A k \in 1..n : offers'[k] = completed[k]
  BY <1>1 DEF SplitMade
<1>6. /\ completed' \in Seq(ChildType) /\ Len(completed') = Len(completed) - n
      /\ \A k \in 1..(Len(completed) - n) : completed'[k] = completed[k + n]
  BY <1>1 DEF SplitMade
<1>7. /\ stack' \in Seq(LevelType) /\ Len(stack') = Top
      /\ \A i \in 1..Top : LevelSplit(stack'[i], i, m, n)
  BY <1>1 DEF SplitMade
<1>8. /\ Top' = Top
      /\ \A i \in 1..Top : /\ stack'[i].row = stack[i].row
                           /\ stack'[i].start_total = stack[i].start_total
                           /\ stack'[i].path_len = stack[i].path_len
      /\ stack'[m].run_first = stack[m].row + 1
  BY <1>1 DEF SplitMade
<1>9. \A i \in 1..Top :
         /\ stack'[i].split <=> i < m + 1
         /\ i <= m => stack'[i].completed = stack[i].completed
         /\ m < i => stack'[i].completed = stack[i].completed - n
  BY <1>1 DEF SplitMade
\* The run of the level above ends at the row of the level that is split.
<1>10. /\ base <= stack[m - 1].run_first
       /\ stack[m - 1].run_first <= stack[m].row
       /\ base < stack[m - 1].run_first => \E j \in 2..(m - 1) : base = stack[j].row
  BY <1>3, <1>2 DEF FinishedEnd, RunInv
<1>11. Sealed(IF closes THEN stack[m].row ELSE base, "offer")
  <2>1. CASE closes
    <3>1. Seal(stack, stack[m].row, "offer")
      BY <1>2, <2>1 DEF SealIf
    <3>2. PathLens(stack) /\ CanSeal(stack)
      BY <1>2, WaitingDepth
    <3>3. /\ stack[m].row \in Nat /\ base <= stack[m].row /\ stack[m].row <= position
          /\ pc # "error" /\ Len(rows) = position
      BY <1>2, <1>3, <1>10 DEF RowsInv
    <3> HIDE DEF m
    <3>4. Sealed(stack[m].row, "offer")
      BY <1>2, <1>3, <3>1, <3>2, <3>3, SealFacts
    <3>5. QED
      BY <2>1, <3>4
  <2>2. CASE ~closes
    BY <1>2, <2>2 DEF SealIf, Sealed, TypeOK, TilesInv, PartsTile
  <2>3. QED
    BY <2>1, <2>2
<1>12. base' \in Nat /\ base' <= stack[m].row /\ (base' = IF closes THEN stack[m].row ELSE base)
  BY <1>3, <1>10, <1>11 DEF Sealed
<1>13. TypeOK'
  BY <1>2, <1>5, <1>6, <1>7, <1>11 DEF TypeOK, Sealed
<1>14. CASE pc' = "offer"
  <2>1. Inner' = m + 1 /\ Inner' - 1 = m /\ m' = m /\ Inner' - 2 = m - 1
    BY <1>2, <1>3, <1>14 DEF Inner
  <2>2. RowsInv'
    BY <1>2, <1>3, <1>12 DEF RowsInv
  <2>3. LevelsInv'
    <3>1. \A i \in 2..Top : i \in 1..Top
      BY <1>3
    <3>2. Top' >= 1 /\ Inner' \in 2..(Top' + 1)
      BY <1>3, <1>8, <2>1
    <3>3. \A i \in 1..Top' : stack'[i].split <=> i < Inner'
      BY <1>8, <1>9, <2>1
    <3>4. \A i \in 2..Top' :
             /\ stack'[i].row < position'
             /\ stack'[i].start_total <= total'
             /\ rows'[stack'[i].row + 1].depth = i - 2
             /\ stack'[i].row + 1 < position' => rows'[stack'[i].row + 2].depth = i - 1
      BY <1>2, <1>8, <3>1 DEF LevelsInv
    <3>5. \A i, j \in 2..Top' : i < j => stack'[i].row < stack'[j].row
      BY <1>2, <1>8, <3>1 DEF LevelsInv
    <3>6. QED
      BY <3>2, <3>3, <3>4, <3>5 DEF LevelsInv
  <2>4. PathInv'
    <3>1. \A k \in 1..(Top - 1) : k + 1 \in 1..Top
      BY <1>3
    <3>2. OpenRows' = OpenRows
      BY <1>3, <1>8, <3>1 DEF OpenRows
    <3>3. QED
      BY <1>2, <1>8, <3>2 DEF PathInv
  <2>5. CompletedInv'
    <3>1. Len(completed') \in Nat /\ Len(completed') = Len(completed) - n
          /\ \A k \in 1..Len(completed') : /\ k + n \in 1..Len(completed)
                                          /\ completed'[k] = completed[k + n]
      BY <1>3, <1>4, <1>6
    <3>2. ASSUME NEW k \in 1..Len(completed'), NEW l \in 1..Len(completed'), k < l
          PROVE  completed'[k].position < completed'[l].position
      BY <1>4, <3>2, <1>2, <3>1 DEF CompletedInv
    <3>3. ASSUME NEW i \in 1..Top
          PROVE  /\ i <= m + 1 => stack'[i].completed = 0
                 /\ stack'[i].completed <= Len(completed')
                 /\ stack'[i].completed \in Nat
      <4>1. CASE i <= m
        BY <1>9, <4>1, <1>2, <3>1 DEF CompletedInv
      <4>2. CASE m < i
        <5>1. /\ stack'[i].completed = stack[i].completed - n
              /\ n <= stack[i].completed
              /\ stack[i].completed \in Nat
          BY <1>3, <1>4, <1>9, <4>2
        <5>2. stack[i].completed <= Len(completed)
          BY <1>2 DEF CompletedInv
        <5>3. i = m + 1 => stack[i].completed = n
          BY <1>3, <4>2 DEF n
        <5>4. i <= m + 1 => i = m + 1
          BY <1>3, <4>2
        <5>5. QED
          BY <1>3, <1>4, <3>1, <5>1, <5>2, <5>3, <5>4
      <4>3. i <= m \/ m < i
        BY <1>3
      <4>4. QED
        BY <4>1, <4>2, <4>3
    <3>4. m + 1 > Top => completed' = <<>>
      <4>1. SUFFICES ASSUME m + 1 > Top PROVE completed' = <<>>
        OBVIOUS
      <4>2. n = Len(completed)
        BY <1>3, <4>1 DEF n
      <4>3. Len(completed') = 0
        BY <1>3, <3>1, <4>2
      <4>4. QED
        BY <1>6, <4>3, EmptySeq
    <3>5. ASSUME NEW i \in 1..Top, NEW j \in 1..Top, i <= j
          PROVE  stack'[i].completed <= stack'[j].completed
      <4>1. CASE i <= m
        <5>1. stack'[i].completed = 0
          BY <1>3, <4>1, <3>3
        <5>2. QED
          BY <3>3, <5>1
      <4>2. CASE m < i
        <5>1. m < j
          BY <1>3, <3>5, <4>2
        <5>2. stack[i].completed <= stack[j].completed
          BY <1>2, <3>5 DEF CompletedInv
        <5>3. QED
          BY <1>3, <1>4, <1>9, <4>2, <5>1, <5>2
      <4>3. i <= m \/ m < i
        BY <1>3
      <4>4. QED
        BY <4>1, <4>2, <4>3
    <3>6. ASSUME NEW i \in (m + 1)..Top, NEW k \in 1..Len(completed')
          PROVE  InSlice(i, k)'
      <4>1. i \in m..Top /\ i \in 1..Top /\ m < i
        BY <1>3
      <4>2. InSlice(i, k + n)
        BY <1>2, <3>1, <4>1 DEF CompletedInv
      <4>3. /\ stack'[i].completed = stack[i].completed - n
            /\ stack'[i].row = stack[i].row
            /\ stack[i].completed \in Nat
        BY <1>3, <1>8, <1>9, <4>1
      <4>4. /\ k <= stack'[i].completed <=> k + n <= stack[i].completed
            /\ stack'[i].completed < k <=> stack[i].completed < k + n
        BY <1>4, <4>3
      <4>5. i # Top => (k <= stack'[i + 1].completed <=> k + n <= stack[i + 1].completed)
        <5>1. SUFFICES ASSUME i # Top
                       PROVE  k <= stack'[i + 1].completed <=> k + n <= stack[i + 1].completed
          OBVIOUS
        <5>2. i + 1 \in 1..Top /\ m < i + 1
          BY <1>3, <4>1, <5>1
        <5>3. /\ stack'[i + 1].completed = stack[i + 1].completed - n
              /\ stack[i + 1].completed \in Nat
          BY <1>3, <1>9, <5>2
        <5>4. QED
          BY <1>4, <5>3
      <4>6. completed'[k] = completed[k + n]
        BY <3>1
      <4>7. QED
        BY <1>2, <1>8, <4>2, <4>3, <4>4, <4>5, <4>6 DEF InSlice
    <3>7. QED
      BY <1>8, <2>1, <3>2, <3>3, <3>4, <3>5, <3>6 DEF CompletedInv
  <2>6. FinishedEnd(Inner - 1)' = IF m < Top THEN stack[m + 1].row ELSE position
    <3>1. m < Top => m + 1 \in 1..Top
      BY <1>3
    <3>2. QED
      BY <1>2, <1>3, <1>8, <2>1, <3>1 DEF FinishedEnd
  <2>7. OffersInv'
    <3>1. n \in Nat /\ \A k \in 1..n : k \in 1..Len(completed)
      BY <1>3, <1>4
    <3>2. ASSUME NEW k \in 1..n, NEW l \in 1..n, k < l
          PROVE  offers'[k].position < offers'[l].position
      BY <1>2, <1>5, <3>1, <3>2 DEF CompletedInv
    <3>3. ASSUME NEW k \in 1..n
          PROVE  /\ stack'[m].run_first <= offers'[k].position
                 /\ offers'[k].position < (IF m < Top THEN stack[m + 1].row ELSE position)
                 /\ rows[offers'[k].position + 1].depth = m - 1
      <4>1. offers'[k] = completed[k] /\ k \in 1..Len(completed) /\ completed[k].position \in Nat
        BY <1>3, <1>5, <3>1
      <4>2. m = Top \/ k <= stack[m + 1].completed
        BY <1>3 DEF n
      <4>3. m \in m..Top /\ 0 < k
        BY <1>3
      <4>4. InSlice(m, k)
        BY <1>2, <4>1, <4>3 DEF CompletedInv
      <4>5. /\ stack[m].row < completed[k].position
            /\ completed[k].position < position
            /\ rows[completed[k].position + 1].depth = m - 1
        BY <1>4, <4>2, <4>3, <4>4 DEF InSlice
      <4>6. m < Top => completed[k].position < stack[m + 1].row
        <5>1. SUFFICES ASSUME m < Top PROVE completed[k].position < stack[m + 1].row
          OBVIOUS
        <5>2. m + 1 \in m..Top /\ k <= stack[m + 1].completed
          BY <1>3, <4>2, <5>1
        <5>3. InSlice(m + 1, k)
          BY <1>2, <4>1, <5>2 DEF CompletedInv
        <5>4. QED
          BY <5>2, <5>3 DEF InSlice
      <4>7. stack[m].row + 1 <= completed[k].position
        BY <1>3, <4>1, <4>5
      <4>8. QED
        BY <1>8, <4>1, <4>5, <4>6, <4>7
    <3>4. Len(offers') = n /\ rows' = rows
      BY <1>2, <1>5
    <3>5. QED
      BY <1>14, <2>1, <2>6, <3>2, <3>3, <3>4 DEF OffersInv
  <2>8. RunInv'
    <3> DEFINE run == stack[m].row + 1
    <3>1. stack'[m].run_first = run /\ run \in Nat
      BY <1>3, <1>8
    <3>2. base' <= run
      BY <1>3, <1>12
    <3>3. Contents(Inner - 1)' = run
      BY <1>3, <1>8, <2>1 DEF Contents
    <3>4. run <= FinishedEnd(Inner - 1)'
      <4>1. CASE m < Top
        <5>1. m + 1 \in 2..Top /\ m + 1 \in 1..Top /\ m < m + 1
          BY <1>3, <4>1
        <5>2. stack[m].row < stack[m + 1].row /\ stack[m + 1].row \in Nat /\ stack[m].row \in Nat
          BY <1>3, <5>1
        <5>3. QED
          BY <2>6, <4>1, <5>2
      <4>2. CASE ~(m < Top)
        BY <1>3, <2>6, <4>2
      <4>3. QED
        BY <4>1, <4>2
    <3>5. run < position => rows[run + 1].depth = m - 1
      BY <1>2, <1>3 DEF LevelsInv
    <3>6. \E j \in 2..m : base' = stack'[j].row
      <4>1. CASE closes \/ base = stack[m].row
        <5>1. base' = stack[m].row /\ m \in 2..m
          BY <1>3, <1>12, <4>1
        <5>2. QED
          BY <1>3, <1>8, <5>1
      <4>2. CASE ~closes /\ base # stack[m].row
        <5>1. base' = base /\ base < stack[m - 1].run_first
          BY <1>3, <1>10, <1>12, <4>2
        <5>2. PICK j \in 2..(m - 1) : base = stack[j].row
          BY <1>10, <5>1
        <5>3. j \in 2..m /\ j \in 1..Top
          BY <1>3, <5>2
        <5>4. QED
          BY <1>8, <5>1, <5>2, <5>3
      <4>3. QED
        BY <4>1, <4>2
    <3>7. position' = position /\ rows' = rows
      BY <1>2
    <3> HIDE DEF run
    <3>8. QED
      BY <2>1, <3>1, <3>2, <3>3, <3>4, <3>5, <3>6, <3>7 DEF RunInv
  <2>9. QED
    BY <1>11, <1>13, <1>14, <2>2, <2>3, <2>4, <2>5, <2>7, <2>8, InvFromParts DEF Sealed
<1>15. CASE pc' # "offer"
  BY <1>11, <1>13, <1>15, InvFromParts DEF Sealed
<1>16. QED
  BY <1>14, <1>15

LEMMA InitStep ==
    ASSUME Init
    PROVE  IInv
<1>1. position \in 0..MaxRows /\ 2 \in Nat \ {0, 1}
  BY CutAssumption DEF Init
<1>2. Tiles(parts) /\ SealedEnd(parts) = 0
  BY EmptySeq DEF Init, Tiles, SealedEnd
<1>3. TypeOK
  BY EmptySeq, <1>1 DEF Init, TypeOK
<1>4. QED
  BY <1>2, <1>3 DEF Init, IInv, TilesInv, PartsTile, Running

LEMMA StutterStep ==
    ASSUME IInv, UNCHANGED vars
    PROVE  IInv'
<1>1. Top' = Top /\ Inner' = Inner
  BY DEF vars, Top, Inner
<1>2. TypeOK' /\ TilesInv'
  BY DEF vars, IInv, TypeOK, TilesInv, PartsTile, Tiles, SealedEnd
<1>3. Running => RowsInv' /\ LevelsInv' /\ PathInv'
  BY <1>1 DEF vars, IInv, RowsInv, LevelsInv, PathInv, OpenRows
<1>4. Running => CompletedInv'
  BY <1>1 DEF vars, IInv, CompletedInv, InSlice
<1>5. Running => OffersInv' /\ RunInv'
  BY <1>1 DEF vars, IInv, OffersInv, RunInv, Contents, FinishedEnd
<1>6. QED
  BY <1>2, <1>3, <1>4, <1>5 DEF vars, IInv, Running

LEMMA InvStep ==
    ASSUME IInv, [Next]_vars
    PROVE  IInv'
<1>1. CASE Start
  BY <1>1, StartStep
<1>2. CASE Cancelled
  BY <1>2, ErrorStep DEF Cancelled
<1>3. CASE FailedEntry
  BY <1>3, ErrorStep DEF FailedEntry
<1>4. ASSUME NEW bytes \in Sizes, Leaf(bytes) PROVE IInv'
  BY <1>4, LeafStep
<1>5. ASSUME NEW bytes \in Sizes, Enter(bytes) PROVE IInv'
  BY <1>5, EnterStep
<1>6. CASE WithinBudget
  BY <1>6, WithinBudgetStep
<1>7. CASE Split
  BY <1>7, SplitStep
<1>8. CASE Offer
  BY <1>8, OfferStep
<1>9. CASE Offered
  BY <1>9, OfferedStep
<1>10. CASE FinishRoot
  BY <1>10, FinishRootStep
<1>11. CASE FinishSplit
  BY <1>11, FinishSplitStep
<1>12. CASE FinishMeasured
  BY <1>12, FinishMeasuredStep
<1>13. CASE UNCHANGED vars
  BY <1>13, StutterStep
<1>14. QED
  BY <1>1, <1>2, <1>3, <1>4, <1>5, <1>6, <1>7, <1>8, <1>9, <1>10, <1>11, <1>12, <1>13
     DEF Next, Step, Terminating

-----------------------------------------------------------------------------
(* The theorems.                                                           *)

\* Between any two steps of the walk, the open directories, the open runs, the
\* finished children and the first waiting row stand to each other as CutInv says.
THEOREM WalkStateIsConsistent == Spec => []IInv
<1>1. Init => IInv
  BY InitStep
<1>2. IInv /\ [Next]_vars => IInv'
  BY InvStep
<1>3. QED
  BY <1>1, <1>2, PTL DEF Spec

\* No position, offset or running total of the cutter goes below 0.
THEOREM TypesHold == Spec => []TypeOK
<1>1. IInv => TypeOK
  BY DEF IInv
<1>2. QED
  BY WalkStateIsConsistent, <1>1, PTL

\* Whatever the tree, the parts tile the rows in walk order, and a walk that ends
\* well leaves no row out: seal moves base over each row exactly once.
THEOREM EveryRowInOnePart == Spec => []PartsTile
<1>1. IInv => PartsTile
  BY DEF IInv, TilesInv
<1>2. QED
  BY WalkStateIsConsistent, <1>1, PTL

\* The levels seal reads for a part's stem are always on the stack.
THEOREM EveryStemIsOpen == Spec => []StemIsOpen
<1>1. IInv => StemIsOpen
  <2> SUFFICES ASSUME IInv PROVE StemIsOpen
    OBVIOUS
  <2>1. CASE Running
    BY <2>1, WaitingDepth DEF StemIsOpen
  <2>2. CASE pc = "start"
    BY <2>2 DEF IInv, StemIsOpen
  <2>3. CASE pc \in {"done", "error"}
    BY <2>3 DEF StemIsOpen
  <2>4. Running \/ pc = "start" \/ pc \in {"done", "error"}
    BY DEF IInv, TypeOK, Running
  <2>5. QED
    BY <2>1, <2>2, <2>3, <2>4
<1>2. QED
  BY WalkStateIsConsistent, <1>1, PTL

\* The relative path, cut at the levels' path_len, names the open directories.
THEOREM PathIsRight == Spec => []PathNamesLevels
<1>1. IInv => PathNamesLevels
  BY DEF IInv, PathInv, PathNamesLevels, Running
<1>2. QED
  BY WalkStateIsConsistent, <1>1, PTL

-----------------------------------------------------------------------------
(* Totals, and where subtrees end.                                         *)

\* One term of a running total.
Term(rs, t, p) == IF p = 0 THEN 0 ELSE t[p - 1] + rs[p].bytes

\* There is such a function up to every length of the rows.
LEMMA TotalsExist ==
    ASSUME NEW rs \in Seq(RowType)
    PROVE  \E t : t = [p \in 0..Len(rs) |-> Term(rs, t, p)]
<1> DEFINE S == {n \in 0..Len(rs) : \E t : t = [p \in 0..n |-> Term(rs, t, p)]}
<1>1. Len(rs) \in Nat
  BY LenProperties
<1>2. 0 \in S
  <2>1. [p \in 0..0 |-> 0] = [p \in 0..0 |-> Term(rs, [q \in 0..0 |-> 0], p)]
    BY DEF Term
  <2>2. QED
    BY <1>1, <2>1
<1>3. ASSUME NEW n \in 0..(Len(rs) - 1), n \in S
      PROVE  n + 1 \in S
  <2>1. PICK t : t = [p \in 0..n |-> Term(rs, t, p)]
    BY <1>3
  <2> DEFINE u == [p \in 0..(n + 1) |-> IF p = n + 1 THEN t[n] + rs[n + 1].bytes ELSE t[p]]
  <2>2. ASSUME NEW p \in 0..(n + 1)
        PROVE  u[p] = Term(rs, u, p)
    <3>1. CASE p = n + 1
      BY <1>1, <3>1 DEF Term
    <3>2. CASE p \in 0..n /\ p # 0
      BY <1>1, <3>2, <2>1 DEF Term
    <3>3. CASE p = 0
      BY <2>1, <1>1, <3>3 DEF Term
    <3>4. QED
      BY <1>1, <3>1, <3>2, <3>3
  <2>3. u = [p \in 0..(n + 1) |-> u[p]]
    OBVIOUS
  <2> HIDE DEF u
  <2>4. u = [p \in 0..(n + 1) |-> Term(rs, u, p)]
    BY <2>2, <2>3
  <2>5. n + 1 \in 0..Len(rs)
    BY <1>1
  <2>6. QED
    BY <2>4, <2>5
<1>4. Len(rs) \in S
  <2> HIDE DEF S
  <2>1. \A n \in 0..Len(rs) : n \in S
    BY <1>1, <1>2, <1>3, InductionUpTo
  <2>2. QED
    BY <1>1, <2>1
<1>5. QED
  BY <1>4

LEMMA RowBytes ==
    ASSUME NEW rs \in Seq(RowType)
    PROVE  \A p \in 1..Len(rs) : rs[p].bytes \in Nat
<1>1. \A p \in 1..Len(rs) : rs[p] \in RowType
  BY ElementOfSeq
<1>2. QED
  BY <1>1 DEF RowType

\* The totals add up the rows one by one.
LEMMA TotalsAddUp ==
    ASSUME NEW rs \in Seq(RowType)
    PROVE  /\ Totals(rs)[0] = 0
           /\ \A p \in 1..Len(rs) : Totals(rs)[p] = Totals(rs)[p - 1] + rs[p].bytes
           /\ \A p \in 0..Len(rs) : Totals(rs)[p] \in Nat
<1> DEFINE t == Totals(rs)
<1>1. Len(rs) \in Nat
  BY LenProperties
<1>2. t = [p \in 0..Len(rs) |-> Term(rs, t, p)]
  BY TotalsExist DEF Totals, Term
<1> HIDE DEF t
<1>3. t[0] = 0
  BY <1>1, <1>2 DEF Term
<1>4. \A p \in 1..Len(rs) : t[p] = t[p - 1] + rs[p].bytes
  BY <1>1, <1>2 DEF Term
<1>5. \A p \in 0..Len(rs) : t[p] \in Nat
  <2> DEFINE S == {p \in 0..Len(rs) : t[p] \in Nat}
  <2>1. 0 \in S
    BY <1>1, <1>3
  <2>2. ASSUME NEW p \in 0..(Len(rs) - 1), p \in S
        PROVE  p + 1 \in S
    BY <1>1, RowBytes, <1>4, <2>2
  <2>3. \A p \in 0..Len(rs) : p \in S
    <3> HIDE DEF S
    <3>1. QED
      BY <1>1, <2>1, <2>2, InductionUpTo
  <2>4. QED
    BY <2>3
<1>6. QED
  BY <1>3, <1>4, <1>5 DEF t

\* They never fall.
LEMMA TotalsGrow ==
    ASSUME NEW rs \in Seq(RowType), NEW p \in 0..Len(rs), NEW q \in p..Len(rs)
    PROVE  Totals(rs)[p] <= Totals(rs)[q]
<1> DEFINE t == Totals(rs)
<1>1. Len(rs) \in Nat
  BY LenProperties
<1>2. /\ \A r \in 1..Len(rs) : t[r] = t[r - 1] + rs[r].bytes
      /\ \A r \in 0..Len(rs) : t[r] \in Nat
  BY TotalsAddUp
<1> HIDE DEF t
<1> DEFINE S == {n \in 0..(Len(rs) - p) : t[p] <= t[p + n]}
<1>3. 0 \in S
  BY <1>1, <1>2
<1>4. ASSUME NEW n \in 0..((Len(rs) - p) - 1), n \in S
      PROVE  n + 1 \in S
  <2>1. /\ p + (n + 1) \in 1..Len(rs) /\ (p + (n + 1)) - 1 = p + n /\ p + n \in 0..Len(rs)
        /\ n + 1 \in 0..(Len(rs) - p)
    BY <1>1
  <2>2. rs[p + (n + 1)].bytes \in Nat
    BY <2>1, RowBytes
  <2>3. t[p + (n + 1)] = t[p + n] + rs[p + (n + 1)].bytes
    BY <1>2, <2>1
  <2>4. t[p] \in Nat /\ t[p + n] \in Nat /\ t[p] <= t[p + n]
    BY <1>2, <1>4, <2>1
  <2>5. QED
    BY <2>1, <2>2, <2>3, <2>4
<1>5. \A n \in 0..(Len(rs) - p) : n \in S
  <2>1. Len(rs) - p \in Nat
    BY <1>1
  <2> HIDE DEF S
  <2>2. QED
    BY <2>1, <1>3, <1>4, InductionUpTo
<1>6. q - p \in 0..(Len(rs) - p) /\ p + (q - p) = q
  BY <1>1
<1>7. t[p] <= t[p + (q - p)]
  BY <1>5, <1>6
<1>8. QED
  BY <1>6, <1>7 DEF t

\* One row more adds a total and changes none.
LEMMA TotalsAppend ==
    ASSUME NEW rs \in Seq(RowType), NEW row \in RowType
    PROVE  /\ \A p \in 0..Len(rs) : Totals(Append(rs, row))[p] = Totals(rs)[p]
           /\ Totals(Append(rs, row))[Len(rs) + 1] = Totals(rs)[Len(rs)] + row.bytes
<1> DEFINE t == Totals(rs)
           rs2 == Append(rs, row)
           u == Totals(rs2)
           n == Len(rs)
<1>1. /\ n \in Nat /\ rs2 \in Seq(RowType) /\ Len(rs2) = n + 1
      /\ \A p \in 1..n : rs2[p] = rs[p]
      /\ rs2[n + 1] = row
  BY LenProperties, AppendProperties
<1>2. t[0] = 0 /\ \A p \in 1..n : t[p] = t[p - 1] + rs[p].bytes
  BY TotalsAddUp
<1> HIDE DEF rs2
<1>3. u[0] = 0 /\ \A p \in 1..(n + 1) : u[p] = u[p - 1] + rs2[p].bytes
  BY <1>1, TotalsAddUp
<1> HIDE DEF t, u, n
<1>4. \A p \in 0..n : u[p] = t[p]
  <2> DEFINE S == {p \in 0..n : u[p] = t[p]}
  <2>1. 0 \in S
    BY <1>1, <1>2, <1>3
  <2>2. ASSUME NEW p \in 0..(n - 1), p \in S
        PROVE  p + 1 \in S
    <3>1. p + 1 \in 1..n /\ p + 1 \in 1..(n + 1) /\ (p + 1) - 1 = p /\ p + 1 \in 0..n
      BY <1>1
    <3>2. t[p + 1] = t[p] + rs[p + 1].bytes /\ u[p + 1] = u[p] + rs2[p + 1].bytes
      BY <1>2, <1>3, <3>1
    <3>3. QED
      BY <1>1, <2>2, <3>1, <3>2
  <2>3. \A p \in 0..n : p \in S
    <3> HIDE DEF S
    <3>1. QED
      BY <1>1, <2>1, <2>2, InductionUpTo
  <2>4. QED
    BY <2>3
<1>5. u[n + 1] = t[n] + row.bytes
  BY <1>1, <1>3, <1>4
<1>6. QED
  BY <1>4, <1>5 DEF t, u, n, rs2

-----------------------------------------------------------------------------
(* Subtrees.                                                               *)

LEMMA RowFacts ==
    ASSUME TypeOK, Len(rows) = position
    PROVE  /\ position \in Nat
           /\ rows \in Seq(RowType)
           /\ \A p \in 0..(position - 1) : /\ rows[p + 1].depth \in Nat
                                          /\ rows[p + 1].bytes \in Nat
                                          /\ rows[p + 1].dir \in BOOLEAN
<1>1. position \in Nat /\ rows \in Seq(RowType)
  BY LenProperties DEF TypeOK
<1>2. ASSUME NEW p \in 0..(position - 1)
      PROVE  rows[p + 1] \in RowType
  BY <1>1, ElementOfSeq
<1>3. QED
  BY <1>1, <1>2 DEF RowType

\* Every subtree ends, and in one place.
LEMMA EndOfFacts ==
    ASSUME TypeOK, Len(rows) = position, NEW p \in 0..(position - 1)
    PROVE  /\ EndOf(p) \in (p + 1)..position
           /\ EndsAt(p, EndOf(p))
<1>1. position \in Nat /\ \A q \in 0..(position - 1) : rows[q + 1].depth \in Nat
  BY RowFacts
<1> DEFINE Deeper(q) == \A r \in (p + 1)..(q - 1) : rows[r + 1].depth > rows[p + 1].depth
           n == (position - p) - 1
           S == {k \in 0..n : Deeper(p + 1 + k) \/ \E q \in (p + 1)..position : EndsAt(p, q)}
<1>2. 0 \in S
  BY <1>1
<1>3. ASSUME NEW k \in 0..(n - 1), k \in S
      PROVE  k + 1 \in S
  <2>1. k + 1 \in 0..n /\ p + 1 + (k + 1) = (p + 1 + k) + 1 /\ p + 1 + k \in (p + 1)..(position - 1)
    BY <1>1
  <2>2. CASE \E q \in (p + 1)..position : EndsAt(p, q)
    BY <2>1, <2>2
  <2>3. CASE Deeper(p + 1 + k) /\ rows[(p + 1 + k) + 1].depth > rows[p + 1].depth
    <3>1. ASSUME NEW r \in (p + 1)..(((p + 1 + k) + 1) - 1)
          PROVE  rows[r + 1].depth > rows[p + 1].depth
      BY <1>1, <2>1, <2>3
    <3>2. Deeper(p + 1 + (k + 1))
      BY <2>1, <3>1
    <3>3. QED
      BY <2>1, <3>2
  <2>4. CASE Deeper(p + 1 + k) /\ ~(rows[(p + 1 + k) + 1].depth > rows[p + 1].depth)
    <3>1. EndsAt(p, p + 1 + k)
      <4>1. p \in 0..(position - 1) /\ p + 1 + k \in 0..(position - 1)
        BY <1>1, <2>1
      <4>2. rows[p + 1].depth \in Nat /\ rows[(p + 1 + k) + 1].depth \in Nat
        BY <1>1, <4>1
      <4>3. rows[(p + 1 + k) + 1].depth <= rows[p + 1].depth
        BY <2>4, <4>2
      <4>4. QED
        BY <2>4, <4>3 DEF EndsAt
    <3>2. p + 1 + k \in (p + 1)..position
      BY <2>1
    <3>3. QED
      BY <2>1, <3>1, <3>2
  <2>5. QED
    BY <1>3, <2>2, <2>3, <2>4
<1>4. n \in S
  <2>1. n \in Nat
    BY <1>1
  <2> HIDE DEF S, n
  <2>2. \A k \in 0..n : k \in S
    BY <2>1, <1>2, <1>3, InductionUpTo
  <2>3. QED
    BY <2>1, <2>2
<1>5. p + 1 + n = position
  BY <1>1
<1>6. \E q \in (p + 1)..position : EndsAt(p, q)
  <2>1. CASE Deeper(position)
    <3>1. EndsAt(p, position)
      BY <1>1, <2>1 DEF EndsAt
    <3>2. QED
      BY <1>1, <3>1
  <2>2. CASE \E q \in (p + 1)..position : EndsAt(p, q)
    BY <2>2
  <2> HIDE DEF Deeper, n
  <2>3. QED
    BY <1>4, <1>5, <2>1, <2>2
<1>7. QED
  BY <1>6 DEF EndOf

\* EndsAt, with the rows to say it of.
Ends(rs, p, q) ==
    /\ \A r \in (p + 1)..(q - 1) : rs[r + 1].depth > rs[p + 1].depth
    /\ q < Len(rs) => rs[q + 1].depth <= rs[p + 1].depth

LEMMA OneEnd ==
    ASSUME NEW rs \in Seq(RowType), NEW p \in 0..(Len(rs) - 1),
           NEW q \in (p + 1)..Len(rs), Ends(rs, p, q)
    PROVE  q = CHOOSE e \in (p + 1)..Len(rs) : Ends(rs, p, e)
<1>1. Len(rs) \in Nat /\ \A r \in 0..(Len(rs) - 1) : rs[r + 1].depth \in Nat
  <2>1. Len(rs) \in Nat
    BY LenProperties
  <2>2. ASSUME NEW r \in 0..(Len(rs) - 1)
        PROVE  rs[r + 1] \in RowType
    BY <2>1, ElementOfSeq
  <2>3. QED
    BY <2>1, <2>2 DEF RowType
<1> DEFINE e == CHOOSE e \in (p + 1)..Len(rs) : Ends(rs, p, e)
<1>2. e \in (p + 1)..Len(rs) /\ Ends(rs, p, e)
  OBVIOUS
<1> HIDE DEF e
<1>3. ASSUME NEW a \in (p + 1)..Len(rs), NEW b \in (p + 1)..Len(rs),
             Ends(rs, p, a), Ends(rs, p, b), a < b
      PROVE  FALSE
  <2>1. a \in (p + 1)..(b - 1) /\ a \in 0..(Len(rs) - 1) /\ a < Len(rs)
    BY <1>1, <1>3
  <2>2. rs[a + 1].depth > rs[p + 1].depth /\ rs[a + 1].depth <= rs[p + 1].depth
    BY <1>3, <2>1 DEF Ends
  <2>3. QED
    BY <1>1, <2>1, <2>2
<1>4. ~(e < q) /\ ~(q < e)
  BY <1>2, <1>3
<1>5. e = q
  BY <1>1, <1>2, <1>4
<1>6. QED
  BY <1>5 DEF e

LEMMA EndOfIs ==
    ASSUME TypeOK, Len(rows) = position, NEW p \in 0..(position - 1),
           NEW q \in (p + 1)..position, EndsAt(p, q)
    PROVE  EndOf(p) = q
<1>1. rows \in Seq(RowType)
  BY RowFacts
<1>2. \A e : Ends(rows, p, e) <=> EndsAt(p, e)
  BY DEF Ends, EndsAt
<1>3. q = CHOOSE e \in (p + 1)..Len(rows) : Ends(rows, p, e)
  BY <1>1, <1>2, OneEnd
<1>4. QED
  BY <1>3 DEF EndOf, Ends, EndsAt

LEMMA EndOfWillBe ==
    ASSUME rows' \in Seq(RowType), Len(rows') = position', NEW p \in 0..(position' - 1),
           NEW q \in (p + 1)..position', Ends(rows', p, q)
    PROVE  EndOf(p)' = q
<1>1. q = CHOOSE e \in (p + 1)..Len(rows') : Ends(rows', p, e)
  BY OneEnd
<1>2. QED
  BY <1>1 DEF EndOf, Ends, EndsAt

-----------------------------------------------------------------------------
(* What the invariant says while the walk runs.                            *)

\* Sizes of rows that follow one another.
LEMMA BytesFacts ==
    ASSUME TypeOK, Len(rows) = position
    PROVE  /\ \A p \in 0..position : Totals(rows)[p] \in Nat
           /\ \A p \in 0..position : \A q \in p..position :
                 /\ Totals(rows)[p] <= Totals(rows)[q]
                 /\ Bytes(p, q) \in Nat
           /\ \A p \in 0..position : Bytes(p, p) = 0
           /\ \A p, q, r \in 0..position : Bytes(p, q) + Bytes(q, r) = Bytes(p, r)
<1>1. rows \in Seq(RowType) /\ position \in Nat
  BY RowFacts
<1>2. /\ \A p \in 0..position : Totals(rows)[p] \in Nat
      /\ \A p \in 0..position : \A q \in p..position : Totals(rows)[p] <= Totals(rows)[q]
  BY <1>1, TotalsAddUp, TotalsGrow
<1> DEFINE t == Totals(rows)
<1>3. \A p, q : Bytes(p, q) = t[q] - t[p]
  BY DEF Bytes
<1> HIDE DEF t
<1>4. ASSUME NEW p \in 0..position, NEW q \in p..position
      PROVE  Bytes(p, q) \in Nat
  BY <1>1, <1>2, <1>3 DEF t
<1>5. ASSUME NEW p \in 0..position, NEW q \in 0..position, NEW r \in 0..position
      PROVE  Bytes(p, p) = 0 /\ Bytes(p, q) + Bytes(q, r) = Bytes(p, r)
  <2>1. t[p] \in Nat /\ t[q] \in Nat /\ t[r] \in Nat
    BY <1>2 DEF t
  <2>2. QED
    BY <1>3, <2>1
<1>6. \A p \in 0..position : \A q \in p..position : Bytes(p, q) \in Nat
  BY <1>4
<1>7. \A p \in 0..position : Bytes(p, p) = 0
  BY <1>5
<1>8. \A p, q, r \in 0..position : Bytes(p, q) + Bytes(q, r) = Bytes(p, r)
  BY <1>5
<1>9. QED
  BY <1>2, <1>6, <1>7, <1>8

\* The tree is as it was.
LEMMA SameTree ==
    ASSUME UNCHANGED <<rows, position>>
    PROVE  /\ \A p, q : Bytes(p, q)' = Bytes(p, q) /\ (Fits(p, q)' <=> Fits(p, q))
           /\ \A p : EndOf(p)' = EndOf(p) /\ (OverBudget(p)' <=> OverBudget(p))
           /\ \A p, k : Ancestor(p, k)' = Ancestor(p, k)
           /\ \A c, q : Whole(c, q)' <=> Whole(c, q)
<1>1. \A p, q : Bytes(p, q)' = Bytes(p, q)
  BY DEF Bytes
<1>2. \A p, q : EndsAt(p, q)' <=> EndsAt(p, q)
  BY DEF EndsAt
<1>3. \A p : EndOf(p)' = EndOf(p)
  BY <1>2 DEF EndOf, EndsAt
<1>4. \A p : OverBudget(p)' <=> OverBudget(p)
  BY <1>1, <1>3 DEF OverBudget, Size
<1>5. \A p, q : Fits(p, q)' <=> Fits(p, q)
  BY <1>1 DEF Fits
<1>6. \A p, k : Ancestor(p, k)' = Ancestor(p, k)
  BY DEF Ancestor
<1>7. \A c, q : Whole(c, q)' <=> Whole(c, q)
  BY <1>1, <1>5 DEF Whole
<1>8. QED
  BY <1>1, <1>3, <1>4, <1>5, <1>6, <1>7

\* What the invariant says of the tree while the walk runs.
LEMMA RunningFacts ==
    ASSUME IInv, PartsInv, Running
    PROVE  /\ TypeOK /\ RowsInv /\ LevelsInv /\ PathInv /\ CompletedInv /\ OffersInv /\ RunInv
           /\ Len(rows) = position
           /\ NestInv /\ TotalsInv /\ SplitInv /\ ChildrenInv /\ OfferedInv /\ RunIsInv
  BY DEF IInv, PartsInv

\* An open directory reaches to the last row.
LEMMA OpenLevels ==
    ASSUME IInv, PartsInv, Running, NEW i \in 2..Top
    PROVE  /\ stack[i].row \in 0..(position - 1)
           /\ rows[stack[i].row + 1].depth = i - 2
           /\ EndOf(stack[i].row) = position
           /\ Size(stack[i].row) = total - stack[i].start_total
           /\ OverBudget(stack[i].row) <=> total - stack[i].start_total > Budget
<1>1. /\ TypeOK /\ Len(rows) = position /\ NestInv /\ TotalsInv
  BY RunningFacts
<1>2. /\ position \in Nat /\ Top \in Nat
      /\ stack[i].row \in Nat /\ stack[i].row < position /\ rows[stack[i].row + 1].depth = i - 2
  <2>1. position \in Nat /\ Top \in Nat
    BY OpenFacts
  <2>2. i \in 1..Top
    BY <2>1
  <2>3. stack[i].row \in Nat
    BY <2>2, OpenFacts
  <2>4. stack[i].row < position /\ rows[stack[i].row + 1].depth = i - 2
    BY OpenFacts
  <2>5. QED
    BY <2>1, <2>3, <2>4
<1>3. EndsAt(stack[i].row, position)
  <2>1. ASSUME NEW r \in (stack[i].row + 1)..(position - 1)
        PROVE  rows[r + 1].depth > rows[stack[i].row + 1].depth
    <3>1. rows[r + 1].depth >= i - 1
      BY <1>1 DEF NestInv
    <3>2. rows[r + 1].depth \in Nat
      BY <1>2, <1>1, RowFacts
    <3>3. QED
      BY <1>2, <3>1, <3>2
  <2>2. QED
    BY <1>2, <2>1 DEF EndsAt
<1>4. EndOf(stack[i].row) = position
  BY <1>1, <1>2, <1>3, EndOfIs
<1>5. Size(stack[i].row) = total - stack[i].start_total
  BY <1>1, <1>4 DEF Size, Bytes, TotalsInv
<1>6. rows[stack[i].row + 1].dir
  BY <1>1 DEF NestInv
<1>7. QED
  BY <1>2, <1>4, <1>5, <1>6 DEF OverBudget

\* A row that reaches to the last one, and above the top level, is that of an
\* open directory.
LEMMA ReachingRows ==
    ASSUME IInv, PartsInv, Running, NEW p \in 0..(position - 1), NEW e \in (p + 1)..position,
           \A r \in (p + 1)..(e - 1) : rows[r + 1].depth > rows[p + 1].depth,
           rows[p + 1].depth < Top - 1,
           stack[rows[p + 1].depth + 2].row < e
    PROVE  rows[p + 1].depth + 2 \in 2..Top /\ p = stack[rows[p + 1].depth + 2].row
<1> DEFINE i == rows[p + 1].depth + 2
           s == stack[i].row
<1>1. /\ TypeOK /\ Len(rows) = position /\ NestInv /\ position \in Nat /\ Top \in Nat
  BY RunningFacts, OpenFacts
<1>2. rows[p + 1].depth \in Nat
  BY <1>1, RowFacts
<1>3. i \in 2..Top
  BY <1>1, <1>2
<1>4. s \in 0..(position - 1) /\ rows[s + 1].depth = rows[p + 1].depth /\ s < e
  BY <1>2, <1>3, OpenLevels
<1>5. \A q \in (s + 1)..(position - 1) : rows[q + 1].depth >= i - 1
  BY <1>1, <1>3 DEF NestInv
<1> HIDE DEF s
<1>6. ~(p < s)
  <2>1. SUFFICES ASSUME p < s PROVE FALSE
    OBVIOUS
  <2>2. s \in (p + 1)..(e - 1)
    BY <1>1, <1>4, <2>1
  <2>3. QED
    BY <1>2, <1>4, <2>2
<1>7. ~(s < p)
  <2>1. SUFFICES ASSUME s < p PROVE FALSE
    OBVIOUS
  <2>2. p \in (s + 1)..(position - 1)
    BY <1>1, <1>4, <2>1
  <2>3. QED
    BY <1>2, <1>5, <2>2
<1>8. p = s
  BY <1>4, <1>6, <1>7
<1>9. QED
  BY <1>3, <1>8 DEF s

-----------------------------------------------------------------------------
(* One row more.                                                           *)

\* One more row, an entry of the top level.
Grows(row) ==
    /\ row \in RowType
    /\ row.depth = Top - 1
    /\ position < MaxRows
    /\ rows' = Append(rows, row)
    /\ position' = position + 1

LEMMA GrowsRows ==
    ASSUME TypeOK, Len(rows) = position, NEW row, Grows(row)
    PROVE  /\ rows' \in Seq(RowType) /\ Len(rows') = position + 1 /\ position' \in 0..MaxRows
           /\ rows'[position + 1] = row
           /\ \A p \in 0..(position - 1) : rows'[p + 1] = rows[p + 1]
           /\ \A p, q \in 0..position : Bytes(p, q)' = Bytes(p, q)
           /\ \A p \in 0..position : Totals(rows)'[p] = Totals(rows)[p]
           /\ Totals(rows)'[position + 1] = Totals(rows)[position] + row.bytes
           /\ \A p \in 0..position : \A k : Ancestor(p, k)' = Ancestor(p, k)
<1>1. /\ position \in Nat /\ rows \in Seq(RowType) /\ row \in RowType
      /\ rows' = Append(rows, row) /\ position' = position + 1 /\ position < MaxRows
  BY RowFacts DEF Grows
<1>2. /\ rows' \in Seq(RowType) /\ Len(rows') = position + 1
      /\ rows'[position + 1] = row
      /\ \A p \in 1..position : rows'[p] = rows[p]
  BY <1>1, AppendProperties
<1>3. \A p \in 0..(position - 1) : p + 1 \in 1..position
  BY <1>1
<1>4. \A p \in 0..(position - 1) : rows'[p + 1] = rows[p + 1]
  BY <1>2, <1>3
<1>5. /\ \A p \in 0..position : Totals(rows')[p] = Totals(rows)[p]
      /\ Totals(rows')[position + 1] = Totals(rows)[position] + row.bytes
  BY <1>1, TotalsAppend
<1>6. \A p, q \in 0..position : Bytes(p, q)' = Bytes(p, q)
  BY <1>5 DEF Bytes
<1>7. ASSUME NEW p \in 0..position, NEW k
      PROVE  Ancestor(p, k)' = Ancestor(p, k)
  <2>1. \A r \in 0..(p - 1) : rows'[r + 1] = rows[r + 1]
    BY <1>1, <1>4
  <2>2. \A q \in 0..(p - 1) : \A r \in (q + 1)..(p - 1) : rows'[r + 1] = rows[r + 1]
    BY <1>1, <2>1
  <2>3. \A q \in 0..(p - 1) :
            (rows'[q + 1].depth = k /\ \A r \in (q + 1)..(p - 1) : rows'[r + 1].depth > k)
            <=> (rows[q + 1].depth = k /\ \A r \in (q + 1)..(p - 1) : rows[r + 1].depth > k)
    BY <2>1, <2>2
  <2>4. QED
    BY <2>3 DEF Ancestor
<1>8. position' \in 0..MaxRows
  BY <1>1, CutAssumption
<1>9. QED
  BY <1>1, <1>2, <1>4, <1>5, <1>6, <1>7, <1>8

\* Only the subtrees of the open directories grow with it.
LEMMA GrowsSubtrees ==
    ASSUME IInv, PartsInv, Running, NEW row, Grows(row), NEW p \in 0..(position - 1)
    PROVE  /\ EndOf(p)' \in EndOf(p)..position'
           /\ OverBudget(p) => OverBudget(p)'
           /\ ~(\E i \in 2..Top : p = stack[i].row) =>
                 /\ EndOf(p)' = EndOf(p)
                 /\ OverBudget(p)' <=> OverBudget(p)
<1>1. /\ TypeOK /\ Len(rows) = position /\ position \in Nat /\ Top \in Nat /\ Top >= 1
      /\ \A q \in 0..(position - 1) : rows[q + 1].depth \in Nat
  BY RunningFacts, OpenFacts, RowFacts
<1>2. /\ rows' \in Seq(RowType) /\ Len(rows') = position + 1 /\ position' = position + 1
      /\ rows'[position + 1].depth = Top - 1
      /\ \A q \in 0..(position - 1) : rows'[q + 1] = rows[q + 1]
      /\ \A q, r \in 0..position : Bytes(q, r)' = Bytes(q, r)
      /\ Totals(rows')[position] = Totals(rows)[position]
      /\ Totals(rows')[position + 1] = Totals(rows)[position] + row.bytes
      /\ \A q \in 0..position : Totals(rows')[q] = Totals(rows)[q]
      /\ row.bytes \in Nat
  BY <1>1, GrowsRows DEF Grows, RowType
<1> DEFINE e == EndOf(p)
<1>3. e \in (p + 1)..position /\ EndsAt(p, e)
  BY <1>1, EndOfFacts
<1> HIDE DEF e
<1>4. \A r \in (p + 1)..(e - 1) : rows'[r + 1].depth > rows'[p + 1].depth
  <2>1. \A r \in (p + 1)..(e - 1) : r \in 0..(position - 1)
    BY <1>1, <1>3
  <2>2. QED
    BY <1>2, <1>3, <2>1 DEF EndsAt
<1>5. ASSUME EndOf(p)' = e
      PROVE  OverBudget(p)' <=> OverBudget(p)
  BY <1>1, <1>2, <1>3, <1>5 DEF Size, e, OverBudget
<1>6. CASE e < position
  <2>1. rows'[e + 1] = rows[e + 1] /\ rows[e + 1].depth <= rows[p + 1].depth
    BY <1>1, <1>2, <1>3, <1>6 DEF EndsAt
  <2>2. Ends(rows', p, e)
    BY <1>2, <1>4, <2>1 DEF Ends
  <2>3. EndOf(p)' = e
    BY <1>1, <1>2, <1>3, <2>2, EndOfWillBe
  <2>4. QED
    BY <1>1, <1>2, <1>3, <1>5, <2>3 DEF e
<1>7. CASE e = position /\ Top - 1 <= rows[p + 1].depth
  BY <1>1, <1>2, <1>4, <1>7, <1>3, EndOfWillBe, <1>5 DEF Ends, e
<1>8. CASE e = position /\ rows[p + 1].depth < Top - 1
  <2> DEFINE i == rows[p + 1].depth + 2
  <2>1. i \in 2..Top
    BY <1>1, <1>8
  <2>2. stack[i].row < e
    BY <1>8, <2>1, OpenFacts
  <2>3. \A r \in (p + 1)..(e - 1) : rows[r + 1].depth > rows[p + 1].depth
    BY <1>3 DEF EndsAt
  <2>4. p = stack[i].row
    BY <1>3, <1>8, <2>2, <2>3, ReachingRows
  <2>5. \A r \in (p + 1)..position : rows'[r + 1].depth > rows'[p + 1].depth
    <3>1. \A r \in (p + 1)..position : r \in (p + 1)..(e - 1) \/ r = position
      BY <1>1, <1>8
    <3>2. rows'[p + 1].depth < rows'[position + 1].depth
      BY <1>1, <1>2, <1>8
    <3>3. QED
      BY <1>1, <1>2, <1>4, <3>1, <3>2
  <2>6. Ends(rows', p, position')
    BY <1>1, <1>2, <2>5 DEF Ends
  <2>7. EndOf(p)' = position'
    BY <1>1, <1>2, <2>6, EndOfWillBe
  <2>8. OverBudget(p) => OverBudget(p)'
    <3> DEFINE a == Totals(rows)[p]
               b == Totals(rows)[position]
    <3>1. Size(p) = b - a
      BY <1>8 DEF Size, Bytes, e
    <3>2. Size(p)' = (b + row.bytes) - a
      BY <1>1, <1>2, <2>7 DEF Size, Bytes
    <3>3. a \in Nat /\ b \in Nat
      BY <1>1, BytesFacts
    <3> HIDE DEF a, b
    <3>4. Size(p) > Budget => Size(p)' > Budget
      BY <1>2, <3>1, <3>2, <3>3, CutAssumption
    <3>5. QED
      BY <1>2, <3>4 DEF OverBudget
  <2>9. QED
    BY SMTT(60), <1>1, <1>2, <1>8, <2>1, <2>4, <2>7, <2>8 DEF e
<1>9. QED
  BY <1>1, <1>3, <1>6, <1>7, <1>8

-----------------------------------------------------------------------------
(* The open run, and what is right of an accepted part.                    *)

\* The open run, and the next child to be offered to it.
LEMMA RunEndFacts ==
    ASSUME IInv, PartsInv, Running
    PROVE  /\ RunEnd \in Nat /\ RunLevel.run_first \in Nat /\ RunLevel.run_bytes \in Nat
           /\ Contents(Inner - 1) \in Nat /\ FinishedEnd(Inner - 1) \in Nat
           /\ base <= RunLevel.run_first
           /\ Contents(Inner - 1) <= RunLevel.run_first
           /\ RunLevel.run_first <= RunEnd
           /\ RunEnd <= FinishedEnd(Inner - 1)
           /\ FinishedEnd(Inner - 1) <= position
           /\ RunEnd < position => rows[RunEnd + 1].depth = Inner - 2
           /\ RunEnd = position => Inner = Top + 1
           /\ Inner <= Top => FinishedEnd(Inner - 1) = stack[Inner].row
           /\ Inner = Top + 1 => FinishedEnd(Inner - 1) = position
<1>1. /\ TypeOK /\ OffersInv /\ RunInv /\ RunIsInv
      /\ Top \in Nat /\ Inner \in 2..(Top + 1) /\ position \in Nat
      /\ \A i \in 1..Top : /\ stack[i].row \in Nat
                           /\ stack[i].run_first \in Nat
                           /\ stack[i].run_bytes \in Nat
      /\ \A i \in 2..Top : stack[i].row < position /\ rows[stack[i].row + 1].depth = i - 2
  BY RunningFacts, OpenFacts, LevelTypes
<1>2. Inner - 1 \in 1..Top /\ (Inner <= Top => Inner \in 2..Top /\ Inner - 1 < Top)
  BY <1>1
<1>3. /\ Inner <= Top => FinishedEnd(Inner - 1) = stack[Inner].row
      /\ Inner = Top + 1 => FinishedEnd(Inner - 1) = position
  BY <1>1, <1>2 DEF FinishedEnd
<1>4. /\ FinishedEnd(Inner - 1) \in Nat /\ FinishedEnd(Inner - 1) <= position
      /\ FinishedEnd(Inner - 1) < position => rows[FinishedEnd(Inner - 1) + 1].depth = Inner - 2
      /\ FinishedEnd(Inner - 1) = position => Inner = Top + 1
  BY <1>1, <1>2, <1>3
<1>5. Contents(Inner - 1) \in Nat
  BY <1>1, <1>2 DEF Contents
<1>6. /\ base <= RunLevel.run_first /\ Contents(Inner - 1) <= RunLevel.run_first
      /\ RunLevel.run_first <= RunEnd
      /\ RunLevel.run_first \in Nat /\ RunLevel.run_bytes \in Nat
  BY <1>1, <1>2 DEF RunInv, RunIsInv, RunLevel
<1>7. CASE offers = <<>>
  BY <1>7, <1>3, <1>4, <1>5, <1>6 DEF RunEnd
<1>8. CASE offers # <<>>
  <2>1. offers \in Seq(ChildType) /\ Len(offers) \in Nat /\ Len(offers) # 0
    BY <1>1, <1>8, EmptySeq, LenProperties DEF TypeOK
  <2>2. 1 \in 1..Len(offers)
    BY <2>1
  <2>3. offers[1] \in ChildType
    BY <2>1, <2>2, ElementOfSeq
  <2>4. RunEnd = offers[1].position /\ RunEnd \in Nat
    BY <1>8, <2>3 DEF RunEnd, ChildType
  <2>5. RunEnd < FinishedEnd(Inner - 1) /\ rows[RunEnd + 1].depth = Inner - 2
    BY <1>1, <2>2, <2>4 DEF OffersInv
  <2>6. QED
    BY <1>1, <1>3, <1>4, <1>5, <1>6, <2>4, <2>5
<1>9. QED
  BY <1>7, <1>8

\* Every directory that is open, and whose row is before the end of the finished
\* children of the innermost split level, is being cut.
LEMMA OpenIsOver ==
    ASSUME IInv, PartsInv, Running, NEW i \in 2..Top, stack[i].row < FinishedEnd(Inner - 1)
    PROVE  i < Inner /\ OverBudget(stack[i].row)
<1>1. SplitInv /\ (Inner <= Top => FinishedEnd(Inner - 1) = stack[Inner].row)
  BY RunEndFacts, RunningFacts
<1>2. /\ Top \in Nat /\ Inner \in 2..(Top + 1) /\ i \in 1..Top
      /\ \A j \in 1..Top : stack[j].row \in Nat
      /\ \A j, k \in 2..Top : j < k => stack[j].row < stack[k].row
  <2>1. Top \in Nat /\ Inner \in 2..(Top + 1)
    BY OpenFacts
  <2>2. \A j \in 1..Top : stack[j].row \in Nat
    BY OpenFacts
  <2>3. \A j, k \in 2..Top : j < k => stack[j].row < stack[k].row
    BY OpenFacts
  <2>4. QED
    BY <2>1, <2>2, <2>3
<1>3. i < Inner
  <2>1. SUFFICES ASSUME Inner <= i PROVE FALSE
    BY <1>2
  <2>2. Inner \in 2..Top /\ stack[Inner].row \in Nat
    BY <1>2, <2>1
  <2>3. stack[Inner].row <= stack[i].row
    BY <1>2, <2>1, <2>2
  <2>4. QED
    BY <1>1, <1>2, <2>2, <2>3
<1>4. total - stack[i].start_total > Budget
  BY <1>1, <1>2, <1>3 DEF SplitInv
<1>5. QED
  BY <1>3, <1>4, OpenLevels

\* What PartsInv says of one accepted part, wherever the walk is.
Right(part) ==
    /\ part.first \in Nat /\ part.end \in Nat
    /\ part.first < part.end /\ part.end <= position
    /\ part.end < position => rows[part.end + 1].depth <= rows[part.end].depth
    /\ \A p \in 0..(position - 1) :
          (rows[p + 1].dir /\ p < part.end /\ part.end < EndOf(p)) => OverBudget(p)
    /\ \E m \in part.first..part.end :
          AllOver(part.first, m) /\ NoneOver(m, part.end) /\ Fits(m, part.end)
    /\ part.stem = [d \in 1..rows[part.first + 1].depth |-> <<Ancestor(part.first, d - 1)>>]

LEMMA RightParts ==
    ASSUME IInv, PartsInv
    PROVE  \A k \in DOMAIN parts : Right(parts[k])
<1>1. \A k \in DOMAIN parts : parts[k] \in PartType /\ k \in 1..Len(parts)
  BY ElementOfSeq, LenProperties DEF IInv, TypeOK
<1>2. \A k \in DOMAIN parts : parts[k].first \in Nat /\ parts[k].end \in Nat
  BY <1>1 DEF PartType
<1>3. \A k \in DOMAIN parts : parts[k].first < parts[k].end
  BY <1>1 DEF IInv, TilesInv, PartsTile, Tiles
<1>4. EndsInv /\ FittingDirectoriesAreWhole /\ PartsWithinBudget /\ StemsNameAncestors
  BY DEF PartsInv
<1>5. QED
  BY <1>2, <1>3, <1>4 DEF Right, EndsInv, FittingDirectoriesAreWhole, PartsWithinBudget, StemsNameAncestors

\* One row more leaves an accepted part right.
LEMMA GrowsRight ==
    ASSUME IInv, PartsInv, Running, NEW row, Grows(row),
           NEW part, Right(part), part.end <= FinishedEnd(Inner - 1),
           part.end = position => rows[part.end].depth >= Top - 1
    PROVE  Right(part)' /\ part.end < position'
<1>1. /\ TypeOK /\ Len(rows) = position /\ position \in Nat /\ Top \in Nat
      /\ FinishedEnd(Inner - 1) \in Nat
      /\ part.first \in Nat /\ part.end \in Nat /\ part.first < part.end /\ part.end <= position
  BY RunningFacts, OpenFacts, RunEndFacts DEF Right
<1>2. /\ position' = position + 1 /\ row.depth = Top - 1 /\ rows'[position + 1] = row
      /\ \A p \in 0..(position - 1) : rows'[p + 1] = rows[p + 1]
      /\ \A p, q \in 0..position : Bytes(p, q)' = Bytes(p, q)
      /\ \A p \in 0..position : \A k : Ancestor(p, k)' = Ancestor(p, k)
  BY <1>1, GrowsRows DEF Grows
<1>3. ASSUME NEW p \in 0..(position - 1)
      PROVE  /\ OverBudget(p) => OverBudget(p)'
             /\ p < part.end => (OverBudget(p)' <=> OverBudget(p))
             /\ p < part.end /\ ~OverBudget(p) => EndOf(p)' = EndOf(p)
  <2>1. CASE \E i \in 2..Top : p = stack[i].row
    <3>1. PICK i \in 2..Top : p = stack[i].row
      BY <2>1
    <3>2. p < part.end => OverBudget(p)
      BY <1>1, <3>1, OpenIsOver
    <3>3. QED
      BY <3>2, GrowsSubtrees
  <2>2. CASE ~\E i \in 2..Top : p = stack[i].row
    BY <2>2, GrowsSubtrees
  <2>3. QED
    BY <2>1, <2>2
<1>4. part.end < position'
  BY <1>1, <1>2
<1>5. rows'[part.end + 1].depth <= rows'[part.end].depth
  <2>1. rows'[part.end] = rows[part.end]
    <3>1. part.end - 1 \in 0..(position - 1) /\ (part.end - 1) + 1 = part.end
      BY <1>1
    <3>2. QED
      BY <1>2, <3>1
  <2>2. CASE part.end < position
    BY <1>1, <1>2, <2>1, <2>2 DEF Right
  <2>3. CASE part.end = position
    <3>1. rows[part.end].depth \in Nat
      <4>1. part.end - 1 \in 0..(position - 1) /\ (part.end - 1) + 1 = part.end
        BY <1>1
      <4>2. QED
        BY <1>1, <4>1, RowFacts
    <3>2. QED
      BY <1>1, <1>2, <2>1, <2>3, <3>1
  <2>4. QED
    BY <1>1, <2>2, <2>3
<1>6. ASSUME NEW p \in 0..(position' - 1), rows'[p + 1].dir, p < part.end, part.end < EndOf(p)'
      PROVE  OverBudget(p)'
  <2>1. p \in 0..(position - 1) /\ rows[p + 1].dir
    BY <1>1, <1>2, <1>6
  <2>2. CASE OverBudget(p)
    BY <1>3, <2>1, <2>2
  <2>3. CASE ~OverBudget(p)
    BY <1>3, <1>6, <2>1, <2>3 DEF Right
  <2>4. QED
    BY <2>2, <2>3
<1>7. \E m \in part.first..part.end :
          AllOver(part.first, m)' /\ NoneOver(m, part.end)' /\ Fits(m, part.end)'
  <2>1. PICK m \in part.first..part.end :
            AllOver(part.first, m) /\ NoneOver(m, part.end) /\ Fits(m, part.end)
    BY DEF Right
  <2>2. m \in Nat /\ m \in 0..position /\ part.end \in 0..position
    BY <1>1
  <2>3. AllOver(part.first, m)'
    <3>1. \A r \in part.first..(m - 1) : r \in 0..(position - 1)
      BY <1>1, <2>1, <2>2
    <3>2. QED
      BY <1>3, <2>1, <3>1 DEF AllOver
  <2>4. NoneOver(m, part.end)'
    BY <1>1, <2>1, <2>2, <1>3 DEF NoneOver
  <2>5. Fits(m, part.end)'
    BY <1>2, <2>1, <2>2 DEF Fits
  <2>6. QED
    BY <2>3, <2>4, <2>5
<1>8. part.stem = [d \in 1..rows'[part.first + 1].depth |-> <<Ancestor(part.first, d - 1)'>>]
  BY <1>1, <1>2 DEF Right
<1>9. \A p \in 0..(position' - 1) :
          (rows'[p + 1].dir /\ p < part.end /\ part.end < EndOf(p)') => OverBudget(p)'
  BY <1>6
<1>10. part.end <= position'
  BY <1>1, <1>2
<1>11. Right(part)'
  BY <1>1, <1>5, <1>7, <1>8, <1>9, <1>10, Zenon DEF Right
<1>12. QED
  BY <1>4, <1>11

-----------------------------------------------------------------------------
(* What waits, when it is sealed.                                          *)

\* The open directories, from the root down, are in walk order.
LEMMA LevelOrder ==
    ASSUME IInv, Running, NEW i \in 2..Top, NEW j \in 2..Top, i <= j
    PROVE  stack[i].row \in Nat /\ stack[j].row \in Nat /\ stack[i].row <= stack[j].row
<1>1. Top \in Nat /\ i \in 1..Top /\ j \in 1..Top
  BY OpenFacts
<1>2. \A k \in 1..Top : stack[k].row \in Nat
  BY OpenFacts
<1>3. i < j => stack[i].row < stack[j].row
  BY OpenFacts
<1>4. CASE i = j
  BY <1>1, <1>2, <1>4
<1>5. CASE i < j
  BY <1>1, <1>2, <1>3, <1>5
<1>6. QED
  BY <1>1, <1>4, <1>5

\* A sequence of one.
LEMMA OneElement ==
    ASSUME NEW S, NEW s \in Seq(S), Len(s) = 1
    PROVE  s = <<s[1]>>
<1>1. s \in [1..1 -> S]
  BY LenProperties
<1>2. <<s[1]>> = [k \in 1..1 |-> s[1]]
  OBVIOUS
<1>3. s = [k \in 1..1 |-> s[k]]
  BY <1>1
<1>4. \A k \in 1..1 : s[k] = s[1]
  OBVIOUS
<1>5. QED
  BY <1>2, <1>3, <1>4

\* The one row that Ancestor can choose.
LEMMA AncestorIs ==
    ASSUME TypeOK, Len(rows) = position, NEW p \in 0..position, NEW k \in Nat, NEW q \in 0..(p - 1),
           rows[q + 1].depth = k, \A r \in (q + 1)..(p - 1) : rows[r + 1].depth > k
    PROVE  Ancestor(p, k) = q
<1> DEFINE A(a) == rows[a + 1].depth = k /\ \A r \in (a + 1)..(p - 1) : rows[r + 1].depth > k
           c == CHOOSE a \in 0..(p - 1) : A(a)
<1>1. position \in Nat
  BY RowFacts
<1>2. A(q)
  OBVIOUS
<1>3. c \in 0..(p - 1) /\ A(c)
  BY <1>2
<1> HIDE DEF c
<1>4. ~(c < q)
  <2>1. SUFFICES ASSUME c < q PROVE FALSE
    OBVIOUS
  <2>2. q \in (c + 1)..(p - 1)
    BY <1>1, <1>3, <2>1
  <2>3. rows[q + 1].depth > k
    BY <1>3, <2>2
  <2>4. QED
    BY <2>3
<1>5. ~(q < c)
  <2>1. SUFFICES ASSUME q < c PROVE FALSE
    OBVIOUS
  <2>2. c \in (q + 1)..(p - 1)
    BY <1>1, <1>3, <2>1
  <2>3. rows[c + 1].depth > k /\ rows[c + 1].depth = k
    BY <1>3, <2>2
  <2>4. QED
    BY <2>3
<1>6. c = q
  BY <1>1, <1>3, <1>4, <1>5
<1>7. QED
  BY <1>6 DEF Ancestor, c

\* The directories above the first waiting row are the open ones, from the root
\* down.
LEMMA WaitingAncestors ==
    ASSUME IInv, PartsInv, Running, base < position, NEW d, d = rows[base + 1].depth
    PROVE  /\ d \in Nat /\ d <= Inner - 2 /\ d < Top
           /\ \A k \in 1..d : Ancestor(base, k - 1) = stack[k + 1].row
<1>1. /\ TypeOK /\ Len(rows) = position /\ position \in Nat /\ base \in Nat
      /\ Top \in Nat /\ Inner \in 2..(Top + 1) /\ RunInv
  BY RunningFacts, OpenFacts
<1>2. d \in Nat /\ d <= Inner - 2 /\ d < Top
  BY WaitingDepth
<1>3. ASSUME NEW k \in 1..d
      PROVE  Ancestor(base, k - 1) = stack[k + 1].row
  <2> DEFINE s == stack[k + 1].row
  <2>1. k + 1 \in 2..Top /\ k + 1 <= Inner - 1 /\ k - 1 \in Nat
    BY <1>1, <1>2
  <2>2. s \in 0..(position - 1) /\ rows[s + 1].depth = k - 1
    BY <2>1, OpenLevels
  <2>3. s < base
    <3>1. CASE base = stack[Inner - 1].run_first
      <4>1. Inner - 1 # 1 /\ Contents(Inner - 1) <= base /\ Inner - 1 \in 2..Top
        BY <1>1, <1>2, <3>1 DEF RunInv
      <4>2. stack[Inner - 1].row \in Nat /\ stack[Inner - 1].row < base
        BY <1>1, <4>1, OpenLevels DEF Contents
      <4>3. s <= stack[Inner - 1].row
        BY <2>1, <4>1, LevelOrder
      <4>4. QED
        BY <1>1, <2>2, <4>2, <4>3
    <3>2. CASE base < stack[Inner - 1].run_first
      <4>1. PICK j \in 2..(Inner - 1) : base = stack[j].row
        BY <1>1, <3>2 DEF RunInv
      <4>2. j \in 2..Top
        BY <1>1
      <4>3. d = j - 2
        BY <4>1, <4>2, OpenLevels
      <4>4. k + 1 < j
        BY <1>1, <4>3
      <4>5. QED
        BY <2>1, <4>1, <4>2, <4>4, OpenFacts
    <3>3. base <= stack[Inner - 1].run_first /\ stack[Inner - 1].run_first \in Nat
      BY RunEndFacts DEF RunLevel
    <3>4. QED
      BY <1>1, <3>1, <3>2, <3>3
  <2>4. ASSUME NEW r \in (s + 1)..(base - 1)
        PROVE  rows[r + 1].depth > k - 1
    <3>1. r \in (s + 1)..(position - 1) /\ r \in 0..(position - 1)
      BY <1>1, <2>2
    <3>2. rows[r + 1].depth >= (k + 1) - 1
      BY <2>1, <3>1, RunningFacts DEF NestInv
    <3>3. rows[r + 1].depth \in Nat
      BY <1>1, <3>1, RowFacts
    <3>4. QED
      BY <2>1, <3>2, <3>3
  <2>5. s \in 0..(base - 1) /\ base \in 0..position
    BY <1>1, <2>2, <2>3
  <2> HIDE DEF s
  <2>6. Ancestor(base, k - 1) = s
    BY <1>1, <2>1, <2>2, <2>4, <2>5, AncestorIs
  <2>7. QED
    BY <2>6 DEF s
<1>4. QED
  BY <1>2, <1>3

\* The stem of a part names them.
LEMMA StemIs ==
    ASSUME IInv, PartsInv, Running, base < position, NEW open,
           \A k \in 1..(rows[base + 1].depth + 1) : open[k].path_len = k - 1
    PROVE  Stem(open, rows[base + 1].depth) =
               [k \in 1..rows[base + 1].depth |-> <<Ancestor(base, k - 1)>>]
<1> DEFINE d == rows[base + 1].depth
<1>1. /\ d \in Nat /\ d < Top
      /\ \A k \in 1..d : Ancestor(base, k - 1) = stack[k + 1].row
  BY WaitingAncestors
<1>2. /\ Top \in Nat /\ path \in Seq(Nat) /\ Len(path) = Top - 1
      /\ path = [k \in 1..(Top - 1) |-> stack[k + 1].row]
  BY OpenFacts DEF IInv, PathInv, OpenRows
<1> HIDE DEF d
<1>3. ASSUME NEW k \in 1..d
      PROVE  SubSeq(path, open[k].path_len + 1, open[k + 1].path_len) = <<Ancestor(base, k - 1)>>
  <2>1. k \in 1..(d + 1) /\ k + 1 \in 1..(d + 1) /\ k \in 1..(Top - 1)
    BY <1>1, <1>2
  <2>2. open[k].path_len + 1 = k /\ open[k + 1].path_len = k
    BY <2>1 DEF d
  <2>3. path[k] = Ancestor(base, k - 1)
    BY <1>1, <1>2, <2>1
  <2>4. SubSeq(path, k, k) = <<path[k]>>
    <3>1. \A i \in k..k : path[i] \in Nat
      BY <1>2, <2>1, ElementOfSeq
    <3>2. /\ SubSeq(path, k, k) \in Seq(Nat)
          /\ Len(SubSeq(path, k, k)) = 1
          /\ SubSeq(path, k, k)[1] = path[k]
      BY <2>1, <3>1, SubSeqProperties
    <3>3. QED
      BY <3>2, OneElement
  <2>5. QED
    BY <2>2, <2>3, <2>4
<1>4. QED
  BY <1>3 DEF Stem, d

\* The depth of the row before the end of the open run.
LEMMA BeforeRunEnd ==
    ASSUME IInv, PartsInv, Running, base < RunEnd
    PROVE  /\ RunLevel.run_first < RunEnd => rows[RunEnd].depth >= Inner - 2
           /\ rows[RunEnd].depth >= Inner - 3
           /\ rows[RunEnd].depth \in Nat
<1> DEFINE i == Inner - 1
<1>1. /\ RunEnd \in Nat /\ RunLevel.run_first \in Nat /\ base \in Nat
      /\ Contents(i) <= RunLevel.run_first /\ RunLevel.run_first <= RunEnd
      /\ RunEnd <= position /\ position \in Nat /\ Top \in Nat /\ Inner \in 2..(Top + 1)
      /\ TypeOK /\ Len(rows) = position
  BY RunEndFacts, OpenFacts, RunningFacts
<1>2. RunEnd - 1 \in 0..(position - 1) /\ (RunEnd - 1) + 1 = RunEnd
  BY <1>1
<1>3. rows[RunEnd].depth \in Nat
  BY <1>1, <1>2, RowFacts
<1>4. CASE Inner = 2
  BY <1>3, <1>4
<1>5. CASE Inner # 2
  <2>1. /\ i \in 2..Top /\ Contents(i) = stack[i].row + 1
        /\ stack[i].row \in 0..(position - 1) /\ rows[stack[i].row + 1].depth = i - 2
    <3>1. i \in 2..Top /\ i # 1
      BY <1>1, <1>5
    <3>2. Contents(i) = stack[i].row + 1
      BY <3>1 DEF Contents
    <3>3. QED
      BY <3>1, <3>2, OpenLevels
  <2>2. \A q \in (stack[i].row + 1)..(position - 1) : rows[q + 1].depth >= i - 1
    BY <2>1, RunningFacts DEF NestInv
  <2> DEFINE s == stack[i].row
             run == RunLevel.run_first
  <2>3. /\ s \in Nat /\ s + 1 <= run /\ run <= RunEnd /\ run \in Nat /\ RunEnd \in Nat
        /\ rows[s + 1].depth = Inner - 3
        /\ \A q \in (s + 1)..(position - 1) : rows[q + 1].depth >= Inner - 2
    BY <1>1, <2>1, <2>2
  <2> HIDE DEF s, run, i
  <2>4. CASE s + 1 = RunEnd
    BY <2>3, <2>4, <1>1, <1>3 DEF run
  <2>5. CASE s + 1 # RunEnd
    <3>1. RunEnd - 1 \in (s + 1)..(position - 1)
      BY <1>1, <2>3, <2>5
    <3>2. rows[RunEnd].depth >= Inner - 2
      BY <1>2, <2>3, <3>1
    <3>3. QED
      BY <1>1, <1>3, <3>2
  <2>6. QED
    BY <2>4, <2>5
<1>6. QED
  BY <1>4, <1>5

\* The part that a seal makes, up to the end of the open run, is right.
LEMMA SealedRight ==
    ASSUME IInv, PartsInv, Running, base < RunEnd,
           RunLevel.run_first < RunEnd \/ RunEnd = position,
           NEW part, part.first = base, part.end = RunEnd,
           part.stem = [k \in 1..rows[base + 1].depth |-> <<Ancestor(base, k - 1)>>]
    PROVE  Right(part)
<1> DEFINE run == RunLevel.run_first
<1>1. /\ RunEnd \in Nat /\ run \in Nat /\ base \in Nat /\ base <= run /\ run <= RunEnd
      /\ RunEnd <= position /\ position \in Nat /\ Top \in Nat /\ Inner \in 2..(Top + 1)
      /\ TypeOK /\ Len(rows) = position
      /\ RunEnd <= FinishedEnd(Inner - 1) /\ FinishedEnd(Inner - 1) \in Nat
      /\ RunEnd < position => rows[RunEnd + 1].depth = Inner - 2
      /\ RunIsInv
  BY RunEndFacts, OpenFacts, RunningFacts
<1>2. RunEnd < position => rows[RunEnd + 1].depth <= rows[RunEnd].depth
  BY BeforeRunEnd, <1>1
<1>3. ASSUME NEW p \in 0..(position - 1), p < RunEnd, RunEnd < EndOf(p)
      PROVE  OverBudget(p)
  <2>1. EndOf(p) \in (p + 1)..position /\ EndsAt(p, EndOf(p))
    BY <1>1, EndOfFacts
  <2>2. RunEnd < position /\ rows[RunEnd + 1].depth = Inner - 2
    BY <1>1, <1>3, <2>1
  <2>3. /\ \A r \in (p + 1)..(RunEnd - 1) : rows[r + 1].depth > rows[p + 1].depth
        /\ rows[RunEnd + 1].depth > rows[p + 1].depth
    <3>1. \A r \in (p + 1)..RunEnd : r \in (p + 1)..(EndOf(p) - 1)
      BY <1>1, <1>3, <2>1
    <3>2. \A r \in (p + 1)..RunEnd : rows[r + 1].depth > rows[p + 1].depth
      BY <2>1, <3>1 DEF EndsAt
    <3>3. RunEnd \in (p + 1)..RunEnd /\ \A r \in (p + 1)..(RunEnd - 1) : r \in (p + 1)..RunEnd
      BY <1>1, <1>3
    <3>4. QED
      BY <3>2, <3>3
  <2> DEFINE i == rows[p + 1].depth + 2
  <2>4. rows[p + 1].depth \in Nat /\ rows[p + 1].depth < Inner - 2 /\ rows[p + 1].depth < Top - 1
    BY <1>1, RowFacts, <2>2, <2>3
  <2>5. i \in 2..Top /\ i <= Inner - 1 /\ Inner - 1 \in 2..Top
    <3> DEFINE dp == rows[p + 1].depth
    <3>1. dp \in Nat /\ dp < Inner - 2 /\ dp < Top - 1
      BY <2>4
    <3> HIDE DEF dp
    <3>2. dp + 2 \in 2..Top /\ dp + 2 <= Inner - 1 /\ Inner - 1 \in 2..Top
      BY <1>1, <3>1
    <3>3. QED
      BY <3>2 DEF dp
  <2>6. stack[i].row < RunEnd
    <3> DEFINE s == stack[i].row
               t == stack[Inner - 1].row
    <3>1. s \in Nat /\ t \in Nat /\ s <= t
      BY <2>5, LevelOrder
    <3>2. t + 1 <= run
      BY <2>5, RunEndFacts DEF Contents
    <3> HIDE DEF s, t, run
    <3>3. s < RunEnd
      BY <1>1, <3>1, <3>2
    <3>4. QED
      BY <3>3 DEF s
  <2>7. RunEnd \in (p + 1)..position
    BY <1>1, <1>3
  <2>8. p = stack[i].row
    BY <2>3, <2>4, <2>6, <2>7, ReachingRows
  <2>9. stack[i].row < FinishedEnd(Inner - 1)
    BY <1>1, <2>6, <2>8
  <2>10. OverBudget(stack[i].row)
    BY <2>5, <2>9, OpenIsOver
  <2>11. QED
    BY <2>8, <2>10
<1>4. AllOver(base, run) /\ Fits(run, RunEnd)
  BY <1>1 DEF RunIsInv
<1>5. NoneOver(run, RunEnd)
  <2>1. ASSUME NEW r \in run..(RunEnd - 1), OverBudget(r)
        PROVE  FALSE
    <3>1. r \in run..(position - 1) /\ r < FinishedEnd(Inner - 1)
      BY <1>1
    <3>2. PICK i \in Inner..Top : r = stack[i].row
      BY <1>1, <2>1, <3>1 DEF RunIsInv
    <3>3. i \in 2..Top /\ ~(i < Inner)
      BY <1>1
    <3>4. QED
      BY <3>1, <3>2, <3>3, OpenIsOver
  <2>2. QED
    BY <2>1 DEF NoneOver
<1>6. run \in base..RunEnd
  BY <1>1
<1> HIDE DEF run
<1>7. \E m \in part.first..part.end :
          AllOver(part.first, m) /\ NoneOver(m, part.end) /\ Fits(m, part.end)
  BY <1>4, <1>5, <1>6
<1>8. \A p \in 0..(position - 1) :
          (rows[p + 1].dir /\ p < part.end /\ part.end < EndOf(p)) => OverBudget(p)
  BY <1>3
<1>9. QED
  BY <1>1, <1>2, <1>7, <1>8 DEF Right

-----------------------------------------------------------------------------
(* The accepted parts after a step.                                        *)

\* What the invariant says of the accepted parts.
AcceptedInv == EndsInv /\ FittingDirectoriesAreWhole /\ PartsWithinBudget /\ StemsNameAncestors

\* A part that is right now, where d is the least depth at which the next row
\* will be.
Sound(part, d) ==
    /\ Right(part)
    /\ part.end <= FinishedEnd(Inner - 1)
    /\ part.end = position => rows[part.end].depth >= d

\* What the parts are after a step, from what each one is.
LEMMA AcceptedParts ==
    ASSUME \A k \in DOMAIN parts' :
              /\ Right(parts[k])'
              /\ Running' => /\ parts'[k].end <= base'
                             /\ parts'[k].end = position' => rows'[parts'[k].end].depth >= Top' - 1
    PROVE  AcceptedInv'
<1>1. \A k \in DOMAIN parts' :
          /\ parts'[k].end <= position'
          /\ parts'[k].end < position' => rows'[parts'[k].end + 1].depth <= rows'[parts'[k].end].depth
          /\ \A p \in 0..(position' - 1) :
                (rows'[p + 1].dir /\ p < parts'[k].end /\ parts'[k].end < EndOf(p)') => OverBudget(p)'
          /\ \E m \in parts'[k].first..parts'[k].end :
                AllOver(parts[k].first, m)' /\ NoneOver(m, parts[k].end)' /\ Fits(m, parts[k].end)'
          /\ parts'[k].stem = [d \in 1..rows'[parts'[k].first + 1].depth
                                  |-> <<Ancestor(parts[k].first, d - 1)'>>]
  BY DEF Right
<1>2. EndsInv'
  BY <1>1 DEF EndsInv
<1>3. FittingDirectoriesAreWhole'
  BY <1>1 DEF FittingDirectoriesAreWhole
<1>4. PartsWithinBudget'
  BY <1>1 DEF PartsWithinBudget
<1>5. StemsNameAncestors'
  BY <1>1 DEF StemsNameAncestors
<1>6. QED
  BY <1>2, <1>3, <1>4, <1>5 DEF AcceptedInv

\* A step that adds no row.
LEMMA AcceptedSame ==
    ASSUME UNCHANGED <<rows, position>>,
           \A k \in DOMAIN parts' :
              /\ Right(parts'[k])
              /\ Running' => /\ parts'[k].end <= base'
                             /\ parts'[k].end = position => rows[parts'[k].end].depth >= Top' - 1
    PROVE  AcceptedInv'
<1>1. ASSUME NEW k \in DOMAIN parts'
      PROVE  Right(parts[k])'
  <2>1. PICK part : part = parts'[k]
    OBVIOUS
  <2>2. Right(part)
    BY <2>1
  <2>3. /\ \A p, q : Fits(p, q)' <=> Fits(p, q)
        /\ \A p : EndOf(p)' = EndOf(p) /\ (OverBudget(p)' <=> OverBudget(p))
        /\ \A p, k2 : Ancestor(p, k2)' = Ancestor(p, k2)
    BY SameTree
  <2>4. \A p, q : (AllOver(p, q)' <=> AllOver(p, q)) /\ (NoneOver(p, q)' <=> NoneOver(p, q))
    BY <2>3 DEF AllOver, NoneOver
  <2>5. Right(part)'
    BY <2>2, <2>3, <2>4 DEF Right
  <2>6. QED
    BY <2>1, <2>5 DEF Right
<1>2. QED
  BY <1>1, AcceptedParts

\* The accepted parts before a step.
LEMMA AcceptedSound ==
    ASSUME IInv, PartsInv, Running
    PROVE  \A k \in DOMAIN parts : Sound(parts[k], Top - 1) /\ parts[k].end <= base
<1>1. \A k \in DOMAIN parts : Right(parts[k])
  BY RightParts
<1>2. \A k \in DOMAIN parts :
          /\ parts[k].end <= base
          /\ parts[k].end = position => rows[parts[k].end].depth >= Top - 1
  BY DEF PartsInv, EndsInv
<1>3. base \in Nat /\ base <= FinishedEnd(Inner - 1) /\ FinishedEnd(Inner - 1) \in Nat
  <2>1. base <= RunLevel.run_first /\ RunLevel.run_first <= RunEnd /\ RunEnd <= FinishedEnd(Inner - 1)
    BY RunEndFacts
  <2>2. /\ base \in Nat /\ RunLevel.run_first \in Nat /\ RunEnd \in Nat
        /\ FinishedEnd(Inner - 1) \in Nat
    BY RunEndFacts, OpenFacts
  <2>3. QED
    BY <2>1, <2>2
<1>4. \A k \in DOMAIN parts : parts[k].end \in Nat
  BY <1>1 DEF Right
<1>5. QED
  BY <1>1, <1>2, <1>3, <1>4 DEF Sound

\* The parts a seal leaves, when it seals up to the end of the open run.
LEMMA SealSound ==
    ASSUME IInv, PartsInv, Running, NEW open, NEW next,
           Seal(open, RunEnd, next),
           base < position => \A k \in 1..(rows[base + 1].depth + 1) : open[k].path_len = k - 1,
           RunLevel.run_first < RunEnd \/ RunEnd = position
    PROVE  /\ base' = RunEnd
           /\ \A k \in DOMAIN parts' :
                 /\ Sound(parts'[k], IF RunLevel.run_first < RunEnd THEN Top - 1 ELSE Top - 2)
                 /\ parts'[k].end <= base'
<1> DEFINE d == IF RunLevel.run_first < RunEnd THEN Top - 1 ELSE Top - 2
<1>1. base' = RunEnd
  BY DEF Seal
<1>2. /\ base \in Nat /\ RunEnd \in Nat /\ RunLevel.run_first \in Nat /\ Top \in Nat
      /\ position \in Nat /\ Inner \in 2..(Top + 1)
      /\ base <= RunEnd /\ RunEnd <= position /\ RunEnd <= FinishedEnd(Inner - 1)
      /\ RunEnd = position => Inner = Top + 1
  <2>1. /\ base \in Nat /\ RunEnd \in Nat /\ RunLevel.run_first \in Nat /\ Top \in Nat
        /\ position \in Nat /\ Inner \in 2..(Top + 1) /\ FinishedEnd(Inner - 1) \in Nat
    BY RunEndFacts, OpenFacts
  <2>2. /\ base <= RunLevel.run_first /\ RunLevel.run_first <= RunEnd
        /\ RunEnd <= FinishedEnd(Inner - 1) /\ FinishedEnd(Inner - 1) <= position
        /\ RunEnd = position => Inner = Top + 1
    BY RunEndFacts
  <2>3. QED
    BY <2>1, <2>2
<1>3. \A k \in DOMAIN parts : Sound(parts[k], d) /\ parts[k].end <= base'
  <2>1. ASSUME NEW k \in DOMAIN parts
        PROVE  Sound(parts[k], d) /\ parts[k].end <= base'
    <3>1. Sound(parts[k], Top - 1) /\ parts[k].end <= base /\ parts[k].end \in Nat
      BY AcceptedSound DEF Sound, Right
    <3>2. parts[k].end = position => rows[parts[k].end].depth \in Nat
      BY RunningFacts, <3>1, <1>2, RowFacts DEF Sound, Right
    <3>3. parts[k].end = position => rows[parts[k].end].depth >= d
      BY <1>2, <3>1, <3>2 DEF Sound
    <3>4. QED
      BY <1>1, <1>2, <3>1, <3>3 DEF Sound
  <2>2. QED
    BY <2>1
<1>4. CASE parts' = parts
  BY <1>1, <1>3, <1>4
<1>5. CASE parts' # parts
  <2> DEFINE part == [first |-> base, end |-> RunEnd, stem |-> Stem(open, rows[base + 1].depth)]
  <2>1. RunEnd # base /\ parts' = Append(parts, part)
    BY <1>5 DEF Seal
  <2>2. base < RunEnd /\ base < position
    BY <1>2, <2>1
  <2>3. part.stem = [k \in 1..rows[base + 1].depth |-> <<Ancestor(base, k - 1)>>]
    BY <2>2, StemIs
  <2>4. part.first = base /\ part.end = RunEnd
    OBVIOUS
  <2> HIDE DEF part
  <2>5. Right(part)
    BY <2>2, <2>3, <2>4, SealedRight
  <2>6. part.end = position => rows[part.end].depth >= d
    BY <2>2, BeforeRunEnd, <1>2, <2>4
  <2>7. Sound(part, d) /\ part.end <= base'
    BY <1>1, <1>2, <2>4, <2>5, <2>6 DEF Sound
  <2>8. parts \in Seq(PartType)
    BY DEF IInv, TypeOK
  <2>9. \A k \in DOMAIN parts' : (k \in DOMAIN parts /\ parts'[k] = parts[k]) \/ parts'[k] = part
    BY <2>1, <2>8, LenProperties
  <2> HIDE DEF d
  <2>10. \A k \in DOMAIN parts' : Sound(parts'[k], d) /\ parts'[k].end <= base'
    BY <1>3, <2>7, <2>9
  <2>11. QED
    BY <1>1, <2>10 DEF d
<1>6. QED
  BY <1>4, <1>5

\* The same when it seals nothing.
LEMMA NoSealSound ==
    ASSUME IInv, PartsInv, Running, UNCHANGED <<base, parts>>
    PROVE  \A k \in DOMAIN parts' : Sound(parts'[k], Top - 1) /\ parts'[k].end <= base'
  BY AcceptedSound

\* The parts after a step that adds a row.
LEMMA AcceptedGrows ==
    ASSUME IInv, PartsInv, Running, NEW row, Grows(row),
           \A k \in DOMAIN parts' : Sound(parts'[k], Top - 1) /\ parts'[k].end <= base'
    PROVE  AcceptedInv'
<1>1. ASSUME NEW k \in DOMAIN parts'
      PROVE  Right(parts[k])' /\ parts'[k].end <= base' /\ parts'[k].end # position'
  <2>1. PICK part : part = parts'[k]
    OBVIOUS
  <2>2. Sound(part, Top - 1) /\ part.end <= base'
    BY <2>1
  <2>3. Right(part)' /\ part.end < position'
    BY <2>2, GrowsRight DEF Sound
  <2>4. part.end \in Nat
    BY <2>2 DEF Sound, Right
  <2>5. part.end # position'
    BY <2>3, <2>4
  <2>6. QED
    BY <2>1, <2>2, <2>3, <2>5 DEF Right
<1>2. QED
  BY <1>1, AcceptedParts

-----------------------------------------------------------------------------
(* Sequences of finished children that cover rows.                         *)

\* Whole, Fits and Cover, with the totals to say them of.
FitsIn(t, m, n) == t[n] - t[m] <= Budget \/ n = m + 1

WholeIn(t, child, end) ==
    /\ child.position < end
    /\ child.bytes = t[end] - t[child.position]
    /\ FitsIn(t, child.position, end)

CoverIn(t, children, lo, hi, p, q) ==
    /\ lo > hi => p = q
    /\ lo <= hi => children[lo].position = p
    /\ \A k \in lo..hi : WholeIn(t, children[k], IF k < hi THEN children[k + 1].position ELSE q)

LEMMA CoverIs ==
    ASSUME NEW t, t = Totals(rows)
    PROVE  /\ \A p, q : Bytes(p, q) = t[q] - t[p] /\ (Fits(p, q) <=> FitsIn(t, p, q))
           /\ \A c, e : Whole(c, e) <=> WholeIn(t, c, e)
           /\ \A s, lo, hi, p, q : Cover(s, lo, hi, p, q) <=> CoverIn(t, s, lo, hi, p, q)
<1>1. \A p, q : Bytes(p, q) = t[q] - t[p]
  BY DEF Bytes
<1>2. \A p, q : Fits(p, q) <=> FitsIn(t, p, q)
  BY <1>1 DEF Fits, FitsIn
<1>3. \A c, e : Whole(c, e) <=> WholeIn(t, c, e)
  BY <1>1, <1>2 DEF Whole, WholeIn
<1>4. ASSUME NEW s, NEW lo, NEW hi, NEW p, NEW q
      PROVE  Cover(s, lo, hi, p, q) <=> CoverIn(t, s, lo, hi, p, q)
  <2> DEFINE end(k) == IF k < hi THEN s[k + 1].position ELSE q
  <2>1. \A k \in lo..hi : Whole(s[k], end(k)) <=> WholeIn(t, s[k], end(k))
    BY <1>3
  <2>2. CoverIn(t, s, lo, hi, p, q) <=>
            /\ lo > hi => p = q
            /\ lo <= hi => s[lo].position = p
            /\ \A k \in lo..hi : WholeIn(t, s[k], end(k))
    BY DEF CoverIn
  <2>3. Cover(s, lo, hi, p, q) <=>
            /\ lo > hi => p = q
            /\ lo <= hi => s[lo].position = p
            /\ \A k \in lo..hi : Whole(s[k], end(k))
    BY DEF Cover
  <2> HIDE DEF end
  <2>4. QED
    BY <2>1, <2>2, <2>3
<1>5. QED
  BY <1>1, <1>2, <1>3, <1>4

LEMMA CoverWillBe ==
    ASSUME NEW t, t = Totals(rows')
    PROVE  /\ \A p, q : Bytes(p, q)' = t[q] - t[p] /\ (Fits(p, q)' <=> FitsIn(t, p, q))
           /\ \A c, e : Whole(c, e)' <=> WholeIn(t, c, e)
           /\ \A s, lo, hi, p, q : Cover(s, lo, hi, p, q)' <=> CoverIn(t, s, lo, hi, p, q)
<1>1. \A p, q : Bytes(p, q)' = t[q] - t[p]
  BY DEF Bytes
<1>2. \A p, q : Fits(p, q)' <=> FitsIn(t, p, q)
  BY <1>1 DEF Fits, FitsIn
<1>3. \A c, e : Whole(c, e)' <=> WholeIn(t, c, e)
  BY <1>1, <1>2 DEF Whole, WholeIn
<1>4. ASSUME NEW s, NEW lo, NEW hi, NEW p, NEW q
      PROVE  Cover(s, lo, hi, p, q)' <=> CoverIn(t, s, lo, hi, p, q)
  <2> DEFINE end(k) == IF k < hi THEN s[k + 1].position ELSE q
  <2>1. \A k \in lo..hi : Whole(s[k], end(k))' <=> WholeIn(t, s[k], end(k))
    BY <1>3
  <2>2. CoverIn(t, s, lo, hi, p, q) <=>
            /\ lo > hi => p = q
            /\ lo <= hi => s[lo].position = p
            /\ \A k \in lo..hi : WholeIn(t, s[k], end(k))
    BY DEF CoverIn
  <2>3. Cover(s, lo, hi, p, q)' <=>
            /\ lo > hi => p = q
            /\ lo <= hi => s[lo].position = p
            /\ \A k \in lo..hi : Whole(s[k], end(k))'
    BY DEF Cover
  <2> HIDE DEF end
  <2>4. QED
    BY <2>1, <2>2, <2>3
<1>5. QED
  BY <1>1, <1>2, <1>3, <1>4

\* The same children, elsewhere in another sequence.
LEMMA CoverMoves ==
    ASSUME NEW t, NEW a, NEW b, NEW lo \in Int, NEW hi \in Int, NEW n \in Int, NEW p, NEW q,
           CoverIn(t, a, lo, hi, p, q), \A k \in lo..hi : b[k + n] = a[k]
    PROVE  CoverIn(t, b, lo + n, hi + n, p, q)
<1>1. \A k \in (lo + n)..(hi + n) : k - n \in lo..hi /\ (k - n) + n = k
  OBVIOUS
<1>2. \A k \in (lo + n)..(hi + n) : b[k] = a[k - n]
  BY <1>1
<1>3. ASSUME NEW k \in (lo + n)..(hi + n)
      PROVE  WholeIn(t, b[k], IF k < hi + n THEN b[k + 1].position ELSE q)
  <2>1. WholeIn(t, a[k - n], IF k - n < hi THEN a[(k - n) + 1].position ELSE q)
    BY <1>1 DEF CoverIn
  <2>2. k < hi + n => k + 1 \in (lo + n)..(hi + n) /\ (k + 1) - n = (k - n) + 1
    BY <1>1
  <2>3. k < hi + n => b[k + 1] = a[(k - n) + 1]
    BY <1>2, <2>2
  <2>4. k < hi + n <=> k - n < hi
    OBVIOUS
  <2>5. QED
    BY <1>2, <2>1, <2>3, <2>4
<1>4. (lo + n > hi + n <=> lo > hi) /\ (lo + n <= hi + n <=> lo <= hi)
  OBVIOUS
<1>5. lo + n <= hi + n => b[lo + n].position = p
  BY <1>4 DEF CoverIn
<1>6. QED
  BY <1>3, <1>4, <1>5 DEF CoverIn

\* The same children, where they are in another sequence too.
LEMMA CoverStays ==
    ASSUME NEW t, NEW a, NEW b, NEW lo \in Int, NEW hi \in Int, NEW p, NEW q,
           CoverIn(t, a, lo, hi, p, q), \A k \in lo..hi : b[k] = a[k]
    PROVE  CoverIn(t, b, lo, hi, p, q)
<1>1. \A k \in lo..hi : k < hi => k + 1 \in lo..hi
  OBVIOUS
<1>2. ASSUME NEW k \in lo..hi
      PROVE  WholeIn(t, b[k], IF k < hi THEN b[k + 1].position ELSE q)
  BY <1>1 DEF CoverIn
<1>3. lo <= hi => b[lo].position = p
  BY DEF CoverIn
<1>4. QED
  BY <1>2, <1>3 DEF CoverIn

\* One child more.
LEMMA CoverAppend ==
    ASSUME NEW t, NEW a, NEW b, NEW lo \in Int, NEW hi \in Int, lo <= hi + 1, NEW p, NEW q, NEW e,
           CoverIn(t, a, lo, hi, p, q), \A k \in lo..hi : b[k] = a[k],
           b[hi + 1].position = q, WholeIn(t, b[hi + 1], e)
    PROVE  CoverIn(t, b, lo, hi + 1, p, e)
<1>1. ASSUME NEW k \in lo..(hi + 1)
      PROVE  WholeIn(t, b[k], IF k < hi + 1 THEN b[k + 1].position ELSE e)
  <2>1. CASE k = hi + 1
    BY <2>1
  <2>2. CASE k \in lo..hi /\ k < hi
    BY <2>2 DEF CoverIn
  <2>3. CASE k = hi
    BY <2>3 DEF CoverIn
  <2>4. QED
    BY <2>1, <2>2, <2>3
<1>2. b[lo].position = p
  <2>1. CASE lo = hi + 1
    BY <2>1 DEF CoverIn
  <2>2. CASE lo <= hi
    BY <2>2 DEF CoverIn
  <2>3. QED
    BY <2>1, <2>2
<1>3. ~(lo > hi + 1)
  OBVIOUS
<1>4. QED
  BY <1>1, <1>2, <1>3 DEF CoverIn

\* One child less, at the start.
LEMMA CoverTail ==
    ASSUME NEW t, NEW a, NEW lo \in Int, NEW hi \in Int, lo <= hi, NEW p, NEW q,
           CoverIn(t, a, lo, hi, p, q)
    PROVE  LET e == IF lo < hi THEN a[lo + 1].position ELSE q
           IN  WholeIn(t, a[lo], e) /\ a[lo].position = p /\ CoverIn(t, a, lo + 1, hi, e, q)
<1>1. lo \in lo..hi /\ \A k \in (lo + 1)..hi : k \in lo..hi
  OBVIOUS
<1>2. (lo + 1 > hi <=> ~(lo < hi)) /\ (lo + 1 <= hi <=> lo < hi)
  OBVIOUS
<1>3. QED
  BY <1>1, <1>2 DEF CoverIn

\* The same totals of the rows it speaks of.
LEMMA CoverSameTotals ==
    ASSUME NEW t, NEW u, NEW n \in Nat, \A p \in 0..n : u[p] = t[p],
           NEW s, NEW lo \in Int, NEW hi \in Int, NEW p, NEW q \in 0..n,
           \A k \in lo..hi : s[k].position \in 0..n,
           CoverIn(t, s, lo, hi, p, q)
    PROVE  CoverIn(u, s, lo, hi, p, q)
<1>1. ASSUME NEW k \in lo..hi, NEW e \in 0..n, WholeIn(t, s[k], e)
      PROVE  WholeIn(u, s[k], e)
  BY <1>1 DEF WholeIn, FitsIn
<1>2. ASSUME NEW k \in lo..hi
      PROVE  WholeIn(u, s[k], IF k < hi THEN s[k + 1].position ELSE q)
  <2>1. WholeIn(t, s[k], IF k < hi THEN s[k + 1].position ELSE q)
    BY DEF CoverIn
  <2>2. (IF k < hi THEN s[k + 1].position ELSE q) \in 0..n
    OBVIOUS
  <2>3. QED
    BY <1>1, <2>1, <2>2
<1>3. QED
  BY <1>2 DEF CoverIn

\* The levels of new are those of open but for the run of level i, which has taken
\* the child at p, and reaches to e.
RunTaken(new, t, open, i, p, bytes, e) ==
    /\ new \in Seq(LevelType)
    /\ SameLevels(new, open)
    /\ \A j \in 1..Len(open) : j # i => new[j] = open[j]
    /\ new[i].run_first = IF RunIsFull(open[i], p, bytes) THEN p ELSE open[i].run_first
    /\ new[i].run_first \in Nat
    /\ new[i].run_bytes = t[e] - t[new[i].run_first]
    /\ FitsIn(t, new[i].run_first, e)

\* A child offered to a run that ends where the child starts.
LEMMA RunTakes ==
    ASSUME NEW t, NEW open \in Seq(LevelType), NEW i \in 1..Len(open), position \in 0..MaxRows,
           NEW p \in Nat, p <= position, NEW bytes \in Nat, NEW next, NEW e \in Nat,
           AddToRun(open, i, p, bytes, next),
           \A r \in 0..e : t[r] \in Nat,
           open[i].run_first <= p,
           open[i].run_bytes = t[p] - t[open[i].run_first],
           WholeIn(t, Child(p, bytes), e)
    PROVE  RunTaken(stack', t, open, i, p, bytes, e)
<1>1. open[i] \in LevelType
  BY ElementOfSeq
<1>2. open[i].run_first \in Nat /\ open[i].run_first \in 0..NoRun /\ open[i].run_bytes \in Nat
  BY <1>1, LevelFields
<1>3. RunMoved(stack', open, i, IF RunIsFull(open[i], p, bytes) THEN p ELSE open[i].run_first)
  BY AddToRunStack
<1>4. p < e /\ bytes = t[e] - t[p] /\ FitsIn(t, p, e)
  BY DEF WholeIn, Child
<1> DEFINE f == open[i].run_first
<1>5. t[e] \in Nat /\ t[p] \in Nat /\ t[f] \in Nat
  BY <1>2, <1>4
<1>6. stack'[i].run_bytes = IF RunIsFull(open[i], p, bytes) THEN bytes ELSE open[i].run_bytes + bytes
  <2>1. CASE RunIsFull(open[i], p, bytes)
    <3>1. stack' = SetRun(open, i, p, bytes)
      BY <2>1 DEF AddToRun
    <3>2. stack'[i] = WithRun(open[i], p, bytes)
      BY <1>1, <3>1 DEF SetRun
    <3>3. p \in 0..NoRun
      BY CutAssumption DEF NoRun
    <3>4. QED
      BY <1>1, <2>1, <3>2, <3>3, WithRunLevel
  <2>2. CASE ~RunIsFull(open[i], p, bytes)
    <3>1. stack' = SetRun(open, i, open[i].run_first, open[i].run_bytes + bytes)
      BY <2>2 DEF AddToRun
    <3> DEFINE b == open[i].run_bytes + bytes
    <3>2. stack'[i] = WithRun(open[i], open[i].run_first, b)
      BY <1>1, <3>1 DEF SetRun
    <3>3. b \in Nat
      BY <1>2
    <3> HIDE DEF b
    <3>4. stack'[i].run_bytes = b
      <4>1. WithRun(open[i], open[i].run_first, b).run_bytes = b
        BY <1>1, <1>2, <3>3, WithRunLevel
      <4>2. QED
        BY <3>2, <4>1
    <3>5. QED
      BY <2>2, <3>4 DEF b
  <2>3. QED
    BY <2>1, <2>2
<1> HIDE DEF f
<1>7. CASE RunIsFull(open[i], p, bytes)
  BY <1>3, <1>4, <1>6, <1>7 DEF RunMoved, RunTaken
<1>8. CASE ~RunIsFull(open[i], p, bytes)
  <2>1. stack'[i].run_first = f /\ stack'[i].run_bytes = open[i].run_bytes + bytes
    BY <1>3, <1>6, <1>8 DEF RunMoved, f
  <2>2. open[i].run_bytes = t[p] - t[f] /\ f \in Nat /\ f <= p
    BY <1>2 DEF f
  <2>3. stack'[i].run_bytes = t[e] - t[f]
    BY <1>4, <1>5, <2>1, <2>2
  <2>4. FitsIn(t, f, e)
    <3>1. CASE f = p
      BY <1>4, <3>1
    <3>2. CASE f < p
      <4>1. open[i].run_bytes + bytes <= Budget
        BY <1>2, <1>8, <3>2, CutAssumption DEF RunIsFull, f
      <4>2. QED
        BY <1>4, <1>5, <2>1, <2>2, <2>3, <4>1 DEF FitsIn
    <3>3. QED
      BY <2>2, <3>1, <3>2
  <2>5. QED
    BY <1>3, <1>8, <2>1, <2>2, <2>3, <2>4 DEF RunMoved, RunTaken, f
<1>9. QED
  BY <1>7, <1>8

-----------------------------------------------------------------------------
(* Levels, and what waits, with one row more.                              *)

\* Steps that leave the rows, and close levels at most.
LEMMA NestSame ==
    ASSUME IInv, PartsInv, Running, UNCHANGED <<rows, position, total>>,
           Top' \in Nat, Top' <= Top,
           \A i \in 1..Top' : /\ stack'[i].row = stack[i].row
                              /\ stack'[i].start_total = stack[i].start_total
    PROVE  NestInv' /\ TotalsInv'
<1>1. Top \in Nat /\ \A i \in 2..Top' : i \in 2..Top /\ i \in 1..Top'
  BY OpenFacts
<1>2. NestInv /\ TotalsInv
  BY RunningFacts
<1>3. QED
  BY <1>1, <1>2 DEF NestInv, TotalsInv

\* Steps that add a row, and open its level at most.
LEMMA NestGrows ==
    ASSUME IInv, PartsInv, Running, NEW row, Grows(row), total' = total + row.bytes,
           \A i \in 1..Top : /\ stack'[i].row = stack[i].row
                             /\ stack'[i].start_total = stack[i].start_total,
           \/ Top' = Top
           \/ /\ Top' = Top + 1 /\ row.dir
              /\ stack'[Top + 1].row = position
              /\ stack'[Top + 1].start_total = total
    PROVE  NestInv' /\ TotalsInv'
<1>1. /\ TypeOK /\ Len(rows) = position /\ position \in Nat /\ Top \in Nat
      /\ NestInv /\ TotalsInv
  BY RunningFacts, OpenFacts
<1>2. /\ position' = position + 1 /\ row.depth = Top - 1 /\ rows'[position + 1] = row
      /\ \A p \in 0..(position - 1) : rows'[p + 1] = rows[p + 1]
      /\ \A p \in 0..position : Totals(rows')[p] = Totals(rows)[p]
      /\ Totals(rows')[position + 1] = Totals(rows)[position] + row.bytes
  BY <1>1, GrowsRows DEF Grows
<1>3. total' = Totals(rows')[position']
  BY <1>1, <1>2 DEF TotalsInv
<1>4. ASSUME NEW i \in 2..Top
      PROVE  /\ rows'[stack'[i].row + 1].dir
             /\ \A q \in (stack'[i].row + 1)..position : rows'[q + 1].depth >= i - 1
             /\ stack'[i].start_total = Totals(rows')[stack'[i].row]
  <2>1. /\ i \in 1..Top /\ stack'[i].row = stack[i].row
        /\ stack'[i].start_total = stack[i].start_total
        /\ stack[i].row \in 0..(position - 1) /\ stack[i].row \in 0..position
    BY <1>1, OpenLevels
  <2>2. \A q \in (stack[i].row + 1)..position : q \in (stack[i].row + 1)..(position - 1) \/ q = position
    BY <1>1, <2>1
  <2>3. \A q \in (stack[i].row + 1)..(position - 1) : q \in 0..(position - 1)
    BY <1>1, <2>1
  <2>4. \A q \in (stack[i].row + 1)..(position - 1) : rows'[q + 1].depth >= i - 1
    BY <1>1, <1>2, <2>3 DEF NestInv
  <2>5. rows'[position + 1].depth >= i - 1
    BY <1>1, <1>2
  <2>6. QED
    BY <1>1, <1>2, <2>1, <2>2, <2>4, <2>5 DEF NestInv, TotalsInv
<1>5. CASE Top' = Top
  BY <1>1, <1>2, <1>3, <1>4, <1>5 DEF NestInv, TotalsInv
<1>6. CASE Top' = Top + 1 /\ row.dir /\ stack'[Top + 1].row = position
           /\ stack'[Top + 1].start_total = total
  <2>1. /\ rows'[stack'[Top + 1].row + 1].dir
        /\ \A q \in (stack'[Top + 1].row + 1)..position : FALSE
        /\ stack'[Top + 1].start_total = Totals(rows')[stack'[Top + 1].row]
    BY <1>1, <1>2, <1>6 DEF TotalsInv
  <2>2. \A i \in 2..Top' : i \in 2..Top \/ i = Top + 1
    BY <1>1, <1>6
  <2>3. position' - 1 = position
    BY <1>1, <1>2
  <2>4. \A i \in 2..Top' :
           /\ rows'[stack'[i].row + 1].dir
           /\ \A q \in (stack'[i].row + 1)..position : rows'[q + 1].depth >= i - 1
           /\ stack'[i].start_total = Totals(rows')[stack'[i].row]
    BY <1>4, <2>1, <2>2
  <2>5. QED
    BY <1>3, <2>3, <2>4 DEF NestInv, TotalsInv
<1>7. QED
  BY <1>5, <1>6

\* What waits, with one row more.
LEMMA WaitingGrows ==
    ASSUME IInv, PartsInv, Running, NEW row, Grows(row)
    PROVE  /\ \A r \in base..(RunLevel.run_first - 1) : OverBudget(r)'
           /\ \A r \in RunLevel.run_first..(position - 1) :
                 OverBudget(r)' => \E i \in Inner..Top : r = stack[i].row
<1> DEFINE run == RunLevel.run_first
<1>1. /\ run \in Nat /\ base \in Nat /\ run <= position /\ position \in Nat
      /\ Top \in Nat /\ Inner \in 2..(Top + 1) /\ RunIsInv
      /\ Contents(Inner - 1) <= run
  <2>1. /\ run \in Nat /\ base \in Nat /\ position \in Nat /\ RunEnd \in Nat
        /\ FinishedEnd(Inner - 1) \in Nat /\ Top \in Nat /\ Inner \in 2..(Top + 1)
    BY RunEndFacts, OpenFacts
  <2>2. /\ run <= RunEnd /\ RunEnd <= FinishedEnd(Inner - 1) /\ FinishedEnd(Inner - 1) <= position
        /\ Contents(Inner - 1) <= run
    BY RunEndFacts
  <2>3. QED
    BY <2>1, <2>2, RunningFacts
<1>2. \A r \in base..(run - 1) : OverBudget(r)'
  BY <1>1, GrowsSubtrees DEF RunIsInv, AllOver
<1>3. ASSUME NEW r \in run..(position - 1), OverBudget(r)'
      PROVE  \E i \in Inner..Top : r = stack[i].row
  <2>1. r \in 0..(position - 1)
    BY <1>1
  <2>2. CASE OverBudget(r)
    BY <1>1, <2>2 DEF RunIsInv
  <2>3. CASE ~OverBudget(r)
    <3>1. PICK i \in 2..Top : r = stack[i].row
      BY <1>3, <2>1, <2>3, GrowsSubtrees
    <3>2. ~(i < Inner)
      <4>1. SUFFICES ASSUME i <= Inner - 1 PROVE FALSE
        BY <1>1
      <4>2. Inner - 1 \in 2..Top /\ Inner - 1 # 1
        BY <1>1, <4>1
      <4>3. /\ stack[i].row \in Nat /\ stack[Inner - 1].row \in Nat
            /\ stack[i].row <= stack[Inner - 1].row
        BY <4>1, <4>2, LevelOrder
      <4>4. stack[Inner - 1].row + 1 <= run
        BY <1>1, <4>2 DEF Contents
      <4>5. QED
        BY <1>1, <3>1, <4>3, <4>4
    <3>3. QED
      BY <1>1, <3>1, <3>2
  <2>4. QED
    BY <2>2, <2>3
<1>4. QED
  BY <1>2, <1>3

\* The levels that a stem of the first waiting row is made of.
LEMMA StemLevels ==
    ASSUME IInv, Running, base < position
    PROVE  \A k \in 1..(rows[base + 1].depth + 1) :
               k \in 1..Top /\ k <= Inner - 1 /\ stack[k].path_len = k - 1
<1> DEFINE d == rows[base + 1].depth
<1>1. d \in Nat /\ d < Top /\ d <= Inner - 2
  BY WaitingDepth
<1>2. Top \in Nat /\ Inner \in 2..(Top + 1)
  BY OpenFacts
<1> HIDE DEF d
<1>3. \A k \in 1..(d + 1) : k \in 1..Top /\ k <= Inner - 1
  BY <1>1, <1>2
<1>4. \A k \in 1..Top : stack[k].path_len = k - 1
  BY OpenFacts
<1>5. QED
  BY <1>3, <1>4 DEF d

-----------------------------------------------------------------------------
(* A file or link.                                                         *)

\* The invariant after a step that goes on, by its parts.
LEMMA PartsInvFrom ==
    ASSUME AcceptedInv', Len(rows)' = position',
           Running' => NestInv' /\ TotalsInv' /\ SplitInv' /\ ChildrenInv' /\ OfferedInv' /\ RunIsInv'
    PROVE  PartsInv'
  BY DEF PartsInv, AcceptedInv

\* The finished children of the measuring levels, by their positions.
LEMMA ChildrenBefore ==
    ASSUME IInv, Running, Inner <= Top
    PROVE  /\ \A k \in 1..Len(completed) : completed[k].position \in 0..position
           /\ \A i \in Inner..Top : /\ i \in 2..Top
                                    /\ stack[i].completed \in Nat
                                    /\ LastChild(i) \in Nat
                                    /\ stack[i].completed <= LastChild(i)
                                    /\ LastChild(i) <= Len(completed)
                                    /\ Contents(i) \in 0..position
                                    /\ FinishedEnd(i) \in 0..position
<1>1. /\ Top \in Nat /\ Inner \in 2..(Top + 1) /\ position \in Nat
      /\ \A i \in 1..Top : stack[i].row \in Nat /\ stack[i].completed \in Nat
      /\ \A i \in 2..Top : stack[i].row < position
      /\ \A k \in 1..Len(completed) : completed[k].position \in Nat
      /\ CompletedInv
  BY OpenFacts DEF IInv
<1>2. Len(completed) \in Nat
  BY OpenFacts
<1>3. ASSUME NEW k \in 1..Len(completed)
      PROVE  completed[k].position \in 0..position
  <2>1. Inner \in Inner..Top /\ Inner \in 1..Top
    BY <1>1
  <2>2. InSlice(Inner, k) /\ stack[Inner].completed = 0
    BY <1>1, <2>1 DEF CompletedInv
  <2>3. completed[k].position < position
    BY <1>2, <2>2 DEF InSlice
  <2>4. QED
    BY <1>1, <2>3
<1>4. ASSUME NEW i \in Inner..Top
      PROVE  /\ i \in 2..Top
             /\ stack[i].completed \in Nat
             /\ LastChild(i) \in Nat
             /\ stack[i].completed <= LastChild(i)
             /\ LastChild(i) <= Len(completed)
             /\ Contents(i) \in 0..position
             /\ FinishedEnd(i) \in 0..position
  <2>1. i \in 2..Top /\ i \in 1..Top /\ (i < Top => i + 1 \in 1..Top /\ i + 1 \in 2..Top)
    BY <1>1
  <2>2. stack[i].completed <= Len(completed)
    BY <1>1, <2>1 DEF CompletedInv
  <2>3. i < Top => stack[i].completed <= stack[i + 1].completed
                   /\ stack[i + 1].completed <= Len(completed)
    BY <1>1, <2>1 DEF CompletedInv
  <2>4. LastChild(i) \in Nat /\ stack[i].completed <= LastChild(i) /\ LastChild(i) <= Len(completed)
    BY <1>1, <1>2, <2>1, <2>2, <2>3 DEF LastChild
  <2>5. Contents(i) \in 0..position /\ FinishedEnd(i) \in 0..position
    BY <1>1, <2>1 DEF Contents, FinishedEnd
  <2>6. QED
    BY <1>1, <2>1, <2>4, <2>5
<1>5. QED
  BY <1>3, <1>4

\* With one row more, what was said of the finished children still holds.
LEMMA ChildrenGrow ==
    ASSUME IInv, PartsInv, Running, NEW row, Grows(row), NEW i \in Inner..Top
    PROVE  CoverIn(Totals(rows'), completed, stack[i].completed + 1, LastChild(i),
                   Contents(i), FinishedEnd(i))
<1>1. /\ Top \in Nat /\ Inner \in 2..(Top + 1) /\ position \in Nat
      /\ TypeOK /\ Len(rows) = position /\ ChildrenInv
  BY OpenFacts, RunningFacts
<1>2. Inner <= Top
  BY <1>1
<1>3. /\ \A k \in 1..Len(completed) : completed[k].position \in 0..position
      /\ stack[i].completed \in Nat /\ LastChild(i) \in Nat /\ LastChild(i) <= Len(completed)
      /\ Contents(i) \in 0..position /\ FinishedEnd(i) \in 0..position
  BY <1>2, ChildrenBefore
<1>4. Len(completed) \in Nat
  BY OpenFacts
<1> DEFINE lo == stack[i].completed + 1
           hi == LastChild(i)
<1>5. /\ lo \in Int /\ hi \in Int
      /\ \A k \in lo..hi : k \in 1..Len(completed)
  BY <1>3, <1>4
<1>6. CoverIn(Totals(rows), completed, lo, hi, Contents(i), FinishedEnd(i))
  BY <1>1, CoverIs DEF ChildrenInv
<1>7. \A p \in 0..position : Totals(rows')[p] = Totals(rows)[p]
  BY <1>1, GrowsRows
<1> HIDE DEF lo, hi
<1>8. CoverIn(Totals(rows'), completed, lo, hi, Contents(i), FinishedEnd(i))
  BY <1>1, <1>3, <1>5, <1>6, <1>7, CoverSameTotals
<1>9. QED
  BY <1>8 DEF lo, hi

\* A file or link.
LEMMA LeafParts ==
    ASSUME IInv, PartsInv, NEW bytes \in Sizes, Leaf(bytes)
    PROVE  PartsInv'
<1> DEFINE row == [depth |-> Top - 1, bytes |-> bytes, dir |-> FALSE]
           run == RunLevel.run_first
           t == Totals(rows')
<1>1. /\ pc = "visit" /\ Running /\ Inner = measuring /\ offers = <<>>
      /\ TypeOK /\ Len(rows) = position /\ LevelsInv /\ CompletedInv /\ OffersInv
      /\ NestInv /\ TotalsInv /\ SplitInv /\ RunIsInv
  BY RunningFacts DEF Leaf, Visiting, Running, Inner, OffersInv
<1>2. /\ position \in Nat /\ position < MaxRows /\ position \in 0..MaxRows /\ total \in Nat /\ bytes \in Nat
      /\ Top \in Nat /\ Top >= 1 /\ Top \in 1..Top /\ Inner \in 2..(Top + 1)
      /\ stack \in Seq(LevelType) /\ Top = Len(stack) /\ completed \in Seq(ChildType)
      /\ \A i \in 1..Top : stack[i].split <=> i < Inner
      /\ \A i \in 2..Top : stack[i].start_total \in Nat
  BY <1>1, CutAssumption, OpenFacts DEF Leaf, Top, TypeOK
<1>3. /\ rows' = Append(rows, row) /\ position' = position + 1 /\ total' = total + bytes
      /\ UNCHANGED <<path, measuring, offers>>
      /\ Finished(stack, completed, Top, position, bytes, "budget")
  BY DEF Leaf
<1>4. Grows(row) /\ row.bytes = bytes /\ ~row.dir
  BY <1>2, <1>3 DEF Grows, RowType
<1> HIDE DEF row
<1>5. /\ rows' \in Seq(RowType) /\ Len(rows') = position' /\ rows'[position + 1] = row
      /\ \A p \in 0..position : t[p] = Totals(rows)[p]
      /\ t[position + 1] = Totals(rows)[position] + bytes
  BY <1>1, <1>3, <1>4, GrowsRows
<1>6. \A p \in 0..(position + 1) : t[p] \in Nat
  BY <1>3, <1>5, TotalsAddUp
<1>7. WholeIn(t, Child(position, bytes), position + 1)
  <2>1. position \in 0..(position + 1) /\ position + 1 \in 0..(position + 1) /\ position \in 0..position
    BY <1>2
  <2>2. t[position] \in Nat /\ t[position + 1] = t[position] + bytes
    BY <1>5, <1>6, <2>1
  <2>3. QED
    BY <1>2, <2>2 DEF WholeIn, FitsIn, Child
<1>8. /\ run \in Nat /\ RunEnd \in Nat /\ base \in Nat /\ run <= RunEnd /\ base <= run
      /\ RunEnd <= position
      /\ RunEnd = FinishedEnd(Inner - 1)
      /\ Inner = Top + 1 => RunEnd = position
  BY RunEndFacts, OpenFacts, <1>1 DEF RunEnd
<1>9. RunLevel.run_bytes = t[RunEnd] - t[run] /\ FitsIn(t, run, RunEnd)
  <2>1. RunEnd \in 0..position /\ run \in 0..position
    BY <1>2, <1>8
  <2>2. /\ RunLevel.run_bytes = Totals(rows)[RunEnd] - Totals(rows)[run]
        /\ FitsIn(Totals(rows), run, RunEnd)
    BY <1>1, CoverIs DEF RunIsInv
  <2>3. QED
    BY <1>5, <2>1, <2>2 DEF FitsIn
<1>10. \A r : r = position => ~OverBudget(r)'
  BY <1>4, <1>5 DEF OverBudget
<1>11. \A r \in run..position :
           OverBudget(r)' => \E i \in Inner..Top : r = stack[i].row
  <2>1. \A r \in run..position : r \in run..(position - 1) \/ r = position
    BY <1>2, <1>8
  <2>2. QED
    BY <1>1, <1>4, <1>10, <2>1, WaitingGrows
<1>12. \A r \in base..(run - 1) : OverBudget(r)'
  BY <1>1, <1>4, WaitingGrows
<1> HIDE DEF t, run
<1>13. CASE stack[Top].split
  <2>1. Inner = Top + 1 /\ completed' = completed /\ RunLevel = stack[Top] /\ RunEnd = position
    <3>1. Inner = Top + 1 /\ Inner - 1 = Top
      BY <1>2, <1>13
    <3>2. completed' = completed
      BY <1>3, <1>13 DEF Finished
    <3>3. QED
      BY <1>8, <3>1, <3>2 DEF RunLevel
  <2>2. AddToRun(stack, Top, position, bytes, "budget")
    BY <1>3, <1>13 DEF Finished
  <2> DEFINE full == RunIsFull(stack[Top], position, bytes)
  <2>3. /\ stack' \in Seq(LevelType) /\ SameLevels(stack', stack)
        /\ stack'[Top].run_first = IF full THEN position ELSE run
        /\ stack'[Top].run_first \in Nat
        /\ stack'[Top].run_bytes = t[position + 1] - t[stack'[Top].run_first]
        /\ FitsIn(t, stack'[Top].run_first, position + 1)
    <3>1. Top \in 1..Len(stack) /\ position + 1 \in Nat /\ position <= position
      BY <1>2
    <3>2. /\ stack[Top].run_first = run /\ stack[Top].run_first <= position
          /\ stack[Top].run_bytes = t[position] - t[stack[Top].run_first]
      BY <1>8, <1>9, <2>1 DEF run
    <3> DEFINE e == position + 1
    <3>3. e \in Nat /\ \A r \in 0..e : t[r] \in Nat
      BY <1>2, <1>6
    <3>4. WholeIn(t, Child(position, bytes), e)
      BY <1>7
    <3> HIDE DEF e
    <3>5. /\ stack \in Seq(LevelType) /\ Top \in 1..Len(stack) /\ position \in 0..MaxRows
          /\ position \in Nat /\ position <= position /\ bytes \in Nat
      BY <1>2, <3>1
    <3>6. RunTaken(stack', t, stack, Top, position, bytes, e)
      BY <2>2, <3>2, <3>3, <3>4, <3>5, RunTakes
    <3>7. QED
      BY <3>2, <3>6 DEF e, RunTaken
  <2>4. /\ \A k \in DOMAIN parts' : Sound(parts'[k], Top - 1) /\ parts'[k].end <= base'
        /\ base' = IF full THEN position ELSE base
        /\ pc' \in {"budget", "error"}
    <3>1. CASE full
      <4>1. Seal(stack, RunEnd, "budget")
        BY <2>1, <2>2, <3>1 DEF AddToRun, SealIf
      <4>2. run < RunEnd
        BY <2>1, <3>1 DEF RunIsFull, run
      <4>3. base < position => \A k \in 1..(rows[base + 1].depth + 1) : stack[k].path_len = k - 1
        BY <1>1, StemLevels
      <4>4. /\ base' = RunEnd
            /\ \A k \in DOMAIN parts' : Sound(parts'[k], Top - 1) /\ parts'[k].end <= base'
        BY <1>1, <4>1, <4>2, <4>3, SealSound DEF run
      <4>5. QED
        BY <2>1, <3>1, <4>1, <4>4 DEF Seal
    <3>2. CASE ~full
      BY <2>2, <3>2, <1>1, NoSealSound DEF AddToRun, SealIf
    <3>3. QED
      BY <3>1, <3>2
  <2>5. AcceptedInv'
    BY <1>1, <1>4, <2>4, AcceptedGrows
  <2>6. SUFFICES ASSUME pc' = "budget"
                 PROVE  NestInv' /\ TotalsInv' /\ SplitInv' /\ ChildrenInv' /\ OfferedInv' /\ RunIsInv'
    BY <1>5, <2>4, <2>5, PartsInvFrom DEF Running
  <2>7. /\ Top' = Top /\ Inner' = Inner
        /\ \A i \in 1..Top : /\ stack'[i].row = stack[i].row
                             /\ stack'[i].start_total = stack[i].start_total
    BY <1>1, <1>2, <1>3, <2>3, <2>6 DEF SameLevels, Top, Inner
  <2>8. NestInv' /\ TotalsInv'
    BY <1>1, <1>3, <1>4, <2>7, NestGrows
  <2>9. SplitInv'
    <3>1. ASSUME NEW i \in 2..(Inner - 1)
          PROVE  total' - stack'[i].start_total > Budget
      <4> DEFINE st == stack[i].start_total
      <4>1. i \in 2..Top /\ i \in 1..Top
        BY <1>2
      <4>2. total - st > Budget /\ st \in Nat /\ stack'[i].start_total = st
        BY <1>1, <1>2, <2>7, <4>1 DEF SplitInv
      <4> HIDE DEF st
      <4>3. QED
        BY <1>2, <1>3, <4>2, CutAssumption
    <3>2. QED
      BY <2>6, <2>7, <3>1 DEF SplitInv
  <2>10. ChildrenInv'
    BY <1>2, <2>1, <2>7 DEF ChildrenInv
  <2>11. RunEnd' = position + 1 /\ FinishedEnd(Inner - 1)' = position + 1
    BY <1>1, <1>2, <1>3, <2>1, <2>7 DEF RunEnd, FinishedEnd
  <2>12. OfferedInv'
    BY <1>1, <1>3, <2>11, EmptySeq DEF OfferedInv, Cover
  <2>13. RunIsInv'
    <3>1. RunLevel' = stack'[Top]
      BY <1>2, <2>1, <2>7 DEF RunLevel
    <3>2. /\ RunLevel'.run_bytes = Bytes(RunLevel.run_first, RunEnd)'
          /\ Fits(RunLevel.run_first, RunEnd)'
      BY <2>3, <2>11, <3>1, CoverWillBe DEF t
    <3>3. RunLevel'.run_first <= RunEnd'
      BY <1>2, <1>8, <2>3, <2>11, <3>1
    <3>4. AllOver(base, RunLevel.run_first)'
      BY <1>2, <1>12, <2>3, <2>4, <3>1 DEF AllOver
    <3>5. \A r \in RunLevel'.run_first..(position' - 1) :
              OverBudget(r)' => \E i \in Inner'..Top' : r = stack'[i].row
      BY <1>2, <1>3, <1>8, <2>1, <2>3, <3>1, <1>11
    <3>6. QED
      BY <3>2, <3>3, <3>4, <3>5 DEF RunIsInv
  <2>14. QED
    BY <2>8, <2>9, <2>10, <2>12, <2>13
<1>14. CASE ~stack[Top].split
  <2>1. /\ Inner <= Top /\ stack' = stack /\ UNCHANGED <<base, parts>> /\ pc' = "budget"
        /\ completed' = Append(completed, Child(position, bytes))
    BY <1>1, <1>2, <1>3, <1>14 DEF Finished
  <2>2. AcceptedInv'
    BY <1>1, <1>4, <2>1, NoSealSound, AcceptedGrows
  <2>3. Top' = Top /\ Inner' = Inner
    BY <1>1, <1>3, <2>1 DEF Top, Inner
  <2>4. NestInv' /\ TotalsInv'
    BY <1>1, <1>3, <1>4, <2>1, <2>3, NestGrows
  <2>5. SplitInv'
    <3>1. ASSUME NEW i \in 2..(Inner - 1)
          PROVE  total' - stack[i].start_total > Budget
      <4>1. i \in 2..Top /\ total - stack[i].start_total > Budget
        BY <1>1, <1>2 DEF SplitInv
      <4>2. QED
        BY <1>2, <1>3, <4>1, CutAssumption
    <3>2. QED
      BY <2>1, <2>3, <3>1 DEF SplitInv
  <2>6. Inner - 1 < Top /\ FinishedEnd(Inner - 1)' = FinishedEnd(Inner - 1)
        /\ RunEnd' = RunEnd /\ RunLevel' = RunLevel
    BY <1>1, <1>2, <1>3, <2>1, <2>3 DEF RunEnd, FinishedEnd, RunLevel
  <2>7. OfferedInv'
    BY <1>1, <1>3, <1>8, <2>6, EmptySeq DEF OfferedInv, Cover
  <2>8. RunIsInv'
    <3>1. RunLevel'.run_bytes = Bytes(RunLevel.run_first, RunEnd)' /\ Fits(RunLevel.run_first, RunEnd)'
      BY <1>9, <2>6, CoverWillBe DEF t, run
    <3>2. AllOver(base, RunLevel.run_first)'
      BY <1>12, <2>1, <2>6 DEF AllOver, run
    <3>3. \A r \in RunLevel'.run_first..(position' - 1) :
              OverBudget(r)' => \E i \in Inner'..Top' : r = stack'[i].row
      <4>1. position' - 1 = position
        BY <1>2, <1>3
      <4>2. QED
        BY <1>11, <2>1, <2>3, <2>6, <4>1 DEF run
    <3>4. QED
      BY <1>8, <2>6, <3>1, <3>2, <3>3 DEF RunIsInv, run
  <2>9. ChildrenInv'
    <3> DEFINE n == Len(completed)
    <3>1. /\ n \in Nat /\ Len(completed') = n + 1
          /\ \A k \in 1..n : completed'[k] = completed[k]
          /\ completed'[n + 1] = Child(position, bytes)
      BY <1>2, <2>1, LenProperties
    <3>2. SUFFICES ASSUME NEW i \in Inner..Top
                   PROVE  CoverIn(t, completed', stack[i].completed + 1, LastChild(i)',
                                  Contents(i), FinishedEnd(i)')
      BY <2>1, <2>3, CoverWillBe DEF Contents, ChildrenInv, t
    <3> HIDE DEF n
    <3>3. CoverIn(t, completed, stack[i].completed + 1, LastChild(i), Contents(i), FinishedEnd(i))
      BY <1>1, <1>4, ChildrenGrow DEF t
    <3>4. /\ stack[i].completed \in Nat /\ LastChild(i) \in Nat
          /\ stack[i].completed <= LastChild(i) /\ LastChild(i) <= n
      BY <1>1, <2>1, ChildrenBefore DEF n
    <3> DEFINE lo == stack[i].completed + 1
               hi == LastChild(i)
    <3>5. /\ lo \in Int /\ hi \in Int /\ lo <= hi + 1
          /\ \A k \in lo..hi : completed'[k] = completed[k]
      <4>1. \A k \in lo..hi : k \in 1..n
        BY <3>1, <3>4
      <4>2. QED
        BY <3>1, <3>4, <4>1
    <3>6. CASE i = Top
      <4>1. hi = n /\ LastChild(i)' = n + 1 /\ FinishedEnd(i) = position /\ FinishedEnd(i)' = position + 1
        BY <1>3, <2>3, <3>1, <3>6 DEF LastChild, FinishedEnd, n
      <4> HIDE DEF lo, hi
      <4>2. completed'[hi + 1].position = FinishedEnd(i) /\ WholeIn(t, completed'[hi + 1], position + 1)
        BY <1>7, <3>1, <4>1 DEF Child
      <4>3. CoverIn(t, completed', lo, hi + 1, Contents(i), position + 1)
        BY <3>3, <3>5, <4>2, CoverAppend DEF lo, hi
      <4>4. QED
        BY <4>1, <4>3 DEF lo
    <3>7. CASE i # Top
      <4>1. LastChild(i)' = hi /\ FinishedEnd(i)' = FinishedEnd(i)
        BY <1>2, <2>1, <2>3, <3>7 DEF LastChild, FinishedEnd
      <4> HIDE DEF lo, hi
      <4>2. CoverIn(t, completed', lo, hi, Contents(i), FinishedEnd(i))
        BY <3>3, <3>5, CoverStays DEF lo, hi
      <4>3. QED
        BY <4>1, <4>2 DEF lo
    <3>8. QED
      BY <3>6, <3>7
  <2>10. QED
    BY <1>5, <2>2, <2>4, <2>5, <2>7, <2>8, <2>9, PartsInvFrom
<1>15. QED
  BY <1>13, <1>14

-----------------------------------------------------------------------------
(* Steps that leave the levels, and the end.                               *)

\* A step that stops the walk, or does not start it.
LEMMA StopParts ==
    ASSUME IInv, PartsInv, UNCHANGED <<rows, position, parts>>, ~Running'
    PROVE  PartsInv'
<1>1. Len(rows') = position'
  BY DEF PartsInv
<1>2. \A k \in DOMAIN parts' : Right(parts'[k])
  BY RightParts
<1>3. AcceptedInv'
  BY <1>2, AcceptedSame
<1>4. QED
  BY <1>1, <1>3, PartsInvFrom

\* A step that leaves the levels and what waits as they are.
LEMMA MoveOnParts ==
    ASSUME IInv, PartsInv, Running, Running', Inner' = Inner,
           UNCHANGED <<stack, base, position, total, completed, offers, rows, parts>>,
           pc' = "visit" => \A i \in Inner..Top : total - stack[i].start_total <= Budget
    PROVE  PartsInv'
<1>1. /\ Top' = Top /\ \A i : Contents(i)' = Contents(i)
      /\ NestInv /\ TotalsInv /\ SplitInv /\ ChildrenInv /\ OfferedInv /\ RunIsInv
      /\ Len(rows) = position
  BY RunningFacts DEF Top, Contents
<1>2. \A i : FinishedEnd(i)' = FinishedEnd(i) /\ LastChild(i)' = LastChild(i)
  BY <1>1 DEF FinishedEnd, LastChild
<1>3. RunLevel' = RunLevel /\ FinishedEnd(Inner - 1)' = FinishedEnd(Inner - 1) /\ RunEnd' = RunEnd
  BY <1>2 DEF RunLevel, RunEnd, FinishedEnd, Top
<1>4. /\ \A p, q : Bytes(p, q)' = Bytes(p, q) /\ (Fits(p, q)' <=> Fits(p, q))
      /\ \A p : OverBudget(p)' <=> OverBudget(p)
  BY SameTree
<1>5. AcceptedInv'
  BY AcceptedSound, <1>1, AcceptedSame DEF Sound
<1>6. NestInv' /\ TotalsInv'
  BY <1>1 DEF NestInv, TotalsInv
<1>7. SplitInv'
  BY <1>1 DEF SplitInv
<1>8. ChildrenInv'
  <2>1. PICK t : t = Totals(rows)
    OBVIOUS
  <2>2. t = Totals(rows')
    BY <2>1
  <2>3. ASSUME NEW i \in Inner..Top
        PROVE  Cover(completed, stack[i].completed + 1, LastChild(i), Contents(i), FinishedEnd(i))'
    BY <1>1, <2>1, CoverIs, <1>2, <2>2, CoverWillBe DEF ChildrenInv
  <2>4. QED
    BY <1>1, <2>3 DEF ChildrenInv
<1>9. OfferedInv'
  <2>1. PICK t : t = Totals(rows)
    OBVIOUS
  <2>2. t = Totals(rows')
    BY <2>1
  <2>3. CoverIn(t, offers, 1, Len(offers), RunEnd, FinishedEnd(Inner - 1))
    BY <1>1, <2>1, CoverIs DEF OfferedInv
  <2>4. CoverIn(t, offers', 1, Len(offers'), RunEnd', FinishedEnd(Inner - 1)')
    BY <1>3, <2>3
  <2>5. QED
    BY <2>2, <2>4, CoverWillBe DEF OfferedInv
<1>10. RunIsInv'
  <2> DEFINE run == RunLevel.run_first
  <2>1. /\ run <= RunEnd /\ RunLevel.run_bytes = Bytes(run, RunEnd)' /\ Fits(run, RunEnd)'
        /\ \A r \in base..(run - 1) : OverBudget(r)'
        /\ \A r \in run..(position - 1) : OverBudget(r)' => \E i \in Inner..Top : r = stack[i].row
    BY <1>1, <1>3, <1>4 DEF RunIsInv, AllOver
  <2>2. AllOver(base, run)'
    BY <1>3, <2>1 DEF AllOver
  <2>3. QED
    BY <1>1, <1>3, <2>1, <2>2 DEF RunIsInv
<1>11. QED
  BY <1>1, <1>5, <1>6, <1>7, <1>8, <1>9, <1>10, PartsInvFrom

LEMMA StutterParts ==
    ASSUME IInv, PartsInv, UNCHANGED vars
    PROVE  PartsInv'
<1>1. UNCHANGED <<pc, stack, base, position, total, measuring, completed, offers, rows, parts>>
  BY DEF vars
<1>2. CASE Running
  BY <1>1, <1>2, RunningFacts, MoveOnParts DEF Running, Inner, SplitInv
<1>3. CASE ~Running
  BY <1>1, <1>3, StopParts DEF Running
<1>4. QED
  BY <1>2, <1>3

LEMMA WithinBudgetParts ==
    ASSUME IInv, PartsInv, WithinBudget
    PROVE  PartsInv'
<1>1. /\ Running /\ Running' /\ Inner = measuring /\ Inner' = Inner /\ ~PastBudget
      /\ UNCHANGED <<stack, base, position, total, completed, offers, rows, parts>>
  BY DEF WithinBudget, Running, Inner
<1>2. /\ Top \in Nat /\ Inner \in 2..(Top + 1) /\ total \in Nat /\ position \in Nat
      /\ \A i \in 2..Top : stack[i].start_total \in Nat
  BY <1>1, OpenFacts
<1>3. ASSUME NEW i \in Inner..Top
      PROVE  total - stack[i].start_total <= Budget
  <2>1. Inner \in 2..Top /\ i \in 2..Top /\ Inner <= i
    BY <1>2
  <2>2. total - stack[Inner].start_total <= Budget
    BY <1>1, <1>2, <2>1, CutAssumption DEF PastBudget
  <2>3. stack[Inner].row \in Nat /\ stack[i].row \in Nat /\ stack[Inner].row <= stack[i].row
    BY <1>1, <2>1, LevelOrder
  <2>4. stack[i].row \in 0..(position - 1)
    BY <1>1, <2>1, OpenLevels
  <2>5. TypeOK /\ Len(rows) = position /\ TotalsInv
    BY <1>1, RunningFacts
  <2>6. stack[Inner].row \in 0..position /\ stack[i].row \in (stack[Inner].row)..position
    BY <1>2, <2>3, <2>4
  <2>7. Totals(rows)[stack[Inner].row] <= Totals(rows)[stack[i].row]
    BY <2>5, <2>6, BytesFacts
  <2>8. stack[Inner].start_total <= stack[i].start_total
    BY <2>1, <2>5, <2>7 DEF TotalsInv
  <2>9. QED
    BY <1>2, <2>1, <2>2, <2>8, CutAssumption
<1>4. QED
  BY <1>1, <1>3, MoveOnParts

LEMMA OfferedParts ==
    ASSUME IInv, PartsInv, Offered
    PROVE  PartsInv'
<1>1. /\ Running /\ Running' /\ Inner' = Inner /\ pc' # "visit"
      /\ UNCHANGED <<stack, base, position, total, completed, offers, rows, parts>>
  BY DEF Offered, Running, Inner
<1>2. QED
  BY <1>1, MoveOnParts

LEMMA FinishRootParts ==
    ASSUME IInv, PartsInv, FinishRoot
    PROVE  PartsInv'
<1>1. /\ Running /\ Top = 1 /\ offers = <<>> /\ pc' \in {"done", "error"}
      /\ UNCHANGED <<position, rows>> /\ Seal(stack, position, "done")
  BY DEF FinishRoot, Visiting, Running, Seal, IInv, OffersInv
<1>2. RunEnd = position
  BY <1>1, OpenFacts, RunEndFacts DEF RunEnd
<1>3. base < position => \A k \in 1..(rows[base + 1].depth + 1) : stack[k].path_len = k - 1
  BY <1>1, StemLevels
<1>4. \A k \in DOMAIN parts' : Sound(parts'[k], IF RunLevel.run_first < RunEnd THEN Top - 1 ELSE Top - 2)
  BY <1>1, <1>2, <1>3, SealSound
<1>5. AcceptedInv'
  BY <1>1, <1>4, AcceptedSame DEF Sound, Running
<1>6. Len(rows') = position'
  BY <1>1 DEF PartsInv
<1>7. QED
  BY <1>1, <1>5, <1>6, PartsInvFrom DEF Running

-----------------------------------------------------------------------------
(* The start.                                                              *)

LEMMA StartParts ==
    ASSUME IInv, PartsInv, Start
    PROVE  PartsInv'
<1>1. /\ pc = "start" /\ position = 0 /\ base = 0 /\ total = 0 /\ measuring = 2
      /\ completed = <<>> /\ offers = <<>> /\ rows = <<>>
      /\ UNCHANGED <<base, position, total, measuring, completed, offers, rows, parts>>
  BY DEF Start, IInv
<1>2. ASSUME NEW k \in DOMAIN parts
      PROVE  FALSE
  <2>1. Right(parts[k])
    BY RightParts
  <2>2. QED
    BY <1>1, <2>1 DEF Right
<1>3. CASE pc' = "error"
  BY <1>1, <1>3, StopParts DEF Running
<1>4. CASE pc' = "visit" /\ stack' = <<Root>>
  <2>1. /\ Top' = 1 /\ stack'[1] = Root /\ Inner' = 2
    BY <1>1, <1>4, EmptySeq DEF Top, Inner
  <2>2. Root.run_first = 0 /\ Root.run_bytes = 0
    BY DEF Root, Level
  <2>3. /\ RunLevel' = Root /\ FinishedEnd(Inner - 1)' = 0 /\ RunEnd' = 0
    BY <1>1, <2>1 DEF RunLevel, RunEnd, FinishedEnd
  <2>4. PICK t : t = Totals(rows')
    OBVIOUS
  <2>5. t[0] = 0
    BY <1>1, <2>4, TotalsAddUp DEF IInv, TypeOK
  <2>6. AcceptedInv'
    BY <1>1, <1>2, AcceptedSame
  <2>7. NestInv' /\ TotalsInv' /\ SplitInv' /\ ChildrenInv'
    <3>1. \A i \in 2..1 : FALSE
      OBVIOUS
    <3>2. (Inner - 1)' = 1
      BY <2>1
    <3>3. NestInv' /\ TotalsInv'
      BY <1>1, <2>1, <2>4, <2>5, <3>1 DEF NestInv, TotalsInv
    <3>4. SplitInv' /\ ChildrenInv'
      BY <2>1, <3>1, <3>2 DEF SplitInv, ChildrenInv
    <3>5. QED
      BY <3>3, <3>4
  <2>8. OfferedInv'
    BY EmptySeq, <1>1, <2>3, <2>4, CoverWillBe DEF CoverIn, OfferedInv
  <2>9. RunIsInv'
    <3>1. \A r \in 0..(-1) : FALSE
      OBVIOUS
    <3>2. 0 - 1 = -1 /\ t[0] - t[0] = 0 /\ FitsIn(t, 0, 0) /\ 0 <= 0
      BY <2>5, CutAssumption DEF FitsIn
    <3>3. /\ RunLevel'.run_first <= RunEnd'
          /\ RunLevel'.run_bytes = Bytes(RunLevel.run_first, RunEnd)'
          /\ Fits(RunLevel.run_first, RunEnd)'
      BY <2>2, <2>3, <2>4, <3>2, CoverWillBe
    <3>4. AllOver(base, RunLevel.run_first)'
      BY <1>1, <2>2, <2>3, <3>1, <3>2 DEF AllOver
    <3>5. \A r \in RunLevel'.run_first..(position' - 1) : FALSE
      BY <1>1, <2>2, <2>3, <3>1, <3>2
    <3>6. QED
      BY <3>3, <3>4, <3>5 DEF RunIsInv
  <2>10. Len(rows') = position'
    BY <1>1, EmptySeq
  <2>11. QED
    BY <2>6, <2>7, <2>8, <2>9, <2>10, PartsInvFrom
<1>5. QED
  BY <1>3, <1>4 DEF Start

LEMMA InitParts ==
    ASSUME Init
    PROVE  PartsInv
<1>1. rows = <<>> /\ position = 0 /\ parts = <<>> /\ ~Running /\ Len(<<>>) = 0 /\ DOMAIN <<>> = {}
  BY EmptySeq DEF Init, Running
<1>2. EndsInv /\ FittingDirectoriesAreWhole /\ PartsWithinBudget /\ StemsNameAncestors
  BY <1>1 DEF EndsInv, FittingDirectoriesAreWhole, PartsWithinBudget, StemsNameAncestors
<1>3. QED
  BY <1>1, <1>2 DEF PartsInv

-----------------------------------------------------------------------------
(* A directory.                                                            *)

\* A directory.
LEMMA EnterParts ==
    ASSUME IInv, PartsInv, NEW bytes \in Sizes, Enter(bytes)
    PROVE  PartsInv'
<1> DEFINE row == [depth |-> Top - 1, bytes |-> bytes, dir |-> TRUE]
           level == Level(position, total, Len(path'), FALSE, Len(completed))
           run == RunLevel.run_first
           t == Totals(rows')
<1>1. /\ pc = "visit" /\ Running /\ Inner = measuring /\ offers = <<>>
      /\ TypeOK /\ Len(rows) = position /\ SplitInv /\ RunIsInv
  BY RunningFacts DEF Enter, Visiting, Running, Inner, OffersInv
<1>2. /\ position \in Nat /\ position < MaxRows /\ total \in Nat /\ bytes \in Nat
      /\ Top \in Nat /\ Top >= 1 /\ Inner \in 2..(Top + 1)
      /\ stack \in Seq(LevelType) /\ Top = Len(stack) /\ Len(completed) \in Nat
      /\ \A i \in 2..Top : stack[i].start_total \in Nat
  BY <1>1, CutAssumption, OpenFacts DEF Enter
<1>3. /\ rows' = Append(rows, row) /\ position' = position + 1
      /\ UNCHANGED <<base, measuring, completed, offers, parts>>
      /\ \/ /\ stack' = Append(stack, level) /\ total' = total + bytes /\ pc' = "budget"
         \/ pc' = "error"
  BY DEF Enter
<1>4. Grows(row) /\ row.bytes = bytes /\ row.dir
  BY <1>2, <1>3 DEF Grows, RowType
<1>5. /\ level.row = position /\ level.start_total = total /\ level.completed = Len(completed)
  BY DEF Level
<1> HIDE DEF row, level
<1>6. /\ rows' \in Seq(RowType) /\ Len(rows') = position'
      /\ \A p \in 0..position : t[p] = Totals(rows)[p]
  BY <1>1, <1>3, <1>4, GrowsRows
<1>7. AcceptedInv'
  BY <1>1, <1>3, NoSealSound, <1>4, AcceptedGrows
<1>8. CASE pc' = "error"
  BY <1>6, <1>7, <1>8, PartsInvFrom DEF Running
<1>9. CASE stack' = Append(stack, level) /\ total' = total + bytes /\ pc' = "budget"
  <2>1. /\ Top' = Top + 1 /\ Inner' = Inner
        /\ \A i \in 1..Top : stack'[i] = stack[i]
        /\ stack'[Top + 1] = level
    BY <1>1, <1>2, <1>3, <1>9, AppendProperties DEF Top, Inner
  <2>2. NestInv' /\ TotalsInv'
    BY <1>1, <1>4, <1>5, <1>9, <2>1, NestGrows
  <2>3. SplitInv'
    <3>1. ASSUME NEW i \in 2..(Inner - 1)
          PROVE  total' - stack'[i].start_total > Budget
      <4> DEFINE st == stack[i].start_total
      <4>1. i \in 2..Top /\ i \in 1..Top
        BY <1>2
      <4>2. total - st > Budget /\ st \in Nat /\ stack'[i].start_total = st
        BY <1>1, <1>2, <2>1, <4>1 DEF SplitInv
      <4> HIDE DEF st
      <4>3. QED
        BY <1>2, <1>9, <4>2, CutAssumption
    <3>2. QED
      BY <1>9, <2>1, <3>1 DEF SplitInv
  <2>4. Inner - 1 \in 1..Top /\ Inner - 1 < Top + 1 /\ (Inner - 1 < Top \/ Inner = Top + 1)
    BY <1>2
  <2>5. FinishedEnd(Inner - 1)' = FinishedEnd(Inner - 1)
    <3>1. FinishedEnd(Inner - 1)' = stack'[(Inner - 1) + 1].row
      BY <2>1, <2>4 DEF FinishedEnd
    <3>2. CASE Inner = Top + 1
      BY <1>2, <3>2, <1>5, <2>1, <3>1 DEF FinishedEnd
    <3>3. CASE Inner - 1 < Top
      BY <1>2, <2>4, <3>3, <2>1, <3>1 DEF FinishedEnd
    <3>4. QED
      BY <2>4, <3>2, <3>3
  <2>6. RunEnd' = RunEnd /\ RunLevel' = RunLevel
    BY <1>3, <2>1, <2>4, <2>5 DEF RunEnd, RunLevel
  <2>7. /\ run \in Nat /\ RunEnd \in Nat /\ base \in Nat /\ run <= RunEnd /\ RunEnd <= position
        /\ RunEnd = FinishedEnd(Inner - 1)
    BY <1>1, RunEndFacts, OpenFacts DEF RunEnd
  <2>8. OfferedInv'
    BY <1>1, <1>3, <2>5, <2>6, <2>7, EmptySeq DEF OfferedInv, Cover
  <2>9. RunIsInv'
    <3>1. RunLevel'.run_bytes = Bytes(RunLevel.run_first, RunEnd)' /\ Fits(RunLevel.run_first, RunEnd)'
      <4>1. RunEnd \in 0..position /\ run \in 0..position
        BY <1>2, <2>7
      <4>2. /\ RunLevel.run_bytes = Totals(rows)[RunEnd] - Totals(rows)[run]
            /\ FitsIn(Totals(rows), run, RunEnd)
        BY <1>1, CoverIs DEF RunIsInv
      <4>3. RunLevel.run_bytes = t[RunEnd] - t[run] /\ FitsIn(t, run, RunEnd)
        BY <1>6, <4>1, <4>2 DEF FitsIn
      <4> HIDE DEF t
      <4>4. QED
        BY <2>6, <4>3, CoverWillBe DEF t, run
    <3>2. AllOver(base, RunLevel.run_first)'
      BY <1>1, <1>4, WaitingGrows, <1>3, <2>6 DEF AllOver, run
    <3>3. \A r \in RunLevel'.run_first..(position' - 1) :
              OverBudget(r)' => \E i \in Inner'..Top' : r = stack'[i].row
      <4>1. \A r \in run..(position' - 1) : r \in run..(position - 1) \/ r = position
        BY <1>2, <1>3, <2>7
      <4>2. \A i \in Inner..Top : i \in Inner'..Top' /\ stack'[i] = stack[i]
        BY <1>2, <2>1
      <4>3. Top + 1 \in Inner'..Top'
        BY <1>2, <2>1
      <4>4. \A r \in run..(position - 1) :
                OverBudget(r)' => \E i \in Inner..Top : r = stack[i].row
        BY <1>1, <1>4, WaitingGrows
      <4>5. ASSUME NEW r \in run..(position' - 1), OverBudget(r)'
            PROVE  \E i \in Inner'..Top' : r = stack'[i].row
        BY <1>5, <2>1, <4>1, <4>2, <4>3, <4>4, <4>5
      <4>6. QED
        BY <2>6, <4>5 DEF run
    <3>4. QED
      BY <2>6, <2>7, <3>1, <3>2, <3>3 DEF RunIsInv, run
  <2>10. ChildrenInv'
    <3> HIDE DEF t
    <3>1. SUFFICES ASSUME NEW i \in Inner..(Top + 1)
                   PROVE  CoverIn(t, completed, stack'[i].completed + 1, LastChild(i)',
                                  Contents(i)', FinishedEnd(i)')
      BY <1>3, <2>1, CoverWillBe DEF ChildrenInv, t
    <3>2. CASE i \in Inner..Top
      <4>1. CoverIn(t, completed, stack[i].completed + 1, LastChild(i), Contents(i), FinishedEnd(i))
        BY <1>1, <1>4, <3>2, ChildrenGrow DEF t
      <4>2. i \in 1..Top /\ i < Top + 1 /\ (i < Top => i + 1 \in 1..Top) /\ (~(i < Top) => i = Top)
        BY <1>2, <3>2
      <4>3. stack'[i].completed = stack[i].completed /\ Contents(i)' = Contents(i)
        BY <2>1, <4>2 DEF Contents
      <4>4. LastChild(i)' = LastChild(i) /\ FinishedEnd(i)' = FinishedEnd(i)
        BY <1>5, <2>1, <4>2 DEF LastChild, FinishedEnd
      <4>5. QED
        BY <4>1, <4>3, <4>4
    <3>3. CASE i = Top + 1
      <4>1. ~(i < Top + 1) /\ i # 1
        BY <1>2, <3>3
      <4>2. /\ stack'[i].completed = Len(completed) /\ LastChild(i)' = Len(completed)
            /\ Contents(i)' = position + 1 /\ FinishedEnd(i)' = position + 1
        BY <1>3, <1>5, <2>1, <3>3, <4>1 DEF LastChild, Contents, FinishedEnd
      <4> DEFINE n == Len(completed)
      <4> HIDE DEF n
      <4>3. n \in Nat
        BY <1>2 DEF n
      <4>4. ~(n + 1 <= n) /\ \A k \in (n + 1)..n : FALSE
        BY <4>3
      <4>5. CoverIn(t, completed, n + 1, n, position + 1, position + 1)
        BY <4>4 DEF CoverIn
      <4>6. QED
        BY <4>2, <4>5 DEF n
    <3>4. QED
      BY <1>2, <3>2, <3>3
  <2>11. QED
    BY <1>6, <1>7, <2>2, <2>3, <2>8, <2>9, <2>10, PartsInvFrom
<1>10. QED
  BY <1>3, <1>8, <1>9

-----------------------------------------------------------------------------
(* A split directory is finished.                                          *)

LEMMA SoundLess ==
    ASSUME IInv, PartsInv, Running, NEW part, Sound(part, Top - 1)
    PROVE  Sound(part, Top - 2)
<1>1. /\ TypeOK /\ Len(rows) = position /\ position \in Nat /\ Top \in Nat
      /\ part.first \in Nat /\ part.end \in Nat /\ part.first < part.end /\ part.end <= position
  BY RunningFacts, OpenFacts DEF Sound, Right
<1>2. part.end - 1 \in 0..(position - 1) /\ (part.end - 1) + 1 = part.end
  BY <1>1
<1>3. rows[part.end].depth \in Nat
  BY <1>1, <1>2, RowFacts
<1>4. part.end = position => rows[part.end].depth >= Top - 2
  BY <1>1, <1>3 DEF Sound
<1>5. QED
  BY <1>4 DEF Sound

\* A level is left: what is so of the levels that stay.
LEMMA PopParts ==
    ASSUME IInv, PartsInv, Running, pc = "visit", pc' = "visit", Top > 1, offers = <<>>,
           stack' \in Seq(LevelType), SameLevels(stack', Below),
           path' = SubSeq(path, 1, stack[Top - 1].path_len),
           measuring' = (IF Inner < Top THEN Inner ELSE Top),
           UNCHANGED <<position, total, offers, rows>>
    PROVE  /\ Top' = Top - 1 /\ Inner' = (IF Inner < Top THEN Inner ELSE Top)
           /\ NestInv' /\ TotalsInv' /\ SplitInv'
           /\ Len(offers') = 0
           /\ RunEnd' = FinishedEnd(Inner - 1)'
           /\ FinishedEnd(Inner - 1)' = IF Inner < Top THEN FinishedEnd(Inner - 1) ELSE position
           /\ \A i \in 1..(Top - 1) : /\ stack'[i].row = stack[i].row
                                      /\ stack'[i].start_total = stack[i].start_total
                                      /\ stack'[i].completed = stack[i].completed
<1>1. /\ Top' = Top - 1 /\ Inner' = (IF Inner < Top THEN Inner ELSE Top)
      /\ Top \in Nat /\ Inner \in 2..(Top + 1)
      /\ Len(Below) = Top - 1 /\ \A k \in 1..(Top - 1) : Below[k] = stack[k]
  BY PopLevels, PopFacts, OpenFacts
<1>2. \A i \in 1..(Top - 1) : /\ stack'[i].row = stack[i].row
                              /\ stack'[i].start_total = stack[i].start_total
                              /\ stack'[i].completed = stack[i].completed
  BY <1>1 DEF SameLevels
<1>3. NestInv' /\ TotalsInv'
  BY <1>1, <1>2, NestSame
<1>4. SplitInv'
  <2>1. SplitInv
    BY RunningFacts
  <2>2. \A i \in 2..(Inner' - 1) : i \in 2..(Inner - 1) /\ i \in 1..(Top - 1)
    BY <1>1
  <2>3. \A i \in Inner'..Top' : i \in Inner..Top /\ i \in 1..(Top - 1)
    BY <1>1
  <2>4. QED
    BY <1>2, <2>1, <2>2, <2>3 DEF SplitInv
<1>5. Len(offers') = 0 /\ RunEnd' = FinishedEnd(Inner - 1)'
  BY EmptySeq DEF RunEnd
<1>6. FinishedEnd(Inner - 1)' = IF Inner < Top THEN FinishedEnd(Inner - 1) ELSE position
  <2>1. CASE Inner < Top
    BY <1>1, <2>1, <1>2 DEF FinishedEnd
  <2>2. CASE ~(Inner < Top)
    BY <1>1, <2>2 DEF FinishedEnd
  <2>3. QED
    BY <2>1, <2>2
<1>7. QED
  BY <1>1, <1>2, <1>3, <1>4, <1>5, <1>6

\* A split directory is finished.
LEMMA FinishSplitParts ==
    ASSUME IInv, PartsInv, FinishSplit
    PROVE  PartsInv'
<1> DEFINE run == RunLevel.run_first
<1>1. /\ pc = "visit" /\ Running /\ Top > 1 /\ Inner = measuring /\ offers = <<>>
      /\ stack[Top].split
      /\ SealIf(SealsAtEnd(stack[Top]), stack, position, "visit")
      /\ stack' = SetRun(Below, Top - 1, position, 0)
      /\ path' = SubSeq(path, 1, stack[Top - 1].path_len)
      /\ measuring' = (IF measuring < Top THEN measuring ELSE Top)
      /\ UNCHANGED <<position, total, offers, rows>>
  BY DEF FinishSplit, Visiting, Running, Inner, Pop, IInv, OffersInv
<1>2. /\ Top \in Nat /\ position \in Nat /\ base \in Nat /\ position \in 0..MaxRows
      /\ Inner = Top + 1 /\ RunLevel = stack[Top] /\ RunEnd = position
      /\ run \in Nat /\ base <= run /\ run <= position
      /\ Len(rows) = position
  <2>1. /\ Top \in Nat /\ position \in Nat /\ base \in Nat /\ Inner \in 2..(Top + 1)
        /\ \A i \in 1..Top : stack[i].split <=> i < Inner
    BY <1>1, OpenFacts
  <2>2. Inner = Top + 1 /\ Inner - 1 = Top
    BY <1>1, <2>1
  <2>3. RunEnd = position /\ RunLevel = stack[Top]
    BY <1>1, <2>2, RunEndFacts DEF RunEnd, RunLevel
  <2>4. run \in Nat /\ base <= run /\ run <= position
    BY <1>1, <2>3, RunEndFacts
  <2>5. position \in 0..MaxRows /\ Len(rows) = position
    BY <1>1, RunningFacts DEF TypeOK
  <2>6. QED
    BY <2>1, <2>2, <2>3, <2>4, <2>5
<1>3. /\ \A k \in DOMAIN parts' : Sound(parts'[k], Top - 2) /\ parts'[k].end <= base'
      /\ base' = position
      /\ pc' \in {"visit", "error"}
  <2>1. CASE SealsAtEnd(stack[Top])
    BY <1>1, <1>2, <2>1, StemLevels, SealSound, SoundLess DEF SealIf, Seal
  <2>2. CASE ~SealsAtEnd(stack[Top])
    <3>1. UNCHANGED <<base, parts>> /\ pc' = "visit" /\ ~(run < position) /\ ~(base <= stack[Top].row)
      BY <1>1, <1>2, <2>2 DEF SealIf, SealsAtEnd
    <3>2. base = position
      <4>1. SUFFICES ASSUME base < run PROVE FALSE
        BY <1>2, <3>1
      <4>2. PICK j \in 2..(Inner - 1) : base = stack[j].row
        BY <1>1, <1>2, <4>1, RunningFacts DEF RunInv, RunLevel
      <4>3. j \in 2..Top /\ Top \in 2..Top /\ j <= Top
        BY <1>1, <1>2
      <4>4. stack[j].row <= stack[Top].row
        BY <1>1, <4>3, LevelOrder
      <4>5. QED
        BY <3>1, <4>2, <4>4
    <3>3. QED
      BY <1>1, <3>1, <3>2, NoSealSound, SoundLess
  <2>3. QED
    BY <2>1, <2>2
<1>4. /\ Below \in Seq(LevelType) /\ Len(Below) = Top - 1 /\ Top - 1 \in 1..Len(Below)
  BY <1>1, <1>2, PopFacts
<1>5. /\ stack' \in Seq(LevelType) /\ SameLevels(stack', Below)
      /\ stack'[Top - 1].run_first = position /\ stack'[Top - 1].run_bytes = 0
  <2>1. position \in 0..NoRun
    BY <1>2, CutAssumption DEF NoRun
  <2>2. RunMoved(stack', Below, Top - 1, position)
    BY <1>1, <1>4, <2>1, SetRunFacts
  <2>3. Below[Top - 1] \in LevelType
    BY <1>4, ElementOfSeq
  <2>4. stack'[Top - 1] = WithRun(Below[Top - 1], position, 0)
    BY <1>1, <1>4 DEF SetRun
  <2>5. QED
    BY <2>1, <2>2, <2>3, <2>4, WithRunLevel DEF RunMoved
<1>6. Top' = Top - 1
  BY <1>4, <1>5 DEF Top, SameLevels
<1>7. AcceptedInv'
  BY <1>2, <1>6, <1>1, <1>3, AcceptedSame DEF Sound
<1>8. SUFFICES ASSUME pc' = "visit"
               PROVE  NestInv' /\ TotalsInv' /\ SplitInv' /\ ChildrenInv' /\ OfferedInv' /\ RunIsInv'
  BY <1>1, <1>2, <1>3, <1>7, PartsInvFrom DEF Running
<1>9. /\ Inner' = Top
      /\ NestInv' /\ TotalsInv' /\ SplitInv'
      /\ Len(offers') = 0 /\ RunEnd' = position /\ FinishedEnd(Inner - 1)' = position
  BY <1>1, <1>2, <1>5, <1>8, PopParts
<1>10. ChildrenInv'
  BY <1>2, <1>6, <1>9 DEF ChildrenInv
<1>11. OfferedInv'
  BY <1>9 DEF OfferedInv, Cover
<1>12. RunIsInv'
  <2>1. RunLevel'.run_first = position /\ RunLevel'.run_bytes = 0
    BY <1>5, <1>9 DEF RunLevel
  <2>2. PICK t : t = Totals(rows')
    OBVIOUS
  <2>3. t[position] - t[position] = 0 /\ FitsIn(t, position, position)
    <3>1. t[position] \in Nat
      BY <1>1, <1>2, <2>2, RunningFacts, BytesFacts
    <3>2. QED
      BY <3>1, CutAssumption DEF FitsIn
  <2>4. Bytes(RunLevel.run_first, RunEnd)' = 0 /\ Fits(RunLevel.run_first, RunEnd)'
    BY <1>9, <2>1, <2>2, <2>3, CoverWillBe
  <2>5. \A r \in position..(position - 1) : FALSE
    BY <1>2
  <2>6. AllOver(base, RunLevel.run_first)'
    BY <1>3, <2>1, <2>5 DEF AllOver
  <2>7. position <= position
    BY <1>2
  <2>8. QED
    BY <1>1, <1>9, <2>1, <2>4, <2>5, <2>6, <2>7 DEF RunIsInv
<1>13. QED
  BY <1>9, <1>10, <1>11, <1>12

-----------------------------------------------------------------------------
(* A measured directory is finished.                                       *)

\* A directory that is not split is finished.
LEMMA FinishMeasuredParts ==
    ASSUME IInv, PartsInv, FinishMeasured
    PROVE  PartsInv'
<1> DEFINE run == RunLevel.run_first
           p == stack[Top].row
           bytes == total - stack[Top].start_total
           c == stack[Top].completed
           kept == SubSeq(completed, 1, c)
           t == Totals(rows')
<1>1. /\ pc = "visit" /\ Running /\ Top > 1 /\ Inner = measuring /\ offers = <<>>
      /\ ~stack[Top].split
      /\ Finished(Below, kept, Top - 1, p, bytes, "visit")
      /\ path' = SubSeq(path, 1, stack[Top - 1].path_len)
      /\ measuring' = (IF measuring < Top THEN measuring ELSE Top)
      /\ UNCHANGED <<position, total, offers, rows>>
  BY DEF FinishMeasured, Visiting, Running, Inner, Pop, IInv, OffersInv
<1>2. /\ TypeOK /\ Len(rows) = position /\ TotalsInv /\ SplitInv /\ RunIsInv /\ ChildrenInv /\ CompletedInv
      /\ Top \in Nat /\ Top \in 1..Top /\ Top \in 2..Top /\ Top - 1 \in 1..Top
      /\ position \in Nat /\ position \in 0..MaxRows /\ base \in Nat
      /\ Inner \in 2..Top
      /\ \A i \in 1..Top : stack[i].split <=> i < Inner
      /\ completed \in Seq(ChildType) /\ Len(completed) \in Nat
  <2>1. /\ Top \in Nat /\ Inner \in 2..(Top + 1) /\ position \in Nat /\ base \in Nat
        /\ \A i \in 1..Top : stack[i].split <=> i < Inner
        /\ completed \in Seq(ChildType) /\ Len(completed) \in Nat
    BY <1>1, OpenFacts
  <2>2. Top \in 1..Top /\ Top \in 2..Top /\ Top - 1 \in 1..Top /\ Inner \in 2..Top
    BY <1>1, <2>1
  <2>3. /\ TypeOK /\ Len(rows) = position /\ TotalsInv /\ SplitInv /\ RunIsInv
        /\ ChildrenInv /\ CompletedInv
    BY <1>1, RunningFacts
  <2>4. QED
    BY <2>1, <2>2, <2>3 DEF TypeOK
<1>3. /\ p \in Nat /\ p < position /\ c \in Nat /\ c <= Len(completed)
      /\ bytes \in Nat /\ bytes <= Budget
  <2>1. /\ \A i \in 1..Top : stack[i].row \in Nat /\ stack[i].completed \in Nat
        /\ \A i \in 2..Top : /\ stack[i].row < position
                             /\ stack[i].start_total \in Nat
                             /\ stack[i].start_total <= total
        /\ total \in Nat
    BY <1>1, OpenFacts
  <2>2. bytes <= Budget
    BY <1>2, <1>1 DEF SplitInv
  <2>3. c <= Len(completed)
    BY <1>2 DEF CompletedInv
  <2>4. bytes \in Nat
    BY <1>2, <2>1
  <2>5. QED
    BY <1>2, <2>1, <2>2, <2>3, <2>4
<1>4. ~OverBudget(p)
  BY <1>1, <1>2, <1>3, OpenLevels, CutAssumption
<1>5. /\ \A r \in 0..position : t[r] \in Nat
      /\ WholeIn(t, Child(p, bytes), position)
      /\ t = Totals(rows)
  BY <1>1, <1>2, BytesFacts, <1>3 DEF TotalsInv, WholeIn, FitsIn, Child
<1>6. /\ run \in Nat /\ RunEnd \in Nat /\ base <= run /\ run <= RunEnd /\ RunEnd <= p
      /\ RunEnd = FinishedEnd(Inner - 1) /\ RunEnd = stack[Inner].row
      /\ RunLevel.run_bytes = t[RunEnd] - t[run] /\ FitsIn(t, run, RunEnd)
      /\ AllOver(base, run)
      /\ \A r \in run..(position - 1) : OverBudget(r) => \E i \in Inner..Top : r = stack[i].row
  <2>1. /\ run \in Nat /\ RunEnd \in Nat /\ base <= run /\ run <= RunEnd
        /\ RunEnd = FinishedEnd(Inner - 1) /\ RunEnd = stack[Inner].row
    BY <1>1, <1>2, RunEndFacts DEF RunEnd
  <2>2. stack[Inner].row <= p
    BY <1>1, <1>2, LevelOrder
  <2>3. QED
    BY <1>2, <1>5, <2>1, <2>2, CoverIs DEF RunIsInv
<1>7. /\ Below \in Seq(LevelType) /\ Len(Below) = Top - 1 /\ Top - 1 \in 1..Len(Below)
      /\ \A k \in 1..(Top - 1) : Below[k] = stack[k]
  BY <1>1, <1>2, PopFacts
<1> HIDE DEF run, p, bytes, c, kept, t
<1>8. CASE Inner = Top
  <2>1. AddToRun(Below, Top - 1, p, bytes, "visit") /\ Below[Top - 1] = RunLevel
    BY <1>1, <1>2, <1>7, <1>8 DEF Finished, RunLevel
  <2> DEFINE full == RunIsFull(RunLevel, p, bytes)
  <2>2. RunEnd = p
    BY <1>6, <1>8 DEF p
  <2>3. /\ stack' \in Seq(LevelType) /\ SameLevels(stack', Below)
        /\ stack'[Top - 1].run_first = IF full THEN p ELSE run
        /\ stack'[Top - 1].run_first \in Nat
        /\ stack'[Top - 1].run_bytes = t[position] - t[stack'[Top - 1].run_first]
        /\ FitsIn(t, stack'[Top - 1].run_first, position)
    <3>1. Below[Top - 1].run_first <= p /\ Below[Top - 1].run_bytes = t[p] - t[Below[Top - 1].run_first]
      BY <1>6, <2>1, <2>2 DEF run
    <3>2. p <= position
      BY <1>2, <1>3
    <3>3. RunTaken(stack', t, Below, Top - 1, p, bytes, position)
      BY <1>2, <1>3, <1>5, <1>7, <2>1, <3>1, <3>2, RunTakes
    <3>4. QED
      BY <2>1, <3>3 DEF RunTaken, run
  <2>4. /\ \A k \in DOMAIN parts' : Sound(parts'[k], Top - 1) /\ parts'[k].end <= base'
        /\ base' = IF full THEN p ELSE base
        /\ pc' \in {"visit", "error"}
    <3>1. CASE full
      <4>1. Seal(Below, RunEnd, "visit")
        BY <2>1, <2>2, <3>1 DEF AddToRun, SealIf
      <4>2. run < RunEnd
        BY <2>2, <3>1 DEF RunIsFull, run
      <4>3. base < position => \A k \in 1..(rows[base + 1].depth + 1) : Below[k].path_len = k - 1
        BY <1>2, <1>8, <1>1, <1>7, StemLevels
      <4>4. /\ base' = RunEnd
            /\ \A k \in DOMAIN parts' : Sound(parts'[k], Top - 1) /\ parts'[k].end <= base'
        BY <1>1, <4>1, <4>2, <4>3, SealSound DEF run
      <4>5. QED
        BY <2>2, <3>1, <4>1, <4>4 DEF Seal
    <3>2. CASE ~full
      BY <2>1, <3>2, <1>1, NoSealSound DEF AddToRun, SealIf
    <3>3. QED
      BY <3>1, <3>2
  <2>5. Top' = Top - 1
    BY <1>7, <2>3 DEF Top, SameLevels
  <2>6. AcceptedInv'
    BY <1>2, <2>5, <1>1, <2>4, SoundLess, AcceptedSame DEF Sound
  <2>7. SUFFICES ASSUME pc' = "visit"
                 PROVE  NestInv' /\ TotalsInv' /\ SplitInv' /\ ChildrenInv' /\ OfferedInv' /\ RunIsInv'
    BY <1>1, <1>2, <2>4, <2>6, PartsInvFrom DEF Running
  <2>8. /\ Inner' = Top
        /\ NestInv' /\ TotalsInv' /\ SplitInv'
        /\ Len(offers') = 0 /\ RunEnd' = position /\ FinishedEnd(Inner - 1)' = position
    BY <1>1, <1>2, <1>8, <2>3, <2>7, PopParts
  <2>9. ChildrenInv'
    BY <1>2, <2>5, <2>8 DEF ChildrenInv
  <2>10. OfferedInv'
    BY <2>8 DEF OfferedInv, Cover
  <2>11. RunIsInv'
    <3>1. RunLevel' = stack'[Top - 1]
      BY <2>8 DEF RunLevel
    <3>2. /\ RunLevel'.run_bytes = Bytes(RunLevel.run_first, RunEnd)'
          /\ Fits(RunLevel.run_first, RunEnd)'
      BY <2>3, <2>8, <3>1, CoverWillBe DEF t
    <3>3. RunLevel'.run_first <= RunEnd' /\ run <= RunLevel'.run_first
      BY <1>2, <1>3, <1>6, <2>2, <2>3, <2>8, <3>1
    <3>4. \A r : OverBudget(r)' <=> OverBudget(r)
      BY <1>1, SameTree
    <3>5. AllOver(base, RunLevel.run_first)'
      BY <1>3, <1>6, <2>3, <2>4, <3>1, <3>4 DEF AllOver
    <3>6. \A r \in RunLevel'.run_first..(position' - 1) :
              OverBudget(r)' => \E i \in Inner'..Top' : r = stack'[i].row
      <4>1. \A r \in RunLevel'.run_first..(position' - 1) : r \in run..(position - 1)
        BY <1>1, <1>2, <1>6, <2>3, <3>1, <3>3
      <4>2. \A i \in Inner..Top : stack[i].row = p
        BY <1>2, <1>8 DEF p
      <4>3. \A r \in run..(position - 1) : ~OverBudget(r)
        BY <1>4, <1>6, <4>2
      <4>4. QED
        BY <3>4, <4>1, <4>3
    <3>7. QED
      BY <3>2, <3>3, <3>5, <3>6 DEF RunIsInv
  <2>12. QED
    BY <2>8, <2>9, <2>10, <2>11
<1>9. CASE Inner < Top
  <2>1. /\ ~Below[Top - 1].split /\ Inner <= Top - 1 /\ Inner - 1 \in 1..(Top - 1)
    BY <1>2, <1>7, <1>9
  <2>2. /\ stack' = Below /\ completed' = Append(kept, Child(p, bytes))
        /\ UNCHANGED <<base, parts>> /\ pc' = "visit"
    BY <1>1, <2>1 DEF Finished
  <2>3. stack' \in Seq(LevelType) /\ SameLevels(stack', Below)
    BY <1>7, <2>2 DEF SameLevels
  <2>4. /\ Top' = Top - 1 /\ Inner' = Inner
        /\ NestInv' /\ TotalsInv' /\ SplitInv'
        /\ Len(offers') = 0 /\ RunEnd' = RunEnd
        /\ FinishedEnd(Inner - 1)' = FinishedEnd(Inner - 1)
        /\ \A i \in 1..(Top - 1) : stack'[i] = stack[i]
    BY <1>1, <1>9, <2>2, <2>3, PopParts, <1>6, <1>7
  <2>5. AcceptedInv'
    BY <1>2, <2>4, <1>1, <2>2, NoSealSound, SoundLess, AcceptedSame DEF Sound
  <2>6. OfferedInv'
    BY <1>6, <2>4 DEF OfferedInv, Cover
  <2>7. RunIsInv'
    <3>1. RunLevel' = RunLevel
      BY <2>1, <2>4 DEF RunLevel
    <3>2. RunLevel'.run_bytes = Bytes(RunLevel.run_first, RunEnd)' /\ Fits(RunLevel.run_first, RunEnd)'
      BY <1>6, <2>4, <3>1, CoverWillBe DEF t, run
    <3>3. \A r : OverBudget(r)' <=> OverBudget(r)
      BY <1>1, SameTree
    <3>4. AllOver(base, RunLevel.run_first)'
      BY <1>6, <2>2, <3>1, <3>3 DEF AllOver, run
    <3>5. \A r \in RunLevel'.run_first..(position' - 1) :
              OverBudget(r)' => \E i \in Inner'..Top' : r = stack'[i].row
      <4>1. \A i \in Inner..Top : i \in Inner..(Top - 1) \/ i = Top
        BY <1>2
      <4>2. \A i \in Inner..(Top - 1) : i \in 1..(Top - 1)
        BY <1>2
      <4>3. ASSUME NEW r \in run..(position - 1), OverBudget(r)
            PROVE  \E i \in Inner..(Top - 1) : r = stack'[i].row
        BY <1>4, <1>6, <2>4, <4>1, <4>2, <4>3 DEF p
      <4>4. QED
        BY <1>1, <2>4, <3>1, <3>3, <4>3 DEF run
    <3>6. QED
      BY <1>6, <2>4, <3>1, <3>2, <3>4, <3>5 DEF RunIsInv, run
  <2>8. ChildrenInv'
    <3>1. /\ Len(completed') = c + 1
          /\ \A k \in 1..c : completed'[k] = completed[k]
          /\ completed'[c + 1] = Child(p, bytes)
      BY <1>2, <1>3, ElementOfSeq, SubSeqProperties, <2>2, LenProperties DEF kept
    <3>2. SUFFICES ASSUME NEW i \in Inner..(Top - 1)
                   PROVE  CoverIn(t, completed', stack[i].completed + 1, LastChild(i)',
                                  Contents(i), FinishedEnd(i)')
      BY <1>2, <2>4, CoverWillBe DEF Contents, ChildrenInv, t
    <3>3. i \in Inner..Top /\ i < Top /\ i + 1 \in 1..Top /\ (~(i < Top - 1) => i = Top - 1)
          /\ (i < Top - 1 => i + 1 \in 1..(Top - 1))
      BY <1>2
    <3>4. /\ stack[i].completed \in Nat /\ LastChild(i) \in Nat
          /\ stack[i].completed <= LastChild(i) /\ LastChild(i) <= c
      <4>1. LastChild(i) = stack[i + 1].completed /\ stack[i + 1].completed <= c
        BY <1>2, <3>3 DEF CompletedInv, LastChild, c
      <4>2. Inner <= Top
        BY <1>2
      <4>3. stack[i].completed \in Nat /\ LastChild(i) \in Nat /\ stack[i].completed <= LastChild(i)
        BY <1>1, <3>3, <4>2, ChildrenBefore
      <4>4. QED
        BY <4>1, <4>3
    <3>5. CoverIn(t, completed, stack[i].completed + 1, LastChild(i), Contents(i), FinishedEnd(i))
      BY <1>2, <1>5, <3>3, CoverIs DEF ChildrenInv
    <3> DEFINE lo == stack[i].completed + 1
               hi == LastChild(i)
    <3>6. /\ lo \in Int /\ hi \in Int /\ lo <= hi + 1
          /\ \A k \in lo..hi : completed'[k] = completed[k]
      <4>1. \A k \in lo..hi : k \in 1..c
        BY <1>3, <3>4
      <4>2. QED
        BY <3>1, <3>4, <4>1
    <3>7. CASE i = Top - 1
      <4>1. hi = c /\ LastChild(i)' = c + 1 /\ FinishedEnd(i) = p /\ FinishedEnd(i)' = position
        <5>1. ~(Top - 1 < Top - 1) /\ i + 1 = Top
          BY <1>2, <3>7
        <5>2. QED
          BY <1>1, <2>4, <3>1, <3>3, <3>7, <5>1 DEF LastChild, FinishedEnd, c, p
      <4> HIDE DEF lo, hi
      <4>2. completed'[hi + 1].position = FinishedEnd(i) /\ WholeIn(t, completed'[hi + 1], position)
        BY <1>5, <3>1, <4>1 DEF Child
      <4>3. CoverIn(t, completed', lo, hi + 1, Contents(i), position)
        BY <3>5, <3>6, <4>2, CoverAppend DEF lo, hi
      <4>4. QED
        BY <4>1, <4>3 DEF lo
    <3>8. CASE i < Top - 1
      <4>1. LastChild(i)' = hi /\ FinishedEnd(i)' = FinishedEnd(i)
        BY <2>4, <3>3, <3>8 DEF LastChild, FinishedEnd
      <4> HIDE DEF lo, hi
      <4>2. CoverIn(t, completed', lo, hi, Contents(i), FinishedEnd(i))
        BY <3>5, <3>6, CoverStays DEF lo, hi
      <4>3. QED
        BY <4>1, <4>2 DEF lo
    <3>9. QED
      BY <3>3, <3>7, <3>8
  <2>9. QED
    BY <1>1, <1>2, <2>4, <2>5, <2>6, <2>7, <2>8, PartsInvFrom
<1>10. QED
  BY <1>2, <1>8, <1>9

-----------------------------------------------------------------------------
(* The children of a level that is split.                                  *)

\* A finished child of the level that has just been split goes into its run.
LEMMA OfferParts ==
    ASSUME IInv, PartsInv, Offer
    PROVE  PartsInv'
<1> DEFINE m == measuring
           run == RunLevel.run_first
           p == offers[1].position
           bytes == offers[1].bytes
           n == Len(offers)
           last == FinishedEnd(Inner - 1)
           e == IF 1 < n THEN offers[2].position ELSE last
           full == RunIsFull(RunLevel, p, bytes)
           t == Totals(rows')
<1>1. /\ pc = "offer" /\ Running /\ Inner = m + 1 /\ offers # <<>>
      /\ AddToRun(stack, m, p, bytes, "offer")
      /\ offers' = Tail(offers)
      /\ UNCHANGED <<position, total, measuring, completed, rows>>
      /\ TypeOK /\ Len(rows) = position /\ OffersInv /\ SplitInv /\ ChildrenInv /\ OfferedInv /\ RunIsInv
  BY RunningFacts DEF Offer, Running, Inner
<1>2. /\ Top \in Nat /\ m \in 1..Top /\ m = Inner - 1 /\ RunLevel = stack[m] /\ RunEnd = p
      /\ stack \in Seq(LevelType) /\ Top = Len(stack)
      /\ position \in Nat /\ position \in 0..MaxRows /\ base \in Nat
      /\ p \in Nat /\ bytes \in Nat /\ n \in Nat /\ n >= 1
      /\ \A i \in Inner..Top : i \in 1..Top
  <2>1. /\ Top \in Nat /\ m + 1 \in 2..(Top + 1) /\ m \in Nat
        /\ stack \in Seq(LevelType) /\ Top = Len(stack) /\ position \in Nat /\ base \in Nat
        /\ position \in 0..MaxRows
    BY <1>1, OpenFacts DEF TypeOK
  <2>2. offers \in Seq(ChildType) /\ n \in Nat /\ n # 0
    BY <1>1, EmptySeq, LenProperties DEF TypeOK
  <2>3. offers[1] \in ChildType /\ n >= 1
    BY <2>2, ElementOfSeq
  <2>4. p \in Nat /\ bytes \in Nat
    BY <2>3 DEF ChildType
  <2>5. m \in 1..Top /\ m = Inner - 1 /\ \A i \in Inner..Top : i \in 1..Top
    BY <1>1, <2>1
  <2>6. QED
    BY <1>1, <2>1, <2>2, <2>3, <2>4, <2>5 DEF RunEnd, RunLevel
<1>3. /\ offers' \in Seq(ChildType) /\ Len(offers') = n - 1
      /\ \A k \in 1..(n - 1) : offers'[k] = offers[k + 1]
  BY <1>1, HeadTailProperties DEF TypeOK
<1>4. /\ last \in Nat /\ last <= position
      /\ run \in Nat /\ base <= run /\ run <= p /\ p < position
  BY <1>1, <1>2, RunEndFacts DEF OffersInv
<1>5. e \in 0..position
  <2>1. CASE 1 < n
    <3>1. 2 \in 1..n /\ offers \in Seq(ChildType)
      BY <1>1, <1>2, <2>1 DEF TypeOK
    <3>2. offers[2] \in ChildType
      BY <3>1, ElementOfSeq
    <3>3. offers[2].position \in Nat /\ offers[2].position < last
      BY <1>1, <3>1, <3>2 DEF OffersInv, ChildType
    <3>4. QED
      BY <1>2, <1>4, <2>1, <3>3
  <2>2. CASE ~(1 < n)
    BY <1>2, <1>4, <2>2
  <2>3. QED
    BY <2>1, <2>2
<1>6. /\ \A r \in 0..position : t[r] \in Nat
      /\ t = Totals(rows)
  BY <1>1, <1>2, BytesFacts
<1>7. WholeIn(t, Child(p, bytes), e) /\ p < e /\ CoverIn(t, offers, 2, n, e, last)
  <2> HIDE DEF n, e, t, last
  <2>1. CoverIn(t, offers, 1, n, p, last)
    BY <1>1, <1>2, <1>6, CoverIs DEF OfferedInv, n, last
  <2>2. 1 \in Int /\ n \in Int /\ 1 <= n /\ 1 + 1 = 2
    BY <1>2
  <2>3. /\ WholeIn(t, offers[1], IF 1 < n THEN offers[1 + 1].position ELSE last)
        /\ CoverIn(t, offers, 1 + 1, n, IF 1 < n THEN offers[1 + 1].position ELSE last, last)
    BY <2>1, <2>2, CoverTail
  <2>4. WholeIn(t, offers[1], e) /\ CoverIn(t, offers, 2, n, e, last)
    BY <2>2, <2>3 DEF e
  <2>5. QED
    BY <2>4 DEF WholeIn, Child
<1>8. /\ RunLevel.run_bytes = t[p] - t[run]
      /\ AllOver(base, run)
      /\ \A r \in run..(position - 1) : OverBudget(r) => \E i \in Inner..Top : r = stack[i].row
  BY <1>1, <1>2, <1>6, CoverIs DEF RunIsInv
<1> HIDE DEF m, run, p, bytes, n, last, e, t
<1>9. /\ stack' \in Seq(LevelType) /\ SameLevels(stack', stack)
      /\ stack'[m].run_first = IF full THEN p ELSE run
      /\ stack'[m].run_first \in Nat
      /\ stack'[m].run_bytes = t[e] - t[stack'[m].run_first]
      /\ FitsIn(t, stack'[m].run_first, e)
  <2>1. stack[m].run_first <= p /\ stack[m].run_bytes = t[p] - t[stack[m].run_first]
    BY <1>2, <1>4, <1>8 DEF run
  <2>2. p <= position /\ e \in Nat /\ \A r \in 0..e : t[r] \in Nat
    BY <1>2, <1>4, <1>5, <1>6
  <2>3. RunTaken(stack', t, stack, m, p, bytes, e)
    BY <1>1, <1>2, <1>7, <2>1, <2>2, RunTakes
  <2>4. QED
    BY <1>2, <2>3 DEF RunTaken, run
<1>10. /\ \A k \in DOMAIN parts' : Sound(parts'[k], Top - 1) /\ parts'[k].end <= base'
       /\ base' = IF full THEN p ELSE base
       /\ pc' \in {"offer", "error"}
  <2>1. CASE full
    <3>1. Seal(stack, RunEnd, "offer")
      BY <1>1, <1>2, <2>1 DEF AddToRun, SealIf
    <3>2. run < RunEnd
      BY <1>2, <2>1 DEF RunIsFull, run
    <3>3. base < position => \A k \in 1..(rows[base + 1].depth + 1) : stack[k].path_len = k - 1
      BY <1>1, StemLevels
    <3>4. /\ base' = RunEnd
          /\ \A k \in DOMAIN parts' : Sound(parts'[k], Top - 1) /\ parts'[k].end <= base'
      BY <1>1, <3>1, <3>2, <3>3, SealSound DEF run
    <3>5. QED
      BY <1>2, <2>1, <3>1, <3>4 DEF Seal
  <2>2. CASE ~full
    BY <1>1, <1>2, <2>2, NoSealSound DEF AddToRun, SealIf
  <2>3. QED
    BY <2>1, <2>2
<1>11. /\ Top' = Top
       /\ \A i \in 1..Top : /\ stack'[i].row = stack[i].row
                            /\ stack'[i].start_total = stack[i].start_total
                            /\ stack'[i].completed = stack[i].completed
  BY <1>2, <1>9 DEF SameLevels, Top
<1>12. AcceptedInv'
  BY <1>1, <1>10, <1>11, AcceptedSame DEF Sound
<1>13. SUFFICES ASSUME pc' = "offer"
                PROVE  NestInv' /\ TotalsInv' /\ SplitInv' /\ ChildrenInv' /\ OfferedInv' /\ RunIsInv'
  BY <1>1, <1>10, <1>12, PartsInvFrom DEF Running
<1>14. Inner' = Inner
  BY <1>1, <1>13 DEF Inner
<1>15. NestInv' /\ TotalsInv'
  BY <1>2, <1>11, <1>1, NestSame
<1>16. SplitInv'
  BY <1>2, <1>1, <1>11, <1>13, <1>14 DEF SplitInv
<1>17. ASSUME NEW i \in 1..Top
       PROVE  Contents(i)' = Contents(i) /\ FinishedEnd(i)' = FinishedEnd(i) /\ LastChild(i)' = LastChild(i)
  <2>1. i < Top => i + 1 \in 1..Top
    BY <1>2
  <2>2. QED
    BY <1>1, <1>11, <2>1 DEF Contents, FinishedEnd, LastChild
<1>18. ChildrenInv'
  <2>1. ASSUME NEW i \in Inner..Top
        PROVE  CoverIn(t, completed', stack'[i].completed + 1, LastChild(i)', Contents(i)', FinishedEnd(i)')
    BY <1>1, <1>6, CoverIs, <1>2, <1>11, <1>17 DEF ChildrenInv
  <2>2. QED
    BY <1>11, <1>14, <2>1, CoverWillBe DEF ChildrenInv, t
<1>19. FinishedEnd(Inner - 1)' = last /\ RunEnd' = e
  <2>1. FinishedEnd(Inner - 1)' = last
    BY <1>17, <1>2, <1>14 DEF last, FinishedEnd
  <2>2. CASE 1 < n
    BY <1>2, <1>3, <2>2, <2>1, EmptySeq DEF RunEnd, e
  <2>3. CASE ~(1 < n)
    BY <1>2, <1>3, <2>3, EmptySeq, <2>1 DEF RunEnd, e
  <2>4. QED
    BY <2>1, <2>2, <2>3
<1>20. OfferedInv'
  <2>1. \A k \in 2..n : offers'[k + (-1)] = offers[k]
    BY <1>2, <1>3
  <2>2. CoverIn(t, offers', 2 + (-1), n + (-1), e, last)
    <3>1. 2 \in Int /\ n \in Int /\ -1 \in Int
      BY <1>2
    <3>2. QED
      BY <1>7, <2>1, <3>1, CoverMoves
  <2>3. 2 + (-1) = 1 /\ n + (-1) = Len(offers')
    BY <1>2, <1>3
  <2>4. CoverIn(t, offers', 1, Len(offers'), e, last)
    BY <2>2, <2>3
  <2>5. QED
    BY <1>19, <2>4, CoverWillBe DEF OfferedInv, t
<1>21. RunIsInv'
  <2>1. RunLevel' = stack'[m]
    BY <1>2, <1>14 DEF RunLevel
  <2>2. /\ RunLevel'.run_bytes = Bytes(RunLevel.run_first, RunEnd)'
        /\ Fits(RunLevel.run_first, RunEnd)'
    BY <1>9, <1>19, <2>1, CoverWillBe DEF t
  <2>3. RunLevel'.run_first <= RunEnd' /\ run <= RunLevel'.run_first
    <3>1. e \in Nat
      BY <1>2, <1>5
    <3>2. QED
      BY <1>2, <1>4, <1>7, <1>9, <1>19, <2>1, <3>1
  <2>4. \A r : OverBudget(r)' <=> OverBudget(r)
    BY <1>1, SameTree
  <2>5. AllOver(base, RunLevel.run_first)'
    BY <1>2, <1>8, <1>9, <1>10, <2>1, <2>4 DEF AllOver
  <2>6. \A r \in RunLevel'.run_first..(position' - 1) :
            OverBudget(r)' => \E i \in Inner'..Top' : r = stack'[i].row
    <3>1. \A r \in RunLevel'.run_first..(position' - 1) : r \in run..(position - 1)
      BY SMTT(60), <1>1, <1>2, <1>4, <1>9, <2>1, <2>3
    <3>2. \A i \in Inner..Top : i \in 1..Top
      BY <1>2
    <3>3. QED
      BY <1>8, <1>11, <1>14, <2>4, <3>1, <3>2
  <2>7. QED
    BY <2>2, <2>3, <2>5, <2>6 DEF RunIsInv
<1>22. QED
  BY <1>15, <1>16, <1>18, <1>20, <1>21

-----------------------------------------------------------------------------
(* A level is split.                                                       *)

\* The run that the split opens holds nothing.
LEMMA SplitRunEmpty ==
    ASSUME NEW m \in 1..Top, NEW n, stack[m] \in LevelType, stack[m].row + 1 \in 0..NoRun
    PROVE  SplitLevels(m, n)[m].run_bytes = 0
<1> DEFINE moved == WithRun(stack[m], stack[m].row + 1, 0)
<1>1. moved \in LevelType /\ moved.run_bytes = 0
  <2>1. 0 \in Nat
    OBVIOUS
  <2>2. QED
    BY <2>1, WithRunLevel
<1>2. SplitLevels(m, n)[m] = [moved EXCEPT !.split = TRUE]
  BY DEF SplitLevels
<1> HIDE DEF moved
<1>3. [moved EXCEPT !.split = TRUE].run_bytes = moved.run_bytes
  BY <1>1 DEF LevelType
<1>4. QED
  BY <1>1, <1>2, <1>3

\* The outermost directory that is not split passes the budget.
LEMMA SplitParts ==
    ASSUME IInv, PartsInv, Split
    PROVE  PartsInv'
<1> DEFINE m == measuring
           n == IF m < Top THEN stack[m + 1].completed ELSE Len(completed)
           run == RunLevel.run_first
           s == stack[m].row
           t == Totals(rows')
<1>1. SplitMade(m, n)
  BY SplitFacts
<1>2. /\ pc = "budget" /\ Running /\ Inner = m /\ m <= Top /\ offers = <<>>
      /\ total - stack[m].start_total > Budget
      /\ SealIf(ClosesRun(m), stack, s, "offer")
      /\ UNCHANGED <<position, total, measuring, rows>>
      /\ TypeOK /\ Len(rows) = position /\ SplitInv /\ ChildrenInv /\ RunIsInv /\ CompletedInv
  BY RunningFacts DEF Split, Running, Inner, PastBudget, OffersInv
<1>3. /\ Top \in Nat /\ m \in 2..Top /\ m \in 1..Top /\ m - 1 \in 1..Top
      /\ position \in Nat /\ position \in 0..MaxRows /\ base \in Nat
      /\ s \in Nat /\ s < position /\ stack[m] \in LevelType
      /\ Len(completed) \in Nat
      /\ \A i \in m..Top : i \in 1..Top
  <2>1. /\ Top \in Nat /\ m \in 2..(Top + 1) /\ position \in Nat /\ base \in Nat
        /\ \A i \in 1..Top : stack[i].row \in Nat
        /\ \A i \in 2..Top : stack[i].row < position
        /\ \A i \in 1..Top : stack[i] \in LevelType
        /\ Len(completed) \in Nat
    BY <1>2, OpenFacts, LevelTypes
  <2>2. m \in 2..Top /\ m \in 1..Top /\ m - 1 \in 1..Top /\ \A i \in m..Top : i \in 1..Top
    BY <1>2, <2>1
  <2>3. QED
    BY <1>2, <2>1, <2>2 DEF TypeOK
<1>4. /\ RunLevel = stack[m - 1] /\ RunEnd = s
      /\ run \in Nat /\ base <= run /\ run <= s
      /\ AllOver(base, run)
      /\ \A r \in run..(position - 1) : OverBudget(r) => \E i \in m..Top : r = stack[i].row
  BY <1>2, RunEndFacts DEF RunLevel, RunEnd, RunIsInv
<1>5. OverBudget(s)
  BY <1>2, <1>3, OpenLevels
<1>6. /\ \A r \in 0..position : t[r] \in Nat
      /\ t = Totals(rows)
  BY <1>2, <1>3, BytesFacts
<1>7. /\ n \in Nat /\ n <= Len(completed) /\ stack[m].completed = 0 /\ LastChild(m) = n
  BY <1>1 DEF SplitMade, LastChild
<1>8. /\ Top' = Top
      /\ \A i \in 1..Top : /\ stack'[i].row = stack[i].row
                           /\ stack'[i].start_total = stack[i].start_total
                           /\ m < i => stack'[i].completed = stack[i].completed - n
      /\ stack'[m].run_first = s + 1
      /\ stack'[m].run_bytes = 0
      /\ Len(offers') = n /\ offers' \in Seq(ChildType)
      /\ \A k \in 1..n : offers'[k] = completed[k]
      /\ Len(completed') = Len(completed) - n
      /\ \A k \in 1..(Len(completed) - n) : completed'[k] = completed[k + n]
      /\ \A i \in 1..Top : m < i => n <= stack[i].completed
  <2>1. s + 1 \in 0..NoRun
    BY <1>3, CutAssumption DEF NoRun
  <2> HIDE DEF m, n
  <2>2. stack'[m].run_bytes = 0
    BY <1>1, <1>3, <2>1, SplitRunEmpty DEF SplitMade
  <2>3. QED
    BY <1>1, <2>2 DEF SplitMade
<1> HIDE DEF m, n, run, s, t
<1>9. /\ \A k \in DOMAIN parts' : Sound(parts'[k], Top - 1) /\ parts'[k].end <= base'
      /\ base' = IF run < s THEN s ELSE base
      /\ pc' \in {"offer", "error"}
  <2>1. CASE run < s
    <3>1. Seal(stack, RunEnd, "offer")
      BY <1>2, <1>4, <2>1 DEF SealIf, ClosesRun, run, s
    <3>2. base < position => \A k \in 1..(rows[base + 1].depth + 1) : stack[k].path_len = k - 1
      BY <1>2, StemLevels
    <3>3. /\ base' = RunEnd
          /\ \A k \in DOMAIN parts' : Sound(parts'[k], Top - 1) /\ parts'[k].end <= base'
      BY <1>2, <1>4, <2>1, <3>1, <3>2, SealSound DEF run
    <3>4. QED
      BY <1>4, <2>1, <3>1, <3>3 DEF Seal
  <2>2. CASE ~(run < s)
    BY <1>2, <1>4, <2>2, NoSealSound DEF SealIf, ClosesRun, run, s
  <2>3. QED
    BY <2>1, <2>2
<1>10. AcceptedInv'
  BY <1>2, <1>8, <1>9, AcceptedSame DEF Sound
<1>11. SUFFICES ASSUME pc' = "offer"
                PROVE  NestInv' /\ TotalsInv' /\ SplitInv' /\ ChildrenInv' /\ OfferedInv' /\ RunIsInv'
  BY <1>2, <1>9, <1>10, PartsInvFrom DEF Running
<1>12. Inner' = m + 1
  BY <1>2, <1>11 DEF Inner, m
<1>13. NestInv' /\ TotalsInv'
  BY <1>3, <1>8, <1>2, NestSame
<1>14. SplitInv'
  <2>1. \A i \in 2..m : i \in 1..Top /\ (i \in 2..(m - 1) \/ i = m)
    BY <1>3
  <2>2. Inner' - 1 = m
    BY <1>3, <1>12
  <2>3. \A i \in 2..m : total' - stack'[i].start_total > Budget
    <3>1. \A i \in 2..(m - 1) : total - stack[i].start_total > Budget
      BY <1>2 DEF SplitInv
    <3>2. QED
      BY <1>2, <1>8, <2>1, <3>1
  <2>4. QED
    BY <1>11, <2>2, <2>3 DEF SplitInv
<1>15. ASSUME NEW i \in 1..Top
       PROVE  Contents(i)' = Contents(i) /\ FinishedEnd(i)' = FinishedEnd(i)
  <2>1. i < Top => i + 1 \in 1..Top
    BY <1>3
  <2>2. QED
    BY <1>2, <1>8, <2>1 DEF Contents, FinishedEnd
<1>16. CoverIn(t, completed, 1, n, s + 1, FinishedEnd(m))
  BY <1>2, <1>3, <1>6, CoverIs, <1>7 DEF ChildrenInv, Contents, s
<1>17. FinishedEnd(Inner - 1)' = FinishedEnd(m) /\ RunEnd' = s + 1
  <2>1. Inner' - 1 = m
    BY <1>3, <1>12
  <2>2. FinishedEnd(Inner - 1)' = FinishedEnd(m)
    BY <1>15, <1>3, <2>1 DEF FinishedEnd
  <2>3. CASE n = 0
    BY <1>8, <2>3, EmptySeq, <1>16, <2>2 DEF CoverIn, RunEnd
  <2>4. CASE n # 0
    BY <1>7, <2>4, <1>8, EmptySeq, <1>16, <2>2 DEF CoverIn, RunEnd
  <2>5. QED
    BY <2>3, <2>4
<1>18. OfferedInv'
  <2>1. CoverIn(t, offers', 1, n, s + 1, FinishedEnd(m))
    <3>1. 1 \in Int /\ n \in Int /\ \A k \in 1..n : offers'[k] = completed[k]
      BY <1>7, <1>8
    <3>2. QED
      BY <1>16, <3>1, CoverStays
  <2>2. QED
    BY <1>8, <1>17, <2>1, CoverWillBe DEF OfferedInv, t
<1>19. ChildrenInv'
  <2>1. SUFFICES ASSUME NEW i \in (m + 1)..Top
                 PROVE  CoverIn(t, completed', stack'[i].completed + 1, LastChild(i)',
                                Contents(i)', FinishedEnd(i)')
    BY <1>8, <1>12, CoverWillBe DEF ChildrenInv, t
  <2>2. i \in Inner..Top /\ i \in 1..Top /\ m < i
        /\ (i < Top => i + 1 \in 1..Top /\ m < i + 1) /\ Inner <= Top
    BY <1>2, <1>3
  <2>3. /\ stack[i].completed \in Nat /\ LastChild(i) \in Nat /\ LastChild(i) <= Len(completed)
        /\ n <= stack[i].completed
    BY <1>2, <1>8, <2>2, ChildrenBefore
  <2> DEFINE lo == stack[i].completed + 1
             hi == LastChild(i)
  <2>4. CoverIn(t, completed, lo, hi, Contents(i), FinishedEnd(i))
    BY <1>2, <1>6, <2>2, CoverIs DEF ChildrenInv
  <2>5. \A k \in lo..hi : completed'[k + (-n)] = completed[k]
    <3>1. ASSUME NEW k \in lo..hi
          PROVE  completed'[k + (-n)] = completed[k]
      <4> DEFINE l == Len(completed)
                 c == stack[i].completed
      <4>1. /\ l \in Nat /\ n \in Nat /\ c \in Nat /\ hi \in Nat /\ hi <= l /\ n <= c
            /\ k \in (c + 1)..hi
        BY <1>3, <1>7, <2>3
      <4> HIDE DEF l, c, hi
      <4>2. k + (-n) \in 1..(l - n) /\ (k + (-n)) + n = k
        BY <4>1
      <4>3. QED
        BY <1>8, <4>2 DEF l
    <3>2. QED
      BY <3>1
  <2>6. LastChild(i)' = hi + (-n) /\ stack'[i].completed + 1 = lo + (-n)
    <3>1. LastChild(i)' = hi - n
      BY <1>8, <2>2 DEF LastChild
    <3>2. stack'[i].completed = stack[i].completed - n
      BY <1>8, <2>2
    <3>3. QED
      BY <1>7, <2>3, <3>1, <3>2
  <2>7. lo \in Int /\ hi \in Int /\ -n \in Int
    BY <1>7, <2>3
  <2> HIDE DEF lo, hi
  <2>8. CoverIn(t, completed', lo + (-n), hi + (-n), Contents(i), FinishedEnd(i))
    BY <2>4, <2>5, <2>7, CoverMoves
  <2>9. QED
    BY <1>15, <2>2, <2>6, <2>8
<1>20. RunIsInv'
  <2>1. RunLevel' = stack'[m]
    BY <1>3, <1>12 DEF RunLevel
  <2>2. t[s + 1] - t[s + 1] = 0 /\ FitsIn(t, s + 1, s + 1)
    BY <1>3, <1>6, CutAssumption DEF FitsIn
  <2>3. /\ RunLevel'.run_bytes = Bytes(RunLevel.run_first, RunEnd)'
        /\ Fits(RunLevel.run_first, RunEnd)'
    BY <1>8, <1>17, <2>1, <2>2, CoverWillBe DEF t
  <2>4. RunLevel'.run_first <= RunEnd'
    BY <1>3, <1>8, <1>17, <2>1
  <2>5. \A r : OverBudget(r)' <=> OverBudget(r)
    BY <1>2, SameTree
  <2>6. AllOver(base, RunLevel.run_first)'
    <3>1. \A r \in base'..((s + 1) - 1) : OverBudget(r)
      <4>1. \A r \in base'..((s + 1) - 1) : r \in base..(run - 1) \/ r = s
        BY <1>3, <1>4, <1>9
      <4>2. QED
        BY <1>4, <1>5, <4>1 DEF AllOver
    <3>2. QED
      BY <1>8, <2>1, <2>5, <3>1 DEF AllOver
  <2>7. \A r \in RunLevel'.run_first..(position' - 1) :
            OverBudget(r)' => \E i \in Inner'..Top' : r = stack'[i].row
    <3>1. ASSUME NEW r \in (s + 1)..(position - 1), OverBudget(r)
          PROVE  \E i \in (m + 1)..Top : r = stack'[i].row
      <4>1. r \in run..(position - 1) /\ r # s
        BY <1>3, <1>4
      <4>2. PICK i \in m..Top : r = stack[i].row
        BY <1>4, <3>1, <4>1
      <4>3. i # m
        BY <4>1, <4>2 DEF s
      <4>4. i \in (m + 1)..Top /\ i \in 1..Top
        BY <1>3, <4>3
      <4>5. QED
        BY <1>8, <4>2, <4>4
    <3>2. QED
      BY <1>2, <1>8, <1>12, <2>1, <2>5, <3>1
  <2>8. QED
    BY <2>3, <2>4, <2>6, <2>7 DEF RunIsInv
<1>21. QED
  BY <1>13, <1>14, <1>18, <1>19, <1>20

-----------------------------------------------------------------------------
(* The theorems about waiting rows and parts.                              *)

LEMMA PartsStep ==
    ASSUME IInv, PartsInv, [Next]_vars
    PROVE  PartsInv'
<1>1. CASE UNCHANGED vars
  BY <1>1, StutterParts
<1>2. CASE Start
  BY <1>2, StartParts
<1>3. CASE Cancelled \/ FailedEntry
  BY <1>3, StopParts DEF Cancelled, FailedEntry, Running
<1>4. ASSUME NEW bytes \in Sizes, Leaf(bytes) PROVE PartsInv'
  BY <1>4, LeafParts
<1>5. ASSUME NEW bytes \in Sizes, Enter(bytes) PROVE PartsInv'
  BY <1>5, EnterParts
<1>6. CASE WithinBudget
  BY <1>6, WithinBudgetParts
<1>7. CASE Split
  BY <1>7, SplitParts
<1>8. CASE Offer
  BY <1>8, OfferParts
<1>9. CASE Offered
  BY <1>9, OfferedParts
<1>10. CASE FinishRoot
  BY <1>10, FinishRootParts
<1>11. CASE FinishSplit
  BY <1>11, FinishSplitParts
<1>12. CASE FinishMeasured
  BY <1>12, FinishMeasuredParts
<1>13. QED
  BY <1>1, <1>2, <1>3, <1>4, <1>5, <1>6, <1>7, <1>8, <1>9, <1>10, <1>11, <1>12
     DEF Next, Step, Terminating

\* At every point of every walk the accepted parts are what the module docs
\* promise, and what is gathered for the next one is known in full: the inductive
\* invariant is IInv with PartsInv.
THEOREM PartsAreConsistent == Spec => [](IInv /\ PartsInv)
<1>1. Init => IInv /\ PartsInv
  BY InitStep, InitParts
<1>2. (IInv /\ PartsInv) /\ [Next]_vars => (IInv /\ PartsInv)'
  BY InvStep, PartsStep
<1>3. QED
  BY <1>1, <1>2, PTL DEF Spec

\* check_budget splits a directory only when its subtree passes the budget, whatever
\* the tree and the estimates.
THEOREM WholeDirectoriesAreKept == Spec => []FittingDirectoriesAreWhole
<1>1. PartsInv => FittingDirectoriesAreWhole
  BY DEF PartsInv
<1>2. QED
  BY <1>1, PartsAreConsistent, PTL

\* add_to_run and seal keep every part within the budget but for one file or link
\* that alone passes it, and for the own rows of directories that are cut.
THEOREM PartsStayWithinBudget == Spec => []PartsWithinBudget
<1>1. PartsInv => PartsWithinBudget
  BY DEF PartsInv
<1>2. QED
  BY <1>1, PartsAreConsistent, PTL

\* The stem that seal cuts from the path names the directories above the part's
\* first row.
THEOREM StemsAreAncestors == Spec => []StemsNameAncestors
<1>1. PartsInv => StemsNameAncestors
  BY DEF PartsInv
<1>2. QED
  BY <1>1, PartsAreConsistent, PTL

\* finish never seals a directory's own row apart from the first of its contents.
THEOREM OwnRowsGoWithContents == Spec => []OwnRowWithContents
<1>1. IInv /\ PartsInv => OwnRowWithContents
  <2>1. SUFFICES ASSUME IInv, PartsInv, NEW k \in DOMAIN parts,
                        rows[(parts[k].end - 1) + 1].dir
                 PROVE  EndOf(parts[k].end - 1) = (parts[k].end - 1) + 1
    BY DEF OwnRowWithContents
  <2> DEFINE e == parts[k].end
             p == e - 1
  <2>2. Right(parts[k])
    BY <2>1, RightParts
  <2>3. TypeOK /\ Len(rows) = position
    BY <2>1 DEF IInv, PartsInv
  <2>4. /\ position \in Nat /\ e \in Nat /\ p \in 0..(position - 1) /\ e = p + 1
        /\ e \in (p + 1)..position
    BY <2>2, <2>3, RowFacts DEF Right
  <2>5. \A r \in (p + 1)..(e - 1) : FALSE
    BY <2>4
  <2>6. e < position => rows[e + 1].depth <= rows[p + 1].depth
    BY <2>2, <2>4 DEF Right
  <2> HIDE DEF e, p
  <2>7. EndsAt(p, e)
    BY <2>5, <2>6 DEF EndsAt
  <2>8. EndOf(p) = e
    BY <2>3, <2>4, <2>7, EndOfIs
  <2>9. QED
    BY <2>4, <2>8 DEF e, p
<1>2. QED
  BY <1>1, PartsAreConsistent, PTL

\* Between two items, what the walker holds back is own rows of directories that
\* are cut, an open run and one measured directory.
THEOREM WaitingStaysBounded == Spec => []WaitingBounded
<1>1. IInv /\ PartsInv => WaitingBounded
  <2>1. SUFFICES ASSUME IInv, PartsInv, pc = "visit"
                 PROVE  \E m \in base..position : \E n \in m..position :
                            /\ AllOver(base, m) /\ NoneOver(m, position)
                            /\ Fits(m, n) /\ Bytes(n, position) <= Budget
    BY DEF WaitingBounded
  <2> DEFINE run == RunLevel.run_first
  <2>2. /\ Running /\ Inner = measuring /\ offers = <<>>
        /\ RunIsInv /\ SplitInv /\ TotalsInv /\ TypeOK /\ Len(rows) = position
    BY <2>1, RunningFacts DEF Running, Inner, OffersInv
  <2>3. /\ run \in Nat /\ RunEnd \in Nat /\ base \in Nat /\ position \in Nat
        /\ base <= run /\ run <= RunEnd /\ RunEnd <= position
        /\ Top \in Nat /\ Inner \in 2..(Top + 1) /\ total \in Nat
        /\ RunEnd = IF Inner <= Top THEN stack[Inner].row ELSE position
    <3>1. /\ run \in Nat /\ RunEnd \in Nat /\ base \in Nat /\ position \in Nat
          /\ base <= run /\ run <= RunEnd
          /\ Top \in Nat /\ Inner \in 2..(Top + 1) /\ total \in Nat
      BY <2>1, <2>2, RunEndFacts, OpenFacts
    <3>2. /\ RunEnd = FinishedEnd(Inner - 1) /\ FinishedEnd(Inner - 1) <= position
          /\ Inner <= Top => FinishedEnd(Inner - 1) = stack[Inner].row
          /\ Inner = Top + 1 => FinishedEnd(Inner - 1) = position
      BY <2>1, <2>2, RunEndFacts DEF RunEnd
    <3>3. QED
      BY <3>1, <3>2
  <2>4. run \in base..position /\ RunEnd \in run..position
    BY <2>3
  <2>5. AllOver(base, run) /\ Fits(run, RunEnd)
    BY <2>2 DEF RunIsInv
  <2>6. NoneOver(run, position)
    <3>1. \A i \in Inner..Top : ~OverBudget(stack[i].row)
      <4>1. \A i \in Inner..Top : i \in 2..Top
        BY <2>3
      <4>2. \A i \in Inner..Top : total - stack[i].start_total <= Budget
        BY <2>1, <2>2 DEF SplitInv
      <4>3. \A i \in 2..Top : stack[i].start_total \in Nat
        BY <2>1, <2>2, OpenFacts
      <4>4. \A i \in Inner..Top : ~(total - stack[i].start_total > Budget)
        BY <2>3, <4>1, <4>2, <4>3, CutAssumption
      <4>5. QED
        BY <2>1, <2>2, <4>1, <4>4, OpenLevels
    <3>2. QED
      BY <2>2, <3>1 DEF NoneOver, RunIsInv
  <2>7. Bytes(RunEnd, position) <= Budget
    <3>1. CASE Inner <= Top
      BY <2>3, <3>1, <2>2, <2>1 DEF Bytes, TotalsInv, SplitInv
    <3>2. CASE ~(Inner <= Top)
      BY <2>3, <3>2, <2>2, BytesFacts, CutAssumption
    <3>3. QED
      BY <3>1, <3>2
  <2> HIDE DEF run
  <2>8. QED
    BY <2>4, <2>5, <2>6, <2>7
<1>2. QED
  BY <1>1, PartsAreConsistent, PTL

-----------------------------------------------------------------------------
(* Runs are as long as they can be.                                        *)

\* The contents of an open directory are below it.
LEMMA ContentsDepth ==
    ASSUME IInv, PartsInv, Running, NEW i \in 1..Top
    PROVE  /\ Contents(i) \in Nat
           /\ \A r \in Contents(i)..(position - 1) : rows[r + 1].depth \in Nat /\ rows[r + 1].depth >= i - 1
<1>1. /\ TypeOK /\ Len(rows) = position /\ NestInv /\ Top \in Nat
      /\ \A j \in 1..Top : stack[j].row \in Nat
  BY RunningFacts, OpenFacts
<1>2. Contents(i) \in Nat
  BY <1>1 DEF Contents
<1>3. ASSUME NEW r \in Contents(i)..(position - 1)
      PROVE  rows[r + 1].depth \in Nat /\ rows[r + 1].depth >= i - 1
  <2>1. r \in 0..(position - 1)
    BY <1>2
  <2>2. rows[r + 1].depth \in Nat
    BY <1>1, <2>1, RowFacts
  <2>3. CASE i = 1
    BY <2>2, <2>3
  <2>4. CASE i # 1
    BY <1>1, <2>4, <2>2 DEF Contents, NestInv
  <2>5. QED
    BY <2>3, <2>4
<1>4. QED
  BY <1>2, <1>3

\* No directory in the open run is cut.
LEMMA RunHasNone ==
    ASSUME IInv, PartsInv, Running
    PROVE  NoneOver(RunLevel.run_first, RunEnd)
<1> DEFINE run == RunLevel.run_first
<1>1. /\ RunEnd \in Nat /\ run \in Nat /\ RunEnd <= position /\ position \in Nat
      /\ Inner \in 2..(Top + 1) /\ Top \in Nat
      /\ RunEnd <= FinishedEnd(Inner - 1) /\ FinishedEnd(Inner - 1) \in Nat
      /\ RunIsInv
  BY RunEndFacts, OpenFacts, RunningFacts
<1>2. ASSUME NEW r \in run..(RunEnd - 1), OverBudget(r)
      PROVE  FALSE
  <2>1. r \in run..(position - 1) /\ r < FinishedEnd(Inner - 1)
    BY <1>1
  <2>2. PICK i \in Inner..Top : r = stack[i].row
    BY <1>1, <1>2, <2>1 DEF RunIsInv
  <2>3. i \in 2..Top /\ ~(i < Inner)
    BY <1>1
  <2>4. QED
    BY <2>1, <2>2, <2>3, OpenIsOver
<1>3. QED
  BY <1>2 DEF NoneOver

\* The run ends before a child that is cut or does not fit it, or with the rows so
\* far.
RunDone ==
    \/ RunLevel.run_first = RunEnd
    \/ RunEnd = position
    \/ OverBudget(RunEnd)
    \/ Bytes(RunLevel.run_first, EndOf(RunEnd)) > Budget

\* What is sealed up to the end of the open run has its shape.
LEMMA SealedShape ==
    ASSUME IInv, PartsInv, Running, WaitInv, RunDone,
           NEW part, part.first = base, part.end = RunEnd
    PROVE  /\ Shape(part, RunLevel.run_first)
           /\ RunLevel.run_first \in part.first..part.end
           /\ RunLevel.run_first < part.end => rows[RunLevel.run_first + 1].depth = Inner - 2
<1> DEFINE run == RunLevel.run_first
<1>1. /\ RunEnd \in Nat /\ run \in Nat /\ base \in Nat /\ base <= run /\ run <= RunEnd
      /\ RunEnd <= position /\ position \in Nat /\ Top \in Nat /\ Inner - 1 \in 1..Top
      /\ Inner \in Int /\ Contents(Inner - 1) <= run
      /\ RunEnd < position => rows[RunEnd + 1].depth = Inner - 2
      /\ TypeOK /\ Len(rows) = position
  <2>1. /\ RunEnd \in Nat /\ run \in Nat /\ base \in Nat /\ base <= run /\ run <= RunEnd
        /\ FinishedEnd(Inner - 1) \in Nat /\ RunEnd <= FinishedEnd(Inner - 1)
        /\ FinishedEnd(Inner - 1) <= position /\ position \in Nat
        /\ Top \in Nat /\ Inner \in 2..(Top + 1) /\ Contents(Inner - 1) <= run
        /\ RunEnd < position => rows[RunEnd + 1].depth = Inner - 2
    BY RunEndFacts, OpenFacts
  <2>2. QED
    BY <2>1, RunningFacts
<1>2. run < RunEnd => rows[run + 1].depth = Inner - 2
  BY <1>1, RunningFacts DEF RunInv, RunLevel
<1>3. AllOver(base, run) /\ Fits(run, RunEnd)
  BY RunningFacts DEF RunIsInv
<1>4. NoneOver(run, RunEnd)
  BY RunHasNone
<1>5. Descends(base, run, RunEnd)
  <2>1. ASSUME NEW r \in base..(run - 1), r + 1 < RunEnd
        PROVE  rows[r + 2].depth > rows[r + 1].depth
    <3>1. base < run /\ r + 1 < position
      BY <1>1, <2>1
    <3>2. QED
      BY <3>1 DEF WaitInv, Descends
  <2>2. QED
    BY <2>1 DEF Descends
<1>6. ASSUME NEW r \in run..(RunEnd - 1)
      PROVE  rows[r + 1].depth >= rows[run + 1].depth
  <2>1. run < RunEnd /\ Contents(Inner - 1) \in Nat
    BY <1>1, ContentsDepth
  <2>2. r \in Contents(Inner - 1)..(position - 1)
    BY <1>1, <2>1
  <2>3. PICK i \in 1..Top : i = Inner - 1
    BY <1>1
  <2>4. rows[r + 1].depth >= i - 1
    BY <2>2, <2>3, ContentsDepth
  <2>5. i - 1 = Inner - 2
    BY <1>1, <2>3
  <2>6. QED
    BY <1>2, <2>1, <2>4, <2>5
<1>7. run < RunEnd /\ RunEnd < position =>
          /\ rows[RunEnd + 1].depth <= rows[run + 1].depth
          /\ OverBudget(RunEnd) \/ Bytes(run, EndOf(RunEnd)) > Budget
  BY <1>1, <1>2 DEF RunDone
<1> HIDE DEF run
<1>8. Shape(part, run)
  BY <1>1, <1>3, <1>4, <1>5, <1>6, <1>7 DEF Shape
<1>9. QED
  BY <1>1, <1>2, <1>8 DEF run

\* The tree is as it was, and so are the shapes.
LEMMA SameShapes ==
    ASSUME UNCHANGED <<rows, position>>
    PROVE  \A part, m : Shape(part, m)' <=> Shape(part, m)
<1>1. /\ \A p, q : Bytes(p, q)' = Bytes(p, q) /\ (Fits(p, q)' <=> Fits(p, q))
      /\ \A p : EndOf(p)' = EndOf(p) /\ (OverBudget(p)' <=> OverBudget(p))
  BY SameTree
<1>2. \A p, q : (AllOver(p, q)' <=> AllOver(p, q)) /\ (NoneOver(p, q)' <=> NoneOver(p, q))
  BY <1>1 DEF AllOver, NoneOver
<1>3. \A p, m, e : Descends(p, m, e)' <=> Descends(p, m, e)
  BY DEF Descends
<1>4. QED
  BY <1>1, <1>2, <1>3 DEF Shape

LEMMA GreedyLess ==
    ASSUME TypeOK, Len(rows) = position, NEW part, part.first \in Nat, part.end \in Nat,
           part.end <= position, NEW d \in Int, NEW c \in Int, c <= d, Greedy(part, d)
    PROVE  Greedy(part, c)
<1>1. PICK m \in part.first..part.end :
          Shape(part, m) /\ (m < part.end /\ part.end = position => rows[m + 1].depth >= d)
  BY DEF Greedy
<1>2. m < part.end => rows[m + 1].depth \in Nat
  BY <1>1, RowFacts
<1>3. m < part.end /\ part.end = position => rows[m + 1].depth >= c
  BY <1>1, <1>2
<1>4. QED
  BY <1>1, <1>3 DEF Greedy

\* A step that adds no row.
LEMMA GreedySame ==
    ASSUME UNCHANGED <<rows, position>>,
           \A k \in DOMAIN parts' : Greedy(parts'[k], IF Running' THEN Top' ELSE 0)
    PROVE  GreedyParts'
<1>1. \A part, m : Shape(part, m)' <=> Shape(part, m)
  BY SameShapes
<1>2. ASSUME NEW part, NEW d, Greedy(part, d)
      PROVE  Greedy(part, d)'
  BY <1>1, <1>2 DEF Greedy
<1>3. ASSUME NEW k \in DOMAIN parts'
      PROVE  Greedy(parts[k], IF Running THEN Top ELSE 0)'
  <2>1. PICK part, d : part = parts'[k] /\ d = IF Running' THEN Top' ELSE 0
    OBVIOUS
  <2>2. Greedy(part, d)'
    BY <1>2, <2>1
  <2>3. QED
    BY <2>1, <2>2 DEF Greedy, Shape
<1>4. QED
  BY <1>3 DEF GreedyParts

\* One row more leaves the shape of a part that does not take it.
LEMMA GrowsShape ==
    ASSUME IInv, PartsInv, Running, NEW row, Grows(row),
           NEW part, part.first \in Nat, part.end \in Nat, part.end <= FinishedEnd(Inner - 1),
           NEW m \in part.first..part.end, Shape(part, m),
           m < part.end /\ part.end = position =>
               \/ rows[m + 1].depth >= Top
               \/ rows[m + 1].depth >= Top - 1 /\ Bytes(m, position) + row.bytes > Budget
    PROVE  Shape(part, m)' /\ part.end < position'
<1> DEFINE t == Totals(rows')
<1>1. /\ TypeOK /\ Len(rows) = position /\ position \in Nat /\ Top \in Nat
      /\ FinishedEnd(Inner - 1) \in Nat /\ m \in Nat /\ part.end <= position
      /\ Budget \in Nat
  <2>1. /\ TypeOK /\ Len(rows) = position /\ position \in Nat /\ Top \in Nat
        /\ FinishedEnd(Inner - 1) \in Nat /\ FinishedEnd(Inner - 1) <= position
    BY RunningFacts, OpenFacts, RunEndFacts
  <2>2. QED
    BY <2>1, CutAssumption
<1>2. /\ position' = position + 1 /\ row.depth = Top - 1 /\ rows'[position + 1] = row
      /\ row.bytes \in Nat
      /\ rows' \in Seq(RowType) /\ Len(rows') = position + 1
      /\ \A p \in 0..(position - 1) : rows'[p + 1] = rows[p + 1]
      /\ \A p, q \in 0..position : Bytes(p, q)' = Bytes(p, q)
      /\ t[position + 1] = Totals(rows)[position] + row.bytes
      /\ \A p \in 0..position : t[p] = Totals(rows)[p]
  BY <1>1, GrowsRows DEF Grows, RowType
<1>3. ASSUME NEW p \in 0..(position - 1)
      PROVE  /\ OverBudget(p) => OverBudget(p)'
             /\ p < part.end => (OverBudget(p)' <=> OverBudget(p))
  <2>1. CASE \E i \in 2..Top : p = stack[i].row
    <3>1. PICK i \in 2..Top : p = stack[i].row
      BY <2>1
    <3>2. p < part.end => OverBudget(p)
      BY <1>1, <3>1, OpenIsOver
    <3>3. QED
      BY <3>2, GrowsSubtrees
  <2>2. CASE ~\E i \in 2..Top : p = stack[i].row
    BY <2>2, GrowsSubtrees
  <2>3. QED
    BY <2>1, <2>2
<1>4. part.end < position' /\ part.end \in 0..position /\ m \in 0..position
  BY <1>1, <1>2
<1>5. \A p, q : Bytes(p, q)' = t[q] - t[p]
  BY CoverWillBe
<1>6. \A p \in 0..(position + 1) : t[p] \in Nat
  BY <1>2, TotalsAddUp
<1> HIDE DEF t
<1>7. m < part.end => /\ m \in 0..(position - 1) /\ rows[m + 1].depth \in Nat
                      /\ rows'[m + 1] = rows[m + 1]
  <2>1. m < part.end => m \in 0..(position - 1)
    BY <1>1
  <2>2. QED
    BY <1>1, <1>2, <2>1, RowFacts
<1>8. AllOver(part.first, m)'
  BY <1>1, <1>3 DEF AllOver, Shape
<1>9. NoneOver(m, part.end)'
  BY <1>1, <1>3 DEF NoneOver, Shape
<1>10. Fits(m, part.end)'
  BY <1>2, <1>4 DEF Fits, Shape
<1>11. Descends(part.first, m, part.end)'
  <2>1. ASSUME NEW r \in part.first..(m - 1), r + 1 < part.end
        PROVE  rows'[r + 2].depth > rows'[r + 1].depth
    <3>1. r \in 0..(position - 1) /\ r + 1 \in 0..(position - 1) /\ (r + 1) + 1 = r + 2
      <4>1. r \in Nat /\ r + 1 < position
        BY <1>1, <2>1
      <4>2. QED
        BY <1>1, <4>1
    <3>2. rows'[r + 1] = rows[r + 1] /\ rows'[r + 2] = rows[r + 2]
      BY <1>2, <3>1
    <3>3. QED
      BY <2>1, <3>2 DEF Shape, Descends
  <2>2. QED
    BY <2>1 DEF Descends
<1>12. \A r \in m..(part.end - 1) : rows'[r + 1].depth >= rows'[m + 1].depth
  BY <1>1, <1>2, <1>7 DEF Shape
<1>13. ASSUME m < part.end
       PROVE  /\ rows'[part.end + 1].depth <= rows'[m + 1].depth
              /\ rows'[part.end + 1].depth = rows'[m + 1].depth =>
                    OverBudget(part.end)' \/ Bytes(m, EndOf(part.end))' > Budget
  <2>1. CASE part.end < position
    <3>1. part.end \in 0..(position - 1) /\ rows'[part.end + 1] = rows[part.end + 1]
      BY <1>1, <1>2, <2>1
    <3>2. /\ rows[part.end + 1].depth <= rows[m + 1].depth
          /\ rows[part.end + 1].depth = rows[m + 1].depth
                => OverBudget(part.end) \/ Bytes(m, EndOf(part.end)) > Budget
      BY <1>13, <2>1 DEF Shape
    <3>3. ASSUME Bytes(m, EndOf(part.end)) > Budget
          PROVE  Bytes(m, EndOf(part.end))' > Budget
      <4> DEFINE e == EndOf(part.end)
                 f == EndOf(part.end)'
      <4>1. e \in (part.end + 1)..position /\ f \in e..(position + 1)
        BY <1>1, <1>2, <3>1, EndOfFacts, GrowsSubtrees
      <4> HIDE DEF e, f
      <4>2. e \in 0..position /\ f \in 0..(position + 1) /\ e \in 0..(position + 1) /\ f \in e..(position + 1)
            /\ m \in 0..(position + 1)
        BY <1>1, <1>4, <4>1
      <4>3. t[e] <= t[f]
        BY <1>2, <4>2, TotalsGrow DEF t
      <4>4. t[e] - t[m] > Budget
        BY <1>2, <1>4, <4>2, <3>3 DEF Bytes, e
      <4>5. t[e] \in Nat /\ t[f] \in Nat /\ t[m] \in Nat
        BY <1>6, <4>2
      <4>6. t[f] - t[m] > Budget
        BY <1>1, <4>3, <4>4, <4>5
      <4>7. Bytes(m, EndOf(part.end))' = t[f] - t[m]
        BY DEF Bytes, f, t
      <4>8. QED
        BY <4>6, <4>7
    <3>4. OverBudget(part.end) => OverBudget(part.end)'
      BY <1>3, <3>1
    <3>5. QED
      BY <1>7, <1>13, <3>1, <3>2, <3>3, <3>4
  <2>2. CASE part.end = position
    <3>1. rows'[part.end + 1].depth = Top - 1
      BY <1>2, <2>2
    <3>2. rows[m + 1].depth \in Nat /\ rows'[m + 1] = rows[m + 1]
      BY <1>7, <1>13
    <3>3. CASE rows[m + 1].depth >= Top
      BY <1>1, <3>1, <3>2, <3>3
    <3>4. CASE rows[m + 1].depth >= Top - 1 /\ Bytes(m, position) + row.bytes > Budget
      <4>1. EndOf(part.end)' = position + 1
        <5>1. PICK q : q = part.end
          OBVIOUS
        <5>2. q \in 0..(position' - 1) /\ position + 1 \in (q + 1)..position'
          BY <1>1, <1>2, <2>2, <5>1
        <5>3. Ends(rows', q, position + 1)
          BY <1>1, <1>2, <2>2, <5>1 DEF Ends
        <5>4. PICK e : e = position + 1
          OBVIOUS
        <5>5. EndOf(q)' = e
          BY <1>2, <5>2, <5>3, <5>4, EndOfWillBe
        <5>6. QED
          BY <5>1, <5>4, <5>5
      <4>2. Bytes(m, EndOf(part.end))' = t[position + 1] - t[m]
        BY <4>1 DEF Bytes, t
      <4>3. t[m] = Totals(rows)[m] /\ t[position + 1] = Totals(rows)[position] + row.bytes
            /\ Totals(rows)[m] \in Nat /\ Totals(rows)[position] \in Nat
        BY <1>1, <1>2, <1>4, BytesFacts
      <4>4. t[position + 1] - t[m] > Budget
        BY <3>4, <1>1, <1>2, <4>3 DEF Bytes
      <4>5. QED
        BY <1>1, <3>1, <3>2, <3>4, <4>2, <4>4
    <3>5. QED
      BY <1>13, <2>2, <3>3, <3>4
  <2>3. QED
    BY <1>1, <2>1, <2>2
<1>14. Shape(part, m)'
  BY <1>4, <1>8, <1>9, <1>10, <1>11, <1>12, <1>13 DEF Shape
<1>15. QED
  BY <1>4, <1>14

\* A part that a row more, of b, does not join.
Closed(part, b) ==
    /\ part.first \in Nat /\ part.end \in Nat /\ part.end <= FinishedEnd(Inner - 1)
    /\ \E m \in part.first..part.end :
          /\ Shape(part, m)
          /\ m < part.end /\ part.end = position =>
                \/ rows[m + 1].depth >= Top
                \/ rows[m + 1].depth >= Top - 1 /\ Bytes(m, position) + b > Budget

LEMMA GreedyGrows ==
    ASSUME IInv, PartsInv, Running, NEW row, Grows(row),
           \A k \in DOMAIN parts' : Closed(parts'[k], row.bytes)
    PROVE  GreedyParts'
<1>1. ASSUME NEW part, NEW d, Closed(part, row.bytes)
      PROVE  Greedy(part, d)'
  <2>1. PICK m \in part.first..part.end :
            /\ Shape(part, m)
            /\ m < part.end /\ part.end = position =>
                  \/ rows[m + 1].depth >= Top
                  \/ rows[m + 1].depth >= Top - 1 /\ Bytes(m, position) + row.bytes > Budget
    BY <1>1 DEF Closed
  <2>2. Shape(part, m)' /\ part.end < position'
    BY <1>1, <2>1, GrowsShape DEF Closed
  <2>3. part.end # position'
    BY <1>1, <2>2 DEF Closed
  <2>4. QED
    BY <2>2, <2>3 DEF Greedy
<1>2. ASSUME NEW k \in DOMAIN parts'
      PROVE  Greedy(parts[k], IF Running THEN Top ELSE 0)'
  <2>1. PICK part, d : part = parts'[k] /\ d = IF Running' THEN Top' ELSE 0
    OBVIOUS
  <2>2. Greedy(part, d)'
    BY <1>1, <2>1
  <2>3. QED
    BY <2>1, <2>2 DEF Greedy, Shape
<1>3. QED
  BY <1>2 DEF GreedyParts

\* The parts accepted before a step.
LEMMA GreedyBefore ==
    ASSUME IInv, PartsInv, GreedyParts, Running
    PROVE  \A k \in DOMAIN parts :
              /\ parts[k].first \in Nat /\ parts[k].end \in Nat
              /\ parts[k].end <= FinishedEnd(Inner - 1) /\ parts[k].end <= position
              /\ Greedy(parts[k], Top)
<1>1. \A k \in DOMAIN parts : Sound(parts[k], Top - 1)
  BY AcceptedSound
<1>2. QED
  BY <1>1 DEF Sound, Right, GreedyParts

\* The part a seal makes of what waits.
SealedHere(part) == part.first = base /\ part.end = RunEnd

LEMMA SealedParts ==
    ASSUME IInv, NEW open, NEW next, Seal(open, RunEnd, next)
    PROVE  \A k \in DOMAIN parts' :
              (k \in DOMAIN parts /\ parts'[k] = parts[k]) \/ SealedHere(parts'[k])
<1>1. CASE parts' = parts
  BY <1>1
<1>2. CASE parts' # parts
  <2> DEFINE part == [first |-> base, end |-> RunEnd, stem |-> Stem(open, rows[base + 1].depth)]
  <2>1. parts' = Append(parts, part)
    BY <1>2 DEF Seal
  <2>2. SealedHere(part)
    BY DEF SealedHere
  <2> HIDE DEF part
  <2>3. parts \in Seq(PartType)
    BY DEF IInv, TypeOK
  <2>4. DOMAIN parts' = 1..(Len(parts) + 1) /\ DOMAIN parts = 1..Len(parts) /\ Len(parts) \in Nat
    BY <2>1, <2>3, LenProperties
  <2>5. \A k \in 1..(Len(parts) + 1) : parts'[k] = IF k <= Len(parts) THEN parts[k] ELSE part
    BY <2>1, <2>3
  <2>6. QED
    BY <2>2, <2>4, <2>5
<1>3. QED
  BY <1>1, <1>2

\* The parts after a step that seals up to the end of the open run, or nothing, where d
\* is the depth the next row is at most at.
LEMMA SealGreedy ==
    ASSUME IInv, PartsInv, GreedyParts, Running, WaitInv, NEW open, NEW next, NEW d \in Int,
           d <= Top, RunEnd = position => d <= Inner - 2,
           \/ RunDone /\ Seal(open, RunEnd, next)
           \/ UNCHANGED parts
    PROVE  \A k \in DOMAIN parts' : Greedy(parts'[k], d)
<1>1. TypeOK /\ Len(rows) = position /\ Top \in Int
  BY RunningFacts, OpenFacts
<1>2. \A k \in DOMAIN parts : Greedy(parts[k], d)
  <2>1. ASSUME NEW k \in DOMAIN parts
        PROVE  Greedy(parts[k], d)
    <3>1. PICK part : part = parts[k]
      OBVIOUS
    <3>2. part.first \in Nat /\ part.end \in Nat /\ part.end <= position /\ Greedy(part, Top)
      BY <3>1, GreedyBefore
    <3>3. Greedy(part, d)
      BY <1>1, <3>2, GreedyLess
    <3>4. QED
      BY <3>1, <3>3
  <2>2. QED
    BY <2>1
<1>3. ASSUME RunDone, NEW part, SealedHere(part)
      PROVE  Greedy(part, d)
  BY <1>3, SealedShape DEF SealedHere, Greedy
<1>4. CASE UNCHANGED parts
  BY <1>2, <1>4
<1>5. CASE RunDone /\ Seal(open, RunEnd, next)
  BY <1>2, <1>3, <1>5, SealedParts
<1>6. QED
  BY <1>4, <1>5

-----------------------------------------------------------------------------
(* Depths, and what waits before the open run.                             *)

LEMMA DepthsGrow ==
    ASSUME IInv, PartsInv, Running, DepthsInv, NEW row, Grows(row)
    PROVE  DepthsInv'
<1>1. /\ TypeOK /\ Len(rows) = position /\ position \in Nat /\ Top \in Nat /\ Top >= 1 /\ NestInv
  BY RunningFacts, OpenFacts
<1>2. /\ position' = position + 1 /\ row.depth = Top - 1 /\ rows'[position + 1] = row
      /\ \A p \in 0..(position - 1) : rows'[p + 1] = rows[p + 1]
  BY <1>1, GrowsRows DEF Grows
<1>3. row.depth <= IF position = 0 THEN 0 ELSE rows[position].depth + 1
  <2>1. Top >= 2 => /\ Top \in 2..Top /\ stack[Top].row \in 0..(position - 1)
                    /\ rows[stack[Top].row + 1].depth = Top - 2
    <3>1. Top >= 2 => Top \in 2..Top
      BY <1>1
    <3>2. QED
      BY <3>1, OpenLevels
  <2>2. CASE position = 0
    BY <2>1, <2>2, <1>1, <1>2
  <2>3. CASE position # 0
    <3>1. position - 1 \in 0..(position - 1) /\ (position - 1) + 1 = position
      BY <1>1, <2>3
    <3>2. rows[position].depth \in Nat
      BY <1>1, <3>1, RowFacts
    <3>3. CASE Top >= 2
      <4>1. CASE stack[Top].row = position - 1
        BY <2>1, <3>1, <3>3, <4>1, <1>1, <1>2, <2>3
      <4>2. CASE stack[Top].row # position - 1
        <5>1. position - 1 \in (stack[Top].row + 1)..(position - 1)
          BY <1>1, <2>1, <3>3, <4>2
        <5>2. rows[position].depth >= Top - 1
          BY <1>1, <2>1, <3>1, <3>3, <5>1 DEF NestInv
        <5>3. QED
          BY <1>1, <1>2, <2>3, <3>2, <5>2
      <4>3. QED
        BY <4>1, <4>2
    <3>4. CASE ~(Top >= 2)
      BY <1>1, <1>2, <2>3, <3>2, <3>4
    <3>5. QED
      BY <3>3, <3>4
  <2>4. QED
    BY <2>2, <2>3
<1>4. ASSUME NEW p \in 0..(position' - 1)
      PROVE  rows'[p + 1].depth <= IF p = 0 THEN 0 ELSE rows'[p].depth + 1
  <2>1. p # 0 => p - 1 \in 0..(position - 1) /\ (p - 1) + 1 = p
    BY <1>1, <1>2
  <2>2. p # 0 => rows'[p] = rows[p]
    BY <1>2, <2>1
  <2>3. CASE p \in 0..(position - 1)
    BY <1>2, <2>2, <2>3 DEF DepthsInv
  <2>4. CASE p = position
    BY <1>2, <1>3, <2>2, <2>4
  <2>5. QED
    BY <1>1, <1>2, <2>3, <2>4
<1>5. QED
  BY <1>4 DEF DepthsInv

LEMMA DepthsSame ==
    ASSUME DepthsInv, UNCHANGED <<rows, position>>
    PROVE  DepthsInv'
  BY DEF DepthsInv

\* A step that leaves what waits before the open run.
LEMMA WaitSame ==
    ASSUME WaitInv, UNCHANGED <<rows, position, base>>, Inner' = Inner,
           RunLevel'.run_first = RunLevel.run_first, RunLevel'.row = RunLevel.row
    PROVE  WaitInv'
  BY DEF WaitInv, Descends

\* A step after which nothing waits before the open run.
LEMMA WaitNone ==
    ASSUME base' \in Int, base' = RunLevel'.run_first
    PROVE  WaitInv'
<1>1. ~(base' < RunLevel'.run_first)
  OBVIOUS
<1>2. QED
  BY <1>1 DEF WaitInv

LEMMA WaitGrows ==
    ASSUME IInv, PartsInv, Running, WaitInv, NEW row, Grows(row),
           base' = base, Inner' = Inner,
           RunLevel'.run_first = RunLevel.run_first, RunLevel'.row = RunLevel.row
    PROVE  WaitInv'
<1> DEFINE run == RunLevel.run_first
<1>1. /\ TypeOK /\ Len(rows) = position /\ position \in Nat /\ Top \in Nat
      /\ run \in Nat /\ base \in Nat /\ run <= position /\ Inner \in 2..(Top + 1)
      /\ run = position => Inner = Top + 1
  <2>1. /\ TypeOK /\ Len(rows) = position /\ position \in Nat /\ Top \in Nat
        /\ run \in Nat /\ base \in Nat /\ RunEnd \in Nat /\ Inner \in 2..(Top + 1)
        /\ FinishedEnd(Inner - 1) \in Nat
        /\ run <= RunEnd /\ RunEnd <= FinishedEnd(Inner - 1) /\ FinishedEnd(Inner - 1) <= position
        /\ RunEnd = position => Inner = Top + 1
    BY RunningFacts, OpenFacts, RunEndFacts
  <2>2. QED
    BY <2>1
<1>2. /\ position' = position + 1 /\ row.depth = Top - 1 /\ rows'[position + 1] = row
      /\ \A p \in 0..(position - 1) : rows'[p + 1] = rows[p + 1]
  BY <1>1, GrowsRows DEF Grows
<1>3. base < run => Inner > 2 /\ run = RunLevel.row + 1 /\ Descends(base, run, position)
  BY DEF WaitInv
<1>4. ASSUME base < run, NEW r \in base..(run - 1), r + 1 < position'
      PROVE  rows'[r + 2].depth > rows'[r + 1].depth
  <2>1. r \in 0..(position - 1) /\ r \in Nat
    BY <1>1
  <2>2. CASE r + 1 < position
    <3>1. r + 1 \in 0..(position - 1) /\ (r + 1) + 1 = r + 2
      BY <1>1, <2>1, <2>2
    <3>2. rows'[r + 1] = rows[r + 1] /\ rows'[r + 2] = rows[r + 2]
      BY <1>2, <2>1, <3>1
    <3>3. QED
      BY <1>3, <1>4, <2>2, <3>2 DEF Descends
  <2>3. CASE r + 1 = position
    <3>1. run = position /\ r = RunLevel.row /\ Inner = Top + 1 /\ Inner > 2 /\ r + 2 = position + 1
      <4>1. r + 1 <= run
        BY <1>1, <2>1
      <4>2. run = position
        BY <1>1, <2>3, <4>1
      <4> HIDE DEF run
      <4>3. run = RunLevel.row + 1 /\ Inner > 2
        BY <1>3, <1>4
      <4>4. r = RunLevel.row
        <5>1. RunLevel.row = run - 1
          <6>1. RunLevel.row \in Nat
            BY <1>1, OpenFacts DEF RunLevel
          <6>2. QED
            BY <4>3, <6>1
        <5>2. QED
          BY <1>1, <2>1, <2>3, <4>2, <5>1
      <4>5. QED
        BY <1>1, <2>1, <2>3, <4>2, <4>3, <4>4
    <3>2. Top \in 2..Top /\ RunLevel = stack[Top]
      BY <1>1, <3>1 DEF RunLevel
    <3>3. rows[r + 1].depth = Top - 2
      BY <3>1, <3>2, OpenLevels
    <3>4. rows'[r + 1] = rows[r + 1]
      BY <1>2, <2>1
    <3>5. QED
      BY <1>1, <1>2, <3>1, <3>3, <3>4
  <2>4. QED
    BY <1>1, <1>2, <1>4, <2>1, <2>2, <2>3
<1>5. base < run => Descends(base, run, position)'
  <2>1. ASSUME base < run
        PROVE  \A r \in base..(run - 1) : r + 1 < position' => rows'[r + 2].depth > rows'[r + 1].depth
    BY <1>4, <2>1
  <2>2. QED
    BY <2>1 DEF Descends
<1>6. QED
  BY <1>3, <1>5 DEF WaitInv, Descends

-----------------------------------------------------------------------------
(* Children and offers.                                                    *)

LEMMA PositionsAre ==
    ASSUME NEW s \in Seq(ChildType)
    PROVE  \A r : r \in PositionsOf(s) <=> \E k \in 1..Len(s) : s[k].position = r
<1>1. DOMAIN s = 1..Len(s)
  BY LenProperties
<1>2. QED
  BY <1>1 DEF PositionsOf

\* Every finished entry of level i is one of its children.
KnownAt(i) ==
    \A r \in Contents(i)..(FinishedEnd(i) - 1) :
        rows[r + 1].depth = i - 1 => r \in PositionsOf(completed)

\* Every finished entry after the open run is to be offered.
KnownOffers ==
    \A r \in RunEnd..(FinishedEnd(Inner - 1) - 1) :
        rows[r + 1].depth = Inner - 2 => r \in PositionsOf(offers)

LEMMA KnownIs ==
    KnownInv <=> (\A i \in Inner..Top : KnownAt(i)) /\ KnownOffers
  BY DEF KnownInv, KnownAt, KnownOffers

LEMMA KnownWillBe ==
    KnownInv' <=> (\A i \in Inner'..Top' : KnownAt(i)') /\ KnownOffers'
  BY DEF KnownInv, KnownAt, KnownOffers

LEMMA NothingOffered ==
    ASSUME IInv', Running', offers' = <<>>
    PROVE  KnownOffers'
<1>1. /\ stack' \in Seq(LevelType) /\ position' \in 0..MaxRows /\ Inner' \in 2..(Top' + 1)
      /\ Top' = Len(stack')
  BY DEF IInv, TypeOK, LevelsInv, Top
<1>2. RunEnd' = FinishedEnd(Inner - 1)'
  BY DEF RunEnd
<1>3. FinishedEnd(Inner - 1)' \in Nat
  <2>1. Top' \in Nat /\ position' \in Nat
    BY <1>1, LenProperties, CutAssumption
  <2>2. PICK i : i = Inner' - 1
    OBVIOUS
  <2>3. i \in Int /\ (i < Top' => i + 1 \in 1..Top')
    <3>1. Inner' \in 2..(Top' + 1)
      BY <1>1
    <3>2. \A n \in Nat : \A j \in 2..(n + 1) : j - 1 \in Int /\ (j - 1 < n => (j - 1) + 1 \in 1..n)
      OBVIOUS
    <3>3. QED
      BY <2>1, <2>2, <3>1, <3>2
  <2>4. i < Top' => stack'[i + 1].row \in Nat
    <3>1. ASSUME i < Top'
          PROVE  stack'[i + 1].row \in Nat
      BY <1>1, <2>3, <3>1, ElementOfSeq, LevelFields
    <3>2. QED
      BY <3>1
  <2>5. QED
    BY <2>1, <2>2, <2>4 DEF FinishedEnd
<1>4. \A r \in FinishedEnd(Inner - 1)'..(FinishedEnd(Inner - 1)' - 1) : FALSE
  BY <1>3
<1>5. QED
  BY <1>2, <1>4 DEF KnownOffers

LEMMA KnownSame ==
    ASSUME KnownInv, UNCHANGED <<rows, position, stack, offers, completed>>, Inner' = Inner
    PROVE  KnownInv'
  BY DEF KnownInv, Top, Contents, FinishedEnd, RunEnd

LEMMA KnownGrows ==
    ASSUME IInv, PartsInv, Running, KnownInv, NEW row, Grows(row),
           IInv', Running', Inner' = Inner, offers' = <<>>,
           \A i \in 1..Top : stack'[i].row = stack[i].row,
           PositionsOf(completed) \subseteq PositionsOf(completed'),
           \/ Top' = Top /\ (Inner <= Top => position \in PositionsOf(completed'))
           \/ Top' = Top + 1 /\ stack'[Top + 1].row = position
    PROVE  KnownInv'
<1>1. /\ TypeOK /\ Len(rows) = position /\ position \in Nat /\ Top \in Nat /\ Inner \in 2..(Top + 1)
      /\ \A i \in 1..Top : stack[i].row \in Nat
      /\ \A i \in 2..Top : stack[i].row < position
  BY RunningFacts, OpenFacts
<1>2. /\ position' = position + 1
      /\ \A p \in 0..(position - 1) : rows'[p + 1] = rows[p + 1]
  BY <1>1, GrowsRows DEF Grows
<1>3. KnownOffers'
  BY NothingOffered
<1>4. ASSUME NEW i \in Inner..Top, NEW r \in Contents(i)..(FinishedEnd(i) - 1),
             rows'[r + 1].depth = i - 1
      PROVE  r \in PositionsOf(completed')
  <2>1. i \in 2..Top /\ i \in 1..Top /\ (i < Top => i + 1 \in 2..Top)
    BY <1>1
  <2>2. Contents(i) \in Nat /\ FinishedEnd(i) <= position /\ FinishedEnd(i) \in Nat
    <3>1. Contents(i) \in Nat
      BY <1>1, <2>1 DEF Contents
    <3>2. CASE i < Top
      BY <3>2, <1>1, <2>1, <3>1 DEF FinishedEnd
    <3>3. CASE ~(i < Top)
      BY <1>1, <3>1, <3>3 DEF FinishedEnd
    <3>4. QED
      BY <3>2, <3>3
  <2>3. r \in 0..(position - 1)
    BY <1>1, <2>2
  <2>4. rows[r + 1].depth = i - 1
    BY <1>2, <1>4, <2>3
  <2>5. QED
    BY <1>4, <2>4 DEF KnownInv
<1>5. ASSUME NEW i \in Inner..Top
      PROVE  Contents(i)' = Contents(i) /\ (i < Top => FinishedEnd(i)' = FinishedEnd(i))
  <2>1. i \in 1..Top /\ (i < Top => i + 1 \in 1..Top /\ i < Top')
    BY <1>1
  <2>2. QED
    BY <2>1 DEF Contents, FinishedEnd
<1>6. CASE Top' = Top /\ (Inner <= Top => position \in PositionsOf(completed'))
  <2>1. ASSUME NEW i \in Inner..Top
        PROVE  KnownAt(i)'
    <3>1. CASE i < Top
      BY <1>4, <1>5, <3>1 DEF KnownAt
    <3>2. CASE i = Top
      <4>1. FinishedEnd(i) = position /\ FinishedEnd(i)' = position + 1 /\ Inner <= Top
        BY <1>1, <1>2, <1>6, <3>2 DEF FinishedEnd
      <4>2. \A r \in Contents(i)..position : r \in Contents(i)..(position - 1) \/ r = position
        BY <1>1, <3>2 DEF Contents
      <4>3. (position + 1) - 1 = position
        BY <1>1
      <4>4. QED
        BY <1>4, <1>5, <1>6, <4>1, <4>2, <4>3 DEF KnownAt
    <3>3. QED
      BY <1>1, <3>1, <3>2
  <2>2. QED
    BY <1>3, <1>6, <2>1, KnownWillBe
<1>7. CASE Top' = Top + 1 /\ stack'[Top + 1].row = position
  <2>1. ASSUME NEW i \in Inner..(Top + 1)
        PROVE  KnownAt(i)'
    <3>1. CASE i < Top
      BY <1>1, <3>1, <1>4, <1>5 DEF KnownAt
    <3>2. CASE i = Top
      BY <1>1, <1>7, <3>2, <1>4, <1>5 DEF FinishedEnd, KnownAt
    <3>3. CASE i = Top + 1
      BY <1>1, <1>2, <1>7, <3>3 DEF Contents, FinishedEnd, KnownAt
    <3>4. QED
      BY <1>1, <3>1, <3>2, <3>3
  <2>2. QED
    BY <1>3, <1>7, <2>1, KnownWillBe
<1>8. QED
  BY <1>6, <1>7

-----------------------------------------------------------------------------
(* A row more.                                                             *)

LEMMA BeforeClosed ==
    ASSUME IInv, PartsInv, GreedyParts, Running, NEW b
    PROVE  \A k \in DOMAIN parts : Closed(parts[k], b)
<1>1. ASSUME NEW k \in DOMAIN parts
      PROVE  Closed(parts[k], b)
  <2>1. PICK part : part = parts[k]
    OBVIOUS
  <2>2. /\ part.first \in Nat /\ part.end \in Nat /\ part.end <= FinishedEnd(Inner - 1)
        /\ Greedy(part, Top)
    BY <2>1, GreedyBefore
  <2>3. Closed(part, b)
    BY <2>2 DEF Closed, Greedy
  <2>4. QED
    BY <2>1, <2>3
<1>2. QED
  BY <1>1

LEMMA LeafGreedy ==
    ASSUME IInv, PartsInv, GreedyInv, NEW bytes \in Sizes, Leaf(bytes), IInv'
    PROVE  GreedyInv'
<1> DEFINE row == [depth |-> Top - 1, bytes |-> bytes, dir |-> FALSE]
           run == RunLevel.run_first
<1>1. /\ pc = "visit" /\ Running /\ Inner = measuring /\ offers = <<>>
      /\ DepthsInv /\ GreedyParts /\ WaitInv /\ KnownInv
      /\ TypeOK /\ Len(rows) = position /\ RunIsInv
  BY RunningFacts DEF Leaf, Visiting, Running, Inner, GreedyInv, OffersInv
<1>2. /\ position \in Nat /\ position < MaxRows /\ position \in 0..MaxRows /\ bytes \in Nat
      /\ Top \in Nat /\ Top >= 1 /\ Top \in 1..Top /\ Inner \in 2..(Top + 1)
      /\ base \in Nat /\ stack \in Seq(LevelType) /\ Top = Len(stack) /\ completed \in Seq(ChildType)
      /\ \A i \in 1..Top : stack[i].split <=> i < Inner
  BY <1>1, CutAssumption, OpenFacts DEF Leaf, Top, TypeOK
<1>3. /\ rows' = Append(rows, row) /\ position' = position + 1
      /\ UNCHANGED <<path, measuring, offers>>
      /\ Finished(stack, completed, Top, position, bytes, "budget")
  BY DEF Leaf
<1>4. Grows(row) /\ row.bytes = bytes
  BY <1>2, <1>3 DEF Grows, RowType
<1> HIDE DEF row
<1>5. DepthsInv'
  BY <1>1, <1>4, DepthsGrow
<1>6. /\ run \in Nat /\ RunEnd = FinishedEnd(Inner - 1) /\ run <= RunEnd
      /\ Inner = Top + 1 => RunEnd = position
  BY <1>1, RunEndFacts DEF RunEnd
<1>7. CASE stack[Top].split
  <2> DEFINE full == RunIsFull(stack[Top], position, bytes)
  <2>1. Inner = Top + 1 /\ completed' = completed /\ RunLevel = stack[Top] /\ RunEnd = position
    <3>1. Inner = Top + 1 /\ Inner - 1 = Top
      BY <1>2, <1>7
    <3>2. completed' = completed
      BY <1>3, <1>7 DEF Finished
    <3>3. QED
      BY <1>6, <3>1, <3>2 DEF RunLevel
  <2>2. AddToRun(stack, Top, position, bytes, "budget")
    BY <1>3, <1>7 DEF Finished
  <2>3. RunMoved(stack', stack, Top, IF full THEN position ELSE run)
    <3>1. Top \in 1..Len(stack) /\ position <= position
      BY <1>2
    <3>2. QED
      BY <1>2, <2>1, <2>2, <3>1, AddToRunStack
  <2>4. GreedyParts'
    <3>1. CASE full
      <4>1. Seal(stack, RunEnd, "budget") /\ RunDone
        BY <2>1, <2>2, <3>1 DEF AddToRun, SealIf, RunDone
      <4>2. run < position /\ Bytes(run, position) + bytes > Budget
        BY <1>1, <2>1, <3>1 DEF RunIsFull, RunIsInv
      <4>3. ASSUME NEW part, SealedHere(part)
            PROVE  Closed(part, bytes)
        <5>1. /\ Shape(part, run) /\ run \in part.first..part.end
              /\ run < part.end => rows[run + 1].depth = Inner - 2
          BY <1>1, <4>1, <4>3, SealedShape DEF SealedHere
        <5>2. part.first \in Nat /\ part.end \in Nat /\ part.end <= FinishedEnd(Inner - 1)
          BY <1>2, <1>6, <2>1, <4>3 DEF SealedHere
        <5>3. Inner - 2 >= Top - 1
          BY <1>2, <2>1
        <5> HIDE DEF run
        <5>4. QED
          BY <4>2, <5>1, <5>2, <5>3 DEF Closed
      <4>4. \A k \in DOMAIN parts' : Closed(parts'[k], bytes)
        BY <1>1, <4>1, <4>3, BeforeClosed, SealedParts
      <4>5. QED
        BY <1>1, <1>4, <4>4, GreedyGrows
    <3>2. CASE ~full
      BY <2>2, <3>2, <1>1, BeforeClosed, <1>4, GreedyGrows DEF AddToRun, SealIf
    <3>3. QED
      BY <3>1, <3>2
  <2>5. SUFFICES ASSUME Running'
                 PROVE  WaitInv' /\ KnownInv'
    BY <1>5, <2>4 DEF GreedyInv
  <2>6. /\ Top' = Top /\ Inner' = Inner /\ pc' = "budget"
        /\ \A i \in 1..Top : stack'[i].row = stack[i].row
        /\ stack'[Top].run_first = IF full THEN position ELSE run
    <3>1. pc' \in {"budget", "error"}
      BY <2>2 DEF AddToRun, SealIf, Seal
    <3>2. pc' = "budget"
      BY <2>5, <3>1 DEF Running
    <3>3. QED
      BY <1>1, <1>2, <1>3, <2>3, <3>2 DEF RunMoved, SameLevels, Top, Inner
  <2>7. RunLevel' = stack'[Top] /\ RunLevel'.row = RunLevel.row
    <3>1. RunLevel' = stack'[Top]
      BY <1>2, <2>1, <2>6 DEF RunLevel
    <3>2. QED
      BY <1>2, <2>1, <2>6, <3>1
  <2>8. WaitInv'
    <3>1. CASE full
      <4>1. base' = position
        BY <2>2, <3>1 DEF AddToRun, SealIf, Seal
      <4>2. QED
        BY <1>2, <2>6, <2>7, <3>1, <4>1, WaitNone
    <3>2. CASE ~full
      BY <2>2, <3>2, <1>1, <1>4, <2>6, <2>7, WaitGrows DEF AddToRun, SealIf
    <3>3. QED
      BY <3>1, <3>2
  <2>9. KnownInv'
    BY <1>1, <1>2, <1>3, <2>1, <1>4, <2>5, <2>6, KnownGrows
  <2>10. QED
    BY <2>8, <2>9
<1>8. CASE ~stack[Top].split
  <2>1. /\ Inner <= Top /\ stack' = stack /\ UNCHANGED <<base, parts>> /\ pc' = "budget"
        /\ completed' = Append(completed, Child(position, bytes))
    BY <1>1, <1>2, <1>3, <1>8 DEF Finished
  <2>2. GreedyParts'
    BY <1>1, <2>1, BeforeClosed, <1>4, GreedyGrows
  <2>3. Top' = Top /\ Inner' = Inner /\ RunLevel' = RunLevel /\ Running'
    BY <1>1, <1>3, <2>1 DEF Top, Inner, RunLevel, Running
  <2>4. WaitInv'
    BY <1>1, <1>4, <2>1, <2>3, WaitGrows
  <2>5. PositionsOf(completed) \subseteq PositionsOf(completed') /\ position \in PositionsOf(completed')
    <3> DEFINE n == Len(completed)
    <3>1. /\ n \in Nat /\ Len(completed') = n + 1 /\ completed' \in Seq(ChildType)
          /\ \A k \in 1..n : completed'[k] = completed[k]
          /\ completed'[n + 1] = Child(position, bytes)
      BY <1>2, <2>1, LenProperties DEF Child, ChildType
    <3> HIDE DEF n
    <3>2. n + 1 \in 1..(n + 1) /\ \A k \in 1..n : k \in 1..(n + 1)
      BY <3>1
    <3>3. completed'[n + 1].position = position
      BY <3>1 DEF Child
    <3>4. position \in PositionsOf(completed')
      BY <3>1, <3>2, <3>3, PositionsAre
    <3>5. ASSUME NEW r \in PositionsOf(completed)
          PROVE  r \in PositionsOf(completed')
      <4>1. PICK k \in 1..n : completed[k].position = r
        BY <1>2, PositionsAre DEF n
      <4>2. k \in 1..Len(completed') /\ completed'[k].position = r
        BY <3>1, <3>2, <4>1
      <4>3. QED
        BY <3>1, <4>2, PositionsAre
    <3>6. QED
      BY <3>4, <3>5
  <2>6. KnownInv'
    BY <1>1, <1>3, <1>4, <2>1, <2>3, <2>5, KnownGrows
  <2>7. QED
    BY <1>5, <2>2, <2>4, <2>6 DEF GreedyInv
<1>9. QED
  BY <1>7, <1>8

LEMMA EnterGreedy ==
    ASSUME IInv, PartsInv, GreedyInv, NEW bytes \in Sizes, Enter(bytes), IInv'
    PROVE  GreedyInv'
<1> DEFINE row == [depth |-> Top - 1, bytes |-> bytes, dir |-> TRUE]
           level == Level(position, total, Len(path'), FALSE, Len(completed))
<1>1. /\ pc = "visit" /\ Running /\ Inner = measuring /\ offers = <<>>
      /\ DepthsInv /\ GreedyParts /\ WaitInv /\ KnownInv
  BY RunningFacts DEF Enter, Visiting, Running, Inner, GreedyInv, OffersInv
<1>2. /\ position \in Nat /\ position < MaxRows /\ bytes \in Nat
      /\ Top \in Nat /\ Top >= 1 /\ Inner \in 2..(Top + 1)
      /\ stack \in Seq(LevelType) /\ Top = Len(stack)
  BY <1>1, CutAssumption, OpenFacts DEF Enter
<1>3. /\ rows' = Append(rows, row) /\ position' = position + 1
      /\ UNCHANGED <<base, measuring, completed, offers, parts>>
      /\ \/ stack' = Append(stack, level) /\ pc' = "budget"
         \/ pc' = "error"
  BY DEF Enter
<1>4. Grows(row) /\ row.bytes = bytes
  BY <1>2, <1>3 DEF Grows, RowType
<1>5. level.row = position
  BY DEF Level
<1> HIDE DEF row, level
<1>6. DepthsInv'
  BY <1>1, <1>4, DepthsGrow
<1>7. GreedyParts'
  BY <1>1, <1>3, BeforeClosed, <1>4, GreedyGrows
<1>8. SUFFICES ASSUME Running'
               PROVE  WaitInv' /\ KnownInv'
  BY <1>6, <1>7 DEF GreedyInv
<1>9. stack' = Append(stack, level) /\ pc' = "budget"
  BY <1>3, <1>8 DEF Running
<1>10. /\ Top' = Top + 1 /\ Inner' = Inner
       /\ \A i \in 1..Top : stack'[i] = stack[i]
       /\ stack'[Top + 1].row = position
  BY <1>1, <1>2, <1>3, <1>5, <1>9, AppendProperties DEF Top, Inner
<1>11. RunLevel' = RunLevel
  BY <1>2, <1>10 DEF RunLevel
<1>12. WaitInv'
  BY <1>1, <1>3, <1>4, <1>10, <1>11, WaitGrows
<1>13. KnownInv'
  BY <1>1, <1>3, <1>4, <1>8, <1>10, KnownGrows
<1>14. QED
  BY <1>12, <1>13

-----------------------------------------------------------------------------
(* Steps that leave the tree.                                              *)

\* The parts before a step, when the next row will be at depth d at most.
LEMMA GreedyLower ==
    ASSUME IInv, PartsInv, GreedyParts, NEW d \in Int, d <= IF Running THEN Top ELSE 0
    PROVE  \A k \in DOMAIN parts : Greedy(parts[k], d)
<1>1. TypeOK /\ Len(rows) = position /\ Top \in Int
  BY LevelTypes DEF IInv, PartsInv
<1>2. ASSUME NEW k \in DOMAIN parts
      PROVE  Greedy(parts[k], d)
  <2>1. PICK part : part = parts[k]
    OBVIOUS
  <2>2. PICK c : c = IF Running THEN Top ELSE 0
    OBVIOUS
  <2>3. part.first \in Nat /\ part.end \in Nat /\ part.end <= position
    BY <2>1, RightParts DEF Right
  <2>4. Greedy(part, c)
    BY <2>1, <2>2 DEF GreedyParts
  <2>5. c \in Int /\ d <= c
    BY <1>1, <2>2
  <2>6. Greedy(part, d)
    BY <1>1, <2>3, <2>4, <2>5, GreedyLess
  <2>7. QED
    BY <2>1, <2>6
<1>3. QED
  BY <1>2

\* A step that stops the walk, or does not start it.
LEMMA StopGreedy ==
    ASSUME IInv, PartsInv, GreedyInv, UNCHANGED <<rows, position, parts>>, ~Running'
    PROVE  GreedyInv'
<1>1. DepthsInv'
  BY DepthsSame DEF GreedyInv
<1>2. Running => 0 <= Top
  BY OpenFacts
<1>3. \A k \in DOMAIN parts : Greedy(parts[k], 0)
  BY <1>2, GreedyLower DEF GreedyInv
<1>4. GreedyParts'
  BY <1>3, GreedySame
<1>5. QED
  BY <1>1, <1>4 DEF GreedyInv

\* A step that only moves the run loop on.
LEMMA MoveOnGreedy ==
    ASSUME IInv, PartsInv, GreedyInv, Running, Running', Inner' = Inner,
           UNCHANGED <<stack, base, position, completed, offers, rows, parts>>
    PROVE  GreedyInv'
<1>1. DepthsInv /\ GreedyParts /\ WaitInv /\ KnownInv
  BY DEF GreedyInv
<1>2. DepthsInv'
  BY <1>1, DepthsSame
<1>3. Top' = Top /\ RunLevel' = RunLevel
  BY DEF Top, RunLevel
<1>4. GreedyParts'
  BY <1>1, <1>3, GreedySame DEF GreedyParts
<1>5. WaitInv'
  BY <1>1, <1>3, WaitSame
<1>6. KnownInv'
  BY <1>1, KnownSame
<1>7. QED
  BY <1>2, <1>4, <1>5, <1>6 DEF GreedyInv

LEMMA StutterGreedy ==
    ASSUME IInv, PartsInv, GreedyInv, UNCHANGED vars
    PROVE  GreedyInv'
<1>1. UNCHANGED <<pc, stack, base, position, measuring, completed, offers, rows, parts>>
  BY DEF vars
<1>2. CASE Running
  BY <1>1, <1>2, MoveOnGreedy DEF Running, Inner
<1>3. CASE ~Running
  BY <1>1, <1>3, StopGreedy DEF Running
<1>4. QED
  BY <1>2, <1>3

LEMMA WithinBudgetGreedy ==
    ASSUME IInv, PartsInv, GreedyInv, WithinBudget
    PROVE  GreedyInv'
<1>1. Running /\ Running' /\ Inner' = Inner
  BY DEF WithinBudget, Running, Inner
<1>2. QED
  BY <1>1, MoveOnGreedy DEF WithinBudget

LEMMA OfferedGreedy ==
    ASSUME IInv, PartsInv, GreedyInv, Offered
    PROVE  GreedyInv'
<1>1. Running /\ Running' /\ Inner' = Inner
  BY DEF Offered, Running, Inner
<1>2. QED
  BY <1>1, MoveOnGreedy DEF Offered

\* There are no parts when the walk has not started.
LEMMA NoPartsYet ==
    ASSUME IInv, PartsInv, position = 0
    PROVE  \A k \in DOMAIN parts : FALSE
<1>1. ASSUME NEW k \in DOMAIN parts
      PROVE  FALSE
  <2>1. PICK part : part = parts[k]
    OBVIOUS
  <2>2. Right(part)
    BY <2>1, RightParts
  <2>3. QED
    BY <2>2 DEF Right
<1>2. QED
  BY <1>1

LEMMA StartGreedy ==
    ASSUME IInv, PartsInv, GreedyInv, Start, IInv'
    PROVE  GreedyInv'
<1>1. /\ UNCHANGED <<rows, position, parts, base, offers, measuring>>
      /\ position = 0 /\ base = 0 /\ offers = <<>> /\ measuring = 2
      /\ \/ pc' = "visit" /\ stack' = <<Root>>
         \/ pc' = "error"
  BY DEF Start, IInv
<1>2. CASE pc' = "error"
  BY <1>1, <1>2, StopGreedy DEF Running
<1>3. CASE pc' = "visit" /\ stack' = <<Root>>
  <2>1. DepthsInv'
    BY <1>1, DepthsSame DEF GreedyInv
  <2>2. GreedyParts'
    BY <1>1, NoPartsYet DEF GreedyParts
  <2>3. Inner' = 2 /\ Top' = 1 /\ stack'[1] = Root /\ Running'
    BY <1>1, <1>3 DEF Inner, Top, Running
  <2>4. RunLevel'.run_first = 0 /\ base' = 0
    BY <1>1, <2>3 DEF RunLevel, Root, Level
  <2>5. WaitInv'
    BY <2>4, WaitNone
  <2>6. KnownInv'
    BY <1>1, <2>3, NothingOffered, KnownWillBe
  <2>7. QED
    BY <2>1, <2>2, <2>5, <2>6 DEF GreedyInv
<1>4. QED
  BY <1>1, <1>2, <1>3

LEMMA InitGreedy ==
    ASSUME Init
    PROVE  GreedyInv
<1>1. position = 0 /\ parts = <<>> /\ ~Running
  BY DEF Init, Running
<1>2. DepthsInv
  BY <1>1 DEF DepthsInv
<1>3. GreedyParts
  BY <1>1 DEF GreedyParts
<1>4. QED
  BY <1>1, <1>2, <1>3 DEF GreedyInv

\* A walk that ends well.
LEMMA FinishRootGreedy ==
    ASSUME IInv, PartsInv, GreedyInv, FinishRoot
    PROVE  GreedyInv'
<1>1. /\ pc = "visit" /\ Running /\ Top = 1 /\ Seal(stack, position, "done")
      /\ UNCHANGED <<position, rows>>
      /\ DepthsInv /\ GreedyParts /\ WaitInv /\ offers = <<>>
  BY RunningFacts DEF FinishRoot, Visiting, Running, GreedyInv, OffersInv
<1>2. Inner = 2 /\ RunEnd = position
  BY <1>1, OpenFacts, RunEndFacts DEF RunEnd
<1>3. ~Running'
  BY <1>1 DEF Seal, Running
<1>4. GreedyParts'
  BY <1>1, <1>2, SealGreedy, <1>3, GreedySame DEF RunDone
<1>5. QED
  BY <1>1, <1>3, <1>4, DepthsSame DEF GreedyInv

-----------------------------------------------------------------------------
(* A directory is finished.                                                *)

LEMMA FinishSplitGreedy ==
    ASSUME IInv, PartsInv, GreedyInv, FinishSplit, IInv'
    PROVE  GreedyInv'
<1> DEFINE run == RunLevel.run_first
<1>1. /\ pc = "visit" /\ Running /\ Top > 1 /\ Inner = measuring /\ offers = <<>>
      /\ stack[Top].split
      /\ SealIf(SealsAtEnd(stack[Top]), stack, position, "visit")
      /\ stack' = SetRun(Below, Top - 1, position, 0)
      /\ path' = SubSeq(path, 1, stack[Top - 1].path_len)
      /\ measuring' = (IF measuring < Top THEN measuring ELSE Top)
      /\ UNCHANGED <<position, total, offers, rows>>
      /\ DepthsInv /\ GreedyParts /\ WaitInv
  BY DEF FinishSplit, Visiting, Running, Inner, Pop, IInv, OffersInv, GreedyInv
<1>2. /\ Top \in Nat /\ position \in Nat /\ base \in Nat /\ position \in 0..MaxRows
      /\ Inner = Top + 1 /\ RunLevel = stack[Top] /\ RunEnd = position
      /\ run \in Nat /\ base <= run /\ run <= position
  <2>1. /\ Top \in Nat /\ position \in Nat /\ base \in Nat /\ Inner \in 2..(Top + 1)
        /\ \A i \in 1..Top : stack[i].split <=> i < Inner
    BY <1>1, OpenFacts
  <2>2. Inner = Top + 1 /\ Inner - 1 = Top
    BY <1>1, <2>1
  <2>3. RunEnd = position /\ RunLevel = stack[Top]
    BY <1>1, <2>2, RunEndFacts DEF RunEnd, RunLevel
  <2>4. run \in Nat /\ base <= run /\ run <= position
    BY <1>1, <2>3, RunEndFacts
  <2>5. position \in 0..MaxRows
    BY <1>1, RunningFacts DEF TypeOK
  <2>6. QED
    BY <2>1, <2>2, <2>3, <2>4, <2>5
<1>3. /\ Below \in Seq(LevelType) /\ Len(Below) = Top - 1 /\ Top - 1 \in 1..Len(Below)
  BY <1>1, <1>2, PopFacts
<1>4. RunMoved(stack', Below, Top - 1, position)
  BY <1>2, CutAssumption, <1>1, <1>3, SetRunFacts DEF NoRun
<1>5. Top' = Top - 1
  BY <1>3, <1>4 DEF Top, RunMoved, SameLevels
<1>6. RunDone
  BY <1>2 DEF RunDone
<1>7. GreedyParts'
  <2>1. \A d \in Int : d <= Top - 1 => \A k \in DOMAIN parts' : Greedy(parts'[k], d)
    <3>1. ASSUME NEW d \in Int, d <= Top - 1
          PROVE  \A k \in DOMAIN parts' : Greedy(parts'[k], d)
      <4>1. d <= Top /\ d <= Inner - 2
        BY <1>2, <3>1
      <4>2. Seal(stack, RunEnd, "visit") \/ UNCHANGED parts
        BY <1>1, <1>2 DEF SealIf
      <4>3. QED
        BY <1>1, <1>6, <4>1, <4>2, SealGreedy
    <3>2. QED
      BY <3>1
  <2>2. PICK d : d = IF Running' THEN Top' ELSE 0
    OBVIOUS
  <2>3. d \in Int /\ d <= Top - 1
    BY <1>1, <1>2, <1>5, <2>2
  <2>4. \A k \in DOMAIN parts' : Greedy(parts'[k], d)
    BY <2>1, <2>3
  <2>5. QED
    BY <1>1, <2>2, <2>4, GreedySame
<1>8. DepthsInv'
  BY <1>1, DepthsSame
<1>9. SUFFICES ASSUME Running'
               PROVE  WaitInv' /\ KnownInv'
  BY <1>7, <1>8 DEF GreedyInv
<1>10. Inner' = Top /\ RunLevel' = stack'[Top - 1] /\ RunLevel'.run_first = position
  <2>1. pc' = "visit"
    BY <1>1, <1>9 DEF SealIf, Seal, Running
  <2>2. Inner' = Top
    BY <1>1, <1>2, <2>1 DEF Inner
  <2>3. QED
    BY <1>4, <2>2 DEF RunLevel, RunMoved
<1>11. base' = position
  <2>1. CASE SealsAtEnd(stack[Top])
    BY <1>1, <2>1 DEF SealIf, Seal
  <2>2. CASE ~SealsAtEnd(stack[Top])
    <3>1. base' = base /\ ~(run < position) /\ ~(base <= stack[Top].row)
      BY <1>1, <1>2, <2>2 DEF SealIf, SealsAtEnd
    <3>2. ~(base < run)
      <4>1. SUFFICES ASSUME base < run PROVE FALSE
        OBVIOUS
      <4>2. run = stack[Top].row + 1
        BY <1>1, <1>2, <4>1 DEF WaitInv
      <4>3. stack[Top].row \in Nat
        BY <1>1, <1>2, OpenFacts
      <4> HIDE DEF run
      <4>4. QED
        BY <1>2, <3>1, <4>1, <4>2, <4>3
    <3>3. QED
      BY <1>2, <3>1, <3>2
  <2>3. QED
    BY <2>1, <2>2
<1>12. WaitInv'
  BY <1>2, <1>10, <1>11, WaitNone
<1>13. KnownInv'
  BY <1>1, <1>9, NothingOffered, <1>2, <1>5, <1>10, KnownWillBe
<1>14. QED
  BY <1>12, <1>13

LEMMA FinishMeasuredGreedy ==
    ASSUME IInv, PartsInv, GreedyInv, FinishMeasured, IInv'
    PROVE  GreedyInv'
<1> DEFINE run == RunLevel.run_first
           p == stack[Top].row
           bytes == total - stack[Top].start_total
           c == stack[Top].completed
           kept == SubSeq(completed, 1, c)
           full == RunIsFull(RunLevel, p, bytes)
<1>1. /\ pc = "visit" /\ Running /\ Top > 1 /\ Inner = measuring /\ offers = <<>>
      /\ ~stack[Top].split
      /\ Finished(Below, kept, Top - 1, p, bytes, "visit")
      /\ path' = SubSeq(path, 1, stack[Top - 1].path_len)
      /\ measuring' = (IF measuring < Top THEN measuring ELSE Top)
      /\ UNCHANGED <<position, total, offers, rows>>
      /\ DepthsInv /\ GreedyParts /\ WaitInv /\ KnownInv
  BY DEF FinishMeasured, Visiting, Running, Inner, Pop, IInv, OffersInv, GreedyInv
<1>2. /\ TypeOK /\ Len(rows) = position /\ NestInv /\ RunIsInv /\ CompletedInv
      /\ Top \in Nat /\ Top \in 1..Top /\ Top \in 2..Top /\ Top - 1 \in 1..Top
      /\ position \in Nat /\ position \in 0..MaxRows /\ base \in Nat
      /\ Inner \in 2..Top
      /\ \A i \in 1..Top : stack[i].split <=> i < Inner
      /\ completed \in Seq(ChildType) /\ Len(completed) \in Nat
  <2>1. /\ Top \in Nat /\ Inner \in 2..(Top + 1) /\ position \in Nat /\ base \in Nat
        /\ \A i \in 1..Top : stack[i].split <=> i < Inner
        /\ completed \in Seq(ChildType) /\ Len(completed) \in Nat
    BY <1>1, OpenFacts
  <2>2. Top \in 1..Top /\ Top \in 2..Top /\ Top - 1 \in 1..Top /\ Inner \in 2..Top
    BY <1>1, <2>1
  <2>3. TypeOK /\ Len(rows) = position /\ NestInv /\ RunIsInv /\ CompletedInv
    BY <1>1, RunningFacts
  <2>4. QED
    BY <2>1, <2>2, <2>3 DEF TypeOK
<1>3. /\ p \in Nat /\ p \in 0..(position - 1) /\ c \in Nat /\ c <= Len(completed)
      /\ bytes \in Nat
      /\ EndOf(p) = position /\ bytes = Bytes(p, position)
  <2>1. /\ \A i \in 1..Top : stack[i].row \in Nat /\ stack[i].completed \in Nat
        /\ \A i \in 2..Top : /\ stack[i].row < position
                             /\ stack[i].start_total \in Nat
                             /\ stack[i].start_total <= total
        /\ total \in Nat
    BY <1>1, OpenFacts
  <2>2. c <= Len(completed)
    BY <1>2 DEF CompletedInv
  <2>3. bytes \in Nat
    BY <1>2, <2>1
  <2>4. EndOf(p) = position /\ Size(p) = bytes
    BY <1>1, <1>2, OpenLevels
  <2>5. bytes = Bytes(p, position)
    BY <2>4 DEF Size
  <2>6. QED
    BY <1>2, <2>1, <2>2, <2>3, <2>4, <2>5
<1>4. /\ run \in Nat /\ RunEnd \in Nat /\ base <= run /\ run <= RunEnd /\ RunEnd <= p
      /\ RunEnd = FinishedEnd(Inner - 1) /\ RunEnd = stack[Inner].row
      /\ RunLevel.run_bytes = Bytes(run, RunEnd)
  BY <1>1, <1>2, RunEndFacts, LevelOrder DEF RunEnd, RunIsInv
<1>5. /\ Below \in Seq(LevelType) /\ Len(Below) = Top - 1 /\ Top - 1 \in 1..Len(Below)
      /\ \A k \in 1..(Top - 1) : Below[k] = stack[k]
  BY <1>1, <1>2, PopFacts
<1> HIDE DEF p, bytes, c, kept
\* Either the directory above is split, and has an open run, or it is measuring too.
<1>6. Inner = Top =>
          /\ AddToRun(Below, Top - 1, p, bytes, "visit") /\ Below[Top - 1] = RunLevel /\ RunEnd = p
          /\ RunMoved(stack', Below, Top - 1, IF full THEN p ELSE run)
          /\ pc' \in {"visit", "error"}
  <2>1. ASSUME Inner = Top
        PROVE  AddToRun(Below, Top - 1, p, bytes, "visit") /\ Below[Top - 1] = RunLevel /\ RunEnd = p
    BY <1>1, <1>2, <1>4, <1>5, <2>1 DEF Finished, RunLevel, p
  <2>2. ASSUME Inner = Top
        PROVE  RunMoved(stack', Below, Top - 1, IF full THEN p ELSE run)
    BY <1>2, <1>3, <1>5, <2>1, <2>2, AddToRunStack
  <2>3. QED
    BY <2>1, <2>2 DEF AddToRun, SealIf, Seal
<1>7. Inner # Top =>
          /\ stack' = Below /\ UNCHANGED <<base, parts>> /\ pc' = "visit" /\ Inner < Top
          /\ completed' = Append(kept, Child(p, bytes))
  <2>1. SUFFICES ASSUME Inner # Top
                 PROVE  Inner < Top /\ ~Below[Top - 1].split
    BY <1>1 DEF Finished
  <2>2. Inner < Top /\ ~(Top - 1 < Inner)
    BY <1>2, <2>1
  <2>3. QED
    BY <1>2, <1>5, <2>2
<1>8. /\ pc' \in {"visit", "error"}
      /\ stack' \in Seq(LevelType) /\ SameLevels(stack', Below)
      /\ Top' = Top - 1
  <2>1. CASE Inner = Top
    BY <1>5, <1>6, <2>1 DEF RunMoved, SameLevels, Top
  <2>2. CASE Inner # Top
    BY <1>5, <1>7, <2>2 DEF SameLevels, Top
  <2>3. QED
    BY <2>1, <2>2
<1>9. GreedyParts'
  <2>1. (RunDone /\ Seal(Below, RunEnd, "visit")) \/ UNCHANGED parts
    <3>1. CASE Inner = Top /\ full
      <4>1. Seal(Below, RunEnd, "visit")
        BY <1>6, <3>1 DEF AddToRun, SealIf
      <4>2. run < p /\ RunLevel.run_bytes + bytes > Budget
        BY <3>1 DEF RunIsFull
      <4>3. Bytes(run, position) > Budget
        <5>1. run \in 0..position /\ p \in 0..position /\ position \in 0..position
          BY <1>2, <1>3, <1>4, <4>2
        <5>2. Bytes(run, p) + Bytes(p, position) = Bytes(run, position)
          <6> HIDE DEF run
          <6>1. QED
            BY <1>2, <5>1, BytesFacts
        <5>3. RunLevel.run_bytes = Bytes(run, p) /\ bytes = Bytes(p, position)
          BY <1>3, <1>4, <1>6, <3>1
        <5>4. QED
          BY <4>2, <5>2, <5>3
      <4>4. RunDone
        BY <1>3, <1>6, <3>1, <4>3 DEF RunDone
      <4>5. QED
        BY <4>1, <4>4
    <3>2. CASE Inner = Top /\ ~full
      BY <1>6, <3>2 DEF AddToRun, SealIf
    <3>3. CASE Inner # Top
      BY <1>7, <3>3
    <3>4. QED
      BY <3>1, <3>2, <3>3
  <2>2. PICK d : d = IF Running' THEN Top' ELSE 0
    OBVIOUS
  <2>3. d \in Int /\ d <= Top /\ RunEnd # position
    BY <1>2, <1>3, <1>4, <1>8, <2>2
  <2>4. \A k \in DOMAIN parts' : Greedy(parts'[k], d)
    BY <1>1, <2>1, <2>3, SealGreedy
  <2>5. QED
    BY <1>1, <2>2, <2>4, GreedySame
<1>10. DepthsInv'
  BY <1>1, DepthsSame
<1>11. SUFFICES ASSUME Running'
                PROVE  WaitInv' /\ KnownInv'
  BY <1>9, <1>10 DEF GreedyInv
<1>12. /\ pc' = "visit" /\ Inner' = (IF Inner < Top THEN Inner ELSE Top)
       /\ \A i \in 1..(Top - 1) : stack'[i].row = stack[i].row
  BY <1>8, <1>11, <1>1, PopLevels DEF Running
<1>13. CASE Inner = Top
  <2>1. /\ Inner' = Inner /\ RunLevel' = stack'[Top - 1] /\ RunLevel'.row = RunLevel.row
        /\ RunLevel'.run_first = IF full THEN p ELSE run
    BY <1>2, <1>12, <1>13, <1>6 DEF RunLevel, RunMoved
  <2>2. WaitInv'
    <3>1. CASE full
      BY <1>6, <1>13, <3>1, <1>3, <2>1, WaitNone DEF AddToRun, SealIf, Seal
    <3>2. CASE ~full
      BY <1>6, <1>13, <3>2, <1>1, <2>1, WaitSame DEF AddToRun, SealIf
    <3>3. QED
      BY <3>1, <3>2
  <2>3. KnownInv'
    BY <1>1, <1>11, NothingOffered, <1>2, <1>13, <2>1, <1>8, KnownWillBe
  <2>4. QED
    BY <2>2, <2>3
<1>14. CASE Inner # Top
  <2>1. Inner < Top /\ Inner' = Inner /\ RunLevel' = RunLevel /\ base' = base
    BY <1>2, <1>7, <1>14, <1>5, <1>12 DEF RunLevel
  <2>2. WaitInv'
    BY <1>1, <2>1, WaitSame
  <2>3. /\ kept \in Seq(ChildType) /\ Len(kept) = c
        /\ \A k \in 1..c : k \in 1..Len(completed) /\ kept[k] = completed[k]
    BY <1>2, <1>3, ElementOfSeq, SubSeqProperties DEF kept
  <2>4. /\ completed' \in Seq(ChildType) /\ Len(completed') = c + 1
        /\ \A k \in 1..c : completed'[k] = completed[k]
        /\ completed'[c + 1].position = p
    <3>1. Child(p, bytes) \in ChildType /\ Child(p, bytes).position = p
      BY <1>3 DEF Child, ChildType
    <3>2. PICK child : child = Child(p, bytes)
      OBVIOUS
    <3>3. completed' = Append(kept, child) /\ child \in ChildType /\ child.position = p
      BY <1>7, <1>14, <3>1, <3>2
    <3>4. /\ completed' \in Seq(ChildType) /\ Len(completed') = c + 1
          /\ completed'[c + 1] = child
          /\ \A k \in 1..c : completed'[k] = kept[k]
      BY <1>3, <2>3, <3>3, AppendProperties
    <3>5. QED
      BY <2>3, <3>3, <3>4
  <2>5. p \in PositionsOf(completed')
    BY <1>3, <2>4, PositionsAre
  <2>6. ASSUME NEW r \in Nat, r <= p, r \in PositionsOf(completed)
        PROVE  r \in PositionsOf(completed')
    <3>1. PICK k \in 1..Len(completed) : completed[k].position = r
      BY <1>2, <2>6, PositionsAre
    <3>2. Top \in Inner..Top
      BY <1>2
    <3>3. InSlice(Top, k)
      BY <1>2, <3>1, <3>2 DEF CompletedInv
    <3>4. ~(c < k)
      BY <1>3, <2>6, <3>1, <3>3 DEF InSlice, c, p
    <3>5. k \in 1..c /\ k \in 1..(c + 1)
      BY <1>2, <1>3, <3>4
    <3>6. QED
      BY <2>4, <3>1, <3>5, PositionsAre
  <2>7. ASSUME NEW i \in Inner..(Top - 1), NEW r \in Contents(i)'..(FinishedEnd(i)' - 1),
               rows[r + 1].depth = i - 1
        PROVE  r \in PositionsOf(completed')
    <3>1. i \in 2..Top /\ i \in 1..(Top - 1) /\ i + 1 \in 2..Top /\ i \in Inner..Top /\ i < Top
      BY <1>2, <2>7
    <3>2. Contents(i)' = Contents(i) /\ Contents(i) \in Nat /\ FinishedEnd(i) = stack[i + 1].row
          /\ FinishedEnd(i) \in Nat /\ FinishedEnd(i) <= p
      <4>1. /\ stack[i].row \in Nat /\ stack[i + 1].row \in Nat /\ stack[i + 1].row <= stack[Top].row
        BY <1>1, <1>2, <3>1, LevelOrder
      <4>2. QED
        BY SMTT(60), <1>2, <1>12, <3>1, <4>1 DEF Contents, FinishedEnd, p
    <3>3. FinishedEnd(i)' = IF i < Top - 1 THEN FinishedEnd(i) ELSE position
      BY <1>2, <3>1, <1>1, <1>8, <1>12, <3>2 DEF FinishedEnd
    <3>4. r \in Nat
      BY <3>2
    <3>5. CASE r < FinishedEnd(i)
      <4>1. r \in Contents(i)..(FinishedEnd(i) - 1) /\ r <= p
        BY <1>3, <3>2, <3>4, <3>5
      <4>2. r \in PositionsOf(completed)
        BY <1>1, <2>7, <3>1, <4>1 DEF KnownInv
      <4>3. QED
        BY <2>6, <3>4, <4>1, <4>2
    <3>6. CASE ~(r < FinishedEnd(i))
      <4>1. i = Top - 1 /\ FinishedEnd(i) = p /\ r <= position - 1 /\ p <= r
        <5>1. FinishedEnd(i)' \in Nat /\ r < FinishedEnd(i)'
          BY <1>2, <3>2, <3>3, <3>4
        <5>2. i = Top - 1
          BY <1>2, <3>1, <3>3, <3>6, <5>1
        <5>3. i + 1 = Top /\ ~(i < Top - 1)
          BY <1>2, <5>2
        <5>4. FinishedEnd(i) = p /\ FinishedEnd(i)' = position
          BY <3>2, <3>3, <5>3 DEF p
        <5>5. QED
          BY <1>2, <1>3, <3>4, <3>6, <5>1, <5>2, <5>4
      <4>2. CASE r = p
        BY <2>5, <4>2
      <4>3. CASE r # p
        <5>1. r \in (p + 1)..(position - 1)
          BY <1>2, <1>3, <3>4, <4>1, <4>3
        <5>2. rows[r + 1].depth >= Top - 1
          BY <1>2, <5>1 DEF NestInv, p
        <5>3. QED
          BY <1>2, <2>7, <4>1, <5>2
      <4>4. QED
        BY <4>2, <4>3
    <3>7. QED
      BY <3>5, <3>6
  <2>8. \A i \in Inner..(Top - 1) : KnownAt(i)'
    BY <1>1, <2>7 DEF KnownAt
  <2>9. KnownOffers'
    BY <1>1, <1>11, NothingOffered
  <2>10. KnownInv'
    BY <1>8, <2>1, <2>8, <2>9, KnownWillBe
  <2>11. QED
    BY <2>2, <2>10
<1>15. QED
  BY <1>13, <1>14

-----------------------------------------------------------------------------
(* A child is offered.                                                     *)

\* The child at hand, where the next one or the finished ones end at e, ends at e or
\* further on.
LEMMA OfferedEnd ==
    ASSUME IInv, PartsInv, Running, KnownInv, offers # <<>>,
           NEW e, e = IF 1 < Len(offers) THEN offers[2].position ELSE FinishedEnd(Inner - 1)
    PROVE  /\ RunEnd = offers[1].position /\ RunEnd \in 0..(position - 1)
           /\ e \in 0..position /\ EndOf(RunEnd) \in e..position
           /\ RunEnd < e
           /\ offers[1].bytes = Bytes(RunEnd, e)
           /\ Len(offers) \in Nat /\ Len(offers) >= 1 /\ offers \in Seq(ChildType)
<1> DEFINE p == offers[1].position
           n == Len(offers)
           last == FinishedEnd(Inner - 1)
<1>1. /\ TypeOK /\ Len(rows) = position /\ position \in Nat /\ OffersInv /\ OfferedInv
      /\ Inner \in 2..(Top + 1) /\ Top \in Nat
  BY RunningFacts, OpenFacts
<1>2. offers \in Seq(ChildType) /\ n \in Nat /\ n >= 1
  BY <1>1, EmptySeq, LenProperties DEF TypeOK
<1>3. RunEnd = p
  BY DEF RunEnd
<1>4. /\ last \in Nat /\ last <= position /\ p < last /\ p \in Nat
      /\ Contents(Inner - 1) \in Nat /\ Contents(Inner - 1) <= p
      /\ rows[p + 1].depth = Inner - 2
  BY RunEndFacts, <1>2, <1>1, <1>3 DEF OffersInv
<1>5. p < e /\ offers[1].bytes = Bytes(p, e)
  BY <1>2, <1>1 DEF OfferedInv, Cover, Whole
<1>6. e \in Nat /\ e <= last
  <2>1. CASE 1 < n
    <3>1. 2 \in 1..n
      BY <1>2, <2>1
    <3>2. offers[2] \in ChildType /\ offers[2].position < last
      BY <1>1, <1>2, <3>1, ElementOfSeq DEF OffersInv
    <3>3. e \in Nat /\ e < last
      BY <2>1, <3>2 DEF ChildType
    <3>4. QED
      BY <1>4, <3>3
  <2>2. CASE ~(1 < n)
    BY <1>4, <2>2
  <2>3. QED
    BY <2>1, <2>2
<1>7. p \in 0..(position - 1) /\ e \in 0..position
  BY <1>1, <1>4, <1>6
<1> DEFINE f == EndOf(p)
<1>8. f \in (p + 1)..position /\ EndsAt(p, f)
  BY <1>1, <1>7, EndOfFacts
<1> HIDE DEF f
<1>9. ~(f < e)
  <2>1. SUFFICES ASSUME f < e PROVE FALSE
    OBVIOUS
  <2>2. f \in Nat /\ f < position /\ f < last /\ p < f
    BY <1>1, <1>4, <1>6, <1>8, <2>1
  <2>3. rows[f + 1].depth <= Inner - 2
    BY <1>4, <1>8, <2>2 DEF EndsAt
  <2>4. rows[f + 1].depth >= Inner - 2 /\ rows[f + 1].depth \in Nat
    <3>1. PICK i \in 1..Top : i = Inner - 1
      BY <1>1
    <3>2. f \in Contents(i)..(position - 1)
      BY <1>1, <1>4, <2>2, <3>1
    <3>3. rows[f + 1].depth >= i - 1 /\ rows[f + 1].depth \in Nat
      BY <3>1, <3>2, ContentsDepth
    <3>4. i - 1 = Inner - 2
      BY <1>1, <3>1
    <3>5. QED
      BY <3>3, <3>4
  <2>5. rows[f + 1].depth = Inner - 2 /\ f \in RunEnd..(last - 1)
    <3>1. Inner \in Int
      BY <1>1
    <3>2. rows[f + 1].depth = Inner - 2
      BY <2>3, <2>4, <3>1
    <3>3. f \in p..(last - 1)
      <4> HIDE DEF p, last
      <4>1. QED
        BY <1>4, <2>2
    <3>4. QED
      BY <1>3, <3>2, <3>3
  <2>6. f \in PositionsOf(offers)
    BY <2>5 DEF KnownInv
  <2>7. PICK k \in 1..n : offers[k].position = f
    BY <1>2, <2>6, PositionsAre
  <2>8. k # 1
    BY <2>2, <2>7
  <2>9. 1 < n /\ 2 \in 1..n /\ (k = 2 \/ 2 < k)
    BY <1>2, <2>7, <2>8
  <2>10. offers[2].position = e
    BY <2>9
  <2>11. 2 < k => e < f
    BY <1>1, <2>7, <2>9, <2>10 DEF OffersInv
  <2>12. QED
    BY <1>6, <2>1, <2>2, <2>7, <2>9, <2>10, <2>11
<1>10. f \in e..position
  BY <1>1, <1>6, <1>8, <1>9
<1>11. EndOf(RunEnd) = f
  BY <1>3 DEF f
<1>12. QED
  BY <1>2, <1>3, <1>5, <1>7, <1>10, <1>11

LEMMA OfferGreedy ==
    ASSUME IInv, PartsInv, GreedyInv, Offer, IInv'
    PROVE  GreedyInv'
<1> DEFINE m == measuring
           run == RunLevel.run_first
           p == offers[1].position
           bytes == offers[1].bytes
           n == Len(offers)
           last == FinishedEnd(Inner - 1)
           e == IF 1 < n THEN offers[2].position ELSE last
           full == RunIsFull(RunLevel, p, bytes)
<1>1. /\ pc = "offer" /\ Running /\ Inner = m + 1 /\ offers # <<>>
      /\ AddToRun(stack, m, p, bytes, "offer")
      /\ offers' = Tail(offers)
      /\ UNCHANGED <<position, total, measuring, completed, rows>>
      /\ TypeOK /\ Len(rows) = position /\ OffersInv /\ RunIsInv
      /\ DepthsInv /\ GreedyParts /\ WaitInv /\ KnownInv
  BY RunningFacts DEF Offer, Running, Inner, GreedyInv
<1>2. /\ Top \in Nat /\ m \in 1..Top /\ m = Inner - 1 /\ RunLevel = stack[m]
      /\ stack \in Seq(LevelType) /\ Top = Len(stack)
      /\ position \in Nat /\ position \in 0..MaxRows /\ base \in Nat
  <2>1. /\ Top \in Nat /\ m + 1 \in 2..(Top + 1) /\ m \in Nat
        /\ stack \in Seq(LevelType) /\ Top = Len(stack) /\ position \in Nat /\ base \in Nat
        /\ position \in 0..MaxRows
    BY <1>1, OpenFacts DEF TypeOK
  <2>2. m \in 1..Top /\ m = Inner - 1
    BY <1>1, <2>1
  <2>3. QED
    BY <2>1, <2>2 DEF RunLevel
<1>3. /\ RunEnd = p /\ p \in 0..(position - 1) /\ p \in Nat
      /\ e \in 0..position /\ EndOf(p) \in e..position
      /\ p < e /\ bytes = Bytes(p, e) /\ bytes \in Nat
      /\ n \in Nat /\ n >= 1 /\ offers \in Seq(ChildType)
  <2>1. /\ RunEnd = p /\ p \in 0..(position - 1)
        /\ e \in 0..position /\ EndOf(RunEnd) \in e..position
        /\ p < e /\ bytes = Bytes(RunEnd, e)
        /\ n \in Nat /\ n >= 1 /\ offers \in Seq(ChildType)
    BY <1>1, OfferedEnd
  <2>2. 1 \in 1..n
    BY <2>1
  <2>3. offers[1] \in ChildType
    BY <2>1, <2>2, ElementOfSeq
  <2>4. bytes \in Nat /\ p \in Nat
    BY <2>3 DEF ChildType
  <2>5. QED
    BY <2>1, <2>4
<1>4. /\ run \in Nat /\ base <= run /\ run <= p /\ RunLevel.run_bytes = Bytes(run, p)
  BY <1>1, <1>3, RunEndFacts DEF RunIsInv
<1>5. /\ offers' \in Seq(ChildType) /\ Len(offers') = n - 1
      /\ \A k \in 1..(n - 1) : offers'[k] = offers[k + 1]
  BY <1>1, <1>3, HeadTailProperties
<1> HIDE DEF m, run, p, bytes, n, last, e
<1>6. RunMoved(stack', stack, m, IF full THEN p ELSE run)
  <2>1. p <= position
    BY <1>2, <1>3
  <2>2. QED
    BY <1>1, <1>2, <1>3, <2>1, AddToRunStack DEF run
<1>7. /\ Top' = Top /\ pc' \in {"offer", "error"}
      /\ \A i \in 1..Top : stack'[i].row = stack[i].row
      /\ stack'[m].run_first = IF full THEN p ELSE run
  BY <1>1, <1>2, <1>6 DEF RunMoved, SameLevels, Top, AddToRun, SealIf, Seal
<1>8. GreedyParts'
  <2>1. (RunDone /\ Seal(stack, RunEnd, "offer")) \/ UNCHANGED parts
    <3>1. CASE full
      <4>1. Seal(stack, RunEnd, "offer")
        BY <1>1, <1>2, <1>3, <3>1 DEF AddToRun, SealIf
      <4>2. run < p /\ RunLevel.run_bytes + bytes > Budget
        BY <3>1 DEF RunIsFull, run
      <4>3. Bytes(run, EndOf(p)) > Budget
        <5> DEFINE f == EndOf(p)
        <5>1. /\ run \in 0..position /\ p \in 0..position /\ e \in 0..position /\ f \in 0..position
              /\ f \in e..position
          BY <1>2, <1>3, <1>4
        <5> HIDE DEF f
        <5>2. /\ Bytes(run, p) + Bytes(p, e) = Bytes(run, e)
              /\ Bytes(run, e) + Bytes(e, f) = Bytes(run, f)
          BY <1>1, <5>1, BytesFacts
        <5>3. Bytes(e, f) \in Nat /\ Bytes(run, p) \in Nat /\ Bytes(p, e) \in Nat
          <6>1. p \in run..position /\ e \in p..position
            BY <1>2, <1>3, <1>4, <5>1
          <6>2. QED
            BY <1>1, <5>1, <6>1, BytesFacts
        <5>4. Bytes(run, p) + Bytes(p, e) > Budget
          BY <1>3, <1>4, <4>2
        <5>5. Bytes(run, f) > Budget
          BY <5>2, <5>3, <5>4, CutAssumption
        <5>6. QED
          BY <5>5 DEF f
      <4>4. RunDone
        BY <1>3, <4>3 DEF RunDone, run
      <4>5. QED
        BY <4>1, <4>4
    <3>2. CASE ~full
      BY <1>1, <1>2, <3>2 DEF AddToRun, SealIf
    <3>3. QED
      BY <3>1, <3>2
  <2>2. PICK d : d = IF Running' THEN Top' ELSE 0
    OBVIOUS
  <2>3. d \in Int /\ d <= Top /\ RunEnd # position
    BY <1>2, <1>3, <1>7, <2>2
  <2>4. \A k \in DOMAIN parts' : Greedy(parts'[k], d)
    BY <1>1, <2>1, <2>3, SealGreedy
  <2>5. QED
    BY <1>1, <2>2, <2>4, GreedySame
<1>9. DepthsInv'
  BY <1>1, DepthsSame
<1>10. SUFFICES ASSUME Running'
                PROVE  WaitInv' /\ KnownInv'
  BY <1>8, <1>9 DEF GreedyInv
<1>11. /\ pc' = "offer" /\ Inner' = Inner /\ RunLevel' = stack'[m]
       /\ RunLevel'.row = RunLevel.row
  BY <1>7, <1>10, <1>1, <1>2 DEF Running, Inner, RunLevel
<1>12. WaitInv'
  <2>1. CASE full
    <3>1. base' = p
      BY <1>1, <1>2, <2>1 DEF AddToRun, SealIf, Seal
    <3>2. QED
      BY <1>3, <1>7, <1>11, <2>1, <3>1, WaitNone
  <2>2. CASE ~full
    BY <1>1, <1>2, <2>2, <1>7, <1>11, WaitSame DEF AddToRun, SealIf, run
  <2>3. QED
    BY <2>1, <2>2
<1>13. \A i \in 1..Top : Contents(i)' = Contents(i) /\ FinishedEnd(i)' = FinishedEnd(i)
  <2>1. ASSUME NEW i \in 1..Top
        PROVE  Contents(i)' = Contents(i) /\ FinishedEnd(i)' = FinishedEnd(i)
    BY <1>2, <1>1, <1>7 DEF Contents, FinishedEnd
  <2>2. QED
    BY <2>1
<1>14. ASSUME NEW i \in Inner..Top
       PROVE  KnownAt(i)'
  <2>1. i \in 1..Top
    BY <1>1, <1>2
  <2>2. KnownAt(i)
    BY <1>1, KnownIs
  <2>3. QED
    BY <1>1, <1>13, <2>1, <2>2 DEF KnownAt
<1>15. KnownOffers'
  <2>1. CASE 1 < n
    <3>1. offers' # <<>> /\ offers'[1] = offers[2] /\ 1 \in 1..(n - 1)
      BY <1>3, <1>5, <2>1, EmptySeq
    <3>2. RunEnd' = e
      BY <2>1, <3>1 DEF RunEnd, e
    <3>3. FinishedEnd(Inner - 1)' = last
      BY <1>2, <1>11, <1>13 DEF last
    <3>4. ASSUME NEW r \in e..(last - 1), rows[r + 1].depth = Inner - 2
          PROVE  r \in PositionsOf(offers')
      <4>1. r \in Nat /\ p < r /\ r \in p..(last - 1)
        BY <1>3
      <4>2. r \in PositionsOf(offers)
        BY <1>1, <1>3, <3>4, <4>1 DEF KnownInv, last
      <4>3. PICK k \in 1..n : offers[k].position = r
        BY <1>3, <4>2, PositionsAre DEF n
      <4>4. k # 1
        BY <1>3, <4>1, <4>3 DEF p
      <4>5. k - 1 \in 1..(n - 1) /\ (k - 1) + 1 = k
        BY <1>3, <4>3, <4>4
      <4>6. offers'[k - 1].position = r
        BY <1>5, <4>3, <4>5
      <4>7. QED
        BY <1>5, <4>5, <4>6, PositionsAre
    <3>5. QED
      BY <1>1, <1>11, <3>2, <3>3, <3>4 DEF KnownOffers
  <2>2. CASE ~(1 < n)
    BY <1>3, <1>5, <2>2, EmptySeq, <1>10, NothingOffered
  <2>3. QED
    BY <2>1, <2>2
<1>16. KnownInv'
  BY <1>7, <1>11, <1>14, <1>15, KnownWillBe
<1>17. QED
  BY <1>12, <1>16

-----------------------------------------------------------------------------
(* A directory turns out too large.                                        *)

LEMMA SplitGreedy ==
    ASSUME IInv, PartsInv, GreedyInv, Split, IInv'
    PROVE  GreedyInv'
<1> DEFINE m == measuring
           n == IF m < Top THEN stack[m + 1].completed ELSE Len(completed)
           run == RunLevel.run_first
           s == stack[m].row
<1>1. SplitMade(m, n)
  BY SplitFacts
<1>2. /\ pc = "budget" /\ Running /\ Inner = m /\ m <= Top /\ offers = <<>>
      /\ total - stack[m].start_total > Budget
      /\ SealIf(ClosesRun(m), stack, s, "offer")
      /\ UNCHANGED <<position, total, measuring, rows>>
      /\ TypeOK /\ Len(rows) = position /\ NestInv /\ CompletedInv
      /\ DepthsInv /\ GreedyParts /\ WaitInv /\ KnownInv
  BY RunningFacts DEF Split, Running, Inner, PastBudget, OffersInv, GreedyInv
<1>3. /\ Top \in Nat /\ m \in 2..Top /\ m \in 1..Top
      /\ position \in Nat /\ base \in Nat
      /\ s \in Nat /\ s < position /\ rows[s + 1].depth = m - 2
      /\ Len(completed) \in Nat /\ completed \in Seq(ChildType)
      /\ \A i \in 1..Top : stack[i].row \in Nat
  <2>1. /\ Top \in Nat /\ m \in 2..(Top + 1) /\ position \in Nat /\ base \in Nat
        /\ \A i \in 1..Top : stack[i].row \in Nat
        /\ \A i \in 2..Top : stack[i].row < position /\ rows[stack[i].row + 1].depth = i - 2
        /\ Len(completed) \in Nat /\ completed \in Seq(ChildType)
    BY <1>2, OpenFacts
  <2>2. m \in 2..Top /\ m \in 1..Top
    BY <1>2, <2>1
  <2>3. QED
    BY <2>1, <2>2
<1>4. /\ RunLevel = stack[m - 1] /\ RunEnd = s
      /\ run \in Nat /\ base <= run /\ run <= s
  BY <1>2, RunEndFacts DEF RunLevel, RunEnd
<1>5. OverBudget(s)
  BY <1>2, <1>3, OpenLevels
<1>6. /\ n \in Nat /\ n <= Len(completed) /\ stack[m].completed = 0
      /\ Top' = Top
      /\ \A i \in 1..Top : stack'[i].row = stack[i].row
      /\ stack'[m].run_first = s + 1
      /\ Len(offers') = n /\ offers' \in Seq(ChildType)
      /\ \A k \in 1..n : offers'[k] = completed[k]
      /\ Len(completed') = Len(completed) - n /\ completed' \in Seq(ChildType)
      /\ \A k \in 1..(Len(completed) - n) : completed'[k] = completed[k + n]
      /\ \A i \in 1..Top : m < i => n <= stack[i].completed
  BY <1>1 DEF SplitMade
<1>7. n = IF m < Top THEN stack[m + 1].completed ELSE Len(completed)
  OBVIOUS
<1> HIDE DEF m, n, run, s
<1>8. pc' \in {"offer", "error"} /\ base' = IF run < s THEN s ELSE base
  BY <1>2, <1>4 DEF SealIf, Seal, ClosesRun, run, s
<1>9. GreedyParts'
  <2>1. (RunDone /\ Seal(stack, RunEnd, "offer")) \/ UNCHANGED parts
    BY <1>2, <1>4, <1>5 DEF SealIf, RunDone
  <2>2. PICK d : d = IF Running' THEN Top' ELSE 0
    OBVIOUS
  <2>3. d \in Int /\ d <= Top /\ RunEnd # position
    BY <1>3, <1>4, <1>6, <2>2
  <2>4. \A k \in DOMAIN parts' : Greedy(parts'[k], d)
    BY <1>2, <2>1, <2>3, SealGreedy
  <2>5. QED
    BY <1>2, <2>2, <2>4, GreedySame
<1>10. DepthsInv'
  BY <1>2, DepthsSame
<1>11. SUFFICES ASSUME Running'
                PROVE  WaitInv' /\ KnownInv'
  BY <1>9, <1>10 DEF GreedyInv
<1>12. Inner' = m + 1 /\ RunLevel' = stack'[m]
  <2>1. Inner' = m + 1
    BY <1>2, <1>8, <1>11 DEF Inner, Running, m
  <2>2. Inner' - 1 = m
    BY <1>3, <2>1
  <2>3. QED
    BY <2>1, <2>2 DEF RunLevel
<1>13. WaitInv'
  <2>1. RunLevel'.run_first = s + 1 /\ RunLevel'.row = s
    BY <1>3, <1>6, <1>12 DEF s
  <2>2. Inner' > 2
    BY <1>3, <1>12
  <2>3. ASSUME NEW r \in base'..s, r + 1 < position
        PROVE  rows[r + 2].depth > rows[r + 1].depth
    <3>1. r \in Nat
      BY <1>3, <1>4, <1>8
    <3>2. CASE r = s
      <4>1. s + 1 \in (s + 1)..(position - 1) /\ (s + 1) + 1 = s + 2
        BY <1>3, <2>3, <3>2
      <4>2. rows[s + 2].depth >= m - 1
        BY <1>2, <1>3, <4>1 DEF NestInv, s
      <4>3. rows[s + 2].depth \in Nat
        <5>1. s + 1 \in 0..(position - 1)
          BY <1>3, <2>3, <3>2
        <5>2. QED
          BY <1>2, <4>1, <5>1, RowFacts
      <4>4. QED
        BY <1>3, <3>2, <4>2, <4>3
    <3>3. CASE r # s
      <4>1. base = base' /\ base < run /\ r \in base..(run - 1)
        BY <1>3, <1>4, <1>8, <2>3, <3>1, <3>3
      <4>2. QED
        BY <1>2, <2>3, <4>1 DEF WaitInv, Descends, run
    <3>4. QED
      BY <3>2, <3>3
  <2>4. Descends(base, RunLevel.run_first, position)'
    BY <1>3, <1>2, <2>1, <2>3 DEF Descends
  <2>5. QED
    BY <2>1, <2>2, <2>4 DEF WaitInv
<1>14. \A i \in 1..Top : Contents(i)' = Contents(i) /\ FinishedEnd(i)' = FinishedEnd(i)
  <2>1. ASSUME NEW i \in 1..Top
        PROVE  Contents(i)' = Contents(i) /\ FinishedEnd(i)' = FinishedEnd(i)
    <3>1. i < Top => i + 1 \in 1..Top
      BY <1>3
    <3>2. QED
      BY <1>2, <1>6, <3>1 DEF Contents, FinishedEnd
  <2>2. QED
    BY <2>1
<1>15. \A i \in m..Top : \A k \in 1..Len(completed) : InSlice(i, k)
  BY <1>2 DEF CompletedInv
<1>16. ASSUME NEW i \in (m + 1)..Top
       PROVE  KnownAt(i)'
  <2>1. i \in 1..Top /\ i \in m..Top /\ m < i /\ i # 1
    BY <1>3
  <2>2. Contents(i) = stack[i].row + 1 /\ stack[i].row \in Nat
    BY <1>3, <2>1 DEF Contents
  <2>3. ASSUME NEW r \in Contents(i)..(FinishedEnd(i) - 1), rows[r + 1].depth = i - 1
        PROVE  r \in PositionsOf(completed')
    <3>1. r \in PositionsOf(completed)
      BY <1>2, <2>1, <2>3 DEF KnownInv
    <3>2. PICK k \in 1..Len(completed) : completed[k].position = r
      BY <1>3, <3>1, PositionsAre
    <3>3. InSlice(i, k) /\ n <= stack[i].completed
      BY <1>6, <1>15, <2>1
    <3>4. ~(k <= stack[i].completed)
      BY <2>2, <3>2, <3>3 DEF InSlice
    <3>5. stack[i].completed \in Nat
      BY <1>2, <2>1, OpenFacts
    <3>6. k - n \in 1..(Len(completed) - n) /\ (k - n) + n = k
      <4>1. n \in Nat /\ Len(completed) \in Nat
        BY <1>3, <1>6
      <4>2. n < k
        BY <3>3, <3>4, <3>5, <4>1
      <4>3. QED
        BY <4>1, <4>2
    <3>7. completed'[k - n].position = r
      BY <1>6, <3>2, <3>6
    <3>8. QED
      BY <1>6, <3>6, <3>7, PositionsAre
  <2>4. QED
    BY <1>2, <1>14, <2>1, <2>3 DEF KnownAt
<1>17. KnownOffers'
  <2>1. CASE n = 0
    BY <1>6, <2>1, EmptySeq, <1>11, NothingOffered
  <2>2. CASE n # 0
    <3>1. offers' # <<>> /\ offers'[1] = completed[1] /\ 1 \in 1..Len(completed)
      BY <1>3, <1>6, <2>2, EmptySeq
    <3>2. RunEnd' = completed[1].position /\ FinishedEnd(Inner - 1)' = FinishedEnd(m)
      BY <1>3, <1>12, <1>14, <3>1 DEF RunEnd
    <3>3. s < completed[1].position /\ completed[1].position \in Nat
      <4>1. InSlice(m, 1) /\ 0 < 1
        BY <1>3, <1>15, <3>1
      <4>2. completed[1] \in ChildType
        BY <1>3, <3>1, ElementOfSeq
      <4>3. QED
        BY <1>6, <4>1, <4>2 DEF InSlice, s, ChildType
    <3>4. Contents(m) = s + 1
      BY <1>3 DEF Contents, s
    <3>5. ASSUME NEW r \in completed[1].position..(FinishedEnd(m) - 1), rows[r + 1].depth = m - 1
          PROVE  r \in PositionsOf(offers')
      <4>1. r \in Contents(m)..(FinishedEnd(m) - 1) /\ m \in Inner..Top /\ r \in Nat
        BY <1>2, <1>3, <3>3, <3>4
      <4>2. r \in PositionsOf(completed)
        BY <1>2, <3>5, <4>1 DEF KnownInv
      <4>3. PICK k \in 1..Len(completed) : completed[k].position = r
        BY <1>3, <4>2, PositionsAre
      <4>4. k \in 1..n
        <5>1. CASE m < Top
          <6>1. m + 1 \in m..Top /\ m + 1 \in 1..Top
            BY <1>3, <5>1
          <6>2. FinishedEnd(m) = stack[m + 1].row /\ stack[m + 1].row \in Nat
            BY <1>3, <5>1, <6>1 DEF FinishedEnd
          <6>3. InSlice(m + 1, k) /\ stack[m + 1].completed = n
            BY <1>7, <1>15, <5>1, <6>1
          <6>4. r < stack[m + 1].row
            BY <4>1, <6>2
          <6>5. ~(n < k)
            BY <4>1, <4>3, <6>2, <6>3, <6>4 DEF InSlice
          <6>6. QED
            BY <1>6, <6>5
        <5>2. CASE ~(m < Top)
          BY <1>7, <5>2
        <5>3. QED
          BY <5>1, <5>2
      <4>5. offers'[k].position = r
        BY <1>6, <4>3, <4>4
      <4>6. QED
        BY <1>6, <4>4, <4>5, PositionsAre
    <3>6. Inner' - 2 = m - 1
      BY <1>3, <1>12
    <3>7. QED
      BY <1>2, <3>2, <3>5, <3>6 DEF KnownOffers
  <2>3. QED
    BY <2>1, <2>2
<1>18. KnownInv'
  BY <1>6, <1>12, <1>16, <1>17, KnownWillBe
<1>19. QED
  BY <1>13, <1>18

-----------------------------------------------------------------------------
(* Every step.                                                             *)

LEMMA GreedyStep ==
    ASSUME IInv, PartsInv, GreedyInv, [Next]_vars
    PROVE  GreedyInv'
<1>1. IInv'
  BY InvStep
<1>2. CASE UNCHANGED vars
  BY <1>2, StutterGreedy
<1>3. CASE Start
  BY <1>1, <1>3, StartGreedy
<1>4. CASE Cancelled \/ FailedEntry
  BY <1>4, StopGreedy DEF Cancelled, FailedEntry, Running
<1>5. ASSUME NEW bytes \in Sizes, Leaf(bytes) \/ Enter(bytes)
      PROVE  GreedyInv'
  BY <1>1, <1>5, LeafGreedy, EnterGreedy
<1>6. CASE WithinBudget
  BY <1>6, WithinBudgetGreedy
<1>7. CASE Split
  BY <1>1, <1>7, SplitGreedy
<1>8. CASE Offer
  BY <1>1, <1>8, OfferGreedy
<1>9. CASE Offered
  BY <1>9, OfferedGreedy
<1>10. CASE FinishRoot
  BY <1>10, FinishRootGreedy
<1>11. CASE FinishSplit
  BY <1>1, <1>11, FinishSplitGreedy
<1>12. CASE FinishMeasured
  BY <1>1, <1>12, FinishMeasuredGreedy
<1>13. QED
  BY <1>2, <1>3, <1>4, <1>5, <1>6, <1>7, <1>8, <1>9, <1>10, <1>11, <1>12
     DEF Next, Step, Terminating

\* In every state of every walk, each part is as long as it could be, whatever comes after.
THEOREM RunsAreGreedy == Spec => [](IInv /\ PartsInv /\ GreedyInv)
<1>1. Init => IInv /\ PartsInv /\ GreedyInv
  BY InitStep, InitParts, InitGreedy
<1>2. IInv /\ PartsInv /\ GreedyInv /\ [Next]_vars => IInv' /\ PartsInv' /\ GreedyInv'
  BY InvStep, PartsStep, GreedyStep
<1>3. QED
  BY <1>1, <1>2, PTL DEF Spec

-----------------------------------------------------------------------------
(* The recursive rule: what it is made of.                                 *)

LEMMA RowListType ==
    ASSUME NEW p \in Nat, NEW q \in Nat, p <= q
    PROVE  /\ RowList(p, q) \in Seq(Nat)
           /\ Len(RowList(p, q)) = q - p
           /\ \A i \in 1..(q - p) : RowList(p, q)[i] = p + i - 1
<1> DEFINE n == q - p
           t == [i \in 1..n |-> p + i - 1]
<1>1. n \in Nat
  OBVIOUS
<1>2. \A i \in 1..n : p + i - 1 \in Nat
  OBVIOUS
<1>3. t \in [1..n -> Nat]
  BY <1>2
<1>4. t \in Seq(Nat)
  BY <1>1, <1>3, SeqDef
<1>5. Len(t) = n
  BY <1>1, <1>4
<1>6. RowList(p, q) = t
  BY DEF RowList
<1>7. QED
  BY <1>4, <1>5, <1>6

\* Lists of rows that follow one another.
LEMMA RowLists ==
    ASSUME NEW p \in Nat, NEW q \in Nat, NEW r \in Nat, p <= q, q <= r
    PROVE  RowList(p, q) \o RowList(q, r) = RowList(p, r)
<1> DEFINE s == RowList(p, q)
           t == RowList(q, r)
           u == RowList(p, r)
<1>1. /\ s \in Seq(Nat) /\ Len(s) = q - p /\ \A i \in 1..(q - p) : s[i] = p + i - 1
      /\ t \in Seq(Nat) /\ Len(t) = r - q /\ \A i \in 1..(r - q) : t[i] = q + i - 1
      /\ u \in Seq(Nat) /\ Len(u) = r - p /\ \A i \in 1..(r - p) : u[i] = p + i - 1
  <2>1. p <= r
    OBVIOUS
  <2>2. s \in Seq(Nat) /\ Len(s) = q - p /\ \A i \in 1..(q - p) : s[i] = p + i - 1
    BY RowListType
  <2>3. t \in Seq(Nat) /\ Len(t) = r - q /\ \A i \in 1..(r - q) : t[i] = q + i - 1
    BY RowListType
  <2>4. u \in Seq(Nat) /\ Len(u) = r - p /\ \A i \in 1..(r - p) : u[i] = p + i - 1
    BY <2>1, RowListType
  <2>5. QED
    BY <2>2, <2>3, <2>4
<1> HIDE DEF s, t, u
<1>2. /\ s \o t \in Seq(Nat) /\ Len(s \o t) = Len(s) + Len(t)
      /\ \A i \in 1..(Len(s) + Len(t)) : (s \o t)[i] = IF i <= Len(s) THEN s[i] ELSE t[i - Len(s)]
  BY <1>1, ConcatProperties
<1>3. Len(s) + Len(t) = r - p
  BY <1>1
<1>4. ASSUME NEW i \in 1..(r - p)
      PROVE  (s \o t)[i] = u[i]
  <2>1. CASE i <= q - p
    BY <2>1, <1>1, <1>2, <1>3
  <2>2. CASE ~(i <= q - p)
    <3>1. i - (q - p) \in 1..(r - q) /\ q + (i - (q - p)) - 1 = p + i - 1
      BY <2>2
    <3>2. (s \o t)[i] = t[i - (q - p)]
      BY <1>1, <1>2, <1>3, <2>2
    <3>3. t[i - (q - p)] = q + (i - (q - p)) - 1 /\ u[i] = p + i - 1
      BY <1>1, <3>1
    <3>4. QED
      BY <3>1, <3>2, <3>3
  <2>3. QED
    BY <2>1, <2>2
<1>5. s \o t = u
  BY <1>1, <1>2, <1>3, <1>4, SeqEqual
<1>6. QED
  BY <1>5 DEF s, t, u

\* A list of no rows, of some rows, and of one row more.
LEMMA RowListEnds ==
    ASSUME NEW p \in Nat, NEW q \in Nat, p <= q
    PROVE  /\ RowList(q, q) = <<>>
           /\ p < q => RowList(p, q) # <<>>
           /\ Append(RowList(p, q), q) = RowList(p, q + 1)
           /\ RowList(p, q + 1) # <<>>
           /\ RowList(p, q + 1)[Len(RowList(p, q + 1))] = q
<1>1. RowList(q, q) \in Seq(Nat) /\ Len(RowList(q, q)) = 0
  BY RowListType
<1>2. RowList(q, q) = <<>>
  BY <1>1, EmptySeq
<1>3. ASSUME NEW n \in Nat, p < n
      PROVE  RowList(p, n) # <<>>
  BY <1>3, RowListType, EmptySeq
<1> DEFINE s == RowList(p, q)
           u == RowList(p, q + 1)
<1>4. /\ s \in Seq(Nat) /\ Len(s) = q - p /\ \A i \in 1..(q - p) : s[i] = p + i - 1
  BY RowListType
<1>5. /\ u \in Seq(Nat) /\ Len(u) = (q + 1) - p /\ \A i \in 1..((q + 1) - p) : u[i] = p + i - 1
  BY RowListType
<1> HIDE DEF s, u
<1>6. /\ Append(s, q) \in Seq(Nat) /\ Len(Append(s, q)) = Len(s) + 1
      /\ \A i \in 1..Len(s) : Append(s, q)[i] = s[i]
      /\ Append(s, q)[Len(s) + 1] = q
  BY <1>4, AppendProperties
<1>7. ASSUME NEW i \in 1..((q + 1) - p)
      PROVE  Append(s, q)[i] = u[i]
  <2>1. u[i] = p + i - 1
    BY <1>5
  <2>2. CASE i \in 1..(q - p)
    BY <1>4, <1>6, <2>1, <2>2
  <2>3. CASE i = (q - p) + 1
    BY <2>3, <1>4, <1>6, <2>1
  <2>4. i \in 1..(q - p) \/ i = (q - p) + 1
    OBVIOUS
  <2>5. QED
    BY <2>2, <2>3, <2>4
<1>8. Len(Append(s, q)) = Len(u) /\ Len(u) = (q + 1) - p
  BY <1>4, <1>5, <1>6
<1>9. Append(s, q) = u
  BY <1>5, <1>6, <1>7, <1>8, SeqEqual
<1>10. u[Len(u)] = q
  BY <1>5
<1>11. p < q + 1 /\ q + 1 \in Nat
  OBVIOUS
<1>12. RowList(p, q + 1) # <<>>
  BY <1>3, <1>11
<1>13. p < q => RowList(p, q) # <<>>
  BY <1>3
<1>14. QED
  BY <1>2, <1>9, <1>10, <1>12, <1>13 DEF s, u

-----------------------------------------------------------------------------
(* It has one value for every call.                                        *)

LEMMA EmitTypes ==
    ASSUME NEW s \in RuleState
    PROVE  Emit(s) \in RuleState /\ EmitGroup(s) \in RuleState
<1>1. /\ s.carry \in Seq(Nat) /\ s.group \in Seq(Nat) /\ s.parts \in Seq(Seq(Nat))
  BY DEF RuleState
<1>2. s.carry \o s.group \in Seq(Nat)
  BY <1>1, ConcatProperties
<1>3. Append(s.parts, s.carry \o s.group) \in Seq(Seq(Nat))
  BY <1>1, <1>2, AppendProperties
<1>4. <<>> \in Seq(Nat)
  BY EmptySeq
<1>5. Emit(s) \in RuleState
  BY <1>3, <1>4 DEF Emit, RuleState
<1>6. QED
  BY <1>5 DEF EmitGroup

LEMMA RuleTypes ==
    ASSUME TypeOK, Len(rows) = position, NEW p \in 0..(position - 1), NEW s \in RuleState
    PROVE  /\ Carry(s, p) \in RuleState
           /\ Leave(s, p) \in RuleState
           /\ Gather(s, p) \in RuleState
<1>1. EmitGroup(s) \in RuleState /\ Emit(s) \in RuleState
  BY EmitTypes
<1>2. ASSUME NEW u \in RuleState, NEW l \in Seq(Nat), NEW b \in Nat
      PROVE  /\ [u EXCEPT !.carry = l] \in RuleState
             /\ [u EXCEPT !.group = l, !.bytes = b] \in RuleState
             /\ u.carry \in Seq(Nat) /\ u.group \in Seq(Nat) /\ u.bytes \in Nat
  BY DEF RuleState
<1>3. Carry(s, p) \in RuleState
  <2>1. PICK u \in RuleState : u = EmitGroup(s)
    BY <1>1
  <2>2. u.carry \in Seq(Nat)
    BY DEF RuleState
  <2>3. p \in Nat
    BY RowFacts
  <2>4. Append(u.carry, p) \in Seq(Nat)
    BY <2>2, <2>3, AppendProperties
  <2>5. [u EXCEPT !.carry = Append(u.carry, p)] \in RuleState
    BY <1>2, <2>4
  <2>6. QED
    BY <2>1, <2>5 DEF Carry
<1>4. Leave(s, p) \in RuleState
  BY <1>1 DEF Leave
<1>5. Gather(s, p) \in RuleState
  <2>1. PICK u \in RuleState : u = IF s.bytes + Size(p) > Budget THEN EmitGroup(s) ELSE s
    BY <1>1
  <2>2. p \in Nat /\ p \in 0..position /\ EndOf(p) \in p..position /\ EndOf(p) \in Nat /\ p <= EndOf(p)
    BY RowFacts, EndOfFacts
  <2>3. Size(p) \in Nat
    BY <2>2, BytesFacts DEF Size
  <2>4. RowList(p, EndOf(p)) \in Seq(Nat)
    BY <2>2, RowListType
  <2>5. u.group \in Seq(Nat) /\ u.bytes \in Nat
    BY DEF RuleState
  <2>6. u.group \o RowList(p, EndOf(p)) \in Seq(Nat) /\ u.bytes + Size(p) \in Nat
    BY <2>3, <2>4, <2>5, ConcatProperties
  <2>7. [u EXCEPT !.group = u.group \o RowList(p, EndOf(p)), !.bytes = u.bytes + Size(p)] \in RuleState
    BY <1>2, <2>6
  <2>8. QED
    BY <2>1, <2>7 DEF Gather
<1>6. QED
  BY <1>3, <1>4, <1>5

\* One call of the rule, with split for the calls it makes.
Nested(call) == Call(call.at + 1, EndOf(call.at), Carry(call.state, call.at))

Later(split, call) ==
    Call(EndOf(call.at), call.end,
         IF OverBudget(call.at) THEN Leave(split[Nested(call)], call.at)
         ELSE Gather(call.state, call.at))

Body(split, call) ==
    IF call.at >= call.end THEN EmitGroup(call.state) ELSE split[Later(split, call)]

\* The calls at p and after.
CallsFrom(p) == {call \in Calls : call.at >= p}

LEMMA CallFields ==
    ASSUME NEW c \in Calls
    PROVE  c.at \in 0..position /\ c.end \in 0..position /\ c.state \in RuleState
  BY DEF Calls

LEMMA CallIs ==
    ASSUME NEW p \in 0..position, NEW e \in 0..position, NEW s \in RuleState
    PROVE  /\ Call(p, e, s) \in Calls
           /\ Call(p, e, s).at = p
           /\ Call(p, e, s).end = e
           /\ Call(p, e, s).state = s
  BY DEF Call, Calls

\* The calls a call makes are at later rows.
LEMMA LaterCalls ==
    ASSUME TypeOK, Len(rows) = position, NEW n \in Nat, NEW f \in [CallsFrom(n + 1) -> RuleState],
           NEW c \in CallsFrom(n), c.at < c.end
    PROVE  /\ c.at \in 0..(position - 1)
           /\ Nested(c) \in CallsFrom(n + 1)
           /\ f[Nested(c)] \in RuleState
           /\ Later(f, c) \in CallsFrom(n + 1)
           /\ f[Later(f, c)] \in RuleState
<1> DEFINE p == c.at
<1>1. c \in Calls /\ p >= n
  BY DEF CallsFrom
<1>2. p \in 0..position /\ c.end \in 0..position /\ c.state \in RuleState
  BY <1>1, CallFields
<1>3. position \in Nat
  BY RowFacts
<1>4. p \in 0..(position - 1)
  BY <1>2, <1>3
<1> HIDE DEF p
<1>5. EndOf(p) \in (p + 1)..position
  BY <1>4, EndOfFacts
<1>6. /\ p + 1 \in 0..position /\ EndOf(p) \in 0..position
      /\ p + 1 >= n + 1 /\ EndOf(p) >= n + 1
  BY <1>1, <1>3, <1>4, <1>5
<1>7. Carry(c.state, p) \in RuleState /\ Gather(c.state, p) \in RuleState
  BY <1>2, <1>4, RuleTypes
<1>8. Nested(c) \in CallsFrom(n + 1)
  BY <1>6, <1>7, CallIs DEF Nested, p, CallsFrom
<1>9. f[Nested(c)] \in RuleState
  BY <1>8
<1>10. PICK s \in RuleState : s = IF OverBudget(p) THEN Leave(f[Nested(c)], p) ELSE Gather(c.state, p)
  BY <1>4, <1>7, <1>9, RuleTypes
<1>11. Later(f, c) \in CallsFrom(n + 1)
  BY <1>10, <1>2, <1>6, CallIs DEF Later, p, CallsFrom
<1>12. f[Later(f, c)] \in RuleState
  BY <1>11
<1>13. QED
  BY <1>4, <1>8, <1>9, <1>11, <1>12 DEF p

\* There is such a function on the calls at every row and after.
LEMMA SplitExists ==
    ASSUME TypeOK, Len(rows) = position
    PROVE  \E split : /\ split = [call \in Calls |-> Body(split, call)]
                      /\ split \in [Calls -> RuleState]
<1> DEFINE Good(n) == \E f \in [CallsFrom(position - n) -> RuleState] :
                         \A c \in CallsFrom(position - n) : f[c] = Body(f, c)
           S == {n \in 0..position : Good(n)}
<1>1. position \in Nat
  BY RowFacts
<1>2. 0 \in S
  <2> DEFINE f == [c \in CallsFrom(position - 0) |-> EmitGroup(c.state)]
  <2>1. ASSUME NEW c \in CallsFrom(position - 0)
        PROVE  EmitGroup(c.state) \in RuleState /\ c.at >= c.end
    BY <1>1, CallFields, EmitTypes DEF CallsFrom
  <2>2. f \in [CallsFrom(position - 0) -> RuleState]
    BY <2>1
  <2>3. \A c \in CallsFrom(position - 0) : f[c] = EmitGroup(c.state)
    OBVIOUS
  <2> HIDE DEF f
  <2>4. \A c \in CallsFrom(position - 0) : f[c] = Body(f, c)
    BY <2>1, <2>3 DEF Body
  <2>5. Good(0)
    BY <2>2, <2>4
  <2>6. QED
    BY <1>1, <2>5
<1>3. ASSUME NEW k \in 0..(position - 1), k \in S
      PROVE  k + 1 \in S
  <2>1. PICK n \in Nat : n = position - (k + 1)
    BY <1>1
  <2>2. position - k = n + 1 /\ k + 1 \in 0..position
    BY <1>1, <2>1
  <2>3. Good(k)
    BY <1>3
  <2>4. PICK f \in [CallsFrom(n + 1) -> RuleState] : \A c \in CallsFrom(n + 1) : f[c] = Body(f, c)
    BY <2>2, <2>3
  <2>5. ASSUME NEW c \in CallsFrom(n)
        PROVE  Body(f, c) \in RuleState
    <3>1. c \in Calls
      BY DEF CallsFrom
    <3>2. c.at \in 0..position /\ c.end \in 0..position /\ c.state \in RuleState
      BY <3>1, CallFields
    <3>3. CASE c.at >= c.end
      BY <3>2, <3>3, EmitTypes DEF Body
    <3>4. CASE ~(c.at >= c.end)
      BY <1>1, <3>2, <3>4, LaterCalls DEF Body
    <3>5. QED
      BY <3>3, <3>4
  <2> DEFINE g == [c \in CallsFrom(n) |-> Body(f, c)]
  <2>6. g \in [CallsFrom(n) -> RuleState]
    BY <2>5
  <2>7. \A c \in CallsFrom(n) : g[c] = Body(f, c)
    OBVIOUS
  <2> HIDE DEF g
  <2>8. ASSUME NEW c \in CallsFrom(n + 1)
        PROVE  c \in CallsFrom(n) /\ g[c] = f[c]
    <3>1. c \in Calls /\ c.at >= n + 1
      BY DEF CallsFrom
    <3>2. c.at \in 0..position
      BY <3>1, CallFields
    <3>3. c.at >= n
      BY <1>1, <3>1, <3>2
    <3>4. c \in CallsFrom(n)
      BY <3>1, <3>3 DEF CallsFrom
    <3>5. QED
      BY <2>4, <2>7, <3>4
  <2>9. ASSUME NEW c \in CallsFrom(n)
        PROVE  Body(g, c) = Body(f, c)
    <3>1. c \in Calls
      BY DEF CallsFrom
    <3>2. c.at \in 0..position /\ c.end \in 0..position
      BY <3>1, CallFields
    <3>3. CASE c.at >= c.end
      BY <3>3 DEF Body
    <3>4. CASE ~(c.at >= c.end)
      <4>1. c.at < c.end
        BY <1>1, <3>2, <3>4
      <4>2. Nested(c) \in CallsFrom(n + 1) /\ Later(f, c) \in CallsFrom(n + 1)
        BY <4>1, LaterCalls
      <4>3. g[Nested(c)] = f[Nested(c)]
        BY <2>8, <4>2
      <4>4. Later(g, c) = Later(f, c)
        BY <4>3 DEF Later
      <4>5. g[Later(g, c)] = f[Later(f, c)]
        BY <2>8, <4>2, <4>4
      <4>6. QED
        BY <4>5 DEF Body
    <3>5. QED
      BY <3>3, <3>4
  <2>10. n = position - (k + 1)
    BY <2>1
  <2>11. Good(k + 1)
    BY <2>6, <2>7, <2>9, <2>10
  <2> HIDE DEF Good
  <2>12. QED
    BY <2>2, <2>11
<1>4. Good(position)
  <2>1. \A n \in 0..position : n \in S
    <3> HIDE DEF S
    <3>1. QED
      BY <1>1, <1>2, <1>3, InductionUpTo
  <2> HIDE DEF Good
  <2>2. QED
    BY <1>1, <2>1
<1>5. CallsFrom(position - position) = Calls
  BY <1>1, CallFields DEF CallsFrom
<1>6. PICK f \in [Calls -> RuleState] : \A c \in Calls : f[c] = Body(f, c)
  BY <1>4, <1>5
<1>7. f = [c \in Calls |-> f[c]]
  OBVIOUS
<1>8. f = [c \in Calls |-> Body(f, c)]
  BY <1>6, <1>7
<1>9. QED
  BY <1>8

\* The rule is what its body says of it.
LEMMA SplitIs ==
    ASSUME TypeOK, Len(rows) = position
    PROVE  \A c \in Calls : SplitRule[c] = Body(SplitRule, c)
<1>1. \E split : split = [call \in Calls |-> Body(split, call)]
  BY Zenon, SplitExists
<1> DEFINE f == SplitRule
<1>2. f = [call \in Calls |-> Body(f, call)]
  BY Zenon, <1>1 DEF SplitRule, Body, Later, Nested
<1> HIDE DEF f
<1>3. \A c \in Calls : f[c] = Body(f, c)
  BY <1>2
<1>4. QED
  BY <1>3 DEF f

-----------------------------------------------------------------------------
(* The parts, once all is in one.                                          *)

Ended == IInv /\ PartsInv /\ GreedyInv /\ pc = "done"

\* Where the part after the first k starts.
First(k) == IF k < Len(parts) THEN parts[k + 1].first ELSE position

LEMMA EndedFacts ==
    ASSUME Ended
    PROVE  /\ TypeOK /\ Len(rows) = position /\ position \in Nat
           /\ Len(parts) \in Nat /\ DOMAIN parts = 1..Len(parts)
           /\ \A p \in 0..(position - 1) : rows[p + 1].depth \in Nat
           /\ DepthsInv
           /\ Tiles(parts)
           /\ position = SealedEnd(parts)
           /\ \A k \in DOMAIN parts : Right(parts[k]) /\ Greedy(parts[k], 0)
<1>1. TypeOK /\ Len(rows) = position
  BY DEF Ended, IInv, PartsInv
<1>2. parts \in Seq(PartType)
  BY <1>1 DEF TypeOK
<1>3. Len(parts) \in Nat /\ DOMAIN parts = 1..Len(parts)
  BY <1>2, LenProperties
<1>4. DepthsInv /\ GreedyParts
  BY DEF Ended, GreedyInv
<1>5. Tiles(parts) /\ position = SealedEnd(parts)
  BY DEF Ended, IInv, TilesInv, PartsTile
<1>6. ~Running
  BY DEF Ended, Running
<1>7. \A k \in DOMAIN parts : Greedy(parts[k], 0)
  BY <1>4, <1>6 DEF GreedyParts
<1>8. \A k \in DOMAIN parts : Right(parts[k])
  BY RightParts DEF Ended
<1>9. QED
  BY <1>1, <1>3, <1>4, <1>5, <1>7, <1>8, RowFacts

\* The parts follow one another from the first row to the last.
LEMMA Firsts ==
    ASSUME Ended
    PROVE  /\ First(0) = 0
           /\ First(Len(parts)) = position
           /\ \A k \in 0..Len(parts) : First(k) \in 0..position
<1>1. /\ position \in Nat /\ Len(parts) \in Nat /\ DOMAIN parts = 1..Len(parts)
      /\ Tiles(parts) /\ position = SealedEnd(parts)
      /\ \A k \in DOMAIN parts : Right(parts[k])
  BY EndedFacts
<1>2. First(Len(parts)) = position
  BY <1>1 DEF First
<1>3. First(0) = 0
  <2>1. CASE Len(parts) = 0
    BY <1>1, <2>1, EmptySeq DEF Ended, IInv, TypeOK, SealedEnd, First
  <2>2. CASE Len(parts) # 0
    BY <1>1, <2>2 DEF Tiles, First
  <2>3. QED
    BY <2>1, <2>2
<1>4. ASSUME NEW k \in 0..Len(parts)
      PROVE  First(k) \in 0..position
  <2>1. CASE k = Len(parts)
    BY <1>1, <1>2, <2>1
  <2>2. CASE k # Len(parts)
    <3>1. k + 1 \in 1..Len(parts) /\ k < Len(parts)
      <4>1. Len(parts) \in Nat
        BY <1>1
      <4>2. QED
        BY <2>2, <4>1
    <3>2. EndsInv
      BY DEF Ended, PartsInv
    <3>3. parts[k + 1].end <= position
      BY <1>1, <3>1, <3>2 DEF EndsInv
    <3>4. PICK part : part = parts[k + 1]
      OBVIOUS
    <3>5. part.first \in Nat /\ part.end \in Nat /\ part.first < part.end
      BY <1>1, <3>1, <3>4 DEF Right
    <3>6. part.first \in 0..position
      BY <1>1, <3>3, <3>4, <3>5
    <3>7. QED
      BY <3>1, <3>4, <3>6 DEF First
  <2>3. QED
    BY <2>1, <2>2
<1>5. QED
  BY <1>2, <1>3, <1>4

\* One of the parts.
LEMMA PartBounds ==
    ASSUME Ended, NEW k \in 0..(Len(parts) - 1)
    PROVE  /\ k + 1 \in DOMAIN parts
           /\ parts[k + 1].first = First(k)
           /\ parts[k + 1].end = First(k + 1)
           /\ First(k) \in 0..(position - 1)
           /\ First(k + 1) \in (First(k) + 1)..position
           /\ First(k + 1) < position => rows[First(k + 1) + 1].depth <= rows[First(k + 1)].depth
           /\ \E m \in First(k)..First(k + 1) : Shape(parts[k + 1], m)
<1>1. /\ position \in Nat /\ Len(parts) \in Nat /\ DOMAIN parts = 1..Len(parts)
      /\ Tiles(parts) /\ position = SealedEnd(parts)
      /\ \A i \in DOMAIN parts : Right(parts[i]) /\ Greedy(parts[i], 0)
  BY EndedFacts
<1>2. k + 1 \in 1..Len(parts) /\ k < Len(parts) /\ k \in 0..Len(parts) /\ k + 1 \in 0..Len(parts)
  BY <1>1
<1>3. parts[k + 1].first = First(k)
  BY <1>2 DEF First
<1>4. parts[k + 1].end = First(k + 1)
  <2>1. CASE k + 1 < Len(parts)
    BY <1>1, <2>1 DEF Tiles, First
  <2>2. CASE k + 1 = Len(parts)
    BY <1>1, <2>2, EmptySeq DEF First, SealedEnd
  <2>3. Len(parts) \in Nat
    BY <1>1
  <2>4. k + 1 < Len(parts) \/ k + 1 = Len(parts)
    BY <2>3
  <2>5. QED
    BY <2>1, <2>2, <2>4
<1>5. PICK part : part = parts[k + 1]
  OBVIOUS
<1>6. part.first \in Nat /\ part.end \in Nat /\ part.first < part.end
  BY <1>1, <1>2, <1>5 DEF Right
<1>7. First(k + 1) \in 0..position
  BY <1>2, Firsts
<1>8. First(k) \in 0..(position - 1) /\ First(k + 1) \in (First(k) + 1)..position
  BY <1>1, <1>3, <1>4, <1>5, <1>6, <1>7
<1>9. First(k + 1) < position => rows[First(k + 1) + 1].depth <= rows[First(k + 1)].depth
  BY <1>1, <1>2, <1>4 DEF Ended, PartsInv, EndsInv
<1>10. \E m \in First(k)..First(k + 1) : Shape(parts[k + 1], m)
  BY <1>1, <1>2, <1>3, <1>4 DEF Greedy
<1>11. QED
  BY <1>1, <1>2, <1>3, <1>4, <1>8, <1>9, <1>10

\* A part's run starts at its first row that is of no directory that is cut.
LEMMA ShapeAt ==
    ASSUME Ended, NEW k \in 0..(Len(parts) - 1), NEW m \in First(k)..(First(k + 1) - 1),
           AllOver(First(k), m), ~OverBudget(m)
    PROVE  Shape(parts[k + 1], m)
<1>1. /\ parts[k + 1].first = First(k) /\ parts[k + 1].end = First(k + 1)
      /\ First(k) \in 0..(position - 1)
      /\ First(k + 1) \in (First(k) + 1)..position
  BY PartBounds
<1>2. PICK n \in First(k)..First(k + 1) : Shape(parts[k + 1], n)
  BY PartBounds
<1>3. AllOver(First(k), n) /\ NoneOver(n, First(k + 1))
  BY <1>1, <1>2 DEF Shape
<1>4. position \in Nat
  BY EndedFacts
<1>5. ~(n < m)
  <2>1. SUFFICES ASSUME n < m PROVE FALSE
    OBVIOUS
  <2>2. n \in First(k)..(m - 1) /\ n \in n..(First(k + 1) - 1)
    BY <1>1, <1>4, <2>1
  <2>3. QED
    BY <1>3, <2>2 DEF AllOver, NoneOver
<1>6. ~(m < n)
  <2>1. SUFFICES ASSUME m < n PROVE FALSE
    OBVIOUS
  <2>2. m \in First(k)..(n - 1)
    BY <1>1, <1>4, <2>1
  <2>3. QED
    BY <1>3, <2>2 DEF AllOver
<1>7. m = n
  BY <1>1, <1>4, <1>5, <1>6
<1>8. QED
  BY <1>2, <1>7

\* The run's children are whole in it.
LEMMA ChildInRun ==
    ASSUME Ended, NEW k \in 0..(Len(parts) - 1), NEW m \in First(k)..(First(k + 1) - 1),
           AllOver(First(k), m), ~OverBudget(m),
           NEW p \in m..(First(k + 1) - 1), rows[p + 1].depth = rows[m + 1].depth
    PROVE  EndOf(p) <= First(k + 1)
<1>1. /\ parts[k + 1].first = First(k) /\ parts[k + 1].end = First(k + 1)
      /\ First(k) \in 0..(position - 1)
      /\ First(k + 1) \in (First(k) + 1)..position
  BY PartBounds
<1>2. Shape(parts[k + 1], m)
  BY ShapeAt
<1>3. /\ position \in Nat /\ TypeOK /\ Len(rows) = position
      /\ \A r \in 0..(position - 1) : rows[r + 1].depth \in Nat
  BY EndedFacts
<1>4. p \in 0..(position - 1) /\ m < First(k + 1)
  BY <1>1, <1>3
<1>5. EndOf(p) \in (p + 1)..position /\ EndsAt(p, EndOf(p))
  BY <1>3, <1>4, EndOfFacts
<1>6. SUFFICES ASSUME First(k + 1) < EndOf(p) PROVE FALSE
  BY <1>1, <1>3, <1>5
<1> DEFINE e == First(k + 1)
<1>7. e < position /\ e \in (p + 1)..(EndOf(p) - 1) /\ e \in 0..(position - 1)
  BY SMTT(60), <1>1, <1>3, <1>4, <1>5, <1>6
<1>8. rows[e + 1].depth > rows[p + 1].depth
  BY <1>5, <1>7 DEF EndsAt
<1>9. rows[e + 1].depth <= rows[m + 1].depth
  BY <1>1, <1>2, <1>4, <1>7 DEF Shape
<1> HIDE DEF e
<1>10. rows[e + 1].depth \in Nat /\ rows[p + 1].depth \in Nat
  BY <1>3, <1>4, <1>7
<1>11. QED
  BY <1>8, <1>9, <1>10

-----------------------------------------------------------------------------
(* The rule at a row, beside the parts.                                    *)

\* The rows from p up to end are children of a directory of depth d - 1, with all
\* below them, and they are the last of them.
Children(p, end, d) ==
    /\ p <= end
    /\ \A r \in p..(end - 1) : rows[r + 1].depth >= d
    /\ p < end => rows[p + 1].depth = d
    /\ end < position => rows[end + 1].depth < d

\* The first k parts are made, and of the next one the rows up to p: own rows up
\* to m, and then a run of rows of depth d.
Halfway(k, m, p, d) ==
    /\ k \in 0..Len(parts)
    /\ m \in First(k)..p
    /\ First(k) < p => p <= First(k + 1)
    /\ AllOver(First(k), m)
    /\ m < p => ~OverBudget(m) /\ rows[m + 1].depth = d
    /\ First(k) < m /\ m = p => rows[m].depth < d

LEMMA HalfwayFacts ==
    ASSUME Ended, NEW p \in 0..position, NEW k, NEW m, NEW d \in Nat, Halfway(k, m, p, d)
    PROVE  /\ k \in Nat /\ m \in Nat /\ First(k) \in Nat /\ First(k) <= m /\ m <= p
           /\ First(k) < position => k \in 0..(Len(parts) - 1)
<1>1. position \in Nat /\ Len(parts) \in Nat
  BY EndedFacts
<1>2. k \in 0..Len(parts) /\ m \in First(k)..p
  BY DEF Halfway
<1>3. First(k) \in 0..position /\ First(Len(parts)) = position
  BY <1>2, Firsts
<1>4. ASSUME First(k) < position
      PROVE  k \in 0..(Len(parts) - 1)
  BY <1>1, <1>3, <1>4, <1>2
<1>5. QED
  BY <1>1, <1>2, <1>3, <1>4

\* The part that has a run has it in its shape.
LEMMA HalfwayRun ==
    ASSUME Ended, NEW p \in 0..position, NEW k, NEW m, NEW d \in Nat, Halfway(k, m, p, d), m < p
    PROVE  /\ k \in 0..(Len(parts) - 1)
           /\ m \in First(k)..(First(k + 1) - 1)
           /\ p <= First(k + 1)
           /\ First(k + 1) \in 0..position
           /\ AllOver(First(k), m) /\ ~OverBudget(m)
           /\ rows[m + 1].depth = d
           /\ Shape(parts[k + 1], m)
           /\ parts[k + 1].first = First(k) /\ parts[k + 1].end = First(k + 1)
<1>1. position \in Nat /\ Len(parts) \in Nat
  BY EndedFacts
<1>2. /\ k \in Nat /\ m \in Nat /\ First(k) \in Nat /\ First(k) <= m /\ m <= p
      /\ First(k) < position => k \in 0..(Len(parts) - 1)
  BY HalfwayFacts
<1>3. First(k) < p /\ First(k) < position
  BY <1>1, <1>2
<1>4. k \in 0..(Len(parts) - 1)
  BY <1>2, <1>3
<1>5. p <= First(k + 1) /\ AllOver(First(k), m) /\ ~OverBudget(m) /\ rows[m + 1].depth = d
  BY <1>3 DEF Halfway
<1>6. /\ First(k + 1) \in (First(k) + 1)..position
      /\ parts[k + 1].first = First(k) /\ parts[k + 1].end = First(k + 1)
  BY <1>4, PartBounds
<1>7. m \in First(k)..(First(k + 1) - 1) /\ First(k + 1) \in 0..position
  BY <1>1, <1>2, <1>5, <1>6
<1>8. Shape(parts[k + 1], m)
  BY <1>4, <1>5, <1>7, ShapeAt
<1>9. QED
  BY <1>4, <1>5, <1>6, <1>7, <1>8

\* A run ends where its directory does.
LEMMA RunEndsWithDirectory ==
    ASSUME Ended, NEW p \in 0..position, NEW k, NEW m, NEW d \in Nat, Halfway(k, m, p, d), m < p,
           Children(p, p, d)
    PROVE  First(k + 1) = p
<1>1. /\ position \in Nat
      /\ \A r \in 0..(position - 1) : rows[r + 1].depth \in Nat
  BY EndedFacts
<1>2. /\ m \in First(k)..(First(k + 1) - 1) /\ p <= First(k + 1) /\ First(k + 1) \in 0..position
      /\ rows[m + 1].depth = d /\ Shape(parts[k + 1], m)
      /\ parts[k + 1].end = First(k + 1)
      /\ m \in Nat
  BY HalfwayRun, HalfwayFacts
<1>3. SUFFICES ASSUME p < First(k + 1) PROVE FALSE
  BY <1>1, <1>2
<1>4. p \in m..(First(k + 1) - 1) /\ p < position /\ p \in 0..(position - 1)
  BY <1>1, <1>2, <1>3
<1>5. rows[p + 1].depth >= d
  BY <1>2, <1>4 DEF Shape
<1>6. rows[p + 1].depth < d
  BY <1>4 DEF Children
<1>7. rows[p + 1].depth \in Nat
  BY <1>1, <1>4
<1>8. QED
  BY <1>5, <1>6, <1>7

\* It ends before a child that is cut.
LEMMA RunEndsBeforeCut ==
    ASSUME Ended, NEW p \in 0..(position - 1), NEW k, NEW m, NEW d \in Nat, Halfway(k, m, p, d), m < p,
           OverBudget(p)
    PROVE  First(k + 1) = p
<1>1. position \in Nat /\ p \in 0..position
  BY EndedFacts
<1>2. /\ m \in First(k)..(First(k + 1) - 1) /\ p <= First(k + 1) /\ First(k + 1) \in 0..position
      /\ Shape(parts[k + 1], m)
      /\ parts[k + 1].end = First(k + 1)
      /\ m \in Nat
  BY <1>1, HalfwayRun, HalfwayFacts
<1>3. SUFFICES ASSUME p < First(k + 1) PROVE FALSE
  BY <1>1, <1>2
<1>4. p \in m..(First(k + 1) - 1)
  BY <1>1, <1>2, <1>3
<1>5. NoneOver(m, First(k + 1))
  BY <1>2 DEF Shape
<1>6. QED
  BY <1>4, <1>5 DEF NoneOver

\* It ends before a child that does not fit beside it.
LEMMA RunEndsBeforeUnfit ==
    ASSUME Ended, NEW p \in 0..(position - 1), NEW k, NEW m, NEW d \in Nat, Halfway(k, m, p, d), m < p,
           rows[p + 1].depth = d, Bytes(m, EndOf(p)) > Budget
    PROVE  First(k + 1) = p
<1>1. position \in Nat /\ p \in 0..position /\ TypeOK /\ Len(rows) = position
  BY EndedFacts
<1>2. /\ m \in First(k)..(First(k + 1) - 1) /\ p <= First(k + 1) /\ First(k + 1) \in 0..position
      /\ Shape(parts[k + 1], m) /\ rows[m + 1].depth = d
      /\ AllOver(First(k), m) /\ ~OverBudget(m)
      /\ parts[k + 1].end = First(k + 1)
      /\ m \in Nat /\ k \in 0..(Len(parts) - 1)
  BY <1>1, HalfwayRun, HalfwayFacts
<1>3. SUFFICES ASSUME p < First(k + 1) PROVE FALSE
  BY <1>1, <1>2
<1>4. p \in m..(First(k + 1) - 1)
  BY <1>1, <1>2, <1>3
<1>5. rows[p + 1].depth = rows[m + 1].depth
  BY <1>2
<1>6. EndOf(p) <= First(k + 1)
  BY <1>2, <1>4, <1>5, ChildInRun
<1>7. EndOf(p) \in (p + 1)..position
  BY <1>1, EndOfFacts
<1>8. Fits(m, First(k + 1))
  BY <1>2 DEF Shape
<1>9. First(k + 1) # m + 1
  BY <1>1, <1>2, <1>6, <1>7
<1>10. Bytes(m, First(k + 1)) <= Budget
  BY <1>8, <1>9 DEF Fits
<1> DEFINE e == EndOf(p)
           f == First(k + 1)
<1>11. m \in 0..position /\ e \in 0..position /\ f \in 0..position /\ e \in m..position /\ f \in e..position
  BY <1>1, <1>2, <1>6, <1>7
<1> HIDE DEF e, f
<1>12. Bytes(m, e) \in Nat /\ Bytes(e, f) \in Nat /\ Bytes(m, e) + Bytes(e, f) = Bytes(m, f)
  BY <1>1, <1>11, BytesFacts
<1>13. Bytes(m, e) > Budget /\ Bytes(m, f) <= Budget /\ Budget \in Nat
  BY <1>10, CutAssumption DEF e, f
<1>14. QED
  BY <1>12, <1>13

\* And it goes on with a child that is not cut and fits.
LEMMA RunGoesOn ==
    ASSUME Ended, NEW p \in 0..(position - 1), NEW k, NEW m, NEW d \in Nat, Halfway(k, m, p, d), m < p,
           rows[p + 1].depth = d, ~OverBudget(p), ~(Bytes(m, EndOf(p)) > Budget)
    PROVE  p < First(k + 1)
<1>1. position \in Nat /\ p \in 0..position
  BY EndedFacts
<1>2. /\ m \in First(k)..(First(k + 1) - 1) /\ p <= First(k + 1) /\ First(k + 1) \in 0..position
      /\ Shape(parts[k + 1], m) /\ rows[m + 1].depth = d
      /\ parts[k + 1].end = First(k + 1)
      /\ m \in Nat
  BY <1>1, HalfwayRun, HalfwayFacts
<1>3. SUFFICES ASSUME First(k + 1) = p PROVE FALSE
  BY <1>1, <1>2
<1>4. p < position /\ m < p
  BY <1>1
<1>5. OverBudget(p) \/ Bytes(m, EndOf(p)) > Budget
  BY <1>2, <1>3, <1>4 DEF Shape
<1>6. QED
  BY <1>5

\* A part does not end with the own rows of directories that have contents.
LEMMA OwnRowsGoOn ==
    ASSUME Ended, NEW p \in 0..(position - 1), NEW k, NEW d \in Nat, Halfway(k, p, p, d),
           rows[p + 1].depth = d
    PROVE  k \in 0..(Len(parts) - 1) /\ p < First(k + 1)
<1>1. position \in Nat /\ p \in 0..position
      /\ \A r \in 0..(position - 1) : rows[r + 1].depth \in Nat
  BY EndedFacts
<1>2. /\ k \in Nat /\ First(k) \in Nat /\ First(k) <= p
      /\ First(k) < position => k \in 0..(Len(parts) - 1)
  BY <1>1, HalfwayFacts
<1>3. k \in 0..(Len(parts) - 1)
  BY <1>1, <1>2
<1>4. /\ First(k + 1) \in (First(k) + 1)..position
      /\ First(k + 1) < position => rows[First(k + 1) + 1].depth <= rows[First(k + 1)].depth
  BY <1>3, PartBounds
<1>5. CASE First(k) = p
  BY <1>1, <1>3, <1>4, <1>5
<1>6. CASE First(k) < p
  <2>1. p <= First(k + 1) /\ rows[p].depth < d
    BY <1>6 DEF Halfway
  <2>2. First(k + 1) # p
    <3>1. SUFFICES ASSUME First(k + 1) = p PROVE FALSE
      OBVIOUS
    <3>2. rows[p + 1].depth <= rows[p].depth
      BY <1>1, <1>4, <3>1
    <3>3. (p - 1) \in 0..(position - 1) /\ (p - 1) + 1 = p
      BY <1>1, <1>2, <1>6
    <3>4. rows[p].depth \in Nat
      BY <1>1, <3>3
    <3>5. QED
      BY <2>1, <3>2, <3>4
  <2>3. QED
    BY <1>1, <1>3, <1>4, <2>1, <2>2
<1>7. QED
  BY <1>2, <1>5, <1>6

\* The own row of a directory that is cut and empty is a part alone, or the last
\* row of one.
LEMMA EmptyCutLeaves ==
    ASSUME Ended, NEW p \in 0..(position - 1), NEW k \in 0..(Len(parts) - 1),
           First(k) <= p, p < First(k + 1), AllOver(First(k), p + 1), EndOf(p) = p + 1
    PROVE  First(k + 1) = p + 1
<1>1. /\ position \in Nat /\ TypeOK /\ Len(rows) = position
      /\ \A r \in 0..(position - 1) : rows[r + 1].depth \in Nat
  BY EndedFacts
<1>2. /\ First(k + 1) \in (First(k) + 1)..position
      /\ First(k) \in 0..(position - 1)
      /\ parts[k + 1].first = First(k) /\ parts[k + 1].end = First(k + 1)
  BY PartBounds
<1>3. PICK m \in First(k)..First(k + 1) : Shape(parts[k + 1], m)
  BY PartBounds
<1>4. p \in First(k)..((p + 1) - 1)
  BY <1>1, <1>2
<1>5. OverBudget(p)
  BY <1>4 DEF AllOver
<1>6. p < m
  <2>1. SUFFICES ASSUME m <= p PROVE FALSE
    BY <1>1, <1>2
  <2>2. p \in m..(First(k + 1) - 1)
    BY <1>1, <1>2, <2>1
  <2>3. NoneOver(m, First(k + 1))
    BY <1>2, <1>3 DEF Shape
  <2>4. QED
    BY <1>5, <2>2, <2>3 DEF NoneOver
<1>7. SUFFICES ASSUME p + 1 < First(k + 1) PROVE FALSE
  BY <1>1, <1>2
<1>8. p \in First(k)..(m - 1) /\ p + 1 < position /\ p + 1 \in 0..(position - 1)
  BY <1>1, <1>2, <1>6, <1>7
<1>9. rows[p + 2].depth > rows[p + 1].depth
  BY <1>2, <1>3, <1>7, <1>8 DEF Shape, Descends
<1>10. rows[(p + 1) + 1].depth <= rows[p + 1].depth
  BY <1>1, <1>8, EndOfFacts DEF EndsAt
<1>11. (p + 1) + 1 = p + 2
  BY <1>1
<1>12. rows[p + 2].depth \in Nat /\ rows[p + 1].depth \in Nat
  BY <1>1, <1>8, <1>11
<1>13. QED
  BY <1>9, <1>10, <1>11, <1>12

-----------------------------------------------------------------------------
(* What the rule has made when it is there.                                *)

\* The first k parts, as lists of rows.
FirstParts(k) == [i \in 1..k |-> RowList(parts[i].first, parts[i].end)]

\* The rule's state there.
Holding(k, m, p) ==
    [carry |-> RowList(First(k), m), group |-> RowList(m, p), bytes |-> Bytes(m, p),
     parts |-> FirstParts(k)]

LEMMA FirstPartsAre ==
    ASSUME Ended
    PROVE  /\ \A k \in 0..Len(parts) : FirstParts(k) \in Seq(Seq(Nat))
           /\ \A k \in 0..(Len(parts) - 1) :
                 Append(FirstParts(k), RowList(First(k), First(k + 1))) = FirstParts(k + 1)
<1> DEFINE item(i) == RowList(parts[i].first, parts[i].end)
<1>1. Len(parts) \in Nat
  BY EndedFacts
<1>2. ASSUME NEW i \in 1..Len(parts)
      PROVE  item(i) \in Seq(Nat)
  <2>1. i \in DOMAIN parts
    BY EndedFacts
  <2>2. PICK part : part = parts[i]
    OBVIOUS
  <2>3. part.first \in Nat /\ part.end \in Nat /\ part.first < part.end
    BY <2>1, <2>2, EndedFacts DEF Right
  <2>4. part.first <= part.end
    BY <2>3
  <2>5. RowList(part.first, part.end) \in Seq(Nat)
    BY <2>3, <2>4, RowListType
  <2>6. QED
    BY <2>2, <2>5
<1>3. \A k : FirstParts(k) = [i \in 1..k |-> item(i)]
  BY DEF FirstParts
<1>4. \A k \in 0..(Len(parts) - 1) : item(k + 1) = RowList(First(k), First(k + 1))
  BY PartBounds
<1> HIDE DEF item
<1>5. ASSUME NEW k \in 0..Len(parts)
      PROVE  FirstParts(k) \in Seq(Seq(Nat)) /\ Len(FirstParts(k)) = k /\ \A i \in 1..k : FirstParts(k)[i] = item(i)
  <2>1. \A i \in 1..k : item(i) \in Seq(Nat)
    BY <1>1, <1>2
  <2> DEFINE t == [i \in 1..k |-> item(i)]
  <2>2. t \in [1..k -> Seq(Nat)]
    BY <2>1
  <2>3. k \in Nat
    BY <1>1
  <2>4. t \in Seq(Seq(Nat))
    BY <2>2, <2>3, SeqDef
  <2>5. Len(t) = k
    BY <2>3, <2>4
  <2>6. FirstParts(k) = t
    BY <1>3
  <2>7. \A i \in 1..k : t[i] = item(i)
    OBVIOUS
  <2>8. QED
    BY <2>4, <2>5, <2>6, <2>7
<1>6. ASSUME NEW k \in 0..(Len(parts) - 1)
      PROVE  Append(FirstParts(k), item(k + 1)) = FirstParts(k + 1)
  <2>1. k \in 0..Len(parts) /\ k + 1 \in 0..Len(parts) /\ k + 1 \in 1..Len(parts) /\ k \in Nat
    BY <1>1
  <2>2. /\ FirstParts(k) \in Seq(Seq(Nat)) /\ Len(FirstParts(k)) = k /\ \A i \in 1..k : FirstParts(k)[i] = item(i)
    BY <1>5, <2>1
  <2>3. /\ FirstParts(k + 1) \in Seq(Seq(Nat)) /\ Len(FirstParts(k + 1)) = k + 1
        /\ \A i \in 1..(k + 1) : FirstParts(k + 1)[i] = item(i)
    BY <1>5, <2>1
  <2>4. item(k + 1) \in Seq(Nat)
    BY <1>2, <2>1
  <2> DEFINE s == Append(FirstParts(k), item(k + 1))
  <2>5. /\ s \in Seq(Seq(Nat)) /\ Len(s) = k + 1 /\ \A i \in 1..k : s[i] = FirstParts(k)[i]
        /\ s[k + 1] = item(k + 1)
    BY <2>2, <2>4, AppendProperties
  <2> HIDE DEF s
  <2>6. ASSUME NEW i \in 1..(k + 1)
        PROVE  s[i] = FirstParts(k + 1)[i]
    <3>1. i \in 1..k \/ i = k + 1
      BY <2>1
    <3>2. QED
      BY <2>2, <2>3, <2>5, <3>1
  <2>7. Len(s) = Len(FirstParts(k + 1)) /\ Len(s) = k + 1
    BY <2>3, <2>5
  <2>8. s = FirstParts(k + 1)
    BY <2>3, <2>5, <2>6, <2>7, SeqEqual
  <2>9. QED
    BY <2>8 DEF s
<1>7. QED
  BY <1>4, <1>5, <1>6

LEMMA HoldingIs ==
    ASSUME Ended, NEW k \in 0..Len(parts), NEW p \in 0..position, NEW m \in First(k)..p
    PROVE  /\ Holding(k, m, p) \in RuleState
           /\ Holding(k, m, p).carry = RowList(First(k), m)
           /\ Holding(k, m, p).group = RowList(m, p)
           /\ Holding(k, m, p).bytes = Bytes(m, p)
           /\ Holding(k, m, p).parts = FirstParts(k)
           /\ First(k) \in Nat /\ m \in Nat /\ p \in Nat /\ First(k) <= m /\ m <= p
<1>1. position \in Nat /\ TypeOK /\ Len(rows) = position
  BY EndedFacts
<1>2. First(k) \in 0..position
  BY Firsts
<1>3. First(k) \in Nat /\ m \in Nat /\ p \in Nat /\ First(k) <= m /\ m <= p /\ m \in 0..position /\ p \in m..position
  BY <1>1, <1>2
<1>4. RowList(First(k), m) \in Seq(Nat) /\ RowList(m, p) \in Seq(Nat)
  BY <1>3, RowListType
<1>5. Bytes(m, p) \in Nat
  BY <1>1, <1>3, BytesFacts
<1>6. FirstParts(k) \in Seq(Seq(Nat))
  BY FirstPartsAre
<1>7. QED
  BY <1>3, <1>4, <1>5, <1>6 DEF Holding, RuleState

\* A whole part leaves.
LEMMA HoldingLeaves ==
    ASSUME Ended, NEW k \in 0..(Len(parts) - 1), NEW p \in 0..position, NEW m \in First(k)..p,
           First(k + 1) = p
    PROVE  Emit(Holding(k, m, p)) = Holding(k + 1, p, p)
<1>1. Len(parts) \in Nat
  BY EndedFacts
<1>2. k \in 0..Len(parts)
  BY <1>1
<1>3. /\ Holding(k, m, p).carry = RowList(First(k), m)
      /\ Holding(k, m, p).group = RowList(m, p)
      /\ Holding(k, m, p).parts = FirstParts(k)
      /\ First(k) \in Nat /\ m \in Nat /\ p \in Nat /\ First(k) <= m /\ m <= p
  BY <1>2, HoldingIs
<1>4. RowList(First(k), m) \o RowList(m, p) = RowList(First(k), First(k + 1))
  BY <1>3, RowLists
<1>5. Append(FirstParts(k), RowList(First(k), First(k + 1))) = FirstParts(k + 1)
  BY FirstPartsAre
<1>6. RowList(p, p) = <<>> /\ Bytes(p, p) = 0
  BY <1>3, RowListEnds, EndedFacts, BytesFacts
<1>7. QED
  BY <1>3, <1>4, <1>5, <1>6 DEF Emit, Holding

LEMMA GroupIs ==
    ASSUME Ended, NEW k \in 0..Len(parts), NEW p \in 0..position, NEW m \in First(k)..p
    PROVE  /\ m < p => EmitGroup(Holding(k, m, p)) = Emit(Holding(k, m, p))
           /\ m = p => EmitGroup(Holding(k, m, p)) = Holding(k, p, p)
<1>1. Holding(k, m, p).group = RowList(m, p) /\ m \in Nat /\ p \in Nat /\ m <= p
  BY HoldingIs
<1>2. m < p => RowList(m, p) # <<>>
  BY <1>1, RowListEnds
<1>3. RowList(p, p) = <<>>
  BY <1>1, RowListEnds
<1>4. QED
  BY <1>1, <1>2, <1>3 DEF EmitGroup

\* Where a part starts, nothing of it is gathered.
LEMMA NewPart ==
    ASSUME Ended, NEW k \in 0..Len(parts), NEW d \in Nat
    PROVE  Halfway(k, First(k), First(k), d)
<1>1. position \in Nat /\ First(k) \in 0..position
  BY EndedFacts, Firsts
<1>2. First(k) \in First(k)..First(k) /\ ~(First(k) < First(k))
  BY <1>1
<1>3. AllOver(First(k), First(k))
  BY <1>1 DEF AllOver
<1>4. QED
  BY <1>2, <1>3 DEF Halfway

\* The run leaves, if there is one.
LEMMA RunLeaves ==
    ASSUME Ended, NEW p \in 0..position, NEW k, NEW m, NEW d \in Nat, Halfway(k, m, p, d),
           m < p => First(k + 1) = p
    PROVE  \E j \in 0..Len(parts) :
              /\ Halfway(j, p, p, d)
              /\ EmitGroup(Holding(k, m, p)) = Holding(j, p, p)
              /\ m < p \/ First(k) = p => First(j) = p
<1>1. k \in 0..Len(parts) /\ m \in First(k)..p
  BY DEF Halfway
<1>2. Len(parts) \in Nat /\ position \in Nat /\ m \in Nat /\ p \in Nat /\ m <= p
  BY <1>1, EndedFacts, HoldingIs
<1>3. CASE m < p
  <2>1. k \in 0..(Len(parts) - 1) /\ First(k + 1) = p
    BY <1>3, HalfwayRun
  <2>2. EmitGroup(Holding(k, m, p)) = Holding(k + 1, p, p)
    BY <1>1, <1>3, <2>1, GroupIs, HoldingLeaves
  <2>3. k + 1 \in 0..Len(parts)
    BY <1>2, <2>1
  <2>4. Halfway(k + 1, p, p, d)
    BY <2>1, <2>3, NewPart
  <2>5. QED
    BY <2>1, <2>2, <2>3, <2>4
<1>4. CASE m = p
  BY <1>1, <1>4, GroupIs, <1>2
<1>5. QED
  BY <1>2, <1>3, <1>4

-----------------------------------------------------------------------------
(* The rule, from a row to the end of its directory, makes the parts.      *)

\* What a call from there makes of them.
EndsWell(p, end, k, m) ==
    \E j \in 0..Len(parts) :
        /\ First(j) = end
        /\ SplitRule[Call(p, end, Holding(k, m, p))] = Holding(j, end, end)

RuleAt(p) ==
    \A end \in 0..position : \A k \in 0..Len(parts) : \A m \in 0..position : \A d \in Nat :
        /\ Children(p, end, d)
        /\ Halfway(k, m, p, d)
        /\ p = end /\ m = p => First(k) = p
        => EndsWell(p, end, k, m)

\* The children of a row, and those after it.
LEMMA ChildrenOf ==
    ASSUME Ended, NEW p \in 0..(position - 1), NEW end \in 0..position, NEW d \in Nat,
           p < end, Children(p, end, d)
    PROVE  /\ rows[p + 1].depth = d
           /\ EndOf(p) \in (p + 1)..position /\ EndOf(p) <= end
           /\ Children(EndOf(p), end, d)
           /\ p + 1 < EndOf(p) => Children(p + 1, EndOf(p), d + 1)
<1> DEFINE e == EndOf(p)
<1>1. /\ position \in Nat /\ TypeOK /\ Len(rows) = position /\ DepthsInv
      /\ \A r \in 0..(position - 1) : rows[r + 1].depth \in Nat
  BY EndedFacts
<1>2. e \in (p + 1)..position /\ EndsAt(p, e)
  BY <1>1, EndOfFacts
<1>3. /\ \A r \in (p + 1)..(e - 1) : rows[r + 1].depth > rows[p + 1].depth
      /\ e < position => rows[e + 1].depth <= rows[p + 1].depth
  BY <1>2 DEF EndsAt
<1> HIDE DEF e
<1>4. rows[p + 1].depth = d
  BY DEF Children
<1>5. e <= end
  <2>1. SUFFICES ASSUME end < e PROVE FALSE
    BY <1>1, <1>2
  <2>2. end \in (p + 1)..(e - 1) /\ end < position /\ end \in 0..(position - 1)
    BY <1>1, <1>2, <2>1
  <2>3. rows[end + 1].depth > d /\ rows[end + 1].depth < d /\ rows[end + 1].depth \in Nat
    BY <1>1, <1>3, <1>4, <2>2 DEF Children
  <2>4. QED
    BY <2>3
<1>6. Children(e, end, d)
  <2>1. ASSUME NEW r \in e..(end - 1)
        PROVE  rows[r + 1].depth >= d
    BY <1>1, <1>2 DEF Children
  <2>2. ASSUME e < end
        PROVE  rows[e + 1].depth = d
    BY <1>1, <1>2, <2>2, <1>3, <1>4, <2>1
  <2>3. end < position => rows[end + 1].depth < d
    BY DEF Children
  <2>4. QED
    BY <1>5, <2>1, <2>2, <2>3 DEF Children
<1>7. ASSUME p + 1 < e
      PROVE  Children(p + 1, e, d + 1)
  <2>1. ASSUME NEW r \in (p + 1)..(e - 1)
        PROVE  rows[r + 1].depth >= d + 1
    BY <1>1, <1>2, <1>3, <1>4
  <2>2. rows[(p + 1) + 1].depth = d + 1
    <3>1. p + 1 \in 0..(position - 1) /\ p + 1 \in (p + 1)..(e - 1) /\ p + 1 # 0
      BY <1>1, <1>2, <1>7
    <3>2. rows[(p + 1) + 1].depth <= rows[p + 1].depth + 1
      BY <1>1, <3>1 DEF DepthsInv
    <3>3. rows[(p + 1) + 1].depth >= d + 1 /\ rows[(p + 1) + 1].depth \in Nat
      BY <1>1, <2>1, <3>1
    <3>4. QED
      BY <1>4, <3>2, <3>3
  <2>3. e < position => rows[e + 1].depth < d + 1
    <3>1. SUFFICES ASSUME e < position PROVE rows[e + 1].depth < d + 1
      OBVIOUS
    <3>2. e \in 0..(position - 1)
      BY <1>1, <1>2, <3>1
    <3>3. rows[e + 1].depth <= d /\ rows[e + 1].depth \in Nat
      BY <1>1, <1>3, <1>4, <3>1, <3>2
    <3>4. QED
      BY <3>3
  <2>4. p + 1 <= e
    BY <1>2
  <2>5. QED
    BY <2>1, <2>2, <2>3, <2>4 DEF Children
<1>8. QED
  BY <1>2, <1>4, <1>5, <1>6, <1>7 DEF e

\* A call at the end.
LEMMA EmptyCall ==
    ASSUME Ended, NEW p \in 0..position, NEW s \in RuleState
    PROVE  SplitRule[Call(p, p, s)] = EmitGroup(s)
<1> DEFINE c == Call(p, p, s)
<1>1. position \in Nat /\ TypeOK /\ Len(rows) = position
  BY EndedFacts
<1>2. c \in Calls /\ c.at = p /\ c.end = p /\ c.state = s
  BY CallIs
<1> HIDE DEF c
<1>3. SplitRule[c] = Body(SplitRule, c)
  BY <1>1, <1>2, SplitIs
<1>4. p >= p
  BY <1>1
<1>5. SplitRule[c] = EmitGroup(s)
  BY <1>2, <1>3, <1>4 DEF Body
<1>6. QED
  BY <1>5 DEF c

\* The end of a directory.
LEMMA RuleEnds ==
    ASSUME Ended, NEW p \in 0..position, NEW k, NEW m, NEW d \in Nat, Halfway(k, m, p, d),
           Children(p, p, d), m = p => First(k) = p
    PROVE  EndsWell(p, p, k, m)
<1>1. k \in 0..Len(parts) /\ m \in First(k)..p
  BY DEF Halfway
<1>2. /\ Len(parts) \in Nat /\ position \in Nat /\ m \in Nat /\ p \in Nat /\ m <= p
      /\ TypeOK /\ Len(rows) = position
  BY <1>1, EndedFacts, HoldingIs
<1>3. m < p => First(k + 1) = p
  BY RunEndsWithDirectory
<1>4. m < p \/ First(k) = p
  BY <1>2
<1>5. PICK j \in 0..Len(parts) : First(j) = p /\ EmitGroup(Holding(k, m, p)) = Holding(j, p, p)
  BY <1>3, <1>4, RunLeaves
<1>6. Holding(k, m, p) \in RuleState
  BY <1>1, HoldingIs
<1>7. SplitRule[Call(p, p, Holding(k, m, p))] = EmitGroup(Holding(k, m, p))
  BY <1>6, EmptyCall
<1>8. QED
  BY <1>5, <1>7 DEF EndsWell

\* A call before the end.
LEMMA RuleBody ==
    ASSUME Ended, NEW p \in 0..(position - 1), NEW end \in 0..position, p < end, NEW s \in RuleState
    PROVE  SplitRule[Call(p, end, s)]
              = SplitRule[Call(EndOf(p), end,
                    IF OverBudget(p) THEN Leave(SplitRule[Call(p + 1, EndOf(p), Carry(s, p))], p)
                    ELSE Gather(s, p))]
<1> DEFINE c == Call(p, end, s)
<1>1. position \in Nat /\ p \in 0..position /\ TypeOK /\ Len(rows) = position
  BY EndedFacts
<1>2. c \in Calls /\ c.at = p /\ c.end = end /\ c.state = s
  BY <1>1, CallIs
<1> HIDE DEF c
<1>3. SplitRule[c] = Body(SplitRule, c)
  BY <1>1, <1>2, SplitIs
<1>4. ~(p >= end)
  BY <1>1
<1>5. SplitRule[c] = SplitRule[Later(SplitRule, c)]
  BY <1>2, <1>3, <1>4 DEF Body
<1>6. QED
  BY <1>2, <1>5 DEF Later, Nested, c

\* A row that is not cut, with all below it, into a run.
LEMMA RuleGathers ==
    ASSUME Ended, NEW p \in 0..(position - 1), NEW end \in 0..position, p < end,
           NEW k, NEW m, NEW d \in Nat, Halfway(k, m, p, d), Children(p, end, d),
           ~OverBudget(p), RuleAt(EndOf(p))
    PROVE  EndsWell(p, end, k, m)
<1> DEFINE e == EndOf(p)
           s == Holding(k, m, p)
<1>1. /\ position \in Nat /\ Len(parts) \in Nat /\ TypeOK /\ Len(rows) = position
      /\ p \in 0..position
  BY EndedFacts
<1>2. /\ rows[p + 1].depth = d /\ e \in (p + 1)..position /\ e <= end /\ Children(e, end, d)
  BY ChildrenOf
<1> HIDE DEF e
<1>3. k \in 0..Len(parts) /\ m \in First(k)..p /\ m \in Nat /\ m <= p
  BY <1>1, HalfwayFacts DEF Halfway
<1>4. s.bytes + Size(p) = Bytes(m, e)
  <2>1. s.bytes = Bytes(m, p)
    BY <1>1, <1>3, HoldingIs
  <2>2. Size(p) = Bytes(p, e)
    BY DEF Size, e
  <2>3. m \in 0..position /\ e \in 0..position
    BY <1>1, <1>2, <1>3
  <2>4. QED
    BY <1>1, <2>1, <2>2, <2>3, BytesFacts
<1>5. s \in RuleState
  BY <1>1, <1>3, HoldingIs
<1> HIDE DEF s
<1> DEFINE left == IF s.bytes + Size(p) > Budget THEN EmitGroup(s) ELSE s
<1>6. \E j \in 0..(Len(parts) - 1) : \E n \in First(j)..p :
          Halfway(j, n, p, d) /\ p < First(j + 1) /\ left = Holding(j, n, p)
  <2>1. CASE Bytes(m, e) > Budget
    <3>1. m < p => First(k + 1) = p
      BY <1>2, <2>1, RunEndsBeforeUnfit DEF e
    <3>2. PICK j \in 0..Len(parts) : Halfway(j, p, p, d) /\ EmitGroup(s) = Holding(j, p, p)
      BY <1>1, <3>1, RunLeaves DEF s
    <3>3. j \in 0..(Len(parts) - 1) /\ p < First(j + 1)
      BY <1>2, <3>2, OwnRowsGoOn
    <3>4. p \in First(j)..p
      BY <3>2 DEF Halfway
    <3>5. left = Holding(j, p, p)
      BY <1>4, <2>1, <3>2
    <3> HIDE DEF left
    <3>6. QED
      BY <3>2, <3>3, <3>4, <3>5
  <2>2. CASE ~(Bytes(m, e) > Budget)
    <3>1. left = Holding(k, m, p)
      BY <1>4, <2>2 DEF s
    <3> HIDE DEF left
    <3>2. k \in 0..(Len(parts) - 1) /\ p < First(k + 1)
      <4>1. CASE m < p
        BY <1>1, <4>1, HalfwayRun, <1>2, <2>2, RunGoesOn DEF e
      <4>2. CASE m = p
        BY <1>2, <4>2, OwnRowsGoOn
      <4>3. QED
        BY <1>1, <1>3, <4>1, <4>2
    <3>3. QED
      BY <1>3, <3>1, <3>2
  <2> HIDE DEF left
  <2>3. QED
    BY <2>1, <2>2
<1>7. PICK j \in 0..(Len(parts) - 1) : \E n \in First(j)..p :
          Halfway(j, n, p, d) /\ p < First(j + 1) /\ left = Holding(j, n, p)
  BY <1>6
<1>8. PICK n \in First(j)..p :
          Halfway(j, n, p, d) /\ p < First(j + 1) /\ left = Holding(j, n, p)
  BY <1>7
<1>9. j \in 0..Len(parts) /\ First(j) \in Nat /\ n \in Nat /\ First(j) <= n /\ n <= p /\ n \in 0..position
  <2>1. j \in 0..Len(parts)
    BY <1>1
  <2>2. First(j) \in Nat /\ n \in Nat /\ First(j) <= n /\ n <= p
    BY <1>1, <2>1, HoldingIs
  <2>3. n \in 0..position
    BY <1>1, <2>2
  <2>4. QED
    BY <2>1, <2>2, <2>3
<1>10. AllOver(First(j), n) /\ ~OverBudget(n) /\ rows[n + 1].depth = d
  <2>1. AllOver(First(j), n) /\ (n < p => ~OverBudget(n) /\ rows[n + 1].depth = d)
    BY <1>8 DEF Halfway
  <2>2. n < p \/ n = p
    BY <1>1, <1>9
  <2>3. QED
    BY <1>2, <2>1, <2>2
<1>11. e <= First(j + 1)
  <2>1. First(j + 1) \in 0..position
    BY <1>1, Firsts
  <2>2. n \in First(j)..(First(j + 1) - 1) /\ p \in n..(First(j + 1) - 1)
    BY <1>1, <1>8, <1>9, <2>1
  <2>3. rows[p + 1].depth = rows[n + 1].depth
    BY <1>2, <1>10
  <2>4. QED
    BY <1>10, <2>2, <2>3, ChildInRun DEF e
<1>12. Halfway(j, n, e, d)
  <2>1. n \in First(j)..e /\ n < e
    BY <1>1, <1>2, <1>9
  <2>2. ~(n = e)
    BY <1>1, <1>2, <1>9
  <2>3. QED
    BY <1>9, <1>10, <1>11, <2>1, <2>2 DEF Halfway
<1>13. Gather(s, p) = Holding(j, n, e)
  <2>1. Gather(s, p) = [left EXCEPT !.group = left.group \o RowList(p, e), !.bytes = left.bytes + Size(p)]
    BY DEF Gather, e
  <2> HIDE DEF left
  <2>2. /\ Holding(j, n, p).group = RowList(n, p)
        /\ Holding(j, n, p).bytes = Bytes(n, p)
    BY <1>1, <1>8, <1>9, HoldingIs
  <2>3. RowList(n, p) \o RowList(p, e) = RowList(n, e)
    <3>1. p \in Nat /\ e \in Nat /\ n <= p /\ p <= e
      BY <1>1, <1>2, <1>9
    <3>2. QED
      BY <1>9, <3>1, RowLists
  <2>4. Bytes(n, p) + Size(p) = Bytes(n, e)
    BY SMTT(60), <1>1, <1>2, <1>9, BytesFacts DEF Size, e
  <2>5. Gather(s, p) = [Holding(j, n, p) EXCEPT !.group = RowList(n, e), !.bytes = Bytes(n, e)]
    BY <1>8, <2>1, <2>2, <2>3, <2>4
  <2>6. QED
    BY <2>5 DEF Holding
<1>14. EndsWell(e, end, j, n)
  <2>1. e \in 0..position /\ ~(n = e)
    BY <1>1, <1>2, <1>9
  <2>2. RuleAt(e)
    BY DEF e
  <2>3. QED
    BY <1>2, <1>9, <1>12, <2>1, <2>2 DEF RuleAt
<1>15. SplitRule[Call(p, end, s)] = SplitRule[Call(e, end, Holding(j, n, e))]
  BY <1>5, <1>13, RuleBody DEF e
<1>16. QED
  BY <1>14, <1>15 DEF EndsWell, s

\* The own row of a directory that is cut, carried to the first of its contents, or
\* alone.
LEMMA RuleCuts ==
    ASSUME Ended, NEW p \in 0..(position - 1), NEW end \in 0..position, p < end,
           NEW k, NEW m, NEW d \in Nat, Halfway(k, m, p, d), Children(p, end, d),
           OverBudget(p), RuleAt(p + 1), RuleAt(EndOf(p))
    PROVE  EndsWell(p, end, k, m)
<1> DEFINE e == EndOf(p)
           s == Holding(k, m, p)
<1>1. /\ position \in Nat /\ Len(parts) \in Nat /\ TypeOK /\ Len(rows) = position
      /\ p \in 0..position /\ p + 1 \in 0..position /\ p + 1 \in Nat /\ p \in Nat
  BY EndedFacts
<1>2. /\ rows[p + 1].depth = d /\ e \in (p + 1)..position /\ e <= end /\ Children(e, end, d)
      /\ p + 1 < e => Children(p + 1, e, d + 1)
  BY ChildrenOf
<1>3. k \in 0..Len(parts) /\ m \in First(k)..p
  BY DEF Halfway
<1>4. s \in RuleState
  BY <1>1, <1>3, HoldingIs
<1>5. PICK j \in 0..Len(parts) : Halfway(j, p, p, d) /\ EmitGroup(s) = Holding(j, p, p)
  BY RunEndsBeforeCut, <1>1, RunLeaves
<1> HIDE DEF e, s
<1>6. j \in 0..(Len(parts) - 1) /\ p < First(j + 1)
  BY <1>2, <1>5, OwnRowsGoOn
<1>7. /\ First(j) \in Nat /\ First(j) <= p /\ First(j) <= p + 1
      /\ First(j + 1) \in 0..position
      /\ p \in First(j)..p /\ p + 1 \in First(j)..(p + 1)
  <2>1. First(j) \in Nat /\ First(j) <= p
    BY <1>1, <1>5, HalfwayFacts
  <2>2. First(j + 1) \in 0..position
    BY <1>1, <1>6, Firsts
  <2>3. QED
    BY <1>1, <2>1, <2>2
<1>8. AllOver(First(j), p + 1)
  <2>1. AllOver(First(j), p)
    BY <1>5 DEF Halfway
  <2>2. ASSUME NEW r \in First(j)..((p + 1) - 1)
        PROVE  OverBudget(r)
    BY <1>1, <1>7, <2>1 DEF AllOver
  <2>3. QED
    BY <2>2 DEF AllOver
<1> DEFINE u == Holding(j, p + 1, p + 1)
<1>9. Carry(s, p) = u
  <2>1. Holding(j, p, p).carry = RowList(First(j), p)
    BY <1>1, <1>7, HoldingIs
  <2>2. Append(RowList(First(j), p), p) = RowList(First(j), p + 1)
    BY <1>1, <1>7, RowListEnds
  <2>3. Carry(s, p) = [Holding(j, p, p) EXCEPT !.carry = RowList(First(j), p + 1)]
    BY <1>5, <2>1, <2>2 DEF Carry
  <2>4. RowList(p, p) = RowList(p + 1, p + 1)
    BY <1>1, RowListEnds
  <2>5. Bytes(p, p) = Bytes(p + 1, p + 1)
    BY <1>1, BytesFacts
  <2>6. QED
    BY <2>3, <2>4, <2>5 DEF Holding
<1>10. u \in RuleState /\ u.carry = RowList(First(j), p + 1)
  BY <1>1, <1>7, HoldingIs
<1>11. \E i \in 0..Len(parts) : First(i) = e /\ Leave(SplitRule[Call(p + 1, e, u)], p) = Holding(i, e, e)
  <2>1. CASE e = p + 1
    <3>1. First(j + 1) = p + 1
      BY <1>6, <1>7, <1>8, <2>1, EmptyCutLeaves DEF e
    <3>2. SplitRule[Call(p + 1, e, u)] = EmitGroup(u)
      BY <1>1, <1>10, <2>1, EmptyCall
    <3>3. EmitGroup(u) = u
      BY <1>1, <1>7, GroupIs
    <3>4. u.carry # <<>> /\ u.carry[Len(u.carry)] = p
      <4>1. /\ RowList(First(j), p + 1) # <<>>
            /\ RowList(First(j), p + 1)[Len(RowList(First(j), p + 1))] = p
        BY <1>1, <1>7, RowListEnds
      <4>2. u.carry = RowList(First(j), p + 1)
        BY <1>10
      <4> HIDE DEF u
      <4>3. QED
        BY <4>1, <4>2
    <3>5. Leave(u, p) = Emit(u)
      BY <3>4 DEF Leave
    <3>6. Emit(u) = Holding(j + 1, p + 1, p + 1)
      BY <1>1, <1>6, <1>7, <3>1, HoldingLeaves
    <3>7. j + 1 \in 0..Len(parts)
      BY <1>1, <1>6
    <3> HIDE DEF u
    <3>8. QED
      BY <2>1, <3>1, <3>2, <3>3, <3>5, <3>6, <3>7
  <2>2. CASE p + 1 < e
    <3>1. Halfway(j, p + 1, p + 1, d + 1)
      <4>1. p + 1 <= First(j + 1)
        BY <1>1, <1>6, <1>7
      <4>2. rows[p + 1].depth < d + 1
        BY <1>2
      <4>3. ~(p + 1 < p + 1)
        BY <1>1
      <4>4. QED
        BY <1>7, <1>8, <4>1, <4>2, <4>3 DEF Halfway
    <3>2. e \in 0..position /\ ~(p + 1 = e) /\ d + 1 \in Nat
      BY <1>1, <1>2, <2>2
    <3>3. EndsWell(p + 1, e, j, p + 1)
      BY <1>1, <1>2, <2>2, <3>1, <3>2 DEF RuleAt
    <3>4. PICK i \in 0..Len(parts) : First(i) = e /\ SplitRule[Call(p + 1, e, u)] = Holding(i, e, e)
      BY <3>3 DEF EndsWell
    <3> HIDE DEF u
    <3>5. Holding(i, e, e).carry = <<>>
      <4>1. e \in Nat /\ e \in First(i)..e
        BY <1>1, <3>2, <3>4
      <4>2. Holding(i, e, e).carry = RowList(e, e)
        BY <3>2, <3>4, <4>1, HoldingIs
      <4>3. QED
        BY <4>1, <4>2, RowListEnds
    <3>6. Leave(Holding(i, e, e), p) = Holding(i, e, e)
      BY <3>5 DEF Leave
    <3>7. QED
      BY <3>4, <3>6
  <2>3. QED
    BY <1>1, <1>2, <2>1, <2>2
<1> HIDE DEF u
<1>12. PICK i \in 0..Len(parts) : First(i) = e /\ Leave(SplitRule[Call(p + 1, e, u)], p) = Holding(i, e, e)
  BY <1>11
<1>13. EndsWell(e, end, i, e)
  <2>1. Halfway(i, e, e, d)
    BY <1>12, NewPart
  <2>2. e \in 0..position
    BY <1>1, <1>2
  <2>3. RuleAt(e)
    BY DEF e
  <2>4. QED
    BY <1>2, <1>12, <2>1, <2>2, <2>3 DEF RuleAt
<1>14. SplitRule[Call(p, end, s)] = SplitRule[Call(e, end, Holding(i, e, e))]
  BY <1>4, <1>9, <1>12, RuleBody DEF e
<1>15. QED
  BY <1>13, <1>14 DEF EndsWell, s

\* At every row the rule does, from the last row to the first.
LEMMA RuleEverywhere ==
    ASSUME Ended
    PROVE  \A p \in 0..position : RuleAt(p)
<1> DEFINE S == {n \in 0..position : \A q \in (position - n)..position : RuleAt(q)}
<1>1. position \in Nat /\ Len(parts) \in Nat /\ TypeOK /\ Len(rows) = position
  BY EndedFacts
<1>2. ASSUME NEW p \in 0..position, \A q \in (p + 1)..position : RuleAt(q)
      PROVE  RuleAt(p)
  <2>1. SUFFICES ASSUME NEW end \in 0..position, NEW k \in 0..Len(parts), NEW m \in 0..position,
                        NEW d \in Nat, Children(p, end, d), Halfway(k, m, p, d),
                        p = end /\ m = p => First(k) = p
                 PROVE  EndsWell(p, end, k, m)
    BY DEF RuleAt
  <2>2. p <= end
    BY <2>1 DEF Children
  <2>3. CASE p = end
    BY <2>1, <2>3, RuleEnds
  <2>4. CASE p < end
    <3>1. p \in 0..(position - 1)
      BY <1>1, <2>4
    <3>2. EndOf(p) \in (p + 1)..position
      BY <1>1, <3>1, EndOfFacts
    <3>3. RuleAt(EndOf(p)) /\ RuleAt(p + 1)
      BY <1>1, <3>1, <1>2, <3>2
    <3>4. QED
      BY <2>1, <2>4, <3>1, <3>3, RuleGathers, RuleCuts
  <2>5. QED
    BY <1>1, <2>2, <2>3, <2>4
<1>3. 0 \in S
  <2>1. RuleAt(position)
    BY <1>1, <1>2
  <2>2. \A q \in (position - 0)..position : q = position
    BY <1>1
  <2>3. QED
    BY <1>1, <2>1, <2>2
<1>4. ASSUME NEW n \in 0..(position - 1), n \in S
      PROVE  n + 1 \in S
  <2>1. PICK p \in 0..position : p = position - (n + 1)
    BY <1>1
  <2>2. \A q \in (p + 1)..position : q \in (position - n)..position
    BY <1>1, <2>1
  <2>3. RuleAt(p)
    BY <1>2, <1>4, <2>2
  <2>4. ASSUME NEW q \in (position - (n + 1))..position
        PROVE  RuleAt(q)
    BY <1>1, <2>1, <1>4, <2>3
  <2>5. n + 1 \in 0..position
    BY <1>1
  <2>6. QED
    BY <2>4, <2>5
<1>5. position \in S
  <2> HIDE DEF S
  <2>1. \A n \in 0..position : n \in S
    BY <1>1, <1>3, <1>4, InductionUpTo
  <2>2. QED
    BY <1>1, <2>1
<1>6. position - position = 0
  BY <1>1
<1>7. QED
  BY <1>5, <1>6

\* And from the first row to the last it makes all of them.
LEMMA RuleMakesParts ==
    ASSUME Ended
    PROVE  RuleParts = FirstParts(Len(parts))
<1>1. /\ position \in Nat /\ Len(parts) \in Nat /\ TypeOK /\ Len(rows) = position /\ DepthsInv
      /\ \A r \in 0..(position - 1) : rows[r + 1].depth \in Nat
  BY EndedFacts
<1>2. First(0) = 0 /\ 0 \in 0..Len(parts) /\ 0 \in 0..position /\ 0 \in Nat
  BY <1>1, Firsts
<1>3. Children(0, position, 0)
  <2>1. \A r \in 0..(position - 1) : rows[r + 1].depth >= 0
    BY <1>1
  <2>2. 0 < position => rows[0 + 1].depth = 0
    <3>1. SUFFICES ASSUME 0 < position PROVE rows[0 + 1].depth = 0
      OBVIOUS
    <3>2. 0 \in 0..(position - 1)
      BY <1>1, <3>1
    <3>3. rows[0 + 1].depth <= 0 /\ rows[0 + 1].depth \in Nat
      BY <1>1, <3>2 DEF DepthsInv
    <3>4. QED
      BY <3>3
  <2>3. ~(position < position) /\ 0 <= position
    BY <1>1
  <2>4. QED
    BY <2>1, <2>2, <2>3 DEF Children
<1>4. Halfway(0, 0, 0, 0)
  BY <1>2, NewPart
<1>5. position \in 0..position
  BY <1>1
<1>6. EndsWell(0, position, 0, 0)
  BY <1>2, <1>3, <1>4, <1>5, RuleEverywhere DEF RuleAt
<1>7. Holding(0, 0, 0) = NothingYet
  <2>1. RowList(0, 0) = <<>> /\ Bytes(0, 0) = 0
    BY <1>1, <1>2, RowListEnds, BytesFacts
  <2>2. FirstParts(0) = <<>>
    BY DEF FirstParts
  <2>3. QED
    BY <1>2, <2>1, <2>2 DEF Holding, NothingYet
<1>8. PICK j \in 0..Len(parts) :
          First(j) = position /\ SplitRule[Call(0, position, NothingYet)] = Holding(j, position, position)
  BY <1>6, <1>7 DEF EndsWell
<1>9. j = Len(parts)
  <2>1. SUFFICES ASSUME j # Len(parts) PROVE FALSE
    OBVIOUS
  <2>2. j \in 0..(Len(parts) - 1)
    BY <1>1, <2>1
  <2>3. First(j) \in 0..(position - 1)
    BY <2>2, PartBounds
  <2>4. QED
    BY <1>1, <1>8, <2>3
<1>10. position \in First(j)..position
  BY <1>1, <1>8
<1>11. Holding(j, position, position).parts = FirstParts(j)
  BY <1>5, <1>10, HoldingIs
<1>12. QED
  BY <1>8, <1>9, <1>11 DEF RuleParts

\* A walk that ends well has cut exactly the parts of the tests' recursive rule over the
\* finished tree, though check_budget and add_to_run decide each cut with the rows so far.
THEOREM CutsAreTheRules == Spec => []CutsMatchRule
<1>1. ASSUME IInv, PartsInv, GreedyInv
      PROVE  CutsMatchRule
  <2>1. SUFFICES ASSUME pc = "done"
                 PROVE  [k \in DOMAIN parts |-> RowList(parts[k].first, parts[k].end)] = RuleParts
    BY DEF CutsMatchRule
  <2>2. Ended
    BY <1>1, <2>1 DEF Ended
  <2>3. DOMAIN parts = 1..Len(parts)
    BY <2>2, EndedFacts
  <2>4. FirstParts(Len(parts)) = [k \in 1..Len(parts) |-> RowList(parts[k].first, parts[k].end)]
    BY DEF FirstParts
  <2>5. QED
    BY <2>2, <2>3, <2>4, RuleMakesParts
<1>2. IInv /\ PartsInv /\ GreedyInv => CutsMatchRule
  BY <1>1
<1>3. QED
  BY RunsAreGreedy, <1>2, PTL
=============================================================================
