----------------------------- MODULE FillProofs -----------------------------
(***************************************************************************)
(* Proofs about Fill: the invariant of FillInv is inductive, every text    *)
(* reads back, metadata is that of a row's own path, and the rows that     *)
(* were not read are counted, for all texts and every bound.               *)
(***************************************************************************)
EXTENDS FillInv, SequenceTheorems, FiniteSetTheorems, TLAPS

-----------------------------------------------------------------------------
(* The tape.                                                               *)

\* A text that is appended is the last, and the others stay as they are.
LEMMA PushedText ==
    ASSUME NEW t, TapeOK(t), NEW text \in Texts, Fits(t, text)
    PROVE  /\ TapeOK(Push(t, text))
           /\ TapeLen(t) \in Nat
           /\ TapeLen(Push(t, text)) = TapeLen(t) + 1
           /\ \A i \in 0 .. TapeLen(t) - 1 : Get(Push(t, text), i) = Get(t, i)
           /\ Get(Push(t, text), TapeLen(t)) = text
<1> DEFINE arena == t.arena  offsets == t.offsets  p == Push(t, text)
<1>1. arena \in Seq(Bytes) /\ offsets \in Seq(Nat) /\ text \in Seq(Bytes)
  BY PartAssumption DEF TapeOK
<1>2. Len(arena) \in Nat /\ Len(offsets) \in Nat /\ Len(text) \in Nat
  BY <1>1
<1>3. /\ p.arena = arena \o text
      /\ p.offsets = Append(offsets, Len(arena) + Len(text))
  BY DEF Push
<1>4. /\ p.arena \in Seq(Bytes) /\ p.offsets \in Seq(Nat)
      /\ Len(p.arena) = Len(arena) + Len(text)
      /\ Len(p.offsets) = Len(offsets) + 1
      /\ p.offsets[Len(offsets) + 1] = Len(arena) + Len(text)
      /\ \A i \in 1 .. Len(offsets) : p.offsets[i] = offsets[i]
  BY <1>1, <1>2, <1>3, ConcatProperties
<1>5. \A i \in 1 .. Len(offsets) : offsets[i] \in 0 .. Len(arena)
  BY <1>1, <1>2 DEF TapeOK
<1>6. Len(offsets) >= 1 /\ offsets[Len(offsets)] = Len(arena)
  BY DEF TapeOK
<1>7. TapeOK(p)
  <2>1. p \in [arena : Seq(Bytes), offsets : Seq(Nat)]
    BY <1>3, <1>4 DEF Push
  <2>2. Len(p.arena) <= MaxText
    BY <1>4 DEF Fits
  <2>3. ASSUME NEW i \in 1 .. Len(p.offsets)
        PROVE  p.offsets[i] <= Len(p.arena)
    <3>1. CASE i \in 1 .. Len(offsets)
      <4>1. p.offsets[i] \in 0 .. Len(arena)
        BY <1>4, <1>5, <3>1
      <4>2. QED
        BY <1>2, <1>4, <4>1
    <3>2. CASE i = Len(offsets) + 1
      BY <1>2, <1>4, <3>2
    <3>3. QED
      BY <1>2, <1>4, <3>1, <3>2
  <2>4. QED
    BY <2>1, <2>2, <2>3, <1>2, <1>4, <1>6 DEF TapeOK
<1>8. TapeLen(t) = Len(offsets) - 1 /\ TapeLen(p) = Len(offsets)
  BY <1>2, <1>4 DEF TapeLen
<1>9. ASSUME NEW i \in 0 .. TapeLen(t) - 1
      PROVE  Get(p, i) = Get(t, i)
  <2> DEFINE m == offsets[i + 1] + 1  n == offsets[i + 2]
  <2>1. i + 1 \in 1 .. Len(offsets) /\ i + 2 \in 1 .. Len(offsets)
    BY <1>2, <1>8
  <2>2. m \in Nat /\ m >= 1 /\ n \in 0 .. Len(arena)
    BY <1>2, <1>5, <2>1
  <2>3. Get(p, i) = SubSeq(arena \o text, m, n) /\ Get(t, i) = SubSeq(arena, m, n)
    BY <1>3, <1>4, <2>1 DEF Get
  <2> HIDE DEF m, n
  <2>4. CASE n < m
    BY <2>2, <2>3, <2>4, SubSeqEmpty
  <2>5. CASE m <= n
    <3>1. m \in 1 .. Len(arena) /\ n \in 1 .. Len(arena)
      BY <1>2, <2>2, <2>5
    <3>2. QED
      BY <1>1, <2>3, <3>1, SubSeqOfConcat1
  <2>6. QED
    BY <1>2, <2>2, <2>4, <2>5
<1>10. Get(p, TapeLen(t)) = text
  <2>1. Get(p, TapeLen(t)) = SubSeq(arena \o text, Len(arena) + 1, Len(arena) + Len(text))
    <3>1. TapeLen(t) + 1 = Len(offsets) /\ TapeLen(t) + 2 = Len(offsets) + 1
      BY <1>2, <1>8
    <3>2. p.offsets[TapeLen(t) + 1] = Len(arena)
      <4>1. Len(offsets) \in 1 .. Len(offsets)
        BY <1>2, <1>6
      <4>2. p.offsets[Len(offsets)] = offsets[Len(offsets)]
        BY <1>4, <4>1
      <4>3. QED
        BY <1>6, <3>1, <4>2
    <3>3. p.offsets[TapeLen(t) + 2] = Len(arena) + Len(text)
      BY <1>4, <3>1
    <3>4. QED
      BY <1>3, <3>2, <3>3 DEF Get
  <2>2. CASE Len(text) = 0
    <3>1. Len(arena) + 1 \in Int /\ Len(arena) + Len(text) \in Int
      BY <1>2
    <3>2. Len(arena) + Len(text) < Len(arena) + 1
      BY <1>2, <2>2
    <3>3. SubSeq(arena \o text, Len(arena) + 1, Len(arena) + Len(text)) = << >>
      BY <3>1, <3>2, SubSeqEmpty
    <3>4. text = << >>
      BY <1>1, <2>2, EmptySeq
    <3>5. QED
      BY <2>1, <3>3, <3>4
  <2>3. CASE Len(text) > 0
    <3>1. SubSeq(arena \o text, Len(arena) + 1, Len(arena) + Len(text))
            = SubSeq(text, Len(arena) + 1 - Len(arena), Len(arena) + Len(text) - Len(arena))
      BY <1>1, <1>2, <2>3, SubSeqOfConcat2
    <3>2. SubSeq(text, 1, Len(text)) = text
      BY <1>1, SubSeqFull
    <3>3. Len(arena) + 1 - Len(arena) = 1
          /\ Len(arena) + Len(text) - Len(arena) = Len(text)
      BY <1>2
    <3>4. QED
      BY <2>1, <3>1, <3>2, <3>3
  <2>4. QED
    BY <1>2, <2>2, <2>3
<1>11. QED
  BY <1>2, <1>6, <1>7, <1>8, <1>9, <1>10

-----------------------------------------------------------------------------
(* The tables.                                                             *)

\* A row that is appended is the last of its table, and all others stay.
LEMMA AppendedRow ==
    ASSUME NEW old \in [Kinds -> Seq(RowType)], NEW kind \in Kinds, NEW row \in RowType,
           NEW new, new = [old EXCEPT ![kind] = Append(@, row)]
    PROVE  /\ new \in [Kinds -> Seq(RowType)]
           /\ \A k \in Kinds :
                 /\ Len(old[k]) \in Nat /\ Len(new[k]) \in Nat
                 /\ Len(new[k]) = IF k = kind THEN Len(old[k]) + 1 ELSE Len(old[k])
                 /\ \A i \in 1 .. Len(old[k]) : new[k][i] = old[k][i]
           /\ new[kind][Len(old[kind]) + 1] = row
           /\ \A k \in Kinds : \A i \in 1 .. Len(new[k]) :
                 \/ i \in 1 .. Len(old[k]) /\ new[k][i] = old[k][i]
                 \/ k = kind /\ i = Len(old[k]) + 1 /\ new[k][i] = row
<1>1. \A k \in Kinds : old[k] \in Seq(RowType) /\ Len(old[k]) \in Nat
  OBVIOUS
<1>2. new[kind] = Append(old[kind], row)
  OBVIOUS
<1>3. \A k \in Kinds : k # kind => new[k] = old[k]
  OBVIOUS
<1>4. /\ Append(old[kind], row) \in Seq(RowType)
      /\ Len(Append(old[kind], row)) = Len(old[kind]) + 1
      /\ \A i \in 1 .. Len(old[kind]) : Append(old[kind], row)[i] = old[kind][i]
      /\ Append(old[kind], row)[Len(old[kind]) + 1] = row
  BY <1>1
<1>5. new \in [Kinds -> Seq(RowType)]
  BY <1>4
<1>6. ASSUME NEW k \in Kinds
      PROVE  /\ Len(old[k]) \in Nat /\ Len(new[k]) \in Nat
             /\ Len(new[k]) = IF k = kind THEN Len(old[k]) + 1 ELSE Len(old[k])
             /\ \A i \in 1 .. Len(old[k]) : new[k][i] = old[k][i]
  BY <1>1, <1>2, <1>3, <1>4
<1>7. new[kind][Len(old[kind]) + 1] = row
  BY <1>2, <1>4
<1>8. ASSUME NEW k \in Kinds, NEW i \in 1 .. Len(new[k])
      PROVE  \/ i \in 1 .. Len(old[k]) /\ new[k][i] = old[k][i]
             \/ k = kind /\ i = Len(old[k]) + 1 /\ new[k][i] = row
  <2>1. CASE i \in 1 .. Len(old[k])
    BY <1>6, <2>1
  <2>2. CASE i \notin 1 .. Len(old[k])
    <3>1. k = kind /\ i = Len(old[k]) + 1
      BY <1>6, <2>2
    <3>2. QED
      BY <1>7, <3>1
  <2>3. QED
    BY <2>1, <2>2
<1>9. QED
  BY <1>5, <1>6, <1>7, <1>8

\* new is old but for the metadata of row i of one table.
MetaSet(new, old, kind, i, meta) ==
    /\ new \in [Kinds -> Seq(RowType)]
    /\ \A k \in Kinds : /\ Len(old[k]) \in Nat /\ Len(new[k]) = Len(old[k])
                        /\ DOMAIN old[k] = 1 .. Len(old[k])
                        /\ DOMAIN new[k] = 1 .. Len(old[k])
    /\ \A k \in Kinds : \A j \in 1 .. Len(old[k]) :
          /\ new[k][j].parent = old[k][j].parent
          /\ new[k][j].texts = old[k][j].texts
          /\ new[k][j].called = old[k][j].called
          /\ new[k][j].meta = IF k = kind /\ j = i THEN meta ELSE old[k][j].meta

LEMMA ReadRow ==
    ASSUME NEW old \in [Kinds -> Seq(RowType)], NEW kind \in Kinds,
           NEW i \in 1 .. Len(old[kind]), NEW row \in RowType,
           row.parent = old[kind][i].parent, row.texts = old[kind][i].texts,
           row.called = old[kind][i].called,
           NEW new, new = [old EXCEPT ![kind] = [old[kind] EXCEPT ![i] = row]]
    PROVE  MetaSet(new, old, kind, i, row.meta)
<1>1. new[kind] = [old[kind] EXCEPT ![i] = row]
  OBVIOUS
<1>2. \A k \in Kinds : k # kind => new[k] = old[k]
  OBVIOUS
<1>3. \A k \in Kinds : old[k] \in Seq(RowType) /\ Len(old[k]) \in Nat
  OBVIOUS
<1>4. /\ [old[kind] EXCEPT ![i] = row] \in Seq(RowType)
      /\ Len([old[kind] EXCEPT ![i] = row]) = Len(old[kind])
      /\ \A j \in 1 .. Len(old[kind]) :
            [old[kind] EXCEPT ![i] = row][j] = IF j = i THEN row ELSE old[kind][j]
  BY <1>3, ExceptSeq
<1>5. new \in [Kinds -> Seq(RowType)]
  BY <1>4
<1>6. ASSUME NEW k \in Kinds
      PROVE  /\ Len(new[k]) = Len(old[k])
             /\ DOMAIN old[k] = 1 .. Len(old[k])
             /\ DOMAIN new[k] = 1 .. Len(old[k])
  <2>1. Len(new[k]) = Len(old[k])
    BY <1>1, <1>2, <1>4
  <2>2. old[k] \in Seq(RowType) /\ new[k] \in Seq(RowType)
    BY <1>3, <1>5
  <2>3. QED
    BY <2>1, <2>2
<1>7. ASSUME NEW k \in Kinds, NEW j \in 1 .. Len(old[k])
      PROVE  /\ new[k][j].parent = old[k][j].parent
             /\ new[k][j].texts = old[k][j].texts
             /\ new[k][j].called = old[k][j].called
             /\ new[k][j].meta = IF k = kind /\ j = i THEN row.meta ELSE old[k][j].meta
  <2>1. CASE k = kind /\ j = i
    <3>1. new[k][j] = row
      BY <1>1, <1>4, <2>1
    <3>2. QED
      BY <2>1, <3>1
  <2>2. CASE k = kind /\ j # i
    <3>1. new[k][j] = old[k][j]
      BY <1>1, <1>4, <2>2
    <3>2. QED
      BY <2>2, <3>1
  <2>3. CASE k # kind
    BY <1>2, <2>3
  <2>4. QED
    BY <2>1, <2>2, <2>3
<1>8. QED
  BY <1>3, <1>5, <1>6, <1>7 DEF MetaSet

-----------------------------------------------------------------------------
(* Building.                                                               *)

Inductive == IInv /\ TextsReadBack

\* A name on the tape that reads back still does when the tape grows.
LEMMA StillOnTape ==
    ASSUME NEW named, named.texts \in Seq(Nat), OnTape(named), ReadsBack(named),
           TapeLen(tape) \in Nat, TapeLen(tape)' \in Nat,
           TapeLen(tape) <= TapeLen(tape)',
           \A i \in 0 .. TapeLen(tape) - 1 : Get(tape', i) = Get(tape, i)
    PROVE  /\ Len(named.texts) >= 1 /\ Len(named.called) = Len(named.texts)
           /\ \A j \in DOMAIN named.texts : named.texts[j] < TapeLen(tape')
           /\ \A j \in DOMAIN named.texts : Get(tape', named.texts[j]) = named.called[j]
<1>1. \A j \in DOMAIN named.texts : named.texts[j] \in Nat /\ named.texts[j] < TapeLen(tape)
  BY DEF OnTape
<1>2. \A j \in DOMAIN named.texts : named.texts[j] \in 0 .. TapeLen(tape) - 1
  BY <1>1
<1>3. \A j \in DOMAIN named.texts : Get(tape', named.texts[j]) = Get(tape, named.texts[j])
  BY <1>2
<1>4. TapeLen(tape)' = TapeLen(tape')
  BY DEF TapeLen
<1>5. \A j \in DOMAIN named.texts : named.texts[j] < TapeLen(tape')
  BY <1>1, <1>4
<1>6. QED
  BY <1>3, <1>5 DEF OnTape, ReadsBack

\* What a name that is pushed holds, on the tape as it is then.
FreshName(named) ==
    /\ Len(named.texts) >= 1 /\ Len(named.called) = Len(named.texts)
    /\ \A j \in DOMAIN named.texts :
          /\ named.texts[j] < TapeLen(tape')
          /\ Get(tape', named.texts[j]) = named.called[j]

\* What every step of Build does: the tape, the stem and the tables grow.
LEMMA GrownPart ==
    ASSUME Inductive, pc = "build", UNCHANGED fillVars,
           TapeOK(tape'), TapeLen(tape') \in Nat, TapeLen(tape) <= TapeLen(tape'),
           \A i \in 0 .. TapeLen(tape) - 1 : Get(tape', i) = Get(tape, i),
           stem' \in Seq(ComponentType),
           \A i \in 1 .. Len(stem') :
               (i \in 1 .. Len(stem) /\ stem'[i] = stem[i]) \/ FreshName(stem'[i]),
           tables' \in [Kinds -> Seq(RowType)],
           Len(stem) + Len(tables["directories"]) <= Len(stem') + Len(tables'["directories"]),
           \A k \in Kinds : \A i \in 1 .. Len(tables'[k]) :
               \/ i \in 1 .. Len(tables[k]) /\ tables'[k][i] = tables[k][i]
               \/ /\ FreshName(tables'[k][i]) /\ tables'[k][i].meta = Unread
                  /\ tables'[k][i].parent \in 0 .. LastNode
    PROVE  Inductive'
<1> USE DEF Inductive, IInv
<1>1. TypeOK'
  BY DEF TypeOK, TapeOK, fillVars
<1>2. TapeInv'
  BY DEF TapeInv
<1>3. \A k \in Kinds : /\ tables[k] \in Seq(RowType) /\ Len(tables[k]) \in Nat
                       /\ tables'[k] \in Seq(RowType) /\ Len(tables'[k]) \in Nat
                       /\ DOMAIN tables[k] = 1 .. Len(tables[k])
                       /\ DOMAIN tables'[k] = 1 .. Len(tables'[k])
  BY DEF TypeOK
<1>4. /\ stem \in Seq(ComponentType) /\ Len(stem) \in Nat /\ Len(stem') \in Nat
      /\ DOMAIN stem = 1 .. Len(stem) /\ DOMAIN stem' = 1 .. Len(stem')
  BY DEF TypeOK
<1>5. TapeLen(tape) \in Nat /\ TapeLen(tape)' = TapeLen(tape')
  <2>1. Len(tape.offsets) \in Nat /\ Len(tape.offsets) >= 1
    BY DEF TapeInv, TapeOK
  <2>2. QED
    BY <2>1 DEF TapeLen
<1>6. \A i \in 1 .. Len(stem') : FreshName(stem'[i])
  <2>1. SUFFICES ASSUME NEW i \in 1 .. Len(stem), stem'[i] = stem[i]
                 PROVE  FreshName(stem[i])
    OBVIOUS
  <2>2. stem[i] \in ComponentType
    BY <1>4, ElementOfSeq
  <2>3. stem[i].texts \in Seq(Nat)
    BY <2>2 DEF ComponentType
  <2>4. OnTape(stem[i]) /\ ReadsBack(stem[i])
    BY <1>4 DEF NamesInv, TextsReadBack
  <2>5. QED
    BY <1>5, <2>3, <2>4, StillOnTape DEF FreshName
<1>7. \A k \in Kinds : \A i \in 1 .. Len(tables'[k]) : FreshName(tables'[k][i])
  <2>1. SUFFICES ASSUME NEW k \in Kinds, NEW i \in 1 .. Len(tables[k]),
                        tables'[k][i] = tables[k][i]
                 PROVE  FreshName(tables[k][i])
    OBVIOUS
  <2>2. tables[k][i] \in RowType
    BY <1>3, ElementOfSeq
  <2>3. tables[k][i].texts \in Seq(Nat)
    BY <2>2 DEF RowType
  <2>4. OnTape(tables[k][i]) /\ ReadsBack(tables[k][i])
    BY <1>3 DEF NamesInv, TextsReadBack
  <2>5. QED
    BY <1>5, <2>3, <2>4, StillOnTape DEF FreshName
<1>8. NamesInv'
  <2>1. ASSUME NEW i \in 1 .. Len(stem')
        PROVE  OnTape(stem[i])'
    BY <1>5, <1>6 DEF OnTape, FreshName
  <2>2. ASSUME NEW k \in Kinds, NEW i \in 1 .. Len(tables'[k])
        PROVE  OnTape(tables[k][i])'
    BY <1>5, <1>7 DEF OnTape, FreshName
  <2>3. QED
    BY <1>3, <1>4, <2>1, <2>2 DEF NamesInv
<1>9. TextsReadBack'
  <2>1. ASSUME NEW i \in 1 .. Len(stem')
        PROVE  ReadsBack(stem[i])'
    BY <1>6 DEF ReadsBack, FreshName
  <2>2. ASSUME NEW k \in Kinds, NEW i \in 1 .. Len(tables'[k])
        PROVE  ReadsBack(tables[k][i])'
    BY <1>7 DEF ReadsBack, FreshName
  <2>3. QED
    BY <1>3, <1>4, <2>1, <2>2 DEF TextsReadBack
<1>10. \A k \in Kinds : \A i \in 1 .. Len(tables'[k]) :
          tables'[k][i].meta = Unread /\ tables'[k][i].parent \in 0 .. LastNode'
  <2>1. SUFFICES ASSUME NEW k \in Kinds, NEW i \in 1 .. Len(tables'[k])
                 PROVE  tables'[k][i].meta = Unread /\ tables'[k][i].parent \in 0 .. LastNode'
    OBVIOUS
  <2>2. LastNode \in Nat /\ LastNode' \in Nat /\ LastNode <= LastNode'
    BY <1>3, <1>4 DEF LastNode, Directories, Kinds
  <2>3. CASE i \in 1 .. Len(tables[k]) /\ tables'[k][i] = tables[k][i]
    <3>1. tables[k][i].parent \in 0 .. LastNode
      BY <1>3, <2>3 DEF NodesInv
    <3>2. i \in index[k] + 1 .. Len(tables[k])
      BY <1>3, <2>3 DEF TurnsInv
    <3>3. tables[k][i].meta = Unread
      BY <3>2 DEF TurnsInv
    <3>4. QED
      BY <2>2, <2>3, <3>1, <3>3
  <2>4. CASE tables'[k][i].meta = Unread /\ tables'[k][i].parent \in 0 .. LastNode
    BY <2>2, <2>4
  <2>5. QED
    BY <2>3, <2>4
<1>11. NodesInv'
  BY <1>3, <1>10 DEF NodesInv
<1>12. ChainInv'
  BY DEF ChainInv, fillVars
<1>13. TurnsInv'
  <2>1. /\ pc' = pc /\ nodes' = nodes /\ open' = open /\ failed' = failed /\ index' = index
        /\ \A k \in Kinds : index[k] = 0
    BY DEF TurnsInv, fillVars
  <2>2. QED
    BY <1>3, <1>10, <2>1 DEF TurnsInv
<1>14. QED
  BY <1>1, <1>2, <1>8, <1>9, <1>11, <1>12, <1>13

\* A row of one text.
LEMMA NamedOne ==
    ASSUME NEW t, TapeLen(t) \in Nat, NEW text
    PROVE  Named(t, <<text>>).texts = << TapeLen(t) >> /\ Named(t, <<text>>).called = <<text>>
BY DEF Named

\* A row of two.
LEMMA NamedTwo ==
    ASSUME NEW t, TapeLen(t) \in Nat, NEW text, NEW target
    PROVE  /\ Named(t, <<text, target>>).texts = << TapeLen(t), TapeLen(t) + 1 >>
           /\ Named(t, <<text, target>>).called = <<text, target>>
<1>1. DOMAIN <<text, target>> = 1 .. 2
  OBVIOUS
<1>2. 1 .. 2 = {1, 2}
  OBVIOUS
<1>3. [i \in 1 .. 2 |-> TapeLen(t) + i - 1] = << TapeLen(t), TapeLen(t) + 1 >>
  OBVIOUS
<1>4. QED
  BY <1>1, <1>3 DEF Named

\* A name of one text that was pushed last.
LEMMA FreshOne ==
    ASSUME NEW named, NEW text, NEW n \in Nat,
           named.texts = <<n>>, named.called = <<text>>,
           n < TapeLen(tape'), Get(tape', n) = text
    PROVE  FreshName(named)
<1>1. Len(<<n>>) = 1 /\ Len(<<text>>) = 1 /\ DOMAIN <<n>> = {1}
      /\ <<n>>[1] = n /\ <<text>>[1] = text
  OBVIOUS
<1>2. QED
  BY <1>1 DEF FreshName

LEMMA NewRow ==
    ASSUME TypeOK, NEW parent \in 0 .. LastNode,
           NEW names \in Seq(Nat), NEW called \in Seq(Texts)
    PROVE  [parent |-> parent, texts |-> names, called |-> called, meta |-> Unread] \in RowType
<1>1. Len(stem) \in Nat /\ Len(tables["directories"]) \in Nat
  BY DEF TypeOK, Kinds
<1>2. parent \in Nat
  BY <1>1 DEF LastNode, Directories
<1>3. Unread \in Seq([directory : Seq(Nat), name : Nat])
  BY EmptySeq DEF Unread
<1>4. QED
  BY <1>2, <1>3 DEF RowType

LEMMA PushStemStep ==
    ASSUME Inductive, pc = "build", UNCHANGED fillVars,
           NEW text \in Texts, PushStem(text)
    PROVE  Inductive'
<1> DEFINE named == Named(tape, <<text>>)
<1>1. TapeOK(tape) /\ Fits(tape, text) /\ tape' = Push(tape, text)
  BY DEF Inductive, IInv, TapeInv, PushStem
<1>2. /\ TapeOK(tape')
      /\ TapeLen(tape) \in Nat /\ TapeLen(tape') = TapeLen(tape) + 1
      /\ \A i \in 0 .. TapeLen(tape) - 1 : Get(tape', i) = Get(tape, i)
      /\ Get(tape', TapeLen(tape)) = text
  BY <1>1, PushedText
<1>3. named.texts = << TapeLen(tape) >> /\ named.called = <<text>>
  BY <1>2, NamedOne
<1>4. named \in ComponentType
  BY <1>2, <1>3 DEF ComponentType, Named
<1>5. FreshName(named)
  BY <1>2, <1>3, FreshOne
<1> HIDE DEF named
<1>6. stem \in Seq(ComponentType) /\ Len(stem) \in Nat /\ stem' = Append(stem, named)
  BY DEF Inductive, IInv, TypeOK, PushStem, named
<1>7. /\ stem' \in Seq(ComponentType)
      /\ Len(stem') = Len(stem) + 1
      /\ stem'[Len(stem) + 1] = named
      /\ \A i \in 1 .. Len(stem) : stem'[i] = stem[i]
  BY <1>4, <1>6
<1>8. \A i \in 1 .. Len(stem') :
         (i \in 1 .. Len(stem) /\ stem'[i] = stem[i]) \/ FreshName(stem'[i])
  BY <1>5, <1>6, <1>7
<1>9. /\ tables' = tables /\ tables \in [Kinds -> Seq(RowType)]
      /\ Len(tables["directories"]) \in Nat
  BY DEF Inductive, IInv, TypeOK, PushStem, Kinds
<1>10. QED
  BY <1>2, <1>6, <1>7, <1>8, <1>9, GrownPart

\* A row whose names are on the tape goes to the end of its table.
LEMMA RowStep ==
    ASSUME Inductive, pc = "build", UNCHANGED fillVars, stem' = stem,
           TapeOK(tape'), TapeLen(tape') \in Nat, TapeLen(tape) <= TapeLen(tape'),
           \A i \in 0 .. TapeLen(tape) - 1 : Get(tape', i) = Get(tape, i),
           NEW kind \in Kinds, NEW row \in RowType,
           row.meta = Unread, row.parent \in 0 .. LastNode, FreshName(row),
           tables' = [tables EXCEPT ![kind] = Append(@, row)]
    PROVE  Inductive'
<1>1. stem \in Seq(ComponentType) /\ tables \in [Kinds -> Seq(RowType)]
  BY DEF Inductive, IInv, TypeOK
<1>2. /\ tables' \in [Kinds -> Seq(RowType)]
      /\ \A k \in Kinds :
            /\ Len(tables[k]) \in Nat /\ Len(tables'[k]) \in Nat
            /\ Len(tables'[k]) = IF k = kind THEN Len(tables[k]) + 1 ELSE Len(tables[k])
      /\ \A k \in Kinds : \A i \in 1 .. Len(tables'[k]) :
            \/ i \in 1 .. Len(tables[k]) /\ tables'[k][i] = tables[k][i]
            \/ k = kind /\ i = Len(tables[k]) + 1 /\ tables'[k][i] = row
  BY <1>1, AppendedRow
<1>3. Len(stem) \in Nat /\ Len(stem') = Len(stem)
  BY <1>1
<1>4. Len(stem) + Len(tables["directories"]) <= Len(stem') + Len(tables'["directories"])
  BY <1>2, <1>3 DEF Kinds
<1>5. QED
  BY <1>1, <1>2, <1>4, GrownPart

LEMMA PushRowStep ==
    ASSUME Inductive, pc = "build", UNCHANGED fillVars,
           NEW kind \in Kinds, NEW parent \in 0 .. LastNode, NEW text \in Texts,
           PushRow(kind, parent, text)
    PROVE  Inductive'
<1> DEFINE row == Row(parent, tape, <<text>>)
<1>1. TapeOK(tape) /\ Fits(tape, text) /\ tape' = Push(tape, text)
  BY DEF Inductive, IInv, TapeInv, PushRow
<1>2. /\ TapeOK(tape')
      /\ TapeLen(tape) \in Nat /\ TapeLen(tape') = TapeLen(tape) + 1
      /\ \A i \in 0 .. TapeLen(tape) - 1 : Get(tape', i) = Get(tape, i)
      /\ Get(tape', TapeLen(tape)) = text
  BY <1>1, PushedText
<1>3. /\ row.texts = << TapeLen(tape) >> /\ row.called = <<text>>
      /\ row.parent = parent /\ row.meta = Unread
  BY <1>2, NamedOne DEF Row
<1>4. row \in RowType
  <2>1. << TapeLen(tape) >> \in Seq(Nat) /\ <<text>> \in Seq(Texts)
    BY <1>2
  <2>2. [parent |-> parent, texts |-> << TapeLen(tape) >>, called |-> <<text>>,
         meta |-> Unread] \in RowType
    BY <2>1, NewRow DEF Inductive, IInv
  <2>3. QED
    BY <1>3, <2>2 DEF Row
<1>5. FreshName(row)
  BY <1>2, <1>3, FreshOne
<1> HIDE DEF row
<1>6. tables' = [tables EXCEPT ![kind] = Append(@, row)] /\ stem' = stem
  BY DEF PushRow, row
<1>7. TapeLen(tape') \in Nat /\ TapeLen(tape) <= TapeLen(tape')
  BY <1>2
<1>8. QED
  BY <1>2, <1>3, <1>4, <1>5, <1>6, <1>7, RowStep

\* The tape after a name and a target.
LEMMA PushedTwo ==
    ASSUME TapeOK(tape), NEW text \in Texts, NEW target \in Texts,
           Fits(tape, text), Fits(Push(tape, text), target),
           tape' = Push(Push(tape, text), target)
    PROVE  /\ TapeOK(tape')
           /\ TapeLen(tape) \in Nat /\ TapeLen(tape') = TapeLen(tape) + 2
           /\ \A i \in 0 .. TapeLen(tape) - 1 : Get(tape', i) = Get(tape, i)
           /\ Get(tape', TapeLen(tape)) = text
           /\ Get(tape', TapeLen(tape) + 1) = target
<1> DEFINE half == Push(tape, text)
<1>1. /\ TapeOK(half)
      /\ TapeLen(tape) \in Nat /\ TapeLen(half) = TapeLen(tape) + 1
      /\ \A i \in 0 .. TapeLen(tape) - 1 : Get(half, i) = Get(tape, i)
      /\ Get(half, TapeLen(tape)) = text
  BY PushedText
<1> HIDE DEF half
<1>2. tape' = Push(half, target) /\ Fits(half, target)
  BY DEF half
<1>3. /\ TapeOK(tape') /\ TapeLen(half) \in Nat /\ TapeLen(tape') = TapeLen(half) + 1
      /\ \A i \in 0 .. TapeLen(half) - 1 : Get(tape', i) = Get(half, i)
      /\ Get(tape', TapeLen(half)) = target
  BY <1>1, <1>2, PushedText
<1>4. TapeLen(tape) \in 0 .. TapeLen(half) - 1
      /\ 0 .. TapeLen(tape) - 1 \subseteq 0 .. TapeLen(half) - 1
  BY <1>1
<1>5. \A i \in 0 .. TapeLen(tape) - 1 : Get(tape', i) = Get(tape, i)
  BY <1>1, <1>3, <1>4
<1>6. Get(tape', TapeLen(tape)) = text
  BY <1>1, <1>3, <1>4
<1>7. QED
  BY <1>1, <1>3, <1>5, <1>6

LEMMA PushSymlinkStep ==
    ASSUME Inductive, pc = "build", UNCHANGED fillVars,
           NEW parent \in 0 .. LastNode, NEW text \in Texts, NEW target \in Texts,
           PushSymlink(parent, text, target)
    PROVE  Inductive'
<1> DEFINE row == Row(parent, tape, <<text, target>>)
<1>1. /\ TapeOK(tape) /\ Fits(tape, text) /\ Fits(Push(tape, text), target)
      /\ tape' = Push(Push(tape, text), target)
  BY DEF Inductive, IInv, TapeInv, PushSymlink
<1>2. /\ TapeOK(tape')
      /\ TapeLen(tape) \in Nat /\ TapeLen(tape') = TapeLen(tape) + 2
      /\ \A i \in 0 .. TapeLen(tape) - 1 : Get(tape', i) = Get(tape, i)
      /\ Get(tape', TapeLen(tape)) = text
      /\ Get(tape', TapeLen(tape) + 1) = target
  BY <1>1, PushedTwo
<1>3. /\ row.texts = << TapeLen(tape), TapeLen(tape) + 1 >>
      /\ row.called = <<text, target>>
      /\ row.parent = parent /\ row.meta = Unread
  BY <1>2, NamedTwo DEF Row
<1>4. row \in RowType
  <2>1. << TapeLen(tape), TapeLen(tape) + 1 >> \in Seq(Nat) /\ <<text, target>> \in Seq(Texts)
    BY <1>2
  <2>2. [parent |-> parent, texts |-> << TapeLen(tape), TapeLen(tape) + 1 >>, called |-> <<text, target>>,
         meta |-> Unread] \in RowType
    BY <2>1, NewRow DEF Inductive, IInv
  <2>3. QED
    BY <1>3, <2>2 DEF Row
<1>5. FreshName(row)
  <2>1. Len(row.texts) = 2 /\ Len(row.called) = 2
    BY <1>3
  <2>2. \A j \in DOMAIN row.texts : j = 1 \/ j = 2
    BY <1>3
  <2>3. row.texts[1] < TapeLen(tape') /\ Get(tape', row.texts[1]) = row.called[1]
    BY <1>2, <1>3
  <2>4. row.texts[2] < TapeLen(tape') /\ Get(tape', row.texts[2]) = row.called[2]
    BY <1>2, <1>3
  <2>5. QED
    BY <2>1, <2>2, <2>3, <2>4 DEF FreshName
<1> HIDE DEF row
<1>6. tables' = [tables EXCEPT !["symlinks"] = Append(@, row)] /\ stem' = stem
  BY DEF PushSymlink, row
<1>7. "symlinks" \in Kinds /\ TapeLen(tape') \in Nat /\ TapeLen(tape) <= TapeLen(tape')
  BY <1>2 DEF Kinds
<1>8. QED
  BY <1>2, <1>3, <1>4, <1>5, <1>6, <1>7, RowStep

\* The name that is left on the tape disturbs nothing.
LEMMA SymlinkRefusedStep ==
    ASSUME Inductive, pc = "build", UNCHANGED fillVars,
           NEW text \in Texts, NEW target \in Texts, SymlinkRefused(text, target)
    PROVE  Inductive'
<1>1. TapeOK(tape) /\ Fits(tape, text) /\ tape' = Push(tape, text)
  BY DEF Inductive, IInv, TapeInv, SymlinkRefused
<1>2. /\ TapeOK(tape')
      /\ TapeLen(tape) \in Nat /\ TapeLen(tape') = TapeLen(tape) + 1
      /\ \A i \in 0 .. TapeLen(tape) - 1 : Get(tape', i) = Get(tape, i)
  BY <1>1, PushedText
<1>3. /\ stem' = stem /\ stem \in Seq(ComponentType)
      /\ tables' = tables /\ tables \in [Kinds -> Seq(RowType)]
  BY DEF Inductive, IInv, TypeOK, SymlinkRefused
<1>4. Len(stem) \in Nat /\ Len(tables["directories"]) \in Nat
  BY <1>3 DEF Kinds
<1>5. QED
  BY <1>2, <1>3, <1>4, GrownPart

LEMMA BuildStep ==
    ASSUME Inductive, Build
    PROVE  Inductive'
<1>1. pc = "build" /\ UNCHANGED fillVars
  BY DEF Build
<1>2. ASSUME NEW text \in Texts, PushStem(text) PROVE Inductive'
  BY <1>1, <1>2, PushStemStep
<1>3. ASSUME NEW kind \in Kinds, NEW parent \in 0 .. LastNode, NEW text \in Texts,
             PushRow(kind, parent, text)
      PROVE  Inductive'
  BY <1>1, <1>3, PushRowStep
<1>4. ASSUME NEW parent \in 0 .. LastNode, NEW text \in Texts, NEW target \in Texts,
             PushSymlink(parent, text, target)
      PROVE  Inductive'
  BY <1>1, <1>4, PushSymlinkStep
<1>5. ASSUME NEW text \in Texts, NEW target \in Texts, SymlinkRefused(text, target)
      PROVE  Inductive'
  BY <1>1, <1>5, SymlinkRefusedStep
<1>6. {"directories", "files"} \subseteq Kinds
  BY DEF Kinds
<1>7. QED
  BY <1>2, <1>3, <1>4, <1>5, <1>6 DEF Build

-----------------------------------------------------------------------------
(* The chain of open directories.                                          *)

\* The innermost directory that is open is that of the nodes.
LEMMA Innermost ==
    ASSUME NEW o, NEW ns, Chain(o, ns)
    PROVE  o[Len(o)] = ns
<1>1. ns \in Seq(1 .. LastNode) /\ Len(ns) \in Nat
  BY DEF Chain
<1>2. Len(o) = Len(ns) + 1 /\ Len(o) \in 1 .. Len(o) /\ Len(o) - 1 = Len(ns)
  BY <1>1 DEF Chain
<1>3. o[Len(o)] = SubSeq(ns, 1, Len(ns))
  BY <1>2 DEF Chain
<1>4. QED
  BY <1>1, <1>3, SubSeqFull

LEMMA Nodes ==
    ASSUME TypeOK
    PROVE  LastNode \in Nat /\ 1 .. LastNode \subseteq Nat
<1>1. Len(stem) \in Nat /\ Len(tables["directories"]) \in Nat
  BY DEF TypeOK, Kinds
<1>2. QED
  BY <1>1 DEF LastNode, Directories

LEMMA FunctionIsSeq ==
    ASSUME NEW S, NEW n \in Nat, NEW f \in [1 .. n -> S]
    PROVE  f \in Seq(S) /\ Len(f) = n
<1>1. f \in Seq(S)
  BY SeqDef
<1>2. DOMAIN f = 1 .. Len(f) /\ Len(f) \in Nat /\ DOMAIN f = 1 .. n
  BY <1>1, LenProperties
<1>3. QED
  BY <1>1, <1>2

LEMMA WayType ==
    ASSUME TypeOK, NEW way \in Ways
    PROVE  way \in Seq(1 .. LastNode)
<1>1. PICK n \in 0 .. LastNode : way \in [1 .. n -> 1 .. LastNode]
  BY DEF Ways
<1>2. n \in Nat
  BY Nodes
<1>3. QED
  BY <1>1, <1>2, FunctionIsSeq

LEMMA Prefix ==
    ASSUME NEW S, NEW s \in Seq(S), NEW k \in 0 .. Len(s)
    PROVE  /\ SubSeq(s, 1, k) \in Seq(S)
           /\ Len(SubSeq(s, 1, k)) = k
           /\ \A i \in 1 .. k : SubSeq(s, 1, k)[i] = s[i]
<1>1. Len(s) \in Nat /\ k \in Int
  OBVIOUS
<1>2. \A i \in 1 .. k : s[i] \in S
  BY ElementOfSeq
<1>3. k - 1 + 1 = k /\ (1 <= k \/ k = 0) /\ \A i \in 1 .. k : 1 + i - 1 = i
  BY <1>1
<1>4. QED
  BY <1>1, <1>2, <1>3, SubSeqProperties

\* Sequences with the same first elements have the same prefix.
LEMMA SamePrefix ==
    ASSUME NEW S, NEW s \in Seq(S), NEW t \in Seq(S), NEW k \in 0 .. Len(s),
           k <= Len(t), \A i \in 1 .. k : s[i] = t[i]
    PROVE  SubSeq(s, 1, k) = SubSeq(t, 1, k)
<1>1. k \in 0 .. Len(t)
  OBVIOUS
<1>2. /\ SubSeq(s, 1, k) \in Seq(S) /\ Len(SubSeq(s, 1, k)) = k
      /\ \A i \in 1 .. k : SubSeq(s, 1, k)[i] = s[i]
  BY Prefix
<1>3. /\ SubSeq(t, 1, k) \in Seq(S) /\ Len(SubSeq(t, 1, k)) = k
      /\ \A i \in 1 .. k : SubSeq(t, 1, k)[i] = t[i]
  BY <1>1, Prefix
<1>4. QED
  BY <1>2, <1>3, SeqEqual

\* After entering, also when a directory could not be opened, the directories
\* are open down to the last that was reached.
LEMMA Entered ==
    ASSUME IInv, pc = "read", NEW way \in Ways, NEW node, IsWayTo(way, node),
           NEW reached \in 0 .. Len(way), Enter(way, reached)
    PROVE  Chain(open', nodes') /\ nodes' = SubSeq(way, 1, reached)
<1>1. way \in Seq(1 .. LastNode) /\ Len(way) \in Nat /\ reached \in Nat
  BY WayType DEF IInv
<1>2. Chain(open, nodes)
  BY DEF IInv, ChainInv
<1>3. Len(nodes) \in Nat /\ nodes \in Seq(1 .. LastNode)
  BY <1>2 DEF Chain
<1>4. LastNode \in Nat /\ 1 .. LastNode \subseteq Nat
  BY Nodes DEF IInv
<1>5. PICK n \in 0 .. Len(nodes) :
          /\ IsCommon(n, way)
          /\ n <= reached
          /\ nodes' = Opened(way, reached)
          /\ open' = Kept(n) \o [i \in 1 .. reached - n |-> SubSeq(way, 1, n + i)]
  BY DEF Enter
<1>6. /\ nodes' = SubSeq(way, 1, reached)
      /\ nodes' \in Seq(1 .. LastNode)
      /\ Len(nodes') = reached
      /\ \A i \in 1 .. reached : nodes'[i] = way[i]
  BY <1>1, <1>5, Prefix DEF Opened
<1>7. \A k \in 0 .. reached : SubSeq(way, 1, k) = SubSeq(nodes', 1, k)
  <2>1. SUFFICES ASSUME NEW k \in 0 .. reached
                 PROVE  SubSeq(way, 1, k) = SubSeq(nodes', 1, k)
    OBVIOUS
  <2>2. k \in 0 .. Len(way) /\ k <= Len(nodes') /\ \A i \in 1 .. k : way[i] = nodes'[i]
    BY <1>1, <1>6
  <2>3. QED
    BY <1>1, <1>6, <2>2, SamePrefix
<1>8. /\ Kept(n) \in Seq(Seq(Nat)) /\ Len(Kept(n)) = n + 1
      /\ \A i \in 1 .. n + 1 : Kept(n)[i] = open[i]
  <2>1. open \in Seq(Seq(Nat)) /\ n + 1 \in 1 .. Len(open)
    BY <1>2, <1>3 DEF Chain
  <2>2. QED
    BY <2>1 DEF Kept
<1>9. \A i \in 1 .. n + 1 : open[i] = SubSeq(nodes', 1, i - 1)
  <2>1. SUFFICES ASSUME NEW i \in 1 .. n + 1
                 PROVE  open[i] = SubSeq(nodes', 1, i - 1)
    OBVIOUS
  <2>2. open[i] = SubSeq(nodes, 1, i - 1)
    BY <1>2, <1>3 DEF Chain
  <2>3. \A j \in 1 .. n : nodes[j] = nodes'[j]
    BY <1>5, <1>6 DEF IsCommon
  <2>4. i - 1 \in 0 .. Len(nodes) /\ i - 1 <= Len(nodes') /\ i - 1 \in 0 .. n
    BY <1>1, <1>3, <1>5, <1>6
  <2>5. \A j \in 1 .. i - 1 : nodes[j] = nodes'[j]
    BY <2>3, <2>4
  <2>6. QED
    BY <1>3, <1>6, <2>2, <2>4, <2>5, SamePrefix
<1> DEFINE below == [i \in 1 .. reached - n |-> SubSeq(way, 1, n + i)]
<1>10. /\ below \in Seq(Seq(Nat)) /\ Len(below) = reached - n
       /\ \A i \in 1 .. reached - n : below[i] = SubSeq(nodes', 1, n + i)
  <2>1. \A i \in 1 .. reached - n : n + i \in 0 .. reached
    BY <1>1, <1>5
  <2>2. \A i \in 1 .. reached - n : SubSeq(way, 1, n + i) = SubSeq(nodes', 1, n + i)
    BY <1>7, <2>1
  <2>3. \A i \in 1 .. reached - n : SubSeq(way, 1, n + i) \in Seq(Nat)
    BY <1>1, <1>4, <2>1
  <2>4. reached - n \in Nat
    BY <1>1, <1>5
  <2>5. below \in [1 .. reached - n -> Seq(Nat)]
    BY <2>3
  <2>6. below \in Seq(Seq(Nat)) /\ Len(below) = reached - n
    BY <2>4, <2>5, FunctionIsSeq
  <2>7. QED
    BY <2>2, <2>6
<1> HIDE DEF below
<1>11. /\ open' \in Seq(Seq(Nat)) /\ Len(open') = reached + 1
       /\ \A i \in 1 .. reached + 1 :
             open'[i] = IF i <= n + 1 THEN Kept(n)[i] ELSE below[i - (n + 1)]
  <2>1. open' = Kept(n) \o below
    BY <1>5 DEF below
  <2>2. n + 1 + (reached - n) = reached + 1
    BY <1>1
  <2>3. /\ Kept(n) \o below \in Seq(Seq(Nat))
        /\ Len(Kept(n) \o below) = Len(Kept(n)) + Len(below)
        /\ \A i \in 1 .. Len(Kept(n)) + Len(below) :
              (Kept(n) \o below)[i] =
                  IF i <= Len(Kept(n)) THEN Kept(n)[i] ELSE below[i - Len(Kept(n))]
    BY <1>8, <1>10, ConcatProperties
  <2>4. Len(Kept(n)) = n + 1 /\ Len(below) = reached - n
    BY <1>8, <1>10
  <2>5. QED
    BY <2>1, <2>2, <2>3, <2>4
<1>12. ASSUME NEW i \in 1 .. reached + 1
       PROVE  open'[i] = SubSeq(nodes', 1, i - 1)
  <2>1. CASE i <= n + 1
    <3>1. i \in 1 .. n + 1
      BY <2>1
    <3>2. QED
      BY <1>8, <1>9, <1>11, <2>1, <3>1
  <2>2. CASE i > n + 1
    <3>1. i - (n + 1) \in 1 .. reached - n /\ n + (i - (n + 1)) = i - 1
      BY <1>1, <1>5, <2>2
    <3>2. below[i - (n + 1)] = SubSeq(nodes', 1, n + (i - (n + 1)))
      BY <1>10, <3>1
    <3>3. open'[i] = below[i - (n + 1)]
      <4>1. ~(i <= n + 1)
        BY <1>3, <2>2
      <4>2. QED
        BY <1>11, <4>1
    <3>4. QED
      BY <3>1, <3>2, <3>3
  <2>3. QED
    BY <2>1, <2>2
<1>13. ASSUME NEW i \in 1 .. reached
       PROVE  Above(nodes'[i]) = IF i = 1 THEN 0 ELSE nodes'[i - 1]
  <2>1. i \in DOMAIN way
    BY <1>1
  <2>2. Above(way[i]) = IF i = 1 THEN 0 ELSE way[i - 1]
    BY <2>1 DEF IsWayTo
  <2>3. QED
    BY <1>6, <2>2
<1>14. QED
  BY <1>6, <1>11, <1>12, <1>13 DEF Chain

-----------------------------------------------------------------------------
(* Reading.                                                                *)

\* Metadata read into a row moves no node.
LEMMA NodesStay ==
    ASSUME Inductive, NEW kind, NEW i, NEW meta,
           MetaSet(tables', tables, kind, i, meta), stem' = stem
    PROVE  LastNode' = LastNode /\ \A n \in 1 .. LastNode : Above(n)' = Above(n)
<1>1. Len(stem) \in Nat /\ "directories" \in Kinds
  BY DEF Inductive, IInv, TypeOK, Kinds
<1>2. LastNode' = LastNode
  BY <1>1 DEF LastNode, Directories, MetaSet
<1>3. ASSUME NEW n \in 1 .. LastNode
      PROVE  Above(n)' = Above(n)
  <2>1. CASE n <= Len(stem)
    BY <2>1 DEF Above
  <2>2. CASE ~(n <= Len(stem))
    <3>1. n - Len(stem) \in 1 .. Len(tables["directories"])
      BY <1>1, <2>2 DEF LastNode, Directories, MetaSet
    <3>2. tables'["directories"][n - Len(stem)].parent
             = tables["directories"][n - Len(stem)].parent
      BY <1>1, <3>1 DEF MetaSet
    <3>3. QED
      BY <2>2, <3>2 DEF Above, Directories
  <2>3. QED
    BY <2>1, <2>2
<1>4. QED
  BY <1>2, <1>3

\* A way to a node stays one.
LEMMA WayStays ==
    ASSUME \A n \in 1 .. LastNode : Above(n)' = Above(n),
           NEW way \in Seq(1 .. LastNode), NEW node, IsWayTo(way, node)
    PROVE  /\ \A l \in DOMAIN way : Above(way[l])' = IF l = 1 THEN 0 ELSE way[l - 1]
           /\ node = IF way = <<>> THEN 0 ELSE way[Len(way)]
<1>1. \A l \in DOMAIN way : way[l] \in 1 .. LastNode
  BY LenProperties, ElementOfSeq
<1>2. \A l \in DOMAIN way : Above(way[l])' = Above(way[l])
  BY <1>1
<1>3. QED
  BY <1>2 DEF IsWayTo

\* What stays true when a row gets the metadata of its own path.
LEMMA MetaRead ==
    ASSUME Inductive, OwnMetadata, NEW kind \in Kinds, NEW i \in 1 .. Len(tables[kind]),
           NEW way \in Seq(1 .. LastNode), IsWayTo(way, tables[kind][i].parent),
           NEW meta, meta # Unread, meta[1].directory = way,
           meta[1].name = tables[kind][i].texts[1],
           MetaSet(tables', tables, kind, i, meta), UNCHANGED <<tape, stem>>
    PROVE  TapeInv' /\ NamesInv' /\ NodesInv' /\ TextsReadBack' /\ OwnMetadata'
<1>1. LastNode' = LastNode /\ \A n \in 1 .. LastNode : Above(n)' = Above(n)
  BY NodesStay
<1>2. TapeInv'
  BY DEF Inductive, IInv, TapeInv, TapeOK
<1>3. TapeLen(tape)' = TapeLen(tape)
  BY DEF TapeLen
<1>4. NamesInv'
  <2>1. \A j \in DOMAIN stem : OnTape(stem[j])'
    BY <1>3 DEF Inductive, IInv, NamesInv, OnTape
  <2>2. ASSUME NEW k \in Kinds, NEW j \in 1 .. Len(tables[k])
        PROVE  OnTape(tables[k][j])'
    <3>1. OnTape(tables[k][j])
      BY DEF Inductive, IInv, NamesInv, MetaSet
    <3>2. QED
      BY <1>3, <3>1 DEF OnTape, MetaSet
  <2>3. QED
    BY <2>1, <2>2 DEF NamesInv, MetaSet
<1>5. TextsReadBack'
  <2>1. \A j \in DOMAIN stem : ReadsBack(stem[j])'
    BY DEF Inductive, TextsReadBack, ReadsBack
  <2>2. ASSUME NEW k \in Kinds, NEW j \in 1 .. Len(tables[k])
        PROVE  ReadsBack(tables[k][j])'
    <3>1. ReadsBack(tables[k][j])
      BY DEF Inductive, TextsReadBack, MetaSet
    <3>2. QED
      BY <3>1 DEF ReadsBack, MetaSet
  <2>3. QED
    BY <2>1, <2>2 DEF TextsReadBack, MetaSet
<1>6. ASSUME NEW k \in Kinds, NEW j \in 1 .. Len(tables[k])
       PROVE  /\ tables'[k][j].parent \in 0 .. LastNode'
              /\ tables'[k][j].meta # Unread =>
                    tables'[k][j].meta[1].directory \in Seq(1 .. LastNode')
  <2>1. /\ tables[k][j].parent \in 0 .. LastNode
        /\ tables[k][j].meta # Unread => tables[k][j].meta[1].directory \in Seq(1 .. LastNode)
    BY DEF Inductive, IInv, NodesInv, MetaSet
  <2>2. /\ tables'[k][j].parent = tables[k][j].parent
        /\ tables'[k][j].meta = IF k = kind /\ j = i THEN meta ELSE tables[k][j].meta
    BY DEF MetaSet
  <2>3. QED
    BY <1>1, <2>1, <2>2
<1>7. NodesInv'
  BY <1>6 DEF NodesInv, MetaSet
<1>8. ASSUME NEW k \in Kinds, NEW j \in 1 .. Len(tables[k]), tables'[k][j].meta # Unread
       PROVE  /\ IsWayTo(tables[k][j].meta[1].directory, tables[k][j].parent)'
              /\ tables'[k][j].meta[1].name = tables'[k][j].texts[1]
  <2>1. /\ tables'[k][j].parent = tables[k][j].parent
        /\ tables'[k][j].texts = tables[k][j].texts
        /\ tables'[k][j].meta = IF k = kind /\ j = i THEN meta ELSE tables[k][j].meta
    BY DEF MetaSet
  <2>2. PICK w \in Seq(1 .. LastNode) :
            /\ w = tables'[k][j].meta[1].directory
            /\ IsWayTo(w, tables[k][j].parent)
            /\ tables'[k][j].meta[1].name = tables'[k][j].texts[1]
    <3>1. CASE k = kind /\ j = i
      BY <2>1, <3>1
    <3>2. CASE ~(k = kind /\ j = i)
      BY <1>8, <2>1, <3>2 DEF OwnMetadata, Inductive, IInv, NodesInv, MetaSet
    <3>3. QED
      BY <3>1, <3>2
  <2>3. /\ \A l \in DOMAIN w : Above(w[l])' = IF l = 1 THEN 0 ELSE w[l - 1]
        /\ tables[k][j].parent = IF w = <<>> THEN 0 ELSE w[Len(w)]
    BY <1>1, <2>2, WayStays
  <2>4. QED
    BY <2>1, <2>2, <2>3 DEF IsWayTo
<1>9. OwnMetadata'
  BY <1>8 DEF OwnMetadata, MetaSet
<1>10. QED
  BY <1>2, <1>4, <1>5, <1>7, <1>9

\* What SetMeta does to the tables.
LEMMA SetMetaRow ==
    ASSUME Inductive, NEW kind \in Kinds, NEW i \in 1 .. Len(tables[kind]),
           NEW way \in Seq(1 .. LastNode),
           tables' = [tables EXCEPT ![kind][i].meta =
                         <<[directory |-> way, name |-> tables[kind][i].texts[1]]>>]
    PROVE  \E meta : /\ meta # Unread /\ meta[1].directory = way
                     /\ meta[1].name = tables[kind][i].texts[1]
                     /\ MetaSet(tables', tables, kind, i, meta)
<1> DEFINE meta == <<[directory |-> way, name |-> tables[kind][i].texts[1]]>>
           row == [tables[kind][i] EXCEPT !.meta = meta]
<1>1. tables[kind] \in Seq(RowType) /\ DOMAIN tables[kind] = 1 .. Len(tables[kind])
  BY DEF Inductive, IInv, TypeOK
<1>2. tables[kind][i] \in RowType
  BY <1>1, ElementOfSeq
<1>3. OnTape(tables[kind][i])
  BY <1>1 DEF Inductive, IInv, NamesInv
<1>4. tables[kind][i].texts[1] \in Nat
  BY <1>2, <1>3 DEF RowType, OnTape
<1>5. way \in Seq(Nat)
  <2>1. 1 .. LastNode \subseteq Nat
    BY Nodes DEF Inductive, IInv
  <2>2. QED
    BY <2>1, SeqMonotonic
<1>6. /\ meta \in Seq([directory : Seq(Nat), name : Nat]) /\ meta # Unread
      /\ meta[1].directory = way /\ meta[1].name = tables[kind][i].texts[1]
  BY <1>4, <1>5 DEF Unread
<1>7. tables' = [tables EXCEPT ![kind] = [tables[kind] EXCEPT ![i] = row]]
  OBVIOUS
<1> HIDE DEF meta
<1>8. /\ row \in RowType /\ row.parent = tables[kind][i].parent
      /\ row.texts = tables[kind][i].texts /\ row.called = tables[kind][i].called
      /\ row.meta = meta
  BY <1>2, <1>6 DEF RowType
<1> HIDE DEF row
<1>9. tables \in [Kinds -> Seq(RowType)]
  BY DEF Inductive, IInv, TypeOK
<1>10. MetaSet(tables', tables, kind, i, meta)
  BY <1>7, <1>8, <1>9, ReadRow
<1>11. QED
  BY <1>6, <1>10

\* The loops go one row further.
LEMMA TurnPassed ==
    ASSUME Inductive, NEW kind \in Kinds, Reading(kind), Passed(kind)
    PROVE  /\ index[kind] + 1 \in 1 .. Len(tables[kind])
           /\ index' \in [Kinds -> Nat]
           /\ \A k \in Kinds :
                 index'[k] = IF k = kind THEN index[k] + 1 ELSE index[k]
<1>1. index \in [Kinds -> Nat] /\ index[kind] \in Nat /\ Len(tables[kind]) \in Nat
  BY DEF Inductive, IInv, TypeOK
<1>2. index[kind] < Len(tables[kind])
  BY DEF Reading
<1>3. QED
  BY <1>1, <1>2 DEF Passed

\* The open directories are still one below the other when no node moves.
LEMMA ChainStays ==
    ASSUME LastNode' = LastNode, \A n \in 1 .. LastNode : Above(n)' = Above(n),
           Chain(open', nodes')
    PROVE  Chain(open, nodes)'
<1>1. /\ nodes' \in Seq(1 .. LastNode)
      /\ \A i \in 1 .. Len(nodes') : nodes'[i] \in 1 .. LastNode
  BY ElementOfSeq DEF Chain
<1>2. \A i \in 1 .. Len(nodes') : Above(nodes[i])' = Above(nodes'[i])
  BY <1>1 DEF Above
<1>3. QED
  BY <1>1, <1>2 DEF Chain

\* A row is read under its name in the directory that the chain leads to.
LEMMA ReadStep ==
    ASSUME Inductive, OwnMetadata, NEW kind \in Kinds, Reading(kind),
           Chain(open', nodes'), IsWayTo(nodes', Current(kind).parent),
           SetMeta(kind, Current(kind), nodes'), Passed(kind),
           UNCHANGED <<tape, stem, pc, failed>>
    PROVE  Inductive' /\ OwnMetadata'
<1> DEFINE i == index[kind] + 1
<1>1. /\ i \in 1 .. Len(tables[kind]) /\ index' \in [Kinds -> Nat]
      /\ \A k \in Kinds : index'[k] = IF k = kind THEN index[k] + 1 ELSE index[k]
  BY TurnPassed
<1>2. nodes' \in Seq(1 .. LastNode) /\ open' \in Seq(Seq(Nat))
  BY DEF Chain
<1>3. tables' = [tables EXCEPT ![kind][i].meta =
                    <<[directory |-> nodes', name |-> tables[kind][i].texts[1]]>>]
  BY DEF SetMeta, Current
<1>4. IsWayTo(nodes', tables[kind][i].parent)
  BY DEF Current
<1> HIDE DEF i
<1>5. PICK meta : /\ meta # Unread /\ meta[1].directory = nodes'
                  /\ meta[1].name = tables[kind][i].texts[1]
                  /\ MetaSet(tables', tables, kind, i, meta)
  BY <1>1, <1>2, <1>3, SetMetaRow
<1>6. TapeInv' /\ NamesInv' /\ NodesInv' /\ TextsReadBack' /\ OwnMetadata'
  BY <1>1, <1>2, <1>4, <1>5, MetaRead
<1>7. LastNode' = LastNode /\ \A n \in 1 .. LastNode : Above(n)' = Above(n)
  BY <1>5, NodesStay
<1>8. TypeOK'
  <2>1. nodes' \in Seq(Nat)
    <3>1. 1 .. LastNode \subseteq Nat
      BY Nodes DEF Inductive, IInv
    <3>2. QED
      BY <1>2, <3>1, SeqMonotonic
  <2>2. tables' \in [Kinds -> Seq(RowType)]
    BY <1>5 DEF MetaSet
  <2>3. QED
    BY <1>1, <1>2, <2>1, <2>2 DEF Inductive, IInv, TypeOK
<1>9. ChainInv'
  BY <1>7, ChainStays DEF ChainInv
<1>10. TurnsInv'
  <2>1. pc' = "read" /\ pc = "read"
    BY DEF Reading
  <2>2. ASSUME NEW k \in Kinds
        PROVE  index'[k] <= Len(tables'[k])
    <3>1. index[k] <= Len(tables[k]) /\ Len(tables'[k]) = Len(tables[k])
      BY <1>5 DEF Inductive, IInv, TurnsInv, MetaSet
    <3>2. QED
      BY <1>1, <3>1 DEF i
  <2>3. ASSUME NEW k \in Kinds, NEW j \in index'[k] + 1 .. Len(tables'[k])
        PROVE  tables'[k][j].meta = Unread
    <3>1. index[k] \in Nat /\ Len(tables[k]) \in Nat /\ Len(tables'[k]) = Len(tables[k])
      BY <1>5 DEF Inductive, IInv, TypeOK, MetaSet
    <3>2. j \in index[k] + 1 .. Len(tables[k]) /\ ~(k = kind /\ j = i)
      BY <1>1, <3>1 DEF i
    <3>3. tables[k][j].meta = Unread
      BY <2>1, <3>2 DEF Inductive, IInv, TurnsInv
    <3>4. j \in 1 .. Len(tables[k])
      BY <3>1, <3>2
    <3>5. QED
      BY <1>5, <3>2, <3>3, <3>4 DEF MetaSet
  <2>4. QED
    BY <2>1, <2>2, <2>3 DEF TurnsInv
<1>11. QED
  BY <1>6, <1>8, <1>9, <1>10 DEF Inductive, IInv

\* A row is left out: the part stays as it is.
LEMMA LeftOutStep ==
    ASSUME Inductive, NEW kind \in Kinds, Reading(kind), Passed(kind),
           Chain(open', nodes'), failed' = failed + 1, UNCHANGED <<partVars, pc>>
    PROVE  Inductive'
<1>1. /\ index[kind] + 1 \in 1 .. Len(tables[kind]) /\ index' \in [Kinds -> Nat]
      /\ \A k \in Kinds : index'[k] = IF k = kind THEN index[k] + 1 ELSE index[k]
  BY TurnPassed
<1>2. /\ tape' = tape /\ stem' = stem /\ tables' = tables
      /\ LastNode' = LastNode /\ \A n \in 1 .. LastNode : Above(n)' = Above(n)
  BY DEF partVars, LastNode, Above, Directories
<1>3. TypeOK'
  <2>1. nodes' \in Seq(1 .. LastNode) /\ open' \in Seq(Seq(Nat)) /\ 1 .. LastNode \subseteq Nat
    BY Nodes DEF Inductive, IInv, Chain
  <2>2. nodes' \in Seq(Nat)
    BY <2>1, SeqMonotonic
  <2>3. QED
    BY <1>1, <1>2, <2>1, <2>2 DEF Inductive, IInv, TypeOK
<1>4. TapeInv' /\ NamesInv' /\ NodesInv' /\ TextsReadBack'
  <2>1. TapeInv' /\ TapeLen(tape)' = TapeLen(tape)
    BY <1>2 DEF Inductive, IInv, TapeInv, TapeOK, TapeLen
  <2>2. NamesInv'
    BY <1>2, <2>1 DEF Inductive, IInv, NamesInv, OnTape
  <2>3. NodesInv'
    BY <1>2 DEF Inductive, IInv, NodesInv
  <2>4. TextsReadBack'
    BY <1>2 DEF Inductive, TextsReadBack, ReadsBack
  <2>5. QED
    BY <2>1, <2>2, <2>3, <2>4
<1>5. ChainInv'
  BY <1>2, ChainStays DEF ChainInv
<1>6. TurnsInv'
  <2>1. pc' = "read" /\ pc = "read"
    BY DEF Reading
  <2>2. ASSUME NEW k \in Kinds
        PROVE  /\ index[k] \in Nat /\ Len(tables[k]) \in Nat
               /\ index'[k] <= Len(tables[k])
               /\ index'[k] >= index[k]
    <3>1. index[k] <= Len(tables[k]) /\ index[k] \in Nat /\ Len(tables[k]) \in Nat
      BY DEF Inductive, IInv, TurnsInv, TypeOK
    <3>2. QED
      BY <1>1, <3>1
  <2>3. ASSUME NEW k \in Kinds, NEW j \in index'[k] + 1 .. Len(tables[k])
        PROVE  tables[k][j].meta = Unread
    <3>1. j \in index[k] + 1 .. Len(tables[k])
      BY <1>1, <2>2
    <3>2. QED
      BY <2>1, <3>1 DEF Inductive, IInv, TurnsInv
  <2>4. QED
    BY <1>2, <2>1, <2>2, <2>3 DEF TurnsInv
<1>7. QED
  BY <1>3, <1>4, <1>5, <1>6 DEF Inductive, IInv

LEMMA ReadHereStep ==
    ASSUME Inductive, OwnMetadata, NEW kind \in Kinds, ReadHere(kind)
    PROVE  Inductive' /\ OwnMetadata'
<1>1. Reading(kind) /\ pc = "read"
  BY DEF ReadHere, Reading
<1>2. Chain(open, nodes) /\ nodes' = nodes /\ open' = open
  BY <1>1 DEF Inductive, IInv, ChainInv, ReadHere
<1>3. open[Len(open)] = nodes
  BY <1>2, Innermost
<1>4. IsWayTo(nodes, Current(kind).parent)
  BY <1>2, LenProperties DEF ReadHere, There, Chain, IsWayTo
<1>5. /\ SetMeta(kind, Current(kind), nodes') /\ Passed(kind)
      /\ UNCHANGED <<tape, stem, pc, failed>>
  BY <1>2, <1>3 DEF ReadHere
<1>6. Chain(open', nodes') /\ IsWayTo(nodes', Current(kind).parent)
  BY <1>2, <1>4
<1>7. QED
  BY <1>1, <1>5, <1>6, ReadStep

LEMMA ReadBelowStep ==
    ASSUME Inductive, OwnMetadata, NEW kind \in Kinds, ReadBelow(kind)
    PROVE  Inductive' /\ OwnMetadata'
<1>1. Reading(kind) /\ pc = "read" /\ IInv
  BY DEF ReadBelow, Reading, Inductive
<1>2. PICK way \in Ways : /\ IsWayTo(way, Current(kind).parent)
                          /\ Enter(way, Len(way))
                          /\ SetMeta(kind, Current(kind), open'[Len(open')])
  BY DEF ReadBelow
<1>3. way \in Seq(1 .. LastNode) /\ Len(way) \in 0 .. Len(way)
  <2>1. way \in Seq(1 .. LastNode)
    BY <1>1, WayType DEF IInv
  <2>2. QED
    BY <2>1
<1>4. Chain(open', nodes') /\ nodes' = way
  BY <1>1, <1>2, <1>3, Entered, SubSeqFull
<1>5. open'[Len(open')] = nodes'
  BY <1>4, Innermost
<1>6. SetMeta(kind, Current(kind), nodes') /\ IsWayTo(nodes', Current(kind).parent)
  BY <1>2, <1>4, <1>5
<1>7. Passed(kind) /\ UNCHANGED <<tape, stem, pc, failed>>
  BY DEF ReadBelow
<1>8. QED
  BY <1>1, <1>4, <1>6, <1>7, ReadStep

LEMMA StatFailsStep ==
    ASSUME Inductive, NEW kind \in Kinds, StatFails(kind)
    PROVE  Inductive'
<1>1. /\ Reading(kind) /\ pc = "read" /\ IInv /\ Passed(kind)
      /\ failed' = failed + 1 /\ UNCHANGED <<partVars, pc>>
  BY DEF StatFails, Reading, Inductive
<1>2. Chain(open, nodes)
  BY <1>1 DEF IInv, ChainInv
<1>3. CASE UNCHANGED <<nodes, open>>
  <2>1. Chain(open', nodes')
    BY <1>2, <1>3
  <2>2. QED
    BY <1>1, <2>1, LeftOutStep
<1>4. ASSUME NEW way \in Ways, IsWayTo(way, Current(kind).parent), Enter(way, Len(way))
      PROVE  Inductive'
  <2>1. way \in Seq(1 .. LastNode)
    BY <1>1, WayType DEF IInv
  <2>2. Len(way) \in 0 .. Len(way)
    BY <2>1
  <2>3. Chain(open', nodes')
    BY <1>1, <1>4, <2>2, Entered
  <2>4. QED
    BY <1>1, <2>3, LeftOutStep
<1>5. QED
  BY <1>3, <1>4 DEF StatFails

LEMMA EnterFailsStep ==
    ASSUME Inductive, NEW kind \in Kinds, EnterFails(kind)
    PROVE  Inductive'
<1>1. /\ Reading(kind) /\ pc = "read" /\ IInv /\ Passed(kind)
      /\ failed' = failed + 1 /\ UNCHANGED <<partVars, pc>>
  BY DEF EnterFails, Unreached, Reading, Inductive
<1>2. PICK way \in Ways : /\ IsWayTo(way, Current(kind).parent)
                          /\ \E reached \in 0 .. Len(way) - 1 : Enter(way, reached)
  BY DEF EnterFails
<1>3. PICK reached \in 0 .. Len(way) - 1 : Enter(way, reached)
  BY <1>2
<1>4. way \in Seq(1 .. LastNode)
  BY <1>1, WayType DEF IInv
<1>5. reached \in 0 .. Len(way)
  BY <1>4
<1>6. Chain(open', nodes')
  BY <1>1, <1>2, <1>3, <1>5, Entered
<1>7. QED
  BY <1>1, <1>6, LeftOutStep

\* What only speaks of the part.
LEMMA PartKept ==
    ASSUME Inductive, UNCHANGED <<tape, stem, tables>>
    PROVE  TapeInv' /\ NamesInv' /\ NodesInv' /\ TextsReadBack'
<1>1. TapeInv' /\ TapeLen(tape)' = TapeLen(tape)
  BY DEF Inductive, IInv, TapeInv, TapeOK, TapeLen
<1>2. NamesInv'
  BY <1>1 DEF Inductive, IInv, NamesInv, OnTape
<1>3. NodesInv'
  BY DEF Inductive, IInv, NodesInv, LastNode, Directories
<1>4. TextsReadBack'
  BY DEF Inductive, TextsReadBack, ReadsBack
<1>5. QED
  BY <1>1, <1>2, <1>3, <1>4

LEMMA OwnKept ==
    ASSUME OwnMetadata, UNCHANGED <<tape, stem, tables>>
    PROVE  OwnMetadata'
<1>1. stem' = stem /\ tables' = tables
  OBVIOUS
<1>2. SUFFICES ASSUME NEW kind \in Kinds, NEW i \in DOMAIN tables[kind],
                      tables[kind][i].meta # Unread
               PROVE  /\ IsWayTo(tables[kind][i].meta[1].directory, tables[kind][i].parent)'
                      /\ tables[kind][i].meta[1].name = tables[kind][i].texts[1]
  BY <1>1 DEF OwnMetadata
<1>3. /\ IsWayTo(tables[kind][i].meta[1].directory, tables[kind][i].parent)
      /\ tables[kind][i].meta[1].name = tables[kind][i].texts[1]
  BY <1>2 DEF OwnMetadata
<1>4. QED
  BY <1>1, <1>3 DEF IsWayTo, Above, Directories

LEMMA OpenRootStep ==
    ASSUME Inductive, OpenRoot
    PROVE  Inductive'
<1>1. /\ nodes = <<>> /\ failed = 0 /\ open' = << <<>> >> /\ nodes' = <<>>
      /\ \A kind \in Kinds : index[kind] = 0
  BY DEF Inductive, IInv, TurnsInv, OpenRoot
<1>2. /\ tape' = tape /\ stem' = stem /\ tables' = tables /\ index' = index
      /\ failed' = failed /\ pc = "build" /\ pc' = "read"
  BY DEF OpenRoot, partVars
<1>3. Chain(open, nodes)'
  <2>1. /\ <<>> \in Seq(1 .. LastNode') /\ << <<>> >> \in Seq(Seq(Nat))
        /\ Len(<<>>) = 0 /\ Len(<< <<>> >>) = 1 /\ << <<>> >>[1] = <<>>
    OBVIOUS
  <2>2. SubSeq(<<>>, 1, 0) = <<>>
    BY SubSeqEmpty
  <2>3. Len(open') = Len(nodes') + 1 /\ Len(open') = 1 /\ Len(nodes') = 0
    BY <1>1, <2>1
  <2>4. \A i \in 1 .. Len(open') : i = 1
    BY <2>3
  <2>5. open'[1] = SubSeq(nodes', 1, 1 - 1)
    BY <1>1, <2>1, <2>2
  <2>6. 1 .. Len(nodes') = {}
    BY <2>3
  <2>7. nodes' \in Seq(1 .. LastNode') /\ open' \in Seq(Seq(Nat))
    BY <1>1, <2>1
  <2>8. QED
    BY <2>3, <2>4, <2>5, <2>6, <2>7 DEF Chain
<1>4. TypeOK'
  BY <1>1, <1>2 DEF Inductive, IInv, TypeOK
<1>5. TapeInv' /\ NamesInv' /\ NodesInv' /\ TextsReadBack'
  BY <1>2, PartKept
<1>6. TurnsInv'
  BY <1>2 DEF Inductive, IInv, TurnsInv
<1>7. QED
  BY <1>3, <1>4, <1>5, <1>6 DEF Inductive, IInv, ChainInv

\* The steps that only change pc.
LEMMA PcStep ==
    ASSUME Inductive, UNCHANGED <<tape, stem, tables, nodes, open, failed, index>>,
           \/ pc = "build" /\ pc' = "error"
           \/ pc = "read" /\ pc' = "ok"
           \/ pc' = pc
    PROVE  Inductive'
<1>1. TypeOK'
  BY DEF Inductive, IInv, TypeOK
<1>2. TapeInv' /\ NamesInv' /\ NodesInv' /\ TextsReadBack'
  BY PartKept
<1>3. ChainInv'
  <2>1. LastNode' = LastNode /\ \A n \in 1 .. LastNode : Above(n)' = Above(n)
    BY DEF LastNode, Above, Directories
  <2>2. pc' \in {"read", "ok"} => Chain(open', nodes')
    BY DEF Inductive, IInv, ChainInv
  <2>3. QED
    BY <2>1, <2>2, ChainStays DEF ChainInv
<1>4. TurnsInv'
  BY DEF Inductive, IInv, TurnsInv
<1>5. QED
  BY <1>1, <1>2, <1>3, <1>4 DEF Inductive, IInv

LEMMA ReadOpenFileStep ==
    ASSUME Inductive, OwnMetadata, ReadOpenFile
    PROVE  Inductive' /\ OwnMetadata'
<1>1. /\ pc = "ok" /\ pc' = pc /\ tape' = tape /\ stem' = stem /\ nodes' = nodes
      /\ open' = open /\ failed' = failed /\ index' = index
  BY DEF ReadOpenFile, fillVars
<1>2. PICK i \in DOMAIN tables["files"], way \in Ways :
          /\ IsWayTo(way, tables["files"][i].parent)
          /\ tables' = [tables EXCEPT !["files"][i].meta =
                           <<[directory |-> way, name |-> tables["files"][i].texts[1]]>>]
  BY DEF ReadOpenFile
<1>3. "files" \in Kinds /\ tables["files"] \in Seq(RowType) /\ i \in 1 .. Len(tables["files"])
  BY DEF Inductive, IInv, TypeOK, Kinds
<1>4. way \in Seq(1 .. LastNode)
  BY WayType DEF Inductive, IInv
<1>5. PICK meta : /\ meta # Unread /\ meta[1].directory = way
                  /\ meta[1].name = tables["files"][i].texts[1]
                  /\ MetaSet(tables', tables, "files", i, meta)
  BY <1>2, <1>3, <1>4, SetMetaRow
<1>6. TapeInv' /\ NamesInv' /\ NodesInv' /\ TextsReadBack' /\ OwnMetadata'
  BY <1>1, <1>2, <1>3, <1>4, <1>5, MetaRead
<1>7. LastNode' = LastNode /\ \A n \in 1 .. LastNode : Above(n)' = Above(n)
  BY <1>1, <1>5, NodesStay
<1>8. TypeOK'
  BY <1>1, <1>5 DEF Inductive, IInv, TypeOK, MetaSet
<1>9. ChainInv'
  <2>1. Chain(open', nodes')
    BY <1>1 DEF Inductive, IInv, ChainInv
  <2>2. QED
    BY <1>7, <2>1, ChainStays DEF ChainInv
<1>10. TurnsInv'
  BY <1>1, <1>5 DEF Inductive, IInv, TurnsInv, MetaSet
<1>11. QED
  BY <1>6, <1>8, <1>9, <1>10 DEF Inductive, IInv

-----------------------------------------------------------------------------
(* The invariants.                                                         *)

LEMMA InitStep == Init => Inductive /\ OwnMetadata
<1> SUFFICES ASSUME Init PROVE Inductive /\ OwnMetadata
  OBVIOUS
<1>1. /\ tape = EmptyTape /\ stem = <<>> /\ tables = [kind \in Kinds |-> <<>>]
      /\ pc = "build" /\ nodes = <<>> /\ open = <<>> /\ failed = 0
      /\ index = [kind \in Kinds |-> 0]
  BY DEF Init, PartInit
<1>2. /\ tape.arena = <<>> /\ tape.offsets = <<0>> /\ tape \in [arena : Seq(Bytes), offsets : Seq(Nat)]
      /\ Len(tape.arena) = 0 /\ Len(tape.offsets) = 1 /\ tape.offsets[1] = 0
  BY <1>1 DEF EmptyTape
<1>3. TapeInv
  BY <1>2, PartAssumption DEF TapeInv, TapeOK
<1>4. TypeOK
  BY <1>1, <1>2 DEF TypeOK
<1>5. NamesInv /\ NodesInv /\ TextsReadBack /\ OwnMetadata
  BY <1>1 DEF NamesInv, NodesInv, TextsReadBack, OwnMetadata
<1>6. ChainInv /\ TurnsInv
  BY <1>1 DEF ChainInv, TurnsInv
<1>7. QED
  BY <1>3, <1>4, <1>5, <1>6 DEF Inductive, IInv

LEMMA NextStep ==
    ASSUME Inductive, OwnMetadata, [Next]_vars
    PROVE  Inductive' /\ OwnMetadata'
<1>1. CASE Build
  <2>1. Inductive'
    BY <1>1, BuildStep
  <2>2. \A kind \in Kinds : \A i \in 1 .. Len(tables'[kind]) : tables'[kind][i].meta = Unread
    <3>1. pc' = "build"
      BY <1>1 DEF Build, fillVars
    <3>2. \A kind \in Kinds : index'[kind] = 0
      BY <2>1, <3>1 DEF Inductive, IInv, TurnsInv
    <3>3. QED
      BY <2>1, <3>1, <3>2 DEF Inductive, IInv, TurnsInv
  <2>3. \A kind \in Kinds : DOMAIN tables'[kind] = 1 .. Len(tables'[kind])
    BY <2>1 DEF Inductive, IInv, TypeOK
  <2>4. OwnMetadata'
    BY <2>2, <2>3 DEF OwnMetadata
  <2>5. QED
    BY <2>1, <2>4
<1>2. CASE OpenRoot
  <2>1. Inductive'
    BY <1>2, OpenRootStep
  <2>2. OwnMetadata'
    BY <1>2, OwnKept DEF OpenRoot, partVars
  <2>3. QED
    BY <2>1, <2>2
<1>3. CASE RootFails
  <2>1. Inductive'
    BY <1>3, PcStep DEF RootFails, partVars
  <2>2. OwnMetadata'
    BY <1>3, OwnKept DEF RootFails, partVars
  <2>3. QED
    BY <2>1, <2>2
<1>4. CASE Return
  <2>1. Inductive'
    BY <1>4, PcStep DEF Return, partVars
  <2>2. OwnMetadata'
    BY <1>4, OwnKept DEF Return, partVars
  <2>3. QED
    BY <2>1, <2>2
<1>5. CASE ReadOpenFile
  BY <1>5, ReadOpenFileStep
<1>6. ASSUME NEW kind \in Kinds, ReadHere(kind) PROVE Inductive' /\ OwnMetadata'
  BY <1>6, ReadHereStep
<1>7. ASSUME NEW kind \in Kinds, ReadBelow(kind) PROVE Inductive' /\ OwnMetadata'
  BY <1>7, ReadBelowStep
<1>8. ASSUME NEW kind \in Kinds, StatFails(kind) PROVE Inductive' /\ OwnMetadata'
  <2>1. Inductive'
    BY <1>8, StatFailsStep
  <2>2. OwnMetadata'
    BY <1>8, OwnKept DEF StatFails, partVars
  <2>3. QED
    BY <2>1, <2>2
<1>9. ASSUME NEW kind \in Kinds, EnterFails(kind) PROVE Inductive' /\ OwnMetadata'
  <2>1. Inductive'
    BY <1>9, EnterFailsStep
  <2>2. OwnMetadata'
    BY <1>9, OwnKept DEF EnterFails, partVars
  <2>3. QED
    BY <2>1, <2>2
<1>10. CASE UNCHANGED vars
  <2>1. Inductive'
    BY <1>10, PcStep DEF vars, partVars, fillVars
  <2>2. OwnMetadata'
    BY <1>10, OwnKept DEF vars, partVars
  <2>3. QED
    BY <2>1, <2>2
<1>11. QED
  BY <1>1, <1>2, <1>3, <1>4, <1>5, <1>6, <1>7, <1>8, <1>9, <1>10 DEF Next

\* The invariant of FillInv holds of every part and every reading of it.
THEOREM Invariant == Spec => []IInv
<1>1. Inductive => IInv
  BY DEF Inductive
<1>2. Inductive /\ OwnMetadata /\ [Next]_vars => Inductive' /\ OwnMetadata'
  BY NextStep
<1>3. QED
  BY <1>1, <1>2, InitStep, PTL DEF Spec

\* A text reads back as it was pushed, for all texts: pushes that are refused and
\* metadata that is read leave the offsets of the others alone (StrTape::push).
THEOREM TextsAlwaysReadBack == Spec => []TextsReadBack
<1>1. Inductive => TextsReadBack
  BY DEF Inductive
<1>2. Inductive /\ OwnMetadata /\ [Next]_vars => Inductive' /\ OwnMetadata'
  BY NextStep
<1>3. QED
  BY <1>1, <1>2, InitStep, PTL DEF Spec

\* read_metadata reads each row under its own name in its own directory, for
\* every part and whatever could not be opened: the chain of open directories is
\* never ahead of its nodes or behind them.
THEOREM MetadataIsOwn == Spec => []OwnMetadata
<1>1. Inductive /\ OwnMetadata /\ [Next]_vars => Inductive' /\ OwnMetadata'
  BY NextStep
<1>2. QED
  BY <1>1, InitStep, PTL DEF Spec

-----------------------------------------------------------------------------
(* The count of the rows that were not read.                               *)

Total ==
    Cardinality(UnreadRows("directories"))
        + Cardinality(UnreadRows("files")) + Cardinality(UnreadRows("symlinks"))

LEMMA UnreadFinite ==
    ASSUME Inductive, NEW kind \in Kinds
    PROVE  /\ IsFiniteSet(UnreadRows(kind)) /\ Cardinality(UnreadRows(kind)) \in Nat
           /\ index[kind] + 1 \notin UnreadRows(kind)
<1>1. index[kind] \in Nat
  BY DEF Inductive, IInv, TypeOK
<1>2. IsFiniteSet(1 .. index[kind])
  BY <1>1, FS_Interval
<1>3. UnreadRows(kind) \subseteq 1 .. index[kind]
  BY DEF UnreadRows
<1>4. IsFiniteSet(UnreadRows(kind))
  BY <1>2, <1>3, FS_Subset
<1>5. Cardinality(UnreadRows(kind)) \in Nat
  BY <1>4, FS_CardinalityType
<1>6. index[kind] + 1 \notin 1 .. index[kind]
  BY <1>1
<1>7. QED
  BY <1>3, <1>4, <1>5, <1>6

\* A row that is read is not counted.
LEMMA ReadIsNotCounted ==
    ASSUME Inductive, NEW kind \in Kinds, Reading(kind), Passed(kind),
           NEW way \in Seq(1 .. LastNode), SetMeta(kind, Current(kind), way)
    PROVE  \A k \in Kinds : UnreadRows(k)' = UnreadRows(k)
<1> DEFINE i == index[kind] + 1
<1>1. /\ i \in 1 .. Len(tables[kind]) /\ index' \in [Kinds -> Nat]
      /\ \A k \in Kinds : index'[k] = IF k = kind THEN index[k] + 1 ELSE index[k]
  BY TurnPassed
<1>2. tables' = [tables EXCEPT ![kind][i].meta =
                    <<[directory |-> way, name |-> tables[kind][i].texts[1]]>>]
  BY DEF SetMeta, Current
<1> HIDE DEF i
<1>3. PICK meta : meta # Unread /\ MetaSet(tables', tables, kind, i, meta)
  BY <1>1, <1>2, SetMetaRow
<1>4. SUFFICES ASSUME NEW k \in Kinds
               PROVE  UnreadRows(k)' = UnreadRows(k)
  OBVIOUS
<1>5. index[k] \in Nat /\ index[k] <= Len(tables[k]) /\ Len(tables[k]) \in Nat
  BY DEF Inductive, IInv, TypeOK, TurnsInv
<1>6. \A j \in 1 .. index[k] :
         /\ j \in 1 .. index'[k] /\ ~(k = kind /\ j = i) /\ j \in 1 .. Len(tables[k])
  BY <1>1, <1>5 DEF i
<1>7. \A j \in 1 .. index[k] : tables'[k][j].meta = tables[k][j].meta
  BY <1>3, <1>6 DEF MetaSet
<1>8. \A j \in 1 .. index'[k] :
         j \in 1 .. index[k] \/ (k = kind /\ j = i /\ j \in 1 .. Len(tables[k]))
  BY <1>1, <1>5 DEF i
<1>9. \A j \in 1 .. index'[k] : j \in 1 .. index[k] \/ tables'[k][j].meta = meta
  BY <1>3, <1>8 DEF MetaSet
<1>10. QED
  BY <1>3, <1>6, <1>7, <1>9 DEF UnreadRows

\* A row that is left out is.
LEMMA LeftOutIsCounted ==
    ASSUME Inductive, NEW kind \in Kinds, Reading(kind), Passed(kind), tables' = tables
    PROVE  \A k \in Kinds :
              UnreadRows(k)' = IF k = kind THEN UnreadRows(k) \union {index[k] + 1}
                                           ELSE UnreadRows(k)
<1>1. /\ index[kind] + 1 \in 1 .. Len(tables[kind]) /\ index' \in [Kinds -> Nat]
      /\ \A k \in Kinds : index'[k] = IF k = kind THEN index[k] + 1 ELSE index[k]
  BY TurnPassed
<1>2. SUFFICES ASSUME NEW k \in Kinds
               PROVE  UnreadRows(k)' = IF k = kind THEN UnreadRows(k) \union {index[k] + 1}
                                                   ELSE UnreadRows(k)
  OBVIOUS
<1>3. index[k] \in Nat /\ Len(tables[k]) \in Nat
  BY DEF Inductive, IInv, TypeOK
<1>4. CASE k # kind
  BY <1>1, <1>4 DEF UnreadRows
<1>5. CASE k = kind
  <2>1. 1 .. index'[k] = 1 .. index[k] \union {index[k] + 1}
    BY <1>1, <1>3, <1>5
  <2>2. tables[k][index[k] + 1].meta = Unread
    <3>1. index[k] + 1 \in index[k] + 1 .. Len(tables[k]) /\ pc = "read"
      BY <1>1, <1>3, <1>5 DEF Reading
    <3>2. QED
      BY <3>1 DEF Inductive, IInv, TurnsInv
  <2>3. QED
    BY <1>5, <2>1, <2>2 DEF UnreadRows
<1>6. QED
  BY <1>4, <1>5

LEMMA TotalStays ==
    ASSUME \A k \in Kinds : UnreadRows(k)' = UnreadRows(k)
    PROVE  Total' = Total
<1>1. /\ UnreadRows("directories")' = UnreadRows("directories")
      /\ UnreadRows("files")' = UnreadRows("files")
      /\ UnreadRows("symlinks")' = UnreadRows("symlinks")
  BY DEF Kinds
<1>2. QED
  BY <1>1 DEF Total

LEMMA TotalGoesUp ==
    ASSUME Inductive, NEW kind \in Kinds, Reading(kind), Passed(kind), tables' = tables
    PROVE  Total' = Total + 1
<1>1. \A k \in Kinds : /\ IsFiniteSet(UnreadRows(k)) /\ Cardinality(UnreadRows(k)) \in Nat
                       /\ index[k] + 1 \notin UnreadRows(k)
  BY UnreadFinite
<1>2. \A k \in Kinds :
         UnreadRows(k)' = IF k = kind THEN UnreadRows(k) \union {index[k] + 1}
                                      ELSE UnreadRows(k)
  BY LeftOutIsCounted
<1>3. \A k \in Kinds : Cardinality(UnreadRows(k) \union {index[k] + 1})
                           = Cardinality(UnreadRows(k)) + 1
  BY <1>1, FS_AddElement
<1>4. \A k \in Kinds :
         Cardinality(UnreadRows(k))' = IF k = kind THEN Cardinality(UnreadRows(k)) + 1
                                                   ELSE Cardinality(UnreadRows(k))
  <2>1. SUFFICES ASSUME NEW k \in Kinds
                 PROVE  Cardinality(UnreadRows(k))'
                           = IF k = kind THEN Cardinality(UnreadRows(k)) + 1
                                         ELSE Cardinality(UnreadRows(k))
    OBVIOUS
  <2>2. Cardinality(UnreadRows(k))' = Cardinality(UnreadRows(k)')
    OBVIOUS
  <2>3. QED
    BY <1>2, <1>3, <2>2
<1>5. /\ "directories" \in Kinds /\ "files" \in Kinds /\ "symlinks" \in Kinds
      /\ kind \in {"directories", "files", "symlinks"}
  BY DEF Kinds
<1>6. QED
  BY <1>1, <1>4, <1>5 DEF Total

Count == pc = "read" => failed = Total

LEMMA CountStep ==
    ASSUME Inductive, Count, [Next]_vars
    PROVE  Count'
<1>1. CASE Build
  BY <1>1 DEF Build, fillVars, Count
<1>2. CASE OpenRoot
  <2>1. \A k \in Kinds : index'[k] = 0
    BY <1>2 DEF OpenRoot, Inductive, IInv, TurnsInv
  <2>2. \A k \in Kinds : UnreadRows(k)' = {}
    BY <2>1 DEF UnreadRows
  <2>3. /\ Cardinality(UnreadRows("directories"))' = 0
        /\ Cardinality(UnreadRows("files"))' = 0
        /\ Cardinality(UnreadRows("symlinks"))' = 0
    BY <2>2, FS_EmptySet DEF Kinds
  <2>4. failed' = 0
    BY <1>2 DEF OpenRoot, Inductive, IInv, TurnsInv
  <2>5. QED
    BY <2>3, <2>4 DEF Count, Total
<1>3. CASE RootFails
  BY <1>3 DEF RootFails, Count
<1>4. CASE Return
  BY <1>4 DEF Return, Count
<1>5. CASE ReadOpenFile
  BY <1>5 DEF ReadOpenFile, fillVars, Count
<1>6. ASSUME NEW kind \in Kinds, ReadHere(kind) PROVE Count'
  <2>1. /\ Reading(kind) /\ pc = "read" /\ Passed(kind) /\ failed' = failed /\ pc' = pc
        /\ SetMeta(kind, Current(kind), open[Len(open)])
    BY <1>6 DEF ReadHere, Reading
  <2>2. Chain(open, nodes)
    BY <2>1 DEF Inductive, IInv, ChainInv
  <2>3. open[Len(open)] \in Seq(1 .. LastNode)
    BY <2>2, Innermost DEF Chain
  <2>4. Total' = Total
    BY <2>1, <2>3, ReadIsNotCounted, TotalStays
  <2>5. QED
    BY <2>1, <2>4 DEF Count
<1>7. ASSUME NEW kind \in Kinds, ReadBelow(kind) PROVE Count'
  <2>1. /\ Reading(kind) /\ pc = "read" /\ Passed(kind) /\ failed' = failed /\ pc' = pc
        /\ IInv
    BY <1>7 DEF ReadBelow, Reading, Inductive
  <2>2. PICK way \in Ways : /\ IsWayTo(way, Current(kind).parent)
                            /\ Enter(way, Len(way))
                            /\ SetMeta(kind, Current(kind), open'[Len(open')])
    BY <1>7 DEF ReadBelow
  <2>3. way \in Seq(1 .. LastNode)
    BY <2>1, WayType DEF IInv
  <2>4. Len(way) \in 0 .. Len(way)
    BY <2>3
  <2>5. Chain(open', nodes')
    BY <2>1, <2>2, <2>4, Entered
  <2>6. open'[Len(open')] \in Seq(1 .. LastNode)
    BY <2>5, Innermost DEF Chain
  <2>7. Total' = Total
    BY <2>1, <2>2, <2>6, ReadIsNotCounted, TotalStays
  <2>8. QED
    BY <2>1, <2>7 DEF Count
<1>8. ASSUME NEW kind \in Kinds, StatFails(kind) PROVE Count'
  <2>1. /\ Reading(kind) /\ pc = "read" /\ Passed(kind) /\ tables' = tables
        /\ failed' = failed + 1 /\ pc' = pc
    BY <1>8 DEF StatFails, Reading, partVars
  <2>2. Total' = Total + 1
    BY <2>1, TotalGoesUp
  <2>3. QED
    BY <2>1, <2>2 DEF Count
<1>9. ASSUME NEW kind \in Kinds, EnterFails(kind) PROVE Count'
  <2>1. /\ Reading(kind) /\ pc = "read" /\ Passed(kind) /\ tables' = tables
        /\ failed' = failed + 1 /\ pc' = pc
    BY <1>9 DEF EnterFails, Unreached, Reading, partVars
  <2>2. Total' = Total + 1
    BY <2>1, TotalGoesUp
  <2>3. QED
    BY <2>1, <2>2 DEF Count
<1>10. CASE UNCHANGED vars
  <2>1. tables' = tables /\ index' = index /\ pc' = pc /\ failed' = failed
    BY <1>10 DEF vars, partVars, fillVars
  <2>2. \A k \in Kinds : UnreadRows(k)' = UnreadRows(k)
    BY <2>1 DEF UnreadRows
  <2>3. Total' = Total
    BY <2>2, TotalStays
  <2>4. QED
    BY <2>1, <2>3 DEF Count
<1>11. QED
  BY <1>1, <1>2, <1>3, <1>4, <1>5, <1>6, <1>7, <1>8, <1>9, <1>10 DEF Next

\* read_metadata returns how many rows could not be read, for every part: each
\* row it is past was read or counted, once, and no row before its turn.
THEOREM UnreadAreAlwaysCounted == Spec => []UnreadAreCounted
<1>1. Init => Count
  BY DEF Init, Count
<1>2. Inductive /\ Count /\ [Next]_vars => Count'
  BY CountStep
<1>3. Inductive /\ OwnMetadata /\ [Next]_vars => Inductive' /\ OwnMetadata'
  BY NextStep
<1>4. Inductive /\ Count => UnreadAreCounted
  BY DEF Inductive, IInv, TurnsInv, Count, Total, UnreadAreCounted
<1>5. QED
  BY <1>1, <1>2, <1>3, <1>4, InitStep, PTL DEF Spec
=============================================================================
