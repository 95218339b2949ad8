------------------------------ MODULE FillInv -------------------------------
(***************************************************************************)
(* The inductive invariant of Fill.                                        *)
(***************************************************************************)
EXTENDS Fill

\* Each offset is within the text, and the last is its end.
TapeOK(t) ==
    /\ t \in [arena : Seq(Bytes), offsets : Seq(Nat)]
    /\ Len(t.offsets) >= 1
    /\ t.offsets[Len(t.offsets)] = Len(t.arena)
    /\ \A i \in 1 .. Len(t.offsets) : t.offsets[i] <= Len(t.arena)
    /\ Len(t.arena) <= MaxText

TapeInv == TapeOK(tape)

\* The indexes of names are those of texts on the tape.
OnTape(named) ==
    /\ Len(named.texts) >= 1 /\ Len(named.called) = Len(named.texts)
    /\ \A j \in DOMAIN named.texts : named.texts[j] < TapeLen(tape)

NamesInv ==
    /\ \A i \in DOMAIN stem : OnTape(stem[i])
    /\ \A kind \in Kinds : \A i \in DOMAIN tables[kind] : OnTape(tables[kind][i])

\* Rows are in nodes of the part, and were read in nodes of the part.
NodesInv ==
    \A kind \in Kinds : \A i \in DOMAIN tables[kind] :
        LET row == tables[kind][i] IN
        /\ row.parent \in 0 .. LastNode
        /\ row.meta # Unread => row.meta[1].directory \in Seq(1 .. LastNode)

\* Directories open down to the last of some nodes, one below the other.
Chain(directories, way) ==
    /\ way \in Seq(1 .. LastNode)
    /\ directories \in Seq(Seq(Nat))
    /\ Len(directories) = Len(way) + 1
    /\ \A i \in 1 .. Len(directories) : directories[i] = SubSeq(way, 1, i - 1)
    /\ \A i \in 1 .. Len(way) : Above(way[i]) = IF i = 1 THEN 0 ELSE way[i - 1]

ChainInv == pc \in {"read", "ok"} => Chain(open, nodes)

\* Nothing is read while the part is built, and no row is read before its turn.
TurnsInv ==
    /\ pc = "build" => nodes = <<>> /\ open = <<>> /\ failed = 0
                        /\ \A kind \in Kinds : index[kind] = 0
    /\ \A kind \in Kinds : index[kind] <= Len(tables[kind])
    /\ pc \in {"build", "read"} =>
        \A kind \in Kinds : \A i \in index[kind] + 1 .. Len(tables[kind]) :
            tables[kind][i].meta = Unread

IInv == TypeOK /\ TapeInv /\ NamesInv /\ NodesInv /\ ChainInv /\ TurnsInv
=============================================================================
