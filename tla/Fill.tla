-------------------------------- MODULE Fill --------------------------------
(***************************************************************************)
(* read_metadata of src/walk/fill.rs: the metadata that a walk left out is *)
(* read into the rows of a part later, each row relative to the directory  *)
(* that holds it.  The tree may have changed since the walk: every opening *)
(* and every reading may fail, at any time.                                *)
(*                                                                         *)
(* An open directory is the nodes that were opened one below the other to  *)
(* reach it from the root.                                                 *)
(***************************************************************************)
EXTENDS PartTables, FiniteSets

VARIABLES
    pc,        \* building the part, reading into it, or what was returned
    nodes,     \* Chain::nodes
    open,      \* Chain::open
    failed,    \* rows that could not be read
    index      \* rows of each kind that the loops are past

fillVars == <<pc, nodes, open, failed, index>>
vars == <<partVars, fillVars>>

Init ==
    /\ PartInit
    /\ pc = "build"
    /\ nodes = <<>> /\ open = <<>>
    /\ failed = 0
    /\ index = [kind \in Kinds |-> 0]

-----------------------------------------------------------------------------
(* The part.                                                               *)

Rows == Len(tables["directories"]) + Len(tables["files"]) + Len(tables["symlinks"])

\* A walk pushes a row into a node it has pushed.
Build ==
    /\ pc = "build"
    /\ \/ \E text \in Texts : Len(stem) < MaxStem /\ PushStem(text)
       \/ /\ Rows < MaxRows
          /\ \E parent \in 0 .. LastNode, text \in Texts :
                \/ \E kind \in {"directories", "files"} : PushRow(kind, parent, text)
                \/ \E target \in Texts : PushSymlink(parent, text, target)
       \/ \E text, target \in Texts : SymlinkRefused(text, target)
    /\ UNCHANGED fillVars

-----------------------------------------------------------------------------
(* Reading.                                                                *)

OpenRoot ==
    /\ pc = "build"
    /\ pc' = "read"
    /\ open' = << <<>> >>
    /\ UNCHANGED <<partVars, nodes, failed, index>>

RootFails ==
    /\ pc = "build"
    /\ pc' = "error"
    /\ UNCHANGED <<partVars, nodes, open, failed, index>>

\* The rows of one table after the other, directories first.
Reading(kind) ==
    /\ pc = "read"
    /\ index[kind] < Len(tables[kind])
    /\ kind # "directories" => index["directories"] = Len(tables["directories"])
    /\ kind = "symlinks" => index["files"] = Len(tables["files"])

Current(kind) == tables[kind][index[kind] + 1]

\* The nodes from the root down to `node`, following part.node up.
IsWayTo(way, node) ==
    /\ \A i \in DOMAIN way : Above(way[i]) = IF i = 1 THEN 0 ELSE way[i - 1]
    /\ node = IF way = <<>> THEN 0 ELSE way[Len(way)]

Ways == UNION {[1 .. n -> 1 .. LastNode] : n \in 0 .. LastNode}

\* How far the open directories are those of the way.
IsCommon(n, way) ==
    /\ n <= Len(nodes) /\ n <= Len(way)
    /\ \A i \in 1 .. n : nodes[i] = way[i]
    /\ n < Len(nodes) /\ n < Len(way) => nodes[n + 1] # way[n + 1]

\* Mutant: the directories stay open when the nodes are cut back.
KeptOpen(n) == open

Kept(n) == SubSeq(open, 1, n + 1)

\* Mutant: a node is noted before its directory is opened.
OpenedOrTried(way, reached) == SubSeq(way, 1, IF reached < Len(way) THEN reached + 1 ELSE reached)

Opened(way, reached) == SubSeq(way, 1, reached)

\* `reached` directories of the way are open after enter: all of them, or
\* those before the first that could not be opened.
Enter(way, reached) ==
    \E n \in 0 .. Len(nodes) :
        /\ IsCommon(n, way)
        /\ n <= reached
        /\ nodes' = Opened(way, reached)
        /\ open' = Kept(n) \o [i \in 1 .. reached - n |-> SubSeq(way, 1, n + i)]

Passed(kind) == index' = [index EXCEPT ![kind] = @ + 1]

\* The directory of the row is the last one open: chain.stat does not enter.
There(row) == row.parent = IF nodes = <<>> THEN 0 ELSE nodes[Len(nodes)]

SetMeta(kind, row, directory) ==
    tables' = [tables EXCEPT ![kind][index[kind] + 1].meta =
                  <<[directory |-> directory, name |-> row.texts[1]]>>]

ReadHere(kind) ==
    /\ Reading(kind) /\ There(Current(kind))
    /\ SetMeta(kind, Current(kind), open[Len(open)])
    /\ Passed(kind)
    /\ UNCHANGED <<tape, stem, pc, nodes, open, failed>>

ReadBelow(kind) ==
    LET row == Current(kind) IN
    /\ Reading(kind) /\ ~There(row)
    /\ \E way \in Ways :
        /\ IsWayTo(way, row.parent)
        /\ Enter(way, Len(way))
        /\ SetMeta(kind, row, open'[Len(open')])
    /\ Passed(kind)
    /\ UNCHANGED <<tape, stem, pc, failed>>

\* The directory is open, and the row cannot be read.
StatFails(kind) ==
    /\ Reading(kind)
    /\ \/ There(Current(kind)) /\ UNCHANGED <<nodes, open>>
       \/ /\ ~There(Current(kind))
          /\ \E way \in Ways : IsWayTo(way, Current(kind).parent) /\ Enter(way, Len(way))
    /\ failed' = failed + 1
    /\ Passed(kind)
    /\ UNCHANGED <<partVars, pc>>

\* Mutant: a row whose directory cannot be opened is not counted.
Uncounted == failed' = failed

Unreached == failed' = failed + 1

\* A directory on the way cannot be opened.
EnterFails(kind) ==
    /\ Reading(kind) /\ ~There(Current(kind))
    /\ \E way \in Ways :
        /\ IsWayTo(way, Current(kind).parent)
        /\ \E reached \in 0 .. Len(way) - 1 : Enter(way, reached)
    /\ Unreached
    /\ Passed(kind)
    /\ UNCHANGED <<partVars, pc>>

Return ==
    /\ pc = "read"
    /\ \A kind \in Kinds : index[kind] = Len(tables[kind])
    /\ pc' = "ok"
    /\ UNCHANGED <<partVars, nodes, open, failed, index>>

\* read_file_metadata, of a file that the caller has opened by its path: it may
\* be no regular file any more.
ReadOpenFile ==
    /\ pc = "ok"
    /\ \E i \in DOMAIN tables["files"], way \in Ways :
        LET row == tables["files"][i] IN
        /\ IsWayTo(way, row.parent)
        /\ tables' = [tables EXCEPT !["files"][i].meta =
                         <<[directory |-> way, name |-> row.texts[1]]>>]
    /\ UNCHANGED <<tape, stem, fillVars>>

Next ==
    \/ Build \/ OpenRoot \/ RootFails \/ Return \/ ReadOpenFile
    \/ \E kind \in Kinds :
        ReadHere(kind) \/ ReadBelow(kind) \/ StatFails(kind) \/ EnterFails(kind)

Spec == Init /\ [][Next]_vars

-----------------------------------------------------------------------------
(* Properties.                                                             *)

ComponentType == [texts : Seq(Nat), called : Seq(Texts)]

RowType ==
    [parent : Nat, texts : Seq(Nat), called : Seq(Texts),
     meta : Seq([directory : Seq(Nat), name : Nat])]

\* The values of the variables.
TypeOK ==
    /\ pc \in {"build", "read", "ok", "error"}
    /\ tape \in [arena : Seq(Bytes), offsets : Seq(Nat)]
    /\ stem \in Seq(ComponentType)
    /\ tables \in [Kinds -> Seq(RowType)]
    /\ nodes \in Seq(Nat) /\ open \in Seq(Seq(Nat))
    /\ failed \in Nat
    /\ index \in [Kinds -> Nat]

ReadsBack(named) ==
    \A j \in DOMAIN named.texts : Get(tape, named.texts[j]) = named.called[j]

\* Every name and target that the part holds reads back from the tape as it was
\* pushed, also after pushes that were refused (StrTape::push, TreePart::text).
TextsReadBack ==
    /\ \A i \in DOMAIN stem : ReadsBack(stem[i])
    /\ \A kind \in Kinds : \A i \in DOMAIN tables[kind] : ReadsBack(tables[kind][i])

\* What is read into a row was read under its own name in the directory that its
\* own path leads to, whatever could not be opened before (read_metadata, "each
\* row is read relative to its directory").
OwnMetadata ==
    \A kind \in Kinds : \A i \in DOMAIN tables[kind] :
        LET row == tables[kind][i] IN
        row.meta # Unread =>
            /\ IsWayTo(row.meta[1].directory, row.parent)
            /\ row.meta[1].name = row.texts[1]

UnreadRows(kind) == {i \in 1 .. index[kind] : tables[kind][i].meta = Unread}

\* read_metadata "returns how many rows could not be read": each row it is past
\* was read or counted once, and no row before its turn.
UnreadAreCounted ==
    pc = "read" =>
        /\ failed = Cardinality(UnreadRows("directories"))
                    + Cardinality(UnreadRows("files")) + Cardinality(UnreadRows("symlinks"))
        /\ \A kind \in Kinds : \A i \in index[kind] + 1 .. Len(tables[kind]) :
            tables[kind][i].meta = Unread
=============================================================================
