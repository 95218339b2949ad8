----------------------------- MODULE PartTables -----------------------------
(***************************************************************************)
(* A part as it is filled: TreePart of src/manifest/part.rs with its       *)
(* StrTape, src/tape.rs.  A row holds the node of its directory and the    *)
(* index of its name on the tape; node 0 is the root of the walk, then     *)
(* come the stem and the part's own directories.                           *)
(*                                                                         *)
(* A push is refused when the tape is full, and the part may be used after *)
(* that, as its methods are public.                                        *)
(***************************************************************************)
EXTENDS Integers, Sequences

CONSTANTS
    Bytes,     \* what text is made of
    Texts,     \* names and link targets
    MaxText,   \* the bytes that 32-bit offsets can address
    MaxStem,   \* bound: components of the stem
    MaxRows    \* bound: rows of the part

ASSUME PartAssumption ==
    /\ Texts \subseteq Seq(Bytes)
    /\ {MaxText, MaxStem, MaxRows} \subseteq Nat

VARIABLES
    tape,      \* TreePart::text
    stem,      \* text indexes of the stem, outermost first
    tables     \* the rows of each kind

partVars == <<tape, stem, tables>>

Kinds == {"directories", "files", "symlinks"}

-----------------------------------------------------------------------------
(* The tape.  Indexes count from 0.                                        *)

EmptyTape == [arena |-> <<>>, offsets |-> <<0>>]

TapeLen(t) == Len(t.offsets) - 1

Fits(t, text) == Len(t.arena) + Len(text) <= MaxText

\* Mutant: the offset of the start is pushed, not that of the end.
PushStart(t, text) ==
    [arena |-> t.arena \o text, offsets |-> Append(t.offsets, Len(t.arena))]

\* StrTape::push, when the text fits.
Push(t, text) ==
    [arena |-> t.arena \o text,
     offsets |-> Append(t.offsets, Len(t.arena) + Len(text))]

Get(t, i) == SubSeq(t.arena, t.offsets[i + 1] + 1, t.offsets[i + 2])

-----------------------------------------------------------------------------
(* Nodes.                                                                  *)

Directories == tables["directories"]

LastNode == Len(stem) + Len(Directories)

\* TreePart::node: the node above a node.
Above(node) ==
    IF node <= Len(stem) THEN node - 1 ELSE Directories[node - Len(stem)].parent

-----------------------------------------------------------------------------
(* Filling a part.                                                         *)

\* A component of the stem, or the text of a row: the indexes on the tape, and
\* as history the texts that were pushed.
Named(t, called) ==
    [texts |-> [i \in DOMAIN called |-> TapeLen(t) + i - 1], called |-> called]

\* No metadata has been read yet.
Unread == <<>>

Row(parent, t, called) ==
    [parent |-> parent, texts |-> Named(t, called).texts, called |-> called,
     meta |-> Unread]

PartInit ==
    /\ tape = EmptyTape
    /\ stem = <<>>
    /\ tables = [kind \in Kinds |-> <<>>]

\* push_stem may only be called before the first directory row.
PushStem(text) ==
    /\ Directories = <<>>
    /\ Fits(tape, text)
    /\ stem' = Append(stem, Named(tape, <<text>>))
    /\ tape' = Push(tape, text)
    /\ UNCHANGED tables

\* push_directory and push_file.
PushRow(kind, parent, text) ==
    /\ Fits(tape, text)
    /\ tables' = [tables EXCEPT ![kind] = Append(@, Row(parent, tape, <<text>>))]
    /\ tape' = Push(tape, text)
    /\ UNCHANGED stem

\* push_symlink: the name, then the target.
PushSymlink(parent, text, target) ==
    /\ Fits(tape, text) /\ Fits(Push(tape, text), target)
    /\ tables' = [tables EXCEPT !["symlinks"] = Append(@, Row(parent, tape, <<text, target>>))]
    /\ tape' = Push(Push(tape, text), target)
    /\ UNCHANGED stem

\* The target does not fit: the name stays on the tape, and no row names it.
SymlinkRefused(text, target) ==
    /\ Fits(tape, text) /\ ~Fits(Push(tape, text), target)
    /\ tape' = Push(tape, text)
    /\ UNCHANGED <<stem, tables>>
=============================================================================
