---------------------------- MODULE ManifestFile ----------------------------
(***************************************************************************)
(* A manifest as one file: write_file and ManifestFile of src/file.rs with *)
(* the zstd format of src/zstd.rs, as the command line writes it.  Writing *)
(* may fail or the process may die at any byte; a whole file may be        *)
(* damaged later.  Reading is by operators, as it changes nothing.         *)
(*                                                                         *)
(* A file is a sequence of cells.  A cell is one field of the seek table,  *)
(* whatever its width, or one byte of a frame.  A frame is known by its    *)
(* number and holds the line of that number: parts from 1, then the index. *)
(* The skip counts of the index are left out: nothing is looked up by them. *)
(* No byte of a frame reads as one of the magic numbers.                   *)
(***************************************************************************)
EXTENDS Integers, Sequences, SequencesExt

CONSTANTS
    MaxU32,      \* the largest number a field holds
    MaxRaw,      \* MAX_RAW: the longest line that is decoded
    Lens,        \* lengths of encoded frames
    RawLens,     \* lengths of lines, with the newline
    MaxParts     \* bound: parts of the walk

ASSUME FileAssumption ==
    /\ {MaxU32, MaxRaw, MaxParts} \subseteq Nat
    /\ Lens \subseteq Nat \ {0} /\ RawLens \subseteq Nat \ {0}

VARIABLES
    pc,        \* what write_file is at, or how the writing ended
    version,   \* FORMAT_VERSION of the build that writes
    sizes,     \* the sizes of the frames so far
    entries,   \* the entries of the parts in the index
    pending,   \* cells of the current write_all not yet taken
    out,       \* cells that went through Counting
    len,       \* Counting::len
    disk       \* what is found in the file afterwards

vars == <<pc, version, sizes, entries, pending, out, len, disk>>

-----------------------------------------------------------------------------
(* Cells, frames and the seek table.                                       *)

Byte(k, i) == <<"byte", k, i>>
Number(n) == <<"number", 0, n>>
Value(cell) == cell[3]

SeekTableMagic == 1000
SeekableMagic == 1001
HeadLen == 2
FooterLen == 3
EntryLen == 2
ChecksumLen == 1

\* Bit 7 of the descriptor, and bits 2 to 6.
Checksums(descriptor) == descriptor \div 128 = 1
Reserved(descriptor) == (descriptor \div 4) % 32

Frame(k, size) == [i \in 1 .. size.len |-> Byte(k, i)]

\* Mutant: the index has no row in the table.
RowsWithoutIndex(frames) == Front(frames)

\* The table has a row for every frame, the index too.
Rows(frames) == frames

SeekTable(frames) ==
    <<Number(SeekTableMagic), Number(Len(Rows(frames)) * EntryLen + FooterLen)>>
    \o FlattenSeq([i \in DOMAIN Rows(frames) |->
                      <<Number(frames[i].len), Number(frames[i].raw)>>])
    \o <<Number(Len(Rows(frames))), Number(0), Number(SeekableMagic)>>

FitsTable(frames) ==
    /\ Len(frames) * EntryLen + FooterLen <= MaxU32
    /\ \A i \in DOMAIN frames : frames[i].len <= MaxU32 /\ frames[i].raw <= MaxU32

-----------------------------------------------------------------------------
(* The index as JSON: an array per field of the entries.                   *)

FormatVersion == 1
Columns == {"first", "directories", "files", "symlinks"}

ToJson(index) ==
    [format_version |-> version,
     parts |-> [c \in Columns |-> [i \in DOMAIN index |-> index[i][c]]]]

\* A part's line is no index: it has neither a version nor these columns.
Document(k) ==
    IF k = Len(entries) + 1
    THEN ToJson(entries)
    ELSE [format_version |-> 0, parts |-> [c \in {} |-> <<>>]]

\* Mutant: the version is not looked at.
AnyVersion(document) == DOMAIN document.parts = Columns

Readable(document) ==
    /\ document.format_version = FormatVersion
    /\ DOMAIN document.parts = Columns
    /\ \A c \in Columns : Len(document.parts[c]) = Len(document.parts["first"])

Refused == [ok |-> FALSE]

FromJson(document) ==
    IF ~Readable(document)
    THEN Refused
    ELSE [ok |-> TRUE,
          index |-> [i \in DOMAIN document.parts["first"] |->
                        [c \in Columns |-> document.parts[c][i]]]]

-----------------------------------------------------------------------------
(* Reading.                                                                *)

\* `bytes` are frame k, undamaged, and nothing else.
IsWhole(k, bytes) == bytes = Frame(k, sizes[k])

\* Mutant: without a checksum a damaged frame decodes to another line, 0.
DecodeUnchecked(bytes) ==
    LET named == {k \in DOMAIN sizes :
                    Len(bytes) = sizes[k].len /\ bytes[1] = Byte(k, 1) /\ sizes[k].raw <= MaxRaw}
        k == CHOOSE n \in named : TRUE
    IN IF named = {} THEN Refused
       ELSE [ok |-> TRUE, line |-> IF IsWhole(k, bytes) THEN k ELSE 0, raw |-> sizes[k].raw]

\* Zstd::decode and decode_line: the checksum lets only whole frames through,
\* and only such as declare no more than MAX_RAW.
Decode(bytes) ==
    LET whole == {k \in DOMAIN sizes : IsWhole(k, bytes) /\ sizes[k].raw <= MaxRaw}
        k == CHOOSE n \in whole : TRUE
    IN IF whole = {} THEN Refused ELSE [ok |-> TRUE, line |-> k, raw |-> sizes[k].raw]

\* Where each frame ends when they follow each other, and 0 before the first.
Ends(lens) ==
    LET end[i \in 0 .. Len(lens)] == IF i = 0 THEN 0 ELSE end[i - 1] + lens[i]
    IN end

\* Zstd::locate: from the footer back to the table, then the table in order.
Locate(bytes) ==
    LET footer == Len(bytes) - FooterLen
        descriptor == Value(bytes[footer + 2])
        entry == IF Checksums(descriptor) THEN EntryLen + ChecksumLen ELSE EntryLen
        count == Value(bytes[footer + 1])
        table == footer - count * entry - HeadLen
        Field(i, n) == Value(bytes[table + HeadLen + (i - 1) * entry + n])
        end == Ends([i \in 1 .. count |-> Field(i, 1)])
    IN IF /\ footer >= 0
          /\ Value(bytes[Len(bytes)]) = SeekableMagic
          /\ Reserved(descriptor) = 0
          /\ table >= 0
          /\ Value(bytes[table + 1]) = SeekTableMagic
          /\ Value(bytes[table + 2]) = Len(bytes) - table - HeadLen
          /\ \A i \in 1 .. count : end[i] <= table
          /\ end[count] = table
       THEN [ok |-> TRUE,
             spans |-> [i \in 1 .. count |->
                [start |-> end[i - 1], len |-> Field(i, 1), raw |-> Field(i, 2)]]]
       ELSE Refused

Slice(bytes, span) == SubSeq(bytes, span.start + 1, span.start + span.len)

DecodeIndex(bytes) ==
    LET decoded == Decode(bytes)
    IN IF decoded.ok THEN FromJson(Document(decoded.line)) ELSE Refused

\* Mutant: every frame is decoded, not the index only.
InsideAndDecodes(span, bytes) ==
    span.start + span.len <= Len(bytes) /\ Decode(Slice(bytes, span)).ok

Inside(span, bytes) == span.start + span.len <= Len(bytes)

\* ManifestFile::parse.
Parse(bytes) ==
    LET located == Locate(bytes)
        last == Last(located.spans)
        index == DecodeIndex(Slice(bytes, last))
    IN IF /\ located.ok
          /\ \A i \in DOMAIN located.spans : Inside(located.spans[i], bytes)
          /\ located.spans # <<>>
          /\ index.ok
          /\ Len(index.index) = Len(located.spans) - 1
       THEN [ok |-> TRUE, index |-> index.index, frames |-> located.spans]
       ELSE Refused

\* ManifestFile::part_json.
PartJson(file, bytes, k) ==
    LET span == file.frames[k]
        decoded == Decode(Slice(bytes, span))
    IN IF /\ k <= Len(file.index)
          /\ decoded.ok
          /\ span.raw = decoded.raw
       THEN decoded
       ELSE Refused

-----------------------------------------------------------------------------
(* Writing.                                                                *)

\* File::create leaves nothing of an earlier file.
Init ==
    /\ pc = "frames"
    /\ version \in {FormatVersion, FormatVersion + 1}
    /\ sizes = <<>> /\ entries = <<>>
    /\ pending = <<>> /\ out = <<>> /\ len = 0
    /\ disk = <<>>

\* The sink of write_frames.
Sink(size) ==
    /\ pending = <<>>
    /\ sizes' = Append(sizes, size)
    /\ pending' = Frame(Len(sizes'), size)

\* An entry whose fields all differ.
Entry(k) == [first |-> k, directories |-> k + 1, files |-> k + 2, symlinks |-> k + 3]

PartFrame ==
    /\ pc = "frames" /\ Len(entries) < MaxParts
    /\ \E l \in Lens, r \in RawLens : Sink([len |-> l, raw |-> r])
    /\ entries' = Append(entries, Entry(Len(sizes')))
    /\ UNCHANGED <<pc, version, out, len, disk>>

IndexFrame ==
    /\ pc = "frames"
    /\ \E l \in Lens, r \in RawLens : Sink([len |-> l, raw |-> r])
    /\ pc' = "trailer"
    /\ UNCHANGED <<version, entries, out, len, disk>>

Count(n) == len' = len + n

\* Counting::write, as write_all calls it: some of what is left is taken.
Write ==
    /\ pending # <<>>
    /\ \E n \in 1 .. Len(pending) :
        /\ out' = out \o SubSeq(pending, 1, n)
        /\ Count(n)
        /\ pending' = SubSeq(pending, n + 1, Len(pending))
    /\ UNCHANGED <<pc, version, sizes, entries, disk>>

Trailer ==
    /\ pc = "trailer" /\ pending = <<>>
    /\ FitsTable(sizes)
    /\ pending' = SeekTable(sizes)
    /\ pc' = "flush"
    /\ UNCHANGED <<version, sizes, entries, out, len, disk>>

Flush ==
    /\ pc = "flush" /\ pending = <<>>
    /\ pc' = "ok"
    /\ disk' = out
    /\ UNCHANGED <<version, sizes, entries, pending, out, len>>

\* The writer ends early.  What it wrote is in the file or still in the
\* BufWriter, whose own flush at the end may fail too.
Stops ==
    /\ pc' = "failed"
    /\ pending' = <<>>
    /\ \E n \in 0 .. Len(out) : disk' = SubSeq(out, 1, n)
    /\ UNCHANGED <<version, sizes, entries, out, len>>

TrailerTooLarge == pc = "trailer" /\ pending = <<>> /\ ~FitsTable(sizes) /\ Stops
FramesFail == pc = "frames" /\ pending = <<>> /\ Stops
WriteFails == pending # <<>> /\ Stops
FlushFails == pc = "flush" /\ pending = <<>> /\ Stops
Killed == pc \in {"frames", "trailer", "flush"} /\ Stops

\* One cell of a whole file changes.
Damage ==
    /\ pc = "ok"
    /\ \E i \in DOMAIN disk, n \in (0 .. 4) \cup {128, SeekTableMagic, SeekableMagic} :
        /\ disk[i] # Number(n)
        /\ disk' = [disk EXCEPT ![i] = Number(n)]
    /\ pc' = "damaged"
    /\ UNCHANGED <<version, sizes, entries, pending, out, len>>

Next ==
    \/ PartFrame \/ IndexFrame \/ Write \/ Trailer \/ Flush
    \/ TrailerTooLarge \/ FramesFail \/ WriteFails \/ FlushFails \/ Killed
    \/ Damage

Spec == Init /\ [][Next]_vars

-----------------------------------------------------------------------------
(* Properties.                                                             *)

Decodable == \A i \in DOMAIN sizes : sizes[i].raw <= MaxRaw

WholeFile ==
    FlattenSeq([k \in DOMAIN sizes |-> Frame(k, sizes[k])]) \o SeekTable(sizes)

\* A file of this version, whose lines are all short enough to be decoded,
\* reads back after write_file has returned: the index it returned, of as many
\* bytes as it said, and every part's own line (file.rs, "How a read works").
WrittenReadsBack ==
    pc = "ok" /\ version = FormatVersion /\ Decodable =>
        LET file == Parse(disk)
        IN /\ file.ok
           /\ file.index = entries
           /\ len = Len(disk)
           /\ \A k \in DOMAIN entries :
                LET part == PartJson(file, disk, k) IN part.ok /\ part.line = k

\* What a failed or killed write leaves, and what another version wrote, is
\* never taken for a manifest: only the whole of a file of this version is.
OnlyWholeFilesAreRead ==
    pc # "damaged" /\ Parse(disk).ok => disk = WholeFile /\ version = FormatVersion

\* Damage to a whole file is refused, or changes nothing that is read: the
\* index and each part are as written or not read at all (tests/zstd.rs,
\* damage_anywhere_is_refused_rather_than_misread).
DamageNeverMisread ==
    pc = "damaged" =>
        LET file == Parse(disk)
        IN file.ok =>
            /\ file.index = entries
            /\ \A k \in DOMAIN entries :
                LET part == PartJson(file, disk, k) IN part.ok => part.line = k

\* Damage inside the frame of one part costs that part only: the index and
\* every other part are still read.
DamageStaysInItsPart ==
    pc = "damaged" /\ version = FormatVersion /\ Decodable =>
        LET spans == Locate(out).spans
            Intact(k) == Slice(disk, spans[k]) = Slice(out, spans[k])
            tableAt == Last(spans).start + Last(spans).len
            file == Parse(disk)
        IN Intact(Len(spans)) /\ SubSeq(disk, tableAt + 1, len) = SubSeq(out, tableAt + 1, len) =>
            /\ file.ok
            /\ \A k \in DOMAIN entries : Intact(k) => PartJson(file, disk, k).ok

\* "The most bytes one frame may decompress to: 1 GiB" (zstd.rs): every frame
\* of a file that write_file wrote is read back.
WrittenFramesDecode ==
    pc = "ok" /\ version = FormatVersion =>
        LET file == Parse(disk)
        IN file.ok /\ \A k \in DOMAIN entries : PartJson(file, disk, k).ok
=============================================================================
