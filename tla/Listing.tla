------------------------------ MODULE Listing ------------------------------
(***************************************************************************)
(* Listing one directory after the other: Directory::list of the three     *)
(* readers of src/walk/reader/, the Listing of src/walk/reader.rs that     *)
(* they fill, sort and search, and tarseer-nt below the Windows reader.    *)
(* The buffers of a listing serve the next one.                            *)
(*                                                                         *)
(* A name is a sequence of bytes, as the reader lists it; on Windows one   *)
(* stands for a UTF-16 unit.                                               *)
(***************************************************************************)
EXTENDS Integers, Sequences, SequencesExt

CONSTANTS
    Entries,         \* what a directory may hold: a name and a type
    Wanted,          \* names that a filter looks for
    PrefixLen,       \* bytes of a name in Listed::prefix, 8 in the code
    MaxNames,        \* the bytes of names that 32-bit offsets can address
    BufferLen,       \* cells of the buffer that the Windows reader fills
    MaxEntries,      \* bound: entries of a directory
    MaxDirectories,  \* bound: directories listed
    MaxFailures      \* bound: entries of one listing that cannot be read

ASSUME ListingAssumption ==
    /\ {PrefixLen, BufferLen} \subseteq Nat \ {0}
    /\ {MaxNames, MaxEntries, MaxDirectories, MaxFailures} \subseteq Nat

VARIABLES
    reader,    \* the platform's
    pc,        \* what Directory::list is at
    content,   \* the directory's entries
    left,      \* entries that the system has not given yet
    listing,   \* the Listing, while it is read and then used
    spare,     \* Scratch::spare
    buffer,    \* Buffer: records of this call and of earlier ones
    written,   \* what the call says it wrote
    at,        \* where records reads
    restart,   \* the next call starts the listing over
    honest,    \* the system wrote only whole chains, of the length it says
    listed     \* directories listed so far

listVars == <<reader, pc, content, left, listing, spare,
              buffer, written, at, restart, honest, listed>>

-----------------------------------------------------------------------------
(* Names.                                                                  *)

Dot == 1
Replacement == 8     \* U+FFFD
Bad == 9             \* not UTF-8, or a surrogate without its other half

Dots == {[name |-> <<Dot>>, type |-> "directory"], [name |-> <<Dot, Dot>>, type |-> "directory"]}

Byte == 1 .. 255

\* No directory holds an entry of its own that is called as one of the dots.
ASSUME NamesAssumption ==
    /\ IsFiniteSet(Entries)
    /\ \A e \in Entries : e.name \in Seq(Byte) /\ e \notin Dots
    /\ Wanted \subseteq Seq(Byte)

IsText(name) == \A i \in DOMAIN name : name[i] # Bad

Lossy(name) == [i \in DOMAIN name |-> IF name[i] = Bad THEN Replacement ELSE name[i]]

\* The order of byte strings.
Before(a, b) ==
    \E n \in 0 .. Len(a) :
        /\ n < Len(b) /\ SubSeq(a, 1, n) = SubSeq(b, 1, n)
        /\ n < Len(a) => a[n + 1] < b[n + 1]

\* Mutant: the bytes make an integer in the order of a little-endian machine.
LittleEndian(bytes) == FoldRight(LAMBDA byte, n : 256 * n + byte, bytes, 0)

BigEndian(bytes) ==
    LET number[n \in 0 .. Len(bytes)] ==
            IF n = 0 THEN 0 ELSE 256 * number[n - 1] + bytes[n]
    IN  number[Len(bytes)]

Prefix(name) ==
    BigEndian([i \in 1 .. PrefixLen |-> IF i \in DOMAIN name THEN name[i] ELSE 0])

-----------------------------------------------------------------------------
(* Kinds.                                                                  *)

\* The attributes of each type on Windows, and whether its tag is that of a
\* link: "other" is a cloud file there, and elsewhere a socket or a device.
Attributes(type) ==
    CASE type = "file" -> {}
      [] type = "directory" -> {"directory"}
      [] type = "link" -> {"reparse", "surrogate"}
      [] type = "other" -> {"reparse"}

KindOf(type) ==
    IF reader = "windows"
    THEN IF {"reparse", "surrogate"} \subseteq Attributes(type) THEN "Symlink"
         ELSE IF "directory" \in Attributes(type) THEN "Directory" ELSE "File"
    ELSE CASE type = "file" -> "File"
           [] type = "directory" -> "Directory"
           [] type = "link" -> "Symlink"
           [] OTHER -> "Special"

ListedKind(e) == IF reader # "linux" /\ ~IsText(e.name) THEN "NonUtf8" ELSE KindOf(e.type)

ListedName(e) == IF reader = "linux" THEN e.name ELSE Lossy(e.name)

-----------------------------------------------------------------------------
(* The listing.                                                            *)

NoBuffers == [entries |-> <<>>, names |-> <<>>]

\* Listing::from_spare: new records of what is held and of failures.
FromSpare(buffers) ==
    [entries |-> buffers.entries, names |-> buffers.names, held |-> <<>>, failures |-> <<>>]

\* Mutant: the buffers are given up as they are.
IntoSpareFull(l) == [entries |-> l.entries, names |-> l.names]

IntoSpare(l) == NoBuffers

\* Listed::new refuses a name whose end is past a 32-bit offset.
TooLarge(e) == Len(listing.names) + Len(ListedName(e)) + 1 > MaxNames

\* The linux reader holds nothing.
Slot == IF reader = "linux" THEN 0 ELSE Len(listing.held)

\* Listed::new; `of` is history, the entry that is meant.
NewListed(e) ==
    [prefix |-> Prefix(ListedName(e)), start |-> Len(listing.names),
     len |-> Len(ListedName(e)), kind |-> ListedKind(e), slot |-> Slot, of |-> e]

Push(e) ==
    listing' = [listing EXCEPT
        !.entries = Append(@, NewListed(e)),
        !.names = @ \o Append(ListedName(e), 0),
        !.held = IF reader = "linux" THEN @ ELSE Append(@, e)]

\* "larger" is the error of a listing larger than 4 GiB.
Fail(name, what) ==
    listing' = [listing EXCEPT !.failures = Append(@, [name |-> name, what |-> what])]

HasFailed(name, what) ==
    \E i \in DOMAIN listing.failures : listing.failures[i] = [name |-> name, what |-> what]

\* Listed::name.
NameOf(entry) == SubSeq(listing.names, entry.start + 1, entry.start + entry.len)

\* Listing::sort: by the prefixes, then names with one prefix among themselves.
\* Names that are equal come in any order.
InOrder(a, b) ==
    \/ a.prefix < b.prefix
    \/ a.prefix = b.prefix /\ ~Before(NameOf(b), NameOf(a))

Sorted(entries) == \A i, j \in DOMAIN entries : i < j => InOrder(entries[i], entries[j])

Permuted(entries) ==
    {[i \in DOMAIN entries |-> entries[order[i]]] : order \in SetToSeqs(DOMAIN entries)}

\* Listing::find, a binary search that may probe anywhere: the places that it
\* may return, 0 for none.
Found(name) ==
    LET entries == listing.entries
        n == Len(entries)
        IsAbove(i) ==
            \/ entries[i].prefix > Prefix(name)
            \/ entries[i].prefix = Prefix(name) /\ Before(name, NameOf(entries[i]))
        IsHere(i) == entries[i].prefix = Prefix(name) /\ NameOf(entries[i]) = name
        found[range \in (1 .. n + 1) \X (0 .. n)] ==
            IF range[1] > range[2] THEN {0}
            ELSE UNION {IF IsHere(i) THEN {i}
                        ELSE IF IsAbove(i) THEN found[<<range[1], i - 1>>]
                        ELSE found[<<i + 1, range[2]>>]
                        : i \in range[1] .. range[2]}
    IN found[<<1, n>>]

-----------------------------------------------------------------------------
(* Reading entry by entry: the linux and the portable reader.              *)

Contents ==
    {c \in SUBSET Entries :
        /\ Cardinality(c) <= MaxEntries
        /\ \A e, f \in c : e.name = f.name => e = f}

ListInit ==
    /\ reader \in {"linux", "portable", "windows"}
    /\ pc = "idle" /\ listed = 0
    /\ content = {} /\ left = {}
    /\ listing = FromSpare(NoBuffers) /\ spare = NoBuffers
    /\ buffer = <<>> /\ written = 0 /\ at = 0
    /\ restart = TRUE /\ honest = TRUE

\* std's read_dir leaves `.` and `..` out.
Begin ==
    /\ pc = "idle" /\ listed < MaxDirectories
    /\ pc' = "list" /\ listed' = listed + 1
    /\ content' \in Contents
    /\ left' = IF reader = "portable" THEN content' ELSE content' \cup Dots
    /\ listing' = FromSpare(spare) /\ spare' = NoBuffers
    /\ restart' = TRUE /\ honest' = TRUE
    /\ UNCHANGED <<reader, buffer, written, at>>

windowsVars == <<buffer, written, at, restart, honest>>

ByEntry == pc = "list" /\ reader \in {"linux", "portable"}

Entry ==
    /\ ByEntry
    /\ \E e \in left :
        /\ left' = left \ {e}
        /\ \/ e \in Dots /\ UNCHANGED <<pc, listing>>
           \/ e \notin Dots /\ ~TooLarge(e) /\ Push(e) /\ UNCHANGED pc
           \/ e \notin Dots /\ TooLarge(e) /\ Fail(<<>>, "larger") /\ pc' = "sort"
    /\ UNCHANGED <<reader, content, spare, windowsVars, listed>>

\* linux gives up, portable goes on.
EntryFails ==
    /\ ByEntry /\ Len(listing.failures) < MaxFailures
    /\ Fail(<<>>, "listing")
    /\ pc' = IF reader = "linux" THEN "sort" ELSE pc
    /\ UNCHANGED <<reader, content, left, spare, windowsVars, listed>>

KindFails ==
    /\ ByEntry /\ reader = "portable" /\ Len(listing.failures) < MaxFailures
    /\ \E e \in left : left' = left \ {e} /\ Fail(Lossy(e.name), "kind")
    /\ UNCHANGED <<reader, pc, content, spare, windowsVars, listed>>

\* std's iterator may end after an error.
EntriesEnd ==
    /\ ByEntry
    /\ left = {} \/ (reader = "portable" /\ HasFailed(<<>>, "listing"))
    /\ pc' = "sort"
    /\ UNCHANGED <<reader, content, left, listing, spare, windowsVars, listed>>

\* The listing goes out of scope.
Dropped ==
    /\ pc' = "idle"
    /\ listing' = FromSpare(NoBuffers)
    /\ content' = {} /\ left' = {}

\* read_dir fails: there is no listing, and its buffers are gone.
Refused ==
    /\ ByEntry /\ reader = "portable" /\ left = content /\ listing.failures = <<>>
    /\ Dropped
    /\ UNCHANGED <<reader, spare, windowsVars, listed>>

-----------------------------------------------------------------------------
(* Reading by calls that fill a buffer: tarseer-nt.                        *)

\* The records of a batch.  A record is two cells: the fixed part, with the
\* offset of the next record, which is `end` in the last one, and then the name.
Chain(batch, end) ==
    [c \in 1 .. 2 * Len(batch) |->
        [entry |-> batch[(c + 1) \div 2],
         next |-> IF c % 2 = 0 THEN 0 ELSE IF c + 1 = 2 * Len(batch) THEN end ELSE 2]]

\* A call overwrites the start of the buffer only.
Overwritten(chain) == chain \o SubSeq(buffer, Len(chain) + 1, Len(buffer))

Given == IF restart THEN content \cup Dots ELSE left

Batches ==
    UNION {SetToSeqs(some) : some \in {s \in SUBSET Given : s # {} /\ 2 * Cardinality(s) <= BufferLen}}

\* NtQueryDirectoryFile succeeds.  A driver may say that it wrote less or more
\* than it did, or not end its chain.
Call ==
    /\ pc = "list" /\ reader = "windows" /\ Given # {}
    /\ \E batch \in Batches :
        /\ left' = Given \ ToSet(batch)
        /\ \/ /\ buffer' = Overwritten(Chain(batch, 0))
              /\ \E length \in 0 .. BufferLen + 1 :
                    /\ written' = length
                    /\ honest' = (honest /\ length = 2 * Len(batch))
           \/ /\ buffer' = Overwritten(Chain(batch, 2))
              /\ written' = 2 * Len(batch) /\ honest' = FALSE
    /\ restart' = FALSE
    /\ pc' = "records" /\ at' = 0
    /\ UNCHANGED <<reader, content, listing, spare, listed>>

\* Mutant: all of the buffer is read.
WholeBuffer == buffer

Data == SubSeq(buffer, 1, IF written <= Len(buffer) THEN written ELSE Len(buffer))

\* The fixed part and the name of the record at `at` are inside the data.
RecordFits == at + 2 <= Len(Data)

CallDone(next) == pc' = next /\ at' = 0 /\ written' = 0

ReadRecord ==
    LET record == Data[at + 1]
        e == record.entry
    IN
    /\ pc = "records" /\ RecordFits
    /\ \/ /\ e \in Dots \/ ~TooLarge(e)
          /\ IF e \in Dots THEN UNCHANGED listing ELSE Push(e)
          /\ IF record.next = 0 THEN CallDone("list")
             ELSE at' = at + record.next /\ UNCHANGED <<pc, written>>
       \/ /\ e \notin Dots /\ TooLarge(e)
          /\ Fail(<<>>, "larger")
          /\ CallDone("sort")
    /\ UNCHANGED <<reader, content, left, spare, buffer, restart, honest, listed>>

\* The chain leaves the data.
RecordsEnd ==
    /\ pc = "records" /\ ~RecordFits
    /\ CallDone("list")
    /\ UNCHANGED <<reader, content, left, listing, spare, buffer, restart, honest, listed>>

\* STATUS_NO_MORE_FILES, or STATUS_NO_SUCH_FILE.
NoMoreFiles ==
    /\ pc = "list" /\ reader = "windows" /\ Given = {}
    /\ pc' = "sort"
    /\ UNCHANGED <<reader, content, left, listing, spare, windowsVars, listed>>

CallFails ==
    /\ pc = "list" /\ reader = "windows"
    /\ Fail(<<>>, "listing")
    /\ pc' = "sort"
    /\ UNCHANGED <<reader, content, left, spare, windowsVars, listed>>

-----------------------------------------------------------------------------

Sort ==
    /\ pc = "sort"
    /\ \E sorted \in Permuted(listing.entries) :
        /\ Sorted(sorted)
        /\ listing' = [listing EXCEPT !.entries = sorted]
    /\ pc' = "listed"
    /\ UNCHANGED <<reader, content, left, spare, windowsVars, listed>>

\* The entries have been visited, here or by other scans.
Visited ==
    /\ pc = "listed"
    /\ Dropped
    /\ spare' = IntoSpare(listing)
    /\ UNCHANGED <<reader, windowsVars, listed>>

List ==
    \/ Begin \/ Entry \/ EntryFails \/ KindFails \/ EntriesEnd \/ Refused
    \/ Call \/ ReadRecord \/ RecordsEnd \/ NoMoreFiles \/ CallFails
    \/ Sort

-----------------------------------------------------------------------------
(* Properties of a listing that has been read.                             *)

Places == DOMAIN listing.entries

\* Every entry listed is one of this directory, once, with its own name and
\* kind, and its slot leads to what the system said of it (Listed::slot): nothing
\* comes from the buffers' earlier contents.
EntriesAreOwn ==
    pc = "listed" =>
        /\ \A i \in Places :
            LET entry == listing.entries[i] IN
            /\ entry.of \in content
            /\ NameOf(entry) = ListedName(entry.of) /\ entry.kind = ListedKind(entry.of)
            /\ reader # "linux" => listing.held[entry.slot + 1] = entry.of
        /\ \A i, j \in Places : listing.entries[i].of = listing.entries[j].of => i = j

\* The bytes of the names of entries, each with the one after it.
BytesOf(some) == UNION {{e} \X (0 .. Len(e.name)) : e \in some}

AllNames == Cardinality(BytesOf(content))

\* An entry is left out only with a failure to show for it, and one that the
\* system gave before a failed read is listed (tarseer-nt, "each has then seen
\* the entries that were read before it"), as far as the system says what it
\* wrote.  Only the names of this directory count against the limit.
ListedOrFailed ==
    pc = "listed" =>
        /\ HasFailed(<<>>, "larger") => AllNames > MaxNames
        /\ honest /\ ~HasFailed(<<>>, "larger") =>
            \A e \in content :
                \/ \E i \in Places : listing.entries[i].of = e
                \/ HasFailed(Lossy(e.name), "kind")
                \/ e \in left /\ HasFailed(<<>>, "listing")

\* The entries are in the order of their names' bytes, and a search finds a name
\* exactly if it is listed, however many names begin alike.
SortedAndFound ==
    pc = "listed" =>
        /\ \A i, j \in Places : i < j => ~Before(NameOf(listing.entries[j]), NameOf(listing.entries[i]))
        /\ \A name \in Wanted : \A i \in Found(name) :
            IF i = 0
            THEN \A j \in Places : NameOf(listing.entries[j]) # name
            ELSE NameOf(listing.entries[i]) = name

\* walk.rs, Listing::contains: "Returns `true` if the directory holds an entry
\* named `name`."  A lossy copy of another name may be equal to it.
ContainsWhatIsHeld ==
    pc = "listed" =>
        \A name \in Wanted : \A i \in Found(name) :
            (\E j \in Places : listing.entries[j].of.name = name)
                => i # 0 /\ listing.entries[i].kind # "NonUtf8"
=============================================================================
