----------------------------- MODULE ListingInv -----------------------------
(***************************************************************************)
(* The inductive invariant of Listing: where each entry of a directory is  *)
(* while it is listed, and what the buffers hold of it.                    *)
(***************************************************************************)
EXTENDS Listing

\* The entries that are listed.
Of(entries) == {entries[i].of : i \in DOMAIN entries}

IsLarger == HasFailed(<<>>, "larger")

-----------------------------------------------------------------------------
(* Types.                                                                  *)

ListedType ==
    [prefix : Nat, start : Nat, len : Nat,
     kind : {"File", "Directory", "Symlink", "Special", "NonUtf8"}, slot : Nat, of : Entries]

ListingType ==
    [entries : Seq(ListedType), names : Seq(Nat), held : Seq(Entries),
     failures : Seq([name : Seq(Nat), what : {"listing", "kind", "larger"}])]

CellType == [entry : Entries \cup Dots, next : {0, 2}]

\* The types of Listing.
ListTypes ==
    /\ reader \in {"linux", "portable", "windows"}
    /\ pc \in {"idle", "list", "records", "sort", "listed"}
    /\ content \subseteq Entries
    /\ left \subseteq content \cup Dots
    /\ listing \in ListingType /\ spare = NoBuffers
    /\ buffer \in Seq(CellType) /\ written \in Nat /\ at \in Nat
    /\ restart \in BOOLEAN /\ honest \in BOOLEAN

-----------------------------------------------------------------------------
(* The listing.                                                            *)

\* An entry is listed as what it is, and its name is where it says.
IsListed(entry, names, held) ==
    /\ entry.of \in content
    /\ entry.len = Len(ListedName(entry.of))
    /\ entry.start + entry.len <= Len(names)
    /\ SubSeq(names, entry.start + 1, entry.start + entry.len) = ListedName(entry.of)
    /\ entry.prefix = Prefix(ListedName(entry.of))
    /\ entry.kind = ListedKind(entry.of)
    /\ reader # "linux" => entry.slot + 1 \in DOMAIN held /\ held[entry.slot + 1] = entry.of

\* Each entry that is listed is one of the directory's, once, and the names are
\* those of the entries listed.
EntriesInv ==
    /\ \A i \in DOMAIN listing.entries :
           IsListed(listing.entries[i], listing.names, listing.held)
    /\ \A i, j \in DOMAIN listing.entries :
           listing.entries[i].of = listing.entries[j].of => i = j
    /\ Len(listing.names) = Cardinality(BytesOf(Of(listing.entries)))

-----------------------------------------------------------------------------
(* Where the entries are.                                                  *)

\* What the call has written: a chain of n records, of which j have been read.
ChainIs(n, end, j) ==
    /\ 2 * n <= Len(buffer)
    /\ at = 2 * j
    /\ j \in 0 .. n
    /\ end = 0 => j < n
    /\ end = 2 => written = 2 * n
    /\ honest => end = 0 /\ written = 2 * n
    /\ \A i \in (j + 1) .. n :
           /\ buffer[2 * i - 1].entry \in content \cup Dots
           /\ buffer[2 * i - 1].next = IF i = n THEN end ELSE 2
    /\ \A i, k \in (j + 1) .. n :
           buffer[2 * i - 1].entry = buffer[2 * k - 1].entry => i = k

\* The entries of the records that are still to be read.
Ahead(n, j) == {buffer[2 * i - 1].entry : i \in (j + 1) .. n}

\* Given and listed, in the buffer, or not given yet: no entry is in two places,
\* and none is lost unless a failure says so or the system did not say what it
\* wrote.
Accounted(ahead) ==
    /\ left \cap ahead = {}
    /\ (left \cup ahead) \cap Of(listing.entries) = {}
    /\ honest /\ ~IsLarger =>
           \A e \in content :
               \/ e \in Of(listing.entries)
               \/ HasFailed(Lossy(e.name), "kind")
               \/ e \in left \cup ahead

InBuffer ==
    \E n \in Nat, end \in {0, 2}, j \in Nat : ChainIs(n, end, j) /\ Accounted(Ahead(n, j))

PlacesInv == IF pc = "records" THEN InBuffer ELSE Accounted({})

\* A call that starts the listing over gives all of the directory.
RestartInv ==
    restart => /\ pc # "records"
               /\ pc = "list" /\ reader = "windows" => left = content \cup Dots

LargerInv == IsLarger => AllNames > MaxNames

\* The listing ends when all is given, or with a failure.
EndInv ==
    pc \in {"sort", "listed"} /\ ~IsLarger => left = {} \/ HasFailed(<<>>, "listing")

SortedInv == pc = "listed" => Sorted(listing.entries)

ListInv ==
    /\ ListTypes /\ EntriesInv /\ PlacesInv /\ RestartInv
    /\ LargerInv /\ EndInv /\ SortedInv
=============================================================================
