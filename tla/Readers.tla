------------------------------ MODULE Readers ------------------------------
(***************************************************************************)
(* Listing with the reading of link targets: Directory::read_link of the   *)
(* three readers, the reparse points of tarseer-nt, and Reading::symlink   *)
(* of src/walk/scan.rs, which takes what they append to a scan's text.     *)
(*                                                                         *)
(* A target is a sequence of characters.  A reparse point is a sequence of *)
(* 16-bit cells.                                                           *)
(***************************************************************************)
EXTENDS Listing

CONSTANTS
    Targets,       \* what a link leads to, as linux and portable give it
    Reparse,       \* reparse points: [tag, relative, units, printed]
    PathMax,       \* PATH_MAX: the first buffer of readlinkat
    LegacyMaxPath, \* LEGACY_MAX_PATH: 260
    MaxText        \* what 32-bit spans of a scan's text can address

ASSUME ReadersAssumption ==
    {PathMax, LegacyMaxPath} \subseteq Nat \ {0} /\ MaxText \in Nat

\* What the system gives.  No name on Windows has a slash or a question mark in it,
\* a server's included: after the prefix of four there is none.
ASSUME TargetsAssumption ==
    /\ Targets \subseteq Seq(STRING)
    /\ \A point \in Reparse :
        /\ point.units \in Seq(STRING) /\ point.printed \in Seq(STRING)
        /\ \A i \in DOMAIN point.units :
            point.units[i] # "/" /\ (i > 4 => point.units[i] # "?")

VARIABLES
    text,     \* Reading::text of the scan
    visited,  \* entries up to here have been visited
    result,   \* "reading" in read_link, and what it returned until symlink takes it
    coming,   \* the units of a Windows target that are still to be appended
    start,    \* the length of the text before read_link, there and in symlink
    links,    \* Item::Symlink: where its target is, and as history its target
    given,    \* history: the target that was read
    before    \* history: the text before read_link

linkVars == <<text, visited, result, coming, start, links, given, before>>
vars == <<listVars, linkVars>>

-----------------------------------------------------------------------------
(* Targets on Windows.                                                     *)

Sep == "\\"
BadUnit == "bad"
NtPrefix == <<Sep, "?", "?", Sep>>
Verbatim == <<Sep, Sep, "?", Sep>>
Unc == <<"U", "N", "C", Sep>>

\* GetFullPathNameW drops a dot that ends a name.
IsDropped(path, i) ==
    path[i] = "." /\ (i = Len(path) \/ path[i + 1] = Sep)

FullPath(path) ==
    FoldLeft(LAMBDA full, i : IF IsDropped(path, i) THEN full ELSE Append(full, path[i]),
             <<>>, [i \in DOMAIN path |-> i])

IsDrive(path) == Len(path) >= 7 /\ path[6] = ":" /\ path[7] = Sep
IsUnc(path) == Len(path) >= 8 /\ SubSeq(path, 5, 8) = Unc

\* Mutant: the 'C' of UNC stays overwritten.
Unrestored(path) == IF IsUnc(path) THEN [path EXCEPT ![7] = Sep] ELSE path

Restored(path) == path

\* user_path: the shorter path, where it is the same one.
UserPath(path) ==
    LET shorter == IF IsDrive(path) THEN SubSeq(path, 5, Len(path))
                   ELSE SubSeq([path EXCEPT ![7] = Sep], 7, Len(path))
    IN IF Len(path) + 1 > LegacyMaxPath \/ ~(IsDrive(path) \/ IsUnc(path))
       THEN path
       ELSE IF FullPath(shorter) = shorter THEN shorter ELSE Restored(path)

\* The cells of a reparse point: the tag's two, two lengths, where the name is
\* and how long, where the printed name is and how long, a link's flags in two,
\* and both names.
NamesAt(tag) == IF tag = "symlink" THEN 10 ELSE 8

Cells(point) ==
    <<point.tag, 0, 0, 0, 0, Len(point.units), Len(point.units), Len(point.printed)>>
    \o (IF point.tag = "symlink" THEN <<point.relative, 0>> ELSE <<>>)
    \o point.units \o point.printed

NoTarget == [ok |-> FALSE]

\* reparse_target, of the cells that the call says it wrote.
ReparseTarget(cells) ==
    LET names == NamesAt(cells[1])
        from == names + cells[5]
        relative == cells[1] = "symlink" /\ cells[9]
        units == SubSeq(cells, from + 1, from + cells[6])
    IN IF /\ 2 <= Len(cells)
          /\ cells[1] \in {"symlink", "mount"}
          /\ cells[1] = "symlink" => 9 <= Len(cells)
          /\ 6 <= Len(cells)
          /\ from + cells[6] <= Len(cells)
       THEN [ok |-> TRUE,
             units |-> IF ~relative /\ IsPrefix(NtPrefix, units)
                       THEN UserPath(Verbatim \o SubSeq(units, 5, Len(units)))
                       ELSE units]
       ELSE NoTarget

-----------------------------------------------------------------------------
(* Reading a target.                                                       *)

Init ==
    /\ ListInit
    /\ text = <<>> /\ start = 0 /\ visited = 0
    /\ result = "none" /\ coming = <<>> /\ links = <<>>
    /\ given = <<>> /\ before = <<>>

\* The next link among the entries, in their order.
IsNextLink(i) ==
    /\ i \in Places /\ i > visited /\ listing.entries[i].kind = "Symlink"
    /\ \A j \in visited + 1 .. i - 1 : listing.entries[j].kind # "Symlink"

IsAllText(units) == \A i \in DOMAIN units : units[i] # BadUnit

\* push_utf8 and to_str: the whole target is checked, and then appended.
PushText(shown, target) ==
    /\ IF IsAllText(shown)
       THEN result' = "text" /\ text' = text \o shown
       ELSE result' = "nontext" /\ UNCHANGED text
    /\ given' = target /\ coming' = <<>>

Cut(target) == SubSeq(target, 1, IF Len(target) < PathMax THEN Len(target) ELSE PathMax)

\* readlinkat cuts a target short to its buffer.  The link may be another one
\* when it is read again.
LinuxTarget ==
    /\ reader = "linux"
    /\ \E target, again \in Targets :
        IF Len(Cut(target)) < PathMax THEN PushText(Cut(target), target) ELSE PushText(again, again)

PortableTarget ==
    /\ reader = "portable"
    /\ \E target \in Targets : PushText(target, target)

\* The call may say that it wrote any number of cells.
WindowsTarget ==
    /\ reader = "windows"
    /\ \E point \in Reparse : \E n \in 0 .. Len(Cells(point)) :
        LET read == ReparseTarget(SubSeq(Cells(point), 1, n))
        IN read.ok /\ coming' = read.units /\ given' = point
    /\ result' = "reading"
    /\ UNCHANGED text

\* A call fails, or the reparse point is refused.
NoneRead ==
    /\ result' = "error" /\ coming' = <<>>
    /\ UNCHANGED <<text, given>>

ReadLink ==
    /\ pc = "listed" /\ result = "none"
    /\ \E i \in Places : IsNextLink(i) /\ visited' = i
    /\ start' = Len(text) /\ before' = text
    /\ LinuxTarget \/ PortableTarget \/ WindowsTarget \/ NoneRead
    /\ UNCHANGED <<listVars, links>>

\* Mutant: what was appended before the unit that is no text stays.
KeepsAppended == text

\* What was appended of the target is cut away again.
Undone == SubSeq(text, 1, start)

Slashed(unit) == IF unit = Sep THEN "/" ELSE unit

\* A Windows target is decoded and appended unit by unit, with a slash for each
\* separator, until one is no text.
AppendUnit ==
    /\ result = "reading" /\ coming # <<>>
    /\ IF Head(coming) = BadUnit
       THEN text' = Undone /\ result' = "nontext" /\ coming' = <<>>
       ELSE /\ text' = Append(text, Slashed(Head(coming)))
            /\ coming' = Tail(coming)
            /\ UNCHANGED result
    /\ UNCHANGED <<listVars, visited, start, links, given, before>>

AppendEnd ==
    /\ result = "reading" /\ coming = <<>>
    /\ result' = "text"
    /\ UNCHANGED <<listVars, text, visited, coming, start, links, given, before>>

\* Reading::symlink: a span past the limit is cut back as well, as an error.
Symlink ==
    /\ result \notin {"none", "reading"}
    /\ IF result = "text" /\ Len(text) <= MaxText
       THEN /\ links' = Append(links, [start |-> start, len |-> Len(text) - start, given |-> given])
            /\ UNCHANGED text
       ELSE text' = SubSeq(text, 1, start) /\ UNCHANGED links
    /\ result' = "none" /\ given' = <<>> /\ before' = <<>>
    /\ UNCHANGED <<listVars, visited, coming, start>>

\* The next scan has a text of its own.
NextScan ==
    /\ result = "none" /\ Visited
    /\ text' = <<>> /\ start' = 0 /\ visited' = 0 /\ links' = <<>>
    /\ UNCHANGED <<result, coming, given, before>>

Next ==
    \/ List /\ UNCHANGED linkVars
    \/ ReadLink \/ AppendUnit \/ AppendEnd \/ Symlink \/ NextScan

Spec == Init /\ [][Next]_vars

-----------------------------------------------------------------------------
(* Properties.                                                             *)

\* Where Windows goes with a path.
Reads(path) ==
    IF IsPrefix(Verbatim, path) THEN SubSeq(path, 5, Len(path))
    ELSE IF IsPrefix(<<Sep, Sep>>, path)
         THEN Unc \o SubSeq(FullPath(path), 3, Len(FullPath(path)))
         ELSE FullPath(path)

IsAbsolute(point) ==
    IsPrefix(NtPrefix, point.units) /\ ~(point.tag = "symlink" /\ point.relative)

\* `shown` leads where the link led when it was read.
SameTarget(shown, target) ==
    LET path == [i \in DOMAIN shown |-> IF shown[i] = "/" THEN Sep ELSE shown[i]]
    IN IF reader # "windows" THEN shown = target
       ELSE IF IsAbsolute(target)
            THEN Reads(path) = SubSeq(target.units, 5, Len(target.units))
            ELSE path = target.units

\* A target that is recorded is the whole of one, and leads to the same file:
\* it is never cut to a buffer or to what was written, and on Windows the
\* shorter path is taken only where it means the same (user_path).
TargetsLeadTheSame ==
    \A i \in DOMAIN links :
        LET link == links[i] IN
        /\ link.start + link.len <= Len(text)
        /\ SameTarget(SubSeq(text, link.start + 1, link.start + link.len), link.given)

\* read_link "appends nothing, if the target is not valid UTF-16": the units that
\* were appended before the bad one are gone, and nothing else is.
AppendsNothing ==
    result \in {"nontext", "error"} => text = before
=============================================================================
