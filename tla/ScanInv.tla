------------------------------ MODULE ScanInv ------------------------------
(***************************************************************************)
(* The inductive invariant of Scan.  The scan being made is looked at as   *)
(* the level that it will be: what is said of the levels then holds while  *)
(* they are read and while they are walked.                                *)
(***************************************************************************)
EXTENDS Scan

JobType == [of : Seq(Nat), start : Nat, opened : BOOLEAN, refused : BOOLEAN]

ItemType == [kind : Kinds \union {"failed"}, place : Nat]

ScanType ==
    [path : Seq(Nat), job : JobType, place : Nat, end : Nat, items : Seq(ItemType),
     directories : Seq(JobType), rest : Seq(JobType), unreadable : BOOLEAN]

LevelType ==
    [dir : Seq(Nat), items : Seq(ItemType), subdirs : Seq(JobType), rest : Seq(JobType)]

TypeOK ==
    /\ on_error \in {"Fail", "Skip"}
    /\ pc \in {"start", "fill", "list", "entries", "report", "walk", "done", "error"}
    /\ stack \in Seq(LevelType)
    /\ scan \in ScanType
    /\ held \in Int /\ limit \in Int
    /\ DOMAIN listings \subseteq Seq(Nat)
    /\ \A dir \in DOMAIN listings : listings[dir] \in Seq(Kinds)
    /\ rows \in Seq(Seq(Nat))
    /\ refusals \subseteq Seq(Nat) /\ failures \subseteq Seq(Nat)

-----------------------------------------------------------------------------
(* The levels, as they will be when the scan is done.                      *)

Active == pc \notin {"start", "done", "error"}

Scanning == pc \in {"fill", "list", "entries", "report"}

First == scan.job.start = 0

\* The innermost level, or the scan that will be it.
Inner ==
    IF Scanning
    THEN [dir |-> scan.path, items |-> scan.items, subdirs |-> scan.directories,
          rest |-> IF First THEN scan.rest ELSE Top.rest]
    ELSE Top

\* The levels around it.
Outer == IF Scanning /\ First THEN stack ELSE Front(stack)

Levels == IF Active THEN Append(Outer, Inner) ELSE stack

\* The directory that the walk is in.
Cur == Inner.dir

\* Its listing has not been read, or could not be.
Unlisted == Scanning /\ First /\ (pc \in {"fill", "list"} \/ scan.unreadable)

\* Where the windows that a level has read of its listing end.
ReadTo(level, listing) ==
    IF level.rest = <<>> THEN Len(listing) ELSE level.rest[1].start

\* The places in the windows that a level has still to read.
Later(level, listing) ==
    IF level.rest = <<>> THEN {} ELSE (level.rest[1].start + 1)..Len(listing)

\* The places of the running window that the scan has still to read.
Unread ==
    CASE pc = "fill" /\ ~First -> (scan.place + 1)..WindowEnd(Listing, scan.place)
      [] pc = "entries" -> (scan.place + 1)..scan.end
      [] OTHER -> {}

\* The places of a level that the walk has still to come to.
AheadIn(level, listing) ==
    {level.items[m].place : m \in DOMAIN level.items} \union Later(level, listing)

\* The paths that the walk has still to come to on the levels.
AheadOf(levels, lists) ==
    UNION {{Append(levels[k].dir, p) : p \in AheadIn(levels[k], lists[levels[k].dir])} :
               k \in DOMAIN levels}

\* And on the innermost one, of which a window is being read.
AheadAt(level, listing, unread) ==
    {Append(level.dir, p) : p \in AheadIn(level, listing) \union unread}

Ahead == AheadOf(Outer, listings) \union AheadAt(Inner, listings[Cur], Unread)

-----------------------------------------------------------------------------
(* The invariant.                                                          *)

\* What the scan is in each of its phases.
PhaseInv ==
    /\ pc = "start" =>
          /\ stack = <<>> /\ rows = <<>> /\ DOMAIN listings = {}
          /\ refusals = {} /\ failures = {}
    /\ ~Scanning => scan = NoScan
    /\ pc = "walk" => stack # <<>>
    /\ scan.job.opened => pc = "fill" /\ First /\ ~scan.job.refused
    /\ scan.job.refused => First
    /\ scan.unreadable => pc = "report" /\ scan.items = <<>> /\ scan.directories = <<>>
    /\ Scanning =>
          /\ scan.job.of = scan.path
          /\ ~First =>
                /\ stack # <<>> /\ Top.items = <<>> /\ Top.subdirs = <<>>
                /\ Top.dir = scan.path
                /\ pc # "list" /\ ~scan.unreadable /\ scan.rest = <<>>
                /\ scan.path \in DOMAIN listings
                /\ scan.job.start \in 1..Len(listings[scan.path])
          /\ pc \in {"fill", "list"} =>
                /\ scan.place = scan.job.start /\ scan.rest = <<>>
                /\ scan.items = <<>> /\ scan.directories = <<>>

\* The jobs of a level are those of the directories among its items, and those
\* of its later windows.
LevelJobs(level, lists) ==
    /\ Match(level.dir, level.items, level.subdirs)
    /\ \A n \in DOMAIN level.subdirs :
          level.subdirs[n].start = 0 /\ ~(level.subdirs[n].opened /\ level.subdirs[n].refused)
    /\ \A n \in DOMAIN level.rest :
          /\ level.rest[n].of = level.dir
          /\ level.rest[n].start \in 1..Len(lists[level.dir])
          /\ ~level.rest[n].opened /\ ~level.rest[n].refused
    /\ level.rest # <<>> => level.dir \in DOMAIN lists
    /\ \A m \in DOMAIN level.items : level.items[m].place = 0 => level.items[m].kind = "failed"

\* The levels are nested directories, the root first.
AllJobs(levels, lists) ==
    \A k \in DOMAIN levels : LevelJobs(levels[k], lists) /\ Len(levels[k].dir) = k - 1

JobsInv == AllJobs(Levels, listings)

\* The count is of the jobs, and so is the one kept for the scan.
HeldInv ==
    /\ held = HeldBy(Levels) + Holding(<<scan.job>>)
    /\ held <= limit /\ limit <= MaxHeld

BaseInv == TypeOK /\ PhaseInv /\ JobsInv /\ HeldInv

-----------------------------------------------------------------------------
(* What the walk and the scan have read of the listings.                   *)

\* The scan in a listing window.
WindowInv ==
    Scanning =>
        /\ scan.unreadable => Append(scan.path, 0) \in failures
        /\ pc = "entries" => scan.path \in DOMAIN listings
        /\ pc = "fill" /\ ~First => WindowEnd(Listing, scan.place) = ReadTo(Inner, Listing)
        /\ pc = "entries" =>
              /\ scan.place <= scan.end
              /\ scan.end = ReadTo(Inner, Listing)
              /\ \A m \in DOMAIN scan.items : scan.items[m].place <= scan.place
        /\ \A p \in Unread : Append(scan.path, p) \notin refusals \union failures

\* A directory that is not listed yet is the root or in the last of the rows.
UnlistedInv ==
    Unlisted =>
        /\ scan.path \notin DOMAIN listings
        /\ scan.path = <<>> \/ scan.path \in ToSet(rows)
        /\ \A r \in ToSet(rows) : Before(r, Append(scan.path, 0))

\* The later windows follow each other, and the last goes up to the listing's end.
RestInv(rest, listing) ==
    \A n \in DOMAIN rest :
        /\ rest[n].start \in 1..(Len(listing) - 1)
        /\ WindowEnd(listing, rest[n].start)
               = IF n < Len(rest) THEN rest[n + 1].start ELSE Len(listing)

\* An item is an entry of the listing, or place 0 for what was not listed; out
\* are the entries that the filter refused, and bad those that were not read.
ItemInv(dir, item, listing, out, bad) ==
    /\ item.place > 0 => item.place \in DOMAIN listing
    /\ item.kind # "failed" =>
          listing[item.place] = item.kind /\ Append(dir, item.place) \notin bad
    /\ item.kind \in {"file", "directory"} => Append(dir, item.place) \notin out
    /\ item.kind = "failed" => Append(dir, item.place) \in bad

\* The items of a level are in the order of the listing, and after them comes
\* what has not been read.
LevelInv(level, lists, out, bad) ==
    LET listing == lists[level.dir]
    IN  /\ RestInv(level.rest, listing)
        /\ \A m \in DOMAIN level.items :
              /\ ItemInv(level.dir, level.items[m], listing, out, bad)
              /\ level.items[m].place <= ReadTo(level, listing)
              /\ \A n \in 1..(m - 1) : level.items[n].place < level.items[m].place
        /\ level.items # <<>> => level.dir \in DOMAIN lists
        /\ \A p \in Later(level, listing) : Append(level.dir, p) \notin out \union bad

\* The levels are those of the directories from the root to the one at path, and
\* what is ahead on them comes after it.
OuterInv(levels, lists, out, bad, path) ==
    \A k \in DOMAIN levels :
        /\ LevelInv(levels[k], lists, out, bad) /\ levels[k].dir \in DOMAIN lists
        /\ \A l \in 1..(k - 1) : levels[k].dir[l] = path[l]
        /\ \A p \in AheadIn(levels[k], lists[levels[k].dir]) : path[k] < p

\* The entries in the listings.
EntriesOf(lists) == UNION {{Append(dir, p) : p \in DOMAIN lists[dir]} : dir \in DOMAIN lists}

\* The entry at path is one that goes into a row.
Goes(path, lists, out, bad) ==
    /\ path \in EntriesOf(lists)
    /\ lists[Front(path)][Last(path)] # "special"
    /\ path \notin out \union bad

\* The rows are entries in walk order, before all that is ahead.
RowsInv(list, ahead, lists, out, bad) ==
    /\ \A k, l \in DOMAIN list : k < l => Before(list[k], list[l])
    /\ \A r \in ToSet(list) :
          Goes(r, lists, out, bad) /\ \A a \in ahead : Before(r, a)

\* Only a directory in a row is listed, and only what is listed is refused or
\* fails, but for the listing itself.
ListsInv(list, lists, out, bad) ==
    /\ \A dir \in DOMAIN lists : dir = <<>> \/ dir \in ToSet(list)
    /\ \A f \in out \union bad : f \in EntriesOf(lists) \/ (f # <<>> /\ Last(f) = 0)

\* What goes into a row is in one or ahead, unless under Fail another entry of
\* the same directory has failed before.
GoesInv(policy, list, ahead, lists, out, bad) ==
    \A dir \in DOMAIN lists : \A p \in DOMAIN lists[dir] :
        Goes(Append(dir, p), lists, out, bad) =>
            \/ Append(dir, p) \in ToSet(list) \union ahead
            \/ policy = "Fail" /\ \E q \in 0..(p - 1) : Append(dir, q) \in bad

\* Under Fail every failure is ahead, but for that of the directory lost now.
FailInv(policy, ahead, bad, lost) == policy = "Fail" => bad \subseteq ahead \union lost

HistoryInv(policy, list, ahead, lists, out, bad, lost) ==
    /\ RowsInv(list, ahead, lists, out, bad)
    /\ ListsInv(list, lists, out, bad)
    /\ GoesInv(policy, list, ahead, lists, out, bad)
    /\ FailInv(policy, ahead, bad, lost)

Lost == IF scan.unreadable THEN {Append(scan.path, 0)} ELSE {}

ReadInv ==
    Active =>
        /\ WindowInv /\ UnlistedInv
        /\ OuterInv(Outer, listings, refusals, failures, Cur)
        /\ LevelInv(Inner, listings, refusals, failures)
        /\ HistoryInv(on_error, rows, Ahead, listings, refusals, failures, Lost)

IInv == BaseInv /\ ReadInv /\ RowsUpToFirstFailure

-----------------------------------------------------------------------------
(* What the receiver has heard, which goes into the invariant too.         *)

CallType == [what : {"entered", "recorded", "skipped"}, path : Seq(Nat)]

\* No failure that ends the walk.
Quiet == on_error = "Fail" => failures = {}

\* The places of a level up to p have been in a scan.
UpTo(level, p) == level.rest # <<>> => p <= level.rest[1].start

\* The scan that held the entry, or the failed listing, at path is finished.
Reached(path) ==
    /\ \A k \in DOMAIN Outer : Front(path) = Outer[k].dir => UpTo(Outer[k], Last(path))
    /\ Front(path) = Cur =>
          IF Scanning THEN ~First /\ Last(path) <= scan.job.start ELSE UpTo(Inner, Last(path))

ReachedOf(lists, bad) == {path \in EntriesOf(lists) \union bad : Reached(path)}

Heard(list, what) == {list[k].path : k \in {k \in DOMAIN list : list[k].what = what}}

Once(list) == \A k, l \in DOMAIN list : list[k] = list[l] => k = l

\* No call comes twice, and the calls are those that the entries in reached give
\* and the directories in a row.
CallsAre(list, reached, found, lists, out, bad) ==
    /\ Once(list)
    /\ Heard(list, "recorded") = {path \in reached : Goes(path, lists, out, bad)}
    /\ Heard(list, "entered")
           = {<<>>} \union {path \in found : lists[Front(path)][Last(path)] = "directory"}
    /\ Heard(list, "skipped")
           = {path \in reached :
                 Last(path) > 0 /\ (lists[Front(path)][Last(path)] = "special" \/ path \in bad)}
                 \union {Front(path) : path \in {path \in reached : Last(path) = 0}}

\* What the scan being made has come past is an item, but for what the filter
\* has refused.
SeenInv ==
    pc \in {"entries", "report"} /\ ~scan.unreadable =>
        /\ scan.path \in DOMAIN listings /\ scan.place >= scan.job.start
        /\ \A m \in DOMAIN scan.items :
              scan.items[m].place > scan.job.start \/ (First /\ scan.items[m].place = 0)
        /\ First /\ Append(scan.path, 0) \in failures
              => \E m \in DOMAIN scan.items : scan.items[m].place = 0
        /\ \A p \in (scan.job.start + 1)..scan.place :
              LET path == Append(scan.path, p)
              IN  Goes(path, listings, refusals, failures) \/ Listing[p] = "special" \/ path \in failures
                      => \E m \in DOMAIN scan.items : scan.items[m].place = p
        /\ pc = "report" => scan.place = ReadTo(Inner, Listing)

\* A listing fails when its directory is in a row and the scan has opened it.
ZeroInv ==
    /\ \A f \in failures : Last(f) = 0 => Front(f) = <<>> \/ Front(f) \in ToSet(rows)
    /\ pc \in {"fill", "list"} /\ First => Append(scan.path, 0) \notin failures

\* It has heard nothing before the walk.
Unheard == pc = "start" => calls = <<>>

CallsInv ==
    Active /\ Quiet =>
        /\ calls \in Seq(CallType)
        /\ SeenInv /\ ZeroInv
        /\ CallsAre(calls, ReachedOf(listings, failures), ToSet(rows), listings, refusals, failures)

FullInv == IInv /\ Unheard /\ CallsInv /\ EveryCallOnce
=============================================================================
