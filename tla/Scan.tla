-------------------------------- MODULE Scan --------------------------------
(***************************************************************************)
(* The scanner, src/walk/scan.rs, with the loop of src/walk/cut.rs that    *)
(* takes its scans: what is read of a directory and in which pieces, which *)
(* waiting jobs hold their directory open, what is skipped, and what the   *)
(* progress receiver hears.                                                *)
(*                                                                         *)
(* The reader is Linux's, where an open directory is a file descriptor and *)
(* reports its own metadata.  What a listing holds, which entries cannot   *)
(* be read, what the filter refuses and when descriptors run out is up to  *)
(* the environment.  An entry is known by the path of its places in the    *)
(* listings, the first at 1; place 0 is a listing that could not be read,  *)
(* or not to its end.                                                      *)
(***************************************************************************)
EXTENDS Integers, Sequences, FiniteSets, SequencesExt

CONSTANTS
    MaxHeld,            \* MAX_HELD
    WindowEntries,      \* WINDOW_ENTRIES
    WindowDirectories,  \* WINDOW_DIRECTORIES
    MaxEntries,         \* bound: entries in all listings
    MaxDepth            \* bound: directories between the root and an entry

ASSUME ScanAssumption ==
    /\ MaxHeld \in Nat
    /\ WindowEntries \in Nat \ {0} /\ WindowDirectories \in Nat \ {0}
    /\ MaxEntries \in Nat /\ MaxDepth \in Nat

VARIABLES
    on_error,    \* WalkOptions::on_error
    pc,          \* where the walk or the scan is
    stack,       \* the open directories, the root first
    scan,        \* the scan being made, and its job
    held,        \* Held::count
    limit,       \* Held::limit
    listings,    \* history: the kinds of the entries of each directory listed
    rows,        \* history: the entries the walk has put in rows, in order
    calls,       \* history: the calls of the progress receiver, and its counts
                 \*          in Scanner::skips, which go with them
    refusals,    \* history: the entries the filter has refused
    failures,    \* history: the entries and listings that could not be read
    failed       \* what the walk has failed on

history == <<listings, rows, calls, refusals, failures>>
vars == <<on_error, pc, stack, scan, held, limit, history, failed>>

Kinds == {"file", "directory", "special"}

\* No entry: the walk has not failed, or was cancelled.
Nowhere == <<-1>>

Lesser(m, n) == IF m < n THEN m ELSE n

-----------------------------------------------------------------------------
(* Jobs and scans.                                                         *)

\* The job of a directory does not know which one it is: of is history there.
DirectoryJob(of, opened, refused) ==
    [of |-> of, start |-> 0, opened |-> opened, refused |-> refused]

\* Nothing is opened for a later window: it shares the directory its listing was
\* read from.
RestJob(of, start) == [of |-> of, start |-> start, opened |-> FALSE, refused |-> FALSE]

NewScan(path, job) ==
    [path |-> path, job |-> job, place |-> job.start, end |-> 0,
     items |-> <<>>, directories |-> <<>>, rest |-> <<>>, unreadable |-> FALSE]

NoScan == NewScan(<<>>, RestJob(<<>>, 0))

\* The item of the entry at place.
Item(kind, place) == [kind |-> kind, place |-> place]

Directories(listing, from, to) ==
    Cardinality({p \in (from + 1)..to : listing[p] = "directory"})

\* Where the listing window that starts at start ends.
WindowEnd(listing, start) ==
    LET last == Lesser(Len(listing), start + WindowEntries)
        full == {p \in (start + 1)..last :
                     /\ listing[p] = "directory"
                     /\ Directories(listing, start, p) = WindowDirectories}
    IN  IF full = {} THEN last ELSE CHOOSE p \in full : TRUE

\* Mutant: the second window starts as if the first were full of entries.
LaterStartsByEntries(listing) ==
    LET from[start \in 0..Len(listing)] ==
            IF start = Len(listing) THEN <<>>
            ELSE <<start>> \o from[WindowEnd(listing, start)]
    IN  from[Lesser(Len(listing), WindowEntries)]

\* Where the windows after the first start.
LaterStarts(listing) ==
    LET from[start \in 0..Len(listing)] ==
            IF start = Len(listing) THEN <<>>
            ELSE <<start>> \o from[WindowEnd(listing, start)]
    IN  from[WindowEnd(listing, 0)]

Call(what, path) == [what |-> what, path |-> path]

\* The walk takes a job for the directory at path.  The receiver hears of a
\* directory when its first scan starts.
Take(path, job) ==
    /\ scan' = NewScan(path, job)
    /\ calls' = IF job.start = 0 THEN Append(calls, Call("entered", path)) ELSE calls
    /\ pc' = "fill"

-----------------------------------------------------------------------------
(* Held directories.                                                       *)

MayHold == held < limit

RanOut(count) == limit' = Lesser(limit, count)

\* The places of the jobs that hold their directory.
Holders(jobs) == {n \in DOMAIN jobs : jobs[n].opened}

Holding(jobs) == Cardinality(Holders(jobs))

\* A job keeps a directory open that it holds, and as a later window the listed
\* one, which is not counted as held and which no release closes.
KeepsOpen(job) == job.opened \/ job.start > 0

KeptOpen(jobs) == {jobs[n].of : n \in {m \in DOMAIN jobs : KeepsOpen(jobs[m])}}

\* The directories that the jobs of the open levels keep open.
OpenDirectories(levels) ==
    UNION {KeptOpen(levels[k].subdirs) \union KeptOpen(levels[k].rest) : k \in DOMAIN levels}

HeldBy(levels) ==
    Cardinality(UNION {{k} \X Holders(levels[k].subdirs) : k \in DOMAIN levels})

Closed(jobs) == [k \in DOMAIN jobs |-> [jobs[k] EXCEPT !.opened = FALSE]]

\* Mutant: only the jobs of the directory being visited are released.
ReleasedTop(levels) ==
    [k \in DOMAIN levels |->
        IF k = Len(levels) THEN [levels[k] EXCEPT !.subdirs = Closed(@)] ELSE levels[k]]

\* The jobs of the open levels close the directories they hold.
Released(levels) ==
    [k \in DOMAIN levels |-> [levels[k] EXCEPT !.subdirs = Closed(@)]]

-----------------------------------------------------------------------------
(* Filling a scan: Scanner::fill and Scanner::open.                        *)

Unreadable ==
    /\ scan' = [scan EXCEPT !.unreadable = TRUE]
    /\ failures' = failures \union {Append(scan.path, 0)}
    /\ pc' = "report"

\* The parent's scan found out that the directory cannot be opened.
FillRefused ==
    /\ pc = "fill"
    /\ scan.job.refused
    /\ Unreadable
    /\ UNCHANGED <<on_error, stack, held, limit, listings, rows, calls, refusals, failed>>

FillOpened ==
    /\ pc = "fill"
    /\ scan.job.opened
    /\ held' = held - 1
    /\ scan' = [scan EXCEPT !.job.opened = FALSE]
    /\ pc' = "list"
    /\ UNCHANGED <<on_error, stack, limit, history, failed>>

\* The listing that the scan reads.
Listing == listings[scan.job.of]

FillRest ==
    /\ pc = "fill"
    /\ scan.job.start > 0
    /\ scan' = [scan EXCEPT !.end = WindowEnd(Listing, scan.job.start)]
    /\ pc' = "entries"
    /\ UNCHANGED <<on_error, stack, held, limit, history, failed>>

Opens ==
    /\ pc = "fill"
    /\ scan.job.start = 0 /\ ~scan.job.opened /\ ~scan.job.refused

\* Opens the directory by its path, or fails to for another reason than that
\* the process has no descriptor left.
Open ==
    /\ Opens
    /\ \/ pc' = "list" /\ UNCHANGED <<scan, failures>>
       \/ Unreadable
    /\ UNCHANGED <<on_error, stack, held, limit, listings, rows, calls, refusals, failed>>

\* No descriptor is left: tried again if the release has closed something.
OpenStarved ==
    /\ Opens
    /\ RanOut(held)
    /\ LET closed == HeldBy(stack) - HeldBy(Released(stack))
       IN  /\ stack' = Released(stack)
           /\ held' = held - closed
           /\ IF closed > 0 THEN UNCHANGED <<pc, scan, failures>> ELSE Unreadable
    /\ UNCHANGED <<on_error, listings, rows, calls, refusals, failed>>

TotalListed ==
    FoldLeft(LAMBDA sum, dir : sum + Len(listings[dir]), 0, SetToSeq(DOMAIN listings))

Listings == UNION {[1..n -> Kinds] : n \in 0..MaxEntries}

\* The listings when that of the scan's directory is known.
Known(listing) ==
    [dir \in DOMAIN listings \union {scan.path} |->
        IF dir = scan.path THEN listing ELSE listings[dir]]

\* What fits in one window is read at once, and otherwise the rest waits in jobs
\* of its own, which share the listing and the open directory.
ListWhole(listing) ==
    /\ listings' = Known(listing)
    /\ scan' = [scan EXCEPT
                   !.end = WindowEnd(listing, 0),
                   !.rest = [k \in DOMAIN LaterStarts(listing) |->
                                RestJob(scan.path, LaterStarts(listing)[k])]]
    /\ pc' = "entries"
    /\ UNCHANGED failures

\* An error in the middle is an item before the entries.  Under Fail nothing
\* else is read.
ListCut(listing) ==
    LET found == [scan EXCEPT !.items = <<Item("failed", 0)>>]
    IN  /\ listings' = Known(listing)
        /\ failures' = failures \union {Append(scan.path, 0)}
        /\ IF on_error = "Fail"
           THEN scan' = found /\ pc' = "report"
           ELSE /\ scan' = [found EXCEPT
                               !.end = WindowEnd(listing, 0),
                               !.rest = [k \in DOMAIN LaterStarts(listing) |->
                                            RestJob(scan.path, LaterStarts(listing)[k])]]
                /\ pc' = "entries"

List ==
    /\ pc = "list"
    /\ \E listing \in Listings :
           /\ TotalListed + Len(listing) <= MaxEntries
           /\ Len(scan.path) < MaxDepth \/ listing \in Seq(Kinds \ {"directory"})
           /\ ListWhole(listing) \/ ListCut(listing)
    /\ UNCHANGED <<on_error, stack, held, limit, rows, calls, refusals, failed>>

-----------------------------------------------------------------------------
(* Reading the entries of a window: Scanner::entries, entry and open_ahead. *)

Reading == pc = "entries" /\ scan.place < scan.end

Place == scan.place + 1

Here == Append(scan.path, Place)

KindHere == Listing[Place]

Read(item) == [scan EXCEPT !.place = Place, !.items = Append(@, item)]

\* A socket, a fifo or a device, or a name or a link target that is no UTF-8.
EntrySpecial ==
    /\ Reading /\ KindHere = "special"
    /\ scan' = Read(Item("special", Place))
    /\ UNCHANGED <<on_error, pc, stack, held, limit, history, failed>>

EntryRefused ==
    /\ Reading /\ KindHere # "special"
    /\ scan' = [scan EXCEPT !.place = Place]
    /\ refusals' = refusals \union {Here}
    /\ UNCHANGED <<on_error, pc, stack, held, limit, listings, rows, calls, failures, failed>>

\* Under Fail nothing after the first failure is read.
FailedHere ==
    /\ scan' = Read(Item("failed", Place))
    /\ failures' = failures \union {Here}
    /\ pc' = IF on_error = "Fail" THEN "report" ELSE "entries"

\* A file or a link.
EntryFile ==
    /\ Reading /\ KindHere = "file"
    /\ \/ FailedHere
       \/ scan' = Read(Item("file", Place)) /\ UNCHANGED <<pc, failures>>
    /\ UNCHANGED <<on_error, stack, held, limit, listings, rows, calls, refusals, failed>>

\* What comes of opening a directory for its job: nothing when too many are
\* held, the directory, nothing when the process has no descriptor left, or the
\* reason it cannot be opened.
OpenAhead ==
    LET job(opened, refused) == DirectoryJob(Here, opened, refused)
    IN  IF ~MayHold
        THEN {[job |-> job(FALSE, FALSE), limit |-> limit]}
        ELSE {[job |-> job(TRUE, FALSE), limit |-> limit],
              [job |-> job(FALSE, FALSE), limit |-> Lesser(limit, held)],
              [job |-> job(FALSE, TRUE), limit |-> limit]}

\* Mutant: the job is there before the metadata is.
EntryDirectoryEarlyJob ==
    /\ Reading /\ KindHere = "directory"
    /\ \E ahead \in OpenAhead :
           /\ limit' = ahead.limit
           /\ \E item \in {"failed", "directory"} :
                  /\ scan' = [Read(Item(item, Place)) EXCEPT
                                 !.directories = Append(@, ahead.job)]
                  /\ failures' = IF item = "failed" THEN failures \union {Here} ELSE failures
                  /\ pc' = IF item = "failed" /\ on_error = "Fail" THEN "report" ELSE pc
           /\ held' = held + Holding(<<ahead.job>>)
    /\ UNCHANGED <<on_error, stack, listings, rows, calls, refusals, failed>>

\* Mutant: a directory whose metadata cannot be read stays counted.
EntryDirectoryStillHeld ==
    /\ Reading /\ KindHere = "directory"
    /\ \E ahead \in OpenAhead :
           /\ limit' = ahead.limit
           /\ held' = held + Holding(<<ahead.job>>)
           /\ \/ FailedHere
              \/ /\ scan' = [Read(Item("directory", Place)) EXCEPT
                                !.directories = Append(@, ahead.job)]
                 /\ UNCHANGED <<pc, failures>>
    /\ UNCHANGED <<on_error, stack, listings, rows, calls, refusals, failed>>

\* A directory is opened before its metadata is read, and closed again when
\* that fails.
EntryDirectory ==
    /\ Reading /\ KindHere = "directory"
    /\ \E ahead \in OpenAhead :
           /\ limit' = ahead.limit
           /\ \/ FailedHere /\ UNCHANGED held
              \/ /\ scan' = [Read(Item("directory", Place)) EXCEPT
                                !.directories = Append(@, ahead.job)]
                 /\ held' = held + Holding(<<ahead.job>>)
                 /\ UNCHANGED <<pc, failures>>
    /\ UNCHANGED <<on_error, stack, listings, rows, calls, refusals, failed>>

EntriesEnd ==
    /\ pc = "entries" /\ scan.place = scan.end
    /\ pc' = "report"
    /\ UNCHANGED <<on_error, stack, scan, held, limit, history, failed>>

-----------------------------------------------------------------------------
(* Scanner::report, and what the walk does with the finished scan.         *)

\* The path that the walk and the receiver give an item of the directory at dir.
ItemPath(dir, item) == IF item.place = 0 THEN dir ELSE Append(dir, item.place)

CallsOf(item) ==
    CASE item.kind \in {"file", "directory"} -> <<Call("recorded", ItemPath(scan.path, item))>>
      [] item.kind = "special" \/ (item.kind = "failed" /\ on_error = "Skip") ->
             <<Call("skipped", ItemPath(scan.path, item))>>
      [] item.kind = "failed" /\ on_error = "Fail" -> <<>>

\* The receiver hears of each item, after what it is told first.
Told(first) ==
    LET told[m \in 0..Len(scan.items)] ==
            IF m = 0 THEN first ELSE told[m - 1] \o CallsOf(scan.items[m])
    IN  told[Len(scan.items)]

\* Mutant: the scan of the parent is taken to have told of a refused directory.
ReportedByParent ==
    Told(IF scan.unreadable /\ on_error = "Skip" /\ ~scan.job.refused
         THEN Append(calls, Call("skipped", scan.path)) ELSE calls)

\* The root is never skipped: an empty walk would look like a success.
Reported ==
    Told(IF scan.unreadable /\ on_error = "Skip" /\ scan.path # <<>>
         THEN Append(calls, Call("skipped", scan.path)) ELSE calls)

FailOn(path) == pc' = "error" /\ failed' = path

\* An unreadable root is an error under either policy.
ScanFails ==
    /\ pc = "report"
    /\ scan.unreadable /\ (scan.path = <<>> \/ on_error = "Fail")
    /\ calls' = Reported
    /\ FailOn(Append(scan.path, 0))
    /\ scan' = NoScan
    /\ UNCHANGED <<on_error, stack, held, limit, listings, rows, refusals, failures>>

\* The first scan of a directory opens a level, and a later one replaces what
\* the level has used up.
Report ==
    /\ pc = "report"
    /\ ~(scan.unreadable /\ (scan.path = <<>> \/ on_error = "Fail"))
    /\ calls' = Reported
    /\ stack' =
           IF scan.job.start = 0
           THEN Append(stack, [dir |-> scan.path, items |-> scan.items,
                               subdirs |-> scan.directories, rest |-> scan.rest])
           ELSE [stack EXCEPT ![Len(stack)].items = scan.items,
                              ![Len(stack)].subdirs = scan.directories]
    /\ scan' = NoScan
    /\ pc' = "walk"
    /\ UNCHANGED <<on_error, held, limit, listings, rows, refusals, failures, failed>>

-----------------------------------------------------------------------------
(* The run loop of the walk.                                               *)

Root == DirectoryJob(<<>>, FALSE, FALSE)

Init ==
    /\ on_error \in {"Fail", "Skip"}
    /\ pc = "start"
    /\ stack = <<>> /\ scan = NoScan
    /\ held = 0 /\ limit = MaxHeld
    /\ listings = <<>> /\ rows = <<>> /\ calls = <<>>
    /\ refusals = {} /\ failures = {}
    /\ failed = Nowhere

Start ==
    /\ pc = "start"
    /\ Take(<<>>, Root)
    /\ UNCHANGED <<on_error, stack, held, limit, listings, rows, refusals, failures, failed>>

Top == Last(stack)

Visiting == pc = "walk" /\ stack # <<>> /\ Top.items # <<>>

Visited == [stack EXCEPT ![Len(stack)].items = Tail(@)]

Cancelled ==
    /\ Visiting
    /\ FailOn(Nowhere)
    /\ UNCHANGED <<on_error, stack, scan, held, limit, history>>

VisitFile ==
    /\ Visiting /\ Head(Top.items).kind = "file"
    /\ stack' = Visited
    /\ rows' = Append(rows, ItemPath(Top.dir, Head(Top.items)))
    /\ UNCHANGED <<on_error, pc, scan, held, limit, listings, calls, refusals, failures, failed>>

\* The scan has counted it.
VisitSkipped ==
    /\ Visiting
    /\ \/ Head(Top.items).kind = "special"
       \/ Head(Top.items).kind = "failed" /\ on_error = "Skip"
    /\ stack' = Visited
    /\ UNCHANGED <<on_error, pc, scan, held, limit, history, failed>>

VisitFailed ==
    /\ Visiting /\ Head(Top.items).kind = "failed" /\ on_error = "Fail"
    /\ stack' = Visited
    /\ FailOn(Append(Top.dir, Head(Top.items).place))
    /\ UNCHANGED <<on_error, scan, held, limit, history>>

\* Enters the directory with the next of the jobs.
VisitDirectory ==
    /\ Visiting /\ Head(Top.items).kind = "directory"
    /\ LET path == ItemPath(Top.dir, Head(Top.items))
       IN  Take(path, Head(Top.subdirs)) /\ rows' = Append(rows, path)
    /\ stack' = [Visited EXCEPT ![Len(stack)].subdirs = Tail(@)]
    /\ UNCHANGED <<on_error, held, limit, listings, refusals, failures, failed>>

UsedUp == pc = "walk" /\ stack # <<>> /\ Top.items = <<>>

ReadOn ==
    /\ UsedUp /\ Top.rest # <<>>
    /\ Take(Top.dir, Head(Top.rest))
    /\ stack' = [stack EXCEPT ![Len(stack)].rest = Tail(@)]
    /\ UNCHANGED <<on_error, held, limit, listings, rows, refusals, failures, failed>>

Leave ==
    /\ UsedUp /\ Top.rest = <<>>
    /\ stack' = Front(stack)
    /\ pc' = IF Len(stack) = 1 THEN "done" ELSE "walk"
    /\ UNCHANGED <<on_error, scan, held, limit, history, failed>>

Terminating == pc \in {"done", "error"} /\ UNCHANGED vars

Fill == FillRefused \/ FillOpened \/ FillRest \/ Open \/ OpenStarved \/ List

Entries == EntrySpecial \/ EntryRefused \/ EntryFile \/ EntryDirectory \/ EntriesEnd

Visit == Cancelled \/ VisitFile \/ VisitSkipped \/ VisitFailed \/ VisitDirectory

Step ==
    \/ Start \/ Fill \/ Entries
    \/ ScanFails \/ Report
    \/ Visit \/ ReadOn \/ Leave

Next == Step \/ Terminating

Spec == Init /\ [][Next]_vars

-----------------------------------------------------------------------------
(* Properties.                                                             *)

\* The count of held directories is the number of waiting jobs that hold one,
\* wherever they wait and whatever has failed, and a limit lowered in the middle
\* of a walk is never below it.
HeldIsCounted ==
    /\ held = HeldBy(stack) + Holding(scan.directories) + Holding(<<scan.job>>)
    /\ held <= limit /\ limit <= MaxHeld

\* A directory is given up for want of descriptors only when the waiting jobs keep
\* none open that a release could close: those that stay open are the listed
\* directories that the later windows of the open levels share, one for each such
\* level.  Until then every retry has closed some, so there is an end to them.
GivesUpWithNoneToClose ==
    [][OpenStarved =>
        IF scan'.unreadable
        THEN /\ held' = 0
             /\ OpenDirectories(stack')
                    = {stack[k].dir : k \in {l \in DOMAIN stack : stack[l].rest # <<>>}}
        ELSE held' < held]_vars

\* How many of the first m items are directories.
DirectoryItems(items, m) == Cardinality({l \in 1..m : items[l].kind = "directory"})

\* The jobs are those of the directories among the items of the directory at dir.
Match(dir, items, jobs) ==
    /\ Len(jobs) = DirectoryItems(items, Len(items))
    /\ \A m \in DOMAIN items :
          items[m].kind = "directory" =>
              jobs[DirectoryItems(items, m)].of = ItemPath(dir, items[m])

\* A job does not know its directory, and the walk gives the nth to the nth
\* directory of the scan: whatever was skipped, refused or has failed, it is the
\* job of that very directory, and the later windows are of their own listing.
JobsMatchItems ==
    \A k \in DOMAIN stack :
        LET level == stack[k]
        IN  /\ Match(level.dir, level.items, level.subdirs)
            /\ \A n \in DOMAIN level.rest : level.rest[n].of = level.dir

\* Walk order of paths: p is above q, or comes first where they part.
Before(p, q) ==
    \E k \in DOMAIN q :
        /\ \A l \in 1..(k - 1) : l \in DOMAIN p /\ p[l] = q[l]
        /\ k \in DOMAIN p => p[k] < q[k]

Listed == UNION {{Append(dir, p) : p \in DOMAIN listings[dir]} : dir \in DOMAIN listings}

KindOf(path) == listings[Front(path)][Last(path)]

Kept(path) == KindOf(path) # "special" /\ path \notin refusals \union failures

\* The rows are the entries that the listings hold, less those refused, skipped
\* and failed, each once and in walk order, however the listings were cut into
\* windows.  Under Fail they are those up to the first failure in walk order, and
\* that is the one the walk reports, whatever else a window has run into before.
RowsUpToFirstFailure ==
    pc = "done" \/ (pc = "error" /\ failed # Nowhere)
        => /\ \A k, l \in DOMAIN rows : k < l => Before(rows[k], rows[l])
           /\ ToSet(rows) = {path \in Listed : Kept(path) /\ (pc = "error" => Before(path, failed))}
           /\ pc = "error" => failed \in failures /\ \A f \in failures : ~Before(f, failed)

Times(what, path) == Cardinality({k \in DOMAIN calls : calls[k] = Call(what, path)})

\* The receiver hears of each row once, enters each directory once, and hears of
\* each skip once, which is also how often Skips counts it: a directory that
\* cannot be opened once, whether its own scan or its parent's found out.
EveryCallOnce ==
    pc = "done" =>
        \A path \in Listed :
            LET one(holds) == IF holds THEN 1 ELSE 0
                special == KindOf(path) = "special"
            IN  /\ Times("recorded", path) = one(Kept(path))
                /\ Times("entered", path) = one(Kept(path) /\ KindOf(path) = "directory")
                /\ Times("skipped", path)
                       = one(special \/ path \in failures) + one(Append(path, 0) \in failures)

\* "Without threads the calls come in walk order."
CallsInWalkOrder ==
    \A k, l \in DOMAIN calls : k < l => ~Before(calls[l].path, calls[k].path)
=============================================================================
