# Verification of tarseer

tarseer walks a source tree, hands out every entry in walk order in *parts*, and
writes the parts as zstd frames with an index. This directory holds TLA+ models
of the code that decides what goes where and when: the listing of directories on each platform, the
scanner, the cutter, the assembly of parts, the tables and text of a part, the threaded frame pipeline, the
manifest file, and the later reading of metadata. Each is translated from the Rust source; paths below are
relative to the repository, and `PROJECT.json` maps every definition to its lines.

## 1. The system

```
 walk_parts (src/walk.rs)
   Walker (walk/cut.rs)  --job-->  Scanner (walk/scan.rs)  -->  Reader (walk/reader*)
      |        ^                        |  items, jobs             system calls
      |        +------- Found ----------+
      |  cut list
      v
   assemble (walk/assemble.rs) --> TreePart (manifest/part.rs) --> sink
                                                                     |
 write_frames (src/frames.rs): the sink of a walk on the calling thread
      jobs (bounded queue) --> workers: JSON, encode --> done --> orderer --> frame sink
                                                                     |
 write_file (src/file.rs): frames into a file, then the index and its seek table
```

### Inventory

| component | state | operations | what is hard | what makes it correct |
|---|---|---|---|---|
| **Cutter** `walk/cut.rs` | the stack of open directories (`Level`), running totals, `completed`, `measuring`, the relative path | `run`, `visit`, `leaf`, `enter`, `add_to_run`, `check_budget`, `split`, `finish_level`, `seal`, `read_on`, `extend` | cuts are decided while sizes are only known so far; offsets into `completed` move under the levels; own rows wait through nested splits; the sink can fail in the middle of a split | parts tile the walk; cuts are those of the rule over the finished tree; a part's stem is open when it is sealed; what waits is bounded |
| **Assembler** `walk/assemble.rs` | row ranges; `nodes`, the node of the directory of each depth | `split_off_front`, `assemble`, `push` | ranges are shared scans with items that are no rows; nodes of earlier subtrees go stale | a part reads back to its own rows and paths |
| **Parts and index** `manifest.rs`, `manifest/part.rs`, `tape.rs` | three tables, the stem, the tape of strings | `push_*`, `node`, `path`, `first_path`, `entries`, `walk_order` | order across three tables; node numbers; a push refused halfway | the index's first paths sort in walk order and find every directory; every text reads back |
| **Frame pipeline** `frames.rs` | two channels, a mutex, worker threads, the orderer's held-back parts | `write_frames`, `Worker::encode`, `hand_out_in_order` | interleavings; failures and panics in any thread; blocked sends and receives; which error is returned | frames in walk order with no gap and none twice, or an error; every write returns |
| **Scanner** `walk/scan.rs` | the count and limit of held directories, counts of skips, jobs, buffers kept for reuse | `scan`, `fill`, `entries`, `entry`, `open_ahead`, `open`, `release`, `report` | listing windows; handles that run out; an error between opening and recording; the order of progress calls | windows cover a listing once; the count is what jobs hold; every entry is recorded, skipped or refused once |
| **Readers** `walk/reader.rs` and platforms | open directories, a listing and its buffers, a scan's text | `open`, `list`, `sort`, `find`, `stat`, `read_link` | listings that break off; buffers kept from one listing to the next; names that begin alike or are no text; targets longer than a buffer | entries are the directory's own, in byte order, each listed or reported; a search finds each; targets lead to the same file |
| **Manifest file** `file.rs`, `zstd.rs` | bytes written, sizes of frames, the seek table | `write_file`, `parse`, `part_json`, `locate` | offsets; limits of 32 bits; writes that fail, or a process that dies, halfway; damage | a whole file reads back, nothing else passes for one, damage is never misread |
| **Fill** `walk/fill.rs` | the chain of open directories | `read_metadata`, `enter` | a failure between two opens | each row gets the metadata of its own path |
| **JSON** `json.rs` | none | formatting, reading the index | columns of different lengths, another version | the index read is the one written |
| **nt crate** `nt/src` | a handle, the buffer of records | `Directory::list`, `records`, `reparse_target`, `user_path` | lengths and offsets that a driver reports; earlier contents of the buffer; paths shortened in place | no record of an earlier call; a shorter path only where it means the same |
| **CLI** `cli` | arguments | writing to a file, printing | a file left by a failed write | as for the manifest file |

Interactions: the walker *calls* the scanner with a job it owns, and gives it a
callback that closes directories held by the jobs of the open levels. The
scanner returns items by shared rows. The walker *calls* the assembler with a cut
list, and the sink with the part. In `write_frames` that sink sends the part
into a bounded queue, and everything after it is other threads. The walk itself
is sequential at this commit: comments speak of walking with threads, but
`Unit::Whole`, `Subtree` and `unfold` have no producer yet.

## 2. Modules

| module | what it is |
|---|---|
| `Cut` | the cutter: one action per handler and loop step; the tree is found while it is walked |
| `CutInv` | the inductive invariant of `Cut` |
| `CutParts` | what `src/walk.rs` and `tests/parts.rs` promise of parts in the tree that was walked, and the inductive invariant `PartsInv` behind it |
| `CutProofs` | TLAPS proofs about `Cut`, of those promises, and that the cuts are the rule's |
| `NatInduction` | induction over the naturals, for a set in place of a predicate (proved from facts about finite sets), and the recursive functions it shows to exist; other proofs cite it |
| `CutRule` | the rule of `tests/parts.rs` over the whole tree, which the cuts must follow, and the invariant `GreedyInv` behind it |
| `Assembly` | the rows behind `Cut`'s positions: scans, waiting ranges, assembled parts, the index's first paths |
| `AssemblyInv` | the inductive invariant of `Assembly`, stated of any rows, scans and parts |
| `AssemblyProofs` | TLAPS proofs: `Assembly` takes the steps of `Cut`, its ranges and parts are right, and a search finds each directory |
| `Scan` | the scanner and the loop that takes its scans: windows, held directories, failures, skips, progress calls |
| `ScanInv` | the inductive invariant of `Scan`, in three parts: `BaseInv` of jobs and counts, `ReadInv` of what has been read and is still ahead, `CallsInv` of what the receiver has heard |
| `ScanProofs` | TLAPS proofs about `Scan` |
| `Frames` | `write_frames`: the calling thread, the workers, the orderer, their channels |
| `FrameStream` | what `write_frames` promises its caller, without threads |
| `FramesInv`, `FramesProofs` | the inductive invariant of `Frames`, and proofs |
| `PartTables` | a part as it is filled: the tape of texts with its limit, the stem, the tables, node numbers |
| `Fill` | `read_metadata` and `read_file_metadata` over `PartTables`: the chain of open directories, under any failure |
| `FillInv`, `FillProofs` | the inductive invariant of `Fill`, and proofs |
| `ManifestFile` | `write_file` with short, failed and killed writes; the seek table; parsing, and reading of parts; damage |
| `ManifestFileInv`, `ManifestFileProofs` | the inductive invariant of `ManifestFile`, and proofs |
| `Listing` | `Directory::list` of the three readers and of the nt crate, with the `Listing` they fill, sort and search |
| `ListingInv` | the inductive invariant of `Listing` |
| `Readers` | `Listing` with link targets: `read_link` of the three readers, reparse points, `user_path`, the scan's text |
| `ReadersProofs` | TLAPS proofs about `Listing` and `Readers` |
| `MCCut`, `MCAssembly`, `MCScan`, `MCFrames`, `MCFill`, `MCManifestFile`, `MCReaders` | what TLC runs |

How they compose: `Assembly` extends `Cut`, and each of its actions is one of `Cut`'s in conjunction; `Fill` extends
`PartTables`, and `Readers` extends `Listing`, with actions over the variables of both. What one component assumes of
another is what the other's model promises: `Scan` lets the environment choose sorted listings that may break off,
which is `SortedAndFound` and `ListedOrFailed` of `Listing`; `Cut`'s sink may fail at each part, which is what
`FrameStream` lets it do; `ManifestFile` gets whole frames in order, which is what `FrameStream` promises of
a write that succeeds.

### `Cut` and the code

A behaviour is the walk of *some* tree: at every visit the directory may have one
more file or link (`Leaf`), one more directory (`Enter`), an unreadable entry
(`FailedEntry`), or nothing more (`Finish*`). So TLC explores every tree within the
bounds, and the code's decisions never depend on rows that have not come yet.

| code | model |
|---|---|
| `Walker` fields `base`, `position`, `total`, `path`, `stack`, `measuring`, `completed` | variables of the same names; `path` is a sequence of names, and a name is the position of its row |
| `Level` | the record made by `Level`; `stack[i]` is the code's `stack[i - 1]`, so `measuring` is one more too |
| `usize::MAX` in `run_first` | `NoRun`, past every position |
| `run`'s loop | `pc = "visit"`, and `pc = "budget"` / `"offer"` inside `check_budget` and `split` |
| `leaf`, `enter` | `Leaf`, `Enter` (with the failed listing under `Fail`) |
| `check_budget`, `split` | `WithinBudget`, `Split`, one `Offer` per drained child, `Offered` |
| `add_to_run`, `finished` | `AddToRun`, `Finished`: operators, as they are calls inside handlers |
| `finish_level` | `FinishRoot`, `FinishSplit`, `FinishMeasured` |
| `seal` | `Seal`, part of each action that calls it; the sink or the assembly may fail |
| cancel flag | `Cancelled` |

`rows` and `parts` are history variables: the rows so far, and what the sink took.

### `Assembly` and the code

Each action is one of `Cut`'s in conjunction with what the same handler does to
rows; `SkippedItem` and `ReadOn` change nothing `Cut` sees. A scan is the sequence
of its visited items and is named by its place in `scans`, which stands for the
`Arc` that `extend` compares. `Extended` is `extend`, `Drain` is the loop in `seal`,
`SplitOffFront` is `split_off_front`, `Assemble` and `Push` are `CutList::assemble`
and `push`, with `PushAll` for its loop over a range. `Node`, `NodePaths`, `Path`, `FirstPath`, `Entries` and `WalkOrder`
read a part as `TreePart` does. `Counts` and `Seen` are running sums of rows, over ranges and over the items of a scan;
all loops are recursive functions, so that the proofs can follow them. `Entries` puts each entry at its rank, which is
what sorting does. Names that sort bytewise are positions that sort as numbers, since
siblings come sorted from the listing. Text indexes are replaced by their strings.

### `Scan` and the code

The reader is Linux's: `HOLDS_A_HANDLE` and `STATS_ITSELF` are true, and a listing that breaks off keeps what it
has read. The environment chooses each listing as it is read, which entries the filter refuses, which cannot be
opened or read, and when the process has no descriptor left. Files and links are one kind, and entries skipped for
their kind, name or link target are another; `Metadata::Kinds` only takes failures away.

| code | model |
|---|---|
| `Job`, `Work` | the records of `DirectoryJob` and `RestJob`; a directory's job has its path as history (`of`); `opened` is the field of `Work::Directory`, and what a `Work::Rest` shares through its `Arc` is in `KeepsOpen` and `OpenDirectories` |
| `window_end`; the loop over later windows | `WindowEnd`; `LaterStarts` |
| `Held`: `try_hold`, `let_go`, `ran_out` | `held` and `limit`: `MayHold`, the changes of `held`, `RanOut` |
| `take` with its release callback, `Job::release` | `Take`, `Released` |
| `fill`, `open` with its retry | `FillRefused`, `FillOpened`, `FillRest`, `Open`, `OpenStarved` (tried again, or given up), `List` |
| `entries`, `offered`, `file`, `entry`, `open_ahead` | one action per entry: `EntrySpecial`, `EntryRefused`, `EntryFile`, `EntryDirectory` with `OpenAhead` |
| `report`, `skip`, `recorded` | `Reported`: the calls of the receiver; each skipped call is also one in `Scanner::skips` |
| `run`, `visit`, `enter`, `read_on`, `finish_level`, without the cuts | `Visit*`, `Report`, `ScanFails`, `ReadOn`, `Leave` |

`Cut` has the same loop and makes the decisions about cuts; `Scan` has what is read. They share the order of visits and
no data but the items, so each is checked without the other.

### `Frames` and the code

A part is its number. `main` is the calling thread: the walk seals a part
(`SealPart`), sends it (`SendJob`, or `SendFails` when no worker is left), ends, joins
the scope (`LeaveScope`) and writes the index. A worker sets up its encoder, takes the lock,
receives, encodes and sends; each of these may fail or panic where the code can.
`Stop` drops its channel ends, and with the last receiver the queue. The orderer
receives, holds back what is early, and calls the sink. Channels behave as
`std::sync::mpsc`: a send fails when the receiver is gone, a receive when the queue is
empty and every sender is gone.

### `PartTables`, `Fill` and the code

| code | model |
|---|---|
| `StrTape` | `tape`: `arena` and `offsets`; indexes count from 0, as in the code |
| `TreePart` | `tape`, `stem` and `tables`; a row's `texts` are its indexes, `called` is history: what was pushed |
| `push_stem`, `push_directory`, `push_file`, `push_symlink` | `PushStem`, `PushRow`, `PushSymlink`; `SymlinkRefused` leaves the name on the tape. Other refused pushes change nothing |
| `node` | `Above` |
| `Chain { open, nodes }` | `open`, `nodes`; an open directory is the nodes opened one below the other to reach it |
| `Chain::enter` | `Enter`: the common nodes are kept, and the way is opened as far as `reached` |
| `read_metadata`'s loops | `ReadHere`, `ReadBelow`, `StatFails`, `EnterFails`, one row each, in the order of the tables; `index` is how far they are |
| `read_file_metadata` | `ReadOpenFile` |

### `ManifestFile` and the code

A file is a sequence of cells: a field of the seek table or a byte of a frame. Reading is by operators, as it changes
nothing: `Locate` is `Zstd::locate`, `Decode` and `DecodeIndex` are the decoding, `Parse` is `ManifestFile::parse` and
`PartJson` is `part_json`. Writing is by actions: `PartFrame` and `IndexFrame` are the sink of `write_frames`, `Write` is one
`Counting::write` inside `write_all`, `Trailer` and `Flush` are the end of `write_file`. `Stops` is every way to end early, with
any part of what was written on the disk. `Damage` changes one cell of a whole file. Compression is external: frame
`k` is known by its number, and its checksum lets only the whole of it through.

### `Listing`, `Readers` and the code

One module models the three readers, as they fill the same `Listing`; `reader` says which it is. `Entry`, `EntryFails`,
`KindFails` and `EntriesEnd` are the loops of Linux and of the portable reader; `Call`, `ReadRecord`, `RecordsEnd`, `NoMoreFiles` and
`CallFails` are the loop of `Directory::list` in the nt crate with the callback of the Windows reader. The buffer of the calls keeps
what earlier calls wrote; `written` is what the call claims, and `honest` is history: whether the claim was true so
far. `Sort` and `Found` are `Listing::sort` and `find`; a binary search may probe anywhere, so `Found` is a set of places. `Visited` ends
the use of a listing, and its buffers go to the next. `ReadLink` reads a target as each reader does
(`LinuxTarget` with its second read, `PortableTarget`, `WindowsTarget` through `ReparseTarget` and `UserPath`). Linux and the
portable reader check the whole target and then append it (`PushText`). Windows appends it to the scan's text unit by unit:
`coming` is what is still to be appended, `AppendUnit` takes one unit, and at one that is no text cuts the text back to
`start` (`Undone`), and `AppendEnd` is the end of the loop. `before` is history: the text that `read_link` was given. `Symlink` is
`Reading::symlink`. A name is a sequence of bytes, with one value for what is no text; on Windows a byte stands for a
UTF-16 unit. A prefix is a number of base 256, as in the code, of as many bytes as `PrefixLen` says.

## 3. What TLC checks

| run | bounds | what it shows |
|---|---|---|
| `cut_rule` | budget 3; estimates 1, 2, 4; 5 rows; 5 levels; `Fail` | the cuts are the rule's; fitting directories are whole; own rows are with their contents; runs fit the budget; what waits is bounded; stems are the ancestors; parts tile the rows; the inductive invariant holds; every walk ends |
| `cut_memory` | budget 1; 7 rows; 7 levels | a finding, see 5 |
| `assembly` | budget 2; 5 rows; 4 levels; one skipped item; one later scan | waiting ranges are exactly the rows from `base` to `position`; parts read back to the paths and kinds of their rows; a search of the index finds every directory; the walk takes only `Cut`'s steps |
| `scan` | 4 entries; 3 levels; windows of 3 entries or 2 directories; 2 held directories; both policies | the count is the directories that jobs hold; a directory is given up only when what waiting jobs keep open is shared by later windows and cannot be released; jobs belong to their items; rows are the listed entries in walk order, up to the first failure under `Fail`; each call is made once |
| `scan_calls` | 3 entries; 2 levels | a finding, see 5 |
| `frames` | 2 workers, 6 parts | success is complete and in order; failures are reported and have causes; backlog and lateness are bounded; no thread is stuck; every write returns; the pipeline implements `FrameStream` |
| `frames_walk_error` | 1 worker, 2 parts | a finding, see 5 |
| `manifest_file` | 3 parts; frames of 1 or 2 bytes; lines that can be read, that cannot and that do not fit the table; a table that does not fit | a whole file of this version reads back; nothing else is taken for a manifest; damage is never misread and stays in its part |
| `file_limit` | 1 part | a finding, see 5 |
| `fill` | 2 components of the stem, 3 rows, a tape of 5 bytes | every text reads back; each row gets the metadata of its own path; unread rows are counted; the inductive invariant holds |
| `readers` | 3 entries, 2 directories, one failure | entries are the directory's own; each is listed or reported; order and search; targets lead to the same file; of a refused target nothing stays, though units of it were appended |
| `readers_lossy` | 2 entries, 1 directory | a finding, see 5 |

Deadlock is checked where the system runs to an end of its own: `cut_rule`, `assembly`, `scan` and `frames` have a step
for having ended. It is off in `manifest_file`, `fill` and `readers`, where a write, a reading or the last listing is over and
nothing more happens.

### Why the bounds are enough

*Cut.* What is decided at a row depends on how estimates compare with the budget,
alone and summed. With budget 3 and estimates 1, 2 and 4 a row alone can be below or
above, and runs end below, at and above it. Five levels and five rows hold a split inside a
split, with a run before, between and after, and a chain of directories that pass the budget at one row, so that
`check_budget` loops and drains slices out of the middle of `completed`. Deeper nestings are left to the proofs.

*Assembly.* Budget 2 puts a finished subtree and a later sibling into the same part, and makes parts start inside
nested directories, so that stems have two components; with five rows a range is split by a seal, and one
skipped item and one later scan are enough for a range to be broken in both ways.

*Scan.* Four entries make a window that ends at its second directory, one that ends at its third entry, and a later scan
after each. Two directories can be held on one level or on two, so that a release must reach an outer level, and a third finds
the limit reached. Every fault may happen at every call, any number of times.

*Frames.* The queue has as many slots as workers. Two workers can finish out of order,
stop one before the other, and hold the lock while the other waits. Six parts
fill the queue, both hands, the channel and `early`, and leave one for the walk to be
blocked on.

*ManifestFile.* Three parts and the index give four frames, and the table of four does not fit its size field, so both
limits of the table are met. A frame of two bytes can be written in two steps and cut in two; sizes 2, 5 and 11 are
below and above the limit of reading and above that of the table. Every cell is damaged to every number a field can hold
that matters: small counts and sizes, the checksum flag, both magic numbers.

*Fill.* Two components of the stem and three rows give ways of up to three nodes, with a common part of any length, and rows
before and after a failure. A text of two bytes fills a tape of five after one more, or leaves room for a name without its target.

*Readers.* Three names of which two have the same prefix and two are equal when shown; a second listing meets the buffers of the
first. Four cells of buffer hold two records, so a chain has an end, a middle and stale records behind it. Three
entries pass the limit on names and two do not, so a failure is due in a directory by its own names only, and must not
come from those of the directory before. The reparse points are
one of each form that `reparse_target` and `user_path` tell apart, at, below and above the length limit.

Each property also has a mutant in `PROJECT.json`: a plausible bug in a modelled definition that
the run then finds.

### Fairness

`Cut`: weak fairness of the step: the walker is one thread, and scans and the sink return. Every
tree is finite, which the bound on rows states. `Frames`: weak fairness of
each thread. Threads are scheduled, the walk, the codec and the sink return, and an
unfair mutex is enough, since a worker that waits for the lock forever while others take the
parts does no harm. No step is assumed to succeed: every fallible one may fail each time. The other modules
state no fairness: they are sequential, and their properties are of safety.

## 4. What TLAPS proves

All for every value of the constants.

`CutProofs` has two parts. The first is about the state of the walk: `WalkStateIsConsistent` (`Spec => []IInv`), and from it `TypesHold`,
`EveryRowInOnePart` (`PartsTile`), `EveryStemIsOpen` and `PathIsRight`. The properties are not inductive: that a seal
never reaches past the stack needs to know where the run of the innermost split level starts
(`RunInv`: at an entry of that level, with nothing waiting before it but own rows of open directories), that an
offered child lies in that level (`OffersInv`), and that a drained slice of `completed`
is that level's own (`CompletedInv`, `InSlice`), which in turn needs the nesting of levels
(`LevelsInv`). There is one lemma per action. `AddToRun`, `Seal`, `SplitLevels` and `Pop` have lemmas of their own,
as several actions share them. Assumed: budgets are naturals and estimates positive, as
`estimate` adds a fixed width to each row.

The second part is about the promises of `CutParts`: `PartsAreConsistent` (`Spec => []PartsInv`), and from it `WholeDirectoriesAreKept`
(`FittingDirectoriesAreWhole`), `PartsStayWithinBudget`, `StemsAreAncestors`, `OwnRowsGoWithContents` and
`WaitingStaysBounded`. These compare parts with the tree as it is in the end, while the cutter knows only sizes
so far. What waits has a shape that each handler keeps (`PartsInv`): before the open run nothing but own rows of
directories that are cut (`RunIsInv`), in the run none but the directories that are still open, and then finished
children that are all of the rows since, one after the other, each with the total of its whole subtree and within the
budget unless it is one row (`Cover`, in `OfferedInv` and `ChildrenInv`). Of the parts that are sealed the same
is said at every state, of the tree as far as it is known: a directory whose subtree is complete does not grow
(`EndsInv` says what follows a part), and one that is cut is past the budget already. Totals are a recursive
function over the rows, and the lemmas about them go by `NatInduction`.

The third part is `CutsAreTheRules` (`CutsMatchRule`): the parts of a walk that ends well are those of the tests' recursive
rule over the finished tree, for every tree, budget and set of estimates. Its two halves:

- An invariant, `RunsAreGreedy` (`Spec => [](IInv /\ PartsInv /\ GreedyInv)`). `PartsInv` says that a part is not too large;
  `GreedyInv` adds that it is no smaller than it must be (`Greedy`, `Shape`): its run ends where its directory does, or before a child that
  is cut or does not fit beside it, and its own rows are of directories each in the one before. A run that ends with the rows
  so far is right only when its directory can get no more entries, so `Greedy` also has the depth of the stack in it. That no entry is passed by when
  a level is split needs `KnownInv`: every finished entry of a measuring level is in `completed` or still in `offers`.
  `DepthsInv` and `WaitInv` say the same of depths and of the own rows that wait.
- The finished tree. The rule is a recursive function on calls (`Calls`: the children still to come, and the rule's carry, group,
  bytes and parts), and `SplitExists` shows that there is one: each call makes others at later rows only, so it is built from
  the last row back (`SplitIs` is its equation). Then, from the last row to the first (`RuleEverywhere`): called at a row with the parts
  made before it and the rows of the next one gathered (`Halfway`, `Holding`), it makes the rest of that directory's parts and is left with nothing
  gathered. At each row either the rule closes its group and a part ends there, or neither (`RunEndsWithDirectory`,
  `RunEndsBeforeCut`, `RunEndsBeforeUnfit`, `RunGoesOn`, `OwnRowsGoOn`, `EmptyCutLeaves`).

`AssemblyProofs`: `WalkIsOneOfCut`, the walk with its rows takes the steps of `Cut`, so `IInv` and `PartsInv` hold of it. The
one step that is not `Cut`'s by its form is `read_on`, which cuts the path back; by
`PathInv` it is that long already. `AssemblyKept` is `AssemblySpec => [](IInv /\ PartsInv /\ AssemblyInvariant)`, and from it
follow `WaitingIsRight` (`WaitingIsTheRows`), `PartsAreReadBack` (`PartsReadBack`) and `DirectoriesAreFound`
(`SearchFindsDirectory`), for every tree, budget and number of scans and skipped items. The argument has three steps.

- What waits (`RangesAre`): each range lies in its scan, and the rows among its items are consecutive positions of one depth,
  from where the range before it ended. `Extended` adds a row at the end, and `Drain` splits the ranges at any number of
  rows (`DrainRanges` and the lemmas on `Seen` and `Counts`). A scan only grows at its end, so nothing that waits changes
  when another row is visited; that a row is one item of one scan is `ScansAre`.
- What is assembled (`PartIs`): while the rows are pushed, each depth up to the last row's has the node of the directory open
  there (`Ready`), and a row's node leads to the directories above it (`Leads`). That the nodes of a depth are there when
  a row needs them is because the rows are a tree in walk order (`Tree`), in which what is deeper than the row before it is an
  entry of that row. The stem covers the directories that are in earlier parts (`StemsNameAncestors` of `CutParts`), and
  is the same when the part is sealed as it was when the row was visited.
- What is read: the paths of nodes found from below are those the part was made with (`NodePathsAre`). Walk order over
  paths is the order of positions (`WalkOrderIsPositions`), and a path is a prefix of another exactly if its row is a
  directory above the other's (`InsideIsPrefix`). So sorting the three tables by path puts the rows back
  (`EntriesAre`), and the first path of a part is that of its first row (`FirstPathIs`); with the parts tiling the walk
  (`PartsTile`), what the search selects are the parts with a row of the directory (`SearchIs`).

Assumed: the model's bounds are naturals, and what `Cut` assumes.

`FramesProofs`: `TypesHold`, `PartsAreKept` (`[]IInv`), `CompleteWhenOk`,
`NoFailureIsLost`, `EveryErrorHasACause`, `OnlyPanicsLoseParts`, `SendErrorsAreExplained` and
`StepsAreTheStreams`, for any finite set of workers and any number of parts. `IInv` says where each part is: the queue
holds the last ones in order; each part that was taken is in one place at most
(in a hand, in the channel, held back, or handed out); and while nothing has failed, in one place exactly. That
last conjunct, `CleanInv`, is what makes a success complete. `BacklogIsAlwaysBounded` and `WalkAlwaysStopsSoon` count:
the parts sealed and not encoded are in the queue, in the hand of a worker that is not done with one, or in that of the
walk (`CountsInv`), and after the orderer has stopped each of those can be filled once more at most, since
a worker that sends then stops.

`ScanProofs`: `HeldIsAlwaysCounted` (`HeldIsCounted`), `JobsAlwaysMatchItems` (`JobsMatchItems`) and
`AlwaysGivesUpWithNoneToClose` (`GivesUpWithNoneToClose`), from `BaseInv`, and `RowsAreAlwaysUpToFirstFailure` (`RowsUpToFirstFailure`), from
`IInv`, which adds `ReadInv`; for any limit on held directories, any bounds of a window, and all listings, refusals and
failures. In both, the scan being made is looked at as the level that it will be (`Inner`, with `Outer` around it), so
that the same is said of a level while it is read, when it is handed over and while it is walked. The count of held
directories is that of the jobs of all levels and the one in hand (`HeldInv`), and the jobs of a level are those of its
directory items, in their order (`Match`); lemmas say how a release, a window or a hold changes both.
When a directory is given up the count is zero, so no directory's job holds one; a job of a later window is of the level it
waits on, and so what stays open is that level's own directory (`OnlyListedOpen`).
`RowsUpToFirstFailure` speaks of the end only. Before it, the rows come before all that the walk has still to come to
(`Ahead`: the items left, the rest of the running window, the later windows, of every level), and all that goes into a
row is in one or ahead (`GoesInv`). Under `Fail` that is not so: a window is given up at its first failure, and then
what follows in the same directory is neither. But every failure is ahead then (`FailInv`), so what the walk meets
first is the first in walk order, and nothing before it is missing. That windows tile the listing is `RestInv`, and that
all of an inner directory is before what is ahead on the outer ones is `OuterInv`, on lemmas about walk order over paths.
`EveryCallIsOnce` (`EveryCallOnce`), from `FullInv`, which adds `CallsInv`: at every state the calls are those of what
scans that are finished have come to (`Reached`), and of the directories in rows, each once (`CallsAre`). A scan says
something of a path only if no scan before it has (`Fresh`), and a step of the scan disturbs nothing else. That
it then leaves nothing out is `SeenInv`: what lies between the start of the window and its place is an item unless the
filter refused it. Skips are told apart by path alone, so that a listing that breaks off is not mistaken for an entry
that cannot be read needs `ZeroInv`: only a directory that is in a row is listed at all.
Assumed: `ScanAssumption`, naturals as limits and windows of at least one entry and one directory.

`FillProofs`: `Invariant` (`Spec => []IInv`), `TextsAlwaysReadBack`, `MetadataIsOwn` and `UnreadAreAlwaysCounted`, for all texts
and every bound. `OwnMetadata` is not inductive: that a row was read in its own directory needs that the open directories are
those of the noted nodes after every `enter`, also one that broke off (`ChainInv`, lemma `Entered`), that no node moves when
metadata is set (`NodesStay`), and that nothing is read while the part still grows (`TurnsInv`). `TextsReadBack` needs
that every index is on the tape (`NamesInv`) and that offsets are within the text (`TapeInv`): then a push leaves the
slices before it alone (`PushedText`). The count needs that rows before their turn are unread (`TurnsInv`), so that the
set of unread rows grows by exactly the row left out. Assumed: texts are sequences of bytes.

`ManifestFileProofs`: `AlwaysTheStartOfTheFile` (`Spec => []IInv`), and from it `WrittenAlwaysReadsBack`,
`OnlyWholeFilesAreEverRead`, `DamageIsNeverMisread` and `DamageAlwaysStaysInItsPart`, for any number of parts, any lengths and
limits, and a write that ends anywhere. The invariant is about the stream: what went through `Counting`, with what is left of
the current `write_all`, is the start of the whole file (`StreamInv`). The rest is about reading, and needs no step of the
writer. Reading trusts numbers that it finds from the end: a count, and lengths that must add up to where the table
seems to be. The proof goes the other way. If anything is read, the last span decodes to the line of the index, and only at
one place of the file are the bytes of that frame (`ByteAt`), so the span is there and the table where it was written
(`ParseFinds`). Then the size in the table's head, if it is the one written, says that the file is all there (`PrefixRead`); and a
length changed in one row would move the end of the last frame (`DamagedLens`, on `SumsCompared`), so every part's span is
its own (`DamageRead`). Assumed: lengths are positive, and the model's own assumption that no byte of a
frame reads as a number of the table.

`ReadersProofs`, about listings: `ListingKept` (`Spec => []ListInv`), and from it `ListingIsOwn` (`EntriesAreOwn`), `NoneLeftOut`
(`ListedOrFailed`) and `ListingIsSortedAndFound` (`SortedAndFound`), for any directories, any number of listings, all three
readers, and any buffer, limit and length of a prefix. The properties speak of a listing that is done. While it is made, the
invariant says where each entry of the directory is (`Accounted`): listed, with a failure, still to come from the system,
or in the buffer and not yet read. The last is the hard one. The buffer holds what earlier calls wrote, and the call
says how much of it is its own; by `ChainIs` the reader is at a record of this call's chain or at the end of what a false claim lets it see, and as long
as the system is honest the records ahead of it are exactly those of the batch that have not been read (`Ahead`).
`EntriesInv` says that the names of the listing are the entries' own and nothing else, which is what makes the limit count this
directory only (`LargerInv`). That the order is that of the names though the sort compares numbers is `PrefixKeepsOrder`: if one
prefix is the smaller number, its name comes first, by induction over the bytes, and names with one prefix are compared in
full. `SearchFinds` goes by induction over the length of the range that is left: whatever place is probed, the half given up has no entry of
that name.

`ReadersProofs`, about links: `LinksKept` (`Spec => []LinksInv`), `LinksLeadTheSame` (`TargetsLeadTheSame`) and `NothingAppended`
(`AppendsNothing`). Targets are read, appended and perhaps cut away again; `LinksInv` says that the links end before what was read
last, so that no cut reaches them (`TextGrows`, `PartsOfMore`, `TextCut`, `LinkAdded`). In the middle of a Windows target the text up to `start` is
`before`, and what is past it, followed by what is coming with slashes for separators, leads where the target does (`ComingIs`):
one more unit keeps that (`UnitAppended`), at the end the whole target has been appended (`AllUnitsAppended`), and a cut to
`start` gives `before` again. What is appended is right by itself. A reparse
point of which only some cells were written is refused, or its name is whole (`TargetIsWhole`). `user_path` has three outcomes:
the path as it is (`VerbatimLeads`), from the letter of a drive (`DriveLeads`), and with one separator in place of a letter of the
prefix (`ServerLeads`); a path of the second form begins like no other form, and one of the third is not taken for the first
since no server's name begins with a question mark. What `GetFullPathNameW` does to a path plays no part, only that it leaves the shorter one
alone.

Assumed: a directory's entries are finite and called as none of the dots, names are bytes, and `TargetsAssumption`: no
name that Windows gives has a slash or a question mark in it, which are both forbidden there.

`TypeOK`, `StemIsOpen`, `PathNamesLevels` and `ErrorsHaveCauses` are proved, and so are in no run of their own.

Model-checked only: liveness (`Terminates`, `Returns`). Every other property of a passing run is proved.

## 5. Where the code and its documentation differ

- `src/walk.rs:54` says that the rows that wait "add up to less than about two budgets". The own rows of
  directories that are being cut wait as well, one for every level of a chain of directories, and no budget counts them
  (`cut_memory`). What does hold is `WaitingBounded`: besides those rows, one run and one measured directory.
- `src/walk.rs:194` says that without threads the calls of the progress receiver come in walk order. A scan makes its
  calls when the whole window is read, before the walk enters the directories in it, so the receiver hears of a later
  sibling before it hears of entering an earlier directory (`scan_calls`). What does hold: each call is made once
  (`EveryCallOnce`), and rows are in walk order (`RowsUpToFirstFailure`).
- `src/frames.rs:46` and `:159` say that when the walk failed its `WalkError` is in the report. When the orderer
  has an error too, that one is returned, and the walk's is dropped (`frames_walk_error`).
- `src/zstd.rs:76` gives 1 GiB as the most one frame may decompress to. `decode` keeps to it, but writing does not: a line of
  1 to 4 GiB is written without an error and cannot be read back (`file_limit`). What does hold: with lines below
  the limit a whole file reads back (`WrittenReadsBack`).
- `src/walk.rs:160` says that `Listing::contains` is true if the directory holds an entry of that name. A name that is no
  text is listed by a lossy copy, which may be equal to another entry's name; the search ends at either, and `contains` may
  say no (`readers_lossy`). What does hold: a name is found exactly if it is listed (`SortedAndFound`).

## 6. What is not modelled

- The JSON of a part and the printing and argument parsing of the CLI: formatting. The skip counts in the index.
- Compression: a frame is known by its number, and only whole frames decode.
- Opening directories and reading metadata: single system calls that succeed or fail in `Scan` and `Fill`. The conversion
  of times and permissions.
- `Kind::Unknown` of some file systems, which costs one more call; the portable reader on Windows; the block of names at
  the start of a scan's text.
- Memory safety of the unsafe calls in the nt crate; `sys/stand_in.rs`, which is test code.
- Buffers that are reused in the scanner (`Scratch`) and room that is reserved: they change no result. The buffers of
  listings are modelled, as their contents could.
- `MAX_HELD` as a limit on what is open (`src/walk/scan.rs:19`: "the most open directories that waiting jobs may hold between
  them"): `Held` counts what jobs of `Work::Directory` hold. A directory listed in more than one window stays open beside
  those until its last window is read, and no count includes it, so more than `MAX_HELD` can be open; on one walk at most
  one for each level (`GivesUpWithNoneToClose` says which).
- A call of the Windows driver may misreport how much it wrote, or leave its chain of records unended, but not both at
  once. That no record of an earlier call is read (`EntriesAreOwn`) is to be read so.
- `Unit::Whole`, `Subtree`, `unfold`: nothing constructs them at this commit.
- In `Cut` and `Assembly`, `TreePartFull` (4 GiB of names, 2^32 nodes) is a failure that a seal may meet; its size is in
  `PartTables` for texts. The limit on nodes is the same check on another number.

## 7. Plan

Done: the modules of section 2.

Next: the names of `Assembly` as indexes on the tape of `PartTables`, as a refinement.
