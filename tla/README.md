# A verification of the FAT32 file system

The repository is a file system in C for a course: a shell (`fsshell.c`) over a
volume in a host file, with a file allocation table, directories and buffered
files. This directory holds TLA+ modules of its parts, TLC runs of them on small
volumes, and theorems about them that TLAPS checks.

* `*.tla` modules: components, `MC*` with values of constants for TLC, `*Proofs` for TLAPS
* `*.cfg` one per run
* `PROJECT.json` the components, the runs, the source lines each definition
  stands for, the hazards, and the disagreements between code and documentation

Run a check with `tlc -config X.cfg Module.tla`, a proof with `tlapm XProofs.tla`.

## 1. The system

| part | state | operations |
|---|---|---|
| allocator, `fat.c` | `fatBuffer` (the table: the next cluster of each), `firstFreeCluster`, `totalFreeSpace`; on disk two copies of the table and `FSI_Nxt_Free` in block 1 | `fatInit`, `alloc(n)`, `release(start)`, `nextBlock`, `returnBlockSize`, `calculateTotFreeSpace` |
| volume, `fsInit.c`, `VCB.c` | block 0 with its magic number, its copy in block 6, the layout (`fatSize`, `dataStart`, `rootStart`, `rootSize`) | `initFileSystem`: format or mount; `initVCB` |
| directories, `directory.c` | 64 entries in four clusters for each, "." and ".." first; `currentDir`, a text | `parsePath`, `fs_mkdir`, `fs_rmdir`, `fs_delete`, `fs_setcwd`, `fs_isFile`, `fs_isDir`, `fs_stat`, `fs_readdir` |
| open files, `b_io.c` | `fcbArray`: for each descriptor a block buffer, a position, a copy of the entry and of the whole directory | `b_open`, `b_write`, `b_read`, `b_seek`, `b_close`, `commitDE` |
| shell, `fsshell.c` | none of its own | `ls cp mv md rm cp2l cp2fs cd pwd` |
| block device, `fsLow.h` | the blocks | `LBAread`, `LBAwrite` (object file only) |

They call each other downwards: the shell calls files and directories, these call
`alloc` and `release` and write blocks, the allocator writes its table after every
call. What they share is kept consistent by nothing but the order of calls:

* a directory entry names a chain by its first cluster; the allocator knows
  nothing of entries;
* an open file keeps a copy of its directory from `b_open` to `b_close`;
* the end of every loop over the table depends on every earlier call having left
  the table well formed: no loop looks for a cycle or for the end of the table.

There is one thread and no interrupt. So the hard behaviours are not interleavings
of threads but: long sequences of legal calls (allocation, release, reuse); a
program that stops between two disk writes and is started again; calls that go on
after another one refused; the copy of a directory that has gone stale; and the
edges of blocks, of the table, of a full directory and of one-byte locations.
Where each of them bites is listed under `hazards` in `PROJECT.json`.

What makes each part correct:

* allocator: every cluster has exactly one owner at every moment, no walk leaves
  the list it is on, the count is right, what is on disk is what is in memory;
* crashes: a crash costs at most the chain in progress, outside of the windows that
  section 2 names;
* volume: a start ends, with a sound list, whatever earlier starts did;
* directories: the names form a tree that changes by one name per call;
* files: what is read is what was written, and no file touches another's blocks;
* shell: a copy appears whole or not at all, `mv` never loses the only copy, every command
  ends, and `ls` shows what is there;
* entries: the location that is read is the one that was stored.

## 2. The modules

### ChainStore, FatAlloc: the allocator

`ChainStore` is what the allocator promises: the free clusters are a sequence,
`Take(n)` cuts a chain from its front, `Give(h)` puts one back before it.
`FatAlloc` is the code: `fatBuffer` with links, each iteration of the loops of
`alloc`, `release` and the mount's count a step (`pc`), each assignment group after
them, and each `LBAwrite` a step, so that every intermediate table is a state.
`chains` is the only history variable: the first clusters that callers own.
`ChainSeq` follows links to a sequence, and `Abstract` is `ChainStore` over these sequences.
`Requests` bounds what is asked for; callers release only chains they own.

### FatCrash: the callers, and crashes

Extends `FatAlloc` with the order of writes around it: create (alloc, then the
entry), grow (`b_write`: release, alloc one longer, then the entry), delete
(release, then the entry), and `Crash` at any step followed by the mount. What an
entry on disk names is the set `entries`. Three windows
are stated as what holds outside of them:

1. `Exposed`: from the write of the released table until the entry is cleared
   (delete) or the file has its longer chain (grow), the disk names clusters that
   are also free. Outside it the disk is sound (`SoundOutsideWindows`).
2. Between the table's write and that of `FSI_Nxt_Free`, a crash in `alloc` leaves a
   list that begins in the new chain, and one in `release` leaves the chain outside
   every list: clusters are lost that were not in progress. Elsewhere a crash
   costs no more than the chain in progress (`CrashCostsTheChain`).
3. A refused growth ends with a file whose chain was released.

A volume whose disk was left unsound is not followed past the crash.

### FileIO: open files

One directory, files of a few bytes in blocks of two or three; a byte is a pair of a
name and a position, so that a byte of another file, of another position or of
an earlier file in the same cluster is told apart. Every branch of `b_write` is an
action (`FirstBlocks`, `FirstBlock`, `FillBuffer`, `FillAndGoOn`, `NextBlock`,
`NextBlocks`, `NoBranch`), as are the parts of `b_read`, the cases of `b_seek`, and
`b_close` with `commitDE`. The allocator underneath is `ChainStore`, which `FatAlloc`
implements. `Origins` are whose bytes are written: the files' own in `FileUse`, the host's in
`Shell`; `MaxSize` bounds the sizes, in `Shell` those of the host's files, since a copy is not
longer than its source. `content` and `given` are history variables: what was handed to
`b_write` and what `b_read` gave. A function that ends without `return` (`b_read`,
part 1 when it is just enough) gives what the build of the Makefile gives, the
count.

`FileUse` is a program over these calls: which modes, sizes and positions it asks for
and how many files it has open (`Modes`, `FirstCounts`, `Counts`, `ReadCounts`, `Offsets`,
`MaxOpen`). The passing runs use the calls as the shell does, one file at a time; the uses
and edges that break a property are those of section 4.

### Shell, FileStore: commands

`Shell` composes `FileIO` with the commands that move bytes: `cp`, `mv`, `cp2l`, `cp2fs`, and
`rm` of a file. `Body` is the list of a command's calls and `cmd` its local variables (place,
descriptors, `readcnt`, buffer), one action per call of `b_io.c` or of the host's `open`, `read`,
`write`; `Kill` ends the program between any two of them and `Exit` at the prompt. A descriptor
that cannot be had is -1, as in the code: `b_read` and `b_write` return, `b_close(-1)`
frees what lies before the table, and the build of the Makefile ends there with SIGSEGV, so
`CloseCall` starts the program anew. That is why `mv`, which never looks at what `b_open`
gave, does not delete a file it could not copy.

`FileStore` is what the commands promise: a name is bound to all the bytes of its source
in one step, and unbound in one. `ImplementsFileStore` reads the store off the entries and
the blocks they lead to.

What is left out, named in the module: a command is entered when the volume has room for what it
writes (`alloc` refusing is the row `LastCluster` of section 4), and under a name that is not in
use (`Overwrite`); the file that `cp2fs` copies exists, for closing a new file without a
`b_write` is the row `EmptyFiles`. Calls are whole; `FatCrash` and `DirectoryCrash` look inside.

### Directory, NameTree: names

`NameTree` is what a user expects: a set of paths; a call adds one under a path that is
there, or removes one with nothing under it. `Directory` has the entries: each
directory is a cluster number, with itself, its parent and its slots; `parsePath` goes
from entry to entry through the cluster numbers (also for "." and ".."), and
`fs_mkdir`, `fs_rmdir`, `fs_delete`, `cmd_rm` and `fs_setcwd` do what the code does with
the index, parent and component that `parsePath` leaves behind. `TreeOf` reads the
tree of names off the entries; `ImplementsNameTree` says that it starts as `NameTree`
starts and that every step of `Directory` is a step of `NameTree` or leaves it. (It is
written over `TreeOf(dirs')`, the substituted `Next` being slow to evaluate.)
`fs_readdirs` is the sequence that `fs_opendir` and `fs_readdir` give, `displayFiles` what
`ls -l -a` makes of it: it asks `fs_isDir` and `fs_stat` again for each name, as a path from the
current directory. `LongListingIsTrue` compares the two for the current directory.
`Directory` is one session, from a format to the end of the program.

Not followed: a root that has been removed, and a directory whose location is -1.

### DirectoryCrash: the order of directory writes

Extends `Directory` with `task`, the call in progress. `fs_mkdir` is `alloc` (with the write of
the table), then the parent, then the new directory, in the code's order; `fs_rmdir` and
`fs_delete` are `release`, then the parent; a new file is `alloc`, then the parent. The shell
can die between any two, and a call in a full directory runs to its end with the
index -1 and aborts there. A start afterwards has the `rootStart` of a mount, which is not the
root's cluster. `Exposed` names the two times in which the disk is not sound: from a
`release` until the entry is cleared, and from the parent's write until the new
directory's. `SoundWhenLeft` is what holds outside of them, `OnlyDeathLoses` says which clusters
are lost and when, and `ImplementsNameTree` that one of the writes is the moment in
which the name appears, whatever comes before or after it. A volume left while `Exposed` is
not followed.

### DiskLayout, EntryCodec: numbers on disk

`DiskLayout` is the arithmetic of `initVCB` and `fatInit` for a volume of n blocks:
`Format(n)` makes one.

`EntryCodec` extends it with the locations that entries keep. `memset(field, word, 2)`
stores the low byte of the word twice; the reader takes one `char`, signed on the
target, of each field and joins them with `|`. The codec is exact for -1 and for 0 to
127, and for no other number up to 65535. All other modules take locations to be
kept, so what they show is shown for volumes on which no chain starts at cluster 128
or later.

### Volume: format and mount

`initFileSystem` with each disk write and each iteration of the two loops that follow
lists (`returnBlockSize`, `calculateTotFreeSpace`) a step, `Die` at any time, and `Use`, an
allocation between starts. A table
entry that points outside the table ends the program ("fault"): the only such value
in use is the reserved 0x0ffffff8 of entries 0 and 1, a gigabyte away. `RootBlock` is
the number dataStart + 1 that a mount gives `returnBlockSize`, assumed to be a linked
entry of the table, as it is from a few hundred blocks on.

### How they fit

    ChainStore  <- refined by FatAlloc <- extended by FatCrash
        ^
        +-- FileIO (its allocator)    <- FileUse
        |                             <- Shell, which refines FileStore
        +-- Directory (its allocator) <- DirectoryCrash; both refine NameTree
    DiskLayout <- extended by EntryCodec     Volume

    proofs:  FatAllocProofs (of FatAlloc, then of FatCrash)     CodecProofs   VolumeProofs
             DirectoryProofs <- DirectoryCrashProofs
             FileIOProofs <- FileUseProofs
                          <- ShellProofs

## 3. What is checked

The passing runs; `PROJECT.json` says of each what it shows.

| run | bounds | why they are enough |
|---|---|---|
| `fat_alloc` | six clusters, the root one of them, requests of 1 to 3 | three chains at once, chains of one, two and three clusters, each between others, a refused request, a list that has been permuted; the theorems then remove the bound |
| `fat_crash` | five clusters, requests of 1 and 2 | two files and a third in progress, growth from one to two and three clusters, and a crash after a crash |
| `file_content` | blocks of 3 bytes, seven bytes a file, two names, writes of 1, 2 and 4, one descriptor between restarts | pieces below, across and over a block; files of three blocks; growth by one and by two clusters; clusters reused by the other file |
| `file_all` | blocks of 2 bytes, three bytes a file | all modes, all branches, `b_seek`; the view leaves out the bytes' history, which no property of this run uses |
| `shell` | blocks of 4 bytes, turns of 3, a host file of 5 bytes, two names, two entries, two descriptors, one chain lost by a kill | a copy of two turns, the second shorter and across a block, and of one full turn (a host file that a kill cut); a session in which descriptors run out before a source, a destination or both; commands after a kill |
| `directory` | two names, two slots in a directory, three entries, depth three | two levels, a name freed and used again, relative and absolute paths, "." and ".." at each level |
| `dir_crash` | three names for two slots, depth two, five clusters, three entries | every death between two writes, calls of `fs_mkdir` in a full root, several chains lost one after the other |
| `volume` | 60 clusters, root of four, allocations of 10 | every step of the format, mounts of a volume that is filled step by step; the loops do the same at each cluster |
| `entry_codec` | volumes of 345 to 480, 6450 to 6482 and 19531 blocks, every location to 127 | the smallest volumes, the edge of the sound range and the default one; the theorems have the whole range |

The properties that relate most:

* `NoCrossLink`, `NoClusterLost`: at every step, also half way through a call.
* `AllocStaysOnFreeList`, `CounterIsListLinks`: the counter that `alloc` tests is one less
  than the number of free clusters, and that is why its walk stays on the list:
  the list is never emptied.
* `GrowthKeepsClusters`: release followed by a longer alloc keeps the file's data
  only because the list is last in, first out, in the old order.
* `ReadsContent`, `StoredIsContent`, `OthersUntouched`, `ChainsCoverFiles`: of files.
* `TreeIsSound`, `ImplementsNameTree`, `ChainsAreNamedOnce`, `MadeIsThere`,
  `LongListingIsTrue`: of directories; `SoundWhenLeft`, `OnlyDeathLoses`: across crashes.
* `ImplementsFileStore`: a copy holds two stale copies of the directory at once (each `b_open`
  loads one, each `b_close` writes one back), and only the order of the two
  `b_close` keeps the new entry. `MoveKeepsFile`, `OnlyKillsLose`: when descriptors run
  out or the program is killed. `CopyOutIsWhole`: the loop that ends at the first short read.
* `CallReturns`, `LaterStartsEnd`, `CommandEnds`: the loops end.
* `LocationKept`, `TableHoldsLinks`, `ClustersAreDataBlocks`: where two pieces of code
  compute the same number differently.

### Fairness

The program has one thread and its loops and writes wait for nothing, so a call
that has begun takes its next step: weak fairness of the steps inside a call
(`FairSpec` in `FatAlloc`, `WF_vars(Step)` in `Volume`, the calls of a command in `Shell`).
Nothing is assumed of the user: no call need ever be made. `Die` and `Kill` have no fairness. All other runs check safety only.

Deadlock is checked in every run.

## 4. Where the code does something else

Three runs check a sentence of the documentation that the code does not keep
(`findings` has the quotations):

| run | sentence | what the code does |
|---|---|---|
| `directory_cwd` | `fs_setcwd` is chdir | an absolute path of two components enters the first |
| `volume_half` | the magic number tells whether to format | it is written before the table; a start after a death in between never ends |
| `volume_root` | the root's entries occupy exactly four blocks | a mount measures another list: `rootSize` is 18860 on a new default volume, and below 4 once a file ends soon after block `dataStart` + 1 of the table. `parsePath` then allocates less than `loadDirectory` reads; with the program, a file of 168000 bytes, a restart and `ls` end in abort |

The models have more of this kind, left out of the passing runs by a constant. To see
one, change the constant in the run's cfg; TLC then finds the property violated. Each
has been seen in this way.

| change | property | what happens |
|---|---|---|
| `file_content`: `Modes` with "write" | `StoredIsContent` | `O_RDONLY` is 0, so the branch that truncates (`b_io.c:165`) is never taken |
| `file_content`: `Modes` with "append" | `StoredIsContent` | the position is set to the file's end, the buffer is not: the last block is overwritten (`b_io.c:177`) |
| `file_content`: `MAXFCBS` and `MaxOpen` 2 | `ClosedFilesHaveEntries`, `ChainsHaveOwners` | `b_close` writes the directory as it was at `b_open`, without what was made since (`b_io.c:1019`) |
| `file_content`: `FirstCounts` with 4 | `StoredIsContent` | a first write of more than a block stores its first block each time (`b_io.c:418-441`) |
| `file_content`: `Counts` with 3 | `StoredIsContent` | a write of exactly a block into a full buffer is dropped (`b_io.c:674`) |
| `file_content`: `ReadCounts` with 4 | `ReadsContent` | a read that ends with a whole block gives the block again (`b_io.c:860`) |
| `file_content`: `Offsets` with 1 | `ReadsContent`, `StoredIsContent` | `b_seek` moves the position, the next read starts the block again (`b_io.c:369`) |
| `file_all`: `FirstCounts` with 2 | `ChainsCoverFiles`, `NoStrayAccess` | a first write of exactly a block gets one cluster, and the next write none (`b_io.c:468`) |
| `file_all`: `EmptyFiles` TRUE | `NoStrayAccess` | closing a new file writes through an unset location (`b_io.c:932`) |
| `file_all`: `LastCluster` 4 | `NoStrayAccess` | -1 from `alloc` is used as a cluster (`b_io.c:524`) |
| `shell`: `Overwrite` TRUE | `MoveKeepsFile` | `mv a a` copies the file onto itself and deletes it (`fsshell.c:326`) |
| `shell`: `Overwrite` TRUE | `ImplementsFileStore` | a copy over a longer file keeps the longer size (`b_io.c:165`) |
| `directory`: `NeverRefused` FALSE, `InitFree <- Clusters2` | `TreeIsSound` | -1 from `alloc` becomes a directory's location (`directory.c:545`) |
| `directory`: `Names` and `LongNames <- LongName`, `Paths <- LongPaths` | `MadeIsThere`, `LongListingIsTrue` | a name of eleven letters has no terminator and is not found again (`directory.c:556`) |
| `directory`: `\A p \in Paths : ListingIsTrue(p)` in place of `LongListingIsTrue` | itself | `ls -l dir` shows sizes and kinds of the names as they are in the current directory, or of the line before (`fsshell.c:107`) |
| `dir_crash`: `Paths <- SomePaths` | `RootStays` | after a mount `rootStart` is another number, and "rmdir .." removes an empty root (`fsInit.c:176`) |
| `dir_crash`: `task.op # "remove" => TreeIsSound` in place of `SoundWhenLeft` | itself | `fs_mkdir` writes the parent first (`directory.c:580-599`), though the comments there and README.md:96 have the new directory first: a death in between leaves an entry that leads to old bytes |
| `entry_codec`: a location of 128 | `LocationKept` | one signed byte |
| `entry_codec`: sizes 6483 to 6800 | `TableHoldsLinks` | from 6611 on some tables are too small: `fatInit` writes behind `fatBuffer` |
| `entry_codec`: sizes above 20027 | `ClustersAreDataBlocks` | the 338 of `fatInit` does not grow with the tables |

Two more are plain from a line. `alloc`'s counter counts links, so the last free cluster
is never given (`fat.c:198`). `b_close` frees `buf` and leaves the pointer, so a
descriptor is not used again and 20 calls of `b_open` are all a session has
(`b_io.c:940`; what follows from it is in `Shell`).

## 5. What is proved

Assumptions on constants are the named `ASSUME`s of the modules, which TLC evaluates in the runs.
A theorem that needs more says so in `ASSUME` of its own; the table names these hypotheses.
Each of them excludes a row of section 4, where the code does something else, and only that.

| module | theorems | hypotheses |
|---|---|---|
| `FatAllocProofs` | `TypeCorrect`, `NeverCrossLinked`, `NeverLost`, `AllocNeverRunsOff`, `CounterCorrect`, `DiskIsCurrent`, `ChainStoreIsImplemented` | none: every table size, root size and set of requests |
| | `CrashTypeCorrect`, `NeverCrossLinkedAgain`, `SoundAlways`, `UnsoundInWindows`, `CostIsTheChain`, `GrowthKeepsAlways` | none: any number of crashes |
| `VolumeProofs` | `StartsFindFreeList` | `LastCluster + 1 < RESERVED`: entry 0 holds a number no volume has |
| `DirectoryProofs` | `TreeSound`, `ChainsNamedOnce` | `NeverRefused`: `alloc` has refused no `fs_mkdir` |
| | `NamesUnique`, and `ShortNamesAreUnique` for any names | `LongNames = {}`: no name of eleven letters |
| | `RootIsKept` | none |
| | `TreeIsImplemented`, `MadeIsFoundAlways` | `LongNames = {}` |
| | `LongListingTrue` | `NeverRefused`, `LongNames = {}` |
| `DirectoryCrashProofs` | `SoundWhenLeftAlways` | `NeverRefused`, `RootIsSpared`: no path ends in ".." (or a mount finds the root), so `fs_rmdir` does not get the root |
| | `OnlyDeathLosesAlways` | `RootIsSpared` |
| | `CrashTreeIsImplemented` | `LongNames = {}`, `RootIsSpared` |
| `FileUseProofs` | `TypeCorrect`, `AccessesStay`, `ChainsCover`, `ChainsOwned`, `FilesHaveEntries`, `OthersAreUntouched` | `Calls`, below |
| | `StoredAsWritten`, `ReadAsWritten` | `ByteCalls`, below |
| `ShellProofs` | `CommandsKeepOrder`, `FileStoreIsImplemented`, `CopiesOutWhole`, `MovesKeepFiles`, `KillsAloneLose` | `~Overwrite`: the name to be written is not in use |
| `CodecProofs` | `TableLargeEnough`, `ClustersOnVolume`, `LargerVolumesDoNotFit`, `KeptBelow128`, `LostFrom128` | sizes and locations in the ranges their names give |

### The allocator

The properties of `FatAlloc` speak of what can be reached along links (`Reach`), and
reachability is not inductive by itself: one assignment changes the chain of many clusters,
and a proof would have to follow links by induction. The
invariant `IInv` instead says that there are a label and a rank for each cluster, the
chain it is on and its distance from that chain's end (`Labelled`). A link joins two clusters
with the same label and lowers the rank by one, and no two clusters have the same label and
rank. Then

* `CutLabels`: cutting the free list behind a cluster p gives a labelling again, the
  clusters of rank at least p's becoming the new chain;
* `SpliceLabels`: putting a chain before the free list shifts that chain's ranks;
* `RankBound` (a pigeonhole over `Cardinality`): the largest rank of a list is one less
  than the number of its clusters, which connects the count with the walk;
* `ReachIsLabel`: what a label says is what `Reach` says, so the invariant implies the
  properties.

`InitIsGood`, `AllocBegins`, `AllocCuts`, `Splices`, `Writes` and `Mounts` with their like are
the steps; `Invariance` puts them together.

`ChainStoreIsImplemented` shows the refinement. `ChainSeq` follows a chain by recursion, and a proof
about it needs no induction: the labels give the sequence (`HeadHasChain`: position k is the
cluster whose rank is k - 1 below the head's), so the recursive function can be written down
(`ChainSeqIs`), and it is the only one, since two would differ for the first time somewhere
(`WalksAgree`). `AllocCut` is `Take` (`CutMakesTwo`), the splice of either
branch of `release` is `Give` (`LinkMakesOne`), and every other step, a mount included, leaves
the sequences. So `FileIO` and `Directory`, which are built on `ChainStore`, are built on what
`fat.c` does, for every table size.

### Crashes of the allocator

The second part of `FatAllocProofs` takes these lemmas over. The table in memory is labelled as before, with one
label more, `LEAK`, for the clusters that crashes have lost; their links may be anything. What
the disk holds is a restriction of that labelling (`RestrictLabels`): the chains no entry
records get the label `LEAK`, and the free list is what `FSI_Nxt_Free` leads to. So a mount
after a crash finds a labelled table again. Only between the change of a table and its write does the disk hold
an older table, and then the labelling it had is kept beside the new one (`OldDisk`).
The invariant says exactly where the disk is not sound (`UnsoundInWindows` is the converse of
`SoundAlways`), so the windows of section 2 are not too wide.
`GrowthKeepsAlways` is about `release` followed by `alloc` of more: the clusters that the file had
are the first ones of the free list, in their order, with their links.

### Format and mount

What is on disk is always one of two: no first free cluster yet, as long as the format has not
come to the write of block 1, or a sound table, its copy, and the first cluster of its free list.
`VolumeProofs` shows that each of the writes, a death after any of them and the start that follows
keep that. The start's own loops are in the invariant with what they have counted so far.

### Directories

An invariant over paths from the root would need induction along the path. `Shape` relates
each entry to what it names instead: a chain of its own, of the length that was asked for, and for a
directory one whose ".." is the directory that the entry is in; the root is nobody's entry. `parsePath`
is then taken one component at a time (`ReachedStep`), and what a call does to `Shape` depends on the
one entry it sets or clears. That the walk of a path exists for any length is `WalkExists`, by the least length
for which it would not.

The second part of `DirectoryProofs` shows the refinement of `NameTree` step by step: after an entry was set, what is found
under each path is what was found before, or the new name under its parent (`Grown`); a
cleared entry takes one path away and nothing is below it. Where a name of eleven letters is in use
`isSameName` finds nothing, and the theorem does not hold.

`DirectoryCrashProofs` uses the same `Shape` between the writes of one call. Chains that no entry
names may be there from earlier deaths (`OnlyDeathLosesAlways` says which); each call's intermediate disk is
`Shape` with one chain more, or, while `Exposed`, with one entry less. The refinement places the
change of the tree at one of the writes. `RootIsSpared` is needed for the volume after a mount, whose
`rootStart` is in general not the root's cluster (row `dir_crash` of section 4).

### Open files

`Calls` says how a program uses `b_io.c`: one file open at a time; no new file closed
unwritten; no first write of exactly a block; reads of less than a block; and a volume with
room for a longest file in every entry. Each part is a row of section 4 (`MaxOpen`, `EmptyFiles`,
`FirstCounts`, `ReadCounts`, `LastCluster`). The files, their number, the sizes of
blocks and of all writes that are not the first, the modes and `b_seek` are free.

`Apart` says of the allocator's sequences what `IInv` says of the table: every cluster is in one of them,
once. The chain of a file is long enough for its size and is not longer than the longest
file needs (`NoLonger`); a pigeonhole over the clusters (`Room`) then gives that `alloc` does not
refuse. `NewGrows` and `PlaceGrows` are what a write does to the chain, by any of the branches: the
clusters that the file had come first.
`PutsSpareOthers` is what it does to blocks: those of other chains stay.

### The bytes of files

`ByteCalls` adds to `Calls` what the rows of section 4 about `StoredIsContent` and
`ReadsContent` exclude: files are opened to be read or created, the first write is shorter
than a block, no write is exactly a block, and nobody seeks. All other sizes are free, below and
above a block, and so are the number and the order of the calls and of the files.

Neither property is inductive: between `b_open` and `b_close` the bytes are partly
in the buffer, and what `b_read` gives next depends on where the buffer was filled. `DataInv`
adds what each open file is in the middle of:

* `WritesBytes`: the chain has all the bytes handed over so far (`Keeps`), the buffer those of
  the last block, and its fill is the position in that block (`Ends`, `Fits`). The three
  cases of `b_write` (into the buffer; over its end into the next block; over whole blocks) each
  keep it, for a chain that `release` and `alloc` have given again longer (`NewGrows`);
* `ReadsBytes`: what is left in the buffer is what follows at the position, up to the end of
  the file or of a block (`ReadBufferKeepsBytes` and `ReadOnKeepsBytes`: with and without
  another block);
* `EntriesKept`, `NamesOnce`: every entry leads to the bytes of its file. `b_close` makes it so
  for one entry, and for all others it is `OthersAreUntouched` again.

`DataStep` is the step, `DataHolds` the invariant. What a block has at a position comes down to
div and mod by the size of a block, in `Split`, `ByteIs` and `BlockIs`.

What one call does to its file and to the rest of the volume, whoever calls it and whatever else
is open, is in `FileIOProofs`, which the next section uses too.

### Commands of the shell

A copy has two files open at once, which `Calls` excludes: with two, the properties of `FileUse` do
not hold (row `MAXFCBS` of section 4). What saves the shell is the order of the calls in each
command, and the invariant of `ShellProofs` follows it. For a command between two calls it says

* `OpenInv`: the descriptors of `cmd`, and no others, are open; the source's is in the middle of
  reading its file (`SrcIs`, with `ReadsBytes`), the destination's of writing one (`DestIs`, with
  `WritesBytes`), and both have the directory that is on disk, because the one `b_close` that writes
  it comes when the other descriptor is closed;
* `CallInv`: what the next call counts on. Before a `read` the two positions are the same and what
  was copied is the beginning of the source (`AtRead`); before a `write` the buffer is what
  follows (`AtWrite`); when the loop has ended, the copy is the source (`AtClose`), since a turn
  that reads less than `BUFFERLEN` has come to the end; before the `fs_delete` of `mv` the other
  name has the bytes (`AtDelete`). Each says what holds with one descriptor or both -1, too;
* `RoomInv`: what `MayWrite` saw when the command began is still free, or in the new file's chain.

`ShellStepKeeps` has a lemma per call, and each says which of five things the step does:
nothing to the files, a commit (`Commits`), the end of `mv` (`Moves`), `rm` (`Deletes`), or a kill
(`Killed`). The four theorems on properties are read off these: `FileStoreIsImplemented` is the
refinement of `FileStore`, where `Commits` is `Import` or `Copy`, `Moves` and `Deletes` are
`Remove`, and all else leaves the store. The number of descriptors, of entries and of files, the
sizes and the bytes of the host's files are free; so is which call finds no descriptor.

### Numbers on disk

`KeptBelow128` is `CodecSpec => []LocationKept` for any set of locations from -1 to 127, and
`LostFrom128` that no location of 128 to 65535 is read as it was stored. `TableLargeEnough` and
`ClustersOnVolume` are for any set of sizes in their ranges, `LargerVolumesDoNotFit` says that
beyond them the properties never hold.

### Model-checked only

* `CallReturns`, `LaterStartsEnd` and `CommandEnds`: TLAPS has no fairness and no `ENABLED`.
* What the runs of section 4 show of the uses that the hypotheses leave out.

## 6. Not modelled

* The block device: an `LBAwrite` is taken to be whole, in order and successful.
* `fs_closedir` and `fs_getcwd`, which free and copy the caller's record. A directory cannot
  change between `fs_opendir` and `fs_closedir`: one command does both.
* What becomes of a volume that a crash left unsound, and which of the four blocks of one
  directory a crash leaves written.
* Time stamps, the other fields of block 0, long name entries (never used),
  the command line's text, the layout of listings, history and help.
* The lengths of path buffers; paths that `strtok` gives no component ("//").
* Two descriptors on one file: no command opens one twice except `cp` and `mv` of a file
  onto itself.

## 7. Plan

Done, in this order: the allocator with its abstraction and proofs; crashes; files; the codec
and the layout with proofs; directories with the tree of names; format and mount; the shell's
commands with the store of files; crashes inside directory calls; listings; a mount of a volume in
use; then the proofs of section 5 for crashes, volume, directories, files and commands.

Next: which of the four blocks of a directory a crash leaves written, and commands over a
tree of directories, where `Directory` and `FileIO` would share one allocator.
