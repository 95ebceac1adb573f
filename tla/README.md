# A formal model of the LinuxConsole build manager and its exFAT driver

This directory holds TLA+ modules about two programs of this repository: the web
build manager (`src/webui`, a Go server with an embedded React page) and the
exFAT file system driver (`src/2.12/tools/src/exfat`, a Linux kernel module in
C). It says what they model, what TLC checks about them on small instances, and
what TLAPS proves for every instance. Read it beside the sources; every
definition that models code names its lines in `PROJECT.json`.

    tlc -workers 2 -config BuildQueue_queue.cfg BuildQueue.tla
    tlapm BuildQueueProofs.tla

## 1. The system

The repository builds a Linux distribution from source. Most of its files are
data or somebody else's code: package lists, kernel configurations, patches,
vendored trees. The build itself is a set of sequential shell scripts
(`2.12/scripts`). What has state of its own, runs concurrently and must survive
failures is the build manager in `webui/`. Of the C code the larger part are boot
loaders (`wubi/src/grub4dos`, `grubutil`), which run alone on a machine before
anything else does; the exFAT driver is the part that keeps state on a disk, in
memory and in the page cache, and has to keep them equal.

| component | code | state it keeps | operations |
|---|---|---|---|
| build queue | `runner.go`, `model.go`, `main.go` | the `jobs` table, one job directory and log per build, one container per build | submit, cancel, delete; the worker goroutine (pick, launch, monitor, finish) |
| retention | `retention.go` | favourite and reclaimed marks of the rows, artifact files | favourite on/off; `pruneLocked` after every finish, pin, and at startup |
| test machine | `vm.go` | the slot `a.vm`, the last session, one QEMU container | start, watch, finish, stop, console, reap |
| checkout | `repo.go`, `changes.go` | HEAD, branches, index, tracking refs, `a.upstream` | check, update, checkout, stage, commit |
| graft | `graft.go`, `pr.go` | `a.graft`, the worktree `<data>/graft` | merge preview, resolve, apply, abort, pull request |
| AI workspace | `aiworkspace.go` | the proposal `a.patch`, its record on disk | stage, apply, reject/undo, restore at startup |
| AI session | `ai.go` | session rows, the one generation in flight, usage | message, cancel, new session |
| logs | `runner.go`, `logs.go` | one log file per build | capture, stream, delete, migrate |
| exFAT driver: clusters | `exfat_core.c`, `exfat_cache.c` | allocation bitmap, FAT, search hint, count of used clusters | allocate, free, link, convert a contiguous chain |
| exFAT driver: files | `exfat_core.c`, `exfat_super.c` | entries on the volume; inodes with the chain, a hint and the place of their entry; mapped pages | create, write, cut, rename, replace, unlink, evict, look up, write back |
| exFAT driver: directories | `exfat_core.c`, `exfat_super.c` | entry sets in a directory's clusters; with each inode a copy of its directory's chain and the number of its entry; one hint for the next free entry | look up, find room, grow, create, rename, move, replace, unlink, make and remove a directory |
| catalogue, pull request list | `flathub.go`, `pr.go` | cached answers of other services | refresh, read |

### How they interact

* `a.mu` serialises everything that moves builds or the checkout: submission
  (which snapshots the working tree), cancellation, deletion, favourites, the
  worker's choice of the next build, `finish` with retention, and staging,
  committing, switching, updating, applying. `vmMu`, `graftMu`, `aiMu`, `repoMu`,
  `pullsMu`, `flathubMu` guard one variable (and for `graftMu` one directory)
  each; where two are taken `a.mu` comes first.
* The worker goroutine reads the table without the lock in its loop, and takes
  it to mark a build starting or running and to finish it. Docker, the
  `docker compose` client it launches and the build in the container are
  processes of their own.
* Retention asks after the test machine's slot build by build, under `vmMu`, which
  it lets go of before it removes anything; `vmStart` reads the table under `a.mu`
  and claims the slot later, under `vmMu` alone. The slot may therefore be claimed
  and given back between any two steps of a pass.
* The driver shares nothing with the manager. Its calls take the superblock's or
  the volume's lock, and most are one section of it. What interleaves are the calls,
  the write-back of inodes and pages that the kernel does when it likes, the eviction
  of an inode, which comes as long after the unlink as somebody keeps the file open,
  and two calls that do something before they take the lock: writing an inode back
  reads its size, a cut sets it.
* A crash loses all of memory and keeps the table, the files, the containers and
  the checkout. `main` then migrates logs, applies retention, removes test
  machines, discards a graft, restores an applied proposal and starts the worker.

### What is hard

Interleavings of handlers with the worker and with Docker; decisions on state
that was read some Docker or git calls ago; crashes between two writes; Docker
calls that fail or time out after they took effect; operations that must be
retried; one slot, one worktree, one worker, each of which has to be given back.
`PROJECT.json` lists these hazards at their lines, with the property that would
catch each.

### What makes each component correct

* queue: one build at a time, oldest first; a verdict is final; a cancelled
  build ends cancelled; every build ends; nothing compiles behind the table's back.
* retention: a class keeps at most its window and what the test machine was found
  to hold, and never loses a favourite or one of the newest builds; files that are
  listed exist. That the ISO being booted keeps its file is wanted too, and not so.
* test machine: what runs is what the slot names; the slot is always released;
  a limit is enforced on current facts.
* checkout and graft: no commit is lost; a resolution is applied as it was
  prepared, where it was prepared; a failed last step can be retried.
* AI workspace: a proposal lands completely or not at all; what it replaced can
  be put back for as long as it is there.
* AI session: the setting names a session that exists, a conversation only grows,
  and the one generation there may be ends.
* exFAT: a cluster belongs to one file or is free; the chain an inode walks, the
  one its entry leads a later lookup to, and the clusters its pages are mapped to
  are the same; the count of used clusters is the bitmap's; a scan of a directory
  sees each of its sets once and whole, where the inode looks for it too.
* logs: the file is what the build printed, through restarts and replays; a build
  succeeds only with a complete log; a browser that is told "done" has all of it.

## 2. Modules

| module | what it is | code |
|---|---|---|
| `BuildLifecycle` | abstract specification of the queue: statuses, FIFO, one build at a time, final verdicts | what `README.md` promises |
| `Retention` | the window as a set: which builds expire | `retention.go` |
| `BuildQueue` | queue, worker, compose, containers, retention, crashes | `runner.go`, `retention.go`, `main.go`, parts of `vm.go` |
| `RetentionWalk` | the counting pass of `pruneLocked`, as the code does it | `retention.go` |
| `TestVM` | the slot and the goroutines of a session | `vm.go` |
| `Repository` | checkout, tracking refs, graft, worktree, locks | `repo.go`, `changes.go`, `graft.go`, `pr.go` |
| `AiPatch` | the proposal, its record, apply, undo and the generation that replaces it | `aiworkspace.go` |
| `AiSession` | sessions, the setting that names one, the reply under way, adopted builds | `ai.go`, `aiworkspace.go` |
| `LogStream` | one build's log: capture, verdict, event streams, deletion | `runner.go`, `logs.go` |
| `ExfatClusters` | the bitmap, the FAT and the chains in it | `exfat_core.c`, `exfat_cache.c` |
| `ExfatFile` | the files of a directory, their inodes, entries and pages | `exfat_core.c`, `exfat_super.c` |
| `ExfatFileSpec` | abstract specification of `ExfatFile`: a file is a length that grows, is cut, goes and comes back | what its callers expect |
| `ExfatDir` | the entries of directories, the search for room and its hint, and what each inode remembers of its place | `exfat_core.c`, `exfat_super.c` |
| `MCExfatFile`, `MCExfatDir` | symmetry and views for the runs of `ExfatFile` and `ExfatDir` | |
| `BuildQueueProofs` (with `RetentionWalk`), `LogStreamProofs`, `RepositoryProofs`, `TestVMProofs`, `AiPatchProofs`, `AiSessionProofs`, `ExfatFileProofs`, `ExfatDirProofs` | theorems | |

`BuildQueue` EXTENDS `Retention` (the same operators are walked by
`RetentionWalk`) and instantiates `BuildLifecycle` with a refinement mapping.
`TestVM` refines the three actions (`VmCheck`, `VmClaim`, `VmEnd`) with which
`BuildQueue` represents the machine; the two are not composed, since all that
retention sees of the machine is the identity of the build in the slot, whenever
it asks.
`LogStream` looks at the part of `run` that `BuildQueue` takes in one step, from
the launch of the capture to the verdict, for a build that has its container.
`ExfatFile` EXTENDS `ExfatClusters`, whose operators say what a call does to the
bitmap and the FAT, and instantiates `ExfatFileSpec`. `ExfatDir` EXTENDS
`ExfatClusters` too. The two look at the same calls from two sides: to
`ExfatFile` an entry is a slot that is found again, to `ExfatDir` a file's data are
clusters that somebody else may take.

Names ending in `_Something` (`MarkRunning_Blind`, `Visit_OneWindow`) are
variants of the definition they are named after with one plausible mistake; no
specification uses them. Each shows that one property notices that mistake.

### State and code

* `BuildQueue.row` is the jobs table; a row keeps what the properties tell
  apart: state, class of target, favourite, pruned, whether artifacts are
  recorded. Ids are numbers in submission order, as the code's are timestamps
  taken under the lock. `disk` is what `DATA` holds of a build. `container` is
  what `docker inspect` would say. `compose` are the running compose clients;
  an owned one is the one the worker waits for. `worker` holds the goroutine's
  place and its locals: its build, the state it read last (`seen`), and the
  arguments of a coming `finish`.
* One handler is one action because it holds `a.mu` from its first read to its last
  write, except where it ends in a pass of retention. A pass (`prune`) has one
  action per question to the test machine (`VmHolds`), removal and save; while it is
  under way the steps that take `a.mu` wait (`Unlocked`), and all others, among them
  the claim and the release of the slot, come in between. It may stop at an error or
  be cut off by a crash anywhere, the first pass of a start included. `booting` are
  the requests (`VmRequests`) that have checked a build and not yet claimed the
  slot. The worker has one action per lock section, unlocked read and Docker call. A
  launch that has to be killed, an inspection without an answer, a row that cannot
  be saved are actions of their own, or disjuncts of the action they belong to, and
  use up `MaxFaults`.
* `TestVM` has one action per lock section or Docker call of `vmStart`,
  `vmWatch` and `vmFinish`, any number of which may be under way for one session.
* `Repository` represents a commit by the set of commits reachable from it, so
  ancestry is inclusion, a merge is a union with one new element, and a
  fast-forward is a superset. Check, update, preview, pick, commit and checkout are
  split where they hold fewer locks than what they read: a pick reads the branch and
  what it offers first (`PickBegin`) and its base later, under `graftMu`. The others
  are one step.
* `AiPatch` takes a file's content for a number that tells who wrote it (absent,
  original, torn, the i-th proposal, an edit). `proposal` are the `Patch` objects,
  which requests share by pointer; `patch` is `a.patch`, `record` the proposal in
  `current.json`, `newest` the one the last recorded reply names. Files are read,
  written and put back one by one. A proposal's files are a set: the order a
  reply names them in is any order. `Faulty` says which calls may fail in a run.
  The write of `current.json` is one step, which a crash or a failure may lose.
  `OrderlySpec` is what several pages do whose users wait for each other: requests
  under way together are about one proposal, a reject goes on alone, and the server
  is restarted when no request and no reply is half-way.
* `AiSession` gives each request (a message, an adopted build, a look, a new
  session) a place in its handler and the row it has read; one statement on the
  database is one step, and may fail. A new session is answered with a look of its
  own (`AnswerNew`), which may find another session or none. A conversation is the
  sequence of the requests that added a turn or a build to it. `AdoptsAlone` says
  that a build is adopted only while no reply is under way.
* `ExfatClusters` holds `taken` (the bitmap), `fat`, `srch` (`clu_srch_ptr`) and
  `used` (`used_clusters`); a chain is its first cluster, its size and whether it
  is contiguous. The clusters are numbered from 2 as the code's are, and a byte of
  the bitmap is `ByteBits` of them, so that the search's wrap and its masked first
  byte happen on small volumes.
* `ExfatFile` keeps a file in three places, as the driver does: `entry` is the entry
  set in each slot on the volume, and `ino` the inode: chain, hint, sizes, dirty or
  not, the slot it believes to be its own, and in `pages` the clusters its pages are
  mapped to. A file's content is who owns the clusters it occupies; sizes are in
  clusters. A page is mapped when it is read or written and written to that
  cluster later; direct reads and writes map through the same function, and the
  pages stand for what they reach too. A write of an inode is two actions, the size
  it read (`wrote`) between them, and so is a cut, with the size it cuts from (`cut`).
  A refusal for a read-only attribute (`exfat_core.c:896`, `981`) changes nothing and
  is no step.
* `ExfatDir` keeps the entries in `dents`, cluster by cluster, so that where an entry
  is depends on the chain it is reached by: `dir` is a directory's chain, `fid` holds
  the copy each file's inode has of it with the number of its entry, and
  `hint_uentry` the cluster and number the last search for room ended with. An entry
  is unused, deleted, or the k-th of a file's set; a name is told by the number of
  entries it takes. `asked` are the calls whose lookup is done and which still have
  to come: the kernel holds the mutexes of the directories concerned over both
  (`Locked`), and always looks up before it creates, because the driver never
  believes a cached "absent" (`exfat_super.c:268`). The directories lie in the root,
  which is linked and has room; clusters are taken and given back by files
  elsewhere (`others`).
* `LogStream` numbers the bytes a build prints, and a file (`store`) is the
  sequence of bytes written to it; a removed file stays readable for those who
  have it open. `capture` are the goroutines of `captureLogs` with their pipe and
  `docker logs` child, which replays the output from its first byte and can only
  be `Pipe` bytes ahead of its reader. `viewer` is an event stream and the last
  offset its browser got, with which it reconnects. One read, write or look is
  one action; `worker` is the goroutine in `run` and `finish`.

## 3. Runs

Every passing run ends with no error; deadlock is not checked in any of them
because a bounded number of builds, sessions or commits lets the model come to
rest. A model at rest for another reason would show as a violated liveness
property or as an action that never happens.

| run | question | bounds |
|---|---|---|
| `RetentionWalk` | does the counting walk compute the set `Retention` states, and keep what is promised? | every table of 5 builds, window 3, two classes |
| `BuildQueue_queue` | does the table implement `BuildLifecycle`, is the worker never stale, does one container run at most, does a cancelled build end without help from compose, and every build if builds end? | 2 builds, 1 crash, 2 faults |
| `BuildQueue_retention` | do files and rows agree through crashes; is the window neither exceeded nor cut, a machine or not? | 3 builds, 2 classes, window 1, 1 machine claimed or given back at any point of a pass, 1 crash anywhere in one |
| `TestVM_slot` | is what runs what the slot names, the view honest, the slot always released? | 2 sessions, 1 viewer, 1 early stop, 1 fault, 1 exit |
| `Repository_graft` | does the worktree belong to the graft shown; is a pull request one commit? | merges, updates and picks on one branch; 3 commits, 1 conflict, 1 fault, 1 restart |
| `Repository_switch` | previews against checkouts: is anything lost or applied elsewhere? | merges, updates, commits and checkouts; 2 branches, 2 commits, 1 conflict |
| `AiPatch_twice` | is a proposal ever written over itself? | 2 requests, 1 proposal, 1 edit, 1 fault of any kind, 1 restart |
| `AiSession_turns` | does the setting name a session that exists, does a conversation keep its turns, does every generation end? | 2 requests at a time, 2 sessions, 3 turns, 1 failed statement, 1 restart |
| `ExfatFile_files` | do the volume, the inode, the pages and the bitmap agree, and do files change as `ExfatFileSpec` says? | 2 files, 2 slots, 3 clusters in bytes of 2, files of up to 3 and 1, the free space asked for before a second cluster is taken or never (`AskedEarly`) |
| `ExfatDir_dirs` | is each entry set whole where a scan sees it and where its inode looks for it, whatever directories grow, turn into linked chains, or come and go meanwhile? | 2 directories, 2 files, sets of 1 or 2 entries, 2 entries to a cluster, 5 clusters in bytes of 2 |
| `AiPatch_whole` | is a proposal in the tree whole or not at all when `a.mu` is free; can what was applied last be undone? | 2 pages that take turns (`OrderlySpec`) beside the generation, 2 proposals, 1 edit, 1 file that cannot be opened, 1 restart at rest |
| `LogStream_tail` | is the log what the build printed, complete when it succeeded and when "done" is sent, gone with the build; does a build whose container ended get its verdict, and does every stream end? | 3 bytes, pipe of 1, events of 2, 1 viewer, 1 capture at a time, 1 fault of any kind, 1 restart |

Why these bounds are enough: two builds are the smallest number with an order
between them and with one running while the other waits; the third makes a window of
one overflow twice, so that a build can be pinned, spared and then reclaimed. With
one machine a pass spares one build more than the window. A second machine lets it
spare two: the slot can go from one build it asks about to the other while it walks,
so that only the larger bound that `WindowBounded` states holds; four builds and two
machines were checked once, which takes too long to be a run, and
`WindowStaysBounded` proves it for any number. One crash is followed by a complete
run of the recovered worker, and a fault can fall into each half. A window of three,
the code's, is used where only retention runs. Three commits are one of ours, one of
upstream's and the merge of the two. Three bytes in events of two are a full event
and a partial one; a restart after one or two of them has something to skip and
something to copy. Two messages and a look, or a message and a new session, are all
that a conversation can be lost to: a third request meets one of them at a time. Two
files on three clusters are the smallest volume where a file is contiguous, where
the other's cluster makes it a linked chain, and where it does not fit; two bytes of
two bits, one of them half outside the volume, let the search wrap and begin in the
middle of a byte. Two directories of two entries to a cluster are enough for one of
them to grow twice, past a cluster of the other's, while a call for the other comes
between its lookup and its search, and for a set to lie across two clusters. With a
third file the run has 1.4 million states and ends the same way. The theorems of
section 5 have no bounds.

The type invariants of the queue, the checkout, the test machine, the AI proposal
and the AI session are not among the runs: they are theorems.

`AskedEarly` bounds `ExfatFile_files`: the first question for the free space, which
counts the bitmap, comes early or not at all. `FreeSpaceIsTold` and the other
theorems about the driver are without it.

### What the code does not keep

Each line is a promise of a comment or of the project's README, or for the driver
what its caller relies on, and the behaviour that breaks it. They are
configurations kept beside the runs of `PROJECT.json`, each property of which TLC
finds violated in under two minutes. Where a configuration names several, one is
active and the others are commented out: TLC stops at the first it finds.

| configuration | property | promise | what happens |
|---|---|---|---|
| `TestVM_early` | `OneMachine` | one machine at a time (`README.md:40`) | a stop during `docker run` frees the slot before the container exists |
| `BuildQueue_cancel` | `CancelTakesEffect` | a cancellation takes effect while compose creates the container (`runner.go:634`) | killed between creating and starting, compose leaves a created container that neither runs nor exits: the build stays in cancelling and blocks the queue |
| `Repository_retry` | `RetryPossible` | retrying a resolution never fails at the last step (`pr.go:166`) | the commit exists already; git makes no second one |
| `BuildQueue_cancel` | `ArtifactsOnlyOfSucceeded` | the three newest succeeded builds keep artifacts (`README.md:39`) | a cancellation during the last look leaves a cancelled build with recorded artifacts that retention never visits |
| `BuildQueue_booted` | `MachineKeepsImage` | a build being booted right now keeps its files (`retention.go:56`) | retention asks, a machine claims the slot for the same build, retention removes its files |
| `BuildQueue_orphan` | `OneBuildAtATime` | one job at a time (`README.md:3`) | a compose client that survives a killed server creates a container nobody accounts for |
| `TestVM_idle` | `IdleMeansUnwatched` | stopped after 30 minutes with nobody watching (`README.md:40`) | the viewer count is read before a Docker call and used after it |
| `Repository_preview` | `OpenedOnHead` | a resolution is prepared on the commit the checkout sits on (`changes.go:19`) | a commit that has passed its check moves HEAD while a preview is between two git commands |
| `Repository_branch` | `LandsOnItsBranch` | the guard of `applyMerge` catches a checkout that moved (`graft.go:360`) | another branch at the same commit passes it, and gets the merge |
| `Repository_own` | `UpdateTakesItsBranch` | an update brings in the branch of the same name (`README.md:30`) | a slow check overwrites `a.upstream` after a checkout |
| `Repository_preview` | `GraftHasWorktree` | the graft on the screen is the one being resolved (`main.go:61`) | a clean single-commit pull request takes its worktree away |
| `Repository_preview` | `BuildsNotHeldUp` | resolving never holds up a build (`main.go:63`) | a commit waits for `graftMu` while it holds `a.mu` |
| `AiPatch_undo` | `UndoAvailable` | the replaced content is the way back (`aiworkspace.go:836`) | a reject overtaken by an apply forgets an applied proposal |
| `AiPatch_torn` | `NoHalfProposal` | never half a proposal (`aiworkspace.go:784`) | a failed write leaves the file it truncated |
| `AiPatch_mixed` | `NoHalfProposal` | the same | two requests and a reply: the reply reads a half-applied tree, and its undo later brings that half back |
| `AiPatch_late` | `NewestOnScreen` | a new proposal supersedes the old one (`aiworkspace.go:838`) | an apply that ends late puts the older one back |
| `AiPatch_late` | `UndoOutlivesRestart` | an applied proposal outlives a restart (`aiworkspace.go:834`) | a reply drops the record just saved |
| `AiSession_lost` | `TurnsKept` | the turn is recorded even when it was stopped or failed (`ai.go:983`) | a build adopted while a reply is under way writes back the session as it was before the reply, which loses the turn |
| `LogStream_twice` | `LogIsOutput` | bytes already written are skipped (`runner.go:672`) | a row that cannot be read makes `run` return without waiting for its capture; if that one is slower than the worker, the next run measures the file first and both append the same bytes |
| `LogStream_split` | `CharactersWhole` | a log event carries the log as a JSON string (`README.md:73`) | each chunk is made a string of its own: a character cut by its end arrives as replacement characters |
| `ExfatFile_held` | `ReadAllocatesNothing` | a read maps what is there (`create` is 0) | inside the file `exfat_bmap` asks `ffsMapCluster` for a cluster that an unlink has freed; it allocates one, whatever `create` says (`exfat_super.c:1520`) |
| `ExfatFile_held` | `DataIsItsOwn` | a cluster belongs to one file | a file unlinked while open keeps the number of its slot; written later, its inode lands on the entry of the file that has the slot by then |
| `ExfatFile_held` | `GonePagesHarmless` | the pages of a file that is gone go nowhere | the clusters are freed by the unlink, the pages are dropped only by the eviction: one written back in between lands in a cluster another file may have |
| `ExfatFile_stale` | `EntryNeverAhead` | an entry gives a file no more than the file has: what the volume holds when it is pulled out is a beginning of each file | the size is read with no lock (`exfat_super.c:1968`) and written (`exfat_core.c:1270`) after a cut has freed the clusters behind it; the entry stays too long until the inode is written again |
| `ExfatFile_nomem` | `LookupFindsTheFile` | a lookup finds what the inode has | the cluster is linked before the entry set is read (`exfat_core.c:1351`, `1369`); where that fails, the entry still calls the chain contiguous |
| `ExfatFile_leak` | `NothingLeaks` | an allocated cluster is some file's | a short write leaves clusters allocated past the size that nothing cuts off |
| `ExfatFile_full` | `FullMeansFull` | a volume is full when no cluster is free | the search masks the bits below its hint in the first byte and never comes back to them (`exfat_core.c:2274`) |
| `ExfatDir_turned` | `FidsFindTheirEntries` | an inode's `fid.dir` and `fid.entry` lead to its entries (`exfat_core.c:4788`) | a rename to a longer name makes its directory a linked chain and leaves the inode the contiguous one (`exfat_core.c:4904` sets the number only); the next write of the inode goes to a cluster that is somebody else's |
| `ExfatDir_spoiled` | `FilesAreFound` | "entry with the name does not exist" (`exfat_core.c:3757`) | a call for one directory, refused for want of space, leaves the hint "no room" of another (`exfat_core.c:3500`, `3510`); the next call there adds a cluster behind unused entries, where a lookup never comes |

The passing runs stop where these begin, and say that nothing else breaks the
property: `TestVM_slot` checks `OneMachine` as long as no stop came early and no
Docker call failed, `AiPatch_whole` has pages that take turns (`OrderlySpec`) and
failures only before a file is touched, the runs of the queue kill compose with the
server.
`LogStream_tail` lets the next capture begin only when the one before has ended:
in the code nothing but the second the worker waits between two runs sees to it.
It has one failure; with two, a row that cannot be read and then a container that
is removed, a capture that had not yet opened its file can make the log of a
deleted build anew. `AiSession_turns` adopts builds only between replies
(`AdoptsAlone`). `ExfatFile_files` closes a file before it is unlinked
(`HoldOpen = {}`) and can read every entry set (`EntryFails = FALSE`).
`ExfatDir_dirs` renames no file in a way that turns the file's own directory into a
linked chain (`RenamesTurn = FALSE`), and no refusal leaves the hint at another
directory (`RefusalsSpoil = FALSE`).

What was seen in the driver and has no configuration: a rename over a file never
frees the clusters of the file it replaces (the inode keeps them until it is
evicted, which does not free them either); and `CONFIG_EXFAT_DELAYED_SYNC` is
defined as 0 but asked for with `#ifdef` (`exfat_config.h:49`), so that the volume
is marked clean after each call. The build of this driver is commented out in
`2.12/scripts/make_linux:95`; the initramfs list names the kernel's own.

`BuildQueue_orphan` needs a server killed without its service manager: under the
supplied unit the whole control group is killed, and the other runs of the queue
say so with `ChildrenSurvive = FALSE`. They also assume that a request of a
killed compose client has either taken effect by then or never does.

One divergence has no configuration: the README says that a conflicting update is
rolled back; the code leaves the checkout alone and the resolution open, which is
what its own comment says.

## 4. Fairness

* `ManagerFairness`: weak fairness of the worker's steps, of a pass of retention
  once it has begun, and of the restart. The worker is a goroutine in an endless
  loop whose every wait has a timeout, a pass waits for nothing but `vmMu`, which
  nobody keeps, and the unit restarts the server on failure. That `Pick` is among these steps
  assumes that the disk does not stay full for ever. No handler is fair: nobody
  has to ask for anything.
* `BuildFairness`: compose comes to a result and each build ends. The manager has
  no timeout for either, so this is an assumption about Docker and the build
  scripts; `CancelEndsOrSticks` does without it,
  `BuildsEndOrStick` has it as its premise. Both are checked under `ManagerSpec`.
* `TestVM.Fairness`: weak fairness, per session, of the start, of the watching
  goroutine, of its `vmFinish` calls, and of four hours passing. Every Docker
  call in these has a timeout. Stop requests, viewers and the guest are not fair.
* `AiSession.Fairness`: weak fairness of each request that is under way. A handler
  goes on by itself, and a reply ends at the latest by its timeout. Nobody has to
  ask for anything.
* `LogStream.Fairness`: weak fairness of the worker, of each capture with its
  child, and of each open stream, which are goroutines that nothing but the pipe
  and the five seconds' wait holds up; `docker logs` is assumed to end after its
  container or when it is killed. Nobody has to print, exit, ask or connect.

## 5. Proofs

| theorem | states | where |
|---|---|---|
| `BuildQueueProofs!RetentionSettles` | after one pass a second one finds nothing to do | |
| `BuildQueueProofs!RetentionSparesRows` | what is reclaimed is no favourite, not in the slot, and has enough newer builds | |
| `BuildQueueProofs!LoopIsExpired`, `!WalkKeepsPromise` | `WalkSpec => []WalkIsExpired`, `[]WalkKeepsWhatIsPromised` | |
| `BuildQueueProofs!Invariance` | `Spec => []IInv` | |
| `BuildQueueProofs!TypeCorrect`, `!WorkerNeverStale` | `[]TypeOK`, `[]WorkerSound` | |
| `BuildQueueProofs!QueueImplementsLifecycle` | `Spec => LifecycleSpec` | |
| `BuildQueueProofs!OneAtATime` | `[]OneBuildAtATime` | `~ChildrenSurvive` |
| `BuildQueueProofs!RetentionTakesOnlyExpired` | `Spec => RetentionSpares`, with the machine claimed and released during a pass | |
| `BuildQueueProofs!ListedAreThere`, `!WindowStaysBounded` | `[]ListedArtifactsExist`, `[]WindowBounded` | `RetentionSucceeds` |
| `BuildQueueProofs!NoFaultNoError` | `Spec => RetentionSucceeds` | `MaxFaults = 0` |
| `RepositoryProofs!TypeCorrect`, `!WorktreeOwned`, `!PullRequestsSound` | `[]TypeOK`, `[]GraftOwnsWorktree`, `[]PullRequestIsOneCommit` | |
| `RepositoryProofs!BranchesKeepTheirCommits` | `Spec => NothingLost` | |
| `RepositoryProofs!MergesApplyAsPrepared` | `Spec => AppliedAsPrepared` | |
| `TestVMProofs!TypeCorrect`, `!MachineIsTheSlots`, `!ViewIsHonest` | `[]TypeOK`, `[]OneMachineInOrder`, `[]ViewHonest` | |
| `AiPatchProofs!TypeCorrect` | `[]TypeOK`: among others, who writes files holds `a.mu`, alone | |
| `AiPatchProofs!WrittenOnce` | `Spec => NeverWrittenTwice` | |
| `AiPatchProofs!NeverHalf` | `[]NoHalfProposal` | `OneCalmClient` |
| `AiPatchProofs!UndoReachable` | `OrderlySpec => []UndoAvailable`: any number of pages, restarts at rest | `PutsBack` |
| `AiSessionProofs!TypeCorrect`, `!SessionsExist` | `[]TypeOK`, `[]SettingNamesSession` | |
| `AiSessionProofs!NothingIsForgotten` | `Spec => NothingForgotten` | `AdoptsAlone` |
| `LogStreamProofs!TypeCorrect` | `[]TypeOK` | |
| `LogStreamProofs!LogsAreOutput`, `!SucceededLogsAreWhole`, `!DeletedLogsStayDeleted` | `[]LogIsOutput`, `[]SucceededLogWhole`, `[]LogDiesWithBuild` | `Settled` |
| `LogStreamProofs!DoneHasAll` | `[]DoneSawAll` | `Settled` |
| `LogStreamProofs!OneFailureSettles`, `!LogsHold` | which failures leave `Settled` true, and the four properties there | see below |
| `ExfatFileProofs!AllocatedWasFree` | an allocation takes one free cluster, changes no other, and is contiguous only right behind the chain | |
| `ExfatFileProofs!FreeingKeepsTheCount` | freeing a chain of taken clusters keeps the count equal to the bitmap's | |
| `ExfatFileProofs!RecordsAgree` | `Spec => []IInv`: inode and chain of each file agree, and its entry says what the inode was last written to say | `Ordinary` |
| `ExfatFileProofs!TypeCorrect`, `!DataIsSafe`, `!LookupsAgree`, `!PagesStayHome`, `!FreeSpaceIsTold` | `[]TypeOK`, `[]DataIsItsOwn`, `[]LookupFindsTheFile`, `[]PagesGoHome`, `[]UsedIsCounted` | `Ordinary` |
| `ExfatFileProofs!FilesRefine` | `Spec => RefinesFileSpec` | `Ordinary` |
| `ExfatFileProofs!ReadsAllocateNothing` | no step that reads takes a cluster | `Ordinary` |
| `ExfatDirProofs!DirectoriesAreKept` | `Spec => []IInv`: sets, inodes' copies, chains of clusters and the hint agree | `Ordinary` (of `ExfatDirProofs`) |
| `ExfatDirProofs!TypeCorrect`, `!FilesFound`, `!FidsFind`, `!ChainsSound` | `[]TypeOK`, `[]FilesAreFound`, `[]FidsFindTheirEntries`, `[]ChainsAreSound` | the same |

The theorems have no bounds: any number of builds, machines, branches, commits,
requests, files, clusters, viewers, crashes and faults. They rest on the named
assumptions about the constants (natural numbers, finite sets, the release branch
is one of upstream's), which TLC evaluates in every run, and where the last column
names one, on a hypothesis:

* `~ChildrenSurvive`: no compose client outlives the server (the unit's control
  group). Without it TLC violates the property (`BuildQueue_orphan`).
* `RetentionSucceeds`: no step of retention fails (`~RetentionFails`: reading the
  table for a pass, saving the verdict it follows, a removal, a save); such a
  failure is only logged, and until the next pass a row lists what is gone or a
  window is over its bound. Crashes in the middle of a pass, and any other failure,
  are not excluded; `NoFaultNoError` shows that the hypothesis holds where no call
  fails.
* `OneCalmClient`: one request at a time, no broken-off write, no restart.
  `AiPatch_torn` and `AiPatch_mixed` break `NoHalfProposal` outside it; the run
  `AiPatch_whole` is wider, with pages that take turns and a restart.
* `OrderlySpec` and `PutsBack`: pages may apply one proposal at the same time, each
  with its failures and their rollback, torn writes among them, and be followed by
  edits, replies and restarts; what is left out are a reject that is overtaken by an
  apply (`AiPatch_undo`), requests for two proposals at once, a restart in the middle
  of a request, and a rollback that fails; where there are restarts, the record can be
  saved.
* `AdoptsAlone`: builds are adopted between replies; otherwise `AiSession_lost`.
* `Settled`: no run of a build begins while a capture of an earlier run is under way.
  In the code only the second the worker waits sees to that. `OneFailureSettles`
  says which failures cannot disturb it: those of any call but the read of the row,
  or a single failure where one capture at a time is enough. `LogsHold` is the four
  properties under that condition; `LogStream_twice` is what happens outside it.
* `Ordinary`: no file is unlinked while open, and every entry set that exists can be
  read (`HoldOpen = {}`, `EntryFails = FALSE`). `ExfatFile_held` and `ExfatFile_nomem`
  break the properties outside it. Full volumes, writes that fail half-way, renames
  over files, evictions and lookups are not excluded.
* `Ordinary` of `ExfatDirProofs`: no rename turns its own directory into a linked
  chain, and no refusal leaves the hint at another directory (`RenamesTurn = FALSE`,
  `RefusalsSpoil = FALSE`). `ExfatDir_turned` and `ExfatDir_spoiled` break the
  properties outside it. Directories that turn when a file is created in them or moved
  in from elsewhere, refusals that leave no hint or the hint at their own
  directory, and calls for other directories between a lookup and its use
  are not excluded.

### The queue and retention

The inductive invariant `IInv` joins to the types: no row beyond the last id
(`NoneAhead`, so that a submission writes a fresh one); at most one build under
way (`SingleActive`, which picking preserves only because a build under way is
always preferred); `WorkerSound`, that the worker's build is under way and a
cancellation it saw still stands -- not inductive without `SingleActive`, because
another build becoming active would let the worker's be picked away, and needed
to know that `finish` writes a verdict over an active state; and `ClientsSound`,
that at most one compose client is the worker's and only while it waits for it.

The refinement goes through lemmas, one per action, that say how an action may
change the vector of states; `StepSimulation` maps each such change to a step of
`BuildLifecycle` or to a stutter. `OneAtATime` needs `ContainersSound` besides,
which is inductive only if no client outlives the server.

`LoopIsExpired` is about the counting loop of `pruneLocked`, a recursive function
over the rows. Induction over data is out of the prover's reach, so the proof has a
closed form of the loop's state (what it has seen of each class, what it has
marked) and shows that the function equals it: the first row at which they would
differ, in the loop's order, has one before it where they agree, and one turn of the
loop leads from that to the row itself.

A pass of retention visits what had expired when it began, step by step, with the
machine coming and going. `RInv` joins to `IInv`: `NothingAhead` (ids not handed out
have nothing on the disk), `Collected` (what the worker is about to record as
collected is there), `SlotSound` (a server that is down holds no machine) and
`PassSound`: what the pass has still to visit is expired by the table of this
moment, because every step that could change that waits for `a.mu`. From it follows
`RetentionSpares`, whatever the slot does. The proofs sort the steps by what they do
to a pass: those that do not concern it and leave the table alone while it is under
way (`Calm`), the machine's, its own, and those that begin one (`Begins`) or cut it
off. `ListedArtifactsExist` is not inductive, because between a removal and its
save, and after a crash there, a row lists files that are gone; `LostAreExpired`
says that these are the build the pass is at, or of those that the first pass of the
next start clears before anybody is served.

`WindowBounded` needs to know how many builds one pass can spare. `SlotBudget`
counts the machines that hold the slot or have been checked for it against those
that were started, and `PassBudget` says that what a pass has spared so far, with the
build in the slot and the requests that may still claim it, stays within `Spareable`:
a build is spared only while the slot is its own, and the slot changes hands only by
such a request. Outside the favourites a class then holds its window and what was
spared (`WindowAtMost`).

### The checkout, the machine, the AI workspace

For the checkout each property has its own strengthening, all of them over
`TypeOK`. `Owned` adds that a graft of no kind is the empty one, without which
resolving a file could turn nothing into something. `Fresh` says that what
upstream has, and what a cherry-pick starts from, was made before now, so that
the commit a replay makes is new to both; with it each pull request is one
commit when it is opened, and what was opened does not change. `Holders` says
that a request that moves the checkout holds `a.mu` from its first step to its
last, so that while `a.mu` is free only `ApplyMerge` can move it; `TipSound`,
that the commit made by a clean preview is the merge the graft describes.
`NothingLost` needs no more than the types.

For the test machine the invariant joins to the types what each step of a session
leaves to the next: a machine that is being launched keeps the slot and nobody
finishes it; a finished one is gone before the slot is released; a session that
still waits to be started has no container. `OneMachineInOrder` and `ViewHonest`
are conjuncts of it.

For the AI proposal, the check of the files before a write (`Unchanged`) excludes a
second write only because what a proposal would be put back to was never written
by the proposal itself. That is `OriginalsForeign`, which is inductive with
`HandledKnown`: a proposal that is still being staged is in nobody's hands, so
nobody can write it into the tree while its originals are read. The undo of
another proposal may write any known one into the tree, torn or whole, and does
not disturb this. It holds for any kind of failure and any number of requests.

`NoHalfProposal` needs the whole story of the tree: which proposal each file's
content belongs to (`Own`), that nothing applied or in the tree is newer than what
the screen and the requests name (`Latest`), that a proposal above another in the
same file goes back to something else than that other one does (`Apart`), that a
proposal nobody is working on is in all its files or in none (`Whole`), how far the
request under way has come in its list of files (`Working`), and that an empty
screen leaves nothing applied. The undo puts back originals, and these may be
another proposal's: `Whole` and `Apart` say that then they are all of it.

`UndoAvailable` holds for several pages, and its invariant `UndoInv` is about what
each of them leaves to the others: an original is older than what replaced it
(`Behind`); the screen and the requests name no proposal older than one that is
applied (`InOrder`), so that an apply that ends late publishes what is already
there; how much of a proposal each writer and each reject has put into the tree or
taken back (`PutAway`); what stands, applied and in the tree, is on the screen
(`OnScreen`), and in the record, unless a reply is about to replace it or a request
to save it (`Recorded`), which is what a restart at rest finds.

For the AI session, `NothingForgotten` says that no step takes a turn out of a
conversation. It is inductive with `Claimed` (the one generation is that of the one
request that is replying), `Exist` (what requests and the setting name are rows that
exist: an insert comes before the statement that names it), `Alone` (no build is
adopted beside a reply, the assumption at work), and `Fresh`: the conversation a
request has read and is going to write back is still the one in the database.

### The log

Under `Settled` there is one capture at a time, the worker's or one that the worker
has left while the row is active (`Watched`, `AllQuiet`). With that, what a capture
has skipped and copied is what its file holds, and the file is a beginning of what
the build printed. `Concluded` carries it to the verdict: a container that has ended
prints no more (`Over`), what the worker's own capture did not fail to copy is in
the log that the row names (`InLog`), and a verdict of success is given only over a
whole one (`Judged`). `Told` carries it to the browser: a stream looks at the row
before its last read, so that a stream that found a verdict reads a file that nobody
writes any more. `OneFailureSettles` shows `Accounted`: a capture that is left
behind, and a container that is gone under an active row, have each cost a failure.

### The driver

`AllocatedWasFree` and `FreeingKeepsTheCount` are about the operators on the bitmap
and the FAT, for bytes of any width. `RecordsAgree` carries them through every call.
Its invariant `IInv` has four parts: `VolumeOK` (bitmap, FAT and count), `Records` (what an
inode and an entry may hold), `Placed` (a file's entry is its own; the first
cluster and the kind of chain in it are always up to date; what it says, or will say
once the write under way is done, is what the inode was last written to say, so that
the two are equal when the inode is clean and nothing is under way; a cut under way
has dropped the pages past the new size) and `Chained`: the chain walked from a
file's start is as long as the file, or one longer after a write that failed between
the link and the size, all its clusters are distinct, taken and no other file's, a
linked chain ends, and the write in progress, the pages mapped and the hint of the
last cluster name clusters of that chain at their right place.

The chain is a recursive function along the FAT. What changes in the FAT and leaves a
chain alone is shown as for the retention loop, by the least place where the
two walks would differ. With that, each call comes down to one of four effects on the
chains: they stay, one shrinks to a beginning, one goes, one gains a
cluster that was free. `FilesRefine` reads the steps of `ExfatFileSpec` off the same
four. `TypeCorrect` needs bounds beside `IInv`, that no size passes what its file may
grow to.

For directories, `DirectoriesAreKept` is about a view: for each directory the function
from positions to entries that a scan of it sees. Which clusters a directory has, in
their order (`cells`), and where in it each file's set begins (`at`) are no variables:
the invariant says that there are such functions for which the directories' chains run through
`cells` and share no cluster (`Laid`), every set stands whole at its `at` and nothing
else is seen (`Holding`), what an inode in memory remembers of its directory leads there
(`Stands`), and the hint keeps its promise to the next search (`Hinted`): that no unused
entry lies before the one it names, and that its chain is the rest of the directory's.

The argument has three parts. A call that writes entries through any chain that
leads to a set changes the view at the set's positions only, whether the inode's
copy of the chain is the directory's of today or an older contiguous one
(`WrittenIs`). On views, putting a set where there is room and dropping one keep
what every other set needs (`Put`, `Drop`). A rename inside a directory does both,
and which comes first makes no difference (`OverSwaps`); one that needs fewer or as
many entries stays in its place (`OverShorter`). And the search finds room where it
says, in the directory or in one more cluster, if the hint kept its promise
(`SearchIs`, `RoomFound`); a directory that grows keeps what it holds and turns into
a linked chain at most once (`Extended`). The two hypotheses are where this would
fail: the copy that a rename which turns its directory leaves with its inode leads
elsewhere (`Stands` is lost), and a refusal with the hint at another directory makes
a promise that nobody checked (`Hinted`).

The facts about the walk along the FAT are proved in `ExfatFileProofs` and in
`ExfatDirProofs`: `ExfatFile` and `ExfatDir` both declare what they keep of a file, so
that no module extends the two.

### What is only model-checked

Every invariant and every action property that a run of the first table of section 3
checks is stated by a theorem above, under the hypothesis its row names. What is left to TLC:

* Liveness under fairness and `ENABLED`, which TLAPS does not reach:
  `CancelEndsOrSticks`, `BuildsEndOrStick`, `SlotReleased`, `EndGetsVerdict`,
  `StreamsEnd`, `GenerationEnds`.

## 6. Not modelled, and what comes next

* Free disk space; the wording of logs, settings and configurations; ports,
  passwords, proxies; which files conflict in a merge and their contents.
* The push of the checkout's branch and whole-branch pull requests: they change
  nothing but the fork and GitHub.
* Build scripts, boot scripts, data and vendored trees: sequential shell or data,
  with no state that outlives a run (reasons per component in `PROJECT.json`).
* The boot loaders among the vendored trees, which are most of the C code here:
  they run single-threaded, read a disk and leave. The shares of the sources that
  the modules cover follow from that choice.
* Of the driver: the text of names, directories that are renamed or moved, the cache
  of sectors, mounting and the volume's flags, FAT12/16/32, and the device: a
  write of an entry or of a FAT cell is done when it is asked for.

Plan, in order:

1. `Catalogue`: the cached application list and pull-request list, their refresh
   by one of several readers, and what a reader sees while it runs.
2. The push of the checkout's branch and whole-branch pull requests in
   `Repository`; `migrateLogs` in `LogStream`; `AiSession` composed with
   `AiPatch`, whose generation it is.
3. Directories in directories in `ExfatDir`, with the chain of their parent that
   they keep, and renames of directories.

The abstract specifications worth stating next are a one-slot resource for
`TestVM` (claim, use, release) and a proposal that is pending, applied or undone
for `AiPatch`, each with its refinement as a property and then as a theorem.
