# GolemDB in TLA+

This directory specifies GolemDB (`src/`), model-checks the specifications with
TLC, and proves their main properties with TLAPS. GolemDB stores *cells* (a
record ID and a name, with a value) under a Merkle root. Users change cells in
*branches*: private overlays over one committed version, published by a commit
that only succeeds while that version is still the head.

## The system and what is modelled

| Part | Code (`src/crates/`) | Module |
|---|---|---|
| Overlay and undo journal of a branch | `branch/src/overlay.rs`, `journal.rs` | `Journal`, implements `Frames` |
| Branch manager: lifecycle, locks, staleness | `branch/src/manager.rs` | `Branches`, implements `Versions` |
| Publication of a commit | `branch/src/commit.rs`, `head.rs` | `Branches` |
| Records: create, patch, delete, get | `record/src/` | `Records`, implements `Documents` |
| Genesis and opening | `api/src/genesis.rs`, `open.rs` | `Genesis` |
| Seal: rows, postings, roots of a commit | `branch/src/seal.rs` | `Seal` |
| Batches of cells and postings | `cells/src/cells.rs`, `index/src/index/writer.rs`, `bitmap_trie.rs` | `Tables`, used by `Seal` and `Batches` |
| Merkle trie | `merkle/src/` | `MerkleTrie`; `Commitments` is its interface |
| Cell values, names, keys; terms and ranges | `cells/src/`, `index/src/term.rs`, `term_range.rs` | `CellTypes`, `CellValues`, `Terms` |
| Queries and committed reads | `query/src/`, `record/src/committed.rs` | `Queries` |
| Storage contract | `storage/src/lib.rs` | `StoreRows`, `SnapshotStore`, `RowCursor` |
| Memory store, MDBX adapter | `storage/src/memory.rs`, `storage-mdbx/src/lib.rs` | `MemoryStore`, `MdbxStore`, implement `SnapshotStore`; `Storage` has both, and the cursors |
| Cursors and scans | both backends, `branch/src/buffer.rs`, `storage/src/scan.rs`, `branch/src/scan.rs` | `Cursors`, implements `RowCursor`; `Scans` |
| Errors through all layers | `*/src/error.rs`, `api/src/error.rs` | `Errors` |
| Statistics, facade calls, builders | `storage/src/stats.rs`, `api/src/database.rs`, `record_op.rs` | not modelled |

`PROJECT.json` has the full inventory of components, the line ranges every
definition stands for, and the hazards the properties are aimed at.

### How the parts interact

A call on a branch goes through `Branches::with_slot`: it looks the ID up under
the registry mutex, releases it, locks the branch, takes a fresh read snapshot,
and compares the snapshot's head with the branch's `commit_id`. A stale branch
loses its state and its entry. Otherwise the operation runs under the branch
lock: reads and edits go to the overlay, `seal` computes the rows of the commit
once and caches them, and `commit` takes the store's writer, checks the head
again, replays the rows and publishes.

The modules are layers of this system. Each models what is below it in the way
the abstract specification of that layer states it, which another module is
shown to implement:

* a store is a `SnapshotStore` with `RowCursor`s; `MemoryStore`, `MdbxStore` and
  `Cursors` implement these, `Branches`, `Genesis` and `Scans` use them;
* an overlay with its journal is a stack of states; `Journal` implements
  `Frames`, and `Branches` (one `Edit`) and `Records` (`stack`) use it;
* a branch is edited, frozen and committed on the version it began over;
  `Branches` implements `Versions`, and `Records`, `Seal` and `Genesis` commit
  that way in one step;
* records are cells tied together by bindings and an allocator; `Records`
  implements `Documents`, and `Queries` reads such states;
* a trie is a root that determines its leaves, and rows that are never lost;
  `MerkleTrie` shows it, `Commitments` states it, `Tables` and `Seal` use it;
* an index is exact for the cells of the same commit; `Seal` shows it, and
  `Queries` evaluates plans over it.

## Modules

### `Journal` and `Frames`

`Journal` has the fields of `CellOverlay` and `Journal` as variables (`entries`,
`undo`, `frames`, `rolledBack`), the phase of the running call, and the mark a
failed group returns to. A write group is a `BeginWrite`, any number of `Record`
steps, and `CompleteWrite` or `FailWrite`. Each iteration of the loop
`undo_to` is one `PopUndo`, so what a rewind or a rollback restores follows
from single pops. Two history variables are not in the code: `past`, the overlay
before each undo entry was pushed, and `before`, the overlay and the whole journal
as they were when the running group began.

`Frames` is what this promises: a stack of saved states. `Journal` implements
it with the mapping at the end of the module: while a group runs, the abstract
state is still the one before it; while a rollback runs, it is already the one
it returns to.

### `Branches` and `Versions`

`Branches` is the manager together with the store's transactions. Each thread
runs one call at a time, and a step ends wherever another thread can intervene:

| Code | Actions |
|---|---|
| `begin` | `ReadHead`, `Allocate` or `AllocateExhausted`, `Insert` |
| `with_slot` | `Find`, `Get`, `Lock`, `Validate`, `Evict` |
| `read`, `branch_info` | `Observe` |
| `write`, `checkpoint`, `rollback` | `Edit` (any overlay may result; `Journal` says which) |
| `seal` | `Seal` or `SealExhausted` |
| `commit` | `Seal` or `SealExhausted`, `BeginWrite`, `Stage`, `Publish`, `Consume`, `Evict` |
| `discard` | `Discard`, `Remove` |
| an error, or a panic that `with_slot` catches | `Fail` |
| `tx.commit()` fails after it published | `PublishInDoubt` |
| another writer of the store | `ForeignPublish` |
| the process ends, the store is opened again | `Crash` |

A Rust temporary that holds the registry mutex across the lookup is the pair
`Find`, `Get`. Removing an entry and inserting one hold that mutex for a single
operation on the map and are one step. A read snapshot is a copy of
`committed`, as in `MemoryStore::begin_read`; a write transaction copies it
after the writer is owned, as in `begin_write`.

Cells are a function from keys to values; a sealed commit is its number and its
cell rows. `Compute` keeps what `Cells::apply` keeps: only rows that change the
origin; the roots, the `#roots` cell and the index rows of a seal are in module `Seal`. Two history variables are not in the code: `base`, the cells a branch
started from, and `published`, the branches whose rows became the head.

`Versions` is what the manager promises: a chain of versions, and branches that
are edited, frozen, and committed atomically on top of the version they started
from. It has no threads, locks, snapshots, rows or transactions. A branch may
be born stale, because `begin` reads the head before it registers the branch.

### `Records` and `Documents`

`Records` holds the cells of the head and of each branch by kind of address:
bindings `(#recordKeys, key)`, identity cells `(id, #key)`, user cells and the
allocator. `CreateResult`, `PatchResult` and `DeleteResult` are the checks of
`crud.rs` in their order, with every `CorruptState` return; `CreateCells`,
`PatchCells` and `DeleteCells` the cells a successful call leaves. A call that
returns an error changes nothing, which is what `Frames` says of a failed group,
so only successful calls are actions. `stack` and `consumed` are the frames of
`Frames`. `Documents` has none of this: a branch maps keys to documents.

### `Genesis`

Processes call `open` in one of three modes with some genesis parameters.
`OpenPath` is the directory check of `open_mdbx`, `RefuseParams` the row sizes,
`BeginWrite` the writer lock and its snapshot; `prepare` then either writes the
superblock, the cells and the head (three steps, each of which may fail) or
compares an existing store with the parameters. `Publish` and `Abort` end it,
`PublishInDoubt` publishes and reports an error, and `Fail` is an error, a panic
or the death of the process at any step. Processes that have the database open
commit (`CommitBranch`), which is what later openers then validate.

### `Commitments`, `Tables`, `Seal` and `Batches`

A table is a function on the keys that have a row. A root is the function it
commits to, and a trie the set of roots whose rows are stored. `Tables` has the
two batch writers, `ApplyCells` and `ApplyIndex`, with the checks of each row
against the trie; IDs are split into containers of `Width` members, and container
rows are immutable. `Seal` computes a commit with them: staged cells, the
engine's `#roots` cell, postings of the cells that changed, and both roots, or fails
with `RootMismatch`, `RootsCellExists` or `TermError` and changes nothing.
A branch may stage cells of users and `#roots` cells of the commits in `StagedRoots`, since nothing
below the record layer refuses them; the history variable `staged` has the commits
whose `#roots` cell a branch changed itself. `Validate` opens the database again.
`Batches` lets a caller gather any batch, change by change and with repeated keys,
and compares the tables it leaves with its changes carried out one after the other
(the history variables `content` and `postings`).

### `MerkleTrie`

The compressed trie with its routes, prefixes and children, single inserts and
removals, the batch update that splits and collapses branches without storing
intermediate ones, lookup and traversal. A hash is the term hashed. `Canonical`
defines the one trie of a set of leaves without reference to any update.

### `Cursors`, `RowCursor` and `Scans`

`Cursors` fills a buffer, opens a cursor of either backend, or the one that merges
staged writes with it, and moves that. `MemoryStep` and `MdbxStep` are single steps
of the backends' cursors. A step of the merged cursor is a `BeginStep` (the early
return, the new cursor on the origin, the nearest staged row) and one `LoopStep`
for each row of the origin that the loop of `BufferedCursor::step` looks at, so that
the loop is an argument about single iterations. `Scans` has the range and prefix
iterator of the storage crate and the merge of a branch's scan (`NextCell` is one
iteration of `CellScan::advance`), with the successor of a prefix. Keys are byte
strings in lexicographic order; what lies ahead of a cursor is the set of its rows,
of which `next` takes the least, as `RowCursor` promises.

### `CellTypes`, `CellValues` and `Terms`

Tags, widths and validation of payloads; constructors, accessors and limits; and
terms and ranges of terms. Cells are those a client can construct, and any byte
string a row might hold. The limits a database was created with are chosen
initially and stay.

### `Queries`

A read admits its request, opens one snapshot, reads posting lists one by one,
then records one by one. Other clients commit between any two of these reads.
`Plan` has the refusals of `plan.rs` in their order; `Wanted` states what a filter
asks for on the records, without index or plan, and `InIdOrder` what the order of an
answer is, without the iteration over a bitmap that produces it.

### `StoreRows`, `SnapshotStore`, `MemoryStore`, `MdbxStore` and `Storage`

`SnapshotStore` is what the storage traits promise. `MemoryStore` has the two
mutexes of the memory store and the poisoning of the writer's; `MdbxStore` has
native transactions and the table handles of the environment, which outlive
them, and the catalogue check that the adapter makes because of that. `Storage`
puts the two stores and `Cursors` side by side, each with its own state, and
states what each implements.

### `Errors`

An error is the sequence of its variants, outermost first. It is raised in some
layer, wrapped by each layer above that its type converts to, and answered by
the facade.

### Proof modules

The eight modules named `...Proofs` hold the theorems. Modules named `MC...`
instantiate the models for TLC where a configuration file cannot. Definitions
marked *faulty variant* are deliberately wrong versions of the definition that
follows; putting one in its place must make a property fail, which shows that the
property depends on that line of the code.

## What the runs check

| Run | Instance | Properties |
|---|---|---|
| `journal` | 2 keys, 2 values, undo length 4, 3 frames | `FramesConsistent`, `UndoInverts`, `FailedGroupRestores`, `ImplementsFrames` |
| `branches` | 2 threads, 1 manager, 2 branches, 1 cell, 1 value, 2 commits | `TypeOK`, `SnapshotIsOrigin`, `SealedIsCurrent` |
| `branches_managers` | 2 threads, 2 managers, 2 branches, 1 commit, deletions only | `LockDiscipline`, `RegistryAgrees`, `PublishedOnce` |
| `branches_versions` | 2 threads, 1 manager, 2 branches, 1 value, 1 commit | `ImplementsVersions` |
| `branches_live` | 2 threads, 1 manager, 2 branches, 1 commit, deletions only | `EveryCallReturns` |
| `records` | 2 branches, 2 keys and 1 reserved, 1 name, 2 values (1 refused), 3 IDs, 2 commits, 2 frames | `NeverCorrupt`, `AllConsistent`, `IdsNeverReused`, `ImplementsDocuments` |
| `api` | `Genesis`: 2 processes, 3 parameters (1 unfit), 2 hash functions, 3 IDs, 2 commits | `EmptyOrComplete`, `OpenedMatches`, `InitialisedOnce`, `EveryOpenReturns` |
| | `Errors`: every error, every chain of wrappers | `MeaningsKept` |
| `tables` | `Seal`: 3 records, 1 name, 3 values (2 attributes), containers of 2, 2 changes (also of `#roots` cells), 3 commits | `HeadCommitsToRows`, `IndexIsExact`, `RootsOfEveryCommit`, `HistoryIsRetained` |
| | `Batches`: 2 cells, 2 values, 2 terms, 3 IDs, 2 batches of 3 | `BatchesInOrder` |
| `merkle_trie` | 3 slots, depth 4, 4 paths, 2 of them with 2 payloads, 2 updates of every trie | `RootIsCanonical`, `ReadsAgree`, `NoIntermediateRows` |
| `storage` | `MemoryStore`: 3 processes, 1 table, 2 keys, 1 value | `ImplementsSnapshotStore` |
| | `MdbxStore`: 2 processes, 2 tables, 2 keys and 2 values (one each too large) | `MdbxImplementsStore` |
| | `Cursors`: 4 keys, 3 staged writes, any moves | `CursorsBehave` |
| | `Scans`: bytes 0 and 1, IDs of 2 bytes, 4 keys, 7 prefixes, all bounds | `ScansAreExact` |
| `terms` | pairs of all values of 3-bit bytes, 10 names, all short byte strings under every tag, 3 sets of limits | `ReadBack`, `ByteOrderIsValueOrder`, `RangesAreExact`, `AdmittedRowsFit` |
| `queries` | 1 client, 2 keys, 2 commits, requests of every shape | `AnswersOneCommit`, `RefusedIffMalformed`, `EveryReadAnswered` |

`api`, `tables` and `storage` check models that belong together and share no
state: `MCApi`, `MCTables` and `MCStorage` have the variables of each, and a
variable `part`, chosen initially, says which of them takes the steps. A property
of one model stutters, and holds, in the behaviours of the others.

All of them hold.

Branches and journal:

* `FramesConsistent`: frame markers are bare lengths of the undo log; they stay ordered and inside it, and a frame flagged as rolled back
  is empty, which is what lets `checkpoint` reuse it.
* `UndoInverts`: every suffix of the undo log inverts the changes since.
* `FailedGroupRestores`: a failed or panicking group restores the cells, the undo
  log, the frames and the rolled-back flag that the branch had when the group began.
* `ImplementsFrames`: the whole journal behaves like a stack of saved states.
* `SnapshotIsOrigin`: every operation sees the cells its branch was begun over,
  although no snapshot is kept between calls.
* `SealedIsCurrent`: the cached rows still say what the overlay says whenever
  they can be published.
* `LockDiscipline`: every mutex is held exactly by the call that needs it, on
  every path out of a call.
* `RegistryAgrees`: the registry resolves exactly the branches that have state,
  except for entries whose own call is about to remove them.
* `PublishedOnce`: a commit that was published but reported as failed is not
  published again by the retry.
* `ImplementsVersions`: publications form a chain in which each branch is
  applied in full to the version it started from.
* `EveryCallReturns`: once callers stop, every call in flight returns, whether or not
  anything fails.

Records and opening:

* `AllConsistent`: in the head, every branch and every rollback target, bindings
  and identity cells are inverse, no cell survives its record, and every ID from
  the allocator on is free.
* `NeverCorrupt`: no `CorruptState` return of the record layer is reachable.
* `IdsNeverReused`: a committed ID is never given to another key, although
  racing branches allocate from the same number and rollbacks undo allocations.
* `ImplementsDocuments`: users see documents by key; in particular a record
  created again under a deleted key starts empty.
* `EmptyOrComplete`: the published store is empty, or `prepare` accepts it with
  the parameters it was created with; also after any commits.
* `OpenedMatches`, `InitialisedOnce`: an opened database has the parameters its
  opener asked for, and is never initialised a second time.
* `EveryOpenReturns`: once processes stop calling `open`, those under way return.

Commits, tries and index:

* `HeadCommitsToRows`: the roots in the head reopen and commit to exactly the
  rows, so no legal seal fails with `RootMismatch`, and `validate_state` accepts the
  database again after any commits.
* `IndexIsExact`: after every commit the index is the one computed from nothing.
* `RootsOfEveryCommit`: the `#roots` record holds the roots of every earlier commit
  and of no other, but for cells that a branch changed itself before or after the
  commit they are for. What a branch stages for the very commit being recorded
  loses to the engine's write.
* `HistoryIsRetained`: the branch rows of earlier state and index roots, and the
  branch and container rows of the bitmaps they had, are still stored. Flat rows of
  earlier commits are not kept, so this does not say that an old cell can be read.
* `BatchesInOrder`: a batch of cells or postings equals its changes in order.
* `RootIsCanonical`: the root depends on the leaves alone, not on the updates.
* `ReadsAgree`: each reachable branch is stored and valid, and `get` and `walk`
  return the leaves, the latter in order.
* `NoIntermediateRows`: an update adds only rows of the new root and removes none.

Reading:

* `CursorsBehave`: each cursor, of both backends and of the buffer over either,
  does what the trait promises for every sequence of `next` and `prev`.
* `ScansAreExact`: scans yield exactly the rows between the
  bounds or under the prefix, once, in order, staged cells and tombstones applied.
* `ByteOrderIsValueOrder`, `ReadBack`: payloads order as values do, a value has
  one stored form, and it is read back.
* `RangesAreExact`: attributes always have a decodable
  term, and ranges select exactly the terms of their name, type and bounds.
* `AdmittedRowsFit`: whatever the limits admit fits the rows opening asked the
  backend for, whichever limit decides their size.
* `AnswersOneCommit`: an answer is that of one commit, current during the call.
* `RefusedIffMalformed`: a request is refused before a snapshot is opened
  exactly when it is malformed or uses what is not implemented.
* `EveryReadAnswered`: a read is answered however many commits go on.
* `ImplementsSnapshotStore`, `MdbxImplementsStore`: both stores keep snapshots,
  one writer and atomic publication, with poisoned locks and with handles newer than a snapshot.
* `MeaningsKept`: a full store is reported as such from any depth, conditions keep their meaning, and no stored fault becomes the client's.

### Bounds

`MaxBranch`, `MaxCommit` and `MaxId` stand for the ends of the `u64` ranges of
branch IDs, commit numbers and record IDs, so the exhaustion paths run. Two
threads and two branches are the smallest instance with all races: two calls on
one branch, two commits for one writer, and a commit against a `begin`. Two
commits (`branches`) add a branch that is begun over one version, outlives a
second and meets a third. The runs about locks, the registry and liveness never
look at values, so they only stage deletions. `MaxUndo` and `MaxFrames` bound the
journal; four entries over three frames reach frames that are empty, rolled back
twice, and reactivated by writes that change nothing. Three IDs and two keys let two
branches give one ID to different keys, and a record be created, deleted, created
again and rolled back, before and after a commit. There `MaxFrames` bounds the
frames of all branches and the commits together. Three parameter sets are two
that differ and one the backend refuses.

Three records in containers of two members put postings of one term into one
container, into two, and remove the last of either. Branches stage the `#roots`
cells of commits 1 and 2, so each is staged ahead of its commit, with it and, for
the first, after it, and one staged ahead may be deleted in time. Four paths of four nibbles
give branches with and without prefixes, at the root, in the middle and at the
last nibble; `merkle_trie` starts from every trie over them and makes every two
updates, so the second meets rows left by earlier roots.
Four keys put rows of the origin, staged rows and tombstones on both sides of a
cursor, next to it and beyond. Bytes 0 and 1 give prefixes that end in, or consist
of, the greatest byte, and a key that is the successor of one.

Bytes of three bits with a narrowest width of one byte keep all families of
types apart and let every bit pattern of both float widths occur, with zero,
subnormal, normal, infinite and NaN patterns of both signs. One name takes every
value and the others a few of each form; a row loaded from storage is checked
alone. In the three sets of limits the longest row is one of the widest fixed type
or of the engine, a string, or bytes; strings and bytes as long as a limit, and one
byte longer, are offered.

Threads, managers, branches, keys and (in `tables`) attribute values are symmetric where a `SYMMETRY` is given;
the runs with liveness properties do not use symmetry.

### Fairness and deadlock

`branches_live`, `api` and `queries` assume weak fairness of each thread's own
next step and nothing else: a thread that can run is scheduled. Locks are not assumed to be
fair, so while callers keep issuing calls one of them may wait for ever;
`EveryCallReturns` and `EveryOpenReturns` are therefore about a system whose
callers stop. `EveryReadAnswered` needs no such restriction: a read takes no lock.
Failures (`Fail`, `PublishInDoubt`, `Crash`), commits of others and new calls are
never fair, so no call relies on one to return. Running out of branch IDs or commit
numbers is an ordinary step of the call that meets it.

`Crash`, `Fail` and new calls are always possible in several modules, so TLC's
deadlock check says little there; that no two calls block each other is what
the liveness properties show, and their faulty variants (a lookup that keeps the
registry mutex, a failure that keeps the writer) violate them. Deadlock checking
is off in `terms`, which only fills a bounded set of cells.

## What is proved

The theorems hold for all sets of threads, processes, managers, keys and values
and for all bounds.

| Module | Theorem | States |
|---|---|---|
| `JournalProofs` | `TypeCorrect` | `[]TypeOK` |
| | `FramesCorrect` | `[](MarkersOrdered /\ RolledBackIsEmpty)` |
| | `ConsistencyCorrect` | `[]FramesConsistent` |
| | `UndoCorrect` | `[]UndoInverts` |
| | `FailedGroupsRestore` | `FailedGroupRestores` |
| | `JournalImplementsFrames` | `ImplementsFrames` |
| `BranchesProofs` | `TypeCorrect` | `[]TypeOK` |
| | `LocksCorrect` | `[]LockDiscipline` |
| | `RegistryCorrect` | `[]RegistryAgrees` |
| | `SnapshotCorrect` | `[]SnapshotIsOrigin` |
| | `SealedCorrect` | `[]SealedIsCurrent` |
| | `OnceCorrect` | `[]PublishedOnce` |
| | `Refinement` | `ImplementsVersions` |
| `RecordsProofs` | `TypeCorrect` | `[]TypeOK` |
| | `ConsistencyCorrect` | `[]AllConsistent` |
| | `CorruptionCorrect` | `[]NeverCorrupt` |
| | `IdsCorrect` | `IdsNeverReused` |
| | `RecordsImplementDocuments` | `ImplementsDocuments` |
| `ApiProofs` | `TypeCorrect` | `[]TypeOK` (of `Genesis`) |
| | `CompleteCorrect` | `[]EmptyOrComplete` |
| | `OpenedCorrect` | `[]OpenedMatches` |
| | `OnceCorrect` | `InitialisedOnce` |
| | `ErrorsKeepTheirMeaning` | `[]MeaningsKept` |
| `TablesProofs` | `HeadCommits` | `[]HeadCommitsToRows` |
| | `IndexExact` | `[]IndexIsExact` |
| | `RootsRecordComplete` | `[]RootsOfEveryCommit` |
| | `HistoryRetained` | `[]HistoryIsRetained` |
| | `BatchesAreInOrder` | `[]BatchesInOrder` |
| `QueriesProofs` | `AnswersAreOfOneCommit` | `[]AnswersOneCommit` |
| | `RefusalsAreExact` | `[]RefusedIffMalformed` |
| `StorageProofs` | `MemoryImplementsSnapshotStore` | `ImplementsSnapshotStore` |
| | `MdbxImplementsSnapshotStore` | `MdbxImplementsStore` |
| | `CursorsImplementRowCursor` | `CursorsBehave` |
| `ScansProofs` | `ScansExact` | `[]ScansAreExact` |

**Journal.** `MarkersOrdered /\ RolledBackIsEmpty` is inductive together with
`TypeOK`. `UndoInverts` is inductive because only the top of the log changes.
The failed group and the refinement need one more fact, `FlagInherited`: the
flag a rewind restores is consistent with the log it returns to. The failed group
also needs `GroupInv`: while a group runs or is rewound, the state saved when it
began is the overlay, the log below the mark, the frames and the flag of the mark.

**Branches.** Three invariants are built on each other.

1. `Shape` is `TypeOK`, `LockDiscipline`, `CallTyped` (each step finds the
   locals the code unwraps), `SlotHeld` (a resolved slot was inserted, and holds
   a state wherever the code uses one) and `Fresh` (IDs are handed out once).
   The lock argument is the usual one: a step of one call changes the slot of
   another call's branch only if both hold the same mutex. The lemmas
   `SlotStep`, `OthersStep`, `WriterStep`, `BranchLockStep` and
   `RegistryLockStep` say what a step may change; the invariant then follows
   from those effects rather than from each action. `Moves` lists the steps of a
   call that the lemmas distinguish; a seal that finds no number left moves like
   a failure.
2. `Origin` says which version things belong to. A branch with state started
   from a version that was current once, and if that is the head, then its base
   is the head's cells. Sealed rows are numbered after the origin and lead to
   the same cells as the overlay. A published branch lies behind the head. A
   call that runs works on a snapshot equal to its branch's origin, the writer's
   transaction is the head until it is replayed, and the staged result is the
   branch applied to the head. `SnapshotIsOrigin` alone is not inductive: that a
   branch's number still identifies its cells when it is compared with the head
   is exactly `Origin`.
3. `Registered` adds `Owned` (a call that resolved a branch did so in the manager
   that registers it) and `Emptied` (an entry is removed only after its state
   was taken) to `RegistryAgrees`.

The refinement maps a slot to its origin, overlay and sealed flag, and to
`Gone` from the moment its rows are published. `Insert` is `Begin`, `Edit` is
`Edit`, the first `Seal` is `Freeze`, `Publish` and `PublishInDoubt` are
`Commit`; emptying a slot is `Drop`, unless the branch was published already.

**Records.** `IInv` says that the head is consistent, and that every state of a
branch (its cells and each frame it can return to) is consistent and, if the
branch is not stale, *descends* from the head: its allocator is not behind the
head's, and below the head's allocator it has the head's identity cells or none.
`AllConsistent` is inductive without the second part, but `IdsNeverReused` is
not: it compares the head with the next one, and what a commit publishes is only
known to descend from the head because every write and rollback of the branch
preserved that. The effects of create, patch and delete on consistency, on
descent and on the documents are lemmas on cells, so no step mentions more than
one branch. For the refinement, `DocsOf` reads the documents through the
bindings; that bindings are injective (from `Consistent`) is what makes a write
to one record leave all other documents alone.

**Genesis.** `EmptyOrComplete` and `OpenedMatches` need to know what an opener has
staged. `IInv` adds `Owner` (the writer is held exactly between `BeginWrite` and
the return), `Staged` (what the transaction holds at each step, and that the
store is unchanged, or still empty, below it) and `Allocated` (record IDs in use
are below the allocator, which is why an opener finds its next ID free).

**Errors.** An answer depends on a chain of wrappers of any length. `EInv` says
that the chain ends in the error first raised, that each element wraps the next
in the variant its type has for it and is of a crate above the cause's
(`Chained`), or that it is one of the few conversions that replace an error by a
new one. The facade's search for a full store and its match on the outermost
variants are then decided by the kind of the last element.

**Tables.** `SealInv` says that each root is that of its rows and its branch rows are
stored, that the index is the one of the committed cells (`IndexHolds`: the rows are
those of a set of postings, and every bitmap is stored), that outside `staged` the
`#roots` record holds the roots of exactly the earlier commits, that the reserved
cells are kept (`ReservedKept`: those of genesis, and the roots the last commit
recorded, which no branch has changed yet), and that everything the roots of earlier heads
reach is stored. None of the four properties is inductive alone: a seal may start
from a root only if that commits to the rows, and computes postings from changed
cells only, which is right only if the index was exact before. The lemma under
`IndexIsExact` is that `ApplyIndex`, container by container, takes the index of a
set of postings to that of the edited set. What a commit adds never removes a
row, which carries the rest of the invariant.

For `BatchesInOrder` the batch is gathered step by step. `BatchInv` says that the
changes so far, *normalised*, take what is stored to what the history variables
have; that appending a change and normalising is normalising and then overriding
(`Normalize` takes the last change of each key) makes it inductive, for batches of
any length and without induction over sequences.

**Queries.** `QInv` describes a read at each of its steps: after the snapshot was
opened, it is one of the committed views since the call began; while postings are
read, the matches are the owners of exactly the terms up to `last`; while records are read, the answer is the
projection of the IDs already taken, and these precede the unread ones. That the
terms of a plan are those whose owners the filter wants (`Plan` against
`Satisfies`) is a lemma on filters and views.

**Stores and cursors.** `MInv` ties the phase of a process to the writer mutex: the
writer is held from `LockWriter` to `Release`, so the snapshot taken in between is
still the committed state. The MDBX adapter refines the store without an invariant:
its table lookup depends on the transaction's own rows only.

For the cursors, both backends' single steps are shown to return the nearest row
beyond the position and to stand there afterwards (`Stands`; the MDBX cursor keeps
the key in the native cursor only). `CInv` adds, for the merged cursor, that the
buffer shows the rows the writes leave, that at an end the origin's cursor is at
that end too (the code does not open a new one there), and, while a step is under
way, `LoopInv`: the staged row is the nearest staged one, and whatever row of the
origin lies between the position and its cursor is the one returned last or is
replaced by the buffer.

**Scans.** `ScanInv` says that what was yielded, and what is wanted and still ahead
of the cursor or staged, make up exactly what is wanted, and that the first precedes
the second. It rests on facts about byte strings of any length: the lexicographic
order is total and transitive (two strings that differ have a first difference, from
`LeastNatural`), the strings with a prefix are consecutive and begin with the
prefix, and a string follows all of them exactly if it is at or beyond `Successor`
(`BumpedEndsPrefix`, and `NothingBeyond` for prefixes of greatest bytes only).
Padding a bound with zeros to the length of a record ID changes nothing, because
no key is shorter (`LowerKeyBound`). That a scan may stop at its first row without
the prefix or beyond the bound is then a consequence, and so is that the staged
range, which never looks at the prefix again, is exact (`OverlayExact`).

Assumptions are named in the modules that declare the constants
(`JournalAssumption`, `BranchesAssumption`, `VersionsAssumption`,
`RecordsAssumption`, `GenesisAssumption`, `MemoryAssumption`, `SealAssumption`,
`BatchesAssumption`, `QueriesAssumption`, `CursorsAssumption`, `ScansAssumption`);
TLC evaluates each of them on its runs. They say that markers such as `Missing`, `Gone` and `None`
differ from the values next to which they are used, that bounds are naturals,
that reserved keys are distinct from users' and have distinct IDs below
`FIRST_USER_RECORD_ID`, that each set of parameters has a hash function, that
record IDs are naturals and containers have a positive width, that the cells
genesis writes are fields of reserved records and not under `#roots`, that
requests and initial views have the shape of the code's types, and that keys of a
table are ordered as numbers and have a last one (a table has finitely many rows);
for scans, that keys are finitely many byte strings no shorter than a record ID.

`Commitments` is an interface: the theorems about `Seal` and `Batches` take a root
to be the function it commits to. That the trie of the code provides this is what
`merkle_trie` model-checks.

### Only model-checked

* `EveryCallReturns`, `EveryOpenReturns`, `EveryReadAnswered`: liveness under
  fairness, which the prover does not handle.
* `RootIsCanonical`, `ReadsAgree`, `NoIntermediateRows`: the trie is a recursive
  data structure, and what its updates and reads compute needs induction over it,
  which is out of the prover's reach.
* `ReadBack`, `ByteOrderIsValueOrder`, `RangesAreExact`, `AdmittedRowsFit`: the
  codecs and the order of byte strings are recursive operators over the bytes.

## What is not modelled, and why

* Poisoned mutexes of the branch manager. A store that panics while a snapshot is
  taken or a head is read unwinds through the branch guard; the manager's
  documentation excludes this from its recovery contract. Errors at the same
  places are modelled, and so is the poisoned writer of the memory store.
* A panic inside `tx.commit()`, excluded by the same documentation.
* Callbacks that call back into the manager, which it forbids.
* The byte layout of the head row and of trie nodes, the YAML form of the genesis
  parameters, and the check of table names, which are constants of the code.
* The hash functions (taken to be injective), Roaring containers, UTF-8
  validation, integer byte conversion and libmdbx: libraries outside `src/`,
  modelled by how the code uses them. The options of the MDBX environment are
  passed through.
* Statistics: counters that nothing in the engine reads.
* Who may write reserved cells. `seal` leaves that to the record layer
  (`branch/src/seal.rs:60`), which writes no `#roots` cell. Below it, a branch that
  stages the `#roots` cell of a later commit makes every seal fail with
  `RootsCellExists` once that commit is the head, and one that stages the cell of an earlier commit replaces the
  roots recorded there; `Seal` has both behaviours, and `RootsOfEveryCommit` leaves
  out exactly these cells.
* The calls of the `Database` facade and its builders, which pass arguments on
  and keep no state of their own; the errors they translate are in `Errors`.
  Immutable-data operations, sorting, limits and offsets return
  `NotImplemented`.
* Storage is assumed to hold what was published: corruption of stored rows is
  detected by the code in many places, and these checks are modelled as guards
  whose failure the properties show to be unreachable.
