# A TLA+ model of the tron-goblin-node block path

The node follows the TRON chain: it receives blocks from peers, keeps them in an
in-memory fork tree, executes the best branch against persistent stores, switches
branches when a better one appears, and survives crashes and store errors while it
does so. This project models that path, checks it with TLC on small block trees,
and proves the fork tree correct with TLAPS for every block tree.

## The system: inventory

| Part (crate) | State | Operations that change it | Model |
|---|---|---|---|
| Fork tree `KhaosDb` (tron-consensus `khaos.rs`) | linked blocks by height, weak parent pointers, orphans, orphans by parent, head | new, start, push, take_orphans_waiting_on, pop, set_head, remove | `KhaosDb`, `KhaosDbProofs` |
| Block acceptance (tron-node `sync.rs`) | ready orphans, block_store, block_index, solidified pointer | accept_block, refeed, seeding, the solidified gate, clean extension | `SyncDriver` |
| Fork switch (`sync.rs` perform_reorg) | executed head, undo log, block_index | rollback, apply, unwind, re-apply, evict, reindex | `SyncDriver` |
| Startup (`sync.rs` run) | block_index, block_store, solidified pointer | reconcile_stores_to_head, seed_solidified_from_disk | `SyncDriver` |
| Executor commit and rollback_block (tron-executor `lib.rs`) | all account stores, undo records | commit, undo put, restore, delete of the record | `SyncDriver`, as durable steps |
| Manifests (`CheckPointV2`, used by tron-executor) | the manifests on disk | write, delete, fsync barrier, replay at startup | `SyncDriver` |
| Fork choice, solidification (tron-consensus) | none | pure | `SyncDriver` operators |
| PBFT runtime (tron-node `pbft_runtime.rs`) | vote tally, solidified pointer | handle_commit | `SyncDriver`: the pointer only |
| Apply pipeline, Block-STM, snapshot stack | overlays, versions | apply/flush, read/validate, push/pop | planned |
| Sync leadership, fetch pool (`sync.rs`) | lease, want/inflight/ready | claim, reclaim, deliver, take, preempt | planned |
| Mempool | pending, recently included, disk copy | submit, remove, evict, reload | planned |
| SR production, slots, maintenance | schedule, votes | produce, maintenance | planned |
| Index engine, firehose | index rows, log cursor | extract, retract, resume | planned |
| Actuators, TVM, resources | account state | sequential contract code | not modelled |
| RPC, gRPC, sinks, wallet, tools | none of their own | queries, I/O, conversion | not modelled |

What makes this code hard: blocks arrive in any order and on several branches; a
switch consists of many durable writes, any of which can fail or be the last before
a crash; the fork tree forgets old blocks while branches still hang on them; two
threads write the solidified pointer; every driver of the fleet reconciles the
stores when it starts. `PROJECT.json` lists these as hazards at the lines where
they bite.

What should hold: the stores always hold the state of the head they name; nothing
at or below the solidified height is rolled back; `block_index` names the executed
chain; an undo record belongs to the block executed at its height; a failed switch
ends where it began; no orphan is stranded; and the node ends on the best branch.

## Modules

**`KhaosDb`** is the fork tree. Its one variable is a record with the fields of
`Inner`; every method is an operator on that record (`PushTree`, `RemoveTree`, ...)
and an action that applies it, since one mutex guards the tree. `by_num` keeps
arrival order, because `remove` elects the first block of the highest list. A weak
parent pointer is modelled by the set `attached` of blocks whose pointer still
upgrades: freeing a node (`Detach`) kills the pointers to it, and linking the same
block again does not revive them. `GetBranch` is a recursive function, one case per
loop of `get_branch`.

**`SyncDriver`** extends `KhaosDb` with the driver and the stores. The drivers of
a node share one apply lock, so there is one `job`; `job.pc` names its next step,
and a step is one durable write or one call on the tree. The account stores are
abstracted to `executed`, the head they name, and `exact`, whether they hold what
executing that chain gives: a commit on the wrong parent, a rollback with another
block's record, a half-written rollback or a wrong replay clears `exact`. The
startup pass (`rec`) and the PBFT runtime (`pbft`) are separate processes; the
startup pass reads an index entry, deletes the bytes and deletes the entry in three
steps. `Faults` selects the errors of a run: `store`, `index`, `reindex`, `exec`,
`undo`, `rollback` are error returns of the calls of those names, `torn` is a crash
among the writes of `rollback_block`. `Fleet` lets one driver accept while another
one starts.

A commit (`commit_drained`) is written out, for a clean extension, a new-fork block
and an old block applied again alike: `WriteManifest`, `FlushStores` (the batches of
all stores), then `DeleteOwn` and, for manifests left by deferred commits,
`ClearOldest` one by one. With `defer` set the block's manifest is kept, until
`Barrier` of them are cleared. `Index` sets `defer` to a value of `Deferrals` (what
`is_catching_up` answers for the block); `perform_reorg` commits with the value the
last extension left. A crash loses `defer` and the tree, and the restart replays
the manifests in order (`Replay`). `ReplayExact` says when that gives the state of
the last manifest's block: the stores' block and the manifests together make up its
chain, and no block is written after one above it.

`SyncDriver` uses the operators of `KhaosDb`, and the runs check the temporal
formula `KhaosSpec` as a property of it: each driver step is a call the fork tree
allows, or leaves the tree alone. So whatever is proved of `KhaosSpec` holds of
the tree inside the driver, on the instances where that was checked.

**`MCKhaosDb` and `MCSyncDriver`** give the constants. `MCKhaosDb` also
states `BranchExact`, the reference for `get_branch`.

Simplifications, beyond data:

- a crash is one of the process: what was written stays written, in order. Power
  loss, and so what fsync adds, is left out, and a synced and a deferred commit
  differ only in what happens to the manifest;
- the batches of a commit are one step, except for a crash among them; an error of
  a batch or of a manifest's deletion is left out, and `exec` is an error before the
  manifest is written;
- the replay is one step with the restart: it deletes each manifest after writing
  it, so a crash inside it leaves a suffix to replay again over what the prefix gave;
- `defer` is one flag, though each driver of a fleet has its own;
- a block's bytes, its signature and its consensus validity are left out: every
  block offered is valid by header, `exec` stands for one that does not execute;
- the snapshot-stack and pipelined variants of apply and switch are left out;
- `khaos_started` is left out: a driver that has set it finds the tree empty only
  when there was nothing to seed from;
- read errors of `block_store` and `block_index`, and a second error inside the
  same error branch (the index delete of a failed execution), are left out;
- the cap of 1,024 heights on the startup scan is left out;
- `by_parent` keeps a repeated id once; `Arc`s that a running job holds do not keep
  a removed node's children attached;
- `get_branch_deep` and `set_max_size` have no caller outside the tests of
  `khaos.rs`.

## Runs

The driver's tree has a branch of three blocks, one of four and a third of one (nine
blocks), with two witnesses; "small" is the two branches cut to two and three (six
blocks). That is the least on which a switch is two deep on the old side and three
on the new, a branch can lose and win back the head, solidification advances on
either branch, and a transaction refers to a block of its own branch. `MaxCapacity`
3 retains what such a switch needs, and on the full tree the switch from `a3` to
`b4` is deeper than that. `MaxRefeed` 1 or 2 lets the cap be hit, `SeedWindow` 2
leaves the oldest block out of the seeded window, `Barrier` 3 lets the barrier fall
on a third deferred block, inside a switch too.

| Run | Shows | Bounds |
|---|---|---|
| `fork_tree` | all four invariants of the tree and `BranchExact` | 6 blocks, capacity 2, any order of calls |
| `faults` | `StateExact`, `IndexCanonical`, `LinkedPersisted`, `ExecutedLinked`, `NoStrandedOrphan`, `UndoCovers`, `SwitchRecovers`, `ReplaySound`, `Finality`, `KhaosSpec` | full tree, catch-up mode on or off at each extension, one `store`, `index` or `exec` error |
| `crash` | `StateExact`, `UndoSound`, `IndexNeverLeads`, `Finality` | full tree, catch-up mode off, one crash between any two steps or among the batches of a commit |
| `hard` | `LinkedPersisted`, `NoStrandedOrphan`, `KhaosSpec` | small tree, two errors of any kind and a crash, one inside a rollback included |
| `catch_up` | `CatchesUp` | small tree, one error, a PBFT commit of the best tip at any moment, with fairness |

`IndexCanonical` in `faults` also settles a disagreement among the comments: two of
them say that `block_index` is written for every accepted block, side forks
included; the code writes it only for the executed chain, and the property holds.

What the passing runs leave out because it does not hold is said here and at the
hazards: an error while reindexing (`IndexCanonical`; the code logs it and goes on),
a crash among the writes of one `rollback_block` (`StateExact`), a crash in catch-up
mode (`StateExact`), and, in `ReplaySound`, the window in which a synced commit has
deleted its own manifest and not yet those of the deferred blocks below it.

The other runs end in a counterexample: each states what a comment or document of
the repository says, and `PROJECT.json` quotes the line.

| Run | Violates | What happens |
|---|---|---|
| `index_crash` | `IndexCanonical` | `a1` is executed; `b1` arrives as a side fork and `b2` switches: `a1` is rolled back and the manifest of `b1` written; crash. The replay makes `b1` the head, the startup scan begins above it, and height 1 still names `a1` |
| `undo_fault` | `StateExact` | in the same switch `b1` is committed and its undo put fails; `applied_new` does not hold it, so nothing is unwound and `a1` is applied on the state of `b1` |
| `crash_catch_up` | `CatchesUp` | crash between the commit of `a1` and its undo record; every later switch finds no record for `a1` and is refused, so the node never reaches `b3` |
| `pbft_switch` | `Finality` | `a2` is executed and the gate lets the switch to `b3` pass; before the first rollback a PBFT commit of `a2` raises the pointer to 2; the switch then rolls `a2` back |
| `solid_race` | `SolidForward` | after `c2` the sync thread finds that height 1 is above the pointer 0; the PBFT runtime, which has compared as well, writes 3; the sync thread writes 1 |
| `manifest_switch` | `StateExact` | in catch-up mode `a1` is committed and its manifest kept; `b2` switches: `a1` is rolled back (the manifest stays), the manifest of `b1` is written; crash. The replay writes `a1` again and `b1` over it |
| `fleet_start` | `IndexCanonical` | a starting driver reads the head `g0`; another driver indexes and executes `a1`; the scan finds the entry above the head it read and deletes the bytes and the entry of the executed block |

Other behaviours the model has, each found by changing the constants of a run:

- with `torn` among the faults and one crash, `StateExact` fails: a crash among the
  writes of `rollback_block` leaves stores that belong to no block;
- with two crashes `UndoSound` and `StateExact` fail: the first between the restored
  pre-images of `a1` and the deletion of its record, the second between the commit
  of `b1` and its record. The coverage gate asks only that there is a record at the
  height, and `b1` is later rolled back with that of `a1`. An undo error in place of
  the second crash leaves the same foreign record (`UndoSound` fails);
- with `Fleet` TRUE, `LinkedPersisted` and `CatchesUp` fail as well: the scan of a
  starting driver deletes the bytes of a linked block, and a block whose
  transactions refer to the entry it deleted is refused from then on;
- with two crashes, the first in a switch and the second inside the startup scan,
  `IndexNeverLeads` fails: an entry stays above the gap where the next scan stops;
- with a PBFT commit of `b1` while the node is on the other branch, `CatchesUp`
  fails: the pointer is a height, and the own block there is taken for solidified;
- with capacity 1 and a PBFT commit, `KhaosSpec` fails: the gate restores a head
  that the push has just pruned;
- with the reindexing error among the faults, `IndexCanonical` fails;
- on a tree where a third branch grows from a failed new branch, `CatchesUp` fails:
  the eviction cuts the third branch off from the executed chain.

Deadlock is checked in every run: a peer can always offer a block.

**Fairness** (`LiveSpec`). Weak fairness of `JobStep` and `StartStep`: an acceptance
and a startup pass are synchronous code that runs on once begun. Strong fairness of
`Fetch(b)` for each block: peers keep offering what the node does not hold on its
canonical chain (`already_have_canonical`), and the driver is idle again and again,
though not continuously. Nothing is assumed of errors, crashes or PBFT commits
except their bounds.

## Proofs

`KhaosDbProofs` proves, for every set of blocks, every parent function, every
numbering by naturals with a highest block, and every positive capacity
(`KhaosAssumption`):

| Theorem | Statement |
|---|---|
| `TypeCorrect` | `KhaosSpec => []KhaosTypeOK` |
| `HeadNeverDangles` | `KhaosSpec => []HeadIsLinked` |
| `WalksAreSafe` | `KhaosSpec => []PointersSound` |
| `NoOrphanStranded` | `KhaosSpec => []OrphansIndexed` |

The inductive invariant `TreeInv` is their conjunction; none is inductive alone.
`remove` needs the lists free of repetitions (`KhaosTypeOK`) to know that the block
is gone before a head is elected; `start` needs `HeadIsLinked` to know that a tree
without a head is empty; `pop` needs `PointersSound` to stay in the store; pruning
needs the head at or above the threshold. Each method has a lemma on its operator
(`StartInv`, `PushInv` through `LinkOnlyInv`, `PruneLinkedInv`, `PruneUnlinkedInv`,
`PruneByParentInv` and `StashInv`, `TakeInv`, `RemoveInv` through `UnlinkLinks` and
`ElectLinked`, `HeadInv`); `StepInv` combines them and `Inductive` closes the
induction. Nothing is assumed of the parent function: a cyclic or misnumbered one is
covered as well, since `push` checks the number itself.

Only model-checked: everything about `SyncDriver`, and `BranchExact`, which is about
a recursive function and would need induction over its argument. Liveness and
ENABLED are outside what the provers can do.

## Plan

1. `BlockCommit`: the manifest protocol at the level of stores and keys, with power
   loss and what fsync saves, implementing the commit and the replay of
   `SyncDriver`; then `ApplyPipeline` over it.
2. `SyncFetchPool` with the leader's lease: each id in one place, no lost id, no
   head-of-line deadlock, one applier.
3. `PbftRuntime`: tally, thresholds, equivocation, own commit; composed with the
   solidified pointer.
4. `ForkChoice` as the loop against its definition on headers, and slot arithmetic
   against its inverse.
5. `Mempool`, `BlockStm` (against the serial order), the snapshot stack, the index
   engine's retraction.
6. An abstract `Ledger` (a head that moves along the tree and never below the final
   block) implemented by `SyncDriver` without PBFT.
7. Proofs: type correctness and `StateExact` of `SyncDriver` for the error kinds of
   `faults`, the refinement of `KhaosSpec` by the driver, `BlockCommit`'s atomicity,
   the fetch pool's partition invariant.
