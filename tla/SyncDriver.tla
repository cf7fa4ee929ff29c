----------------------------- MODULE SyncDriver -----------------------------
(***************************************************************************)
(* Block acceptance in crates/tron-node/src/sync.rs: what a sync driver does *)
(* with a block, from the fork tree to the executed state, with the fork     *)
(* switch, its recovery, and crash and restart.                             *)
(*                                                                         *)
(* The drivers of a node share the stores and the fork tree and apply under  *)
(* one lock, so one job is in progress at a time.  A step of the job is one  *)
(* durable write or one call on the fork tree: a crash, a PBFT commit or     *)
(* another driver's startup reconciliation can fall between any two.         *)
(*                                                                         *)
(* The account state is abstracted to the block it belongs to (executed, the *)
(* head hash of DynamicPropertiesStore) and to whether the stores hold what  *)
(* executing that block's chain gives (exact).  A commit goes through a       *)
(* manifest on disk; the manifests that are left are replayed at startup.    *)
(***************************************************************************)
EXTENDS KhaosDb, FiniteSets

CONSTANTS
    Genesis,        \* the block initialize_genesis executes
    Anc,            \* a block's ancestry by the headers, itself included
    Witness,        \* the producer of a block
    Witnesses,      \* the active witness schedule
    Ref,            \* a block the transactions of a block refer to, or None
    WalkHorizon,    \* WALK_HORIZON of the gate and of best_head_with_solidified
    SeedWindow,     \* SEED_WINDOW
    MaxRefeed,      \* MAX_REFEED
    Deferrals,      \* the values is_catching_up takes
    Barrier,        \* DEFER_FSYNC_BARRIER_BLOCKS
    Faults,         \* the store and executor errors that may happen
    MaxFaults,      \* bound on how often they do
    MaxCrashes,     \* bound on process crashes
    Tip,            \* the highest block of the tree peers offer
    PbftBlocks,     \* blocks that PBFT may commit while the driver runs
    Fleet           \* TRUE: a driver may accept while another one starts

ASSUME DriverAssumption ==
    /\ Genesis \in Blocks /\ Parent[Genesis] = None /\ Num[Genesis] = 0
    /\ Anc \in [Blocks -> SUBSET Blocks]
    /\ \A b \in Blocks :
          Anc[b] = {b} \cup (IF Parent[b] = None THEN {} ELSE Anc[Parent[b]])
    /\ Witness \in [Blocks -> Witnesses \cup {None}]
    /\ Ref \in [Blocks -> Blocks \cup {None}]
    /\ {WalkHorizon, SeedWindow, MaxRefeed, MaxFaults, MaxCrashes} \subseteq Nat
    /\ Faults \subseteq {"store", "index", "reindex", "exec", "undo", "rollback", "torn"}
    /\ Deferrals \subseteq BOOLEAN /\ Barrier \in Nat \ {0}
    /\ PbftBlocks \subseteq Blocks /\ Tip \in Blocks
    /\ Fleet \in BOOLEAN

VARIABLES
    ready,          \* ready_orphans: orphans to be accepted again
    job,            \* the acceptance in progress
    rec,            \* the startup pass of a driver
    pbft,           \* the block handle_commit is about to make solid, or None
    executed,       \* latest_block_header_hash
    exact,          \* the stores are those of executed's chain
    manifests,      \* CheckPointV2: the blocks with a manifest, oldest first
    defer,          \* exec_config.defer_store_fsync of the applying driver
    block_store,    \* ids whose bytes are stored
    block_index,    \* height -> id of the canonical map, None when absent
    undo,           \* height -> block whose pre-images are recorded, or None
    solid,          \* latest_solidified_block_num
    faults, crashes \* counters of the two bounds

commits == <<manifests, defer>>
chain == <<executed, exact, undo, commits>>
disk == <<chain, block_store, block_index, solid>>
env == <<rec, pbft, faults, crashes>>
vars == <<khaos, ready, job, rec, pbft, executed, exact, manifests, defer,
          block_store, block_index, undo, solid, faults, crashes>>

-----------------------------------------------------------------------------
(* The job: pc names the next step, blk is the block being accepted, prev    *)
(* the fork-tree head before it was pushed, old and new the two sides of a   *)
(* fork switch, newest block first (while seeding, new is what is left of    *)
(* the window), i how many of them the current loop has done, at how far the *)
(* commit of a block has come, bad whether recovery met an error, fed the     *)
(* orphans fed again so far.                                                *)

Idle == [pc |-> "idle", blk |-> None, prev |-> None, from |-> None,
         old |-> <<>>, new |-> <<>>, i |-> 0, at |-> "logic", bad |-> FALSE,
         fed |-> 0]

Done == [Idle EXCEPT !.fed = IF ready = <<>> THEN 0 ELSE job.fed]

GoTo(l) == job' = [job EXCEPT !.pc = l]

Fault(kind) == kind \in Faults /\ faults < MaxFaults /\ faults' = faults + 1

Max2(m, n) == IF m >= n THEN m ELSE n

\* The block at height n of the chain that ends in b
AtHeight(b, n) == {x \in Anc[b] : Num[x] = n}

\* block_extends_executed_head and, for such a block, validate_ref_block
RefBlockOK(b) ==
    Parent[b] = executed /\ Ref[b] # None => block_index[Num[Ref[b]]] = Ref[b]

-----------------------------------------------------------------------------
(* DPoS solidification *)

\* LatestBlockNum of a witness on the chain that ends in b
LatestBlockNum(b, w) ==
    LET own == {Num[x] : x \in {y \in Anc[b] : Witness[y] = w}} \cup {0}
    IN CHOOSE n \in own : \A m \in own : m <= n

\* solid_block_from_witnesses: the entry of the sorted list at the position
\* past which 70% of the witnesses have produced
SolidBlockFromWitnesses(b) ==
    LET position == (Cardinality(Witnesses) * 30) \div 100
        Below(n) == Cardinality({w \in Witnesses : LatestBlockNum(b, w) < n})
        UpTo(n) == Cardinality({w \in Witnesses : LatestBlockNum(b, w) <= n})
    IN CHOOSE n \in {LatestBlockNum(b, w) : w \in Witnesses} :
          Below(n) <= position /\ position < UpTo(n)

\* What update_solidified computes on the executed state.  The witness rows of
\* a half-restored state may give any height.
WitnessSolid ==
    IF exact THEN {SolidBlockFromWitnesses(executed)} ELSE Heights

\* Mutant: the pointer follows the witnesses down as well
MovesAny(n) == TRUE

\* The read of the pointer and the comparison; the write is a step of its own,
\* because the PBFT runtime writes the same key on another thread
Moves(n) == n > solid

-----------------------------------------------------------------------------
(* The solidified-containment gate *)

\* parent_of can be followed from b down to its ancestor a
Walkable(b, a) ==
    {x \in Anc[b] : Num[x] > Num[a]} \subseteq block_store

\* The canonical id at the solidified height, when the walk from the executed
\* head finds one
SolidIds ==
    {s \in AtHeight(executed, solid) :
        Walkable(executed, s) /\ Num[executed] - solid <= WalkHorizon}

\* Mutant: any longer candidate is eligible
EligibleLonger(c, s) == Num[c] > Num[s]

\* best_head_with_solidified on the one candidate c: walked back to s within
\* the horizon, one iteration of which sees s itself
Eligible(c, s) ==
    \/ c = s
    \/ /\ Num[c] > Num[s]
       /\ s \in Anc[c]
       /\ Walkable(c, s)
       /\ Num[c] - Num[s] < WalkHorizon

\* gate_new_head_against_solidified
GatePasses(head, prev) ==
    \/ head = prev
    \/ solid < 1
    \/ Parent[head] = executed
    \/ \A s \in SolidIds : Eligible(head, s)

NeedsReorg == LiveParent(khaos, khaos.head) \notin {None, executed}

-----------------------------------------------------------------------------
(* accept_block: the wrapper and the seeding of the fork tree *)

\* The window of recent canonical blocks, oldest first; the head alone when the
\* index or the store has a gap.  khaos_started is left out: a driver that has
\* set it only finds the tree empty again when there was nothing to seed from.
SeedChain ==
    LET indexed == {n \in Heights : block_index[n] # None}
        lowest == IF indexed = {} THEN Num[executed]
                  ELSE CHOOSE n \in indexed : \A m \in indexed : n <= m
        start == Max2(Num[executed] - SeedWindow, lowest)
        window == [k \in 1..(Num[executed] - start + 1) |-> block_index[start + k - 1]]
    IN IF window # <<>> /\ Members(window) \subseteq block_store THEN window
       ELSE IF executed \in block_store THEN <<executed>> ELSE <<>>

Accept(b, fed) ==
    LET w == IF khaos.head = None THEN SeedChain ELSE <<>>
    IN job' = [Idle EXCEPT !.pc = IF w = <<>> THEN "push" ELSE "seed",
                           !.blk = b, !.new = w, !.fed = fed]

\* A peer delivers b
Receive(b) ==
    /\ job.pc = "idle" /\ ready = <<>>
    /\ Fleet \/ rec.pc = "done"
    /\ b \notin Linked(khaos) /\ RefBlockOK(b)
    /\ Accept(b, 0)
    /\ UNCHANGED <<khaos, ready, disk, env>>

\* A block of the fork tree, or one whose transactions refer to another chain
RefuseBlock(b) ==
    /\ job.pc = "idle" /\ ready = <<>>
    /\ Fleet \/ rec.pc = "done"
    /\ b \in Linked(khaos) \/ ~RefBlockOK(b)
    /\ UNCHANGED vars

\* Mutant: the loop has no cap
RefeedAll ==
    /\ job.pc = "idle" /\ ready # <<>>
    /\ ready' = Tail(ready)
    /\ IF RefBlockOK(Head(ready)) THEN Accept(Head(ready), job.fed + 1)
       ELSE job' = [Idle EXCEPT !.fed = IF Len(ready) = 1 THEN 0 ELSE job.fed + 1]
    /\ UNCHANGED <<khaos, disk, env>>

\* refeed_ready_orphans: one turn of the loop, then its cap
Refeed ==
    /\ job.pc = "idle" /\ ready # <<>> /\ job.fed < MaxRefeed
    /\ ready' = Tail(ready)
    /\ IF RefBlockOK(Head(ready)) THEN Accept(Head(ready), job.fed + 1)
       ELSE job' = [Idle EXCEPT !.fed = IF Len(ready) = 1 THEN 0 ELSE job.fed + 1]
    /\ UNCHANGED <<khaos, disk, env>>

DropReady ==
    /\ job.pc = "idle" /\ ready # <<>> /\ job.fed = MaxRefeed
    /\ ready' = <<>> /\ job' = Idle
    /\ UNCHANGED <<khaos, disk, env>>

\* Mutant: start is called for every block of the window
SeedByStart ==
    /\ job.pc = "seed"
    /\ khaos' = StartTree(khaos, Head(job.new))
    /\ job' = [job EXCEPT !.new = Tail(@),
                          !.pc = IF Len(job.new) = 1 THEN "push" ELSE "seed"]
    /\ UNCHANGED <<ready, disk, env>>

Seed ==
    /\ job.pc = "seed"
    /\ khaos' = IF khaos.head = None THEN StartTree(khaos, Head(job.new))
                ELSE PushTree(khaos, Head(job.new))
    /\ job' = [job EXCEPT !.new = Tail(@),
                          !.pc = IF Len(job.new) = 1 THEN "push" ELSE "seed"]
    /\ UNCHANGED <<ready, disk, env>>

-----------------------------------------------------------------------------
(* accept_block_inner up to the fork decision *)

PushBlock ==
    /\ job.pc = "push"
    /\ khaos' = PushTree(khaos, job.blk)
    /\ job' = IF PushKind(khaos, job.blk) \in {"root", "link"}
              THEN [job EXCEPT !.pc = "take", !.prev = khaos.head] ELSE Done
    /\ UNCHANGED <<ready, disk, env>>

\* Mutant: nobody asks for the waiting orphans
TakeNothing ==
    /\ job.pc = "take"
    /\ GoTo("persist")
    /\ UNCHANGED <<khaos, ready, disk, env>>

\* The orphans waiting on the block are queued for acceptance
Take ==
    /\ job.pc = "take"
    /\ khaos' = TakeTree(khaos, job.blk)
    /\ ready' = ready \o Waiters(khaos, job.blk)
    /\ GoTo("persist")
    /\ UNCHANGED <<disk, env>>

Persist ==
    /\ job.pc = "persist"
    /\ block_store' = block_store \cup {job.blk}
    /\ GoTo("gate")
    /\ UNCHANGED <<khaos, ready, chain, block_index, solid, env>>

\* Mutant: the block stays linked
PersistFailsKeeps ==
    /\ job.pc = "persist" /\ Fault("store")
    /\ job' = Done
    /\ UNCHANGED <<khaos, ready, disk, rec, pbft, crashes>>

PersistFails ==
    /\ job.pc = "persist" /\ Fault("store")
    /\ khaos' = RemoveTree(khaos, job.blk)
    /\ job' = Done
    /\ UNCHANGED <<ready, disk, rec, pbft, crashes>>

\* The gate, then: a side fork, a fork switch, or a clean extension
Gate ==
    /\ job.pc = "gate"
    /\ GatePasses(khaos.head, job.prev)
    /\ job' = IF khaos.head # job.blk THEN Done
              ELSE [job EXCEPT !.pc = IF NeedsReorg THEN "branch" ELSE "index"]
    /\ UNCHANGED <<khaos, ready, disk, env>>

GateRejects ==
    /\ job.pc = "gate"
    /\ ~GatePasses(khaos.head, job.prev)
    /\ khaos' = IF job.prev = None THEN khaos ELSE [khaos EXCEPT !.head = job.prev]
    /\ job' = Done
    /\ UNCHANGED <<ready, disk, env>>

-----------------------------------------------------------------------------
(* Clean extension: index, execute, record the undo log, solidify *)

\* The index entry, then the deferral flag, which perform_reorg reads as well
Index ==
    /\ job.pc = "index"
    /\ block_index' = [block_index EXCEPT ![Num[job.blk]] = job.blk]
    /\ defer' \in Deferrals
    /\ GoTo("exec")
    /\ UNCHANGED <<khaos, ready, executed, exact, undo, manifests, block_store, solid, env>>

IndexFails ==
    /\ job.pc = "index" /\ Fault("index")
    /\ khaos' = RemoveTree(khaos, job.blk)
    /\ job' = Done
    /\ UNCHANGED <<ready, disk, rec, pbft, crashes>>

\* Mutants: the index entry, or the linked block, is left behind
UnacceptKeepsIndex ==
    /\ khaos' = RemoveTree(khaos, job.blk)
    /\ job' = Done
    /\ UNCHANGED <<ready, disk, rec, pbft, crashes>>

UnacceptKeepsBlock ==
    /\ block_index' = [block_index EXCEPT ![Num[job.blk]] = None]
    /\ job' = Done
    /\ UNCHANGED <<khaos, ready, chain, block_store, solid, rec, pbft, crashes>>

\* The error branch: the block leaves the fork tree and the index
Unaccept ==
    /\ khaos' = RemoveTree(khaos, job.blk)
    /\ block_index' = [block_index EXCEPT ![Num[job.blk]] = None]
    /\ job' = Done
    /\ UNCHANGED <<ready, chain, block_store, solid, rec, pbft, crashes>>

ExecuteFails ==
    /\ job.pc = "exec" /\ job.at = "logic"
    /\ IF Parent[job.blk] = executed THEN Fault("exec") ELSE UNCHANGED faults
    /\ Unaccept

\* Mutant: the committed block has no undo record
PutUndoSkips ==
    /\ job.pc = "undo"
    /\ GoTo("solidify")
    /\ UNCHANGED <<khaos, ready, disk, env>>

PutUndo ==
    /\ job.pc = "undo"
    /\ undo' = [undo EXCEPT ![Num[job.blk]] = job.blk]
    /\ GoTo("solidify")
    /\ UNCHANGED <<khaos, ready, executed, exact, commits, block_store, block_index,
                   solid, env>>

\* The undo record is written after the commit, and its error takes the same
\* branch as an execution error
PutUndoFails == job.pc = "undo" /\ Fault("undo") /\ Unaccept

Solidify ==
    /\ job.pc = "solidify"
    /\ \E n \in WitnessSolid :
          job' = IF Moves(n) THEN [job EXCEPT !.pc = "raise", !.i = n] ELSE Done
    /\ UNCHANGED <<khaos, ready, disk, env>>

SaveSolid ==
    /\ job.pc = "raise"
    /\ solid' = job.i
    /\ job' = Done
    /\ UNCHANGED <<khaos, ready, chain, block_store, block_index, env>>

-----------------------------------------------------------------------------
(* perform_reorg: the fork switch driven by the undo log *)

\* Mutant: the old chain is rolled back oldest first
NextOldReversed == job.old[Len(job.old) - job.i]

NextOld == job.old[job.i + 1]                  \* newest first
NextNew == job.new[Len(job.new) - job.i]       \* oldest first
LastNew == job.new[Len(job.new) - job.i + 1]   \* the last one applied
NextBack == job.old[Len(job.old) - job.i]      \* old chain, oldest first

\* The head of each loop: the next block, or what follows the loop
Reindexing(j) == IF j.i < Len(j.new) THEN [j EXCEPT !.pc = "reindex"] ELSE Done

Applying(j) == IF j.i < Len(j.new) THEN [j EXCEPT !.pc = "apply"]
               ELSE Reindexing([j EXCEPT !.i = 0])

Rolling(j) == IF j.i < Len(j.old) THEN [j EXCEPT !.pc = "rollback"]
              ELSE Applying([j EXCEPT !.i = 0])

\* Mutant: the last old block is not applied again
ReapplyingShort(j) == IF j.i + 1 < Len(j.old) THEN [j EXCEPT !.pc = "reapply"]
                      ELSE IF j.bad THEN Done ELSE [j EXCEPT !.pc = "evict", !.i = 0]

Reapplying(j) == IF j.i < Len(j.old) THEN [j EXCEPT !.pc = "reapply"]
                 ELSE IF j.bad THEN Done ELSE [j EXCEPT !.pc = "evict", !.i = 0]

Unwinding(j) == IF j.i > 0 THEN [j EXCEPT !.pc = "unwind"] ELSE Reapplying(j)

\* get_branch, then the undo-coverage gate
Branch ==
    /\ job.pc = "branch"
    /\ LET r == GetBranch(khaos, executed, job.blk)
       IN /\ r.ok
          /\ \A x \in Members(r.old) : undo[Num[x]] # None
          /\ job' = Rolling([job EXCEPT !.from = executed,
                                        !.old = r.old, !.new = r.new])
    /\ UNCHANGED <<khaos, ready, disk, env>>

\* Mutant: the executed head is removed instead of the candidate
NoCommonAncestorSwapped ==
    /\ job.pc = "branch"
    /\ ~GetBranch(khaos, executed, job.blk).ok
    /\ khaos' = RemoveTree(khaos, executed)
    /\ job' = Done
    /\ UNCHANGED <<ready, disk, env>>

NoCommonAncestor ==
    /\ job.pc = "branch"
    /\ ~GetBranch(khaos, executed, job.blk).ok
    /\ khaos' = RemoveTree(khaos, job.blk)
    /\ job' = Done
    /\ UNCHANGED <<ready, disk, env>>

\* A record of the old side is missing or cannot be read
NotCovered ==
    /\ job.pc = "branch"
    /\ LET r == GetBranch(khaos, executed, job.blk)
       IN /\ r.ok
          /\ \/ /\ \E x \in Members(r.old) : undo[Num[x]] = None
                /\ UNCHANGED faults
             \/ r.old # <<>> /\ Fault("rollback")
    /\ job' = Done
    /\ UNCHANGED <<khaos, ready, disk, rec, pbft, crashes>>

\* rollback_block writes the pre-images recorded for height n, then deletes the
\* record.  The record of another block restores that block's parent as head
\* and leaves the stores a mixture.
Restore(n) ==
    /\ undo[n] # None
    /\ executed' = Parent[undo[n]]
    /\ exact' = (exact /\ undo[n] = executed)
    /\ UNCHANGED <<undo, commits>>

\* Some of the pre-images are written, the head hash perhaps among them
HalfRestore(n) ==
    /\ executed' \in {executed, Parent[undo[n]]}
    /\ exact' = FALSE
    /\ UNCHANGED <<undo, commits>>

\* The error exits of rollback_block: the record cannot be read, a store write
\* fails, or the record cannot be deleted
RestoreFails(n, deleting) ==
    /\ Fault("rollback")
    /\ UNCHANGED chain \/ (~deleting /\ HalfRestore(n))

\* Mutant: the record outlives its use
ForgetNothing(n) == UNCHANGED chain

Forget(n) ==
    /\ undo' = [undo EXCEPT ![n] = None]
    /\ UNCHANGED <<executed, exact, commits>>

Rollback ==
    /\ job.pc = "rollback"
    /\ Restore(Num[NextOld])
    /\ GoTo("forget")
    /\ UNCHANGED <<khaos, ready, block_store, block_index, solid, env>>

\* An error inside rollback_block: the switch is given up
RollbackFails ==
    /\ job.pc \in {"rollback", "forget"}
    /\ RestoreFails(Num[NextOld], job.pc = "forget")
    /\ job' = Done
    /\ UNCHANGED <<khaos, ready, block_store, block_index, solid, rec, pbft, crashes>>

ForgetOld ==
    /\ job.pc = "forget"
    /\ Forget(Num[NextOld])
    /\ job' = Rolling([job EXCEPT !.i = @ + 1])
    /\ UNCHANGED <<khaos, ready, block_store, block_index, solid, env>>

PutUndoNew ==
    /\ job.pc = "applied"
    /\ undo' = [undo EXCEPT ![Num[NextNew]] = NextNew]
    /\ job' = Applying([job EXCEPT !.i = @ + 1])
    /\ UNCHANGED <<khaos, ready, executed, exact, commits, block_store, block_index,
                   solid, env>>

\* reindex_canonical_branch: an error is logged and the loop goes on
Reindex ==
    /\ job.pc = "reindex"
    /\ \/ /\ block_index' = [block_index EXCEPT ![Num[NextNew]] = NextNew]
          /\ UNCHANGED faults
       \/ Fault("reindex") /\ UNCHANGED block_index
    /\ job' = Reindexing([job EXCEPT !.i = @ + 1])
    /\ UNCHANGED <<khaos, ready, chain, block_store, solid, rec, pbft, crashes>>

-----------------------------------------------------------------------------
(* commit_drained, for a clean extension, a new-fork block and an old block   *)
(* applied again: the manifest, the stores, then the manifests that can go    *)

Committing == job.pc \in {"exec", "apply", "reapply"}

Pending == CASE job.pc = "exec"    -> job.blk
             [] job.pc = "apply"   -> NextNew
             [] job.pc = "reapply" -> NextBack

\* The undo record comes next
Committed ==
    [job EXCEPT !.at = "logic",
                !.pc = CASE @ = "exec"    -> "undo"
                         [] @ = "apply"   -> "applied"
                         [] @ = "reapply" -> "reapplied"]

\* Mutant: the stores are written without a manifest
WriteManifestSkips ==
    /\ Committing /\ job.at = "logic"
    /\ job.pc = "exec" => Parent[job.blk] = executed
    /\ job' = [job EXCEPT !.at = "flush"]
    /\ UNCHANGED <<khaos, ready, disk, env>>

\* The block executes in its session, and the manifest of its writes is on disk.
\* Only a clean extension names the parent it expects.
WriteManifest ==
    /\ Committing /\ job.at = "logic"
    /\ job.pc = "exec" => Parent[job.blk] = executed
    /\ manifests' = Append(manifests, Pending)
    /\ job' = [job EXCEPT !.at = "flush"]
    /\ UNCHANGED <<khaos, ready, executed, exact, undo, defer, block_store, block_index,
                   solid, env>>

\* The batches of all stores.  A deferred commit keeps its manifest until the
\* barrier; a synced one deletes it.
FlushStores ==
    /\ Committing /\ job.at = "flush"
    /\ executed' = Pending
    /\ exact' = (exact /\ executed = Parent[Pending])
    /\ job' = IF ~defer THEN [job EXCEPT !.at = "own"]
              ELSE IF Len(manifests) >= Barrier THEN [job EXCEPT !.at = "clear"]
              ELSE Committed
    /\ UNCHANGED <<khaos, ready, undo, commits, block_store, block_index, solid, env>>

\* Mutant: the manifests of earlier deferred blocks are left
DeleteOwnOnly ==
    /\ Committing /\ job.at = "own"
    /\ manifests' = SubSeq(manifests, 1, Len(manifests) - 1)
    /\ job' = Committed
    /\ UNCHANGED <<khaos, ready, executed, exact, undo, defer, block_store, block_index,
                   solid, env>>

DeleteOwn ==
    /\ Committing /\ job.at = "own"
    /\ manifests' = SubSeq(manifests, 1, Len(manifests) - 1)
    /\ job' = IF Len(manifests) <= 1 THEN Committed ELSE [job EXCEPT !.at = "clear"]
    /\ UNCHANGED <<khaos, ready, executed, exact, undo, defer, block_store, block_index,
                   solid, env>>

\* flush_state_wals_and_clear_checkpoints: one manifest, oldest first
ClearOldest ==
    /\ Committing /\ job.at = "clear"
    /\ manifests' = Tail(manifests)
    /\ job' = IF Len(manifests) = 1 THEN Committed ELSE job
    /\ UNCHANGED <<khaos, ready, executed, exact, undo, defer, block_store, block_index,
                   solid, env>>

\* What is left when the manifests are replayed in order on the stores of block
\* e: the last write of every block.  It is the state of the last manifest's
\* block when these are the blocks of its chain, the later ones written later.
ReplayExact(e) ==
    LET top == manifests[Len(manifests)]
    IN /\ Anc[e] \cup Members(manifests) = Anc[top]
       /\ \A i \in 1..Len(manifests) : \A x \in Anc[top] :
             Num[x] > Num[manifests[i]] =>
                \E k \in (i + 1)..Len(manifests) : manifests[k] = x

-----------------------------------------------------------------------------
(* perform_reorg, a new-fork block failed: unwind, re-apply, evict *)

\* job.i blocks are in applied_new; a block whose undo record failed is not
ApplyFails ==
    /\ \/ job.pc = "apply" /\ job.at = "logic" /\ Fault("exec")
       \/ job.pc = "applied" /\ Fault("undo")
    /\ job' = Unwinding(job)
    /\ UNCHANGED <<khaos, ready, disk, rec, pbft, crashes>>

Unwind ==
    /\ job.pc = "unwind"
    /\ Restore(Num[LastNew])
    /\ GoTo("unwound")
    /\ UNCHANGED <<khaos, ready, block_store, block_index, solid, env>>

ForgetNew ==
    /\ job.pc = "unwound"
    /\ Forget(Num[LastNew])
    /\ job' = Unwinding([job EXCEPT !.i = @ - 1])
    /\ UNCHANGED <<khaos, ready, block_store, block_index, solid, env>>

\* An error is noted and the loop goes on
UnwindFails ==
    /\ job.pc \in {"unwind", "unwound"}
    /\ RestoreFails(Num[LastNew], job.pc = "unwound")
    /\ job' = Unwinding([job EXCEPT !.i = @ - 1, !.bad = TRUE])
    /\ UNCHANGED <<khaos, ready, block_store, block_index, solid, rec, pbft, crashes>>

PutUndoOld ==
    /\ job.pc = "reapplied"
    /\ undo' = [undo EXCEPT ![Num[NextBack]] = NextBack]
    /\ job' = Reapplying([job EXCEPT !.i = @ + 1])
    /\ UNCHANGED <<khaos, ready, executed, exact, commits, block_store, block_index,
                   solid, env>>

\* Recovery failed: the fork tree is left as it is
ReapplyFails ==
    /\ \/ job.pc = "reapply" /\ job.at = "logic" /\ Fault("exec")
       \/ job.pc = "reapplied" /\ Fault("undo")
    /\ job' = Done
    /\ UNCHANGED <<khaos, ready, disk, rec, pbft, crashes>>

\* Mutant: the old branch leaves the fork tree
EvictOld ==
    /\ job.pc = "evict" /\ job.i < Len(job.new)
    /\ khaos' = IF job.i < Len(job.old) THEN RemoveTree(khaos, job.old[job.i + 1])
                ELSE khaos
    /\ job' = [job EXCEPT !.i = @ + 1]
    /\ UNCHANGED <<ready, disk, env>>

\* The new branch leaves the fork tree, newest block first
Evict ==
    /\ job.pc = "evict" /\ job.i < Len(job.new)
    /\ khaos' = RemoveTree(khaos, job.new[job.i + 1])
    /\ job' = [job EXCEPT !.i = @ + 1]
    /\ UNCHANGED <<ready, disk, env>>

\* Mutant: the evicted candidate is pinned as head
RestoreHeadNew ==
    /\ job.pc = "evict" /\ job.i = Len(job.new)
    /\ khaos' = [khaos EXCEPT !.head = job.blk]
    /\ job' = Done
    /\ UNCHANGED <<ready, disk, env>>

\* and the restored tip is head again
RestoreHead ==
    /\ job.pc = "evict" /\ job.i = Len(job.new)
    /\ khaos' = IF job.from \in Linked(khaos) \cup khaos.unlinked
                THEN [khaos EXCEPT !.head = job.from] ELSE khaos
    /\ job' = Done
    /\ UNCHANGED <<ready, disk, env>>

-----------------------------------------------------------------------------
(* Startup: run calls reconcile_stores_to_head, then seed_solidified_from_disk *)

Starting == [pc |-> "start", num |-> 0, id |-> None]
Started == [pc |-> "done", num |-> 0, id |-> None]

\* Mutant: the scan begins one height too high
ReadHeadLate ==
    /\ rec.pc = "start"
    /\ rec' = [rec EXCEPT !.pc = "scan", !.num = Num[executed] + 2]
    /\ UNCHANGED <<khaos, ready, job, disk, pbft, faults, crashes>>

ReadHead ==
    /\ rec.pc = "start"
    /\ rec' = [rec EXCEPT !.pc = "scan", !.num = Num[executed] + 1]
    /\ UNCHANGED <<khaos, ready, job, disk, pbft, faults, crashes>>

\* The id at the next height; the first gap ends the scan
ReadAhead ==
    /\ rec.pc = "scan"
    /\ rec' = IF rec.num \in Heights /\ block_index[rec.num] # None
              THEN [rec EXCEPT !.pc = "bytes", !.id = block_index[rec.num]]
              ELSE [rec EXCEPT !.pc = "seed"]
    /\ UNCHANGED <<khaos, ready, job, disk, pbft, faults, crashes>>

\* Its bytes go; an error is ignored
PruneBytes ==
    /\ rec.pc = "bytes"
    /\ \/ block_store' = block_store \ {rec.id} /\ UNCHANGED faults
       \/ Fault("store") /\ UNCHANGED block_store
    /\ rec' = [rec EXCEPT !.pc = "entry"]
    /\ UNCHANGED <<khaos, ready, job, chain, block_index, solid, pbft, crashes>>

\* Then the index entry; an error ends the scan
PruneEntry ==
    /\ rec.pc = "entry"
    /\ \/ /\ block_index' = [block_index EXCEPT ![rec.num] = None]
          /\ rec' = [pc |-> "scan", num |-> rec.num + 1, id |-> None]
          /\ UNCHANGED faults
       \/ /\ Fault("index") /\ UNCHANGED block_index
          /\ rec' = [rec EXCEPT !.pc = "seed"]
    /\ UNCHANGED <<khaos, ready, job, chain, block_store, solid, pbft, crashes>>

SeedSolidified ==
    /\ rec.pc = "seed"
    /\ \E n \in WitnessSolid :
          rec' = IF Num[executed] >= 1 /\ Moves(n)
                 THEN [pc |-> "raise", num |-> n, id |-> None] ELSE Started
    /\ UNCHANGED <<khaos, ready, job, disk, pbft, faults, crashes>>

SaveSeeded ==
    /\ rec.pc = "raise"
    /\ solid' = rec.num
    /\ rec' = Started
    /\ UNCHANGED <<khaos, ready, job, chain, block_store, block_index, pbft, faults, crashes>>

-----------------------------------------------------------------------------
(* The environment *)

\* replay_pending_checkpoints on the stores of block e, whole when x holds
Replay(e, x) ==
    /\ executed' = IF manifests = <<>> THEN e ELSE manifests[Len(manifests)]
    /\ exact' = (x /\ (manifests # <<>> => ReplayExact(e)))
    /\ manifests' = <<>>

\* The process dies and is started again
Restarted ==
    /\ crashes < MaxCrashes /\ crashes' = crashes + 1
    /\ New
    /\ ready' = <<>> /\ job' = Idle /\ rec' = Starting /\ pbft' = None
    /\ defer' = FALSE
    /\ UNCHANGED <<undo, block_store, block_index, solid, faults>>

\* between two durable writes, or among the batches of a commit, some of which
\* are written then: the block's manifest completes them
Crash ==
    /\ IF Committing /\ job.at = "flush"
       THEN \E e \in {executed, Pending} :
               Replay(e, exact /\ Pending \in Members(manifests))
       ELSE Replay(executed, exact)
    /\ Restarted

\* or among the writes of a rollback_block, which only a replay of the block
\* completes again
CrashInRollback ==
    /\ "torn" \in Faults
    /\ \E n \in Heights :
          /\ \/ job.pc = "rollback" /\ n = Num[NextOld]
             \/ job.pc = "unwind" /\ n = Num[LastNew]
          /\ undo[n] # None
          /\ \E e \in {executed, Parent[undo[n]]} :
                Replay(e, exact /\ undo[n] = executed /\ executed \in Members(manifests))
    /\ Restarted

\* handle_commit of the PBFT runtime, on another thread and without the lock:
\* the pointer is compared, then written
PbftCommit(b) ==
    /\ b \in PbftBlocks /\ pbft = None /\ Moves(Num[b])
    /\ pbft' = b
    /\ UNCHANGED <<khaos, ready, job, disk, rec, faults, crashes>>

PbftSave ==
    /\ pbft # None
    /\ solid' = Num[pbft] /\ pbft' = None
    /\ UNCHANGED <<khaos, ready, job, chain, block_store, block_index, rec, faults, crashes>>

-----------------------------------------------------------------------------
DriverInit ==
    /\ KhaosInit
    /\ ready = <<>> /\ job = Idle /\ rec = Starting /\ pbft = None
    /\ executed = Genesis /\ exact = TRUE /\ manifests = <<>> /\ defer = FALSE
    /\ block_store = {Genesis}
    /\ block_index = [n \in Heights |-> IF n = 0 THEN Genesis ELSE None]
    /\ undo = [n \in Heights |-> None]
    /\ solid = 0 /\ faults = 0 /\ crashes = 0

\* The steps a driver takes by itself once it has a block
JobStep ==
    \/ Refeed \/ DropReady \/ Seed \/ PushBlock \/ Take
    \/ Persist \/ PersistFails \/ Gate \/ GateRejects
    \/ Index \/ IndexFails \/ ExecuteFails
    \/ WriteManifest \/ FlushStores \/ DeleteOwn \/ ClearOldest
    \/ PutUndo \/ PutUndoFails \/ Solidify \/ SaveSolid
    \/ Branch \/ NoCommonAncestor \/ NotCovered
    \/ Rollback \/ RollbackFails \/ ForgetOld
    \/ PutUndoNew \/ Reindex \/ ApplyFails
    \/ Unwind \/ ForgetNew \/ UnwindFails
    \/ PutUndoOld \/ ReapplyFails
    \/ Evict \/ RestoreHead

StartStep ==
    \/ ReadHead \/ ReadAhead \/ PruneBytes \/ PruneEntry
    \/ SeedSolidified \/ SaveSeeded

DriverNext ==
    \/ JobStep
    \/ StartStep
    \/ \E b \in Blocks : Receive(b) \/ RefuseBlock(b) \/ PbftCommit(b)
    \/ PbftSave \/ Crash \/ CrashInRollback

DriverSpec == DriverInit /\ [][DriverNext]_vars

\* Peers keep offering a block the node does not hold on its canonical chain
\* (already_have_canonical), and a started job or startup pass runs on
Fetch(b) == block_index[Num[b]] # b /\ Receive(b)

LiveSpec ==
    /\ DriverSpec
    /\ WF_vars(JobStep) /\ WF_vars(StartStep)
    /\ \A b \in Blocks : SF_vars(Fetch(b))

-----------------------------------------------------------------------------
(* Properties *)

\* Type invariant of the driver's job and of the stores it writes
DriverTypeOK ==
    /\ KhaosTypeOK
    /\ ready \in Seq(Blocks)
    /\ DOMAIN job = DOMAIN Idle
    /\ {job.blk, job.prev, job.from} \subseteq Blocks \cup {None}
    /\ job.old \in Seq(Blocks) /\ job.new \in Seq(Blocks)
    /\ job.i \in Nat /\ job.fed \in 0..MaxRefeed /\ job.bad \in BOOLEAN
    /\ job.at \in {"logic", "flush", "own", "clear"}
    /\ rec.pc \in {"start", "scan", "bytes", "entry", "seed", "raise", "done"}
    /\ rec.num \in Nat /\ rec.id \in Blocks \cup {None}
    /\ pbft \in Blocks \cup {None}
    /\ executed \in Blocks /\ {exact, defer} \subseteq BOOLEAN
    /\ manifests \in Seq(Blocks) /\ Len(manifests) <= Barrier
    /\ block_store \subseteq Blocks
    /\ block_index \in [Heights -> Blocks \cup {None}]
    /\ undo \in [Heights -> Blocks \cup {None}]
    /\ {solid, faults, crashes} \subseteq Nat

\* Nothing is in progress: the last accept_block has returned
Settled == job.pc = "idle" /\ ready = <<>> /\ rec.pc = "done"

\* The stores always hold exactly what executing the chain of the head hash
\* gives: at every step of a fork switch, of its recovery and after a restart,
\* no block's writes are missing, left behind or applied twice.
StateExact == exact

\* The blocks of the executed chain up to the solidified height
Final == {x \in Anc[executed] : Num[x] <= solid}

\* A block of the executed chain at or below latest_solidified_block_num is
\* never rolled back, by no fork switch, failed switch or restart, and the
\* pointer never moves back.  A pointer ahead of the head (PBFT commits a
\* height the node has not executed) says nothing of the executed chain yet.
Finality ==
    [][/\ solid <= solid'
       /\ solid <= Num[executed] => Final \subseteq Anc[executed']]_vars

\* latest_solidified_block_num never moves back: each of its writers compares
\* before it writes.
SolidForward == [][solid <= solid']_vars

\* block_index is the canonical map of RPC and ref_block validation: between
\* two blocks it names the executed chain at every height and nothing above.
IndexCanonical ==
    Settled => \A n \in Heights :
        block_index[n] = IF n > Num[executed] THEN None
                         ELSE CHOOSE x \in Anc[executed] : Num[x] = n

\* Every linked block has its bytes in block_store, except the one whose
\* persistence is still due: the parent walk of the solidified gate never runs
\* into a block that the fork tree has and the store has not.
LinkedPersisted ==
    Linked(khaos) \subseteq
        block_store \cup (IF job.pc \in {"take", "persist"} THEN {job.blk} ELSE {})

\* Between two blocks the executed head is in a seeded fork tree, so that
\* get_branch can find the way from it to a better branch.
ExecutedLinked ==
    Settled /\ khaos.head # None => executed \in Linked(khaos)

\* No orphan is left waiting for a parent that is already linked: whatever
\* order blocks arrive in, a waiter is handed over when its parent links.
NoStrandedOrphan ==
    Settled => \A b \in khaos.unlinked : Parent[b] \notin Linked(khaos)

\* An undo record at or below the head is the record of the block executed at
\* that height, so that rollback_block restores the right pre-images.
UndoSound ==
    Settled => \A n \in Heights :
        n <= Num[executed] => undo[n] \in Anc[executed] \cup {None}

\* Above the solidified height every executed block has its undo record, so the
\* coverage gate of perform_reorg never refuses a switch the rule allows.
UndoCovers ==
    Settled => \A x \in Anc[executed] : Num[x] > solid => undo[Num[x]] = x

\* After the startup pass the index names no block above the executed head.
IndexNeverLeads ==
    Settled => \A n \in Heights : n > Num[executed] => block_index[n] = None

\* A failed fork switch ends where it began: when the new branch is evicted
\* the old tip is the executed head again and no old block is lost.
SwitchRecovers ==
    job.pc = "evict" =>
        /\ executed = job.from
        /\ \A k \in 1..Len(job.old) : undo[Num[job.old[k]]] = job.old[k]

\* A crash costs a deferred commit nothing: whenever the retained manifests are
\* those of blocks of the executed chain (and of the block being committed),
\* their replay gives exactly the state of the last one.  While a synced commit
\* clears the manifests of deferred blocks below it this does not hold.
ReplaySound ==
    /\ exact /\ manifests # <<>> /\ (job.at = "clear" => defer)
    /\ Members(manifests) \subseteq
          Anc[executed] \cup (IF job.at = "flush" THEN {Pending} ELSE {})
    => ReplayExact(executed)

\* The node ends on the best branch and stays there, however many of its
\* blocks arrive early, lose a race for the head, or fail once.
CatchesUp == <>[](executed = Tip)

=============================================================================
