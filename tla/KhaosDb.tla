------------------------------- MODULE KhaosDb -------------------------------
(***************************************************************************)
(* The in-memory fork tree of crates/tron-consensus/src/khaos.rs: a store   *)
(* of blocks linked to a known parent, a store of orphans waiting for one,  *)
(* the index of orphans by the parent they wait on, and the longest-chain   *)
(* head.  One mutex guards the whole tree, so a method is one step.         *)
(*                                                                         *)
(* A block is its id.  Its header fixes its parent and its number, so both  *)
(* are constant functions; Parent[b] = None is the all-zero parent hash.    *)
(*                                                                         *)
(* khaos is a record:                                                      *)
(*   head       the head pointer, None before the tree is seeded            *)
(*   by_num     mini_store: per height, the linked blocks in arrival order  *)
(*              (by_hash is the set of all of them, Linked below)           *)
(*   attached   the linked blocks whose weak parent pointer still upgrades; *)
(*              a pointer dies with the node it points to, for good         *)
(*   unlinked   mini_unlinked_store                                        *)
(*   by_parent  the orphans stashed per missing parent, in arrival order    *)
(*              (a repeated id is kept once: the first entry is the one     *)
(*              that takes the orphan out, a later one finds nothing)       *)
(* The wire bytes kept beside a block (raw, orphan_raw) are left out.       *)
(***************************************************************************)
EXTENDS Integers, Sequences

CONSTANTS
    Blocks,         \* block ids
    None,           \* no block; as a parent, the all-zero hash
    Parent,         \* header parent_hash
    Num,            \* height, the first eight bytes of the id
    MaxCapacity     \* max_capacity: depth below the head that is retained

ASSUME KhaosAssumption ==
    /\ None \notin Blocks
    /\ Parent \in [Blocks -> Blocks \cup {None}]
    /\ Num \in [Blocks -> Nat]
    /\ \E top \in Blocks : \A b \in Blocks : Num[b] <= Num[top]  \* an i64
    /\ MaxCapacity \in Nat \ {0}

VARIABLE khaos

Heights == {Num[b] : b \in Blocks}

Tree == [head : Blocks \cup {None},
         by_num : [Heights -> Seq(Blocks)],
         attached : SUBSET Blocks,
         unlinked : SUBSET Blocks,
         by_parent : [Blocks -> Seq(Blocks)]]

EmptyTree == [head |-> None,
              by_num |-> [n \in Heights |-> <<>>],
              attached |-> {},
              unlinked |-> {},
              by_parent |-> [p \in Blocks |-> <<>>]]

Members(s) == {s[i] : i \in 1..Len(s)}

AppendAt(f, x, b) == [f EXCEPT ![x] = Append(@, b)]

\* contains_in_linked
Linked(k) == {b \in Blocks : b \in Members(k.by_num[Num[b]])}

\* KhaosBlock::parent: the upgraded weak pointer
LiveParent(k, b) == IF b \in k.attached THEN Parent[b] ELSE None

HeadNum(k) == IF k.head = None THEN 0 ELSE Num[k.head]

-----------------------------------------------------------------------------
(* KhaosStore and the helpers of push *)

\* KhaosStore::insert into mini_store, with set_parent when the parent is given
Insert(k, b, p) ==
    [k EXCEPT !.by_num = AppendAt(@, Num[b], b),
              !.attached = IF p = None THEN @ ELSE @ \cup {b}]

\* Mutant: the freed nodes go, the pointers of their children stay
DetachSelfOnly(attached, D) == attached \ D

\* The nodes of D are freed: every weak pointer to one of them is dead
Detach(attached, D) == {c \in attached : c \notin D /\ Parent[c] \notin D}

\* promote_head_if_higher: strict, so the first block at a height stays head
Promote(k, b) ==
    [k EXCEPT !.head = IF @ = None \/ Num[b] > Num[@] THEN b ELSE @]

\* prune_below on mini_store
PruneLinked(k, t) ==
    IF t <= 0 THEN k
    ELSE [k EXCEPT
            !.by_num = [n \in Heights |-> IF n < t THEN <<>> ELSE @[n]],
            !.attached = Detach(@, {b \in Blocks : Num[b] < t})]

\* prune_below on mini_unlinked_store
PruneUnlinked(k, t) ==
    [k EXCEPT !.unlinked = IF t <= 0 THEN @ ELSE {b \in @ : Num[b] >= t}]

\* Mutant: a key is dropped as soon as one of its orphans is gone
PruneByParentAny(k) ==
    [k EXCEPT !.by_parent =
        [p \in Blocks |-> IF Members(@[p]) \subseteq k.unlinked THEN @[p] ELSE <<>>]]

\* the dead orphan-index keys dropped at the end of push
PruneByParent(k) ==
    [k EXCEPT !.by_parent =
        [p \in Blocks |-> IF Members(@[p]) \cap k.unlinked = {} THEN <<>> ELSE @[p]]]

-----------------------------------------------------------------------------
(* The methods.  Each is an operator on the tree, so that a caller's step    *)
(* can be written with it.                                                  *)

StartTree(k, b) == [Insert(k, b, None) EXCEPT !.head = b]

\* Mutant: no dedup on the linked store
PushKindNoDedup(k, b) ==
    IF k.head = None \/ Parent[b] = None THEN "root"
    ELSE IF Parent[b] \notin Linked(k) THEN "unlinked"
    ELSE IF Num[b] = Num[Parent[b]] + 1 THEN "link" ELSE "bad_number"

\* What push does with b
PushKind(k, b) ==
    CASE b \in Linked(k)                             -> "known"
      [] b \notin Linked(k) /\ (k.head = None \/ Parent[b] = None) -> "root"
      [] b \notin Linked(k) /\ k.head # None /\ Parent[b] # None ->
            IF Parent[b] \notin Linked(k) THEN "unlinked"
            ELSE IF Num[b] = Num[Parent[b]] + 1 THEN "link" ELSE "bad_number"

\* The orphan branch of push: stash once, then prune the orphans
Stash(k, b) ==
    LET p == Parent[b]
        s == [k EXCEPT
                !.unlinked = @ \cup {b},
                !.by_parent = IF b \in k.unlinked \/ b \in Members(@[p])
                              THEN @ ELSE AppendAt(@, p, b)]
    IN PruneUnlinked(s, HeadNum(k) - MaxCapacity)

\* The linking branch of push, before the stores are pruned
LinkOnly(k, b) ==
    Promote(Insert(k, b, IF PushKind(k, b) = "link" THEN Parent[b] ELSE None), b)

\* The linking branch of push
Link(k, b) ==
    LET l == LinkOnly(k, b)
        t == HeadNum(l) - MaxCapacity
    IN PruneByParent(PruneUnlinked(PruneLinked(l, t), t))

PushTree(k, b) ==
    CASE PushKind(k, b) \in {"known", "bad_number"} -> k
      [] PushKind(k, b) = "unlinked"               -> Stash(k, b)
      [] PushKind(k, b) \in {"root", "link"}       -> Link(k, b)

\* take_orphans_waiting_on: the waiters handed back to the caller, in order
Waiters(k, p) ==
    IF p \notin Linked(k) THEN <<>>
    ELSE SelectSeq(k.by_parent[p],
                   LAMBDA c : c \in k.unlinked /\ Num[c] = Num[p] + 1)

\* take_orphans_waiting_on: waiters leave the orphan store, wrong-number
\* ones included
TakeTree(k, p) ==
    IF p \notin Linked(k) THEN k
    ELSE LET w == Members(k.by_parent[p])
         IN [k EXCEPT !.by_parent = [@ EXCEPT ![p] = <<>>],
                      !.unlinked = @ \ w]

\* The head elected by remove: the first arrived of the highest linked blocks
Elect(k) ==
    IF Linked(k) = {} THEN None
    ELSE LET b == CHOOSE b \in Linked(k) : \A c \in Linked(k) : Num[c] <= Num[b]
         IN k.by_num[Num[b]][1]

\* KhaosStore::remove on mini_store: a list holds a block at most once
Unlink(k, b) ==
    LET s == k.by_num[Num[b]]
        i == CHOOSE j \in 1..Len(s) : s[j] = b
    IN [k EXCEPT
          !.by_num = [@ EXCEPT ![Num[b]] =
                        SubSeq(s, 1, i - 1) \o SubSeq(s, i + 1, Len(s))],
          !.attached = Detach(@, {b})]

\* Mutant: the head is not elected again
RemoveKeepsHead(k, b) ==
    IF b \in Linked(k) THEN Unlink(k, b) ELSE [k EXCEPT !.unlinked = @ \ {b}]

RemoveTree(k, b) ==
    LET r == IF b \in Linked(k) THEN Unlink(k, b)
             ELSE [k EXCEPT !.unlinked = @ \ {b}]
    IN IF b \in Linked(k) \cup k.unlinked
       THEN [r EXCEPT !.head = Elect(r)] ELSE k

\* get_branch, as the two loops walk it: the higher side first, then both
\* sides together; a dead parent pointer on the way is NonCommonBlockError
NoBranch == [ok |-> FALSE, old |-> <<>>, new |-> <<>>]

\* Mutant: the new side is built parent to child
LongerReversed(old, new, r) ==
    IF r.ok THEN [ok |-> TRUE, old |-> old \o r.old, new |-> r.new \o new]
    ELSE NoBranch

Longer(old, new, r) ==
    IF r.ok THEN [ok |-> TRUE, old |-> old \o r.old, new |-> new \o r.new]
    ELSE NoBranch

GetBranch(k, id1, id2) ==
    LET walk[p \in Blocks \X Blocks] ==
            LET x == p[1]
                y == p[2]
            IN CASE x = y -> [ok |-> TRUE, old |-> <<>>, new |-> <<>>]
                 [] Num[x] > Num[y] ->
                      IF x \notin k.attached THEN NoBranch
                      ELSE Longer(<<x>>, <<>>, walk[<<Parent[x], y>>])
                 [] Num[y] > Num[x] ->
                      IF y \notin k.attached THEN NoBranch
                      ELSE Longer(<<>>, <<y>>, walk[<<x, Parent[y]>>])
                 [] x # y /\ Num[x] = Num[y] ->
                      IF {x, y} \subseteq k.attached
                      THEN Longer(<<x>>, <<y>>, walk[<<Parent[x], Parent[y]>>])
                      ELSE NoBranch
    IN IF {id1, id2} \subseteq Linked(k) THEN walk[<<id1, id2>>] ELSE NoBranch

-----------------------------------------------------------------------------
(* The tree on its own: any caller, any order of calls.  start is only ever  *)
(* called on a tree without a head (sync.rs and sr_runtime.rs test for it),  *)
(* and set_head is given a node taken from the tree.                        *)

Start(b) == khaos.head = None /\ khaos' = StartTree(khaos, b)

Push(b) == khaos' = PushTree(khaos, b)

TakeOrphans(p) == khaos' = TakeTree(khaos, p)

Pop ==
    /\ khaos.head # None
    /\ LiveParent(khaos, khaos.head) # None
    /\ khaos' = [khaos EXCEPT !.head = LiveParent(khaos, khaos.head)]

SetHead(b) == b \in Linked(khaos) /\ khaos' = [khaos EXCEPT !.head = b]

Remove(b) == khaos' = RemoveTree(khaos, b)

\* KhaosDb::new: a restarted process begins with an empty tree
New == khaos' = EmptyTree

KhaosInit == khaos = EmptyTree

KhaosNext ==
    \/ \E b \in Blocks : \/ Start(b)
                         \/ Push(b)
                         \/ TakeOrphans(b)
                         \/ SetHead(b)
                         \/ Remove(b)
    \/ Pop
    \/ New

KhaosSpec == KhaosInit /\ [][KhaosNext]_khaos

-----------------------------------------------------------------------------
(* Properties *)

\* Type invariant of the Inner struct; a list of by_num holds a block of its
\* own height, once, so that remove leaves no second copy to be elected head
KhaosTypeOK ==
    /\ khaos \in Tree
    /\ \A n \in Heights : \A i \in 1..Len(khaos.by_num[n]) :
          /\ Num[khaos.by_num[n][i]] = n
          /\ \A j \in 1..Len(khaos.by_num[n]) :
                khaos.by_num[n][i] = khaos.by_num[n][j] => i = j

\* The head pointer never dangles: it is unset exactly while the tree is empty
\* and otherwise names a block of mini_store, through pruning, removal with
\* re-election, pop and the forced set_head of a failed fork switch.
HeadIsLinked ==
    /\ khaos.head \in Linked(khaos) \cup {None}
    /\ khaos.head = None <=> Linked(khaos) = {}

\* The walks of get_branch and is_ancestor are safe: a parent pointer that
\* upgrades leads to a block of mini_store one height below, so no walk leaves
\* the linked store or loops.
PointersSound ==
    \A b \in khaos.attached :
        /\ b \in Linked(khaos)
        /\ Parent[b] \in Linked(khaos)
        /\ Num[b] = Num[Parent[b]] + 1

\* No orphan is stranded: every block of mini_unlinked_store is listed under
\* the parent it waits on, so the take_orphans_waiting_on that follows the
\* parent's link finds it.
OrphansIndexed ==
    \A b \in khaos.unlinked :
        /\ Parent[b] # None
        /\ b \in Members(khaos.by_parent[Parent[b]])

=============================================================================
