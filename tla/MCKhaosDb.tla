------------------------------ MODULE MCKhaosDb ------------------------------
(***************************************************************************)
(* KhaosDb on a small block tree:                                          *)
(*                                                                         *)
(*     g0 --- a1 --- a2 --- a3     z2 names a1 as its parent at height 3,   *)
(*      |                          a wrong number                           *)
(*      +---- b1                                                            *)
(*                                                                         *)
(* With MaxCapacity 2 linking a3 frees g0 under its two children.           *)
(***************************************************************************)
EXTENDS KhaosDb, TLC

CONSTANTS g0, a1, a2, a3, b1, z2

MCBlocks == {g0, a1, a2, a3, b1, z2}

MCParent == (g0 :> None) @@ (a1 :> g0) @@ (a2 :> a1)
            @@ (a3 :> a2) @@ (b1 :> g0) @@ (z2 :> a1)

MCNum == (g0 :> 0) @@ (a1 :> 1) @@ (a2 :> 2)
         @@ (a3 :> 3) @@ (b1 :> 1) @@ (z2 :> 3)

(* Reference for get_branch: ancestry as the block headers give it *)

HeaderChain[b \in Blocks] ==
    IF Parent[b] = None THEN {b} ELSE {b} \cup HeaderChain[Parent[b]]

\* The part of a block's ancestry that live pointers reach
LiveChain(k) ==
    LET c[b \in Blocks] == IF b \in k.attached THEN {b} \cup c[Parent[b]] ELSE {b}
    IN c

\* get_branch finds a fork point exactly when live pointers reach one, and the
\* two paths it returns are then the blocks each side has beyond the fork
\* point by the block headers, child to parent: what a reorg rolls back and
\* what it applies, nothing missing and nothing twice.
BranchExact ==
    \A x, y \in Linked(khaos) :
        LET r == GetBranch(khaos, x, y)
        IN /\ r.ok <=> LiveChain(khaos)[x] \cap LiveChain(khaos)[y] # {}
           /\ r.ok => /\ Members(r.old) = HeaderChain[x] \ HeaderChain[y]
                      /\ Members(r.new) = HeaderChain[y] \ HeaderChain[x]
                      /\ \A i \in 1..(Len(r.old) - 1) : Parent[r.old[i]] = r.old[i + 1]
                      /\ \A i \in 1..(Len(r.new) - 1) : Parent[r.new[i]] = r.new[i + 1]
=============================================================================
