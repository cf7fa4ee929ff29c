---------------------------- MODULE MCSyncDriver ----------------------------
(***************************************************************************)
(* SyncDriver on a small block tree (a block's producer below it):          *)
(*                                                                         *)
(*     g0 --- a1 --- a2 --- a3                                              *)
(*      |     w1     w1     w2                                              *)
(*      +---- b1 --- b2 --- b3 --- b4                                       *)
(*            w2 |   w2     w1     w2                                       *)
(*               +-- c2                                                     *)
(*                   w1                                                     *)
(*                                                                         *)
(* With MaxCapacity 3 linking b4 frees g0: the switch from a3 to b4 is       *)
(* deeper than what the fork tree retains.                                  *)
(***************************************************************************)
EXTENDS SyncDriver, TLC

CONSTANTS g0, a1, a2, a3, b1, b2, b3, b4, c2, w1, w2

MCBlocks == {g0, a1, a2, a3, b1, b2, b3, b4, c2}

MCParent == (g0 :> None) @@ (a1 :> g0) @@ (a2 :> a1) @@ (a3 :> a2) @@ (b1 :> g0)
            @@ (b2 :> b1) @@ (b3 :> b2) @@ (b4 :> b3) @@ (c2 :> b1)

MCNum == (g0 :> 0) @@ (a1 :> 1) @@ (a2 :> 2) @@ (a3 :> 3) @@ (b1 :> 1)
         @@ (b2 :> 2) @@ (b3 :> 3) @@ (b4 :> 4) @@ (c2 :> 2)

MCAnc == (g0 :> {g0}) @@ (a1 :> {g0, a1}) @@ (a2 :> {g0, a1, a2})
         @@ (a3 :> {g0, a1, a2, a3}) @@ (b1 :> {g0, b1})
         @@ (b2 :> {g0, b1, b2}) @@ (b3 :> {g0, b1, b2, b3})
         @@ (b4 :> {g0, b1, b2, b3, b4}) @@ (c2 :> {g0, b1, c2})

MCWitness == (g0 :> None) @@ (a1 :> w1) @@ (a2 :> w1) @@ (a3 :> w2) @@ (b1 :> w2)
             @@ (b2 :> w2) @@ (b3 :> w1) @@ (b4 :> w2) @@ (c2 :> w1)

\* A transaction of b3 refers to b1 of its own branch
MCRef == [b \in MCBlocks |-> IF b = b3 THEN b1 ELSE None]

\* The two branches alone, a2 and b3 their tips
Small == {g0, a1, a2, b1, b2, b3}
SmallParent == [b \in Small |-> MCParent[b]]
SmallNum == [b \in Small |-> MCNum[b]]
SmallAnc == [b \in Small |-> MCAnc[b]]
SmallWitness == [b \in Small |-> MCWitness[b]]
SmallRef == [b \in Small |-> MCRef[b]]
=============================================================================
