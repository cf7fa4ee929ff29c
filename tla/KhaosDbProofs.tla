---------------------------- MODULE KhaosDbProofs ----------------------------
(***************************************************************************)
(* The fork tree of khaos.rs is safe for every set of blocks, every header  *)
(* tree over it and every capacity: KhaosDb's type invariant and its three  *)
(* safety invariants, proved together because each needs the others.        *)
(*                                                                         *)
(* The four invariants are stated for any tree k, so that what a method     *)
(* preserves is a lemma about the method's operator and not about a step.   *)
(***************************************************************************)
EXTENDS KhaosDb, SequenceTheorems, WellFoundedInduction, TLAPS

\* The lists of mini_store.by_num hold blocks of their height, each once
Listed(k) ==
    \A n \in Heights : \A i \in 1..Len(k.by_num[n]) :
        /\ Num[k.by_num[n][i]] = n
        /\ \A j \in 1..Len(k.by_num[n]) :
              k.by_num[n][i] = k.by_num[n][j] => i = j

HeadOK(k) ==
    /\ k.head \in Linked(k) \cup {None}
    /\ k.head = None <=> Linked(k) = {}

PointersOK(k) ==
    \A b \in k.attached :
        /\ b \in Linked(k)
        /\ Parent[b] \in Linked(k)
        /\ Num[b] = Num[Parent[b]] + 1

OrphansOK(k) ==
    \A b \in k.unlinked :
        /\ Parent[b] # None
        /\ b \in Members(k.by_parent[Parent[b]])

\* The inductive invariant
TreeInv(k) ==
    k \in Tree /\ Listed(k) /\ HeadOK(k) /\ PointersOK(k) /\ OrphansOK(k)

-----------------------------------------------------------------------------
(* Sequences and naturals *)

\* A non-empty set of naturals has a least member
LEMMA NatMin ==
    ASSUME NEW T, T \subseteq Nat, T # {}
    PROVE  \E x \in T : \A y \in T : x <= y
<1>1. PICK x \in T : \A y \in T : ~(<<y, x>> \in OpToRel(<, Nat))
  BY WFMin, NatLessThanWellFounded, Zenon
<1>2. \A y \in T : ~(y < x)
  BY <1>1, Zenon DEF OpToRel
<1> QED BY <1>2

\* A non-empty set of blocks has a highest member
LEMMA Highest ==
    ASSUME NEW S, S \subseteq Blocks, S # {}
    PROVE  \E b \in S : \A c \in S : Num[c] <= Num[b]
<1>1. PICK top \in Blocks : \A b \in Blocks : Num[b] <= Num[top]
  BY KhaosAssumption
<1>2. \A b \in Blocks : Num[b] \in Nat
  BY KhaosAssumption
<1> DEFINE U == {Num[top] - Num[b] : b \in S}
<1>3. U \subseteq Nat
  BY <1>1, <1>2
<1>4. U # {}
  OBVIOUS
<1>5. PICK u \in U : \A v \in U : u <= v
  BY <1>3, <1>4, NatMin
<1>6. PICK b \in S : u = Num[top] - Num[b]
  BY <1>5
<1>7. ASSUME NEW c \in S PROVE Num[c] <= Num[b]
  <2>1. Num[top] - Num[c] \in U
    OBVIOUS
  <2>2. Num[top] - Num[b] <= Num[top] - Num[c]
    BY <2>1, <1>5, <1>6
  <2> HIDE DEF U
  <2> QED BY <2>2, <1>2
<1> QED BY <1>7

\* Append adds one entry, at the end, and one member
LEMMA AppendMembers ==
    ASSUME NEW s \in Seq(Blocks), NEW b \in Blocks
    PROVE  /\ Append(s, b) \in Seq(Blocks)
           /\ Members(Append(s, b)) = Members(s) \cup {b}
           /\ \A i \in 1..Len(Append(s, b)) :
                 Append(s, b)[i] = IF i <= Len(s) THEN s[i] ELSE b
           /\ Len(Append(s, b)) = Len(s) + 1
<1> DEFINE t == Append(s, b)
<1>1. t \in Seq(Blocks) /\ Len(t) = Len(s) + 1 /\ Len(s) \in Nat
  OBVIOUS
<1>2. \A i \in 1..Len(t) : t[i] = IF i <= Len(s) THEN s[i] ELSE b
  OBVIOUS
<1>3. Members(t) = Members(s) \cup {b}
  <2>1. ASSUME NEW x \in Members(t) PROVE x \in Members(s) \cup {b}
    BY <1>1, <1>2 DEF Members
  <2>2. ASSUME NEW x \in Members(s) PROVE x \in Members(t)
    <3>1. PICK i \in 1..Len(s) : x = s[i]
      BY DEF Members
    <3>2. i \in 1..Len(t) /\ t[i] = x
      BY <3>1, <1>1, <1>2
    <3> QED BY <3>2 DEF Members
  <2>3. b \in Members(t)
    <3>1. Len(s) + 1 \in 1..Len(t) /\ t[Len(s) + 1] = b
      BY <1>1, <1>2
    <3> QED BY <3>1 DEF Members
  <2> QED BY <2>1, <2>2, <2>3
<1> QED BY <1>1, <1>2, <1>3

\* A list without repetitions, with the entry of b cut out
LEMMA CutMembers ==
    ASSUME NEW s \in Seq(Blocks), NEW i \in 1..Len(s),
           \A j, l \in 1..Len(s) : s[j] = s[l] => j = l
    PROVE  LET t == SubSeq(s, 1, i - 1) \o SubSeq(s, i + 1, Len(s))
           IN /\ t \in Seq(Blocks)
              /\ Members(t) = Members(s) \ {s[i]}
              /\ \A j, l \in 1..Len(t) : t[j] = t[l] => j = l
<1> DEFINE p == SubSeq(s, 1, i - 1)
           q == SubSeq(s, i + 1, Len(s))
           t == p \o q
           at(j) == IF j < i THEN j ELSE j + 1
<1>1. Len(s) \in Nat /\ i \in Nat /\ \A j \in 1..Len(s) : s[j] \in Blocks
  OBVIOUS
<1>2. /\ p \in Seq(Blocks) /\ Len(p) = i - 1
      /\ \A j \in 1..(i - 1) : p[j] = s[j]
  <2>1. i - 1 \in Int /\ \A j \in 1..(i - 1) : s[j] \in Blocks
    BY <1>1
  <2>2. /\ p \in Seq(Blocks)
        /\ Len(p) = IF 1 <= i - 1 THEN (i - 1) - 1 + 1 ELSE 0
        /\ \A j \in 1..((i - 1) - 1 + 1) : p[j] = s[1 + j - 1]
    BY <2>1, SubSeqProperties
  <2> HIDE DEF p
  <2> QED BY <2>2, <1>1
<1>3. /\ q \in Seq(Blocks) /\ Len(q) = Len(s) - i
      /\ \A j \in 1..(Len(s) - i) : q[j] = s[i + j]
  <2>1. /\ i + 1 \in Int /\ Len(s) \in Int
        /\ \A j \in (i + 1)..Len(s) : s[j] \in Blocks
    BY <1>1
  <2>2. /\ q \in Seq(Blocks)
        /\ Len(q) = IF i + 1 <= Len(s) THEN Len(s) - (i + 1) + 1 ELSE 0
        /\ \A j \in 1..(Len(s) - (i + 1) + 1) : q[j] = s[i + 1 + j - 1]
    BY <2>1, SubSeqProperties
  <2>3. Len(s) - (i + 1) + 1 = Len(s) - i
    BY <1>1
  <2>4. \A j \in 1..(Len(s) - i) : i + 1 + j - 1 = i + j
    BY <1>1
  <2> HIDE DEF q
  <2>5. Len(q) = Len(s) - i
    BY <2>2, <1>1
  <2>6. \A j \in 1..(Len(s) - i) : q[j] = s[i + j]
    BY <2>2, <2>3, <2>4
  <2> QED BY <2>2, <2>5, <2>6
<1> HIDE DEF p, q
<1>4. /\ t \in Seq(Blocks) /\ Len(t) = Len(p) + Len(q)
      /\ \A j \in 1..(Len(p) + Len(q)) :
            t[j] = IF j <= Len(p) THEN p[j] ELSE q[j - Len(p)]
  <2>1. p \in Seq(Blocks) /\ q \in Seq(Blocks)
    BY <1>2, <1>3
  <2>2. t \in Seq(Blocks)
    BY <2>1, ConcatProperties
  <2>3. Len(t) = Len(p) + Len(q)
    BY <2>1, ConcatProperties
  <2>4. \A j \in 1..(Len(p) + Len(q)) :
            t[j] = IF j <= Len(p) THEN p[j] ELSE q[j - Len(p)]
    BY <2>1, ConcatProperties
  <2> QED BY <2>2, <2>3, <2>4
<1> HIDE DEF t
<1>5. Len(t) = Len(s) - 1
  BY <1>1, <1>2, <1>3, <1>4
<1>6. ASSUME NEW j \in 1..Len(t)
      PROVE  at(j) \in 1..Len(s) /\ at(j) # i /\ t[j] = s[at(j)]
  <2>1. t[j] = IF j <= Len(p) THEN p[j] ELSE q[j - Len(p)]
    BY <1>4
  <2>2. CASE j < i
    <3>1. j \in 1..(i - 1) /\ j <= Len(p)
      BY <2>2, <1>1, <1>2, <1>5
    <3>2. t[j] = s[j]
      BY <3>1, <2>1, <1>2
    <3> QED BY <3>1, <3>2, <2>2, <1>1
  <2>3. CASE j >= i
    <3>1. j - Len(p) \in 1..(Len(s) - i) /\ i + (j - Len(p)) = j + 1
      BY <2>3, <1>1, <1>2, <1>5
    <3>2. t[j] = q[j - Len(p)]
      BY <2>1, <2>3, <1>1, <1>2
    <3>3. t[j] = s[j + 1]
      BY <3>1, <3>2, <1>3
    <3> QED BY <3>3, <2>3, <1>1, <1>5
  <2>4. j < i \/ j >= i
    BY <1>1, <1>5
  <2> QED BY <2>2, <2>3, <2>4
<1>7. Members(t) = Members(s) \ {s[i]}
  <2>1. ASSUME NEW x \in Members(t) PROVE x \in Members(s) \ {s[i]}
    <3>1. PICK j \in 1..Len(t) : x = t[j]
      BY DEF Members
    <3>2. at(j) \in 1..Len(s) /\ at(j) # i /\ x = s[at(j)]
      BY <3>1, <1>6
    <3> HIDE DEF at
    <3> QED BY <3>2 DEF Members
  <2>2. ASSUME NEW x \in Members(s), x # s[i] PROVE x \in Members(t)
    <3>1. PICK l \in 1..Len(s) : x = s[l]
      BY DEF Members
    <3> DEFINE j == IF l < i THEN l ELSE l - 1
    <3>2. j \in 1..Len(t) /\ at(j) = l
      BY <3>1, <2>2, <1>1, <1>5
    <3>3. t[j] = x
      BY <3>1, <3>2, <1>6
    <3> HIDE DEF j
    <3> QED BY <3>2, <3>3 DEF Members
  <2> QED BY <2>1, <2>2
<1>8. ASSUME NEW j \in 1..Len(t), NEW l \in 1..Len(t), t[j] = t[l]
      PROVE  j = l
  <2>1. at(j) = at(l)
    BY <1>6, <1>8
  <2> QED BY <2>1, <1>1
<1> QED BY <1>4, <1>7, <1>8 DEF t, p, q

\* AppendAt changes one list of a function of lists
LEMMA AppendAtProperties ==
    ASSUME NEW D, NEW f \in [D -> Seq(Blocks)], NEW x \in D, NEW b \in Blocks
    PROVE  /\ AppendAt(f, x, b) \in [D -> Seq(Blocks)]
           /\ AppendAt(f, x, b)[x] = Append(f[x], b)
           /\ \A y \in D \ {x} : AppendAt(f, x, b)[y] = f[y]
<1> DEFINE v == Append(f[x], b)
<1>1. v \in Seq(Blocks)
  BY AppendMembers
<1>2. AppendAt(f, x, b) = [f EXCEPT ![x] = v]
  BY DEF AppendAt
<1> HIDE DEF v
<1>3. /\ AppendAt(f, x, b) \in [D -> Seq(Blocks)]
      /\ AppendAt(f, x, b)[x] = v
      /\ \A y \in D \ {x} : AppendAt(f, x, b)[y] = f[y]
  BY <1>1, <1>2
<1> QED BY <1>3 DEF v

-----------------------------------------------------------------------------
(* What the methods do to the linked store *)

\* A list of by_num holds exactly the linked blocks of its height, each once
LEMMA Lists ==
    ASSUME NEW k \in Tree, Listed(k), NEW n \in Heights
    PROVE  /\ k.by_num[n] \in Seq(Blocks)
           /\ \A i, j \in 1..Len(k.by_num[n]) :
                 k.by_num[n][i] = k.by_num[n][j] => i = j
           /\ Members(k.by_num[n]) = {x \in Linked(k) : Num[x] = n}
<1>1. k.by_num[n] \in Seq(Blocks)
  BY DEF Tree
<1>2. \A i, j \in 1..Len(k.by_num[n]) : k.by_num[n][i] = k.by_num[n][j] => i = j
  BY DEF Listed
<1>3. \A x \in Members(k.by_num[n]) : x \in Blocks /\ Num[x] = n
  BY <1>1 DEF Listed, Members
<1>4. Members(k.by_num[n]) = {x \in Linked(k) : Num[x] = n}
  BY <1>3 DEF Linked
<1> QED BY <1>1, <1>2, <1>4

\* insert adds b to the linked store; a pointer to p is set when p is given
LEMMA InsertLinks ==
    ASSUME NEW k \in Tree, Listed(k),
           NEW b \in Blocks, b \notin Linked(k), NEW p
    PROVE  LET r == Insert(k, b, p)
           IN /\ r \in Tree
              /\ Listed(r)
              /\ Linked(r) = Linked(k) \cup {b}
              /\ r.attached = IF p = None THEN k.attached ELSE k.attached \cup {b}
              /\ r.head = k.head
              /\ r.unlinked = k.unlinked
              /\ r.by_parent = k.by_parent
<1> DEFINE r == Insert(k, b, p)
           s == k.by_num[Num[b]]
<1>1. Num[b] \in Heights
  BY DEF Heights
<1>2. /\ s \in Seq(Blocks)
      /\ \A i, j \in 1..Len(s) : s[i] = s[j] => i = j
      /\ Members(s) = {x \in Linked(k) : Num[x] = Num[b]}
  BY <1>1, Lists
<1>3. /\ r.attached = IF p = None THEN k.attached ELSE k.attached \cup {b}
      /\ r.head = k.head
      /\ r.unlinked = k.unlinked
      /\ r.by_parent = k.by_parent
  <2>1. r.attached = IF p = None THEN k.attached ELSE k.attached \cup {b}
    BY DEF Insert, Tree
  <2>2. r.head = k.head /\ r.unlinked = k.unlinked /\ r.by_parent = k.by_parent
    BY DEF Insert, Tree
  <2> QED BY <2>1, <2>2
<1>4. /\ r.by_num \in [Heights -> Seq(Blocks)]
      /\ r.by_num[Num[b]] = Append(s, b)
      /\ \A n \in Heights \ {Num[b]} : r.by_num[n] = k.by_num[n]
  <2>1. r.by_num = AppendAt(k.by_num, Num[b], b)
    BY DEF Insert, Tree
  <2>2. k.by_num \in [Heights -> Seq(Blocks)]
    BY DEF Tree
  <2> HIDE DEF r
  <2>3. r.by_num \in [Heights -> Seq(Blocks)]
    BY <2>1, <2>2, <1>1, AppendAtProperties
  <2>4. r.by_num[Num[b]] = Append(s, b)
    BY <2>1, <2>2, <1>1, AppendAtProperties
  <2>5. \A n \in Heights \ {Num[b]} : r.by_num[n] = k.by_num[n]
    BY <2>1, <2>2, <1>1, AppendAtProperties
  <2> QED BY <2>3, <2>4, <2>5
<1>5. r \in Tree
  BY <1>4 DEF Insert, Tree
<1> HIDE DEF r
<1>6. Linked(r) = Linked(k) \cup {b}
  <2>1. ASSUME NEW x \in Blocks
        PROVE  x \in Members(r.by_num[Num[x]])
                  <=> x \in Members(k.by_num[Num[x]]) \/ x = b
    <3>1. CASE Num[x] = Num[b]
      BY <3>1, <1>2, <1>4, AppendMembers
    <3>2. CASE Num[x] # Num[b]
      BY <3>2, <1>4 DEF Heights
    <3> QED BY <3>1, <3>2
  <2> QED BY <2>1 DEF Linked
<1>7. Listed(r)
  <2> SUFFICES ASSUME NEW n \in Heights, NEW i \in 1..Len(r.by_num[n])
               PROVE  /\ Num[r.by_num[n][i]] = n
                      /\ \A j \in 1..Len(r.by_num[n]) :
                            r.by_num[n][i] = r.by_num[n][j] => i = j
    BY DEF Listed
  <2>1. CASE n # Num[b]
    BY <2>1, <1>4 DEF Listed
  <2>2. CASE n = Num[b]
    <3>1. b \notin Members(s)
      BY <1>2
    <3>2. \A j \in 1..Len(s) : s[j] # b /\ Num[s[j]] = n
      BY <3>1, <2>2 DEF Members, Listed
    <3>3. Len(s) \in Nat
      BY <1>2
    <3>4. /\ Len(r.by_num[n]) = Len(s) + 1
          /\ \A j \in 1..Len(r.by_num[n]) :
                r.by_num[n][j] = IF j <= Len(s) THEN s[j] ELSE b
      BY <2>2, <1>2, <1>4, AppendMembers
    <3> HIDE DEF s
    <3> QED BY <3>2, <3>3, <3>4, <2>2, <1>2
  <2> QED BY <2>1, <2>2
<1> QED BY <1>3, <1>5, <1>6, <1>7 DEF r

-----------------------------------------------------------------------------
(* The methods preserve the invariant *)

\* KhaosDb::new gives a tree that satisfies the invariant
LEMMA EmptyInv == TreeInv(EmptyTree)
<1>1. EmptyTree \in Tree /\ Listed(EmptyTree)
  BY DEF EmptyTree, Tree, Listed
<1>2. Linked(EmptyTree) = {}
  <2>1. Members(<<>>) = {}
    BY DEF Members
  <2>2. \A b \in Blocks : EmptyTree.by_num[Num[b]] = <<>>
    BY DEF EmptyTree, Heights
  <2> QED BY <2>1, <2>2 DEF Linked
<1>3. HeadOK(EmptyTree) /\ PointersOK(EmptyTree) /\ OrphansOK(EmptyTree)
  BY <1>2 DEF EmptyTree, HeadOK, PointersOK, OrphansOK
<1> QED BY <1>1, <1>3 DEF TreeInv

\* An unset head means an empty linked store, so start never repeats a block
LEMMA StartInv ==
    ASSUME NEW k, TreeInv(k), k.head = None, NEW b \in Blocks
    PROVE  TreeInv(StartTree(k, b))
<1> DEFINE i == Insert(k, b, None)
           r == StartTree(k, b)
<1> USE KhaosAssumption
<1>1. k \in Tree /\ Listed(k) /\ PointersOK(k) /\ OrphansOK(k) /\ Linked(k) = {}
  BY DEF TreeInv, HeadOK
<1>2. /\ i \in Tree /\ Listed(i)
      /\ Linked(i) = {b}
      /\ i.attached = k.attached
      /\ i.unlinked = k.unlinked
      /\ i.by_parent = k.by_parent
  <2>1. b \notin Linked(k)
    BY <1>1
  <2>2. /\ i \in Tree /\ Listed(i)
        /\ Linked(i) = Linked(k) \cup {b}
        /\ i.attached = k.attached
        /\ i.unlinked = k.unlinked
        /\ i.by_parent = k.by_parent
    BY <1>1, <2>1, InsertLinks
  <2> HIDE DEF i
  <2> QED BY <1>1, <2>2
<1> HIDE DEF i
<1>3. /\ r \in Tree /\ r.head = b /\ r.by_num = i.by_num
      /\ r.attached = i.attached /\ r.unlinked = i.unlinked
      /\ r.by_parent = i.by_parent
  BY <1>2 DEF StartTree, Tree, i
<1> HIDE DEF r
<1>4. Listed(r) /\ Linked(r) = Linked(i)
  BY <1>2, <1>3 DEF Listed, Linked
<1>5. HeadOK(r)
  BY <1>2, <1>3, <1>4 DEF HeadOK
<1>6. PointersOK(r)
  BY <1>1, <1>2, <1>3, <1>4 DEF PointersOK
<1>7. OrphansOK(r)
  BY <1>1, <1>2, <1>3 DEF OrphansOK
<1> QED BY <1>3, <1>4, <1>5, <1>6, <1>7 DEF TreeInv, r

\* A root or a child of a linked block is linked, before the stores are pruned
LEMMA LinkOnlyInv ==
    ASSUME NEW k, TreeInv(k), NEW b \in Blocks, PushKind(k, b) \in {"root", "link"}
    PROVE  TreeInv(LinkOnly(k, b)) /\ LinkOnly(k, b).head # None
<1> DEFINE p == IF PushKind(k, b) = "link" THEN Parent[b] ELSE None
           i == Insert(k, b, p)
           r == LinkOnly(k, b)
<1> USE KhaosAssumption
<1>1. k \in Tree /\ Listed(k) /\ HeadOK(k) /\ PointersOK(k) /\ OrphansOK(k)
  BY DEF TreeInv
<1>2. b \notin Linked(k)
  BY DEF PushKind
<1>3. p # None => p = Parent[b] /\ p \in Linked(k) /\ Num[b] = Num[p] + 1
  BY DEF PushKind
<1> HIDE DEF p
<1>4. /\ i \in Tree /\ Listed(i)
      /\ Linked(i) = Linked(k) \cup {b}
      /\ i.attached = IF p = None THEN k.attached ELSE k.attached \cup {b}
      /\ i.head = k.head
      /\ i.unlinked = k.unlinked
      /\ i.by_parent = k.by_parent
  BY <1>1, <1>2, InsertLinks
<1>5. r = Promote(i, b)
  BY DEF LinkOnly, p
<1> HIDE DEF i, r
<1>6. /\ r \in Tree /\ r.head \in {b, k.head} /\ r.head # None
      /\ r.by_num = i.by_num /\ r.attached = i.attached
      /\ r.unlinked = i.unlinked /\ r.by_parent = i.by_parent
  BY <1>4, <1>5 DEF Promote, Tree
<1>7. Listed(r) /\ Linked(r) = Linked(i)
  BY <1>4, <1>6 DEF Listed, Linked
<1>8. HeadOK(r)
  BY <1>1, <1>4, <1>6, <1>7 DEF HeadOK
<1>9. PointersOK(r)
  <2>1. ASSUME NEW c \in r.attached
        PROVE  c \in Linked(r) /\ Parent[c] \in Linked(r) /\ Num[c] = Num[Parent[c]] + 1
    <3>1. c \in k.attached \/ (c = b /\ p # None)
      BY <1>4, <1>6
    <3>2. CASE c \in k.attached
      BY <1>1, <1>4, <1>7, <3>2 DEF PointersOK
    <3>3. CASE c = b /\ p # None
      BY <1>3, <1>4, <1>7, <3>3
    <3> QED BY <3>1, <3>2, <3>3
  <2> QED BY <2>1 DEF PointersOK
<1>10. OrphansOK(r)
  BY <1>1, <1>4, <1>6 DEF OrphansOK
<1> QED BY <1>6, <1>7, <1>8, <1>9, <1>10 DEF TreeInv, r

\* Pruning below t keeps the head when the head is not below t, and no
\* surviving pointer leads to a pruned block
LEMMA PruneLinkedInv ==
    ASSUME NEW k, TreeInv(k), NEW t \in Int, k.head # None, t <= Num[k.head]
    PROVE  TreeInv(PruneLinked(k, t))
<1> DEFINE r == PruneLinked(k, t)
<1> USE KhaosAssumption
<1>1. k \in Tree /\ Listed(k) /\ HeadOK(k) /\ PointersOK(k) /\ OrphansOK(k)
  BY DEF TreeInv
<1>2. CASE t <= 0
  BY <1>2 DEF PruneLinked
<1>3. CASE ~(t <= 0)
  <2>1. /\ r.head = k.head /\ r.unlinked = k.unlinked
        /\ r.by_parent = k.by_parent
    BY <1>1, <1>3 DEF PruneLinked, Tree
  <2>2. r.by_num = [n \in Heights |-> IF n < t THEN <<>> ELSE k.by_num[n]]
    BY <1>1, <1>3 DEF PruneLinked, Tree
  <2>3. r.attached = Detach(k.attached, {b \in Blocks : Num[b] < t})
    BY <1>1, <1>3 DEF PruneLinked, Tree
  <2>4. r \in Tree
    <3>1. [n \in Heights |-> IF n < t THEN <<>> ELSE k.by_num[n]]
             \in [Heights -> Seq(Blocks)]
      BY <1>1 DEF Tree
    <3>2. Detach(k.attached, {b \in Blocks : Num[b] < t}) \in SUBSET Blocks
      BY <1>1 DEF Detach, Tree
    <3> QED BY <1>1, <1>3, <3>1, <3>2 DEF PruneLinked, Tree
  <2> HIDE DEF r
  <2>5. \A n \in Heights : r.by_num[n] = IF n < t THEN <<>> ELSE k.by_num[n]
    BY <2>2
  <2>6. Listed(r)
    <3> SUFFICES ASSUME NEW n \in Heights, NEW i \in 1..Len(r.by_num[n])
                 PROVE  /\ Num[r.by_num[n][i]] = n
                        /\ \A j \in 1..Len(r.by_num[n]) :
                              r.by_num[n][i] = r.by_num[n][j] => i = j
      BY DEF Listed
    <3>1. CASE n < t
      BY <3>1, <2>5
    <3>2. CASE ~(n < t)
      BY <3>2, <2>5, <1>1 DEF Listed
    <3> QED BY <3>1, <3>2
  <2>7. Linked(r) = {x \in Linked(k) : ~(Num[x] < t)}
    <3>1. Members(<<>>) = {}
      BY DEF Members
    <3>2. ASSUME NEW x \in Blocks
          PROVE  x \in Members(r.by_num[Num[x]])
                    <=> x \in Members(k.by_num[Num[x]]) /\ ~(Num[x] < t)
      <4>1. r.by_num[Num[x]] = IF Num[x] < t THEN <<>> ELSE k.by_num[Num[x]]
        BY <2>5 DEF Heights
      <4> QED BY <3>1, <4>1
    <3> QED BY <3>2 DEF Linked
  <2>8. HeadOK(r)
    <3>1. k.head \in Linked(k) /\ k.head \in Blocks
      BY <1>1 DEF HeadOK, Linked
    <3>2. k.head \in Linked(r)
      BY <3>1, <2>7
    <3> QED BY <3>2, <2>1 DEF HeadOK
  <2>9. PointersOK(r)
    <3> SUFFICES ASSUME NEW b \in r.attached
                 PROVE  /\ b \in Linked(r) /\ Parent[b] \in Linked(r)
                        /\ Num[b] = Num[Parent[b]] + 1
      BY DEF PointersOK
    <3>1. /\ b \in k.attached /\ b \notin {x \in Blocks : Num[x] < t}
          /\ Parent[b] \notin {x \in Blocks : Num[x] < t}
      BY <2>3 DEF Detach
    <3>2. /\ b \in Linked(k) /\ Parent[b] \in Linked(k)
          /\ Num[b] = Num[Parent[b]] + 1
      BY <3>1, <1>1 DEF PointersOK
    <3>3. b \in Blocks /\ Parent[b] \in Blocks
      BY <3>2 DEF Linked
    <3> QED BY <3>1, <3>2, <3>3, <2>7
  <2>10. OrphansOK(r)
    BY <1>1, <2>1 DEF OrphansOK
  <2> QED BY <2>4, <2>6, <2>8, <2>9, <2>10 DEF TreeInv, r
<1> QED BY <1>2, <1>3

\* Pruning orphans only shrinks mini_unlinked_store
LEMMA PruneUnlinkedInv ==
    ASSUME NEW k, TreeInv(k), NEW t \in Int
    PROVE  TreeInv(PruneUnlinked(k, t))
<1> DEFINE r == PruneUnlinked(k, t)
<1>1. k \in Tree /\ Listed(k) /\ HeadOK(k) /\ PointersOK(k) /\ OrphansOK(k)
  BY DEF TreeInv
<1>2. /\ r \in Tree /\ r.head = k.head /\ r.by_num = k.by_num
      /\ r.attached = k.attached /\ r.by_parent = k.by_parent
      /\ r.unlinked \subseteq k.unlinked
  BY <1>1 DEF PruneUnlinked, Tree
<1> HIDE DEF r
<1>3. Linked(r) = Linked(k) /\ Listed(r)
  BY <1>1, <1>2 DEF Linked, Listed
<1>4. HeadOK(r) /\ PointersOK(r) /\ OrphansOK(r)
  BY <1>1, <1>2, <1>3 DEF HeadOK, PointersOK, OrphansOK
<1> QED BY <1>2, <1>3, <1>4 DEF TreeInv, r

\* A key that is dropped has no waiting orphan left
LEMMA PruneByParentInv ==
    ASSUME NEW k, TreeInv(k)
    PROVE  TreeInv(PruneByParent(k))
<1> DEFINE r == PruneByParent(k)
           f == [p \in Blocks |->
                    IF Members(k.by_parent[p]) \cap k.unlinked = {} THEN <<>>
                    ELSE k.by_parent[p]]
<1> USE KhaosAssumption
<1>1. k \in Tree /\ Listed(k) /\ HeadOK(k) /\ PointersOK(k) /\ OrphansOK(k)
  BY DEF TreeInv
<1>2. f \in [Blocks -> Seq(Blocks)]
  BY <1>1 DEF Tree
<1>3. r = [k EXCEPT !.by_parent = f]
  BY <1>1 DEF PruneByParent, Tree
<1>4. \A b \in k.unlinked : b \in Members(f[Parent[b]])
  <2> SUFFICES ASSUME NEW b \in k.unlinked PROVE b \in Members(f[Parent[b]])
    OBVIOUS
  <2>1. b \in Blocks /\ Parent[b] \in Blocks
    BY <1>1 DEF OrphansOK, Tree
  <2>2. b \in Members(k.by_parent[Parent[b]]) \cap k.unlinked
    BY <1>1 DEF OrphansOK
  <2>3. f[Parent[b]] = k.by_parent[Parent[b]]
    BY <2>1, <2>2
  <2> QED BY <2>2, <2>3
<1> HIDE DEF f, r
<1>5. /\ r \in Tree /\ r.head = k.head /\ r.by_num = k.by_num
      /\ r.attached = k.attached /\ r.unlinked = k.unlinked
      /\ r.by_parent = f
  BY <1>1, <1>2, <1>3 DEF Tree
<1>6. Linked(r) = Linked(k) /\ Listed(r)
  BY <1>1, <1>5 DEF Linked, Listed
<1>7. HeadOK(r) /\ PointersOK(r)
  BY <1>1, <1>5, <1>6 DEF HeadOK, PointersOK
<1>8. OrphansOK(r)
  BY <1>1, <1>4, <1>5 DEF OrphansOK
<1> QED BY <1>5, <1>6, <1>7, <1>8 DEF TreeInv, r

\* The linking branch of push: link, then the three prunings
LEMMA LinkInv ==
    ASSUME NEW k, TreeInv(k), NEW b \in Blocks, PushKind(k, b) \in {"root", "link"}
    PROVE  TreeInv(Link(k, b))
<1> DEFINE l == LinkOnly(k, b)
           t == HeadNum(l) - MaxCapacity
<1>1. TreeInv(l) /\ l.head # None
  BY LinkOnlyInv
<1>2. l.head \in Blocks
  BY <1>1 DEF TreeInv, Tree
<1>3. t \in Int /\ t <= Num[l.head]
  BY <1>1, <1>2, KhaosAssumption DEF HeadNum
<1>4. TreeInv(PruneByParent(PruneUnlinked(PruneLinked(l, t), t)))
  <2> HIDE DEF l, t
  <2>1. TreeInv(PruneLinked(l, t))
    BY <1>1, <1>3, PruneLinkedInv
  <2>2. TreeInv(PruneUnlinked(PruneLinked(l, t), t))
    BY <2>1, <1>3, PruneUnlinkedInv
  <2> QED BY <2>2, PruneByParentInv
<1> QED BY <1>4 DEF Link

\* A stashed orphan is listed under its parent, whether or not it was before
LEMMA StashInv ==
    ASSUME NEW k, TreeInv(k), NEW b \in Blocks, PushKind(k, b) = "unlinked"
    PROVE  TreeInv(Stash(k, b))
<1> DEFINE p == Parent[b]
           f == IF b \in k.unlinked \/ b \in Members(k.by_parent[p])
                THEN k.by_parent ELSE AppendAt(k.by_parent, p, b)
           s == [k EXCEPT !.unlinked = @ \cup {b}, !.by_parent = f]
           t == HeadNum(k) - MaxCapacity
<1>1. k \in Tree /\ Listed(k) /\ HeadOK(k) /\ PointersOK(k) /\ OrphansOK(k)
  BY DEF TreeInv
<1>2. p \in Blocks
  BY KhaosAssumption DEF PushKind
<1>3. k.by_parent \in [Blocks -> Seq(Blocks)] /\ k.unlinked \subseteq Blocks
  BY <1>1 DEF Tree
<1>4. f \in [Blocks -> Seq(Blocks)]
  BY <1>2, <1>3, AppendAtProperties
<1> DEFINE g == AppendAt(k.by_parent, p, b)
<1>5. /\ g[p] = Append(k.by_parent[p], b)
       /\ \A q \in Blocks \ {p} : g[q] = k.by_parent[q]
  <2> DEFINE v == Append(k.by_parent[p], b)
  <2>1. g = [k.by_parent EXCEPT ![p] = v]
    BY DEF AppendAt
  <2> HIDE DEF g, v
  <2>2. g[p] = v /\ \A q \in Blocks \ {p} : g[q] = k.by_parent[q]
    BY <2>1, <1>2, <1>3
  <2> QED BY <2>2 DEF v
<1> HIDE DEF g
<1>6. b \in Members(f[p])
  <2>1. CASE b \in k.unlinked \/ b \in Members(k.by_parent[p])
    BY <2>1, <1>1 DEF OrphansOK
  <2>2. CASE ~(b \in k.unlinked \/ b \in Members(k.by_parent[p]))
    <3>1. f[p] = Append(k.by_parent[p], b)
      BY <2>2, <1>5 DEF g
    <3>2. k.by_parent[p] \in Seq(Blocks)
      BY <1>2, <1>3
    <3> HIDE DEF f
    <3>3. Members(Append(k.by_parent[p], b)) = Members(k.by_parent[p]) \cup {b}
      BY <3>2, AppendMembers
    <3> QED BY <3>1, <3>3, Zenon
  <2> QED BY <2>1, <2>2
<1>7. ASSUME NEW q \in Blocks PROVE Members(k.by_parent[q]) \subseteq Members(f[q])
  <2>1. CASE b \in k.unlinked \/ b \in Members(k.by_parent[p])
    BY <2>1
  <2>2. CASE ~(b \in k.unlinked \/ b \in Members(k.by_parent[p]))
    <3>1. CASE q = p
      <4>1. f[q] = Append(k.by_parent[q], b)
        BY <3>1, <2>2, <1>5 DEF g
      <4>2. k.by_parent[q] \in Seq(Blocks)
        BY <1>3
      <4>3. Members(f[q]) = Members(k.by_parent[q]) \cup {b}
        BY <4>1, <4>2, AppendMembers
      <4> QED BY <4>3
    <3>2. CASE q # p
      <4>1. f[q] = k.by_parent[q]
        BY <3>2, <2>2, <1>5 DEF g
      <4> QED BY <4>1
    <3> QED BY <3>1, <3>2
  <2> QED BY <2>1, <2>2
<1>8. Stash(k, b) = PruneUnlinked(s, t)
  BY DEF Stash
<1> HIDE DEF f
<1>9. /\ s \in Tree /\ s.head = k.head /\ s.by_num = k.by_num
      /\ s.attached = k.attached /\ s.by_parent = f
      /\ s.unlinked = k.unlinked \cup {b}
  BY <1>1, <1>3, <1>4 DEF Tree
<1> HIDE DEF s
<1>10. Linked(s) = Linked(k) /\ Listed(s)
  BY <1>1, <1>9 DEF Linked, Listed
<1>11. HeadOK(s) /\ PointersOK(s)
  BY <1>1, <1>9, <1>10 DEF HeadOK, PointersOK
<1>12. OrphansOK(s)
  <2> SUFFICES ASSUME NEW x \in s.unlinked
               PROVE  Parent[x] # None /\ x \in Members(s.by_parent[Parent[x]])
    BY DEF OrphansOK
  <2>1. CASE x = b
    BY <2>1, <1>2, <1>6, <1>9, KhaosAssumption
  <2>2. CASE x \in k.unlinked
    <3>1. Parent[x] # None /\ x \in Members(k.by_parent[Parent[x]])
      BY <2>2, <1>1 DEF OrphansOK
    <3>2. Parent[x] \in Blocks
      BY <3>1, <2>2, <1>3, KhaosAssumption
    <3> QED BY <3>1, <3>2, <1>7, <1>9
  <2> QED BY <2>1, <2>2, <1>9
<1>13. t \in Int
  BY <1>1, KhaosAssumption DEF HeadNum, Tree
<1> QED BY <1>8, <1>9, <1>10, <1>11, <1>12, <1>13, PruneUnlinkedInv DEF TreeInv

\* push, whatever it does with the block
LEMMA PushInv ==
    ASSUME NEW k, TreeInv(k), NEW b \in Blocks
    PROVE  TreeInv(PushTree(k, b))
<1>1. PushKind(k, b) \in {"known", "root", "unlinked", "link", "bad_number"}
  BY DEF PushKind
<1>2. CASE PushKind(k, b) \in {"known", "bad_number"}
  BY <1>2 DEF PushTree
<1>3. CASE PushKind(k, b) = "unlinked"
  BY <1>3, StashInv DEF PushTree
<1>4. CASE PushKind(k, b) \in {"root", "link"}
  BY <1>4, LinkInv DEF PushTree
<1> QED BY <1>1, <1>2, <1>3, <1>4

\* The orphans taken out are exactly the ones listed under p, so none of the
\* others loses its entry
LEMMA TakeInv ==
    ASSUME NEW k, TreeInv(k), NEW p \in Blocks
    PROVE  TreeInv(TakeTree(k, p))
<1> DEFINE w == Members(k.by_parent[p])
           r == TakeTree(k, p)
<1>1. k \in Tree /\ Listed(k) /\ HeadOK(k) /\ PointersOK(k) /\ OrphansOK(k)
  BY DEF TreeInv
<1>2. CASE p \notin Linked(k)
  BY <1>2 DEF TakeTree
<1>3. CASE p \in Linked(k)
  <2>1. /\ r \in Tree /\ r.head = k.head /\ r.by_num = k.by_num
        /\ r.attached = k.attached
        /\ r.unlinked = k.unlinked \ w
        /\ \A q \in Blocks \ {p} : r.by_parent[q] = k.by_parent[q]
    <3> DEFINE f == [k.by_parent EXCEPT ![p] = <<>>]
    <3>1. /\ f \in [Blocks -> Seq(Blocks)]
          /\ \A q \in Blocks \ {p} : f[q] = k.by_parent[q]
      BY <1>1 DEF Tree
    <3>2. r = [k EXCEPT !.by_parent = f, !.unlinked = k.unlinked \ w]
      BY <1>1, <1>3 DEF TakeTree, Tree
    <3> HIDE DEF f, w, r
    <3>3. r.by_parent = f
      BY <1>1, <3>2 DEF Tree
    <3>4. /\ r.head = k.head /\ r.by_num = k.by_num
          /\ r.attached = k.attached /\ r.unlinked = k.unlinked \ w
      BY <1>1, <3>2 DEF Tree
    <3>5. r \in Tree
      BY <1>1, <3>1, <3>2 DEF Tree
    <3> QED BY <3>1, <3>3, <3>4, <3>5
  <2> HIDE DEF r
  <2>2. Linked(r) = Linked(k) /\ Listed(r)
    BY <1>1, <2>1 DEF Linked, Listed
  <2>3. HeadOK(r) /\ PointersOK(r)
    BY <1>1, <2>1, <2>2 DEF HeadOK, PointersOK
  <2>4. OrphansOK(r)
    <3> SUFFICES ASSUME NEW b \in r.unlinked
                 PROVE  Parent[b] # None /\ b \in Members(r.by_parent[Parent[b]])
      BY DEF OrphansOK
    <3>1. b \in k.unlinked /\ b \notin w /\ b \in Blocks
      BY <1>1, <2>1 DEF Tree
    <3>2. Parent[b] # None /\ b \in Members(k.by_parent[Parent[b]])
      BY <3>1, <1>1 DEF OrphansOK
    <3>3. Parent[b] \in Blocks \ {p}
      BY <3>1, <3>2, KhaosAssumption
    <3>4. r.by_parent[Parent[b]] = k.by_parent[Parent[b]]
      BY <3>3, <2>1
    <3> QED BY <3>2, <3>4
  <2> QED BY <2>1, <2>2, <2>3, <2>4 DEF TreeInv, r
<1> QED BY <1>2, <1>3

\* The election finds a linked block whenever there is one
LEMMA ElectLinked ==
    ASSUME NEW k \in Tree, Listed(k)
    PROVE  /\ Elect(k) \in Linked(k) \cup {None}
           /\ Elect(k) = None <=> Linked(k) = {}
<1>1. CASE Linked(k) = {}
  BY <1>1 DEF Elect
<1>2. CASE Linked(k) # {}
  <2> DEFINE b == CHOOSE b \in Linked(k) : \A c \in Linked(k) : Num[c] <= Num[b]
             s == k.by_num[Num[b]]
  <2>1. Linked(k) \subseteq Blocks
    BY DEF Linked
  <2>2. \E x \in Linked(k) : \A c \in Linked(k) : Num[c] <= Num[x]
    BY <1>2, <2>1, Highest
  <2>3. b \in Linked(k)
    BY <2>2
  <2>4. Elect(k) = s[1]
    BY <1>2 DEF Elect
  <2> HIDE DEF b
  <2>5. Num[b] \in Heights /\ b \in Members(s)
    BY <2>3 DEF Linked, Heights
  <2>6. s \in Seq(Blocks) /\ Members(s) = {x \in Linked(k) : Num[x] = Num[b]}
    BY <2>5, Lists
  <2>7. 1 \in 1..Len(s)
    <3>1. PICK i \in 1..Len(s) : b = s[i]
      BY <2>5 DEF Members
    <3>2. Len(s) \in Nat
      BY <2>6
    <3> HIDE DEF s
    <3> QED BY <3>1, <3>2
  <2>8. s[1] \in Members(s)
    BY <2>7 DEF Members
  <2>9. s[1] \in Linked(k) /\ s[1] # None
    BY <2>1, <2>6, <2>8, KhaosAssumption
  <2> QED BY <1>2, <2>4, <2>9
<1> QED BY <1>1, <1>2

\* remove on the linked store: b leaves its list, and no pointer to it survives
LEMMA UnlinkLinks ==
    ASSUME NEW k, TreeInv(k), NEW b \in Linked(k)
    PROVE  LET r == Unlink(k, b)
           IN r \in Tree /\ Listed(r) /\ PointersOK(r) /\ OrphansOK(r)
<1> DEFINE s == k.by_num[Num[b]]
           i == CHOOSE j \in 1..Len(s) : s[j] = b
           t == SubSeq(s, 1, i - 1) \o SubSeq(s, i + 1, Len(s))
           f == [k.by_num EXCEPT ![Num[b]] = t]
           r == Unlink(k, b)
<1>1. k \in Tree /\ Listed(k) /\ PointersOK(k) /\ OrphansOK(k)
  BY DEF TreeInv
<1>2. b \in Blocks /\ Num[b] \in Heights /\ b \in Members(s)
  BY DEF Linked, Heights
<1>3. /\ s \in Seq(Blocks)
      /\ \A j, l \in 1..Len(s) : s[j] = s[l] => j = l
      /\ Members(s) = {x \in Linked(k) : Num[x] = Num[b]}
  BY <1>1, <1>2, Lists
<1>4. i \in 1..Len(s) /\ s[i] = b
  <2>1. \E j \in 1..Len(s) : s[j] = b
    BY <1>2 DEF Members
  <2> QED BY <2>1
<1>5. r = [k EXCEPT !.by_num = f, !.attached = Detach(k.attached, {b})]
  BY <1>1 DEF Unlink, Tree
<1> HIDE DEF i, s
<1>6. /\ t \in Seq(Blocks)
      /\ Members(t) = Members(s) \ {s[i]}
      /\ \A j, l \in 1..Len(t) : t[j] = t[l] => j = l
  BY <1>3, <1>4, CutMembers
<1> HIDE DEF t
<1>7. /\ f \in [Heights -> Seq(Blocks)]
      /\ f[Num[b]] = t
      /\ \A n \in Heights \ {Num[b]} : f[n] = k.by_num[n]
  BY <1>1, <1>2, <1>6 DEF Tree
<1> HIDE DEF f, r
<1>8. r.by_num = f /\ r.attached = Detach(k.attached, {b})
  BY <1>1, <1>5 DEF Tree
<1>9. r.head = k.head /\ r.unlinked = k.unlinked /\ r.by_parent = k.by_parent
  BY <1>1, <1>5 DEF Tree
<1>10. r \in Tree
  <2>1. Detach(k.attached, {b}) \in SUBSET Blocks
    BY <1>1 DEF Detach, Tree
  <2> QED BY <2>1, <1>1, <1>5, <1>7 DEF Tree
<1>11. Linked(r) = Linked(k) \ {b}
  <2>1. ASSUME NEW x \in Blocks
        PROVE  x \in Members(r.by_num[Num[x]])
                  <=> x \in Members(k.by_num[Num[x]]) /\ x # b
    <3>1. CASE Num[x] = Num[b]
      <4>1. r.by_num[Num[x]] = t /\ k.by_num[Num[x]] = s
        BY <3>1, <1>7, <1>8 DEF s
      <4> QED BY <4>1, <1>4, <1>6
    <3>2. CASE Num[x] # Num[b]
      <4>1. Num[x] \in Heights \ {Num[b]}
        BY <3>2 DEF Heights
      <4>2. r.by_num[Num[x]] = k.by_num[Num[x]]
        BY <4>1, <1>7, <1>8
      <4> QED BY <4>2, <3>2
    <3> QED BY <3>1, <3>2
  <2> QED BY <2>1 DEF Linked
<1>12. Listed(r)
  <2> SUFFICES ASSUME NEW n \in Heights, NEW j \in 1..Len(r.by_num[n])
               PROVE  /\ Num[r.by_num[n][j]] = n
                      /\ \A l \in 1..Len(r.by_num[n]) :
                            r.by_num[n][j] = r.by_num[n][l] => j = l
    BY DEF Listed
  <2>1. CASE n # Num[b]
    <3>1. r.by_num[n] = k.by_num[n]
      BY <2>1, <1>7, <1>8
    <3> QED BY <3>1, <1>1 DEF Listed
  <2>2. CASE n = Num[b]
    <3>1. r.by_num[n] = t
      BY <2>2, <1>7, <1>8
    <3>2. t[j] \in Members(t)
      BY <3>1 DEF Members
    <3>3. Num[t[j]] = n
      BY <3>2, <2>2, <1>3, <1>6
    <3> QED BY <3>1, <3>3, <1>6
  <2> QED BY <2>1, <2>2
<1>13. PointersOK(r)
  BY <1>1, <1>8, <1>11 DEF PointersOK, Detach
<1>14. OrphansOK(r)
  BY <1>1, <1>9 DEF OrphansOK
<1> QED BY <1>10, <1>12, <1>13, <1>14 DEF r

\* remove, with the election of another head
LEMMA RemoveInv ==
    ASSUME NEW k, TreeInv(k), NEW b \in Blocks
    PROVE  TreeInv(RemoveTree(k, b))
<1> DEFINE u == IF b \in Linked(k) THEN Unlink(k, b)
                ELSE [k EXCEPT !.unlinked = @ \ {b}]
           r == [u EXCEPT !.head = Elect(u)]
<1>1. k \in Tree /\ Listed(k) /\ HeadOK(k) /\ PointersOK(k) /\ OrphansOK(k)
  BY DEF TreeInv
<1>2. u \in Tree /\ Listed(u) /\ PointersOK(u) /\ OrphansOK(u)
  <2>1. CASE b \in Linked(k)
    <3>1. u = Unlink(k, b)
      BY <2>1
    <3> HIDE DEF u
    <3> QED BY <3>1, <2>1, UnlinkLinks
  <2>2. CASE b \notin Linked(k)
    <3>1. /\ u \in Tree /\ u.by_num = k.by_num /\ u.attached = k.attached
          /\ u.by_parent = k.by_parent /\ u.unlinked \subseteq k.unlinked
      BY <2>2, <1>1 DEF Tree
    <3> HIDE DEF u
    <3>2. Linked(u) = Linked(k) /\ Listed(u)
      BY <3>1, <1>1 DEF Linked, Listed
    <3>3. PointersOK(u) /\ OrphansOK(u)
      BY <3>1, <3>2, <1>1 DEF PointersOK, OrphansOK
    <3> QED BY <3>1, <3>2, <3>3
  <2> QED BY <2>1, <2>2
<1> HIDE DEF u
<1>3. Elect(u) \in Linked(u) \cup {None} /\ (Elect(u) = None <=> Linked(u) = {})
  BY <1>2, ElectLinked
<1>4. Elect(u) \in Blocks \cup {None}
  BY <1>3 DEF Linked
<1>5. /\ r \in Tree /\ r.head = Elect(u) /\ r.by_num = u.by_num
      /\ r.attached = u.attached /\ r.unlinked = u.unlinked
      /\ r.by_parent = u.by_parent
  BY <1>2, <1>4 DEF Tree
<1> HIDE DEF r
<1>6. Linked(r) = Linked(u) /\ Listed(r)
  BY <1>2, <1>5 DEF Linked, Listed
<1>7. HeadOK(r) /\ PointersOK(r) /\ OrphansOK(r)
  BY <1>2, <1>3, <1>5, <1>6 DEF HeadOK, PointersOK, OrphansOK
<1>8. TreeInv(r)
  BY <1>5, <1>6, <1>7 DEF TreeInv
<1>9. RemoveTree(k, b) = IF b \in Linked(k) \cup k.unlinked THEN r ELSE k
  BY DEF RemoveTree, r, u
<1> QED BY <1>8, <1>9

\* pop and set_head put the head on a linked block
LEMMA HeadInv ==
    ASSUME NEW k, TreeInv(k), NEW h \in Linked(k)
    PROVE  TreeInv([k EXCEPT !.head = h])
<1> DEFINE r == [k EXCEPT !.head = h]
<1>1. k \in Tree /\ Listed(k) /\ PointersOK(k) /\ OrphansOK(k)
  BY DEF TreeInv
<1>2. h \in Blocks
  BY DEF Linked
<1>3. /\ r \in Tree /\ r.head = h /\ r.by_num = k.by_num
      /\ r.attached = k.attached /\ r.unlinked = k.unlinked
      /\ r.by_parent = k.by_parent
  BY <1>1, <1>2 DEF Tree
<1> HIDE DEF r
<1>4. Linked(r) = Linked(k) /\ Listed(r)
  BY <1>1, <1>3 DEF Linked, Listed
<1>5. HeadOK(r) /\ PointersOK(r) /\ OrphansOK(r)
  BY <1>1, <1>2, <1>3, <1>4, KhaosAssumption DEF HeadOK, PointersOK, OrphansOK
<1> QED BY <1>3, <1>4, <1>5 DEF TreeInv, r

-----------------------------------------------------------------------------
(* The theorems *)

\* Every call on the tree preserves the invariant
LEMMA StepInv ==
    ASSUME TreeInv(khaos), [KhaosNext]_khaos
    PROVE  TreeInv(khaos')
<1>1. ASSUME NEW b \in Blocks, Start(b) PROVE TreeInv(khaos')
  BY <1>1, StartInv DEF Start
<1>2. ASSUME NEW b \in Blocks, Push(b) PROVE TreeInv(khaos')
  BY <1>2, PushInv DEF Push
<1>3. ASSUME NEW b \in Blocks, TakeOrphans(b) PROVE TreeInv(khaos')
  BY <1>3, TakeInv DEF TakeOrphans
<1>4. ASSUME NEW b \in Blocks, SetHead(b) PROVE TreeInv(khaos')
  BY <1>4, HeadInv DEF SetHead
<1>5. ASSUME NEW b \in Blocks, Remove(b) PROVE TreeInv(khaos')
  BY <1>5, RemoveInv DEF Remove
<1>6. CASE Pop
  <2>1. LiveParent(khaos, khaos.head) \in Linked(khaos)
    BY <1>6 DEF Pop, LiveParent, TreeInv, PointersOK
  <2> QED BY <1>6, <2>1, HeadInv DEF Pop
<1>7. CASE New
  BY <1>7, EmptyInv DEF New
<1>8. CASE UNCHANGED khaos
  BY <1>8
<1> QED BY <1>1, <1>2, <1>3, <1>4, <1>5, <1>6, <1>7, <1>8 DEF KhaosNext

\* The inductive invariant of the fork tree
LEMMA Inductive == KhaosSpec => []TreeInv(khaos)
<1>1. KhaosInit => TreeInv(khaos)
  BY EmptyInv DEF KhaosInit
<1>2. TreeInv(khaos) /\ [KhaosNext]_khaos => TreeInv(khaos')
  BY StepInv
<1>3. TreeInv(khaos)' <=> TreeInv(khaos')
  OBVIOUS
<1> QED BY <1>1, <1>2, <1>3, PTL DEF KhaosSpec

\* Whatever the calls on the tree, mini_store keeps a block in the list of its
\* own height and only once: push never inserts a second copy of a linked
\* block, and remove leaves none behind to be elected head.
THEOREM TypeCorrect == KhaosSpec => []KhaosTypeOK
<1>1. TreeInv(khaos) => KhaosTypeOK
  BY DEF TreeInv, Listed, KhaosTypeOK
<1> QED BY <1>1, Inductive, PTL

\* Whatever the calls on the tree, the head pointer never dangles: pruning
\* never drops the head, remove elects another one whenever a block is left,
\* and pop and set_head stay inside mini_store.
THEOREM HeadNeverDangles == KhaosSpec => []HeadIsLinked
<1>1. TreeInv(khaos) => HeadIsLinked
  BY DEF TreeInv, HeadOK, HeadIsLinked
<1> QED BY <1>1, Inductive, PTL

\* Whatever the calls on the tree, a weak parent pointer that still upgrades
\* leads to a block of mini_store one height below, so the walks of get_branch
\* and is_ancestor stay in the store and end.
THEOREM WalksAreSafe == KhaosSpec => []PointersSound
<1>1. TreeInv(khaos) => PointersSound
  BY DEF TreeInv, PointersOK, PointersSound
<1> QED BY <1>1, Inductive, PTL

\* Whatever the calls on the tree, an orphan of mini_unlinked_store is listed
\* under its parent, so take_orphans_waiting_on finds it when the parent links.
THEOREM NoOrphanStranded == KhaosSpec => []OrphansIndexed
<1>1. TreeInv(khaos) => OrphansIndexed
  BY DEF TreeInv, OrphansOK, OrphansIndexed
<1> QED BY <1>1, Inductive, PTL

=============================================================================
