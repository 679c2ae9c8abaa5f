--------------------------- MODULE Algorithms_proofs ---------------------------
(***************************************************************************)
(* Proofs about the pure parts of the program, whatever the sizes.         *)
(*                                                                         *)
(* Payload: what a hook script is given describes and exports the same     *)
(* tensors, says so when something was left out, and is all of what a      *)
(* bounded walk over the arguments reaches.  _describe and _collect_leaves *)
(* are recursive functions on the levels left, and what holds of them is   *)
(* shown by induction on that number.                                      *)
(*                                                                         *)
(* Tuning: the model, its knobs and the learning rates stay valid whatever *)
(* is sent, and a command changes what its answer says.                    *)
(***************************************************************************)
EXTENDS Payload, Tuning, SequenceTheorems, WellFoundedInduction, TLAPS

-----------------------------------------------------------------------------
(***************************************************************************)
(* Recursive functions.  The induction theorems of the library take an     *)
(* operator as a parameter; these take a set.                              *)
(***************************************************************************)

(* A set with 0 and the successors of its numbers has every number.        *)
LEMMA SetInduction ==
  ASSUME NEW S, 0 \in S, \A n \in Nat : n \in S => n + 1 \in S
  PROVE  Nat \subseteq S
<1> SUFFICES ASSUME NEW T, T = Nat \ S, T # {} PROVE FALSE
  OBVIOUS
<1>1. \E x \in T : \A y \in T : ~(<<y, x>> \in OpToRel(<, Nat))
  BY WFMin, NatLessThanWellFounded, Zenon
<1>2. \E x \in T : \A y \in T : ~(y < x)
  <2>1. \A x, y \in T : y < x => <<y, x>> \in OpToRel(<, Nat)
    BY Zenon DEF OpToRel
  <2> QED
    BY <1>1, <2>1, Zenon
<1>3. PICK x \in T : \A y \in T : ~(y < x)
  BY <1>2
<1>4. x \in Nat /\ x # 0 /\ x - 1 \in Nat /\ x - 1 < x
  BY <1>3
<1> QED
  BY <1>3, <1>4

(* The same, for what holds of a level when it holds of the one below.     *)
LEMMA LevelInduction ==
  ASSUME NEW S, \A left \in Nat : (left # 0 => left - 1 \in S) => left \in S
  PROVE  Nat \subseteq S
<1>1. 0 \in S
  OBVIOUS
<1>2. \A n \in Nat : n \in S => n + 1 \in S
  <2> TAKE n \in Nat
  <2>1. n + 1 \in Nat /\ (n + 1) - 1 = n
    OBVIOUS
  <2> QED
    BY <2>1
<1> QED
  BY <1>1, <1>2, SetInduction

(* A function may be defined by its value at 0 and a step from each number *)
(* to the next.                                                            *)
LEMMA Iteration ==
  ASSUME NEW X, NEW base \in X, NEW step \in [Nat -> [X -> X]]
  PROVE  \E d \in [Nat -> X] : d[0] = base /\ \A n \in Nat : d[n + 1] = step[n][d[n]]
<1> DEFINE Approx(k, h) == /\ h \in [0 .. k -> X] /\ h[0] = base
                           /\ \A j \in 0 .. k : j < k => h[j + 1] = step[j][h[j]]
<1>1. \A k \in Nat : \E h : Approx(k, h)
  <2> DEFINE S == {k \in Nat : \E h : Approx(k, h)}
  <2>1. 0 \in S
    <3>1. Approx(0, [j \in 0 .. 0 |-> base])
      OBVIOUS
    <3> QED
      BY <3>1
  <2>2. ASSUME NEW k \in Nat, k \in S PROVE k + 1 \in S
    <3>1. PICK h : Approx(k, h)
      BY <2>2
    <3> DEFINE more == [j \in 0 .. k + 1 |-> IF j <= k THEN h[j] ELSE step[k][h[k]]]
    <3>2. Approx(k + 1, more) /\ k + 1 \in Nat
      BY <3>1
    <3> HIDE DEF more, Approx
    <3> QED
      BY <3>2
  <2> HIDE DEF S
  <2>3. Nat \subseteq S
    BY <2>1, <2>2, SetInduction
  <2> QED
    BY <2>3 DEF S
<1>2. \A j \in Nat : \A k, m \in Nat : \A h, i :
        j <= k /\ j <= m /\ Approx(k, h) /\ Approx(m, i) => h[j] = i[j]
  <2> DEFINE S == {j \in Nat : \A k, m \in Nat : \A h, i :
                     j <= k /\ j <= m /\ Approx(k, h) /\ Approx(m, i) => h[j] = i[j]}
  <2>1. 0 \in S
    OBVIOUS
  <2>2. ASSUME NEW j \in Nat, j \in S PROVE j + 1 \in S
    <3>1. ASSUME NEW k \in Nat, NEW m \in Nat, NEW h, NEW i, j + 1 <= k, j + 1 <= m,
                 Approx(k, h), Approx(m, i)
          PROVE  h[j + 1] = i[j + 1]
      <4>1. j <= k /\ j <= m /\ j \in 0 .. k /\ j < k /\ j \in 0 .. m /\ j < m
        BY <3>1
      <4>2. h[j + 1] = step[j][h[j]] /\ i[j + 1] = step[j][i[j]]
        BY <3>1, <4>1
      <4>3. h[j] = i[j]
        <5> HIDE DEF Approx
        <5> QED
          BY <2>2, <3>1, <4>1
      <4> QED
        BY <4>2, <4>3
    <3>2. j + 1 \in Nat
      OBVIOUS
    <3> HIDE DEF Approx
    <3> QED
      BY <3>1, <3>2
  <2> HIDE DEF S
  <2>3. Nat \subseteq S
    BY <2>1, <2>2, SetInduction
  <2> QED
    BY <2>3 DEF S
<1> DEFINE pick == [n \in Nat |-> CHOOSE h : Approx(n, h)]
           d == [n \in Nat |-> pick[n][n]]
<1>3. \A n \in Nat : Approx(n, pick[n])
  BY <1>1
<1>4. \A n \in Nat : d[n] = pick[n][n]
  OBVIOUS
<1> HIDE DEF pick
<1>5. d \in [Nat -> X] /\ d[0] = base
  BY <1>3
<1>6. \A n \in Nat : d[n + 1] = step[n][d[n]]
  <2> TAKE n \in Nat
  <2>1. Approx(n, pick[n]) /\ Approx(n + 1, pick[n + 1])
    BY <1>3
  <2>2. pick[n + 1][n + 1] = step[n][pick[n + 1][n]]
    BY <2>1, n \in 0 .. n + 1, n < n + 1
  <2>3. pick[n + 1][n] = pick[n][n]
    <3> HIDE DEF Approx
    <3> QED
      BY <1>2, <2>1
  <2> QED
    BY <1>4, <2>2, <2>3
<1> QED
  BY <1>5, <1>6

-----------------------------------------------------------------------------
(***************************************************************************)
(* The two traversals, level by level.                                     *)
(***************************************************************************)
Reasons == {"string_length", "max_depth", "max_items"}
Places == [path : Seq(Nat), what : Nodes \cup Told]
Leaves == [at : Seq(Nat), path : Seq(Nat), what : Nodes]
Descriptions == [Nodes -> [SUBSET Nodes -> [what : SUBSET Places, why : SUBSET Reasons]]]
Collections == [Nodes -> [SUBSET Nodes -> [what : SUBSET Leaves, why : SUBSET Reasons]]]

(* An object graph, and the bounds on its traversal.                       *)
Bounded(g, limits) ==
  /\ g.kind \in [Nodes -> Kinds] /\ g.items \in [Nodes -> Seq(Nodes)]
  /\ limits.items \in Nat /\ limits.depth \in Nat

(* The items that are kept are items.                                      *)
LEMMA KeptType ==
  ASSUME NEW g, NEW limits, Bounded(g, limits), NEW n \in Nodes, NEW i \in Kept(g, n, limits.items)
  PROVE  g.items[n][i] \in Nodes /\ i \in Nat /\ KeyText(g, n, i) \in Nat /\ i \in 1 .. limits.items
  BY DEF Bounded, Kept, KeyText

(* Places stay places one level up.                                        *)
LEMMA UnderType ==
  ASSUME NEW key \in Nat, NEW P \in SUBSET Places
  PROVE  Under(key, P) \in SUBSET Places
<1>1. ASSUME NEW p \in Places PROVE Place(<<key>> \o p.path, p.what) \in Places
  BY DEF Place, Places
<1> QED
  BY <1>1 DEF Under

(* Leaves stay leaves one level up.                                        *)
LEMMA LeavesUnderType ==
  ASSUME NEW i \in Nat, NEW key \in Nat, NEW L \in SUBSET Leaves
  PROVE  LeavesUnder(i, key, L) \in SUBSET Leaves
<1>1. ASSUME NEW l \in Leaves PROVE Leaf(<<i>> \o l.at, <<key>> \o l.path, l.what) \in Leaves
  BY DEF Leaf, Leaves
<1> QED
  BY <1>1 DEF LeavesUnder

(* What the i-th item contributes.                                         *)
PlacesAt(g, n, seen, below, i) == Under(KeyText(g, n, i), OfItem(g, n, seen, below, i).what)
LeavesAt(g, n, seen, below, i) ==
  LeavesUnder(i, KeyText(g, n, i), OfItem(g, n, seen, below, i).what)

(* What a container's description is made of, and what it says of bounds.  *)
LEMMA DescribeItemsFacts ==
  ASSUME NEW g, NEW limits, NEW n, NEW seen, NEW below
  PROVE  \E what, why :
           /\ DescribeItems(g, limits, n, seen, below) = [what |-> what, why |-> why]
           /\ \A p : p \in what <=>
                \/ p = Place(<<>>, "container")
                \/ \E i \in Shown(g, n, limits.items) : p \in PlacesAt(g, n, seen, below, i)
                \/ Omitted(g, n, limits.items) /\ p = Place(<<0>>, "omitted")
           /\ \A r : r \in why <=>
                \/ \E i \in Kept(g, n, limits.items) : r \in OfItem(g, n, seen, below, i).why
                \/ Omitted(g, n, limits.items) /\ r = "max_items"
<1> DEFINE omitted == IF Omitted(g, n, limits.items) THEN {Place(<<0>>, "omitted")} ELSE {}
           reason == IF Omitted(g, n, limits.items) THEN {"max_items"} ELSE {}
           what == {Place(<<>>, "container")}
                     \cup (UNION {PlacesAt(g, n, seen, below, i) : i \in Shown(g, n, limits.items)})
                     \cup omitted
           why == (UNION {OfItem(g, n, seen, below, i).why : i \in Kept(g, n, limits.items)})
                    \cup reason
<1>1. DescribeItems(g, limits, n, seen, below) = [what |-> what, why |-> why]
  BY Zenon DEF DescribeItems, Found, PlacesAt
<1>2. \A p : p \in what <=>
        \/ p = Place(<<>>, "container")
        \/ \E i \in Shown(g, n, limits.items) : p \in PlacesAt(g, n, seen, below, i)
        \/ Omitted(g, n, limits.items) /\ p = Place(<<0>>, "omitted")
  <2>1. \A p : p \in omitted <=> Omitted(g, n, limits.items) /\ p = Place(<<0>>, "omitted")
    BY Zenon
  <2> HIDE DEF omitted
  <2> QED
    BY <2>1
<1>3. \A r : r \in why <=>
        \/ \E i \in Kept(g, n, limits.items) : r \in OfItem(g, n, seen, below, i).why
        \/ Omitted(g, n, limits.items) /\ r = "max_items"
  <2>1. \A r : r \in reason <=> Omitted(g, n, limits.items) /\ r = "max_items"
    BY Zenon
  <2> HIDE DEF reason
  <2> QED
    BY <2>1
<1> HIDE DEF what, why
<1> QED
  BY <1>1, <1>2, <1>3, Zenon

(* What the collection from a container is made of.                        *)
LEMMA CollectItemsFacts ==
  ASSUME NEW g, NEW limits, NEW n, NEW seen, NEW below
  PROVE  \E what, why :
           /\ CollectItems(g, limits, n, seen, below) = [what |-> what, why |-> why]
           /\ \A l : l \in what <=>
                \E i \in Kept(g, n, limits.items) : l \in LeavesAt(g, n, seen, below, i)
           /\ \A r : r \in why <=>
                \/ \E i \in Kept(g, n, limits.items) : r \in OfItem(g, n, seen, below, i).why
                \/ Omitted(g, n, limits.items) /\ r = "max_items"
<1> DEFINE reason == IF Omitted(g, n, limits.items) THEN {"max_items"} ELSE {}
           what == UNION {LeavesAt(g, n, seen, below, i) : i \in Kept(g, n, limits.items)}
           why == (UNION {OfItem(g, n, seen, below, i).why : i \in Kept(g, n, limits.items)})
                    \cup reason
<1>1. CollectItems(g, limits, n, seen, below) = [what |-> what, why |-> why]
  BY Zenon DEF CollectItems, CollectBound, Found, LeavesAt
<1>2. \A l : l \in what <=>
        \E i \in Kept(g, n, limits.items) : l \in LeavesAt(g, n, seen, below, i)
  OBVIOUS
<1>3. \A r : r \in why <=>
        \/ \E i \in Kept(g, n, limits.items) : r \in OfItem(g, n, seen, below, i).why
        \/ Omitted(g, n, limits.items) /\ r = "max_items"
  <2>1. \A r : r \in reason <=> Omitted(g, n, limits.items) /\ r = "max_items"
    BY Zenon
  <2> HIDE DEF reason
  <2> QED
    BY <2>1
<1> HIDE DEF what, why
<1> QED
  BY <1>1, <1>2, <1>3, Zenon

(* What _describe returns of one node.                                     *)
LEMMA DescribeNodeType ==
  ASSUME NEW g, NEW limits, Bounded(g, limits), NEW n \in Nodes, NEW seen \in SUBSET Nodes,
         NEW left \in Nat, NEW below \in Descriptions
  PROVE  DescribeNode(g, limits, n, seen, left, below) \in [what : SUBSET Places, why : SUBSET Reasons]
<1>1. ASSUME NEW what \in Nodes \cup Told PROVE {Place(<<>>, what)} \in SUBSET Places
  BY DEF Place, Places
<1>2. DescribeItems(g, limits, n, seen, below) \in [what : SUBSET Places, why : SUBSET Reasons]
  <2>1. ASSUME NEW i \in Kept(g, n, limits.items)
        PROVE  OfItem(g, n, seen, below, i).why \in SUBSET Reasons /\ PlacesAt(g, n, seen, below, i) \in SUBSET Places
    <3>1. /\ OfItem(g, n, seen, below, i) \in [what : SUBSET Places, why : SUBSET Reasons]
          /\ KeyText(g, n, i) \in Nat
      BY KeptType DEF Descriptions, OfItem
    <3> QED
      BY <3>1, UnderType DEF PlacesAt
  <2>2. /\ Place(<<>>, "container") \in Places /\ Place(<<0>>, "omitted") \in Places
        /\ "max_items" \in Reasons /\ Shown(g, n, limits.items) \subseteq Kept(g, n, limits.items)
    BY DEF Place, Places, Told, Reasons, Shown
  <2>3. PICK what, why :
        /\ DescribeItems(g, limits, n, seen, below) = [what |-> what, why |-> why]
        /\ \A p : p \in what <=>
             \/ p = Place(<<>>, "container")
             \/ \E i \in Shown(g, n, limits.items) : p \in PlacesAt(g, n, seen, below, i)
             \/ Omitted(g, n, limits.items) /\ p = Place(<<0>>, "omitted")
        /\ \A r : r \in why <=>
             \/ \E i \in Kept(g, n, limits.items) : r \in OfItem(g, n, seen, below, i).why
             \/ Omitted(g, n, limits.items) /\ r = "max_items"
    BY DescribeItemsFacts, Zenon
  <2>4. what \subseteq Places /\ why \subseteq Reasons
    BY <2>1, <2>2, <2>3
  <2> QED
    BY <2>3, <2>4
<1>3. {"string_length"} \in SUBSET Reasons /\ {"max_depth"} \in SUBSET Reasons
  BY DEF Reasons
<1>4. {"number", "object", "cut", "truncated", "cycle"} \subseteq Told
  BY DEF Told
<1> QED
  BY <1>1, <1>2, <1>3, <1>4 DEF DescribeNode, Found

(* What _collect_leaves returns of one node.                               *)
LEMMA CollectNodeType ==
  ASSUME NEW g, NEW limits, Bounded(g, limits), NEW n \in Nodes, NEW seen \in SUBSET Nodes,
         NEW left \in Nat, NEW below \in Collections
  PROVE  CollectNode(g, limits, n, seen, left, below) \in [what : SUBSET Leaves, why : SUBSET Reasons]
<1>1. {Leaf(<<>>, <<>>, n)} \in SUBSET Leaves
  BY DEF Leaf, Leaves
<1>2. CollectItems(g, limits, n, seen, below) \in [what : SUBSET Leaves, why : SUBSET Reasons]
  <2>1. ASSUME NEW i \in Kept(g, n, limits.items)
        PROVE  /\ OfItem(g, n, seen, below, i).why \in SUBSET Reasons
               /\ LeavesAt(g, n, seen, below, i) \in SUBSET Leaves
    <3>1. /\ OfItem(g, n, seen, below, i) \in [what : SUBSET Leaves, why : SUBSET Reasons]
          /\ i \in Nat /\ KeyText(g, n, i) \in Nat
      BY KeptType DEF Collections, OfItem
    <3> QED
      BY <3>1, LeavesUnderType DEF LeavesAt
  <2>2. "max_items" \in Reasons
    BY DEF Reasons
  <2>3. PICK what, why :
        /\ CollectItems(g, limits, n, seen, below) = [what |-> what, why |-> why]
        /\ \A l : l \in what <=>
             \E i \in Kept(g, n, limits.items) : l \in LeavesAt(g, n, seen, below, i)
        /\ \A r : r \in why <=>
             \/ \E i \in Kept(g, n, limits.items) : r \in OfItem(g, n, seen, below, i).why
             \/ Omitted(g, n, limits.items) /\ r = "max_items"
    BY CollectItemsFacts, Zenon
  <2>4. what \subseteq Leaves /\ why \subseteq Reasons
    BY <2>1, <2>2, <2>3
  <2> QED
    BY <2>3, <2>4
<1>3. {"max_depth"} \in SUBSET Reasons
  BY DEF Reasons
<1> QED
  BY <1>1, <1>2, <1>3 DEF CollectNode, Found

(* _describe of every node, from what it returns one level down.           *)
DescribeLevel(g, limits, left, below) ==
  [n \in Nodes |-> [seen \in SUBSET Nodes |-> DescribeNode(g, limits, n, seen, left, below)]]

(* With no level left, nothing is looked up below.                         *)
LEMMA DescribeBottom ==
  ASSUME NEW g, NEW limits, Bounded(g, limits), NEW a, NEW b
  PROVE  DescribeLevel(g, limits, 0, a) = DescribeLevel(g, limits, 0, b)
<1>1. \A n \in Nodes : g.kind[n] \in Kinds
  BY DEF Bounded
<1> QED
  BY <1>1 DEF DescribeLevel, DescribeNode, TooDeep, Kinds, Scalars, Containers, Tensors

(* The recursion of _describe is well founded: every level is described    *)
(* from the one below.                                                     *)
LEMMA DescribeRecursion ==
  ASSUME NEW g, NEW limits, Bounded(g, limits)
  PROVE  /\ Describe(g, limits) \in [Nat -> Descriptions]
         /\ \A left \in Nat :
              Describe(g, limits)[left] = DescribeLevel(g, limits, left, Describe(g, limits)[left - 1])
<1> DEFINE step == [left \in Nat |-> [below \in Descriptions |->
                      DescribeLevel(g, limits, left + 1, below)]]
<1>1. ASSUME NEW left \in Nat, NEW below \in Descriptions
      PROVE  DescribeLevel(g, limits, left, below) \in Descriptions
  BY DescribeNodeType DEF DescribeLevel, Descriptions
<1>2. step \in [Nat -> [Descriptions -> Descriptions]]
  <2>1. \A left \in Nat : left + 1 \in Nat
    OBVIOUS
  <2> QED
    BY <1>1, <2>1
<1>3. \A left \in Nat, below \in Descriptions :
        step[left][below] = DescribeLevel(g, limits, left + 1, below)
  OBVIOUS
<1> HIDE DEF step
<1>4. PICK base \in Descriptions : \A a : base = DescribeLevel(g, limits, 0, a)
  <2>1. [n \in Nodes |-> [seen \in SUBSET Nodes |-> [what |-> {}, why |-> {}]]] \in Descriptions
    BY DEF Descriptions
  <2>2. PICK empty : empty \in Descriptions
    BY <2>1, Zenon
  <2> QED
    BY <1>1, <2>2, DescribeBottom
<1>5. PICK d \in [Nat -> Descriptions] :
        d[0] = base /\ \A left \in Nat : d[left + 1] = step[left][d[left]]
  <2>1. \A s \in [Nat -> [Descriptions -> Descriptions]] :
          \E d \in [Nat -> Descriptions] : d[0] = base /\ \A left \in Nat : d[left + 1] = s[left][d[left]]
    BY Iteration
  <2> QED
    BY <1>2, <2>1
<1>6. \A left \in Nat : d[left] = DescribeLevel(g, limits, left, d[left - 1])
  <2> TAKE left \in Nat
  <2>1. CASE left = 0
    BY <1>4, <1>5, <2>1
  <2>2. CASE left # 0
    <3>1. left - 1 \in Nat /\ (left - 1) + 1 = left
      BY <2>2
    <3> QED
      BY <1>3, <1>5, <3>1
  <2> QED
    BY <2>1, <2>2
<1>7. Describe(g, limits) =
        [left \in Nat |-> DescribeLevel(g, limits, left, Describe(g, limits)[left - 1])]
  <2>1. \E f : f = [left \in Nat |-> DescribeLevel(g, limits, left, f[left - 1])]
    BY <1>6
  <2> QED
    BY <2>1, Zenon DEF Describe, DescribeLevel
<1>8. \A left \in Nat :
        Describe(g, limits)[left] = DescribeLevel(g, limits, left, Describe(g, limits)[left - 1])
  BY <1>7
<1>9. \A left \in Nat : Describe(g, limits)[left] \in Descriptions
  <2> DEFINE S == {left \in Nat : Describe(g, limits)[left] \in Descriptions}
  <2>1. ASSUME NEW left \in Nat, left # 0 => left - 1 \in S PROVE left \in S
    BY <1>1, <1>4, <1>8, <2>1
  <2> HIDE DEF S
  <2>2. Nat \subseteq S
    BY <2>1, LevelInduction
  <2> QED
    BY <2>2 DEF S
<1> QED
  BY <1>7, <1>8, <1>9

(* _collect_leaves of every node, from what it returns one level down.     *)
CollectLevel(g, limits, left, below) ==
  [n \in Nodes |-> [seen \in SUBSET Nodes |-> CollectNode(g, limits, n, seen, left, below)]]

(* With no level left, nothing is looked up below.                         *)
LEMMA CollectBottom ==
  ASSUME NEW g, NEW limits, Bounded(g, limits), NEW a, NEW b
  PROVE  CollectLevel(g, limits, 0, a) = CollectLevel(g, limits, 0, b)
<1>1. \A n \in Nodes : g.kind[n] \in Kinds
  BY DEF Bounded
<1> QED
  BY <1>1 DEF CollectLevel, CollectNode, TooDeep, Kinds, Scalars, Containers, Tensors

(* So is that of _collect_leaves.                                          *)
LEMMA CollectRecursion ==
  ASSUME NEW g, NEW limits, Bounded(g, limits)
  PROVE  /\ Collect(g, limits) \in [Nat -> Collections]
         /\ \A left \in Nat :
              Collect(g, limits)[left] = CollectLevel(g, limits, left, Collect(g, limits)[left - 1])
<1> DEFINE step == [left \in Nat |-> [below \in Collections |->
                      CollectLevel(g, limits, left + 1, below)]]
<1>1. ASSUME NEW left \in Nat, NEW below \in Collections
      PROVE  CollectLevel(g, limits, left, below) \in Collections
  BY CollectNodeType DEF CollectLevel, Collections
<1>2. step \in [Nat -> [Collections -> Collections]]
  <2>1. \A left \in Nat : left + 1 \in Nat
    OBVIOUS
  <2> QED
    BY <1>1, <2>1
<1>3. \A left \in Nat, below \in Collections :
        step[left][below] = CollectLevel(g, limits, left + 1, below)
  OBVIOUS
<1> HIDE DEF step
<1>4. PICK base \in Collections : \A a : base = CollectLevel(g, limits, 0, a)
  <2>1. [n \in Nodes |-> [seen \in SUBSET Nodes |-> [what |-> {}, why |-> {}]]] \in Collections
    BY DEF Collections
  <2>2. PICK empty : empty \in Collections
    BY <2>1, Zenon
  <2> QED
    BY <1>1, <2>2, CollectBottom
<1>5. PICK d \in [Nat -> Collections] :
        d[0] = base /\ \A left \in Nat : d[left + 1] = step[left][d[left]]
  <2>1. \A s \in [Nat -> [Collections -> Collections]] :
          \E d \in [Nat -> Collections] : d[0] = base /\ \A left \in Nat : d[left + 1] = s[left][d[left]]
    BY Iteration
  <2> QED
    BY <1>2, <2>1
<1>6. \A left \in Nat : d[left] = CollectLevel(g, limits, left, d[left - 1])
  <2> TAKE left \in Nat
  <2>1. CASE left = 0
    BY <1>4, <1>5, <2>1
  <2>2. CASE left # 0
    <3>1. left - 1 \in Nat /\ (left - 1) + 1 = left
      BY <2>2
    <3> QED
      BY <1>3, <1>5, <3>1
  <2> QED
    BY <2>1, <2>2
<1>7. Collect(g, limits) =
        [left \in Nat |-> CollectLevel(g, limits, left, Collect(g, limits)[left - 1])]
  <2>1. \E f : f = [left \in Nat |-> CollectLevel(g, limits, left, f[left - 1])]
    BY <1>6
  <2> QED
    BY <2>1, Zenon DEF Collect, CollectLevel
<1>8. \A left \in Nat :
        Collect(g, limits)[left] = CollectLevel(g, limits, left, Collect(g, limits)[left - 1])
  BY <1>7
<1>9. \A left \in Nat : Collect(g, limits)[left] \in Collections
  <2> DEFINE S == {left \in Nat : Collect(g, limits)[left] \in Collections}
  <2>1. ASSUME NEW left \in Nat, left # 0 => left - 1 \in S PROVE left \in S
    BY <1>1, <1>4, <1>8, <2>1
  <2> HIDE DEF S
  <2>2. Nat \subseteq S
    BY <2>1, LevelInduction
  <2> QED
    BY <2>2 DEF S
<1> QED
  BY <1>7, <1>8, <1>9

(* What _describe and _collect_leaves return of a node, and of the i-th    *)
(* item of a container one level down.  A container is entered when it is  *)
(* not too deep and not met again.  These names keep the functions they    *)
(* stand for out of sight of the provers.                                  *)
Chains == SUBSET Nodes
KindOf(g, n) == g.kind[n]
KeptOf(g, limits, n) == Kept(g, n, limits.items)
ShownOf(g, limits, n) == Shown(g, n, limits.items)
OmittedOf(g, limits, n) == Omitted(g, n, limits.items)
Described(g, limits, left, n, seen) == Describe(g, limits)[left][n][seen]
Collected(g, limits, left, n, seen) == Collect(g, limits)[left][n][seen]
ItemOf(g, n, i) == g.items[n][i]
DescribedItem(g, limits, left, n, seen, i) ==
  Described(g, limits, left - 1, ItemOf(g, n, i), seen \cup {n})
CollectedItem(g, limits, left, n, seen, i) ==
  Collected(g, limits, left - 1, ItemOf(g, n, i), seen \cup {n})
Entered(g, n, seen, left) == KindOf(g, n) \in Containers /\ left # 0 /\ n \notin seen

(* _describe of a node is its body over the levels below.                  *)
LEMMA DescribedNode ==
  ASSUME NEW g, NEW limits, Bounded(g, limits), NEW n \in Nodes, NEW seen \in Chains, NEW left \in Nat
  PROVE  Described(g, limits, left, n, seen) =
           DescribeNode(g, limits, n, seen, left, Describe(g, limits)[left - 1])
<1>1. Describe(g, limits)[left] = DescribeLevel(g, limits, left, Describe(g, limits)[left - 1])
  BY DescribeRecursion
<1>2. DescribeLevel(g, limits, left, Describe(g, limits)[left - 1])[n][seen] =
        DescribeNode(g, limits, n, seen, left, Describe(g, limits)[left - 1])
  BY DEF DescribeLevel, Chains
<1> QED
  BY <1>1, <1>2 DEF Described

(* _collect_leaves of a node is its body over the levels below.            *)
LEMMA CollectedNode ==
  ASSUME NEW g, NEW limits, Bounded(g, limits), NEW n \in Nodes, NEW seen \in Chains, NEW left \in Nat
  PROVE  Collected(g, limits, left, n, seen) =
           CollectNode(g, limits, n, seen, left, Collect(g, limits)[left - 1])
<1>1. Collect(g, limits)[left] = CollectLevel(g, limits, left, Collect(g, limits)[left - 1])
  BY CollectRecursion
<1>2. CollectLevel(g, limits, left, Collect(g, limits)[left - 1])[n][seen] =
        CollectNode(g, limits, n, seen, left, Collect(g, limits)[left - 1])
  BY DEF CollectLevel, Chains
<1> QED
  BY <1>1, <1>2 DEF Collected

(* What stands for a node that is not entered.                             *)
Atom(what, why) == Found({Place(<<>>, what)}, why)

(* A node that is not entered is told as one place, by its kind.           *)
LEMMA DescribeCases ==
  ASSUME NEW g, NEW limits, Bounded(g, limits), NEW n \in Nodes, NEW seen \in Chains, NEW left \in Nat,
         ~Entered(g, n, seen, left)
  PROVE  \/ KindOf(g, n) \in Tensors /\ Described(g, limits, left, n, seen) = Atom(n, {})
         \/ KindOf(g, n) = "number" /\ Described(g, limits, left, n, seen) = Atom("number", {})
         \/ /\ KindOf(g, n) = "long_string"
            /\ Described(g, limits, left, n, seen) = Atom("cut", {"string_length"})
         \/ /\ KindOf(g, n) \in Containers \cup {"object"} /\ left = 0
            /\ Described(g, limits, left, n, seen) = Atom("truncated", {"max_depth"})
         \/ /\ KindOf(g, n) = "object" /\ left # 0
            /\ Described(g, limits, left, n, seen) = Atom("object", {})
         \/ /\ KindOf(g, n) \in Containers /\ n \in seen /\ left # 0
            /\ Described(g, limits, left, n, seen) = Atom("cycle", {})
<1>1. g.kind[n] \in Kinds
  BY DEF Bounded
<1>2. Described(g, limits, left, n, seen) =
        DescribeNode(g, limits, n, seen, left, Describe(g, limits)[left - 1])
  BY DescribedNode
<1> QED
  BY <1>1, <1>2
  DEF DescribeNode, Atom, TooDeep, Entered, KindOf, Kinds, Scalars, Containers, Tensors

(* A node that is not entered is a leaf or leaves nothing.                 *)
LEMMA CollectCases ==
  ASSUME NEW g, NEW limits, Bounded(g, limits), NEW n \in Nodes, NEW seen \in Chains, NEW left \in Nat,
         ~Entered(g, n, seen, left)
  PROVE  \/ KindOf(g, n) \in Tensors /\ Collected(g, limits, left, n, seen) = Found({Leaf(<<>>, <<>>, n)}, {})
         \/ /\ KindOf(g, n) \in Containers /\ left = 0
            /\ Collected(g, limits, left, n, seen) = Found({}, {"max_depth"})
         \/ /\ KindOf(g, n) \notin Tensors /\ (KindOf(g, n) \in Containers => n \in seen /\ left # 0)
            /\ Collected(g, limits, left, n, seen) = Found({}, {})
  BY CollectedNode DEF CollectNode, TooDeep, Entered, KindOf, Containers, Tensors

(* A container that is entered.                                            *)
LEMMA EnteredDescription ==
  ASSUME NEW g, NEW limits, Bounded(g, limits), NEW n \in Nodes, NEW seen \in Chains, NEW left \in Nat,
         Entered(g, n, seen, left)
  PROVE  \E what, why :
           /\ Described(g, limits, left, n, seen) = [what |-> what, why |-> why]
           /\ \A p : p \in what <=>
                \/ p = Place(<<>>, "container")
                \/ \E i \in ShownOf(g, limits, n) :
                     p \in Under(KeyText(g, n, i), DescribedItem(g, limits, left, n, seen, i).what)
                \/ OmittedOf(g, limits, n) /\ p = Place(<<0>>, "omitted")
           /\ \A r : r \in why <=>
                \/ \E i \in KeptOf(g, limits, n) : r \in DescribedItem(g, limits, left, n, seen, i).why
                \/ OmittedOf(g, limits, n) /\ r = "max_items"
<1>1. Described(g, limits, left, n, seen) =
        DescribeItems(g, limits, n, seen, Describe(g, limits)[left - 1])
  <2>1. Described(g, limits, left, n, seen) =
          DescribeNode(g, limits, n, seen, left, Describe(g, limits)[left - 1])
    BY DescribedNode
  <2>2. DescribeNode(g, limits, n, seen, left, Describe(g, limits)[left - 1]) =
          DescribeItems(g, limits, n, seen, Describe(g, limits)[left - 1])
    BY DEF DescribeNode, TooDeep, Entered, KindOf, Scalars, Containers, Tensors
  <2> QED
    BY <2>1, <2>2
<1>2. \A i : OfItem(g, n, seen, Describe(g, limits)[left - 1], i) =
               DescribedItem(g, limits, left, n, seen, i)
  BY Zenon DEF OfItem, DescribedItem, Described, ItemOf
<1>3. PICK what, why :
        /\ DescribeItems(g, limits, n, seen, Describe(g, limits)[left - 1]) =
             [what |-> what, why |-> why]
        /\ \A p : p \in what <=>
             \/ p = Place(<<>>, "container")
             \/ \E i \in Shown(g, n, limits.items) :
                  p \in PlacesAt(g, n, seen, Describe(g, limits)[left - 1], i)
             \/ Omitted(g, n, limits.items) /\ p = Place(<<0>>, "omitted")
        /\ \A r : r \in why <=>
             \/ \E i \in Kept(g, n, limits.items) :
                  r \in OfItem(g, n, seen, Describe(g, limits)[left - 1], i).why
             \/ Omitted(g, n, limits.items) /\ r = "max_items"
  BY DescribeItemsFacts, Zenon
<1>4. \A i : PlacesAt(g, n, seen, Describe(g, limits)[left - 1], i) =
               Under(KeyText(g, n, i), DescribedItem(g, limits, left, n, seen, i).what)
  BY <1>2, Zenon DEF PlacesAt
<1>5. \A p : p \in what <=>
        \/ p = Place(<<>>, "container")
        \/ \E i \in ShownOf(g, limits, n) :
             p \in Under(KeyText(g, n, i), DescribedItem(g, limits, left, n, seen, i).what)
        \/ OmittedOf(g, limits, n) /\ p = Place(<<0>>, "omitted")
  BY <1>3, <1>4, Zenon DEF ShownOf, OmittedOf
<1>6. \A r : r \in why <=>
        \/ \E i \in KeptOf(g, limits, n) : r \in DescribedItem(g, limits, left, n, seen, i).why
        \/ OmittedOf(g, limits, n) /\ r = "max_items"
  BY <1>2, <1>3, Zenon DEF KeptOf, OmittedOf
<1> QED
  BY <1>1, <1>3, <1>5, <1>6, Zenon

(* The leaves of a container that is entered are its items'.               *)
LEMMA EnteredCollection ==
  ASSUME NEW g, NEW limits, Bounded(g, limits), NEW n \in Nodes, NEW seen \in Chains, NEW left \in Nat,
         Entered(g, n, seen, left)
  PROVE  \E what, why :
           /\ Collected(g, limits, left, n, seen) = [what |-> what, why |-> why]
           /\ \A l : l \in what <=>
                \E i \in KeptOf(g, limits, n) :
                  l \in LeavesUnder(i, KeyText(g, n, i), CollectedItem(g, limits, left, n, seen, i).what)
           /\ \A r : r \in why <=>
                \/ \E i \in KeptOf(g, limits, n) : r \in CollectedItem(g, limits, left, n, seen, i).why
                \/ OmittedOf(g, limits, n) /\ r = "max_items"
<1>1. Collected(g, limits, left, n, seen) =
        CollectItems(g, limits, n, seen, Collect(g, limits)[left - 1])
  <2>1. Collected(g, limits, left, n, seen) =
          CollectNode(g, limits, n, seen, left, Collect(g, limits)[left - 1])
    BY CollectedNode
  <2>2. CollectNode(g, limits, n, seen, left, Collect(g, limits)[left - 1]) =
          CollectItems(g, limits, n, seen, Collect(g, limits)[left - 1])
    BY DEF CollectNode, TooDeep, Entered, KindOf, Containers, Tensors
  <2> QED
    BY <2>1, <2>2
<1>2. \A i : OfItem(g, n, seen, Collect(g, limits)[left - 1], i) =
               CollectedItem(g, limits, left, n, seen, i)
  BY Zenon DEF OfItem, CollectedItem, Collected, ItemOf
<1>3. PICK what, why :
        /\ CollectItems(g, limits, n, seen, Collect(g, limits)[left - 1]) =
             [what |-> what, why |-> why]
        /\ \A l : l \in what <=>
             \E i \in Kept(g, n, limits.items) :
               l \in LeavesAt(g, n, seen, Collect(g, limits)[left - 1], i)
        /\ \A r : r \in why <=>
             \/ \E i \in Kept(g, n, limits.items) :
                  r \in OfItem(g, n, seen, Collect(g, limits)[left - 1], i).why
             \/ Omitted(g, n, limits.items) /\ r = "max_items"
  BY CollectItemsFacts, Zenon
<1>4. \A i : LeavesAt(g, n, seen, Collect(g, limits)[left - 1], i) =
               LeavesUnder(i, KeyText(g, n, i), CollectedItem(g, limits, left, n, seen, i).what)
  BY <1>2, Zenon DEF LeavesAt
<1>5. \A l : l \in what <=>
        \E i \in KeptOf(g, limits, n) :
          l \in LeavesUnder(i, KeyText(g, n, i), CollectedItem(g, limits, left, n, seen, i).what)
  BY <1>3, <1>4, Zenon DEF KeptOf
<1>6. \A r : r \in why <=>
        \/ \E i \in KeptOf(g, limits, n) : r \in CollectedItem(g, limits, left, n, seen, i).why
        \/ OmittedOf(g, limits, n) /\ r = "max_items"
  BY <1>2, <1>3, Zenon DEF KeptOf, OmittedOf
<1> QED
  BY <1>1, <1>3, <1>5, <1>6, Zenon

(* The items of a container are nodes, one step further down.              *)
LEMMA ItemFacts ==
  ASSUME NEW g, NEW limits, Bounded(g, limits), NEW n \in Nodes, NEW seen \in Chains, NEW left \in Nat,
         Entered(g, n, seen, left), NEW i \in KeptOf(g, limits, n)
  PROVE  /\ ItemOf(g, n, i) \in Nodes /\ seen \cup {n} \in Chains /\ left - 1 \in Nat /\ left # 0
         /\ i \in Nat
  BY KeptType DEF Entered, Chains, ItemOf, KeptOf

(* No two keys of a container print alike, unless it is a clashing mapping. *)
LEMMA ShownIsKept ==
  ASSUME NEW g, NEW limits, Bounded(g, limits), NEW n \in Nodes
  PROVE  /\ ShownOf(g, limits, n) \subseteq KeptOf(g, limits, n)
         /\ NoClash(g) => ShownOf(g, limits, n) = KeptOf(g, limits, n)
<1>1. NoClash(g) => \A i : KeyText(g, n, i) = i
  BY DEF NoClash, KeyText
<1>2. Kept(g, n, limits.items) \subseteq Nat
  BY KeptType
<1> QED
  BY <1>1, <1>2 DEF Shown, ShownOf, KeptOf

-----------------------------------------------------------------------------
(***************************************************************************)
(* The two traversals find the same tensors.                               *)
(***************************************************************************)

(* What is said of one node: d describes it, c is collected from it.       *)
Correlated(g, d, c) ==
  /\ \A p \in d.what : p.what \in TensorNodes(g) => p \in PlacesOf(c.what)
  /\ NoClash(g) => \A l \in c.what : Place(l.path, l.what) \in d.what
  /\ \A l \in c.what : l.what \in TensorNodes(g)

CorrelatedAt(g, limits, left) ==
  \A n \in Nodes, seen \in Chains :
    Correlated(g, Described(g, limits, left, n, seen), Collected(g, limits, left, n, seen))

(* A container correlates when each of its items does.                     *)
LEMMA ItemsCorrelate ==
  ASSUME NEW g, NEW limits, Bounded(g, limits), NEW n \in Nodes, NEW seen \in Chains, NEW left \in Nat,
         Entered(g, n, seen, left), CorrelatedAt(g, limits, left - 1)
  PROVE  Correlated(g, Described(g, limits, left, n, seen), Collected(g, limits, left, n, seen))
<1>1. PICK what, why :
        /\ Described(g, limits, left, n, seen) = [what |-> what, why |-> why]
        /\ \A p : p \in what <=>
             \/ p = Place(<<>>, "container")
             \/ \E i \in ShownOf(g, limits, n) :
                  p \in Under(KeyText(g, n, i), DescribedItem(g, limits, left, n, seen, i).what)
             \/ OmittedOf(g, limits, n) /\ p = Place(<<0>>, "omitted")
  BY EnteredDescription, Zenon
<1>2. PICK leaves, bounds :
        /\ Collected(g, limits, left, n, seen) = [what |-> leaves, why |-> bounds]
        /\ \A l : l \in leaves <=>
             \E i \in KeptOf(g, limits, n) :
               l \in LeavesUnder(i, KeyText(g, n, i), CollectedItem(g, limits, left, n, seen, i).what)
  BY EnteredCollection, Zenon
<1>3. ASSUME NEW i \in KeptOf(g, limits, n)
      PROVE  Correlated(g, DescribedItem(g, limits, left, n, seen, i),
                        CollectedItem(g, limits, left, n, seen, i))
  <2>1. ItemOf(g, n, i) \in Nodes /\ seen \cup {n} \in Chains
    BY ItemFacts
  <2> QED
    BY <2>1, Zenon DEF CorrelatedAt, DescribedItem, CollectedItem
<1>4. ASSUME NEW p \in what, p.what \in TensorNodes(g) PROVE p \in PlacesOf(leaves)
  <2>1. PICK i \in ShownOf(g, limits, n) :
          p \in Under(KeyText(g, n, i), DescribedItem(g, limits, left, n, seen, i).what)
    BY <1>1, <1>4, PayloadAssumption DEF Place, TensorNodes, Told
  <2>2. i \in KeptOf(g, limits, n)
    BY <2>1, ShownIsKept
  <2>3. PICK q \in DescribedItem(g, limits, left, n, seen, i).what :
          p = Place(<<KeyText(g, n, i)>> \o q.path, q.what)
    BY <2>1, Zenon DEF Under
  <2>4. q.what = p.what
    BY <2>3 DEF Place
  <2>5. PICK l \in CollectedItem(g, limits, left, n, seen, i).what : q = Place(l.path, l.what)
    BY <1>3, <1>4, <2>2, <2>3, <2>4 DEF Correlated, PlacesOf
  <2> DEFINE k == Leaf(<<i>> \o l.at, <<KeyText(g, n, i)>> \o l.path, l.what)
  <2>6. k \in leaves
    BY <1>2, <2>2, <2>5, Zenon DEF LeavesUnder
  <2>7. p = Place(k.path, k.what)
    BY <2>3, <2>5 DEF Place, Leaf
  <2> QED
    BY <2>6, <2>7, Zenon DEF PlacesOf
<1>5. ASSUME NEW l \in leaves
      PROVE  /\ l.what \in TensorNodes(g)
             /\ NoClash(g) => Place(l.path, l.what) \in what
  <2>1. PICK i \in KeptOf(g, limits, n) :
          l \in LeavesUnder(i, KeyText(g, n, i), CollectedItem(g, limits, left, n, seen, i).what)
    BY <1>2, <1>5
  <2>2. PICK m \in CollectedItem(g, limits, left, n, seen, i).what :
          l = Leaf(<<i>> \o m.at, <<KeyText(g, n, i)>> \o m.path, m.what)
    BY <2>1, Zenon DEF LeavesUnder
  <2>3. l.what = m.what /\ l.path = <<KeyText(g, n, i)>> \o m.path
    BY <2>2 DEF Leaf
  <2>4. ASSUME NoClash(g) PROVE Place(l.path, l.what) \in what
    <3>1. Place(m.path, m.what) \in DescribedItem(g, limits, left, n, seen, i).what
      BY <1>3, <2>1, <2>2, <2>4 DEF Correlated
    <3>2. Place(m.path, m.what).path = m.path /\ Place(m.path, m.what).what = m.what
      BY DEF Place
    <3>3. Place(l.path, l.what) \in Under(KeyText(g, n, i), DescribedItem(g, limits, left, n, seen, i).what)
      BY <2>3, <3>1, <3>2, Zenon DEF Under
    <3>4. i \in ShownOf(g, limits, n)
      BY <2>1, <2>4, ShownIsKept
    <3> QED
      BY <1>1, <3>3, <3>4
  <2>5. m.what \in TensorNodes(g)
    BY <1>3, <2>1, <2>2 DEF Correlated
  <2> QED
    BY <2>3, <2>4, <2>5
<1> QED
  BY <1>1, <1>2, <1>4, <1>5 DEF Correlated

(* Every node correlates, on every level.                                  *)
LEMMA Correlation ==
  ASSUME NEW g, NEW limits, Bounded(g, limits), NEW left \in Nat
  PROVE  CorrelatedAt(g, limits, left)
<1>1. ASSUME NEW l \in Nat, l # 0 => CorrelatedAt(g, limits, l - 1), NEW n \in Nodes, NEW seen \in Chains
      PROVE  Correlated(g, Described(g, limits, l, n, seen), Collected(g, limits, l, n, seen))
  <2>1. CASE Entered(g, n, seen, l)
    BY <1>1, <2>1, ItemsCorrelate DEF Entered
  <2>2. CASE ~Entered(g, n, seen, l) /\ KindOf(g, n) \in Tensors
    <3>1. Described(g, limits, l, n, seen) = Atom(n, {})
      BY <2>2, DescribeCases DEF Tensors, Containers
    <3>2. Collected(g, limits, l, n, seen) = Found({Leaf(<<>>, <<>>, n)}, {})
      BY <2>2, CollectCases DEF Tensors, Containers
    <3>3. n \in TensorNodes(g)
      BY <2>2 DEF TensorNodes, KindOf
    <3> QED
      BY <3>1, <3>2, <3>3 DEF Correlated, Atom, Found, Place, Leaf, PlacesOf
  <2>3. CASE ~Entered(g, n, seen, l) /\ KindOf(g, n) \notin Tensors
    <3>1. Collected(g, limits, l, n, seen).what = {}
      BY <2>3, CollectCases DEF Found
    <3>2. PICK told, why : told \in Told /\ Described(g, limits, l, n, seen) = Atom(told, why)
      BY <2>3, DescribeCases DEF Told
    <3>3. told \notin TensorNodes(g)
      BY <3>2, PayloadAssumption DEF TensorNodes
    <3> QED
      BY <3>1, <3>2, <3>3 DEF Correlated, Atom, Found, Place
  <2> QED
    BY <2>1, <2>2, <2>3
<1> DEFINE S == {l \in Nat : CorrelatedAt(g, limits, l)}
<1>2. ASSUME NEW l \in Nat, l # 0 => l - 1 \in S PROVE l \in S
  <2>1. l # 0 => CorrelatedAt(g, limits, l - 1)
    BY <1>2
  <2>2. CorrelatedAt(g, limits, l)
    BY <1>1, <2>1 DEF CorrelatedAt
  <2> QED
    BY <2>2
<1> HIDE DEF S
<1>3. Nat \subseteq S
  BY <1>2, LevelInduction
<1> QED
  BY <1>3 DEF S

-----------------------------------------------------------------------------
(***************************************************************************)
(* A traversal that hits no bound is not changed by more generous ones.    *)
(***************************************************************************)

(* With at least as many levels left, and bounds that keep as many items.  *)
SameAt(g, limits, wide, left) ==
  \A n \in Nodes, seen \in Chains, more \in Nat : left <= more =>
    /\ Described(g, limits, left, n, seen).why \subseteq {"string_length"} =>
         Described(g, wide, more, n, seen) = Described(g, limits, left, n, seen)
    /\ Collected(g, limits, left, n, seen).why = {} =>
         Collected(g, wide, more, n, seen) = Collected(g, limits, left, n, seen)

(* Then no item is left out by those bounds either.                        *)
LEMMA NoneOmitted ==
  ASSUME NEW g, NEW limits, NEW wide, Bounded(g, limits), Bounded(g, wide), limits.items <= wide.items,
         NEW n \in Nodes, ~OmittedOf(g, limits, n)
  PROVE  /\ ~OmittedOf(g, wide, n) /\ KeptOf(g, wide, n) = KeptOf(g, limits, n)
         /\ ShownOf(g, wide, n) = ShownOf(g, limits, n)
<1>1. ~OmittedOf(g, wide, n)
  BY DEF OmittedOf, Omitted, Bounded
<1>2. Kept(g, n, wide.items) = Kept(g, n, limits.items)
  BY <1>1 DEF OmittedOf, Omitted, Kept, Bounded
<1>3. Shown(g, n, wide.items) = Shown(g, n, limits.items)
  BY <1>2, Zenon DEF Shown
<1> QED
  BY <1>1, <1>2, <1>3 DEF KeptOf, ShownOf

(* A container is the same when each of its items is.                      *)
LEMMA SameDescription ==
  ASSUME NEW g, NEW limits, NEW wide, Bounded(g, limits), Bounded(g, wide), limits.items <= wide.items,
         NEW n \in Nodes, NEW seen \in Chains, NEW left \in Nat, NEW more \in Nat, left <= more,
         Entered(g, n, seen, left), SameAt(g, limits, wide, left - 1),
         Described(g, limits, left, n, seen).why \subseteq {"string_length"}
  PROVE  Described(g, wide, more, n, seen) = Described(g, limits, left, n, seen)
<1>1. Entered(g, n, seen, more)
  BY DEF Entered
<1>2. PICK what, why :
        /\ Described(g, limits, left, n, seen) = [what |-> what, why |-> why]
        /\ \A p : p \in what <=>
             \/ p = Place(<<>>, "container")
             \/ \E i \in ShownOf(g, limits, n) :
                  p \in Under(KeyText(g, n, i), DescribedItem(g, limits, left, n, seen, i).what)
             \/ OmittedOf(g, limits, n) /\ p = Place(<<0>>, "omitted")
        /\ \A r : r \in why <=>
             \/ \E i \in KeptOf(g, limits, n) : r \in DescribedItem(g, limits, left, n, seen, i).why
             \/ OmittedOf(g, limits, n) /\ r = "max_items"
  BY EnteredDescription, Zenon
<1>3. PICK what2, why2 :
        /\ Described(g, wide, more, n, seen) = [what |-> what2, why |-> why2]
        /\ \A p : p \in what2 <=>
             \/ p = Place(<<>>, "container")
             \/ \E i \in ShownOf(g, wide, n) :
                  p \in Under(KeyText(g, n, i), DescribedItem(g, wide, more, n, seen, i).what)
             \/ OmittedOf(g, wide, n) /\ p = Place(<<0>>, "omitted")
        /\ \A r : r \in why2 <=>
             \/ \E i \in KeptOf(g, wide, n) : r \in DescribedItem(g, wide, more, n, seen, i).why
             \/ OmittedOf(g, wide, n) /\ r = "max_items"
  BY <1>1, EnteredDescription, Zenon
<1>4. why \subseteq {"string_length"}
  BY <1>2
<1>5. ~OmittedOf(g, limits, n)
  BY <1>2, <1>4
<1>6. /\ ~OmittedOf(g, wide, n) /\ KeptOf(g, wide, n) = KeptOf(g, limits, n)
      /\ ShownOf(g, wide, n) = ShownOf(g, limits, n)
  BY <1>5, NoneOmitted
<1>7. ASSUME NEW i \in KeptOf(g, limits, n)
      PROVE  DescribedItem(g, wide, more, n, seen, i) = DescribedItem(g, limits, left, n, seen, i)
  <2>1. /\ ItemOf(g, n, i) \in Nodes /\ seen \cup {n} \in Chains /\ left - 1 \in Nat
        /\ more - 1 \in Nat /\ left - 1 <= more - 1
    BY ItemFacts
  <2>2. DescribedItem(g, limits, left, n, seen, i).why \subseteq {"string_length"}
    BY <1>2, <1>4
  <2> QED
    BY <2>1, <2>2, Zenon DEF SameAt, DescribedItem
<1>8. \A i \in ShownOf(g, limits, n) :
        DescribedItem(g, wide, more, n, seen, i) = DescribedItem(g, limits, left, n, seen, i)
  BY <1>7, ShownIsKept
<1>9. what2 = what
  <2>1. \A p : p \in what2 <=> p \in what
    BY <1>2, <1>3, <1>5, <1>6, <1>8, Zenon
  <2> QED
    BY <2>1
<1>10. why2 = why
  <2>1. \A r : r \in why2 <=> r \in why
    BY <1>2, <1>3, <1>5, <1>6, <1>7, Zenon
  <2> QED
    BY <2>1
<1> QED
  BY <1>2, <1>3, <1>9, <1>10

(* The leaves of a container are the same when each item's are.            *)
LEMMA SameCollection ==
  ASSUME NEW g, NEW limits, NEW wide, Bounded(g, limits), Bounded(g, wide), limits.items <= wide.items,
         NEW n \in Nodes, NEW seen \in Chains, NEW left \in Nat, NEW more \in Nat, left <= more,
         Entered(g, n, seen, left), SameAt(g, limits, wide, left - 1),
         Collected(g, limits, left, n, seen).why = {}
  PROVE  Collected(g, wide, more, n, seen) = Collected(g, limits, left, n, seen)
<1>1. Entered(g, n, seen, more)
  BY DEF Entered
<1>2. PICK what, why :
        /\ Collected(g, limits, left, n, seen) = [what |-> what, why |-> why]
        /\ \A l : l \in what <=>
             \E i \in KeptOf(g, limits, n) :
               l \in LeavesUnder(i, KeyText(g, n, i), CollectedItem(g, limits, left, n, seen, i).what)
        /\ \A r : r \in why <=>
             \/ \E i \in KeptOf(g, limits, n) : r \in CollectedItem(g, limits, left, n, seen, i).why
             \/ OmittedOf(g, limits, n) /\ r = "max_items"
  BY EnteredCollection
<1>3. PICK what2, why2 :
        /\ Collected(g, wide, more, n, seen) = [what |-> what2, why |-> why2]
        /\ \A l : l \in what2 <=>
             \E i \in KeptOf(g, wide, n) :
               l \in LeavesUnder(i, KeyText(g, n, i), CollectedItem(g, wide, more, n, seen, i).what)
        /\ \A r : r \in why2 <=>
             \/ \E i \in KeptOf(g, wide, n) : r \in CollectedItem(g, wide, more, n, seen, i).why
             \/ OmittedOf(g, wide, n) /\ r = "max_items"
  BY <1>1, EnteredCollection
<1>4. why = {}
  BY <1>2
<1>5. ~OmittedOf(g, limits, n)
  BY <1>2, <1>4
<1>6. /\ ~OmittedOf(g, wide, n) /\ KeptOf(g, wide, n) = KeptOf(g, limits, n)
  BY <1>5, NoneOmitted
<1>7. ASSUME NEW i \in KeptOf(g, limits, n)
      PROVE  CollectedItem(g, wide, more, n, seen, i) = CollectedItem(g, limits, left, n, seen, i)
  <2>1. /\ ItemOf(g, n, i) \in Nodes /\ seen \cup {n} \in Chains /\ left - 1 \in Nat
        /\ more - 1 \in Nat /\ left - 1 <= more - 1
    BY ItemFacts
  <2>2. CollectedItem(g, limits, left, n, seen, i).why = {}
    BY <1>2, <1>4
  <2> QED
    BY <2>1, <2>2, Zenon DEF SameAt, CollectedItem
<1>8. what2 = what
  <2>1. \A l : l \in what2 <=> l \in what
    BY <1>2, <1>3, <1>6, <1>7, Zenon
  <2> QED
    BY <2>1
<1>9. why2 = why
  <2>1. \A r : r \in why2 <=> r \in why
    BY <1>2, <1>3, <1>5, <1>6, <1>7
  <2> QED
    BY <2>1
<1> QED
  BY <1>2, <1>3, <1>8, <1>9

(* So is every node, on every level.                                       *)
LEMMA Sameness ==
  ASSUME NEW g, NEW limits, NEW wide, Bounded(g, limits), Bounded(g, wide), limits.items <= wide.items,
         NEW left \in Nat
  PROVE  SameAt(g, limits, wide, left)
<1>1. ASSUME NEW l \in Nat, l # 0 => SameAt(g, limits, wide, l - 1),
             NEW n \in Nodes, NEW seen \in Chains, NEW more \in Nat, l <= more
      PROVE  /\ Described(g, limits, l, n, seen).why \subseteq {"string_length"} =>
                  Described(g, wide, more, n, seen) = Described(g, limits, l, n, seen)
             /\ Collected(g, limits, l, n, seen).why = {} =>
                  Collected(g, wide, more, n, seen) = Collected(g, limits, l, n, seen)
  <2>1. CASE Entered(g, n, seen, l)
    <3>1. SameAt(g, limits, wide, l - 1)
      BY <1>1, <2>1 DEF Entered
    <3>2. Described(g, limits, l, n, seen).why \subseteq {"string_length"} =>
            Described(g, wide, more, n, seen) = Described(g, limits, l, n, seen)
      BY <1>1, <2>1, <3>1, SameDescription
    <3>3. Collected(g, limits, l, n, seen).why = {} =>
            Collected(g, wide, more, n, seen) = Collected(g, limits, l, n, seen)
      BY <1>1, <2>1, <3>1, SameCollection
    <3> QED
      BY <3>2, <3>3
  <2>2. CASE ~Entered(g, n, seen, l)
    <3>1. ASSUME Described(g, limits, l, n, seen).why \subseteq {"string_length"}
          PROVE  Described(g, wide, more, n, seen) = Described(g, limits, l, n, seen)
      <4>1. Described(g, limits, l, n, seen) # Atom("truncated", {"max_depth"})
        BY <3>1 DEF Atom, Found
      <4>2. \/ KindOf(g, n) \in Tensors /\ Described(g, limits, l, n, seen) = Atom(n, {})
            \/ KindOf(g, n) = "number" /\ Described(g, limits, l, n, seen) = Atom("number", {})
            \/ /\ KindOf(g, n) = "long_string"
               /\ Described(g, limits, l, n, seen) = Atom("cut", {"string_length"})
            \/ /\ KindOf(g, n) = "object" /\ l # 0
               /\ Described(g, limits, l, n, seen) = Atom("object", {})
            \/ /\ KindOf(g, n) \in Containers /\ n \in seen /\ l # 0
               /\ Described(g, limits, l, n, seen) = Atom("cycle", {})
        BY <2>2, <4>1, DescribeCases
      <4>3. ~Entered(g, n, seen, more) /\ (l # 0 => more # 0)
        BY <1>1, <2>2, <4>2 DEF Entered, Containers, Tensors
      <4>4. \/ KindOf(g, n) \in Tensors /\ Described(g, wide, more, n, seen) = Atom(n, {})
            \/ KindOf(g, n) = "number" /\ Described(g, wide, more, n, seen) = Atom("number", {})
            \/ /\ KindOf(g, n) = "long_string"
               /\ Described(g, wide, more, n, seen) = Atom("cut", {"string_length"})
            \/ KindOf(g, n) \in Containers \cup {"object"} /\ more = 0
            \/ /\ KindOf(g, n) = "object" /\ more # 0
               /\ Described(g, wide, more, n, seen) = Atom("object", {})
            \/ /\ KindOf(g, n) \in Containers /\ n \in seen /\ more # 0
               /\ Described(g, wide, more, n, seen) = Atom("cycle", {})
        BY <4>3, DescribeCases
      <4> QED
        BY <4>2, <4>3, <4>4 DEF Containers, Tensors
    <3>2. ASSUME Collected(g, limits, l, n, seen).why = {}
          PROVE  Collected(g, wide, more, n, seen) = Collected(g, limits, l, n, seen)
      <4>1. Collected(g, limits, l, n, seen) # Found({}, {"max_depth"})
        BY <3>2 DEF Found
      <4>2. KindOf(g, n) \in Containers => n \in seen /\ l # 0
        BY <2>2, <4>1, CollectCases DEF Containers, Tensors
      <4>3. ~Entered(g, n, seen, more)
        BY <4>2 DEF Entered
      <4>4. \/ KindOf(g, n) \in Tensors /\ Collected(g, limits, l, n, seen) = Found({Leaf(<<>>, <<>>, n)}, {})
            \/ KindOf(g, n) \notin Tensors /\ Collected(g, limits, l, n, seen) = Found({}, {})
        BY <2>2, <4>1, <4>2, CollectCases DEF Containers, Tensors
      <4>5. \/ KindOf(g, n) \in Tensors /\ Collected(g, wide, more, n, seen) = Found({Leaf(<<>>, <<>>, n)}, {})
            \/ KindOf(g, n) \in Containers /\ more = 0
            \/ KindOf(g, n) \notin Tensors /\ Collected(g, wide, more, n, seen) = Found({}, {})
        BY <4>3, CollectCases
      <4>6. KindOf(g, n) \in Containers => more # 0
        BY <1>1, <4>2
      <4> QED
        BY <4>4, <4>5, <4>6
    <3> QED
      BY <3>1, <3>2
  <2> QED
    BY <2>1, <2>2
<1> DEFINE S == {l \in Nat : SameAt(g, limits, wide, l)}
<1>2. ASSUME NEW l \in Nat, l # 0 => l - 1 \in S PROVE l \in S
  <2>1. l # 0 => SameAt(g, limits, wide, l - 1)
    BY <1>2
  <2>2. SameAt(g, limits, wide, l)
    BY <1>1, <2>1 DEF SameAt
  <2> QED
    BY <2>2
<1> HIDE DEF S
<1>3. Nat \subseteq S
  BY <1>2, LevelInduction
<1> QED
  BY <1>3 DEF S

-----------------------------------------------------------------------------
(***************************************************************************)
(* A description says at which of its places a bound was hit.              *)
(***************************************************************************)
HasMark(d, mark) == \E p \in d.what : p.what = mark

Marked(g, d) ==
  /\ HasMark(d, "omitted") => "max_items" \in d.why
  /\ HasMark(d, "truncated") => "max_depth" \in d.why
  /\ NoClash(g) => \A r \in d.why : \/ r = "max_items" /\ HasMark(d, "omitted")
                                    \/ r = "max_depth" /\ HasMark(d, "truncated")
                                    \/ r = "string_length" /\ HasMark(d, "cut")

MarkedAt(g, limits, left) ==
  \A n \in Nodes, seen \in Chains : Marked(g, Described(g, limits, left, n, seen))

(* A container's description does when those of its items do.              *)
LEMMA ItemsMarked ==
  ASSUME NEW g, NEW limits, Bounded(g, limits), NEW n \in Nodes, NEW seen \in Chains, NEW left \in Nat,
         Entered(g, n, seen, left), MarkedAt(g, limits, left - 1)
  PROVE  Marked(g, Described(g, limits, left, n, seen))
<1>1. PICK what, why :
        /\ Described(g, limits, left, n, seen) = [what |-> what, why |-> why]
        /\ \A p : p \in what <=>
             \/ p = Place(<<>>, "container")
             \/ \E i \in ShownOf(g, limits, n) :
                  p \in Under(KeyText(g, n, i), DescribedItem(g, limits, left, n, seen, i).what)
             \/ OmittedOf(g, limits, n) /\ p = Place(<<0>>, "omitted")
        /\ \A r : r \in why <=>
             \/ \E i \in KeptOf(g, limits, n) : r \in DescribedItem(g, limits, left, n, seen, i).why
             \/ OmittedOf(g, limits, n) /\ r = "max_items"
  BY EnteredDescription, Zenon
<1> DEFINE d == [what |-> what, why |-> why]
<1>2. d.what = what /\ d.why = why
  OBVIOUS
<1>3. ASSUME NEW i \in KeptOf(g, limits, n)
      PROVE  Marked(g, DescribedItem(g, limits, left, n, seen, i))
  <2>1. ItemOf(g, n, i) \in Nodes /\ seen \cup {n} \in Chains
    BY ItemFacts
  <2> QED
    BY <2>1, Zenon DEF MarkedAt, DescribedItem
<1>4. ASSUME NEW mark \in {"omitted", "truncated"}, NEW p \in what, p.what = mark
      PROVE  \/ mark = "omitted" /\ "max_items" \in why
             \/ \E i \in KeptOf(g, limits, n) : HasMark(DescribedItem(g, limits, left, n, seen, i), mark)
  <2>1. CASE OmittedOf(g, limits, n) /\ p = Place(<<0>>, "omitted")
    BY <1>1, <1>4, <2>1 DEF Place
  <2>2. CASE \E i \in ShownOf(g, limits, n) :
               p \in Under(KeyText(g, n, i), DescribedItem(g, limits, left, n, seen, i).what)
    <3>1. PICK i \in ShownOf(g, limits, n) :
            p \in Under(KeyText(g, n, i), DescribedItem(g, limits, left, n, seen, i).what)
      BY <2>2
    <3>2. PICK q \in DescribedItem(g, limits, left, n, seen, i).what :
            p = Place(<<KeyText(g, n, i)>> \o q.path, q.what)
      BY <3>1, Zenon DEF Under
    <3>3. q.what = mark
      BY <1>4, <3>2 DEF Place
    <3> QED
      BY <3>1, <3>2, <3>3, ShownIsKept DEF HasMark
  <2>3. p # Place(<<>>, "container")
    BY <1>4 DEF Place
  <2> QED
    BY <1>1, <2>1, <2>2, <2>3
<1>5. ASSUME NEW i \in ShownOf(g, limits, n), NEW mark,
             HasMark(DescribedItem(g, limits, left, n, seen, i), mark)
      PROVE  HasMark(d, mark)
  <2>1. PICK q \in DescribedItem(g, limits, left, n, seen, i).what : q.what = mark
    BY <1>5 DEF HasMark
  <2>2. Place(<<KeyText(g, n, i)>> \o q.path, q.what) \in what
    BY <1>1, <2>1, Zenon DEF Under
  <2>3. Place(<<KeyText(g, n, i)>> \o q.path, q.what).what = mark
    BY <2>1 DEF Place
  <2> QED
    BY <1>2, <2>2, <2>3 DEF HasMark
<1>6. HasMark(d, "omitted") => "max_items" \in why
  BY <1>1, <1>2, <1>3, <1>4 DEF HasMark, Marked
<1>7. HasMark(d, "truncated") => "max_depth" \in why
  BY <1>1, <1>2, <1>3, <1>4 DEF HasMark, Marked
<1>8. ASSUME NoClash(g), NEW r \in why
      PROVE  \/ r = "max_items" /\ HasMark(d, "omitted")
             \/ r = "max_depth" /\ HasMark(d, "truncated")
             \/ r = "string_length" /\ HasMark(d, "cut")
  <2>1. CASE OmittedOf(g, limits, n) /\ r = "max_items"
    <3>1. Place(<<0>>, "omitted") \in what /\ Place(<<0>>, "omitted").what = "omitted"
      BY <1>1, <2>1 DEF Place
    <3> QED
      BY <1>2, <2>1, <3>1 DEF HasMark
  <2>2. CASE \E i \in KeptOf(g, limits, n) : r \in DescribedItem(g, limits, left, n, seen, i).why
    <3>1. PICK i \in KeptOf(g, limits, n) : r \in DescribedItem(g, limits, left, n, seen, i).why
      BY <2>2
    <3>2. i \in ShownOf(g, limits, n)
      BY <1>8, <3>1, ShownIsKept
    <3>3. \/ r = "max_items" /\ HasMark(DescribedItem(g, limits, left, n, seen, i), "omitted")
          \/ r = "max_depth" /\ HasMark(DescribedItem(g, limits, left, n, seen, i), "truncated")
          \/ r = "string_length" /\ HasMark(DescribedItem(g, limits, left, n, seen, i), "cut")
      BY <1>3, <1>8, <3>1 DEF Marked
    <3> HIDE DEF d
    <3> QED
      BY <1>5, <3>2, <3>3
  <2> QED
    BY <1>1, <1>8, <2>1, <2>2
<1>9. Marked(g, d)
  <2> HIDE DEF d
  <2> QED
    BY <1>2, <1>6, <1>7, <1>8 DEF Marked
<1> QED
  BY <1>1, <1>9

(* So does that of every node, on every level.                             *)
LEMMA Marking ==
  ASSUME NEW g, NEW limits, Bounded(g, limits), NEW left \in Nat
  PROVE  MarkedAt(g, limits, left)
<1>1. ASSUME NEW l \in Nat, l # 0 => MarkedAt(g, limits, l - 1), NEW n \in Nodes, NEW seen \in Chains
      PROVE  Marked(g, Described(g, limits, l, n, seen))
  <2>1. CASE Entered(g, n, seen, l)
    BY <1>1, <2>1, ItemsMarked DEF Entered
  <2>2. CASE ~Entered(g, n, seen, l)
    <3>1. n # "omitted" /\ n # "truncated"
      BY PayloadAssumption DEF Told
    <3>2. PICK what, why :
            /\ Described(g, limits, l, n, seen) = Atom(what, why)
            /\ \/ what \in {n, "number", "object", "cycle"} /\ why = {}
               \/ what = "cut" /\ why = {"string_length"}
               \/ what = "truncated" /\ why = {"max_depth"}
      BY <2>2, DescribeCases
    <3>3. Marked(g, Atom(what, why))
      <4>1. /\ Atom(what, why).why = why
            /\ \A mark : HasMark(Atom(what, why), mark) <=> what = mark
        <5>1. Place(<<>>, what).what = what
          BY DEF Place
        <5>2. Atom(what, why).what = {Place(<<>>, what)} /\ Atom(what, why).why = why
          BY DEF Atom, Found
        <5> QED
          BY <5>1, <5>2 DEF HasMark
      <4> QED
        BY <3>1, <3>2, <4>1 DEF Marked
    <3> QED
      BY <3>2, <3>3
  <2> QED
    BY <2>1, <2>2
<1> DEFINE S == {l \in Nat : MarkedAt(g, limits, l)}
<1>2. ASSUME NEW l \in Nat, l # 0 => l - 1 \in S PROVE l \in S
  <2>1. l # 0 => MarkedAt(g, limits, l - 1)
    BY <1>2
  <2>2. MarkedAt(g, limits, l)
    BY <1>1, <2>1 DEF MarkedAt
  <2> QED
    BY <2>2
<1> HIDE DEF S
<1>3. Nat \subseteq S
  BY <1>2, LevelInduction
<1> QED
  BY <1>3 DEF S

-----------------------------------------------------------------------------
(***************************************************************************)
(* The arguments of a call.                                                *)
(***************************************************************************)
Argument(g, args, limits, name) == Described(g, limits, limits.depth, args[name], {})
TensorArgument(g, args, limits, i) == Collected(g, limits, limits.depth, args[TensorArgs[i]], {})

(* The description of a call is that of each of its arguments.             *)
LEMMA ArgumentsFacts ==
  ASSUME NEW g, NEW args, NEW limits
  PROVE  \E what, why :
           /\ DescribeArguments(g, args, limits) = [what |-> what, why |-> why]
           /\ \A p : p \in what <=>
                \E name \in DOMAIN args : p \in Under(name, Argument(g, args, limits, name).what)
           /\ \A r : r \in why <=> \E name \in DOMAIN args : r \in Argument(g, args, limits, name).why
<1> DEFINE what == UNION {Under(name, Argument(g, args, limits, name).what) : name \in DOMAIN args}
           why == UNION {Argument(g, args, limits, name).why : name \in DOMAIN args}
<1>1. DescribeArguments(g, args, limits) = [what |-> what, why |-> why]
  BY Zenon DEF DescribeArguments, Found, Argument, Described
<1>2. \A p : p \in what <=>
        \E name \in DOMAIN args : p \in Under(name, Argument(g, args, limits, name).what)
  OBVIOUS
<1>3. \A r : r \in why <=> \E name \in DOMAIN args : r \in Argument(g, args, limits, name).why
  OBVIOUS
<1> HIDE DEF what, why
<1> QED
  BY <1>1, <1>2, <1>3, Zenon

(* The leaves of a call are those of the tensor arguments it has.          *)
LEMMA LeavesFacts ==
  ASSUME NEW g, NEW args, NEW limits
  PROVE  \E what, why :
           /\ CollectLeaves(g, args, limits) = [what |-> what, why |-> why]
           /\ \A l : l \in what <=>
                \E i \in Present(args) :
                  l \in LeavesUnder(i, TensorArgs[i], TensorArgument(g, args, limits, i).what)
           /\ \A r : r \in why <=> \E i \in Present(args) : r \in TensorArgument(g, args, limits, i).why
<1> DEFINE what == UNION {LeavesUnder(i, TensorArgs[i], TensorArgument(g, args, limits, i).what) :
                            i \in Present(args)}
           why == UNION {TensorArgument(g, args, limits, i).why : i \in Present(args)}
<1>1. CollectLeaves(g, args, limits) = [what |-> what, why |-> why]
  BY Zenon DEF CollectLeaves, Found, TensorArgument, Collected
<1>2. \A l : l \in what <=>
        \E i \in Present(args) :
          l \in LeavesUnder(i, TensorArgs[i], TensorArgument(g, args, limits, i).what)
  OBVIOUS
<1>3. \A r : r \in why <=> \E i \in Present(args) : r \in TensorArgument(g, args, limits, i).why
  OBVIOUS
<1> HIDE DEF what, why
<1> QED
  BY <1>1, <1>2, <1>3, Zenon

(* A call of one of the graphs, within the bounds that may be configured.  *)
LEMMA InputFacts ==
  ASSUME NEW g \in Graphs, NEW args \in Calls, NEW limits \in Limits
  PROVE  /\ Bounded(g, limits)
         /\ \A name \in DOMAIN args : args[name] \in Nodes
         /\ \A i \in Present(args) : TensorArgs[i] \in DOMAIN args /\ args[TensorArgs[i]] \in Nodes
         /\ {} \in Chains
<1>1. Bounded(g, limits)
  BY PayloadAssumption DEF Bounded
<1>2. args \in [DOMAIN args -> Nodes]
  BY PayloadAssumption
<1> QED
  BY <1>1, <1>2 DEF Present, Chains

(* The arguments a heavy script may be given.                              *)
Restricted(args) == [name \in {TensorArgs[i] : i \in Present(args)} |-> args[name]]

(* What is written of a capture that is not refused.                       *)
LEMMA ManifestFacts ==
  ASSUME NEW g, NEW args, NEW limits, Manifest(g, args, limits).captured
  PROVE  LET M == Manifest(g, args, limits)
             leaves == CollectLeaves(g, args, limits)
             described == DescribeArguments(g, Restricted(args), limits)
         IN /\ ~Refused(g, leaves.what, limits)
            /\ M.records = leaves.what
            /\ M.arguments = described.what
            /\ M.truncated = (leaves.why \cup described.why # {})
<1>1. CASE Refused(g, CollectLeaves(g, args, limits).what, limits)
  <2>1. Manifest(g, args, limits) = [captured |-> FALSE]
    BY <1>1, Zenon DEF Manifest
  <2> QED
    BY <2>1
<1>2. CASE ~Refused(g, CollectLeaves(g, args, limits).what, limits)
  <2>1. Manifest(g, args, limits) =
          [captured |-> TRUE, records |-> CollectLeaves(g, args, limits).what,
           arguments |-> DescribeArguments(g, Restricted(args), limits).what,
           truncated |-> CollectLeaves(g, args, limits).why
                           \cup DescribeArguments(g, Restricted(args), limits).why # {}]
    BY <1>2, Zenon DEF Manifest, Restricted
  <2>2. ASSUME NEW a, NEW b, NEW c,
               Manifest(g, args, limits) =
                 [captured |-> TRUE, records |-> a, arguments |-> b, truncated |-> c]
        PROVE  /\ Manifest(g, args, limits).records = a
               /\ Manifest(g, args, limits).arguments = b
               /\ Manifest(g, args, limits).truncated = c
    BY <2>2
  <2> QED
    BY <1>2, <2>1, <2>2, Zenon
<1> QED
  BY <1>1, <1>2

(* The tensors of the restricted arguments' description are the collected. *)
LEMMA ManifestCorrelates ==
  ASSUME NEW g \in Graphs, NEW args \in Calls, NEW limits \in Limits,
         NEW described, described = DescribeArguments(g, Restricted(args), limits).what,
         NEW leaves, leaves = CollectLeaves(g, args, limits).what
  PROVE  /\ \A p \in described : p.what \in TensorNodes(g) => p \in PlacesOf(leaves)
         /\ NoClash(g) => \A l \in leaves : Place(l.path, l.what) \in described
         /\ \A l \in leaves : l.what \in TensorNodes(g)
<1>1. \A p : p \in described <=>
        \E name \in DOMAIN Restricted(args) :
          p \in Under(name, Argument(g, Restricted(args), limits, name).what)
  <2>1. PICK what, why :
          /\ DescribeArguments(g, Restricted(args), limits) = [what |-> what, why |-> why]
          /\ \A p : p \in what <=>
               \E name \in DOMAIN Restricted(args) :
                 p \in Under(name, Argument(g, Restricted(args), limits, name).what)
    BY ArgumentsFacts, Zenon
  <2> QED
    BY <2>1
<1>2. \A l : l \in leaves <=>
        \E i \in Present(args) :
          l \in LeavesUnder(i, TensorArgs[i], TensorArgument(g, args, limits, i).what)
  <2>1. PICK what, why :
          /\ CollectLeaves(g, args, limits) = [what |-> what, why |-> why]
          /\ \A l : l \in what <=>
               \E i \in Present(args) :
                 l \in LeavesUnder(i, TensorArgs[i], TensorArgument(g, args, limits, i).what)
    BY LeavesFacts, Zenon
  <2> QED
    BY <2>1
<1>3. \A i \in Present(args) :
        /\ TensorArgs[i] \in DOMAIN Restricted(args)
        /\ Argument(g, Restricted(args), limits, TensorArgs[i]) =
             Described(g, limits, limits.depth, args[TensorArgs[i]], {})
  BY DEF Restricted, Argument
<1>4. \A name \in DOMAIN Restricted(args) : \E i \in Present(args) : name = TensorArgs[i]
  BY DEF Restricted
<1>5. \A i \in Present(args) : Correlated(g, Argument(g, Restricted(args), limits, TensorArgs[i]),
                                          TensorArgument(g, args, limits, i))
  <2>1. CorrelatedAt(g, limits, limits.depth)
    BY InputFacts, Correlation DEF Bounded
  <2>2. \A i \in Present(args) : args[TensorArgs[i]] \in Nodes /\ {} \in Chains
    BY InputFacts
  <2> QED
    BY <1>3, <2>1, <2>2, Zenon DEF CorrelatedAt, TensorArgument
<1>6. ASSUME NEW p \in described, p.what \in TensorNodes(g) PROVE p \in PlacesOf(leaves)
  <2>1. PICK i \in Present(args) :
          p \in Under(TensorArgs[i], Argument(g, Restricted(args), limits, TensorArgs[i]).what)
    BY <1>1, <1>4, <1>6, Zenon
  <2>2. PICK q \in Argument(g, Restricted(args), limits, TensorArgs[i]).what :
          p = Place(<<TensorArgs[i]>> \o q.path, q.what)
    BY <2>1, Zenon DEF Under
  <2>3. q.what = p.what
    BY <2>2 DEF Place
  <2>4. PICK l \in TensorArgument(g, args, limits, i).what : q = Place(l.path, l.what)
    BY <1>5, <1>6, <2>1, <2>2, <2>3 DEF Correlated, PlacesOf
  <2> DEFINE k == Leaf(<<i>> \o l.at, <<TensorArgs[i]>> \o l.path, l.what)
  <2>5. k \in leaves
    BY <1>2, <2>1, <2>4, Zenon DEF LeavesUnder
  <2>6. p = Place(k.path, k.what)
    BY <2>2, <2>4 DEF Place, Leaf
  <2> QED
    BY <2>5, <2>6, Zenon DEF PlacesOf
<1>7. ASSUME NEW l \in leaves
      PROVE  /\ l.what \in TensorNodes(g)
             /\ NoClash(g) => Place(l.path, l.what) \in described
  <2>1. PICK i \in Present(args) :
          l \in LeavesUnder(i, TensorArgs[i], TensorArgument(g, args, limits, i).what)
    BY <1>2, <1>7, Zenon
  <2>2. PICK m \in TensorArgument(g, args, limits, i).what :
          l = Leaf(<<i>> \o m.at, <<TensorArgs[i]>> \o m.path, m.what)
    BY <2>1, Zenon DEF LeavesUnder
  <2>3. l.what = m.what /\ l.path = <<TensorArgs[i]>> \o m.path
    BY <2>2 DEF Leaf
  <2>4. ASSUME NoClash(g) PROVE Place(l.path, l.what) \in described
    <3>1. Place(m.path, m.what) \in Argument(g, Restricted(args), limits, TensorArgs[i]).what
      BY <1>5, <2>1, <2>2, <2>4 DEF Correlated
    <3>2. Place(m.path, m.what).path = m.path /\ Place(m.path, m.what).what = m.what
      BY DEF Place
    <3>3. Place(l.path, l.what) \in
            Under(TensorArgs[i], Argument(g, Restricted(args), limits, TensorArgs[i]).what)
      BY <2>3, <3>1, <3>2, Zenon DEF Under
    <3> QED
      BY <1>1, <1>3, <2>1, <3>3, Zenon
  <2>5. m.what \in TensorNodes(g)
    BY <1>5, <2>1, <2>2 DEF Correlated
  <2> QED
    BY <2>3, <2>4, <2>5
<1> QED
  BY <1>6, <1>7

-----------------------------------------------------------------------------
(* Every input is what one firing of a callback gave its scripts.          *)
InputInv ==
  \/ input = NoInput
  \/ \E g \in Graphs, args \in Calls, limits \in Limits : input = Payloads(g, args, limits)

(* Only a firing of a callback changes what the scripts are given.         *)
LEMMA InputInvariant == PayloadSpec => []InputInv
<1>1. PayloadInit => InputInv
  BY DEF PayloadInit, InputInv
<1>2. InputInv /\ [input = NoInput /\ Fire]_input => InputInv'
  BY DEF InputInv, Fire
<1> QED
  BY <1>1, <1>2, PTL DEF PayloadSpec

(* What the two kinds of script get, from the call and its limits.         *)
LEMMA InputFields ==
  ASSUME NEW g, NEW args, NEW limits, input = Payloads(g, args, limits)
  PROVE  /\ input.graph = g /\ input.args = args /\ input.limits = limits
         /\ Light = LightParams(g, args, limits) /\ Heavy = Manifest(g, args, limits)
  BY DEF Payloads, Light, Heavy

(* Every exported tensor is described at the path its record names, and    *)
(* every described one is exported, whatever the arguments and the bounds  *)
(* (payload.py: _describe, _collect_leaves).                               *)
THEOREM TensorsCorrelateTheorem == PayloadSpec => []TensorsCorrelate
<1>1. ASSUME InputInv PROVE TensorsCorrelate
  <2>1. SUFFICES ASSUME NEW g \in Graphs, NEW args \in Calls, NEW limits \in Limits,
                        input = Payloads(g, args, limits), Heavy.captured
                 PROVE  TensorsCorrelate
    BY <1>1 DEF InputInv, TensorsCorrelate
  <2>2. /\ Heavy.records = CollectLeaves(g, args, limits).what
        /\ Heavy.arguments = DescribeArguments(g, Restricted(args), limits).what
        /\ input.graph = g
    BY <2>1, InputFields, ManifestFacts
  <2>3. /\ \A p \in Heavy.arguments : p.what \in TensorNodes(g) => p \in PlacesOf(Heavy.records)
        /\ NoClash(g) => \A l \in Heavy.records : Place(l.path, l.what) \in Heavy.arguments
        /\ \A l \in Heavy.records : l.what \in TensorNodes(g)
    BY <2>2, ManifestCorrelates
  <2>4. {p \in Heavy.arguments : p.what \in TensorNodes(g)} \subseteq PlacesOf(Heavy.records)
    BY <2>3
  <2>5. NoClash(g) => PlacesOf(Heavy.records) \subseteq {p \in Heavy.arguments : p.what \in TensorNodes(g)}
    <3>1. \A l : Place(l.path, l.what).what = l.what
      BY DEF Place
    <3> QED
      BY <2>3, <3>1 DEF PlacesOf
  <2> QED
    BY <2>2, <2>4, <2>5 DEF TensorsCorrelate
<1> QED
  BY <1>1, InputInvariant, PTL

-----------------------------------------------------------------------------
(* The description of a call's arguments is the same within more generous  *)
(* bounds when it hit none but that on strings; the tensors are, when      *)
(* their collection hit none.                                              *)
LEMMA SameArguments ==
  ASSUME NEW g \in Graphs, NEW args \in Calls, NEW limits \in Limits, NEW wide,
         Bounded(g, wide), limits.items <= wide.items, limits.depth <= wide.depth
  PROVE  /\ DescribeArguments(g, args, limits).why \subseteq {"string_length"} =>
              DescribeArguments(g, args, wide) = DescribeArguments(g, args, limits)
         /\ CollectLeaves(g, args, limits).why = {} =>
              CollectLeaves(g, args, wide) = CollectLeaves(g, args, limits)
<1>1. SameAt(g, limits, wide, limits.depth) /\ wide.depth \in Nat /\ {} \in Chains
  BY InputFacts, Sameness DEF Bounded
<1>2. ASSUME NEW name \in DOMAIN args, Argument(g, args, limits, name).why \subseteq {"string_length"}
      PROVE  Argument(g, args, wide, name) = Argument(g, args, limits, name)
  <2>1. args[name] \in Nodes
    BY InputFacts
  <2> QED
    BY <1>1, <1>2, <2>1, Zenon DEF SameAt, Argument
<1>3. ASSUME NEW i \in Present(args), TensorArgument(g, args, limits, i).why = {}
      PROVE  TensorArgument(g, args, wide, i) = TensorArgument(g, args, limits, i)
  <2>1. args[TensorArgs[i]] \in Nodes
    BY InputFacts
  <2> QED
    BY <1>1, <1>3, <2>1, Zenon DEF SameAt, TensorArgument
<1>4. ASSUME DescribeArguments(g, args, limits).why \subseteq {"string_length"}
      PROVE  DescribeArguments(g, args, wide) = DescribeArguments(g, args, limits)
  <2>1. PICK what, why :
          /\ DescribeArguments(g, args, limits) = [what |-> what, why |-> why]
          /\ \A p : p \in what <=>
               \E name \in DOMAIN args : p \in Under(name, Argument(g, args, limits, name).what)
          /\ \A r : r \in why <=> \E name \in DOMAIN args : r \in Argument(g, args, limits, name).why
    BY ArgumentsFacts, Zenon
  <2>2. PICK what2, why2 :
          /\ DescribeArguments(g, args, wide) = [what |-> what2, why |-> why2]
          /\ \A p : p \in what2 <=>
               \E name \in DOMAIN args : p \in Under(name, Argument(g, args, wide, name).what)
          /\ \A r : r \in why2 <=> \E name \in DOMAIN args : r \in Argument(g, args, wide, name).why
    BY ArgumentsFacts, Zenon
  <2>3. why \subseteq {"string_length"}
    BY <1>4, <2>1
  <2>4. \A name \in DOMAIN args : Argument(g, args, wide, name) = Argument(g, args, limits, name)
    BY <1>2, <2>1, <2>3
  <2>5. \A p : p \in what2 <=> p \in what
    BY <2>1, <2>2, <2>4, Zenon
  <2>6. \A r : r \in why2 <=> r \in why
    BY <2>1, <2>2, <2>4, Zenon
  <2>7. what2 = what /\ why2 = why
    BY <2>5, <2>6
  <2> QED
    BY <2>1, <2>2, <2>7
<1>5. ASSUME CollectLeaves(g, args, limits).why = {}
      PROVE  CollectLeaves(g, args, wide) = CollectLeaves(g, args, limits)
  <2>1. PICK what, why :
          /\ CollectLeaves(g, args, limits) = [what |-> what, why |-> why]
          /\ \A l : l \in what <=>
               \E i \in Present(args) :
                 l \in LeavesUnder(i, TensorArgs[i], TensorArgument(g, args, limits, i).what)
          /\ \A r : r \in why <=> \E i \in Present(args) : r \in TensorArgument(g, args, limits, i).why
    BY LeavesFacts
  <2>2. PICK what2, why2 :
          /\ CollectLeaves(g, args, wide) = [what |-> what2, why |-> why2]
          /\ \A l : l \in what2 <=>
               \E i \in Present(args) :
                 l \in LeavesUnder(i, TensorArgs[i], TensorArgument(g, args, wide, i).what)
          /\ \A r : r \in why2 <=> \E i \in Present(args) : r \in TensorArgument(g, args, wide, i).why
    BY LeavesFacts
  <2>3. why = {}
    BY <1>5, <2>1
  <2>4. \A i \in Present(args) : TensorArgument(g, args, wide, i) = TensorArgument(g, args, limits, i)
    BY <1>3, <2>1, <2>3
  <2>5. \A l : l \in what2 <=> l \in what
    BY <2>1, <2>2, <2>4
  <2>6. \A r : r \in why2 <=> r \in why
    BY <2>1, <2>2, <2>4
  <2>7. what2 = what /\ why2 = why
    BY <2>5, <2>6
  <2> QED
    BY <2>1, <2>2, <2>7
<1> QED
  BY <1>4, <1>5

(* The description of a call's arguments is marked where a bound was hit.  *)
LEMMA ArgumentsMarked ==
  ASSUME NEW g, NEW limits, Bounded(g, limits), NEW args, \A name \in DOMAIN args : args[name] \in Nodes
  PROVE  /\ Marked(g, DescribeArguments(g, args, limits))
         /\ ~HasMark(DescribeArguments(g, args, limits), Null)
<1>1. PICK what, why :
        /\ DescribeArguments(g, args, limits) = [what |-> what, why |-> why]
        /\ \A p : p \in what <=>
             \E name \in DOMAIN args : p \in Under(name, Argument(g, args, limits, name).what)
        /\ \A r : r \in why <=> \E name \in DOMAIN args : r \in Argument(g, args, limits, name).why
  BY ArgumentsFacts, Zenon
<1> DEFINE d == [what |-> what, why |-> why]
<1>2. d.what = what /\ d.why = why
  OBVIOUS
<1>3. ASSUME NEW name \in DOMAIN args
      PROVE  /\ Marked(g, Argument(g, args, limits, name))
             /\ ~HasMark(Argument(g, args, limits, name), Null)
  <2>1. MarkedAt(g, limits, limits.depth) /\ args[name] \in Nodes /\ {} \in Chains
    BY Marking DEF Bounded, Chains
  <2>2. Marked(g, Argument(g, args, limits, name))
    BY <2>1, Zenon DEF MarkedAt, Argument
  <2>3. Argument(g, args, limits, name).what \subseteq Places
    <3>1. Describe(g, limits)[limits.depth] \in Descriptions
      BY DescribeRecursion DEF Bounded
    <3> QED
      BY <2>1, <3>1 DEF Argument, Described, Descriptions, Chains
  <2>4. \A p \in Places : p.what # Null
    BY PayloadAssumption DEF Places, Null, Told
  <2> QED
    BY <2>2, <2>3, <2>4 DEF HasMark
<1>4. \A mark : HasMark(d, mark) <=>
        \E name \in DOMAIN args : HasMark(Argument(g, args, limits, name), mark)
  <2> TAKE mark
  <2>1. ASSUME NEW p \in what, p.what = mark
        PROVE  \E name \in DOMAIN args : HasMark(Argument(g, args, limits, name), mark)
    <3>1. PICK name \in DOMAIN args : p \in Under(name, Argument(g, args, limits, name).what)
      BY <1>1, <2>1
    <3>2. PICK q \in Argument(g, args, limits, name).what : p = Place(<<name>> \o q.path, q.what)
      BY <3>1, Zenon DEF Under
    <3>3. q.what = mark
      BY <2>1, <3>2 DEF Place
    <3> QED
      BY <3>2, <3>3 DEF HasMark
  <2>2. ASSUME NEW name \in DOMAIN args, HasMark(Argument(g, args, limits, name), mark)
        PROVE  \E p \in what : p.what = mark
    <3>1. PICK q \in Argument(g, args, limits, name).what : q.what = mark
      BY <2>2 DEF HasMark
    <3>2. Place(<<name>> \o q.path, q.what) \in what
      BY <1>1, <3>1, Zenon DEF Under
    <3>3. Place(<<name>> \o q.path, q.what).what = mark
      BY <3>1 DEF Place
    <3> QED
      BY <3>2, <3>3
  <2> HIDE DEF d
  <2> QED
    BY <1>2, <2>1, <2>2 DEF HasMark
<1> HIDE DEF d
<1>5. ~HasMark(d, Null)
  BY <1>3, <1>4
<1>6. HasMark(d, "omitted") => "max_items" \in why
  BY <1>1, <1>3, <1>4 DEF Marked
<1>7. HasMark(d, "truncated") => "max_depth" \in why
  BY <1>1, <1>3, <1>4 DEF Marked
<1>8. ASSUME NoClash(g), NEW r \in why
      PROVE  \/ r = "max_items" /\ HasMark(d, "omitted")
             \/ r = "max_depth" /\ HasMark(d, "truncated")
             \/ r = "string_length" /\ HasMark(d, "cut")
  BY <1>1, <1>3, <1>4, <1>8 DEF Marked
<1>9. Marked(g, d)
  BY <1>2, <1>6, <1>7, <1>8 DEF Marked
<1> QED
  BY <1>1, <1>5, <1>9 DEF d

(* What a light script is given.                                           *)
LEMMA LightFacts ==
  ASSUME NEW g, NEW args, NEW limits, NEW found, found = DescribeArguments(g, args, limits),
         NEW light, light = LightParams(g, args, limits)
  PROVE  /\ ~light.truncated => found.why = {} /\ light.arguments = found.what
         /\ light.truncated => \/ light.arguments = NoArguments
                               \/ light.arguments = found.what /\ found.why # {}
<1>1. \/ light = Document(found.what, found.why)
      \/ light = Dropped(Document(found.what, found.why))
  BY Zenon DEF LightParams
<1>2. ASSUME NEW a, NEW w
      PROVE  Document(a, w).arguments = a /\ Document(a, w).truncated = (w # {})
  <2>1. ASSUME NEW b, NEW d, d = [arguments |-> a, truncated |-> b, why |-> w]
        PROVE  d.arguments = a /\ d.truncated = b
    BY <2>1
  <2> QED
    BY <2>1, Zenon DEF Document
<1>3. CASE light = Document(found.what, found.why)
  <2>1. light.arguments = found.what
    BY <1>2, <1>3
  <2>2. light.truncated = (found.why # {})
    BY <1>2, <1>3
  <2> QED
    BY <2>1, <2>2
<1>4. CASE light = Dropped(Document(found.what, found.why))
  <2>1. Document(found.what, found.why).why \cup {"max_params_bytes"} # {}
    OBVIOUS
  <2>2. light = Document(NoArguments, Document(found.what, found.why).why \cup {"max_params_bytes"})
    BY <1>4, Zenon DEF Dropped
  <2>3. light.arguments = NoArguments /\ light.truncated
    BY <1>2, <2>1, <2>2, Zenon
  <2> QED
    BY <2>3
<1> QED
  BY <1>1, <1>3, <1>4

(* A script that is told nothing was truncated got what it would have got  *)
(* within ample bounds, and is not told so for nothing (payload.py:        *)
(* build_light_params, dispatch.py: dispatch_heavy).                       *)
THEOREM TruncationIsToldTheorem == PayloadSpec => []TruncationIsTold
<1>1. ASSUME InputInv PROVE TruncationIsTold
  <2>1. SUFFICES ASSUME NEW g \in Graphs, NEW args \in Calls, NEW limits \in Limits,
                        input = Payloads(g, args, limits)
                 PROVE  TruncationIsTold
    BY <1>1 DEF InputInv, TruncationIsTold
  <2> DEFINE ample == [input.limits EXCEPT !.items = Ample, !.depth = Ample]
             found == DescribeArguments(g, args, limits)
             all == DescribeArguments(g, args, ample)
  <2>2. /\ input.graph = g /\ input.args = args /\ input.limits = limits
        /\ Light = LightParams(g, args, limits) /\ Heavy = Manifest(g, args, limits)
    BY <2>1, InputFields
  <2>3. /\ Bounded(g, limits) /\ Bounded(g, ample) /\ limits.items <= ample.items
        /\ limits.depth <= ample.depth
    <3>1. limits \in [items : 0 .. Ample, depth : 0 .. Ample, params : Nat, export : Nat] /\ Ample \in Nat
      BY PayloadAssumption
    <3>2. ample.items = Ample /\ ample.depth = Ample
      BY <2>2, <3>1
    <3> QED
      BY <3>1, <3>2, InputFacts DEF Bounded
  <2> HIDE DEF ample
  <2>4. /\ found.why \subseteq {"string_length"} => all = found
        /\ CollectLeaves(g, args, limits).why = {} =>
             CollectLeaves(g, args, ample) = CollectLeaves(g, args, limits)
    BY <2>3, SameArguments
  <2>5. Marked(g, found) /\ Marked(g, all) /\ ~HasMark(all, Null)
    BY <2>3, InputFacts, ArgumentsMarked
  <2> HIDE DEF found, all
  <2>6. /\ ~Light.truncated => found.why = {} /\ Light.arguments = found.what
        /\ Light.truncated => \/ Light.arguments = NoArguments
                              \/ Light.arguments = found.what /\ found.why # {}
    BY <2>2, LightFacts DEF found
  <2>7. ~Light.truncated => Light.arguments = all.what
    BY <2>4, <2>6
  <2>8. ASSUME Light.truncated, NoClash(g), all.why \subseteq {"string_length"},
               Light.arguments = all.what
        PROVE  \E p \in all.what : p.what = "cut"
    <3>1. CASE Light.arguments = NoArguments
      <4>1. Place(<<>>, Null) \in all.what /\ Place(<<>>, Null).what = Null
        BY <2>8, <3>1 DEF NoArguments, Place
      <4> QED
        BY <2>5, <4>1 DEF HasMark
    <3>2. CASE Light.arguments = found.what /\ found.why # {}
      <4>1. PICK r : r \in found.why
        BY <3>2
      <4>2. \A mark : HasMark(found, mark) => HasMark(all, mark)
        BY <2>8, <3>2 DEF HasMark
      <4>3. \/ r = "max_items" /\ HasMark(all, "omitted")
            \/ r = "max_depth" /\ HasMark(all, "truncated")
            \/ r = "string_length" /\ HasMark(all, "cut")
        BY <2>5, <2>8, <4>1, <4>2 DEF Marked
      <4>4. ~HasMark(all, "omitted") /\ ~HasMark(all, "truncated")
        BY <2>5, <2>8 DEF Marked
      <4> QED
        BY <4>3, <4>4 DEF HasMark
    <3> QED
      BY <2>6, <2>8, <3>1, <3>2
  <2>9. ASSUME Heavy.captured, ~Heavy.truncated
        PROVE  Heavy.records = CollectLeaves(g, args, ample).what
    <3>1. /\ Heavy.records = CollectLeaves(g, args, limits).what
          /\ Heavy.truncated = (CollectLeaves(g, args, limits).why
                                  \cup DescribeArguments(g, Restricted(args), limits).why # {})
      BY <2>2, <2>9, ManifestFacts
    <3>2. CollectLeaves(g, args, limits).why = {}
      BY <2>9, <3>1
    <3> QED
      BY <2>4, <3>1, <3>2
  <2> QED
    BY <2>2, <2>7, <2>8, <2>9 DEF TruncationIsTold, ample, all
<1> QED
  BY <1>1, InputInvariant, PTL

-----------------------------------------------------------------------------
(***************************************************************************)
(* What is collected is what the walks reach.                              *)
(***************************************************************************)

(* The steps a walk with `left` levels left may take.                      *)
Indices(limits) == Seq(1 .. limits.items)
Walks(limits, left) == {s \in Indices(limits) : Len(s) <= left}

(* The steps the properties quantify over are the bounded walks.           *)
LEMMA StepsAreWalks ==
  ASSUME NEW limits, limits.depth \in Nat
  PROVE  Steps(limits) = Walks(limits, limits.depth)
<1>1. ASSUME NEW l \in 0 .. limits.depth, NEW s \in [1 .. l -> 1 .. limits.items]
      PROVE  s \in Walks(limits, limits.depth)
  <2>1. s \in Seq(1 .. limits.items)
    <3>1. s \in UNION {[1 .. k -> 1 .. limits.items] : k \in Nat}
      BY l \in Nat
    <3> QED
      BY <3>1, SeqDef, Zenon
  <2>2. DOMAIN s = 1 .. Len(s) /\ Len(s) \in Nat
    BY <2>1, LenProperties
  <2>3. Len(s) = l
    BY <2>2
  <2> QED
    BY <2>1, <2>3 DEF Walks, Indices
<1>2. ASSUME NEW s \in Walks(limits, limits.depth) PROVE s \in Steps(limits)
  <2>1. s \in Seq(1 .. limits.items) /\ Len(s) <= limits.depth
    BY DEF Walks, Indices
  <2>2. s \in [1 .. Len(s) -> 1 .. limits.items] /\ Len(s) \in Nat
    BY <2>1, LenProperties, Zenon
  <2>3. Len(s) \in 0 .. limits.depth
    BY <2>1, <2>2
  <2> QED
    BY <2>2, <2>3, Zenon DEF Steps
<1>3. Steps(limits) \subseteq Walks(limits, limits.depth)
  BY <1>1 DEF Steps
<1> QED
  BY <1>2, <1>3

TrailAt(g, limits, n, s, j) == Trail(g, limits, n, s)[j]
Ahead(g, limits, m, i) == IF i \in KeptOf(g, limits, m) THEN ItemOf(g, m, i) ELSE m

(* A trail goes on from where its last step led to.                        *)
LEMMA TrailRecursion ==
  ASSUME NEW g, NEW limits, Bounded(g, limits), NEW n \in Nodes, NEW s
  PROVE  /\ TrailAt(g, limits, n, s, 0) = n
         /\ \A j \in Nat : /\ TrailAt(g, limits, n, s, j) \in Nodes
                           /\ TrailAt(g, limits, n, s, j + 1) =
                                Ahead(g, limits, TrailAt(g, limits, n, s, j), s[j + 1])
<1> DEFINE step == [j \in Nat |-> [m \in Nodes |-> Ahead(g, limits, m, s[j + 1])]]
<1>1. \A m \in Nodes : \A i : Ahead(g, limits, m, i) \in Nodes
  BY KeptType DEF Ahead, KeptOf, ItemOf
<1>2. step \in [Nat -> [Nodes -> Nodes]]
  BY <1>1
<1>3. \A j \in Nat, m \in Nodes : step[j][m] = Ahead(g, limits, m, s[j + 1])
  OBVIOUS
<1> HIDE DEF step
<1>4. PICK d \in [Nat -> Nodes] : d[0] = n /\ \A j \in Nat : d[j + 1] = step[j][d[j]]
  <2>1. \A f \in [Nat -> [Nodes -> Nodes]] :
          \E d \in [Nat -> Nodes] : d[0] = n /\ \A j \in Nat : d[j + 1] = f[j][d[j]]
    BY Iteration
  <2> QED
    BY <1>2, <2>1
<1>5. \A j \in Nat : d[j] = IF j = 0 THEN n ELSE Ahead(g, limits, d[j - 1], s[j])
  <2> TAKE j \in Nat
  <2>1. CASE j = 0
    BY <1>4, <2>1
  <2>2. CASE j # 0
    <3>1. j - 1 \in Nat /\ (j - 1) + 1 = j /\ d[j - 1] \in Nodes
      BY <2>2
    <3> QED
      BY <1>3, <1>4, <2>2, <3>1
  <2> QED
    BY <2>1, <2>2
<1>6. d = [j \in Nat |-> IF j = 0 THEN n ELSE Ahead(g, limits, d[j - 1], s[j])]
  BY <1>5
<1>7. Trail(g, limits, n, s) =
        [j \in Nat |-> IF j = 0 THEN n ELSE Ahead(g, limits, Trail(g, limits, n, s)[j - 1], s[j])]
  <2>1. \E f : f = [j \in Nat |-> IF j = 0 THEN n ELSE Ahead(g, limits, f[j - 1], s[j])]
    BY <1>6
  <2> QED
    BY <2>1, Zenon DEF Trail, Ahead, KeptOf, ItemOf
<1>8. /\ TrailAt(g, limits, n, s, 0) = n
      /\ \A j \in Nat : TrailAt(g, limits, n, s, j + 1) =
                          Ahead(g, limits, TrailAt(g, limits, n, s, j), s[j + 1])
  <2>1. Trail(g, limits, n, s)[0] = n
    BY <1>7
  <2>2. \A j \in Nat : j + 1 \in Nat /\ j + 1 # 0 /\ (j + 1) - 1 = j
    OBVIOUS
  <2>3. \A k \in Nat : k # 0 => Trail(g, limits, n, s)[k] = Ahead(g, limits, Trail(g, limits, n, s)[k - 1], s[k])
    BY <1>7
  <2> QED
    BY <2>1, <2>2, <2>3 DEF TrailAt
<1>9. \A j \in Nat : TrailAt(g, limits, n, s, j) \in Nodes
  <2> DEFINE S == {j \in Nat : TrailAt(g, limits, n, s, j) \in Nodes}
  <2>1. 0 \in S
    BY <1>8
  <2>2. \A j \in Nat : j \in S => j + 1 \in S
    BY <1>1, <1>8
  <2> HIDE DEF S
  <2>3. Nat \subseteq S
    BY <2>1, <2>2, SetInduction
  <2> QED
    BY <2>3 DEF S
<1> QED
  BY <1>8, <1>9

(* A walk from n that also steps through none of the containers `seen`,    *)
(* and the leaf at its end.                                                *)
EndOf(g, limits, n, s) == TrailAt(g, limits, n, s, Len(s))
KeysOf(g, limits, n, s) ==
  [j \in 1 .. Len(s) |-> KeyText(g, TrailAt(g, limits, n, s, j - 1), s[j])]
LeafOf(g, limits, n, s) == Leaf(s, KeysOf(g, limits, n, s), EndOf(g, limits, n, s))

StepFrom(g, limits, n, s, seen, j) ==
  LET m == TrailAt(g, limits, n, s, j - 1)
  IN /\ KindOf(g, m) \in Containers /\ s[j] \in KeptOf(g, limits, m) /\ m \notin seen
     /\ \A i \in 1 .. Len(s) : i < j => TrailAt(g, limits, n, s, i - 1) # m
WalkFrom(g, limits, n, s, seen) == \A j \in 1 .. Len(s) : StepFrom(g, limits, n, s, seen, j)

(* A walk that goes nowhere.                                               *)
LEMMA EmptyWalk ==
  ASSUME NEW g, NEW limits, Bounded(g, limits), NEW n \in Nodes, NEW seen, NEW left \in Nat
  PROVE  /\ <<>> \in Walks(limits, left) /\ WalkFrom(g, limits, n, <<>>, seen)
         /\ EndOf(g, limits, n, <<>>) = n /\ LeafOf(g, limits, n, <<>>) = Leaf(<<>>, <<>>, n)
<1>1. Len(<<>>) = 0 /\ 1 .. 0 = {}
  OBVIOUS
<1>2. <<>> \in Walks(limits, left)
  BY <1>1 DEF Walks, Indices
<1>3. WalkFrom(g, limits, n, <<>>, seen)
  BY <1>1 DEF WalkFrom
<1>4. EndOf(g, limits, n, <<>>) = n
  BY <1>1, TrailRecursion DEF EndOf
<1>5. KeysOf(g, limits, n, <<>>) = <<>>
  BY <1>1 DEF KeysOf
<1> QED
  BY <1>2, <1>3, <1>4, <1>5 DEF LeafOf

(* A walk that begins with the i-th item of n goes on with a walk from it. *)
Joined(i, t) == <<i>> \o t

(* Its first node is that item, the others those of the walk from it.      *)
LEMMA WalkOn ==
  ASSUME NEW g, NEW limits, Bounded(g, limits), NEW n \in Nodes, NEW i \in KeptOf(g, limits, n),
         NEW t \in Indices(limits), NEW s, s = Joined(i, t),
         NEW m, m = ItemOf(g, n, i)
  PROVE  /\ s \in Indices(limits) /\ Len(s) = Len(t) + 1 /\ Len(t) \in Nat
         /\ s[1] = i /\ \A j \in 1 .. Len(t) : s[j + 1] = t[j]
         /\ TrailAt(g, limits, n, s, 0) = n
         /\ \A j \in 0 .. Len(t) : TrailAt(g, limits, n, s, j + 1) = TrailAt(g, limits, m, t, j)
<1>1. i \in 1 .. limits.items /\ m \in Nodes
  BY KeptType DEF KeptOf, ItemOf
<1>2. /\ s \in Indices(limits) /\ Len(s) = Len(t) + 1 /\ Len(t) \in Nat
      /\ s[1] = i /\ \A j \in 1 .. Len(t) : s[j + 1] = t[j]
  BY <1>1 DEF Indices, Joined
<1>3. TrailAt(g, limits, n, s, 0) = n
  BY TrailRecursion
<1> DEFINE S == {j \in Nat : j <= Len(t) => TrailAt(g, limits, n, s, j + 1) = TrailAt(g, limits, m, t, j)}
<1>4. 0 \in S
  <2>1. TrailAt(g, limits, n, s, 0 + 1) = Ahead(g, limits, TrailAt(g, limits, n, s, 0), s[0 + 1])
    BY TrailRecursion, 0 \in Nat
  <2>2. TrailAt(g, limits, n, s, 0 + 1) = m
    BY <1>2, <1>3, <2>1 DEF Ahead
  <2>3. TrailAt(g, limits, m, t, 0) = m
    BY <1>1, TrailRecursion
  <2> QED
    BY <2>2, <2>3
<1>5. ASSUME NEW j \in Nat, j \in S PROVE j + 1 \in S
  <2>1. SUFFICES ASSUME j + 1 <= Len(t)
                 PROVE  TrailAt(g, limits, n, s, (j + 1) + 1) = TrailAt(g, limits, m, t, j + 1)
    OBVIOUS
  <2>2. TrailAt(g, limits, n, s, j + 1) = TrailAt(g, limits, m, t, j)
    BY <1>2, <1>5, <2>1
  <2>3. s[(j + 1) + 1] = t[j + 1]
    BY <1>2, <2>1
  <2>4. TrailAt(g, limits, n, s, (j + 1) + 1) =
          Ahead(g, limits, TrailAt(g, limits, n, s, j + 1), s[(j + 1) + 1])
    BY TrailRecursion, j + 1 \in Nat
  <2>5. TrailAt(g, limits, m, t, j + 1) = Ahead(g, limits, TrailAt(g, limits, m, t, j), t[j + 1])
    BY <1>1, TrailRecursion
  <2> QED
    BY <2>2, <2>3, <2>4, <2>5
<1> HIDE DEF S
<1>6. Nat \subseteq S
  BY <1>4, <1>5, SetInduction
<1> QED
  BY <1>2, <1>3, <1>6 DEF S

(* After its first, a longer sequence is the one it was made from.         *)
LEMMA AfterTheFirst ==
  ASSUME NEW a \in Nat, NEW rest \in Seq(Nat), NEW j \in 1 .. Len(rest) + 1, j # 1
  PROVE  (<<a>> \o rest)[j] = rest[j - 1]
  OBVIOUS

(* Its leaf is that of the rest of the walk, one level up.                 *)
LEMMA LeafOn ==
  ASSUME NEW g, NEW limits, Bounded(g, limits), NEW n \in Nodes, NEW i \in KeptOf(g, limits, n),
         NEW t \in Indices(limits), NEW s, s = Joined(i, t),
         NEW m, m = ItemOf(g, n, i)
  PROVE  /\ EndOf(g, limits, n, s) = EndOf(g, limits, m, t)
         /\ LeafOf(g, limits, n, s) =
              LET l == LeafOf(g, limits, m, t)
              IN Leaf(<<i>> \o l.at, <<KeyText(g, n, i)>> \o l.path, l.what)
<1>1. /\ Len(s) = Len(t) + 1 /\ Len(t) \in Nat
      /\ s[1] = i /\ \A j \in 1 .. Len(t) : s[j + 1] = t[j]
      /\ TrailAt(g, limits, n, s, 0) = n
      /\ \A j \in 0 .. Len(t) : TrailAt(g, limits, n, s, j + 1) = TrailAt(g, limits, m, t, j)
  BY WalkOn
<1>2. EndOf(g, limits, n, s) = EndOf(g, limits, m, t)
  BY <1>1 DEF EndOf
<1> DEFINE keys == KeysOf(g, limits, n, s)
           rest == KeysOf(g, limits, m, t)
<1>3. \A v \in Nodes : \A k \in Nat : KeyText(g, v, k) \in Nat
  BY DEF KeyText
<1>4. keys \in Seq(Nat) /\ rest \in Seq(Nat) /\ Len(keys) = Len(s) /\ Len(rest) = Len(t)
  <2>1. \A q \in Indices(limits), v \in Nodes :
          KeysOf(g, limits, v, q) \in Seq(Nat) /\ Len(KeysOf(g, limits, v, q)) = Len(q)
    <3> TAKE q \in Indices(limits), v \in Nodes
    <3>1. Len(q) \in Nat /\ \A j \in 1 .. Len(q) : q[j] \in Nat /\ j - 1 \in Nat
      BY DEF Indices, Bounded
    <3>2. \A j \in 1 .. Len(q) : KeyText(g, TrailAt(g, limits, v, q, j - 1), q[j]) \in Nat
      BY <1>3, <3>1, TrailRecursion
    <3>3. KeysOf(g, limits, v, q) \in [1 .. Len(q) -> Nat]
      BY <3>2 DEF KeysOf
    <3>4. KeysOf(g, limits, v, q) \in Seq(Nat)
      <4>1. KeysOf(g, limits, v, q) \in UNION {[1 .. k -> Nat] : k \in Nat}
        BY <3>1, <3>3
      <4> QED
        BY <4>1, SeqDef, Zenon
    <3>5. /\ DOMAIN KeysOf(g, limits, v, q) = 1 .. Len(KeysOf(g, limits, v, q))
          /\ Len(KeysOf(g, limits, v, q)) \in Nat
      BY <3>4, LenProperties
    <3>6. DOMAIN KeysOf(g, limits, v, q) = 1 .. Len(q)
      BY <3>3
    <3>7. Len(KeysOf(g, limits, v, q)) = Len(q)
      BY <3>1, <3>5, <3>6
    <3> QED
      BY <3>4, <3>7
  <2>2. s \in Indices(limits) /\ m \in Nodes
    BY WalkOn, KeptType DEF KeptOf, ItemOf
  <2> QED
    BY <2>1, <2>2
<1>5. i \in Nat /\ KeyText(g, n, i) \in Nat
  BY KeptType DEF KeptOf
<1>6. <<KeyText(g, n, i)>> \o rest \in Seq(Nat) /\ Len(<<KeyText(g, n, i)>> \o rest) = Len(rest) + 1
  BY <1>4, <1>5
<1>7. \A j \in 1 .. Len(keys) : keys[j] = (<<KeyText(g, n, i)>> \o rest)[j]
  <2> TAKE j \in 1 .. Len(keys)
  <2>1. keys[j] = KeyText(g, TrailAt(g, limits, n, s, j - 1), s[j])
    BY <1>4 DEF KeysOf
  <2>2. CASE j = 1
    <3>1. (<<KeyText(g, n, i)>> \o rest)[1] = KeyText(g, n, i)
      BY <1>4, <1>5
    <3> QED
      BY <1>1, <2>1, <2>2, <3>1
  <2>3. CASE j # 1
    <3>1. j - 1 \in 1 .. Len(t) /\ (j - 1) + 1 = j /\ (j - 1) - 1 \in 0 .. Len(t) /\ ((j - 1) - 1) + 1 = j - 1
      BY <1>1, <1>4, <2>3
    <3>2. (<<KeyText(g, n, i)>> \o rest)[j] = rest[j - 1]
      <4>1. j \in 1 .. Len(rest) + 1
        BY <1>1, <1>4
      <4> QED
        BY <1>4, <1>5, <2>3, <4>1, AfterTheFirst, Zenon
    <3>3. rest[j - 1] = KeyText(g, TrailAt(g, limits, m, t, (j - 1) - 1), t[j - 1])
      BY <3>1 DEF KeysOf
    <3>4. s[j] = t[j - 1]
      BY <1>1, <3>1
    <3>5. TrailAt(g, limits, n, s, j - 1) = TrailAt(g, limits, m, t, (j - 1) - 1)
      BY <1>1, <3>1
    <3> QED
      BY <2>1, <3>2, <3>3, <3>4, <3>5
  <2> QED
    BY <2>2, <2>3
<1> HIDE DEF keys, rest
<1>8. keys = <<KeyText(g, n, i)>> \o rest
  BY <1>1, <1>4, <1>6, <1>7, SeqEqual
<1>9. /\ LeafOf(g, limits, m, t).at = t /\ LeafOf(g, limits, m, t).path = rest
      /\ LeafOf(g, limits, m, t).what = EndOf(g, limits, m, t)
  BY DEF LeafOf, Leaf, rest
<1>10. LeafOf(g, limits, n, s) = Leaf(<<i>> \o t, <<KeyText(g, n, i)>> \o rest, EndOf(g, limits, m, t))
  BY <1>2, <1>8, Zenon DEF LeafOf, keys, Joined
<1> QED
  BY <1>2, <1>9, <1>10, Zenon

(* It is a walk when n is a container not seen, and the rest is a walk     *)
(* that does not come back to n.                                           *)
LEMMA WalkSplit ==
  ASSUME NEW g, NEW limits, Bounded(g, limits), NEW n \in Nodes, NEW i \in KeptOf(g, limits, n),
         NEW t \in Indices(limits), NEW s, s = Joined(i, t),
         NEW m, m = ItemOf(g, n, i), NEW seen
  PROVE  WalkFrom(g, limits, n, s, seen) <=>
           KindOf(g, n) \in Containers /\ n \notin seen /\ WalkFrom(g, limits, m, t, seen \cup {n})
<1>1. /\ Len(s) = Len(t) + 1 /\ Len(t) \in Nat
      /\ s[1] = i /\ \A j \in 1 .. Len(t) : s[j + 1] = t[j]
      /\ TrailAt(g, limits, n, s, 0) = n
      /\ \A j \in 0 .. Len(t) : TrailAt(g, limits, n, s, j + 1) = TrailAt(g, limits, m, t, j)
  BY WalkOn
<1>2. StepFrom(g, limits, n, s, seen, 1) <=> KindOf(g, n) \in Containers /\ n \notin seen
  BY <1>1 DEF StepFrom
<1>3. ASSUME NEW j \in 1 .. Len(t)
      PROVE  StepFrom(g, limits, n, s, seen, j + 1) <=> StepFrom(g, limits, m, t, seen \cup {n}, j)
  <2> DEFINE v == TrailAt(g, limits, n, s, j)
  <2>1. TrailAt(g, limits, n, s, (j + 1) - 1) = v /\ TrailAt(g, limits, m, t, j - 1) = v /\ s[j + 1] = t[j]
    <3>1. (j + 1) - 1 = j /\ j - 1 \in 0 .. Len(t) /\ (j - 1) + 1 = j
      BY <1>1
    <3> QED
      BY <1>1, <3>1
  <2> HIDE DEF v
  <2>2. (\A k \in 1 .. Len(s) : k < j + 1 => TrailAt(g, limits, n, s, k - 1) # v) <=>
          n # v /\ \A k \in 1 .. Len(t) : k < j => TrailAt(g, limits, m, t, k - 1) # v
    <3>1. ASSUME \A k \in 1 .. Len(s) : k < j + 1 => TrailAt(g, limits, n, s, k - 1) # v
          PROVE  n # v /\ \A k \in 1 .. Len(t) : k < j => TrailAt(g, limits, m, t, k - 1) # v
      <4>1. 1 \in 1 .. Len(s) /\ 1 < j + 1 /\ 1 - 1 = 0
        BY <1>1
      <4>2. n # v
        BY <1>1, <3>1, <4>1
      <4>3. ASSUME NEW k \in 1 .. Len(t), k < j PROVE TrailAt(g, limits, m, t, k - 1) # v
        <5>1. k + 1 \in 1 .. Len(s) /\ k + 1 < j + 1 /\ (k + 1) - 1 = k /\ k - 1 \in 0 .. Len(t) /\ (k - 1) + 1 = k
          BY <1>1, <4>3
        <5>2. TrailAt(g, limits, n, s, k) # v
          BY <3>1, <5>1
        <5> QED
          BY <1>1, <5>1, <5>2
      <4> QED
        BY <4>2, <4>3
    <3>2. ASSUME n # v, \A k \in 1 .. Len(t) : k < j => TrailAt(g, limits, m, t, k - 1) # v,
                 NEW k \in 1 .. Len(s), k < j + 1
          PROVE  TrailAt(g, limits, n, s, k - 1) # v
      <4>1. CASE k = 1
        BY <1>1, <3>2, <4>1
      <4>2. CASE k # 1
        <5>1. /\ k - 1 \in 1 .. Len(t) /\ k - 1 < j
              /\ (k - 1) - 1 \in 0 .. Len(t) /\ ((k - 1) - 1) + 1 = k - 1
          BY <1>1, <3>2, <4>2
        <5>2. TrailAt(g, limits, m, t, (k - 1) - 1) # v
          BY <3>2, <5>1
        <5> QED
          BY <1>1, <5>1, <5>2
      <4> QED
        BY <4>1, <4>2
    <3> QED
      BY <3>1, <3>2
  <2>3. v \notin seen \cup {n} <=> v \notin seen /\ n # v
    OBVIOUS
  <2> QED
    BY <2>1, <2>2, <2>3 DEF StepFrom
<1>4. ASSUME WalkFrom(g, limits, n, s, seen)
      PROVE  KindOf(g, n) \in Containers /\ n \notin seen /\ WalkFrom(g, limits, m, t, seen \cup {n})
  <2>1. 1 \in 1 .. Len(s) /\ \A j \in 1 .. Len(t) : j + 1 \in 1 .. Len(s)
    BY <1>1
  <2> QED
    BY <1>2, <1>3, <1>4, <2>1 DEF WalkFrom
<1>5. ASSUME KindOf(g, n) \in Containers, n \notin seen, WalkFrom(g, limits, m, t, seen \cup {n}),
             NEW j \in 1 .. Len(s)
      PROVE  StepFrom(g, limits, n, s, seen, j)
  <2>1. CASE j = 1
    BY <1>2, <1>5, <2>1
  <2>2. CASE j # 1
    <3>1. j - 1 \in 1 .. Len(t) /\ (j - 1) + 1 = j
      BY <1>1, <2>2
    <3>2. StepFrom(g, limits, m, t, seen \cup {n}, j - 1)
      BY <1>5, <3>1 DEF WalkFrom
    <3>3. StepFrom(g, limits, n, s, seen, (j - 1) + 1)
      BY <1>3, <3>1, <3>2
    <3> QED
      BY <3>1, <3>3
  <2> QED
    BY <2>1, <2>2
<1> QED
  BY <1>4, <1>5 DEF WalkFrom

(* Every walk but the empty one has a first step, from its first node.     *)
LEMMA FirstStep ==
  ASSUME NEW g, NEW limits, Bounded(g, limits), NEW n \in Nodes, NEW seen, NEW left \in Nat,
         NEW s \in Walks(limits, left), s # <<>>, WalkFrom(g, limits, n, s, seen)
  PROVE  /\ left - 1 \in Nat
         /\ \E i \in KeptOf(g, limits, n) : \E t \in Walks(limits, left - 1) : s = Joined(i, t)
<1>1. s \in Seq(1 .. limits.items) /\ Len(s) <= left
  BY DEF Walks, Indices
<1>2. /\ Tail(s) \in Seq(1 .. limits.items) /\ Len(Tail(s)) = Len(s) - 1
      /\ \A j \in 1 .. Len(Tail(s)) : Tail(s)[j] = s[j + 1]
  BY <1>1, HeadTailProperties
<1>3. Len(s) \in Nat /\ Len(s) # 0 /\ Len(Tail(s)) \in Nat
  BY <1>1, <1>2, EmptySeq, LenProperties
<1>4. s = Joined(s[1], Tail(s))
  BY <1>1, <1>2, <1>3 DEF Joined
<1>5. left - 1 \in Nat /\ Tail(s) \in Walks(limits, left - 1)
  BY <1>1, <1>2, <1>3 DEF Walks, Indices
<1>6. s[1] \in KeptOf(g, limits, n)
  <2>1. StepFrom(g, limits, n, s, seen, 1)
    BY <1>3 DEF WalkFrom
  <2>2. TrailAt(g, limits, n, s, 1 - 1) = n
    BY TrailRecursion
  <2> QED
    BY <2>1, <2>2 DEF StepFrom
<1> QED
  BY <1>4, <1>5, <1>6, Zenon

(* The leaves at the ends of the walks from n.                             *)
IsReached(g, limits, left, n, seen, l) ==
  \E s \in Walks(limits, left) : /\ WalkFrom(g, limits, n, s, seen)
                                 /\ EndOf(g, limits, n, s) \in TensorNodes(g)
                                 /\ l = LeafOf(g, limits, n, s)
ReachedAt(g, limits, left) ==
  \A l : \A n \in Nodes, seen \in Chains :
    l \in Collected(g, limits, left, n, seen).what <=> IsReached(g, limits, left, n, seen, l)

(* Those of a container are those of its items, one level up.              *)
LEMMA ItemsReached ==
  ASSUME NEW g, NEW limits, Bounded(g, limits), NEW n \in Nodes, NEW seen \in Chains, NEW left \in Nat,
         Entered(g, n, seen, left), ReachedAt(g, limits, left - 1), NEW l
  PROVE  l \in Collected(g, limits, left, n, seen).what <=> IsReached(g, limits, left, n, seen, l)
<1>1. PICK leaves, why :
        /\ Collected(g, limits, left, n, seen) = [what |-> leaves, why |-> why]
        /\ \A k : k \in leaves <=>
             \E i \in KeptOf(g, limits, n) :
               k \in LeavesUnder(i, KeyText(g, n, i), CollectedItem(g, limits, left, n, seen, i).what)
  BY EnteredCollection
<1>2. Collected(g, limits, left, n, seen).what = leaves
  BY <1>1
<1>3. ASSUME NEW i \in KeptOf(g, limits, n), NEW k
      PROVE  k \in CollectedItem(g, limits, left, n, seen, i).what <=>
               IsReached(g, limits, left - 1, ItemOf(g, n, i), seen \cup {n}, k)
  <2>1. ItemOf(g, n, i) \in Nodes /\ seen \cup {n} \in Chains
    BY ItemFacts
  <2> QED
    BY <2>1, Zenon DEF ReachedAt, CollectedItem
<1>4. KindOf(g, n) \in Containers /\ n \notin seen /\ left - 1 \in Nat
  BY DEF Entered
<1>5. ASSUME l \in leaves PROVE IsReached(g, limits, left, n, seen, l)
  <2>1. PICK i \in KeptOf(g, limits, n) :
          l \in LeavesUnder(i, KeyText(g, n, i), CollectedItem(g, limits, left, n, seen, i).what)
    BY <1>1, <1>5
  <2>2. PICK k \in CollectedItem(g, limits, left, n, seen, i).what :
          l = Leaf(<<i>> \o k.at, <<KeyText(g, n, i)>> \o k.path, k.what)
    BY <2>1, Zenon DEF LeavesUnder
  <2>3. PICK t \in Walks(limits, left - 1) :
          /\ WalkFrom(g, limits, ItemOf(g, n, i), t, seen \cup {n})
          /\ EndOf(g, limits, ItemOf(g, n, i), t) \in TensorNodes(g)
          /\ k = LeafOf(g, limits, ItemOf(g, n, i), t)
    BY <1>3, <2>1, <2>2, Zenon DEF IsReached
  <2> DEFINE s == Joined(i, t)
  <2>4. t \in Indices(limits) /\ Len(t) <= left - 1
    BY <2>3 DEF Walks
  <2>5. s \in Walks(limits, left)
    <3>1. s \in Indices(limits) /\ Len(s) = Len(t) + 1 /\ Len(t) \in Nat
      BY <2>1, <2>4, WalkOn
    <3> QED
      BY <1>4, <2>4, <3>1 DEF Walks
  <2>6. WalkFrom(g, limits, n, s, seen)
    BY <1>4, <2>1, <2>3, <2>4, WalkSplit
  <2>7. /\ EndOf(g, limits, n, s) \in TensorNodes(g)
        /\ LeafOf(g, limits, n, s) = Leaf(<<i>> \o k.at, <<KeyText(g, n, i)>> \o k.path, k.what)
    BY <2>1, <2>3, <2>4, LeafOn
  <2> HIDE DEF s
  <2> QED
    BY <2>2, <2>5, <2>6, <2>7, Zenon DEF IsReached
<1>6. ASSUME IsReached(g, limits, left, n, seen, l) PROVE l \in leaves
  <2>1. PICK s \in Walks(limits, left) :
          /\ WalkFrom(g, limits, n, s, seen) /\ EndOf(g, limits, n, s) \in TensorNodes(g)
          /\ l = LeafOf(g, limits, n, s)
    BY <1>6 DEF IsReached
  <2>2. s # <<>>
    <3>1. SUFFICES ASSUME s = <<>> PROVE FALSE
      OBVIOUS
    <3>2. n \in TensorNodes(g)
      BY <2>1, <3>1, EmptyWalk
    <3> QED
      BY <1>4, <3>2 DEF TensorNodes, KindOf, Containers, Tensors
  <2>3. PICK i \in KeptOf(g, limits, n) : \E t \in Walks(limits, left - 1) : s = Joined(i, t)
    BY <2>1, <2>2, FirstStep
  <2>4. PICK t \in Walks(limits, left - 1) : s = Joined(i, t)
    BY <2>3
  <2>5. t \in Indices(limits)
    BY <2>4 DEF Walks
  <2> DEFINE k == LeafOf(g, limits, ItemOf(g, n, i), t)
  <2>6. WalkFrom(g, limits, ItemOf(g, n, i), t, seen \cup {n})
    BY <2>1, <2>3, <2>4, <2>5, WalkSplit
  <2>7. /\ EndOf(g, limits, ItemOf(g, n, i), t) \in TensorNodes(g)
        /\ l = Leaf(<<i>> \o k.at, <<KeyText(g, n, i)>> \o k.path, k.what)
    BY <2>1, <2>3, <2>4, <2>5, LeafOn
  <2>8. k \in CollectedItem(g, limits, left, n, seen, i).what
    BY <1>3, <2>3, <2>4, <2>6, <2>7, Zenon DEF IsReached
  <2> HIDE DEF k
  <2>9. l \in LeavesUnder(i, KeyText(g, n, i), CollectedItem(g, limits, left, n, seen, i).what)
    BY <2>7, <2>8, Zenon DEF LeavesUnder
  <2> QED
    BY <1>1, <2>3, <2>9
<1> QED
  BY <1>2, <1>5, <1>6

(* On every level, a node's leaves are at the ends of the walks from it.   *)
LEMMA Reaching ==
  ASSUME NEW g, NEW limits, Bounded(g, limits), NEW left \in Nat
  PROVE  ReachedAt(g, limits, left)
<1>1. ASSUME NEW l \in Nat, l # 0 => ReachedAt(g, limits, l - 1), NEW n \in Nodes, NEW seen \in Chains,
             NEW leaf
      PROVE  leaf \in Collected(g, limits, l, n, seen).what <=> IsReached(g, limits, l, n, seen, leaf)
  <2>1. CASE Entered(g, n, seen, l)
    BY <1>1, <2>1, ItemsReached DEF Entered
  <2>2. CASE ~Entered(g, n, seen, l)
    <3>1. ASSUME NEW s \in Walks(limits, l), WalkFrom(g, limits, n, s, seen) PROVE s = <<>>
      <4>1. SUFFICES ASSUME s # <<>> PROVE FALSE
        OBVIOUS
      <4>2. l - 1 \in Nat
        BY <3>1, <4>1, FirstStep
      <4>3. PICK i \in KeptOf(g, limits, n) : \E t \in Walks(limits, l - 1) : s = Joined(i, t)
        BY <3>1, <4>1, FirstStep
      <4>4. PICK t \in Walks(limits, l - 1) : s = Joined(i, t)
        BY <4>3
      <4>5. t \in Indices(limits)
        BY <4>4 DEF Walks
      <4>6. /\ KindOf(g, n) \in Containers /\ n \notin seen
            /\ WalkFrom(g, limits, ItemOf(g, n, i), t, seen \cup {n})
        BY <3>1, <4>3, <4>4, <4>5, WalkSplit
      <4> QED
        BY <1>1, <2>2, <4>2, <4>6 DEF Entered
    <3>2. /\ <<>> \in Walks(limits, l) /\ WalkFrom(g, limits, n, <<>>, seen)
          /\ EndOf(g, limits, n, <<>>) = n /\ LeafOf(g, limits, n, <<>>) = Leaf(<<>>, <<>>, n)
      BY EmptyWalk
    <3>3. IsReached(g, limits, l, n, seen, leaf) <=> n \in TensorNodes(g) /\ leaf = Leaf(<<>>, <<>>, n)
      BY <3>1, <3>2, Zenon DEF IsReached
    <3>4. n \in TensorNodes(g) <=> KindOf(g, n) \in Tensors
      BY DEF TensorNodes, KindOf
    <3>5. \/ KindOf(g, n) \in Tensors /\ Collected(g, limits, l, n, seen).what = {Leaf(<<>>, <<>>, n)}
          \/ KindOf(g, n) \notin Tensors /\ Collected(g, limits, l, n, seen).what = {}
      BY <2>2, CollectCases DEF Found, Containers, Tensors
    <3> QED
      BY <3>3, <3>4, <3>5
  <2> QED
    BY <2>1, <2>2
<1> DEFINE S == {l \in Nat : ReachedAt(g, limits, l)}
<1>2. ASSUME NEW l \in Nat, l # 0 => l - 1 \in S PROVE l \in S
  <2>1. l # 0 => ReachedAt(g, limits, l - 1)
    BY <1>2
  <2>2. ReachedAt(g, limits, l)
    BY <1>1, <2>1 DEF ReachedAt
  <2> QED
    BY <2>2
<1> HIDE DEF S
<1>3. Nat \subseteq S
  BY <1>2, LevelInduction
<1> QED
  BY <1>3 DEF S

(* Walks as the reference definition of AllOrFailed has them.              *)
LEMMA ReachedFacts ==
  ASSUME NEW g, NEW limits, Bounded(g, limits), NEW n \in Nodes
  PROVE  Reached(g, limits, n) = Collected(g, limits, limits.depth, n, {}).what
<1>1. limits.depth \in Nat /\ {} \in Chains
  BY DEF Bounded, Chains
<1>2. \A l : l \in Collected(g, limits, limits.depth, n, {}).what <=>
               IsReached(g, limits, limits.depth, n, {}, l)
  BY <1>1, Reaching, Zenon DEF ReachedAt
<1>3. ASSUME NEW s \in Walks(limits, limits.depth)
      PROVE  /\ IsWalk(g, limits, Trail(g, limits, n, s), s) <=> WalkFrom(g, limits, n, s, {})
             /\ Trail(g, limits, n, s)[Len(s)] = EndOf(g, limits, n, s)
             /\ Leaf(s, [j \in DOMAIN s |-> KeyText(g, Trail(g, limits, n, s)[j - 1], s[j])],
                     Trail(g, limits, n, s)[Len(s)]) = LeafOf(g, limits, n, s)
  <2>1. DOMAIN s = 1 .. Len(s)
    BY LenProperties DEF Walks, Indices
  <2>2. IsWalk(g, limits, Trail(g, limits, n, s), s) <=> WalkFrom(g, limits, n, s, {})
    BY <2>1 DEF IsWalk, WalkFrom, StepFrom, KindOf, KeptOf, TrailAt
  <2>3. [j \in DOMAIN s |-> KeyText(g, Trail(g, limits, n, s)[j - 1], s[j])] = KeysOf(g, limits, n, s)
    BY <2>1, Zenon DEF KeysOf, TrailAt
  <2> QED
    BY <2>2, <2>3, Zenon DEF LeafOf, EndOf, TrailAt
<1>4. Steps(limits) = Walks(limits, limits.depth)
  BY <1>1, StepsAreWalks
<1>5. \A l : l \in Reached(g, limits, n) <=> IsReached(g, limits, limits.depth, n, {}, l)
  BY <1>3, <1>4, Zenon DEF Reached, IsReached
<1> QED
  BY <1>2, <1>5

-----------------------------------------------------------------------------
(* All or failed: a capture that is not refused has a tensor for every     *)
(* walk from a tensor argument to it, each of a kind the export can write, *)
(* and writes no more than the limit (payload.py: prepare_heavy_export).   *)
THEOREM AllOrFailedTheorem == PayloadSpec => []AllOrFailed
<1>1. ASSUME InputInv PROVE AllOrFailed
  <2>1. SUFFICES ASSUME NEW g \in Graphs, NEW args \in Calls, NEW limits \in Limits,
                        input = Payloads(g, args, limits), Heavy.captured
                 PROVE  AllOrFailed
    BY <1>1 DEF InputInv, AllOrFailed
  <2>2. /\ input.graph = g /\ input.args = args /\ input.limits = limits
        /\ Heavy = Manifest(g, args, limits)
    BY <2>1, InputFields
  <2>3. /\ Heavy.records = CollectLeaves(g, args, limits).what
        /\ ~Refused(g, CollectLeaves(g, args, limits).what, limits)
    BY <2>1, <2>2, ManifestFacts
  <2>4. \A i \in Present(args) :
          Reached(g, limits, args[TensorArgs[i]]) = TensorArgument(g, args, limits, i).what
    BY InputFacts, ReachedFacts DEF TensorArgument
  <2>5. Heavy.records =
          UNION {LeavesUnder(i, TensorArgs[i], Reached(g, limits, args[TensorArgs[i]])) : i \in Present(args)}
    <3>1. PICK what, why :
            /\ CollectLeaves(g, args, limits) = [what |-> what, why |-> why]
            /\ \A l : l \in what <=>
                 \E i \in Present(args) :
                   l \in LeavesUnder(i, TensorArgs[i], TensorArgument(g, args, limits, i).what)
      BY LeavesFacts
    <3>2. \A l : l \in Heavy.records <=>
            \E i \in Present(args) :
              l \in LeavesUnder(i, TensorArgs[i], Reached(g, limits, args[TensorArgs[i]]))
      BY <2>3, <2>4, <3>1
    <3> QED
      BY <3>2
  <2>6. \A l \in Heavy.records : Exportable(g.kind[l.what])
    BY <2>3 DEF Refused, HasUnsupported
  <2>7. Total(g, Heavy.records, [kind \in DOMAIN ItemSize |-> WrittenSize(kind)]) <= limits.export
    BY <2>3, Zenon DEF Refused, Fits, PredictedSize
  <2> QED
    BY <2>2, <2>5, <2>6, <2>7, Zenon DEF AllOrFailed
<1> QED
  BY <1>1, InputInvariant, PTL

-----------------------------------------------------------------------------
(***************************************************************************)
(* The commands that change what is being trained.                         *)
(***************************************************************************)
(* The types of two variables, with a name. *)
Answers == [outcome : {"none", "failed", "succeeded"}, optimizer : Int]
Moments(o) == [AllParams(o) -> {"none", "some", "zero"}]

(* A path of the model is what TuningTypeOK and ValuesStayValid say of it. *)
ValidAt(path, now) ==
  /\ \/ path \in Owned /\ now = Nothing
     \/ now = [InitialModel[path] EXCEPT !.v = now.v] /\ FitsType(path, now)
  /\ path \in DOMAIN Specs => FitsBounds(path, now) \/ now = InitialModel[path]

ShapeInv == DOMAIN lr = DOMAIN Optimizers

ValuesInv == ValuesStayValid /\ ShapeInv

USE DEF Answers, Moments

(* What the invariant says of the model, path by path.                     *)
LEMMA ModelIsValid ==
  ASSUME TuningTypeOK,
         \A path \in DOMAIN Specs \cap DOMAIN model : FitsBounds(path, model[path]) \/ model[path] = InitialModel[path]
  PROVE  \A path \in DOMAIN InitialModel : ValidAt(path, model[path])
  BY DEF TuningTypeOK, ValidAt

-----------------------------------------------------------------------------
(* int() drops the fraction towards zero, and keeps two numbers in order   *)
(* (cast_and_assign).                                                      *)
LEMMA Truncation ==
  ASSUME NEW a \in Int
  PROVE  /\ Truncated(a) \in Int /\ Truncated(a) % 2 = 0
         /\ a >= 0 => Truncated(a) <= a
         /\ a < 0 => Truncated(a) <= 0
         /\ \A b \in Int : a <= b => Truncated(a) <= Truncated(b)
<1>1. ASSUME NEW n \in Nat
      PROVE  n \div 2 \in Nat /\ 2 * (n \div 2) <= n /\ n <= 2 * (n \div 2) + 1
  BY <1>1
<1> DEFINE Cut(c, h) == \/ c >= 0 /\ Truncated(c) = 2 * h /\ 2 * h <= c /\ c <= 2 * h + 1
                        \/ c < 0 /\ Truncated(c) = -(2 * h) /\ 2 * h <= -c /\ -c <= 2 * h + 1
<1>2. \A c \in Int : \E h \in Nat : Cut(c, h)
  <2> TAKE c \in Int
  <2>1. CASE c >= 0
    <3>1. Cut(c, c \div 2) /\ c \div 2 \in Nat
      BY <1>1, <2>1 DEF Truncated
    <3> QED
      BY <3>1
  <2>2. CASE c < 0
    <3>1. Cut(c, (-c) \div 2) /\ (-c) \div 2 \in Nat
      BY <1>1, <2>2 DEF Truncated
    <3> QED
      BY <3>1
  <2> QED
    BY <2>1, <2>2
<1>3. PICK h \in Nat : Cut(a, h)
  BY <1>2
<1>4. ASSUME NEW b \in Int, a <= b PROVE Truncated(a) <= Truncated(b)
  <2>1. PICK k \in Nat : Cut(b, k)
    BY <1>2
  <2> QED
    BY <1>3, <1>4, <2>1
<1> QED
  BY <1>3, <1>4

(* A converted number is one its type can have.                            *)
LEMMA ConvertedFitsType ==
  ASSUME NEW type, NEW a \in Int, a < Infinity \/ a \in {Infinity, NaN}, Convertible(type, a)
  PROVE  ElementFitsType(type, Converted(type, a))
<1>1. CASE type = "int"
  <2>1. a < Infinity
    BY <1>1 DEF Convertible
  <2>2. /\ Truncated(a) \in Int /\ Truncated(a) % 2 = 0
        /\ Truncated(a) <= a \/ Truncated(a) <= 0
    BY Truncation, TuningAssumption
  <2>3. Truncated(a) \notin {NaN, Infinity}
    BY <2>1, <2>2, TuningAssumption
  <2> QED
    BY <1>1, <2>2, <2>3 DEF ElementFitsType, Converted
<1>2. CASE type # "int"
  BY <1>2 DEF ElementFitsType, Converted
<1> QED
  BY <1>1, <1>2

(* Converting a number within the bounds does not take it out of them,     *)
(* fractions aside.                                                        *)
LEMMA ConvertedFitsBounds ==
  ASSUME NEW path \in DOMAIN Specs, NEW type, NEW a \in Int, Convertible(type, a),
         InBounds(Specs[path], a) \/ (Specs[path].min = Unbounded /\ Specs[path].max = Unbounded)
  PROVE  ElementFitsBounds(Specs[path], type, Converted(type, a))
<1>1. Specs[path].min \in Int /\ Specs[path].max \in Int
  BY TuningAssumption
<1>2. CASE type = "int"
  <2>1. a # NaN
    BY <1>2 DEF Convertible
  <2>2. /\ Specs[path].min # Unbounded => Specs[path].min <= a
        /\ Specs[path].max # Unbounded => a <= Specs[path].max
    BY <1>1, <2>1 DEF InBounds, Below, Above
  <2>3. WithinCutBounds(Specs[path], Truncated(a))
    BY <1>1, <2>2, Truncation DEF WithinCutBounds
  <2> QED
    BY <1>2, <2>3 DEF ElementFitsBounds, Converted
<1>3. CASE type = "float"
  BY <1>3 DEF ElementFitsBounds, Converted, InBounds, Below, Above
<1> QED
  BY <1>2, <1>3 DEF ElementFitsBounds

(* The elements of what a request becomes are numbers, and within the      *)
(* bounds when the request was found to be.                                *)
LEMMA AsTensorElements ==
  ASSUME NEW request \in Requests, request.kind \in {"number", "list"}, NEW i \in DOMAIN AsTensor(request)
  PROVE  /\ AsTensor(request)[i] \in Int
         /\ AsTensor(request)[i] < Infinity \/ AsTensor(request)[i] \in {Infinity, NaN}
         /\ \A path \in DOMAIN Specs : Validated(Specs[path], request) =>
              \/ InBounds(Specs[path], AsTensor(request)[i])
              \/ Specs[path].min = Unbounded /\ Specs[path].max = Unbounded
  BY TuningAssumption DEF AsTensor, Validated, ListInBounds, AllInBounds

(* What a request is cast to has the type of what it replaces, and is      *)
(* within the bounds if the request was.                                   *)
LEMMA CastIsValid ==
  ASSUME NEW path \in DOMAIN InitialModel \cap DOMAIN Specs, NEW now, ValidAt(path, now),
         NEW request \in Requests, Castable(now, request), Validated(Specs[path], request)
  PROVE  ValidAt(path, Cast(now, request))
<1>1. DOMAIN InitialModel[path] = {"type", "tensor", "v"} /\ InitialModel[path].tensor \in BOOLEAN
  BY TuningAssumption
<1>2. now # Nothing
  BY DEF Castable, Nothing
<1>3. now = [InitialModel[path] EXCEPT !.v = now.v] /\ FitsType(path, now)
  BY <1>2 DEF ValidAt
<1> DEFINE cast == Cast(now, request)
<1> SUFFICES ValidAt(path, cast)
  OBVIOUS
<1>4. /\ cast = [InitialModel[path] EXCEPT !.v = cast.v]
      /\ cast.tensor = now.tensor /\ cast.type = now.type /\ now.tensor \in BOOLEAN
      /\ DOMAIN now = {"type", "tensor", "v"}
  BY <1>1, <1>3 DEF Cast
<1>5. CASE now.tensor
  <2>1. /\ request.kind \in {"number", "list"} /\ DOMAIN AsTensor(request) = DOMAIN now.v
        /\ \A i \in DOMAIN now.v : Convertible(now.type, AsTensor(request)[i])
    BY <1>5, Zenon DEF Castable, TensorCastable
  <2>2. cast.v = [i \in DOMAIN now.v |-> Converted(now.type, AsTensor(request)[i])]
    BY <1>4, <1>5 DEF Cast
  <2>3. DOMAIN cast.v = DOMAIN now.v
        /\ \A i \in DOMAIN now.v : cast.v[i] = Converted(now.type, AsTensor(request)[i])
    BY <2>2
  <2>4. DOMAIN now.v = DOMAIN InitialModel[path].v
    BY <1>3, <1>5 DEF FitsType
  <2> HIDE DEF cast
  <2>5. \A i \in DOMAIN cast.v : ElementFitsType(cast.type, cast.v[i])
    BY <1>4, <2>1, <2>3, AsTensorElements, ConvertedFitsType
  <2>6. \A i \in DOMAIN cast.v : ElementFitsBounds(Specs[path], cast.type, cast.v[i])
    BY <1>4, <2>1, <2>3, AsTensorElements, ConvertedFitsBounds
  <2>7. FitsType(path, cast) /\ FitsBounds(path, cast)
    BY <1>4, <1>5, <2>3, <2>4, <2>5, <2>6, Zenon DEF FitsType, FitsBounds
  <2> QED
    BY <1>4, <2>7, Zenon DEF ValidAt
<1>6. CASE ~now.tensor /\ now.type \in {"bool", "str"}
  <2>1. cast.v = IF now.type = "bool" THEN Truth(request) ELSE Converted(now.type, request.v)
    BY <1>4, <1>6 DEF Cast
  <2>2. ElementFitsType(now.type, cast.v) /\ ElementFitsBounds(Specs[path], now.type, cast.v)
    BY <1>6, <2>1 DEF ElementFitsType, ElementFitsBounds, Truth, Converted
  <2> HIDE DEF cast
  <2>3. FitsType(path, cast) /\ FitsBounds(path, cast)
    BY <1>4, <1>6, <2>2, Zenon DEF FitsType, FitsBounds
  <2> QED
    BY <1>4, <2>3, Zenon DEF ValidAt
<1>7. CASE ~now.tensor /\ now.type \in {"int", "float"}
  <2>1. request.kind \in {"number", "digits"} /\ Convertible(now.type, request.v)
    BY <1>7 DEF Castable
  <2>2. cast.v = Converted(now.type, request.v)
    BY <1>4, <1>7 DEF Cast
  <2>3. request.v \in Int /\ (request.v < Infinity \/ request.v \in {Infinity, NaN})
    BY <2>1, TuningAssumption
  <2>4. InBounds(Specs[path], request.v) \/ (Specs[path].min = Unbounded /\ Specs[path].max = Unbounded)
    BY <2>1 DEF Validated
  <2>5. ElementFitsType(now.type, cast.v) /\ ElementFitsBounds(Specs[path], now.type, cast.v)
    BY <2>1, <2>2, <2>3, <2>4, ConvertedFitsType, ConvertedFitsBounds
  <2> HIDE DEF cast
  <2>6. FitsType(path, cast) /\ FitsBounds(path, cast)
    BY <1>4, <1>7, <2>5, Zenon DEF FitsType, FitsBounds
  <2> QED
    BY <1>4, <2>6, Zenon DEF ValidAt
<1>8. now.tensor \/ now.type \in {"bool", "str", "int", "float"}
  BY DEF Castable
<1> QED
  BY <1>5, <1>6, <1>7, <1>8

-----------------------------------------------------------------------------
(* A model as it is built is valid.                                        *)
LEMMA ValuesInvInit == TuningInit => ValuesInv
<1> SUFFICES ASSUME TuningInit PROVE ValuesInv
  OBVIOUS
<1>1. \A path \in DOMAIN InitialModel : InitialModel[path] = [InitialModel[path] EXCEPT !.v = InitialModel[path].v]
  BY TuningAssumption
<1>2. TuningTypeOK
  BY <1>1, TuningAssumption DEF TuningInit, TuningTypeOK, NoAnswer
<1>3. ShapeInv /\ \A o \in DOMAIN lr : \A g \in DOMAIN lr[o] : lr[o][g] = 1
  BY DEF TuningInit, ShapeInv
<1>4. \A path \in DOMAIN Specs \cap DOMAIN model : model[path] = InitialModel[path]
  BY DEF TuningInit
<1> QED
  BY <1>2, <1>3, <1>4, TuningAssumption DEF ValuesInv, ValuesStayValid

(* A step that gives one path a valid value and leaves the optimizers      *)
(* alone keeps everything valid.                                           *)
LEMMA AssignStep ==
  ASSUME ValuesInv, NEW path \in DOMAIN model, NEW value,
         model' = [model EXCEPT ![path] = value], ValidAt(path, value),
         answer' \in Answers,
         UNCHANGED <<surgery, lr, moment, history>>
  PROVE  ValuesInv'
<1>1. DOMAIN model' = DOMAIN model /\ model'[path] = value
  OBVIOUS
<1>2. \A other \in DOMAIN model \ {path} : model'[other] = model[other]
  OBVIOUS
<1>3. DOMAIN model = DOMAIN InitialModel /\ \A p \in DOMAIN InitialModel : ValidAt(p, model[p])
  BY ModelIsValid DEF ValuesInv, ValuesStayValid, TuningTypeOK
<1>4. DOMAIN model' = DOMAIN InitialModel /\ \A p \in DOMAIN InitialModel : ValidAt(p, model'[p])
  BY <1>1, <1>2, <1>3
<1>5. TuningTypeOK'
  BY <1>4 DEF ValidAt, FitsType, ValuesInv, ValuesStayValid, TuningTypeOK
<1>6. \A p \in DOMAIN Specs \cap DOMAIN model' : FitsBounds(p, model'[p]) \/ model'[p] = InitialModel[p]
  BY <1>4 DEF ValidAt
<1> QED
  BY <1>5, <1>6 DEF ValuesInv, ValuesStayValid, ShapeInv, FitsBounds

(* set_hparam. *)
LEMMA SetHparamStep ==
  ASSUME ValuesInv, NEW path, NEW request \in Requests, SetHparam(path, request)
  PROVE  ValuesInv'
<1>1. answer' \in Answers
  BY DEF SetHparam, Answer
<1>2. CASE Accepted(path, request)
  <2>1. path \in DOMAIN Specs /\ path \in DOMAIN model /\ Validated(Specs[path], request)
        /\ Castable(model[path], request)
    BY <1>2 DEF Accepted
  <2>2. model' = [model EXCEPT ![path] = Cast(model[path], request)]
    BY <1>2 DEF SetHparam, Assigned
  <2>3. path \in DOMAIN InitialModel /\ ValidAt(path, model[path])
    BY <2>1, ModelIsValid DEF ValuesInv, ValuesStayValid, TuningTypeOK
  <2>4. ValidAt(path, Cast(model[path], request))
    BY <2>1, <2>3, CastIsValid
  <2>5. UNCHANGED <<surgery, lr, moment, history>>
    BY DEF SetHparam
  <2> QED
    BY <1>1, <2>1, <2>2, <2>4, <2>5, AssignStep
<1>3. CASE ~Accepted(path, request)
  BY <1>1, <1>3 DEF SetHparam, Assigned, ValuesInv, ValuesStayValid,
     TuningTypeOK, ShapeInv, FitsType, FitsBounds
<1> QED
  BY <1>2, <1>3

(* Training code that takes a field away and puts it back.                 *)
LEMMA TrainingWritesStep ==
  ASSUME ValuesInv, NEW path \in Owned, TrainingWrites(path)
  PROVE  ValuesInv'
<1> DEFINE value == IF model[path].type = "None" THEN InitialModel[path] ELSE Nothing
<1>1. path \in DOMAIN model /\ path \in DOMAIN InitialModel
  BY TuningAssumption DEF ValuesInv, ValuesStayValid, TuningTypeOK
<1>2. model' = [model EXCEPT ![path] = value] /\ UNCHANGED <<surgery, lr, moment, history>>
  BY DEF TrainingWrites
<1>3. ValidAt(path, Nothing)
  BY DEF ValidAt, FitsBounds, ElementFitsBounds, Nothing
<1>4. ValidAt(path, InitialModel[path])
  <2>1. InitialModel[path] = [InitialModel[path] EXCEPT !.v = InitialModel[path].v]
    BY <1>1, TuningAssumption
  <2> QED
    BY <1>1, <2>1, TuningAssumption DEF ValidAt
<1>5. answer' \in Answers
  BY DEF TrainingWrites, NoAnswer
<1> QED
  BY <1>1, <1>2, <1>3, <1>4, <1>5, AssignStep

(* set_learning_rate, and a scheduler that writes its own rate.            *)
LEMMA RateStep ==
  ASSUME ValuesInv,
         \/ \E i \in Int, group \in Int, v \in Rates : SetLearningRate(i, group, v)
         \/ \E o \in DOMAIN Optimizers : SchedulerStep(o)
  PROVE  ValuesInv'
<1>1. UNCHANGED <<surgery, model, moment, history>>
  BY DEF SetLearningRate, SchedulerStep
<1>2. DOMAIN lr' = DOMAIN Optimizers
  BY DEF SetLearningRate, SchedulerStep, ValuesInv, ShapeInv
<1>3. \A o \in DOMAIN lr' : \A g \in DOMAIN lr'[o] :
        lr'[o][g] \notin {NaN, Infinity} /\ lr'[o][g] >= 0
  <2>1. CASE \E o \in DOMAIN Optimizers : SchedulerStep(o)
    BY <2>1, <1>2, TuningAssumption DEF SchedulerStep, ValuesInv, ValuesStayValid, ShapeInv
  <2>2. ASSUME NEW i \in Int, NEW group \in Int, NEW v \in Rates, SetLearningRate(i, group, v)
        PROVE  \A o \in DOMAIN lr' : \A g \in DOMAIN lr'[o] :
                 lr'[o][g] \notin {NaN, Infinity} /\ lr'[o][g] >= 0
    BY <2>2, <1>2 DEF SetLearningRate, ValidRate, ValuesInv, ValuesStayValid, ShapeInv
  <2> QED
    BY <2>1, <2>2
<1>4. answer' \in Answers
  BY DEF SetLearningRate, SchedulerStep, Answer, NoAnswer
<1> QED
  BY <1>1, <1>2, <1>3, <1>4
  DEF ValuesInv, ValuesStayValid, TuningTypeOK, ShapeInv, ValidAt, FitsType, FitsBounds

(* reset_momentum, and an optimizer that steps.                            *)
LEMMA MomentumStep ==
  ASSUME ValuesInv,
         \/ \E i \in Int, selector \in Selectors : ResetMomentum(i, selector)
         \/ \E o \in DOMAIN Optimizers : OptimizerStep(o)
  PROVE  ValuesInv'
<1>1. UNCHANGED <<surgery, model, lr>>
  BY DEF ResetMomentum, OptimizerStep
<1>2. DOMAIN moment' = DOMAIN Optimizers /\ DOMAIN history' = DOMAIN Optimizers
  BY DEF ResetMomentum, OptimizerStep, ValuesInv, ValuesStayValid, TuningTypeOK
<1>3. \A o \in DOMAIN Optimizers :
        moment'[o] \in Moments(o) /\ history'[o] \subseteq AllParams(o)
  <2>1. \A o \in DOMAIN Optimizers :
          moment[o] \in Moments(o) /\ history[o] \subseteq AllParams(o)
    BY DEF ValuesInv, ValuesStayValid, TuningTypeOK
  <2>2. DOMAIN moment = DOMAIN Optimizers /\ DOMAIN history = DOMAIN Optimizers
    BY DEF ValuesInv, ValuesStayValid, TuningTypeOK
  <2>3. CASE \E o \in DOMAIN Optimizers : OptimizerStep(o)
    BY <2>1, <2>2, <2>3 DEF OptimizerStep
  <2>4. ASSUME NEW i \in Int, NEW selector \in Selectors, ResetMomentum(i, selector)
        PROVE  \A o \in DOMAIN Optimizers : moment'[o] \in Moments(o)
    <3> DEFINE o == Optimizer(i)
               reset == [p \in DOMAIN moment[o] |->
                           IF p \in Selected(o, selector)
                             THEN Reset(Optimizers[o].kind, moment[o][p]) ELSE moment[o][p]]
    <3>1. moment' = moment \/ moment' = [moment EXCEPT ![o] = reset]
      BY <2>4 DEF ResetMomentum
    <3>2. o \in DOMAIN Optimizers => reset \in Moments(o)
      BY <2>1 DEF Reset
    <3> HIDE DEF reset, o
    <3> QED
      BY <2>1, <2>2, <3>1, <3>2
  <2> QED
    BY <2>1, <2>3, <2>4 DEF ResetMomentum
<1>4. answer' \in Answers
  BY DEF ResetMomentum, OptimizerStep, Answer, NoAnswer
<1> QED
  BY <1>1, <1>2, <1>3, <1>4
  DEF ValuesInv, ValuesStayValid, TuningTypeOK, ShapeInv, ValidAt, FitsType, FitsBounds

(* Every step keeps the invariant. *)
LEMMA ValuesInvStep == ValuesInv /\ [TuningNext]_tuningVars => ValuesInv'
<1> SUFFICES ASSUME ValuesInv, [TuningNext]_tuningVars PROVE ValuesInv'
  OBVIOUS
<1>1. CASE UNCHANGED tuningVars
  BY <1>1 DEF tuningVars, ValuesInv, ValuesStayValid, TuningTypeOK, ShapeInv, ValidAt, FitsType, FitsBounds
<1>2. CASE \E path \in DOMAIN Specs \cup DOMAIN InitialModel, request \in Requests :
             SetHparam(path, request)
  BY <1>2, SetHparamStep
<1>3. CASE \E i \in -1 .. Len(Optimizers), group \in -1 .. 2, v \in Rates :
             SetLearningRate(i, group, v)
  BY <1>3, RateStep
<1>4. CASE \E i \in -1 .. Len(Optimizers), selector \in Selectors : ResetMomentum(i, selector)
  BY <1>4, MomentumStep
<1>5. CASE \E o \in DOMAIN Optimizers : OptimizerStep(o) \/ SchedulerStep(o)
  BY <1>5, MomentumStep, RateStep
<1>6. CASE \E path \in Owned : TrainingWrites(path)
  BY <1>6, TrainingWritesStep
<1> QED
  BY <1>1, <1>2, <1>3, <1>4, <1>5, <1>6 DEF TuningNext

(* No sequence of commands, in any order with the training loop's own      *)
(* writes, takes a knob out of its type or makes a learning rate negative  *)
(* or not a number; and a knob that no longer has its first value is       *)
(* within its bounds, an integer within them without their fractions, NaN  *)
(* counting as within.  The bounds of truth values and texts are exempt.   *)
THEOREM ValuesStayValidTheorem == TuningSpec => []ValuesStayValid
<1>1. ValuesInv => ValuesStayValid
  BY DEF ValuesInv
<1> QED
  BY <1>1, ValuesInvInit, ValuesInvStep, PTL DEF TuningSpec

(* A command that failed changed nothing, and one that succeeded changed   *)
(* the optimizer its answer names and no other, and no history.            *)
THEOREM AnswersAreExactTheorem == TuningSpec => AnswersAreExact
<1> DEFINE Exact ==
      /\ answer'.outcome = "failed" => UNCHANGED <<model, lr, moment, history>>
      /\ answer'.outcome = "succeeded" =>
           /\ history' = history
           /\ \A o \in DOMAIN Optimizers \ {Optimizer(answer'.optimizer)} :
                lr'[o] = lr[o] /\ moment'[o] = moment[o]
<1>1. ASSUME ValuesInv, TuningNext PROVE Exact
  <2>1. DOMAIN lr = DOMAIN Optimizers /\ DOMAIN moment = DOMAIN Optimizers
    BY <1>1 DEF ValuesInv, ValuesStayValid, TuningTypeOK, ShapeInv
  <2>2. ASSUME NEW path, NEW request, SetHparam(path, request) PROVE Exact
    BY <2>2 DEF SetHparam, Answer, Assigned
  <2>3. ASSUME NEW i, NEW group, NEW v, SetLearningRate(i, group, v) PROVE Exact
    BY <2>1, <2>3 DEF SetLearningRate, Answer
  <2>4. ASSUME NEW i, NEW selector, ResetMomentum(i, selector) PROVE Exact
    BY <2>1, <2>4 DEF ResetMomentum, Answer
  <2>5. ASSUME NEW o, OptimizerStep(o) \/ SchedulerStep(o) PROVE Exact
    BY <2>5 DEF OptimizerStep, SchedulerStep, NoAnswer
  <2>6. ASSUME NEW path, TrainingWrites(path) PROVE Exact
    BY <2>6 DEF TrainingWrites, NoAnswer
  <2> QED
    BY <1>1, <2>2, <2>3, <2>4, <2>5, <2>6 DEF TuningNext
<1>2. ValuesInv /\ [TuningNext]_tuningVars => [Exact]_tuningVars
  BY <1>1
<1> QED
  BY <1>2, ValuesInvInit, ValuesInvStep, PTL DEF TuningSpec, AnswersAreExact
=============================================================================
