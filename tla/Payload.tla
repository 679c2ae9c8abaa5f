------------------------------- MODULE Payload -------------------------------
(***************************************************************************)
(* What a hook script is told about a callback's arguments: the bounded,   *)
(* cycle-safe description (describe_arguments), the parameters document of *)
(* a light script, and the tensors and the manifest of a heavy one.        *)
(*                                                                         *)
(* The arguments are nodes of an object graph g: g.kind[n] says what node  *)
(* n is, g.items[n] the nodes a container holds, in order.  Nodes may be   *)
(* shared, and containers may contain themselves.  The text of the i-th    *)
(* key of a container is i, except that the second key of a "clashing"     *)
(* mapping prints like its first ({1: a, "1": b}).  A description is the   *)
(* set of its places, a place the path to it and what stands there.        *)
(***************************************************************************)
EXTENDS Integers, Sequences, FiniteSetsExt

CONSTANTS
  Nodes,        (* the Python objects a callback's arguments are made of     *)
  Graphs,       (* what those may be: [kind, items], functions on Nodes      *)
  Calls,        (* the arguments of a call: functions from names to Nodes    *)
  TensorArgs,   (* the callback's tensor_arg_names                           *)
  Limits,       (* the bounds that may be configured                         *)
  Ample         (* no less than any of their bounds on items and levels      *)

VARIABLE
  input         (* the call, and what its two scripts are given              *)

Containers == {"collection", "clashing"}

(* float32, bfloat16 (written as float32), and what cannot be exported: a  *)
(* sparse, quantized, nested or meta tensor, or a dtype numpy lacks.       *)
Tensors == {"float32", "bfloat16", "unsupported"}
ItemSize == [float32 |-> 4, bfloat16 |-> 2]
Exportable(kind) == kind # "unsupported"
Scalars == Tensors \cup {"number", "long_string"}
Kinds == Containers \cup Scalars \cup {"object"}

(* What stands at a place that is not a tensor; a dropped document's null. *)
Told == {"container", "omitted", "cut", "truncated", "cycle", "number", "object"}
Null == "null"

ASSUME PayloadAssumption ==
  /\ Nodes \cap (Told \cup {Null}) = {}
  /\ \A g \in Graphs : g.kind \in [Nodes -> Kinds] /\ g.items \in [Nodes -> Seq(Nodes)]
  /\ \A args \in Calls : args \in [DOMAIN args -> Nodes]
  /\ Ample \in Nat
  /\ Limits \subseteq [items : 0 .. Ample, depth : 0 .. Ample, params : Nat, export : Nat]

KeyText(g, n, i) == IF g.kind[n] = "clashing" /\ i = 2 THEN 1 ELSE i

Kept(g, n, most) == {i \in DOMAIN g.items[n] : i <= most}
Omitted(g, n, most) == Len(g.items[n]) > most

(* A mapping's description has the last of the items whose keys print alike. *)
Shown(g, n, most) ==
  {i \in Kept(g, n, most) : \A j \in Kept(g, n, most) : j > i => KeyText(g, n, j) # KeyText(g, n, i)}

(* What a traversal returns: what it found, and the bounds it hit. *)
Found(what, why) == [what |-> what, why |-> why]
Place(path, what) == [path |-> path, what |-> what]
Under(key, places) == {Place(<<key>> \o p.path, p.what) : p \in places}

(* `left` counts the levels from `depth` to max_depth. *)
TooDeep(left) == left = 0

(* seen is the chain of containers above, since every container is taken   *)
(* out of it again when its items are done; below[m][s] is what the        *)
(* traversal returns for node m and seen = s one level further down.       *)
OfItem(g, n, seen, below, i) == below[g.items[n][i]][seen \cup {n}]

(* _describe. *)
DescribeItems(g, limits, n, seen, below) ==
  LET more == Omitted(g, n, limits.items)
  IN Found({Place(<<>>, "container")}
             \cup (UNION {Under(KeyText(g, n, i), OfItem(g, n, seen, below, i).what) :
                             i \in Shown(g, n, limits.items)})
             \cup (IF more THEN {Place(<<0>>, "omitted")} ELSE {}),
           (UNION {OfItem(g, n, seen, below, i).why : i \in Kept(g, n, limits.items)})
             \cup (IF more THEN {"max_items"} ELSE {}))

DescribeNode(g, limits, n, seen, left, below) ==
  LET kind == g.kind[n]
      deep == TooDeep(left)
  IN CASE kind \in Tensors               -> Found({Place(<<>>, n)}, {})
       [] kind = "number"                -> Found({Place(<<>>, kind)}, {})
       [] kind = "long_string"           -> Found({Place(<<>>, "cut")}, {"string_length"})
       [] kind \notin Scalars /\ deep    -> Found({Place(<<>>, "truncated")}, {"max_depth"})
       [] kind = "object" /\ ~deep       -> Found({Place(<<>>, kind)}, {})
       [] kind \in Containers /\ ~deep /\ n \in seen -> Found({Place(<<>>, "cycle")}, {})
       [] OTHER                          -> DescribeItems(g, limits, n, seen, below)

Describe(g, limits) ==
  LET D[left \in Nat] ==
        [n \in Nodes |-> [seen \in SUBSET Nodes |->
           DescribeNode(g, limits, n, seen, left, D[left - 1])]]
  IN D

(* describe_arguments; args maps names to nodes. *)
DescribeArguments(g, args, limits) ==
  LET sub(name) == Describe(g, limits)[limits.depth][args[name]][{}]
  IN Found(UNION {Under(name, sub(name).what) : name \in DOMAIN args},
           UNION {sub(name).why : name \in DOMAIN args})

-----------------------------------------------------------------------------
(* build_light_params.  A document is as large as its fields and places.   *)

Fields == 17
NoArguments == {Place(<<>>, Null)}
Document(arguments, why) == [arguments |-> arguments, truncated |-> why # {}, why |-> why]
Size(doc) == Fields + Cardinality(doc.arguments)

(* Seeded bug: dropping the arguments is not recorded as a truncation. *)
Silently(full) == Document(NoArguments, full.why)
Dropped(full) == Document(NoArguments, full.why \cup {"max_params_bytes"})

LightParams(g, args, limits) ==
  LET found == DescribeArguments(g, args, limits)
      full == Document(found.what, found.why)
  IN IF Size(full) <= limits.params THEN full ELSE Dropped(full)

-----------------------------------------------------------------------------
(* collect_tensor_leaves: the tensors, each with the path it was found at. *)
(* `at` tells apart leaves that share a path.  Seeded bug: the item past   *)
(* the bound is collected too.                                             *)

OneMore(most) == most + 1
CollectBound(most) == most

Leaf(at, path, what) == [at |-> at, path |-> path, what |-> what]
LeavesUnder(i, key, leaves) ==
  {Leaf(<<i>> \o l.at, <<key>> \o l.path, l.what) : l \in leaves}

CollectItems(g, limits, n, seen, below) ==
  LET kept == Kept(g, n, CollectBound(limits.items))
  IN Found(UNION {LeavesUnder(i, KeyText(g, n, i), OfItem(g, n, seen, below, i).what) : i \in kept},
           (UNION {OfItem(g, n, seen, below, i).why : i \in kept})
             \cup (IF Omitted(g, n, limits.items) THEN {"max_items"} ELSE {}))

CollectNode(g, limits, n, seen, left, below) ==
  LET kind == g.kind[n]
      deep == TooDeep(left)
  IN CASE kind \in Tensors                          -> Found({Leaf(<<>>, <<>>, n)}, {})
       [] kind \notin Tensors \cup Containers        -> Found({}, {})
       [] kind \in Containers /\ deep               -> Found({}, {"max_depth"})
       [] kind \in Containers /\ ~deep /\ n \in seen -> Found({}, {})
       [] OTHER -> CollectItems(g, limits, n, seen, below)

Collect(g, limits) ==
  LET C[left \in Nat] ==
        [n \in Nodes |-> [seen \in SUBSET Nodes |->
           CollectNode(g, limits, n, seen, left, C[left - 1])]]
  IN C

(* The positions of the tensor arguments that the call has. *)
Present(args) == {i \in DOMAIN TensorArgs : TensorArgs[i] \in DOMAIN args}

CollectLeaves(g, args, limits) ==
  LET sub(i) == Collect(g, limits)[limits.depth][args[TensorArgs[i]]][{}]
  IN Found(UNION {LeavesUnder(i, TensorArgs[i], sub(i).what) : i \in Present(args)},
           UNION {sub(i).why : i \in Present(args)})

(* prepare_heavy_export: every leaf is validated before one is copied.     *)
(* Seeded bug: the size is that of the tensor, not of what is written.     *)
AsItIs(kind) == ItemSize[kind]
WrittenSize(kind) == IF kind = "bfloat16" THEN ItemSize["float32"] ELSE ItemSize[kind]
PredictedSize(kind) == WrittenSize(kind)
Total(g, leaves, size) == MapThenSumSet(LAMBDA leaf : size[g.kind[leaf.what]], leaves)

HasUnsupported(g, leaves) == \E l \in leaves : ~Exportable(g.kind[l.what])

Fits(g, leaves, limits) ==
  Total(g, leaves, [kind \in DOMAIN ItemSize |-> PredictedSize(kind)]) <= limits.export

Refused(g, leaves, limits) == HasUnsupported(g, leaves) \/ ~Fits(g, leaves, limits)

(* dispatch_heavy's manifest: export_tensors writes the leaves to numbered *)
(* files, build_heavy_manifest describes the same arguments once more.     *)
Manifest(g, args, limits) ==
  LET leaves == CollectLeaves(g, args, limits)
      restricted == [name \in {TensorArgs[i] : i \in Present(args)} |-> args[name]]
      described == DescribeArguments(g, restricted, limits)
  IN IF Refused(g, leaves.what, limits)
       THEN [captured |-> FALSE]
       ELSE [captured |-> TRUE, records |-> leaves.what, arguments |-> described.what,
             truncated |-> leaves.why \cup described.why # {}]

-----------------------------------------------------------------------------
(* dispatch_light and dispatch_heavy, for one firing of a callback. *)

NoInput == [args |-> <<>>]

Payloads(g, args, limits) ==
  [graph |-> g, args |-> args, limits |-> limits,
   light |-> LightParams(g, args, limits), heavy |-> Manifest(g, args, limits)]

PayloadInit == input = NoInput
Fire == \E g \in Graphs, args \in Calls, limits \in Limits : input' = Payloads(g, args, limits)
PayloadSpec == PayloadInit /\ [][input = NoInput /\ Fire]_input

-----------------------------------------------------------------------------
Light == input.light
Heavy == input.heavy
TensorNodes(g) == {n \in Nodes : g.kind[n] \in Tensors}
NoClash(g) == \A n \in Nodes : g.kind[n] # "clashing"
PlacesOf(leaves) == {Place(l.path, l.what) : l \in leaves}

(* Every exported tensor is described at the path its record names, and    *)
(* every described one is exported: the two traversals, written apart,     *)
(* cut shared, cyclic and oversized arguments at the same places           *)
(* (payload.py 449-453).  Two keys that print alike are the exception: one *)
(* of the two is described.                                                *)
TensorsCorrelate ==
  input # NoInput /\ Heavy.captured =>
    LET exported == PlacesOf(Heavy.records)
        described == {p \in Heavy.arguments : p.what \in TensorNodes(input.graph)}
    IN described \subseteq exported /\ (NoClash(input.graph) => exported = described)

(* A script that is told nothing was truncated got everything: its         *)
(* description and its tensors are those of ample bounds.  And it is not   *)
(* told so for nothing, if those bounds are ample enough: then a place is  *)
(* missing or cut.                                                         *)
TruncationIsTold ==
  input # NoInput =>
    LET ample == [input.limits EXCEPT !.items = Ample, !.depth = Ample]
        all == DescribeArguments(input.graph, input.args, ample)
    IN /\ ~Light.truncated => Light.arguments = all.what
       /\ Light.truncated /\ NoClash(input.graph) /\ all.why \subseteq {"string_length"} =>
            Light.arguments # all.what \/ \E p \in all.what : p.what = "cut"
       /\ Heavy.captured /\ ~Heavy.truncated =>
            Heavy.records = CollectLeaves(input.graph, input.args, ample).what

(* The node that the first j of the steps s lead to from n, by the items   *)
(* of containers; a step that is not to be taken leads nowhere.            *)
Trail(g, limits, n, s) ==
  LET T[j \in Nat] ==
        IF j = 0 THEN n
        ELSE IF s[j] \in Kept(g, T[j - 1], limits.items) THEN g.items[T[j - 1]][s[j]] ELSE T[j - 1]
  IN T

(* Steps through no container twice, by one of the first items of each.    *)
IsWalk(g, limits, trail, s) ==
  \A j \in DOMAIN s :
    LET m == trail[j - 1]
    IN /\ g.kind[m] \in Containers /\ s[j] \in Kept(g, m, limits.items)
       /\ \A i \in DOMAIN s : i < j => trail[i - 1] # m

Steps(limits) == UNION {[1 .. l -> 1 .. limits.items] : l \in 0 .. limits.depth}

(* The tensors at the end of a walk of at most `depth` steps.              *)
Reached(g, limits, n) ==
  {Leaf(s, [j \in DOMAIN s |-> KeyText(g, Trail(g, limits, n, s)[j - 1], s[j])],
        Trail(g, limits, n, s)[Len(s)]) :
     s \in {s \in Steps(limits) : /\ IsWalk(g, limits, Trail(g, limits, n, s), s)
                                  /\ Trail(g, limits, n, s)[Len(s)] \in TensorNodes(g)}}

(* All or failed: a capture that is not refused has a tensor for every     *)
(* walk from a tensor argument to it, each of a kind the export can write, *)
(* and writes no more than the limit.                                      *)
AllOrFailed ==
  input # NoInput /\ Heavy.captured =>
    /\ Heavy.records =
         UNION {LeavesUnder(i, TensorArgs[i],
                            Reached(input.graph, input.limits, input.args[TensorArgs[i]])) :
                  i \in Present(input.args)}
    /\ \A l \in Heavy.records : Exportable(input.graph.kind[l.what])
    /\ Total(input.graph, Heavy.records, [kind \in DOMAIN ItemSize |-> WrittenSize(kind)])
         <= input.limits.export
=============================================================================
