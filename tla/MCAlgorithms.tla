---------------------------- MODULE MCAlgorithms ----------------------------
(* Payload and Tuning on small instances for TLC.  They share nothing: a    *)
(* behaviour either picks the arguments of a callback, or takes the steps   *)
(* of Tuning from its initial state.                                        *)
EXTENDS Payload, Tuning

vars == <<input, surgery, model, lr, moment, history, answer>>

-----------------------------------------------------------------------------
(* on_train_batch_end's arguments: two that may carry tensors, and one     *)
(* node they may share.  A container holds up to two nodes, itself         *)
(* included; outputs may be missing from the call.                         *)

MCNodes == {"outputs", "batch", "shared", "index"}
MCTensorArgs == <<"outputs", "batch">>
MCArguments == MCNodes \ {"index"}
Items(kind) ==
  CASE kind = "collection" -> {<<>>} \cup {<<a>> : a \in MCArguments} \cup {<<a, b>> : a, b \in MCArguments}
    [] kind = "clashing"   -> {<<a, b>> : a, b \in MCArguments}
    [] OTHER               -> {<<>>}
NodeForms == UNION {{[kind |-> kind, items |-> items] : items \in Items(kind)} : kind \in Kinds}

(* outputs is a collection; batch is anything. *)
OutputForms == {f \in NodeForms : f.kind = "collection" /\ f.items # <<>>}

MCLimits ==
  {[items |-> 1, depth |-> 3, params |-> 21, export |-> 8], [items |-> 2, depth |-> 1, params |-> 99, export |-> 8],
   [items |-> 2, depth |-> 3, params |-> 99, export |-> 12]}
MCAmple == 9
MCCalls == {[outputs |-> "outputs", batch |-> "batch", batch_idx |-> "index"],
            [batch |-> "batch", batch_idx |-> "index"]}
MCGraph(o, b, s) ==
  LET form == [outputs |-> o, batch |-> b, shared |-> s, index |-> [kind |-> "number", items |-> <<>>]]
  IN [kind |-> [n \in DOMAIN form |-> form[n].kind], items |-> [n \in DOMAIN form |-> form[n].items]]
MCGraphs == {MCGraph(o, b, s) : o \in OutputForms, b, s \in NodeForms}

-----------------------------------------------------------------------------
MCUnbounded == 50
MCNaN == 40
MCInfinity == 30
Halves == {-1, 1, 3, MCNaN, MCInfinity}

(* A mixin declares bounds, a subclass replaces those of width. *)
MCClasses ==
  << [gain |-> [min |-> 1, max |-> 2], width |-> [min |-> 0, max |-> 1],
      mask |-> [min |-> 1, max |-> 3], name |-> [min |-> MCUnbounded, max |-> MCUnbounded]],
     [width |-> [min |-> 0, max |-> 2], scale |-> [min |-> 0, max |-> 2],
      gone |-> [min |-> MCUnbounded, max |-> MCUnbounded],
      optional |-> [min |-> MCUnbounded, max |-> MCUnbounded]] >>

(* mask is an integer tensor whose bounds have fractions, scale a tensor   *)
(* of rank 0 that starts outside its bounds.                               *)
List(items) == [i \in {<<k>> : k \in DOMAIN items} |-> items[i[1]]]
Scalar(type, v) == [type |-> type, tensor |-> FALSE, v |-> v]
Tensor(type, v) == [type |-> type, tensor |-> TRUE, v |-> v]
MCModel ==
  [gain |-> Scalar("float", 1), width |-> Scalar("int", 2), name |-> Scalar("str", 0),
   mask |-> Tensor("int", List(<<2, 2>>)), scale |-> Tensor("float", [i \in {<<>>} |-> 3]),
   optional |-> Scalar("bool", 0), hidden |-> Scalar("float", 1)]
MCOptimizers ==
  << [kind |-> "SGD", groups |-> <<{"a"}, {"b"}>>], [kind |-> "Adam", groups |-> <<{"b", "c"}>>] >>
MCRequests ==
  [kind : {"number"}, v : Halves]
    \cup [kind : {"list"}, v : {List(<<>>), List(<<1, 3>>), List(<<1, 5>>), List(<<1, MCNaN>>)}]
    \cup {[kind |-> "digits", v |-> 2], [kind |-> "text", v |-> 0]}
MCRates == {-1, 2, MCNaN}
MCSelectors ==
  [by : {"all"}, what : {{}}] \cup [by : {"group"}, what : {0, 2}]
    \cup {[by |-> "name", what |-> {"b"}], [by |-> "prefix", what |-> {"b", "c"}]}

-----------------------------------------------------------------------------
Init == PayloadInit /\ TuningInit

Next ==
  \/ input = NoInput /\ TuningInit /\ ~surgery /\ Fire /\ UNCHANGED tuningVars
  \/ input = NoInput /\ TuningNext /\ UNCHANGED input
  \/ input # NoInput /\ UNCHANGED vars

Spec == Init /\ [][Next]_vars
=============================================================================
