------------------------------- MODULE Tuning -------------------------------
(***************************************************************************)
(* The commands that change what is being trained: set_hparam on a declared *)
(* knob, set_learning_rate and reset_momentum on an optimizer, with the    *)
(* training loop stepping the optimizers and writing its own fields in     *)
(* between.  When a command runs is RunControl's; here a command is one    *)
(* step of the training thread, which _execute turns into an outcome.      *)
(*                                                                         *)
(* Numbers are counted in halves, so that 1 is 0.5 and casting to an       *)
(* integer rounds to an even number; a float of any width holds them       *)
(* exactly.  A tensor is a function from the tuples of its indices to its  *)
(* elements: its shape is its domain, which is {<<>>} for rank 0.          *)
(***************************************************************************)
EXTENDS Integers, Sequences, SequencesExt

CONSTANTS
  Classes,      (* trainctl_tunable_hparams of the classes, the root's first: *)
                (* functions from paths to [min, max]                        *)
  InitialModel, (* the paths of the model: [type, tensor, v], a tensor's     *)
                (* type being that of its elements                           *)
  Owned,        (* the paths training code sets to None and back             *)
  Optimizers,   (* trainer.optimizers: [kind, groups], a group a set of      *)
                (* parameters                                                *)
  Requests,     (* values a set_hparam request may hold: [kind, v]           *)
  Rates,        (* numbers a set_learning_rate request may hold              *)
  Selectors,    (* selectors a reset_momentum request may hold: [by, what]   *)
  NaN, Infinity,
  Unbounded     (* no min, or no max                                         *)

VARIABLES
  surgery,      (* optimizer_surgery_enabled                                 *)
  model,        (* the tunable paths                                         *)
  lr,           (* the learning rate of each optimizer's groups              *)
  moment,       (* what each optimizer keeps of its parameters: the          *)
  history,      (* first-order momentum, and which have variance and steps   *)
  answer        (* of the last command: the outcome, and the optimizer named *)

tuningVars == <<surgery, model, lr, moment, history, answer>>

(* Two optimizers may hold the same parameter, and each keeps its own state. *)
AllParams(o) == UNION ToSet(Optimizers[o].groups)
NoAnswer == [outcome |-> "none", optimizer |-> 0]
Nothing == [type |-> "None", tensor |-> FALSE, v |-> 0]

(* collect_tunable_hparams: a derived class replaces an entry whole. *)
Specs == FoldLeft(LAMBDA specs, declared : declared @@ specs, <<>>, Classes)

TuningInit ==
  /\ surgery \in BOOLEAN
  /\ model = InitialModel
  /\ lr = [o \in DOMAIN Optimizers |-> [i \in DOMAIN Optimizers[o].groups |-> 1]]
  /\ moment = [o \in DOMAIN Optimizers |-> [p \in AllParams(o) |-> "none"]]
  /\ history = [o \in DOMAIN Optimizers |-> {}]
  /\ answer = NoAnswer

-----------------------------------------------------------------------------
(* validate_bounds and cast_and_assign.  A request's value is a number,    *)
(* the text of an integer ("digits"), another text, or a list, nested or   *)
(* not, of numbers, which is given as the tensor that it becomes.          *)

Below(a, b) == a # NaN /\ b # Unbounded /\ a < b
Above(a, b) == a # NaN /\ b # Unbounded /\ a > b
InBounds(spec, a) == ~Below(a, spec.min) /\ ~Above(a, spec.max)

(* Seeded bug: a list is refused when all its elements are out of bounds. *)
SomeInBounds(spec, list) == \E i \in DOMAIN list : InBounds(spec, list[i])
AllInBounds(spec, list) == \A i \in DOMAIN list : InBounds(spec, list[i])
ListInBounds(spec, list) == AllInBounds(spec, list)

(* A text compared with a number raises. *)
Validated(spec, request) ==
  \/ spec.min = Unbounded /\ spec.max = Unbounded
  \/ request.kind = "number" /\ InBounds(spec, request.v)
  \/ request.kind = "list" /\ ListInBounds(spec, request.v)

(* One number as an element of a type; NaN and the infinity are no integer. *)
Truncated(a) == IF a >= 0 THEN 2 * (a \div 2) ELSE -(2 * ((-a) \div 2))
Convertible(type, a) == type = "int" => a \notin {NaN, Infinity}
Converted(type, a) ==
  CASE type = "int"  -> Truncated(a)
    [] type = "bool" -> (IF a = 0 THEN 0 ELSE 2)
    [] type = "str"  -> 0                          (* texts are not told apart *)
    [] OTHER         -> a

(* What bool() makes of it: all but 0, the empty list and the empty text.  *)
Truth(request) ==
  CASE request.kind = "number" -> Converted("bool", request.v)
    [] request.kind = "list"   -> IF DOMAIN request.v = {} THEN 0 ELSE 2
    [] OTHER                   -> 2

(* torch.as_tensor, before it converts the elements.                       *)
AsTensor(request) ==
  IF request.kind = "number" THEN [i \in {<<>>} |-> request.v] ELSE request.v

TensorCastable(current, request) ==
  /\ request.kind \in {"number", "list"}
  /\ DOMAIN AsTensor(request) = DOMAIN current.v
  /\ \A i \in DOMAIN current.v : Convertible(current.type, AsTensor(request)[i])

(* What is no tensor and of another type, None above all, is unsupported.  *)
Castable(current, request) ==
  IF current.tensor THEN TensorCastable(current, request)
  ELSE \/ current.type \in {"bool", "str"}
       \/ /\ current.type \in {"int", "float"} /\ request.kind \in {"number", "digits"}
          /\ Convertible(current.type, request.v)

Cast(current, request) ==
  [current EXCEPT !.v =
     IF current.tensor
       THEN [i \in DOMAIN current.v |-> Converted(current.type, AsTensor(request)[i])]
       ELSE IF current.type = "bool" THEN Truth(request)
            ELSE Converted(current.type, request.v)]

Accepted(path, request) ==
  /\ path \in DOMAIN Specs /\ path \in DOMAIN model
  /\ Validated(Specs[path], request) /\ Castable(model[path], request)

(* Seeded bug: the bounds are checked after the assignment. *)
CastFirst(path, request) == path \in DOMAIN Specs \cap DOMAIN model /\ Castable(model[path], request)
Assigned(path, request) == Accepted(path, request)

Answer(ok, i) ==
  answer' = [outcome |-> IF ok THEN "succeeded" ELSE "failed", optimizer |-> i]

SetHparam(path, request) ==
  /\ Answer(Accepted(path, request), 0)
  /\ IF Assigned(path, request)
       THEN model' = [model EXCEPT ![path] = Cast(@, request)]
       ELSE UNCHANGED model
  /\ UNCHANGED <<surgery, lr, moment, history>>

-----------------------------------------------------------------------------
(* Sequences are indexed as Python does: a negative index counts from the  *)
(* end.  Group numbers are checked, optimizer numbers are not.             *)

HasOptimizer(i) == i \in -Len(Optimizers) .. Len(Optimizers) - 1
Optimizer(i) == IF i >= 0 THEN i + 1 ELSE Len(Optimizers) + i + 1
HasGroup(o, i) == i \in 0 .. Len(Optimizers[o].groups) - 1
All == -1

ValidRate(v) == v \notin {NaN, Infinity} /\ v >= 0

SetLearningRate(i, group, v) ==
  LET ok == /\ ValidRate(v) /\ HasOptimizer(i)
            /\ group = All \/ (surgery /\ HasGroup(Optimizer(i), group))
      chosen(g) == group = All \/ g = group + 1
  IN /\ Answer(ok, i)
     /\ IF ok
          THEN lr' = [lr EXCEPT ![Optimizer(i)] = [g \in DOMAIN @ |-> IF chosen(g) THEN v ELSE @[g]]]
          ELSE UNCHANGED lr
     /\ UNCHANGED <<surgery, model, moment, history>>

(* resolve_parameters: what a selector matches inside the optimizer.       *)
(* A name or a prefix is the set of parameters it matches. *)

Eligible(o) == AllParams(o)

Selected(o, selector) ==
  CASE selector.by = "all"   -> AllParams(o)
    [] selector.by = "group" -> IF HasGroup(o, selector.what)
                                  THEN Optimizers[o].groups[selector.what + 1] ELSE {}
    [] OTHER                 -> Eligible(o) \cap selector.what

(* An empty group is a match, a name or prefix that matches nothing raises. *)
Resolves(o, selector) ==
  \/ selector.by = "all"
  \/ selector.by = "group" /\ HasGroup(o, selector.what)
  \/ selector.by \in {"name", "prefix"} /\ Selected(o, selector) # {}

(* SGD drops the buffer and makes a new one, Adam zeroes exp_avg in place. *)
Reset(kind, m) ==
  IF m = "none" THEN m ELSE IF kind = "SGD" THEN "none" ELSE "zero"

ResetMomentum(i, selector) ==
  LET o == Optimizer(i)
      ok == /\ surgery /\ HasOptimizer(i)
            /\ Optimizers[o].kind \in {"SGD", "Adam"} /\ Resolves(o, selector)
  IN /\ Answer(ok, i)
     /\ IF ok
          THEN moment' = [moment EXCEPT ![o] =
                            [p \in DOMAIN @ |-> IF p \in Selected(o, selector)
                                                  THEN Reset(Optimizers[o].kind, @[p]) ELSE @[p]]]
          ELSE UNCHANGED moment
     /\ UNCHANGED <<surgery, model, lr, history>>

-----------------------------------------------------------------------------
(* The training loop: an optimizer steps, with the momentum it keeps; a    *)
(* scheduler writes its learning rates; training code has its own idea of  *)
(* a field.                                                                *)
OptimizerStep(o) ==
  /\ moment' = [moment EXCEPT ![o] = [p \in DOMAIN @ |-> "some"]]
  /\ history' = [history EXCEPT ![o] = AllParams(o)] /\ answer' = NoAnswer
  /\ UNCHANGED <<surgery, model, lr>>

SchedulerStep(o) ==
  /\ lr' = [lr EXCEPT ![o] = [g \in DOMAIN @ |-> 1]] /\ answer' = NoAnswer
  /\ UNCHANGED <<surgery, model, moment, history>>

TrainingWrites(path) ==
  /\ model' = [model EXCEPT ![path] =
                  IF @.type = "None" THEN InitialModel[path] ELSE Nothing]
  /\ answer' = NoAnswer
  /\ UNCHANGED <<surgery, lr, moment, history>>

TuningNext ==
  \/ \E path \in DOMAIN Specs \cup DOMAIN InitialModel, request \in Requests : SetHparam(path, request)
  \/ \E i \in -1 .. Len(Optimizers), group \in -1 .. 2, v \in Rates : SetLearningRate(i, group, v)
  \/ \E i \in -1 .. Len(Optimizers), selector \in Selectors : ResetMomentum(i, selector)
  \/ \E o \in DOMAIN Optimizers : OptimizerStep(o) \/ SchedulerStep(o)
  \/ \E path \in Owned : TrainingWrites(path)

TuningSpec == TuningInit /\ [][TuningNext]_tuningVars

-----------------------------------------------------------------------------
(* A value is one its type can have: of an integer no fraction, and of a   *)
(* tensor the shape it had.                                                *)
ElementFitsType(type, a) ==
  CASE type = "int"  -> a \in Int \ {NaN, Infinity} /\ a % 2 = 0
    [] type = "bool" -> a \in {0, 2}
    [] OTHER         -> a \in Int

FitsType(path, now) ==
  IF now.tensor
    THEN /\ DOMAIN now.v = DOMAIN InitialModel[path].v
         /\ \A i \in DOMAIN now.v : ElementFitsType(now.type, now.v[i])
    ELSE ElementFitsType(now.type, now.v)

(* Bounds are compared before the cast.  An integer, alone or in a tensor, *)
(* is cut off towards zero after it, and so are the bounds it is within.   *)
(* Of truth values and texts the bounds say nothing once they are cast.    *)
WithinCutBounds(spec, a) ==
  /\ spec.min # Unbounded => Truncated(spec.min) <= a
  /\ spec.max # Unbounded => a <= Truncated(spec.max)

ElementFitsBounds(spec, type, a) ==
  CASE type = "float" -> InBounds(spec, a)
    [] type = "int"   -> WithinCutBounds(spec, a)
    [] OTHER          -> TRUE

FitsBounds(path, now) ==
  IF now.tensor THEN \A i \in DOMAIN now.v : ElementFitsBounds(Specs[path], now.type, now.v[i])
  ELSE ElementFitsBounds(Specs[path], now.type, now.v)

(* Infinity and NaN stand above every number.  Whether the model was built *)
(* with values within its bounds nothing in the code checks, and nothing   *)
(* here assumes.                                                           *)
ASSUME TuningAssumption ==
  /\ Infinity \in Nat \ {0, 1} /\ NaN \in Nat /\ NaN > Infinity /\ Unbounded \in Int
  /\ \A path \in DOMAIN Specs : Specs[path].min \in Int /\ Specs[path].max \in Int
  /\ \A path \in DOMAIN InitialModel :
       /\ InitialModel[path] = [InitialModel[path] EXCEPT !.v = @]
       /\ DOMAIN InitialModel[path] = {"type", "tensor", "v"} /\ InitialModel[path].tensor \in BOOLEAN
       /\ FitsType(path, InitialModel[path])
  /\ Owned \subseteq DOMAIN InitialModel
  /\ \A request \in Requests :
       /\ request.kind = "number" => request.v \in Int /\ (request.v < Infinity \/ request.v \in {Infinity, NaN})
       /\ request.kind = "digits" => request.v \in Int /\ request.v < Infinity
       /\ request.kind = "list" => \A i \in DOMAIN request.v :
            request.v[i] \in Int /\ (request.v[i] < Infinity \/ request.v[i] \in {Infinity, NaN})
  /\ Rates \subseteq Int

(* Whatever is sent, a knob keeps the type it had, which the training code *)
(* relies on.                                                              *)
TuningTypeOK ==
  /\ surgery \in BOOLEAN
  /\ DOMAIN model = DOMAIN InitialModel
  /\ \A path \in DOMAIN model :
       \/ path \in Owned /\ model[path] = Nothing
       \/ /\ model[path] = [InitialModel[path] EXCEPT !.v = model[path].v]
          /\ FitsType(path, model[path])
  /\ DOMAIN moment = DOMAIN Optimizers /\ DOMAIN history = DOMAIN Optimizers
  /\ \A o \in DOMAIN Optimizers :
       moment[o] \in [AllParams(o) -> {"none", "some", "zero"}] /\ history[o] \subseteq AllParams(o)
  /\ answer \in [outcome : {"none", "failed", "succeeded"}, optimizer : Int]

(* No sequence of requests takes the model out of its types, or a learning *)
(* rate below zero or to a value that is not a number; and a knob is within *)
(* its bounds, or still what the model was built with.  Within its bounds  *)
(* means: NaN, which passes every comparison, counts as within; an integer *)
(* or an element of an integer tensor, cast after the bounds are compared  *)
(* (runtime.py 1121, 1123), is within the bounds without their fractions;  *)
(* a truth value and a text have none.                                     *)
ValuesStayValid ==
  /\ TuningTypeOK
  /\ \A o \in DOMAIN lr : \A g \in DOMAIN lr[o] : lr[o][g] \notin {NaN, Infinity} /\ lr[o][g] >= 0
  /\ \A path \in DOMAIN Specs \cap DOMAIN model :
       FitsBounds(path, model[path]) \/ model[path] = InitialModel[path]

(* A command does what its answer says.  One that is answered with a       *)
(* failure changed nothing before it failed; one that succeeded changed    *)
(* the optimizer its answer names and no other, not even the state another *)
(* keeps of a shared parameter, and no variance or step history.           *)
AnswersAreExact ==
  [][/\ answer'.outcome = "failed" => UNCHANGED <<model, lr, moment, history>>
     /\ answer'.outcome = "succeeded" =>
          /\ history' = history
          /\ \A o \in DOMAIN Optimizers \ {Optimizer(answer'.optimizer)} :
               lr'[o] = lr[o] /\ moment'[o] = moment[o]]_tuningVars
=============================================================================
