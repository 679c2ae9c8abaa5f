------------------------------- MODULE Commands -------------------------------
(***************************************************************************)
(* The vocabulary of trainctl's control plane: safe points, command kinds, *)
(* and the `when` condition that makes a queued command due.               *)
(*                                                                         *)
(* Sources: trainctl/runtime/events.py, trainctl/runtime/commands.py, and  *)
(* the two allow-lists at the top of trainctl/runtime/runtime.py.          *)
(***************************************************************************)
EXTENDS Integers

(* SafePoint (a StrEnum), and Python's None where a safe point is optional. *)
SafePoint == {"train_batch_end", "train_epoch_end", "validation_epoch_end",
              "before_optimizer_step", "fit_end"}
NoSafePoint == "None"

(* The kinds of command with a handler in _HANDLERS. *)
Handled == {"hold", "stop", "checkpoint", "snapshot", "set_learning_rate",
            "reset_momentum", "set_dataloader_finite_check", "set_hparam",
            "save_current_batch", "save_current_loss", "save_partial_gradients",
            "save_optimizer_summary", "release_exception", "torchinfo_capture",
            "profile", "torchview_capture", "torchviz_capture",
            "torchlens_capture", "set_lightning_profiler"}

AllowedDuringHold == {"checkpoint", "snapshot", "set_learning_rate",
                      "reset_momentum", "set_dataloader_finite_check",
                      "set_hparam", "stop", "torchinfo_capture", "profile",
                      "torchview_capture", "torchviz_capture",
                      "torchlens_capture", "set_lightning_profiler"}

AllowedDuringException == {"save_current_batch", "save_current_loss",
                           "save_partial_gradients", "save_optimizer_summary",
                           "release_exception", "torchviz_capture"}

-----------------------------------------------------------------------------
(***************************************************************************)
(* CommandWhen.  An optional number is a set with at most one element, so  *)
(* that None is {}.                                                        *)
(***************************************************************************)
When == [safe_point : SafePoint \cup {NoSafePoint}, occurrence : STRING,
         epoch : SUBSET Int, step : SUBSET Int]

Scored == {"next", "epoch", "step"}
Unconditional == {"immediate", "next_any"}

(***************************************************************************)
(* CommandWhen.is_due raises ValueError where it can neither match nor     *)
(* score the occurrence: only at a real safe point, for the early return   *)
(* on None comes first.                                                    *)
(***************************************************************************)
IsDueRaises(when, safePoint) ==
  /\ when.occurrence \notin Scored \cup Unconditional
  /\ safePoint # NoSafePoint

(* Seeded bug: `step` compares with the exact step instead of "at or after". *)
IsDueExactStep(when, safePoint, epoch, step) ==
  \/ when.occurrence \in Unconditional
  \/ /\ when.occurrence = "step" /\ safePoint # NoSafePoint
     /\ step \in when.step

IsDue(when, safePoint, epoch, step) ==
  \/ when.occurrence \in Unconditional
  \/ /\ safePoint # NoSafePoint
     /\ \/ when.occurrence = "next" /\ when.safe_point = safePoint
        \/ /\ when.occurrence = "epoch" /\ when.safe_point = safePoint
           /\ \E e \in when.epoch : epoch >= e
        \/ /\ when.occurrence = "step"
           /\ \E s \in when.step : step >= s

-----------------------------------------------------------------------------
(***************************************************************************)
(* parse_when.  A raw JSON value is [form |-> ..., fields |-> ...]: `form` *)
(* is "now" (the string, or an absent field), "next_safe_point",           *)
(* "mapping", or anything else, and `fields` holds a mapping's keys.  An   *)
(* empty string and null both mean "no safe point".  An epoch or a global  *)
(* step is the set of the number that int() makes of it: {} if int()       *)
(* raises.                                                                 *)
(***************************************************************************)
Get(fields, key, default) == IF key \in DOMAIN fields THEN fields[key] ELSE default

(* The number a mapping gives; of an epoch and a global step, the latter   *)
(* is not read.                                                            *)
NoNumber == {0}
Number(fields) == Get(fields, "epoch", Get(fields, "global_step", NoNumber))

ParseFails(raw) ==
  \/ raw.form \notin {"now", "next_safe_point", "mapping"}
  \/ /\ raw.form = "mapping"
     /\ \/ Get(raw.fields, "safe_point", NoSafePoint) \notin SafePoint \cup {NoSafePoint}
        \/ Number(raw.fields) = {}

ParseMapping(fields) ==
  LET sp == Get(fields, "safe_point", NoSafePoint)
  IN  IF "epoch" \in DOMAIN fields
      THEN [safe_point |-> sp, occurrence |-> "epoch", epoch |-> fields.epoch, step |-> {}]
      ELSE IF "global_step" \in DOMAIN fields
      THEN [safe_point |-> sp, occurrence |-> "step", epoch |-> {}, step |-> fields.global_step]
      ELSE [safe_point |-> sp, occurrence |-> Get(fields, "occurrence", "next"),
            epoch |-> {}, step |-> {}]

ParseWhen(raw) ==
  CASE raw.form = "now" ->
         [safe_point |-> NoSafePoint, occurrence |-> "immediate", epoch |-> {}, step |-> {}]
    [] raw.form = "next_safe_point" ->
         [safe_point |-> NoSafePoint, occurrence |-> "next_any", epoch |-> {}, step |-> {}]
    [] OTHER -> ParseMapping(raw.fields)
=============================================================================
