----------------------------- MODULE HoldProtocol -----------------------------
(***************************************************************************)
(* What trainctl promises about holds, without threads, queues or loops:   *)
(* training only ever proceeds while nothing holds it, anybody may release *)
(* a hold at any time, and a pause with nothing left to hold it ends.      *)
(***************************************************************************)
CONSTANTS Holds,   (* what can hold a run: hold commands, anomalies, ...     *)
          NoHold

VARIABLES run,     (* "running", "paused" (inside trainctl), or "over"       *)
          hold     (* the hold in force, if any                              *)

vars == <<run, hold>>

Init == run = "running" /\ hold = NoHold

(* A hook calls trainctl, which may hold the run at once (a non-finite     *)
(* batch, an exception in backward) or after executing commands.           *)
Pause ==
  /\ run = "running"
  /\ run' = "paused"
  /\ hold' \in Holds \cup {NoHold}

(* A later hold command supersedes the hold in force. *)
Engage ==
  /\ run = "paused"
  /\ hold' \in Holds
  /\ UNCHANGED run

Release ==
  /\ hold # NoHold
  /\ hold' = NoHold
  /\ UNCHANGED run

Resume ==
  /\ run = "paused" /\ hold = NoHold
  /\ run' \in {"running", "over"}
  /\ UNCHANGED hold

(* Training itself fails, or the breakpoint is disabled. *)
Fail ==
  /\ run = "running"
  /\ run' = "over"
  /\ UNCHANGED hold

Next == Pause \/ Engage \/ Release \/ Resume \/ Fail

Safety == Init /\ [][Next]_vars
Spec == Safety /\ WF_vars(Resume)
=============================================================================
