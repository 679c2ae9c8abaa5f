------------------------------ MODULE RunControl ------------------------------
(***************************************************************************)
(* Cooperative run control: one Lightning training thread, the REST        *)
(* handler threads that submit, cancel and release, and the command queue  *)
(* and run gate they share.                                                *)
(*                                                                         *)
(* The training thread's control code (TrainctlRuntime.process_safe_point, *)
(* _hold_loop, _exception_hold_loop, _run_due_commands, _execute, _publish *)
(* and the per-batch hooks) is cut at every acquisition of a lock that     *)
(* another thread also takes, so each action below contains at most one    *)
(* access to the queue, the gate or the control event.  A REST handler is  *)
(* cut in the same way.  What Lightning does between two hooks is the      *)
(* nondeterministic choice of the next hook.                               *)
(***************************************************************************)
EXTENDS Commands, FiniteSets

CONSTANTS
  Clients,          (* REST handler threads                                  *)
  Kinds,            (* the command kinds clients submit                      *)
  Requests,         (* the raw `when` values clients submit                  *)
  MaxCommands,      (* bound: commands submitted in one run                  *)
  MaxEpoch,         (* bound: where the epoch counter saturates              *)
  MaxStep,          (* bound: where the global step counter saturates        *)
  MaxProfileSteps,  (* bound: warmup_steps + active_steps of a profile       *)
  BreakOnException, (* config.break_on_backward_exception                    *)
  FiniteCheck       (* config.dataloader_finite_check_enabled                *)

ASSUME RunControlAssumption ==
  /\ MaxCommands \in Nat
  /\ MaxEpoch \in Nat /\ MaxStep \in Nat
  /\ MaxProfileSteps \in Nat \ {0}
  /\ Kinds \subseteq STRING
  /\ \A r \in Requests : ~ParseFails(r) => ParseWhen(r) \in When
  /\ BreakOnException \in BOOLEAN /\ FiniteCheck \in BOOLEAN

VARIABLES
  phase,        (* the Lightning hook the training thread is in, or goes to  *)
  pc,           (* where its control code stands; "training" outside of it   *)
  mode,         (* the loop that called _run_due_commands                    *)
  epoch, step, shouldStop,        (* of the Trainer                          *)
  batchLive,    (* current_step.batch is not None                            *)
  guard,        (* finite_guard.enabled                                      *)
  profiler, thenHold,    (* steps left of profiler_run (0: None), then_hold  *)
  work, current, outcome,  (* due commands still to run, the one in _execute *)
  commands, submitted,   (* CommandQueue._commands, in insertion order       *)
  active, controlEvent,  (* RunGate._active_hold, RunGate._control_event     *)
  exception,    (* _exception_hold is not None                               *)
  status, snapshot,      (* the status about to be published; StateStore     *)
  rest,         (* the REST server accepts requests                          *)
  client        (* the state of each REST handler thread                     *)

control == <<phase, pc, mode>>
trainer == <<epoch, step, shouldStop>>
batch == <<batchLive, guard, profiler, thenHold>>
execution == <<work, current, outcome>>
queue == <<commands, submitted>>
gate == <<active, controlEvent>>
published == <<status, snapshot>>
service == <<rest, client>>
vars == <<phase, pc, mode, epoch, step, shouldStop, batchLive, guard, profiler,
          thenHold, work, current, outcome, commands, submitted, active,
          controlEvent, exception, status, snapshot, rest, client>>

-----------------------------------------------------------------------------
(* Command ids number the queue's entries in insertion order. *)
Ids == 1 .. MaxCommands
NoId == 0
AnomalyHold == MaxCommands + 1      (* the hold of _handle_bad_batch          *)
ProfilerHold == MaxCommands + 2     (* the then_hold of _advance_profiler     *)
NoHold == NoId
Holds == Ids \cup {AnomalyHold, ProfilerHold}

(* The safe point each hook of TrainctlMixin reports. *)
SafePointOf == [optimizer_step |-> "before_optimizer_step",
                batch_end |-> "train_batch_end",
                epoch_end |-> "train_epoch_end",
                validation_end |-> "validation_epoch_end",
                fit_end |-> "fit_end"]
AtSafePoint == phase \in DOMAIN SafePointOf

Phases == {"batch_start", "backward", "optimizer_step", "batch_end",
           "batch_finish", "unwinding", "validation_end", "epoch_end",
           "fit_end", "teardown", "over", "aborted"}
Dead == {"over", "aborted"}
Steps == {"training", "scan", "pick", "handle", "record", "status", "publish",
          "check", "announce", "loop", "recheck", "wait", "clear", "resume",
          "finish", "stopping"}
Modes == {"none", "safe_point", "hold", "exception"}

AllowedIn(m) == CASE m = "hold" -> AllowedDuringHold
                  [] m = "exception" -> AllowedDuringException
                  [] OTHER -> Kinds

CommandStatus == {"absent", "queued", "executing", "succeeded", "failed", "cancelled"}
NoWhen == [safe_point |-> NoSafePoint, occurrence |-> "next", epoch |-> {}, step |-> {}]
NoCommand == [kind |-> "none", when |-> NoWhen, status |-> "absent"]
Command == [kind : Kinds \cup {"none"}, when : When \cup {NoWhen}, status : CommandStatus]

PublishedStatus == {"running", "held", "exception_held", "stopping", "finished"}
Snapshot == [status : PublishedStatus, hold_state : {"none", "held"}, exception : BOOLEAN]

Idle == [at |-> "idle", id |-> NoId]
Client == [at : {"idle", "notify", "release", "wake"}, id : Holds \cup {NoId}]

Init ==
  /\ phase \in {"validation_end", "batch_start"}   (* the sanity check, or none *)
  /\ pc = "training" /\ mode = "none"
  /\ epoch = 0 /\ step = 0 /\ shouldStop = FALSE
  /\ batchLive = FALSE /\ guard = FiniteCheck /\ profiler = 0 /\ thenHold = FALSE
  /\ work = {} /\ current = NoId /\ outcome = "succeeded"
  /\ commands = [c \in Ids |-> NoCommand] /\ submitted = 0
  /\ active = NoHold /\ controlEvent = FALSE /\ exception = FALSE
  /\ status = "running"
  /\ snapshot = [status |-> "running", hold_state |-> "none", exception |-> FALSE]
  /\ rest = TRUE /\ client = [t \in Clients |-> Idle]

-----------------------------------------------------------------------------
(***************************************************************************)
(* Where Lightning goes after a hook.  Validation may run in mid-epoch or  *)
(* not at all; a requested stop ends the epoch after the batch and the fit *)
(* after the epoch.                                                        *)
(***************************************************************************)
After(p) ==
  CASE p = "batch_start" -> {"backward"}
    [] p = "backward" -> {"aborted"}
    [] p = "optimizer_step" -> {"batch_end"}
    [] p = "batch_end" -> {"batch_finish"}
    [] p = "unwinding" -> {"aborted"}
    [] p \in {"batch_finish", "validation_end"} ->
         {"validation_end", "epoch_end"} \cup (IF shouldStop THEN {} ELSE {"batch_start"})
    [] p = "epoch_end" -> {"fit_end"} \cup (IF shouldStop THEN {} ELSE {"batch_start"})
    [] OTHER -> {"teardown"}

Saturate(n, max) == IF n < max THEN n + 1 ELSE n

(***************************************************************************)
(* The control code of a hook returns to Lightning (for batch_end: to      *)
(* finish_train_batch, in the finally block of the same hook).             *)
(***************************************************************************)
LeaveControl ==
  /\ phase' \in After(phase)
  /\ pc' = IF phase = "batch_end" THEN "finish" ELSE "training"
  /\ mode' = "none"
  /\ step' = IF phase = "optimizer_step" THEN Saturate(step, MaxStep) ELSE step
  /\ epoch' = IF phase = "epoch_end" THEN Saturate(epoch, MaxEpoch) ELSE epoch
  /\ batchLive' = IF phase \in {"batch_finish", "unwinding"} THEN FALSE ELSE batchLive
  /\ UNCHANGED shouldStop

Stay(s) == pc' = s /\ UNCHANGED <<phase, mode, trainer, batchLive>>

-----------------------------------------------------------------------------
(* Lightning calls a hook: pc leaves "training". *)

Begin(p) == phase = p /\ pc = "training"

(***************************************************************************)
(* on_train_batch_start.  A bad batch found by an enabled finite guard     *)
(* writes a snapshot to disk, which may raise, and enters a hold of its    *)
(* own, bypassing the command queue.                                       *)
(***************************************************************************)
BatchStart ==
  /\ Begin("batch_start")
  /\ batchLive' = TRUE
  /\ \/ phase' = "backward" /\ UNCHANGED <<pc, mode, active, status>>
     \/ guard /\ phase' = "aborted" /\ UNCHANGED <<pc, mode, active, status>>
     \/ /\ guard
        /\ active' = AnomalyHold
        /\ status' = "held" /\ mode' = "hold" /\ pc' = "announce"
        /\ UNCHANGED phase
  /\ UNCHANGED <<trainer, guard, profiler, thenHold, execution, queue,
                 controlEvent, exception, snapshot, service>>

(* on_before_backward .. on_after_backward: backward() may raise.  Under     *)
(* gradient accumulation the batch ends without an optimizer step.          *)
Backward ==
  /\ Begin("backward")
  /\ \/ phase' \in {"optimizer_step", "batch_end"} /\ UNCHANGED <<pc, mode, exception, status>>
     \/ /\ BreakOnException
        /\ exception' = TRUE
        /\ status' = "exception_held" /\ mode' = "exception" /\ pc' = "announce"
        /\ UNCHANGED phase
     \/ /\ ~BreakOnException
        /\ phase' = "aborted" /\ UNCHANGED <<pc, mode, exception, status>>
  /\ UNCHANGED <<trainer, batch, execution, queue, gate, snapshot, service>>

(* The hooks that call process_safe_point. *)
EnterSafePoint ==
  /\ AtSafePoint /\ pc = "training"
  /\ pc' = "scan" /\ mode' = "safe_point"
  /\ UNCHANGED <<phase, trainer, batch, execution, queue, gate, exception,
                 published, service>>

-----------------------------------------------------------------------------
(* _run_due_commands and _execute. *)

ScoredAt == IF mode = "safe_point" THEN SafePointOf[phase] ELSE NoSafePoint
Queued(c) == commands[c].status = "queued"

(* Seeded bug: due() forgets a cancelled status. *)
DueIgnoringCancel(sp) ==
  {c \in Ids : commands[c].status \in {"queued", "cancelled"}
               /\ IsDue(commands[c].when, sp, epoch, step)}

Due(sp) == {c \in Ids : Queued(c) /\ IsDue(commands[c].when, sp, epoch, step)}

DueRaises(sp) == \E c \in Ids : Queued(c) /\ IsDueRaises(commands[c].when, sp)

Runnable == {c \in Due(ScoredAt) : commands[c].kind \in AllowedIn(mode)}

(***************************************************************************)
(* CommandQueue.due: a snapshot, taken under the lock, of what will run.   *)
(* is_due may raise; nothing on the way up catches it.  At train_batch_end *)
(* the hook's finally block still runs finish_train_batch.                 *)
(***************************************************************************)
Scan ==
  /\ pc = "scan"
  /\ IF DueRaises(ScoredAt)
     THEN /\ phase' = IF phase = "batch_end" THEN "unwinding" ELSE "aborted"
          /\ pc' = IF phase = "batch_end" THEN "finish" ELSE "training"
          /\ mode' = "none"
          /\ UNCHANGED <<trainer, batchLive, work>>
     ELSE work' = Runnable /\ Stay("pick")
  /\ UNCHANGED <<guard, profiler, thenHold, current, outcome, queue, gate,
                 exception, published, service>>

(* Seeded bug: the snapshot is not walked in submission order. *)
AnyOf(c) == c \in work
NextInOrder(c) == c \in work /\ \A d \in work : c <= d

(* CommandQueue.mark_executing, whatever the command's status is by now. *)
StartCommand ==
  /\ pc = "pick"
  /\ \E c \in Ids :
       /\ NextInOrder(c)
       /\ work' = work \ {c}
       /\ current' = c
       /\ commands' = [commands EXCEPT ![c].status = "executing"]
  /\ Stay("handle")
  /\ UNCHANGED <<guard, profiler, thenHold, outcome, submitted, gate, exception,
                 published, service>>

(* The due list is exhausted: on to publication. *)
EndOfWork ==
  /\ pc = "pick" /\ work = {}
  /\ status' = CASE mode = "hold" -> "held"
                 [] mode = "exception" -> "exception_held"
                 [] OTHER -> status
  /\ Stay(IF mode = "safe_point" THEN "status" ELSE "publish")
  /\ UNCHANGED <<guard, profiler, thenHold, execution, queue, gate, exception,
                 snapshot, service>>

-----------------------------------------------------------------------------
(* The handlers.  Each runs on the training thread; `outcome` is what      *)
(* _execute will record.                                                   *)

Kind == commands[current].kind
Outcome(o) == outcome' = o

HandleHold ==
  /\ Kind = "hold"
  /\ active' = current /\ Outcome("succeeded")
  /\ UNCHANGED <<shouldStop, guard, profiler, thenHold, exception>>

HandleStop ==
  /\ Kind = "stop"
  /\ shouldStop' = TRUE /\ Outcome("succeeded")
  /\ UNCHANGED <<active, guard, profiler, thenHold, exception>>

(* Seeded bug: the breakpoint is not reset. *)
ReleaseNothing ==
  /\ Kind = "release_exception" /\ Outcome("succeeded")
  /\ UNCHANGED <<exception, shouldStop, active, guard, profiler, thenHold>>

HandleReleaseException ==
  /\ Kind = "release_exception"
  /\ exception' = FALSE /\ Outcome("succeeded")
  /\ UNCHANGED <<shouldStop, active, guard, profiler, thenHold>>

HandleFiniteCheck ==
  /\ Kind = "set_dataloader_finite_check"
  /\ \/ guard' \in BOOLEAN /\ Outcome("succeeded")
     \/ UNCHANGED guard /\ Outcome("failed")
  /\ UNCHANGED <<shouldStop, active, profiler, thenHold, exception>>

(* A second profile is refused while a run is armed; arming may fail. *)
HandleProfile ==
  /\ Kind = "profile"
  /\ \/ /\ profiler = 0
        /\ profiler' \in 1 .. MaxProfileSteps /\ thenHold' \in BOOLEAN
        /\ Outcome("succeeded")
     \/ UNCHANGED <<profiler, thenHold>> /\ Outcome("failed")
  /\ UNCHANGED <<shouldStop, active, guard, exception>>

(* torchlens_capture needs a batch in flight and engages a hold if none is *)
(* active, before the capture that may still fail.                         *)
HandleTorchlens ==
  /\ Kind = "torchlens_capture"
  /\ IF batchLive
     THEN /\ active' = IF active = NoHold THEN current ELSE active
          /\ outcome' \in {"succeeded", "failed"}
     ELSE UNCHANGED active /\ Outcome("failed")
  /\ UNCHANGED <<shouldStop, guard, profiler, thenHold, exception>>

NeedsBatch == {"torchinfo_capture", "torchview_capture"}
Controlling == {"hold", "stop", "release_exception", "profile",
                "set_dataloader_finite_check", "torchlens_capture"}

(* Every other handler touches only the model, the optimizer or the disk,  *)
(* and may raise; a kind without a handler fails.                          *)
HandleOther ==
  /\ Kind \notin Controlling
  /\ \/ Outcome("failed")
     \/ /\ Kind \in Handled
        /\ Kind \in NeedsBatch => batchLive
        /\ Kind = "torchviz_capture" /\ ~exception => batchLive
        /\ Outcome("succeeded")
  /\ UNCHANGED <<shouldStop, active, guard, profiler, thenHold, exception>>

Handle ==
  /\ pc = "handle"
  /\ \/ HandleHold \/ HandleStop \/ HandleReleaseException \/ HandleFiniteCheck
     \/ HandleProfile \/ HandleTorchlens \/ HandleOther
  /\ pc' = "record"
  /\ UNCHANGED <<phase, mode, epoch, step, batchLive, work, current, queue,
                 controlEvent, published, service>>

(* CommandQueue.mark_result. *)
Record ==
  /\ pc = "record"
  /\ commands' = [commands EXCEPT ![current].status = outcome]
  /\ current' = NoId
  /\ Stay("pick")
  /\ UNCHANGED <<guard, profiler, thenHold, work, outcome, submitted, gate,
                 exception, published, service>>

-----------------------------------------------------------------------------
(* Publication and the hold loops. *)

HoldState == IF active = NoHold THEN "none" ELSE "held"
View(st) == [status |-> st, hold_state |-> HoldState, exception |-> exception]

(* Seeded bugs: the gate is not consulted, or only to report a hold.       *)
StatusUnread == "running"
StatusSticky == IF active = NoHold THEN snapshot.status ELSE "held"
StatusSeen == IF active = NoHold THEN "running" ELSE "held"

(* The argument of process_safe_point's _publish: the first is_held().     *)
ReadStatus ==
  /\ pc = "status"
  /\ status' = StatusSeen
  /\ Stay("publish")
  /\ UNCHANGED <<guard, profiler, thenHold, execution, queue, gate, exception,
                 snapshot, service>>

(* _publish reads the gate again for hold_state, then updates the store. *)
Publish ==
  /\ pc = "publish"
  /\ snapshot' = View(status)
  /\ Stay(IF mode = "safe_point" THEN "check" ELSE "recheck")
  /\ UNCHANGED <<guard, profiler, thenHold, execution, queue, gate, exception,
                 status, service>>

(* The publication that precedes a loop entered outside process_safe_point. *)
Announce ==
  /\ pc = "announce"
  /\ snapshot' = View(status)
  /\ Stay("loop")
  /\ UNCHANGED <<guard, profiler, thenHold, execution, queue, gate, exception,
                 status, service>>

(* Seeded bug: process_safe_point returns without looking at the gate. *)
NoHoldSeen == active = active
GateOpen == active = NoHold

(* process_safe_point's `if self.gate.is_held()`. *)
CheckHeld ==
  /\ pc = "check"
  /\ \/ GateOpen /\ LeaveControl
     \/ /\ active # NoHold
        /\ mode' = "hold" /\ pc' = "loop"
        /\ UNCHANGED <<phase, trainer, batchLive>>
  /\ UNCHANGED <<guard, profiler, thenHold, execution, queue, gate, exception,
                 published, service>>

(* Seeded bug: both loops watch the gate. *)
BlockedByGate == active # NoHold

(* What keeps the loop of the current mode going. *)
Blocked == IF mode = "exception" THEN exception ELSE active # NoHold

LoopHead ==
  /\ pc = "loop"
  /\ Stay(IF Blocked THEN "scan" ELSE "resume")
  /\ UNCHANGED <<guard, profiler, thenHold, execution, queue, gate, exception,
                 published, service>>

Recheck ==
  /\ pc = "recheck"
  /\ Stay(IF Blocked THEN "wait" ELSE "resume")
  /\ UNCHANGED <<guard, profiler, thenHold, execution, queue, gate, exception,
                 published, service>>

(* RunGate.wait_for_control_event: woken, or timed out after 0.1 s ...       *)
WaitWoken ==
  /\ pc = "wait" /\ controlEvent
  /\ Stay("clear")
  /\ UNCHANGED <<guard, profiler, thenHold, execution, queue, gate, exception,
                 published, service>>

WaitTimeout ==
  /\ pc = "wait" /\ ~controlEvent
  /\ Stay("clear")
  /\ UNCHANGED <<guard, profiler, thenHold, execution, queue, gate, exception,
                 published, service>>

(* ... and then cleared, whoever set it in between. *)
ClearEvent ==
  /\ pc = "clear"
  /\ controlEvent' = FALSE
  /\ Stay("loop")
  /\ UNCHANGED <<guard, profiler, thenHold, execution, queue, active, exception,
                 published, service>>

(* The final _publish(status="running") of a loop, and the return. *)
Resume ==
  /\ pc = "resume"
  /\ snapshot' = View("running")
  /\ LeaveControl
  /\ UNCHANGED <<guard, profiler, thenHold, execution, queue, gate, exception,
                 status, service>>

-----------------------------------------------------------------------------
(* finish_train_batch: _advance_profiler, then current_step.clear. *)

NoRun == /\ profiler = 0 /\ UNCHANGED <<profiler, thenHold, active, status>>
         /\ LeaveControl

(* A step that raises drops the run, and then_hold with it. *)
StepRun == /\ profiler > 0
           /\ profiler' \in {0} \cup (IF profiler > 1 THEN {profiler - 1} ELSE {})
           /\ thenHold' = (thenHold /\ profiler' > 0)
           /\ LeaveControl
           /\ UNCHANGED <<active, status>>

(* The last step finalizes the run (or fails to) and may enter a hold. *)
FinalizeRun ==
  /\ profiler = 1
  /\ profiler' = 0 /\ thenHold' = FALSE
  /\ IF thenHold
     THEN /\ active' = ProfilerHold /\ status' = "held"
          /\ mode' = "hold" /\ pc' = "announce"
          /\ UNCHANGED <<phase, trainer, batchLive>>
     ELSE LeaveControl /\ UNCHANGED <<active, status>>

AdvanceProfiler ==
  /\ pc = "finish"
  /\ NoRun \/ StepRun \/ FinalizeRun
  /\ UNCHANGED <<guard, execution, queue, controlEvent, exception, snapshot, service>>

-----------------------------------------------------------------------------
(* teardown.  Lightning skips it after an exception. *)
BeginTeardown ==
  /\ Begin("teardown")
  /\ snapshot' = [snapshot EXCEPT !.status = "stopping"]
  /\ Stay("stopping")
  /\ UNCHANGED <<guard, profiler, thenHold, execution, queue, gate, exception,
                 status, service>>

EndTeardown ==
  /\ pc = "stopping"
  /\ active' = NoHold /\ controlEvent' = (controlEvent \/ active # NoHold)
  /\ rest' = FALSE
  /\ snapshot' = [snapshot EXCEPT !.status = "finished"]
  /\ phase' = "over" /\ pc' = "training"
  /\ UNCHANGED <<mode, trainer, batch, execution, queue, exception, status, client>>

-----------------------------------------------------------------------------
(***************************************************************************)
(* REST handler threads.  `at` is where a handler stands between two       *)
(* accesses to shared state.                                               *)
(***************************************************************************)
TrainingSide == <<phase, pc, mode, trainer, batch, execution, exception, published, rest>>

(***************************************************************************)
(* POST /commands, /control/pause, /control/stop, /checkpoints, /snapshots *)
(* and /holds: CommandQueue.submit under the lock.                         *)
(***************************************************************************)
Submit(t) ==
  /\ rest /\ client[t].at = "idle" /\ submitted < MaxCommands
  /\ \E kind \in Kinds, raw \in Requests :
       /\ ~ParseFails(raw)
       /\ submitted' = submitted + 1
       /\ commands' = [commands EXCEPT ![submitted'] =
                         [kind |-> kind, when |-> ParseWhen(raw), status |-> "queued"]]
       /\ client' = [client EXCEPT ![t] = [Idle EXCEPT !.at = "notify"]]
  /\ UNCHANGED <<TrainingSide, gate>>

(* Seeded bug: the handler returns without waking the training thread. *)
SkipNotify == UNCHANGED controlEvent
SetEvent == controlEvent' = TRUE

(* RunGate.notify.  POST /holds polls the command before it replies, which *)
(* changes nothing.                                                        *)
Notify(t) ==
  /\ client[t].at = "notify"
  /\ SetEvent
  /\ client' = [client EXCEPT ![t] = Idle]
  /\ UNCHANGED <<TrainingSide, queue, active>>

(* CommandQueue.cancel, where it answers True. *)
Cancel(t) ==
  /\ rest /\ client[t].at = "idle"
  /\ \E c \in Ids : Queued(c) /\ commands' = [commands EXCEPT ![c].status = "cancelled"]
  /\ UNCHANGED <<TrainingSide, submitted, gate, client>>

(* POST /holds/{id}/release reads the active hold ... *)
CheckRelease(t) ==
  /\ rest /\ client[t].at = "idle"
  /\ active # NoHold
  /\ client' = [client EXCEPT ![t] = [Idle EXCEPT !.at = "release", !.id = active]]
  /\ UNCHANGED <<TrainingSide, queue, gate>>

(* RunGate.release, first half: the hold is cleared under the lock. *)
OpenGate(t) ==
  /\ active' = NoHold
  /\ client' = [client EXCEPT ![t] = IF active = NoHold THEN Idle
                                     ELSE [Idle EXCEPT !.at = "wake"]]
  /\ UNCHANGED <<TrainingSide, queue, controlEvent>>

(* ... and then releases whatever is active. *)
Release(t) == client[t].at = "release" /\ OpenGate(t)

(* POST /control/continue. *)
Continue(t) == rest /\ client[t].at = "idle" /\ active # NoHold /\ OpenGate(t)

(* RunGate.release, second half: the events, outside the lock. *)
Wake(t) ==
  /\ client[t].at = "wake"
  /\ SetEvent
  /\ client' = [client EXCEPT ![t] = Idle]
  /\ UNCHANGED <<TrainingSide, queue, active>>

-----------------------------------------------------------------------------
Lightning == BatchStart \/ Backward \/ EnterSafePoint \/ BeginTeardown
Control ==
  \/ Scan \/ StartCommand \/ EndOfWork \/ Handle \/ Record
  \/ ReadStatus \/ Publish \/ Announce \/ CheckHeld \/ LoopHead \/ Recheck
  \/ WaitWoken \/ ClearEvent \/ Resume \/ AdvanceProfiler \/ EndTeardown
Reply(t) == Notify(t) \/ Release(t) \/ Wake(t)
Request(t) == Submit(t) \/ Cancel(t) \/ CheckRelease(t) \/ Continue(t)

(* The run has ended: nothing but requests to a dead queue can follow. *)
Done == phase \in Dead /\ UNCHANGED vars

Next == Lightning \/ Control \/ WaitTimeout \/ Done
        \/ \E t \in Clients : Reply(t) \/ Request(t)

(***************************************************************************)
(* The training thread and every handler thread that has begun a reply are *)
(* scheduled.  Nothing obliges an operator to send a request, and no       *)
(* fairness is put on the 0.1 s timeout: progress must come from events.   *)
(***************************************************************************)
Fairness == /\ WF_vars(Lightning) /\ WF_vars(Control)
            /\ \A t \in Clients : WF_vars(Reply(t))

Spec == Init /\ [][Next]_vars
FairSpec == Spec /\ Fairness

-----------------------------------------------------------------------------
(* Correctness. *)

(* Every variable keeps the type its Python attribute has in the code. *)
TypeOK ==
  /\ phase \in Phases /\ pc \in Steps /\ mode \in Modes
  /\ epoch \in 0 .. MaxEpoch /\ step \in 0 .. MaxStep /\ shouldStop \in BOOLEAN
  /\ batchLive \in BOOLEAN /\ guard \in BOOLEAN
  /\ profiler \in 0 .. MaxProfileSteps /\ thenHold \in BOOLEAN
  /\ work \in SUBSET Ids /\ current \in Ids \cup {NoId}
  /\ outcome \in {"succeeded", "failed"}
  /\ commands \in [Ids -> Command] /\ submitted \in 0 .. MaxCommands
  /\ active \in Holds \cup {NoHold} /\ controlEvent \in BOOLEAN
  /\ exception \in BOOLEAN
  /\ status \in PublishedStatus /\ snapshot \in Snapshot
  /\ rest \in BOOLEAN /\ client \in [Clients -> Client]

(* The gate's whole point: while a hold or an exception breakpoint is      *)
(* active, the training thread is inside trainctl's code, whoever releases *)
(* what and whichever commands engage a hold from within a loop.           *)
HeldMeansStopped == active # NoHold \/ exception => pc # "training"

(* _publish reads the gate twice while releases race with it; even so no   *)
(* snapshot ever says "running" of a run that is held or at a breakpoint.  *)
RunningIsTruthful ==
  snapshot.status = "running" => snapshot.hold_state = "none" /\ ~snapshot.exception

(* A hold loop and the exception loop execute only the kinds their         *)
(* allow-list names, although the due list is filtered before the commands *)
(* run one by one.                                                         *)
LoopsRunOnlyAllowedKinds ==
  /\ mode = "hold" /\ current # NoId => Kind \in AllowedDuringHold
  /\ mode = "exception" /\ current # NoId => Kind \in AllowedDuringException

(* A command runs at most once: a recorded outcome never changes again,    *)
(* across nested scans, retries of the loop and late cancellations.        *)
SettledIsFinal ==
  [][\A c \in Ids : commands[c].status \in {"succeeded", "failed"}
                      => commands'[c] = commands[c]]_vars

(* What CommandQueue.cancel's True is worth: unless the training thread    *)
(* had already taken the command into its due list, it never does, and the *)
(* command stays cancelled.                                                *)
CancelStopsUntakenCommands ==
  [][\A c \in Ids : commands[c].status = "cancelled" /\ c \notin work /\ c # current
                      => commands'[c].status = "cancelled" /\ c \notin work']_vars

(* Commands due together run in submission order: none starts while an     *)
(* older one is queued, due at the same point and allowed there, even one  *)
(* submitted or cancelled while the due list was being worked off.         *)
ServedInSubmissionOrder ==
  [][\A c, d \in Ids :
       /\ commands[c].status # "executing" /\ commands'[c].status = "executing"
       /\ d < c
       => d \notin Runnable]_vars

Unconditionally(c) == commands[c].when.occurrence \in Unconditional

(* A handler thread has woken the training thread, or is about to. *)
Told == controlEvent \/ \E t \in Clients : client[t].at \in {"notify", "wake"}

(* No wakeup is lost: a loop does not go to sleep, nor on sleeping, over a *)
(* command it could run or a hold that has ended, unless a handler thread  *)
(* has set the event or is on its way to; the 0.1 s timeout is a safety    *)
(* net, never what the response time hangs on.                             *)
NoWakeupIsLost == pc = "wait" /\ (Runnable # {} \/ ~Blocked) => Told

(* A "now" command of a kind the hold loop allows is served although the   *)
(* run stays held for ever, again on notification alone.                   *)
NowIsServed ==
  \A c \in Ids :
    (Queued(c) /\ Unconditionally(c) /\ commands[c].kind \in AllowedDuringHold)
      ~> (~Queued(c) \/ exception \/ phase \in Dead)

(* A command scheduled for a global step that has gone by is served at the *)
(* next safe point, and not lost with the step it named.                   *)
OverdueStepIsServed ==
  \A c \in Ids :
    (Queued(c) /\ commands[c].when.occurrence = "step"
       /\ \E s \in commands[c].when.step : step >= s)
      ~> (~Queued(c) \/ exception \/ active # NoHold \/ phase \in Dead)

(* release_exception ends the breakpoint, unless it is cancelled in time.  *)
ExceptionIsReleasable ==
  \A c \in Ids :
    (exception /\ Queued(c) /\ Unconditionally(c) /\ commands[c].kind = "release_exception")
      ~> (~exception \/ commands[c].status = "cancelled")

(* A hold released between _publish and the check leaves "held" behind in  *)
(* the snapshot of a running training; the next safe point corrects it.    *)
StaleHeldIsCorrected ==
  (snapshot.status = "held" /\ active = NoHold)
    ~> (snapshot.status # "held" \/ active # NoHold \/ phase \in Dead)

(***************************************************************************)
(* The abstract promise.  A backward-exception breakpoint is one more kind *)
(* of hold, whose release is the release_exception command.                *)
(***************************************************************************)
ExceptionHold == MaxCommands + 3
RunState == IF phase \in Dead THEN "over"
            ELSE IF pc = "training" THEN "running" ELSE "paused"
HoldInForce == IF exception THEN ExceptionHold ELSE active

Protocol == INSTANCE HoldProtocol
              WITH run <- RunState, hold <- HoldInForce,
                   Holds <- Holds \cup {ExceptionHold}, NoHold <- NoHold

(* Queue, loops and handler threads together implement HoldProtocol: its   *)
(* steps, and its promise that a pause nothing holds comes to an end.      *)
ImplementsHoldProtocol == Protocol!Spec

-----------------------------------------------------------------------------
(* A statement of the code's own comments that the code does not keep.     *)

(* runtime.py, _execute: "untrusted REST input must not crash training".   *)
RequestsCannotAbort == pc = "scan" => ~DueRaises(ScoredAt)
=============================================================================
