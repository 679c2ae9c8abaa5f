# trainctl, modelled in TLA+

trainctl lets an operator control a running PyTorch Lightning training from
outside it: hold and release it, stop it, schedule commands for a safe point,
look into it over REST or a FUSE mount, and hook external scripts to its
lifecycle.  This directory holds TLA+ modules translated from `trainctl/`, TLC
configurations that check them on small instances, and proofs that TLAPS checks
for every value of the constants.  `PROJECT.json` maps each definition to the
source lines it stands for, and lists runs, seeded bugs, findings and hazards.

    tlc -workers 2 -config RunControl_safety.cfg MCRunControl
    tlapm RunControl_proofs.tla

## 1. The system and its parts

Threads first, because they are what is hard here.  One **training thread** runs
Lightning's loop and calls trainctl's hooks; nothing but this thread touches the
model, the optimizer or a batch.  **REST handler threads** (a FastAPI thread pool)
and, through them, **FUSE** and **debugger** clients submit work and read state.
**Drain threads** read the output of hook scripts, which are **process groups** of
their own; under distributed training there is one training process per **rank**.

| component | state it keeps | operations | talks to |
|---|---|---|---|
| run gate (`runtime/gate.py`) | active hold, control event | enter, release, notify, wait | training thread, REST |
| command queue (`runtime/commands.py`) | commands and their status | submit, due, cancel, mark executing / result | REST submits and cancels, training executes |
| safe points and hold loops (`runtime/runtime.py`) | the due list, the loop it is in | process_safe_point, hold loop, exception loop, publish | all of the above, state store |
| exception breakpoint (`runtime/runtime.py`) | the exception hold | handle_backward_exception, release_exception | queue, state store |
| batch state: current step, profiler run, finite guard | live batch, steps left, enabled flag | begin / finish of a batch, arm, advance | handlers, gate |
| state store (`runtime/state.py`) | the current immutable snapshot | update | read by REST and FUSE |
| REST application (`rest/app.py`) | one handler per request | submit, hold + wait, release, cancel, continue | queue, gate |
| live capture (`runtime/live_capture.py`) | list of pending requests | request, serve | FUSE readers, training thread |
| hyperparameter registry, optimizer surgery (`runtime/hparam_registry.py`, `optimizer_surgery.py`) | none of their own: the model's fields, the optimizers' rates and momenta | validate, cast and assign; select and reset | command handlers, training code |
| artifact store (`runtime/artifacts.py`) | a counter; directories on disk | name, write manifest, write files | command handlers, debugger clients |
| service lifecycle and ports (`runtime/runtime.py`, `ports.py`, `torch_debug.py`) | REST server, debug server, mount, their ports, `_started` | setup_environment, teardown, paired port search | operating system, other models of the process |
| hook runner (`hooks/runner.py`) | process group, drain threads | run a script with a timeout | scripts |
| hooks bootstrap (`hooks/manager.py`) | live tree and marker on disk | publish a tree once, reuse it | all ranks of a run, restarts |
| hook session and dispatch (`hooks/lightning.py`, `session.py`, `dispatch.py`, `bridge.py`) | the open session, the handler on the loggers, the run file's sinks, `.hooks-tmp` | open, handle a callback, finalize | bootstrap, payload, runner, logging |
| hook payloads (`hooks/payload.py`) | none | describe arguments, collect and validate tensors, manifest | dispatch |
| virtual files and FUSE (`runtime/virtual_fs.py`, `fuse/filesystem.py`) | open handles | generate, open, read, release | state store, live capture |
| debugger clients (`debugger/*.py`) | one capture each, in a process of their own | arm, check, attach, poll, push, release | REST, gdb, artifact store |
| CUDA history, pipeline pressure, inspectors | allocator flag; timestamps | enable, disable; measure; render | command handlers |

`PROJECT.json` ("components") says which of them are modelled, which only in
part, and why the rest is not.

### What is hard about it

- **Interleavings at the gate.** `process_safe_point` reads the gate four times
  between taking its due list and returning; releases, continues and new holds
  land between any two of these reads.
- **A list that goes stale.** `_run_due_commands` walks a list taken before its
  first command ran, while clients cancel and submit.
- **Lost wake-ups.** The loops wait on an event that they clear after the wait.
- **A timeout racing an answer**, in the live-capture broker, in the REST wait
  for a hold, in the hook runner.
- **Two reads of one value.** A virtual file tests an optional value on one read of
  the published state and prints it from another; a debugger checks a hold and
  attaches later; a port is probed, released and bound again.
- **A call that outlives its caller**: a snippet gdb has queued is served after the
  client has given up on it; a REST server comes up after set-up has stopped waiting.
- **Failures half-way**: a handler that raises after it engaged a hold, an
  interrupt in the middle of a batch of captures, a crash between two file
  operations of the hooks bootstrap, a script whose children outlive it.

### What makes each part correct

- gate and loops: no training under a hold; every pause that nothing holds ends;
  the published status never calls a held run running;
- queue: one execution per command, in submission order, final outcomes, a cancel
  that means something; a scheduled step that has gone by still counts;
- breakpoint: the loop runs what its allow-list names and can be ended;
- live capture: no waiting reader is forgotten, none computed twice;
- hook runner: the script is gone when the runner returns, and the runner returns;
- bootstrap: a published tree is complete and stays, whatever crashes;
- hook session: loggers and temporary directories are given back whatever raises, and
  one rank's close is the only thing that takes another's files;
- payloads: description and export agree, and whatever is left out is said to be;
- services: the ports on record are the ones served, what was started is stopped;
- debugger clients: a snippet runs once per attempt, nothing of it stays, a pushed
  artifact is whole;
- virtual files: an open file is a snapshot of its time;
- tuning: a command changes what it answers, and nothing when it answers "failed".

## 2. Modules

| module | what it is |
|---|---|
| `Commands` | command kinds, allow-lists, `parse_when` and `CommandWhen.is_due` as pure operators |
| `RunControl` | training thread, gate, queue, loops, breakpoint and REST handlers |
| `HoldProtocol` | the abstract promise about holds |
| `LiveCapture` | broker, FUSE readers and the training thread's `serve` |
| `HookRunner` | one hook script's process group, its drains and the thread that supervises it |
| `HooksBootstrap` | ranks and restarts that publish or reuse one hooks directory |
| `OneTree` | the abstract promise about that directory |
| `VirtualFiles` | generation of the virtual files and the table of open handles |
| `HookSession` | the hook sessions of the ranks of a run: stages, dispatch, logging bridge |
| `Services` | set-up and teardown of REST, debug server and mount in one process |
| `DebugCapture` | debugger clients against one training process; its holds are `HoldProtocol`'s |
| `Tuning` | set_hparam, set_learning_rate and reset_momentum against a training loop |
| `Payload` | description and export of a callback's arguments, as recursive functions |
| `RunControl_proofs`, `HookRunner_proofs`, `HooksBootstrap_proofs`, `HookSession_proofs`, `Services_proofs`, `DebugCapture_proofs` | proofs about these modules |
| `Readers_proofs` | proofs about `LiveCapture` and `VirtualFiles` |
| `Algorithms_proofs` | proofs about `Payload` and `Tuning` |
| `MCRunControl`, `MCHookSession`, `MCReaders`, `MCAlgorithms` | instances for TLC; the last three check two modules each, a behaviour taking the steps of one of them |

How they compose: `DebugCapture` takes `HoldProtocol` as its target, which
`RunControl` is shown to implement.  `VirtualFiles` takes the three answers of
`LiveCapture`'s broker, result, error and timeout, which is all its code can see of
it.  `HookSession` takes one step for `run_script`, module `HookRunner`, and one for
`bootstrap_hooks_tree`, module `HooksBootstrap`; one for `describe_arguments` and
`prepare_heavy_export`, module `Payload`.  A command of `Tuning` runs where
`RunControl` has its `HandleOther`.

Operators that a comment introduces with "Seeded bug" are not part of the
behaviour: each replaces one definition with a bug its code could plausibly have,
and shows that the property named in `PROJECT.json` would notice.

### RunControl and the code

Control state of the training thread is `phase` (the Lightning hook it is in, or
is about to call), `pc` (where trainctl's code stands, `"training"` when it does
not run) and `mode` (the loop that called `_run_due_commands`).

| action | code |
|---|---|
| `BatchStart`, `Backward`, `EnterSafePoint`, `BeginTeardown` | Lightning calls a hook of `TrainctlMixin` |
| `Scan` | `CommandQueue.due` under its lock, and the allow-list filter |
| `StartCommand`, `Handle`, `Record` | `_execute`: mark_executing, the handler, mark_result |
| `EndOfWork`, `ReadStatus`, `Publish`, `Announce`, `Resume` | the reads of the gate that make a snapshot, and `StateStore.update` |
| `CheckHeld`, `LoopHead`, `Recheck` | the tests that enter, continue or end a loop |
| `WaitWoken`, `WaitTimeout`, `ClearEvent` | the two halves of `wait_for_control_event` |
| `AdvanceProfiler` | `finish_train_batch` |
| `EndTeardown` | `teardown` |
| `Submit`, `Notify` | POST /commands and POST /holds: append, then set the control event |
| `Cancel` | POST /holds/{id}/cancel, which cancels a queued command of any kind |
| `CheckRelease`, `Release`, `Continue`, `Wake` | the two-step release over REST |

Every action contains at most one access to state that another thread shares.
Command ids number the commands in submission order, which is also the order of
the dictionary the code keeps them in.  What Lightning does between hooks
(`After`) is external: a nondeterministic choice of the next hook, with gradient
accumulation, mid-epoch validation and `should_stop` respected.

Abstracted on purpose:

- `_publish` reads the queue's pending commands next to `hold_state`; no property
  is about that list, so the read is part of `Publish`.
- `_release_event` is set and cleared but never waited for, and is left out.
- The holds of the finite guard and of a profiler run have one id each, not a
  fresh one per occurrence; metadata of holds is data.
- POST /holds answers after it has polled its command's status; the poll reads and
  changes nothing, so it is not an action.
- KeyboardInterrupt in the training thread and a second `fit` of the same runtime
  are not modelled.
- Handlers that only touch the model, the optimizer or the disk are one
  alternative, which succeeds or fails.
- `epoch` and `step` saturate at their bound, so training itself is unbounded.
- `process_safe_point` also serves live captures; the broker shares no state with
  queue and gate and is a module of its own.
- After an exception Lightning skips `teardown`; REST then stays up, and so do
  requests to a queue nobody serves (`Done`).

### LiveCapture and the code

A request is numbered in the order of its append.  `Ask` is the append, `Answer`
the return of `event.wait` with the event set, `Expire` its return without, and
`Withdraw` the removal under the lock.  `Take` is the swap in `serve`, `Compute`
the call of `fn`, `Wake` the `finally`, `Interrupt` a `BaseException` from `fn`.

### HookRunner and the code

The script and what it forks are the environment.  They write, fork, exit, keep
pipes open and ignore SIGTERM as they like; a KeyboardInterrupt may arrive wherever
the training thread waits.

| action | code |
|---|---|
| `Launch`, `LaunchFails`, `StartDrains` | `Popen` in a session of its own, two `_BoundedDrain`s |
| `Fetch`, `ReturnChunk`, `RecordChunk` | `stream.read`, a *buffered* read that returns full chunks or at EOF, and `_record` |
| `WaitReturns`, `WaitTimesOut` | the three `process.wait` calls |
| `Terminate`, `GraceExpires`, `Kill` | `_terminate_group` |
| `Join`, `Close`, `Return` | the joins and the result, and `Popen.__exit__` |
| `Interrupt` | KeyboardInterrupt, with what `Popen.wait` does about it |

Output is counted in units.  Abstracted: what `_record` retains of the output for
the failure record, children that leave the process group (`setsid`), a drain
thread that cannot be started, an interrupt inside `Popen.__exit__`, the reuse of a
process id (`OwnGroupIsSignalled` says when that would matter), and the two joins,
which are one step because no step of the thread lies between them.

### HooksBootstrap and the code

Every call of `bootstrap_hooks_tree` on one directory is a *start*: a rank, or a
restart of one.  Each file operation on shared names is a step of its own, and the
write of the marker is two, since `write_text` truncates first.  `Crash` may follow
any step.

| action | code |
|---|---|
| `CheckMarker`, `ReadMarker` | the marker exists; it is readable, or the start refuses |
| `RejectSource`, `CheckLive`, `ReadRecord` | the baseline is unsafe; a live tree exists; it has provenance and is adopted |
| `StageTree`, `Fill`, `Describe`, `BuildFails` | the staging tree, its contents, its provenance, a failure of these |
| `Rename` | publication, or the lost race |
| `OpenMarker`, `WriteMarker` | `_write_json` of the marker |

Abstracted: the contents, ownership and modes of the tree; that `rmtree` with
`ignore_errors` may leave a staging tree behind; loss of power, which may undo file
operations in another order; operators who delete the tree or the two records (they
may edit scripts).  A directory that is not trainctl's is not empty: `rename` would
replace an empty one.

### VirtualFiles and the code

A thread is a FUSE worker or a REST handler; `shown` is what the runtime publishes,
a generation and which optional value it has.

| action | code |
|---|---|
| `Publish` | `StateStore.update`, by the training thread |
| `Call`, `CallLive` | `open`, or `getattr` and GET /files, which keep nothing ("get") |
| `FirstRead`, `SecondRead` | a generator's reads of the snapshot; two for an optional value |
| `Live` | `LiveCaptureBroker.request`, reduced to its outcome |
| `Open`, `Read`, `Release` | the handle table of `TrainctlFS`, under its lock |
| `Return` | `getattr`, the route, or a failure |

Abstracted: texts and their formats, directories, the offset and size of a read.

### HookSession and the code

| action | code |
|---|---|
| `Open`, `Overlap`, `SetUpFails` | `ensure_hook_session`, where it succeeds, finds the loggers taken, or raises after the bridge is installed |
| `Fire`, `Raise`, `Return` | the adapter's callbacks, and what Lightning does about one that raises |
| `Handle`, `Skip`, `MkdirFails` | `HookSession.handle`, the rank policy |
| `Check`, `Build`, `Recheck` | `resolve_enabled_script`, asked before and after the metadata is built |
| `Mkdir`, `Write`, `WriteFails`, `Run`, `RunInterrupted` | the invocation directory, its contents, `run_script`, and the `finally` that removes it |
| `LogFailure` | the error record of an invocation that failed or was refused |
| `Finalize` | `finalize_hooks_and_logging`, which removes the whole of `.hooks-tmp` |
| `Kill`, `Chmod` | the environment: a killed process, an operator who changes execute bits |

Abstracted: Trainctl's own interception is on (off, no bridge is installed);
`install_root_bridge`, the forwarding of records and the scan for unknown file names,
which only log; what a document contains (`Payload`).  A second `Finalize` finds
nothing to close and is not a step.

### Services and the code

Ports are numbered by their offset in the paired search.

| action | code |
|---|---|
| `Setup`, `ResolveArtifactDir`, `Up` | `setup_environment`, its early return and its first and last step |
| `Probe`, `Bind`, `Reprobe`, `Pick`, `Exhausted` | the searches for REST and debug ports, paired or single |
| `StartDebug`, `DebugIsUp`, `DebugFails` | `TorchDebugManager.start_after_distributed_init` |
| `Serve`, `RestReady`, `RestNotReady` | `_start_rest_on_socket`, its wait of 10 s |
| `StartFuse`, `NoFuse`, `FuseReady`, `FuseNotReady` | `_start_fuse` |
| `Teardown`, `StopRest`, `StopFuse`, `StopDebug`, `Finish` | `teardown` |
| `Abort`, `NewModel`, `ServerRuns`, `MountRuns`, `Others` | the environment: an exception, which skips teardown; another model of the process; server and mount threads; other programs |

`Fails` is `_guarded`: under `inspection_strict` it raises, otherwise the next step
follows.  What `start_after_distributed_init` looks at before it probes a port comes
first here too: a server that is up ends it (`DebugIsUp`), a process without
torch.distributed fails it (`DebugFails`), and only then is there a `Pick`.  A REST socket
that an exception drops is closed when the exception is gone: at once where it is only
logged, whenever its traceback goes where it is raised (`DropSocket`).  Abstracted: `wait_ready` of the debug server, which only delays; the release
of a dangling hold in teardown, which is `RunControl`'s.

### DebugCapture and the code

A hold is named by the client that armed it.  gdb, CPython's pending calls, the
snippet and the operators are the environment.

| action | code |
|---|---|
| `SafePoint`, `Engage`, `Mark`, `Resume`, `Continue`, `Cancel` | the target, as `HoldProtocol`, with its commands |
| `Kill`, `Restart` | the training process dies and is started again, perhaps with the same artifact directory |
| `Arm`, `CheckStatus`, `CheckActive` | `arm_hold`, `require_hold_active`, in its two requests |
| `Prepare`, `Attach`, `CallQueued`, `CallRefused`, `CallAbandoned`, `AttachFails` | `schedule` with its retries, `_mi_eval` |
| `Serve`, `OpenReport`, `SnippetEnds` | a pending call and what it runs |
| `ReadReport`, `PollTimesOut` | `schedule_and_wait` and its `finally` |
| `Dump` | `pyspy_capture`, which only reads |
| `NameArtifact`, `WriteManifest`, `WriteFiles` | POST /debug/captures, `write_debug_capture` |
| `ReleaseOwn`, `NothingToRelease`, `Unanswered` | the client's release; a REST call nobody answers |

### Tuning, Payload and the code

`Tuning` has an action per handler, `SetHparam`, `SetLearningRate` and
`ResetMomentum`, and three for the training code between them.  Numbers are counted
in halves: 1 stands for 0.5, so that the cast of a float to an integer truncates.  A value
of the model is `[type, tensor, v]`; a tensor is a function from the tuples of its indices,
so that its shape is its domain and a tensor of rank 0 has the one index `<<>>`, and
`type` is its dtype.  A request is compared with the bounds first and converted to that
dtype afterwards, element by element, as `torch.as_tensor` does; a plain number becomes a
tensor of rank 0.  The width of a dtype is left out: no
float is rounded to it, and no integer is too large for it.
`NaN`, `Infinity` and `Unbounded` are constants the comparisons treat as Python does.
Momentum and variance are an optimizer's own, as `optimizer.state` is: two optimizers
may hold one parameter, and each keeps its own state of it.

`Payload` has an operator per function: `DescribeArguments`, `LightParams`,
`CollectLeaves`, `Refused`, `Manifest`; its one action `Fire` is a firing of a callback
whose scripts are both enabled.  Arguments are nodes of an object graph, so that two may
share a node and a container may contain itself.  A description is the set of its places;
its size is their number, not its bytes.

`_describe` and `_collect_leaves` are recursive functions on the levels that are left.
What Python mutates on the way, the set of containers above, is an argument here: every
container is taken out of it again when its items are done, so that a node sees those
above it and no others.  `DescribeNode` and `CollectNode` are the bodies of the two, over
the results one level down.

## 3. Runs

All passing runs check deadlock; a part that has ended stutters (`Done`).

| run | shows | bounds |
|---|---|---|
| `safety` | `HeldMeansStopped`, `RunningIsTruthful`, `CancelStopsUntakenCommands`, `ServedInSubmissionOrder` | 2 handlers, 2 commands, finite guard on, profiler runs of up to 2 steps, a malformed `when` among the requests |
| `liveness` | `NowIsServed`, `OverdueStepIsServed`, `StaleHeldIsCorrected` | 1 handler, 2 commands, steps to 2, epochs to 0; a `when` whose step is no number among the requests |
| `refines` | `ImplementsHoldProtocol`, `ExceptionIsReleasable` | 1 handler, 2 commands; holds, anomalies and breakpoints together |
| `handoff` | `NoRequestIsLost`, `ComputedOnce`, `EveryRequestEnds`; `OpenIsASnapshot`, `TornOnlyByPublication` | 3 readers, 4 requests; 2 threads, 3 publications, 2 handles |
| `runner` | `ResultIsFinal`, `OwnGroupIsSignalled`, `CooperativeGroupDies`, `FullPipeDrains`, `ReturnsUnlessPipesAreKept` | the script and 1 child, 2 pipes of 1 unit, chunks of 2, up to 3 units each, timeout set |
| `sessions` | `LoggingIsOwned`, `NothingIsLeft`, `OnlyACloseTakesAway`, `SessionEnds`; `MarkerNamesTree`, `ReturnedTreeIsComplete`, `SettledIsMarked`, `ImplementsOneTree` | 2 ranks, 2 stages each, 3 scripts of 2 callbacks; 3 starts of the bootstrap |
| `services` | `RecordIsTrue`, `FinishedIsStopped`, `LifecycleEnds` | 2 port pairs, 2 models, every combination of services, strict or not |
| `capture` | `StoppedUnderItsHold`, `RunsOncePerAttempt`, `NothingIsLeftBehind`, `PushedIsWhole`, `CaptureEnds` | a gdb and a py-spy client, 2 attempts, 2 lives of the target |
| `algorithms` | `ValuesStayValid`, `AnswersAreExact`; `TensorsCorrelate`, `TruncationIsTold`, `AllOrFailed` | 7 knobs (an integer tensor whose bounds have fractions and a float tensor of rank 0 that starts out of its bounds among them), 2 optimizers, requests of every kind; arguments of up to 3 shared nodes under 3 sets of limits |

The types of `RunControl`, `LiveCapture`, `HookRunner` and `HooksBootstrap` are
proved (section 4) and not checked again; `LoggingIsOwned`, `RecordIsTrue`,
`RunsOncePerAttempt`, `OpenIsASnapshot` and `ValuesStayValid` contain the type invariants of theirs.

Why these are enough.  A race at the gate needs one thread that engages or releases
and one that overtakes it between two reads: the training thread engages, two
handlers release and continue.  A due list goes stale with one command that runs
and one behind it that a client cancels or submits meanwhile.  Two commands make
two holds, one to be released and one to be confused with it.  One handler is
enough for liveness: what may be lost is a notification, and its race is with the
training thread.  The swap of the broker's list needs a reader that is in it, one
that is in the batch and one that appends; the fourth request is one reader's
second.  A pipe of one unit is the smallest that fills, and three units are a full
chunk and a remainder.  Of three starts, one publishes, one adopts and one meets
what both have left.  Two ranks are one that closes and one that runs a script
meanwhile; the second stage is the one that finds what a failed first has left.  Two
offsets are a collision and the pair after it, two models one that was aborted and one
that comes after it.  One publication between the reads of a file tears it, a second
makes the content older than the open, and the two handles are of different times.
Two attempts of a gdb evaluation are the one that is abandoned and its retry, two
clients write artifacts at the same time, and two lives give the same ids twice.
Graphs of three nodes have a cycle, a shared node and a nesting deeper than each
limit; seven paths are a knob of each type, two tensors, one that is `None` at times
and one that nobody declared; the two optimizers share a parameter.  Handlers are interchangeable, and symmetry is used where no
liveness property is checked.  What is proved (section 4) holds for any number of
all these.

Runs that find a statement of the code or its documentation violated:

| run | statement | what happens |
|---|---|---|
| `bad_when` | "untrusted REST input must not crash training" | an unknown occurrence raises in `due()` |
| `rest_lost` | the debug server is started "when available" | where it is not, the exception drops the REST socket that was bound for the pair, and the process has no REST server |
| `shared_tmp` | an invocation's directory "exists for the heavy script's entire supervised lifetime" | all ranks share `.hooks-tmp`, and the first session that closes removes it, with the directory of a script another rank still runs |

### Fairness

`RunControl`: weak fairness of Lightning's hooks and of the control code (one
running thread), and of each handler thread that has begun a reply.  No fairness on
`WaitTimeout`: the 0.1 s timeout of the loops is not needed, notifications alone
give progress, and the liveness properties show it.  No operator is obliged to
send anything.

`LiveCapture`: the training thread keeps reaching `before_optimizer_step` (false
during a hold, when every reader times out instead), and a reader that was woken or
timed out goes on.  Its timeout is not fair either.

`HookRunner`: the training thread and the drains run, a timed wait ends, and a
process that was sent a signal it does not survive dies.  No script is obliged to
write, to exit or to close a pipe.

`HookSession`: dispatch runs on the training thread and a script ends (weak
fairness), and a stage does not fire callbacks for ever but comes to its teardown
(strong fairness of it, since other callbacks keep disabling it).

`Services`: the training thread runs, and its waits are bounded, so weak fairness of
set-up and teardown steps; none of the server threads, which may never come up.

`DebugCapture`: clients run and their waits are bounded, the interpreter comes to its
pending calls and a snippet ends.  Nothing obliges a hold to be engaged, gdb to
succeed or the target to live.

`HooksBootstrap`, `VirtualFiles`, `Tuning` and `Payload` have safety properties only
and no fairness.

## 4. Proofs

Every invariant and every other safety property the runs check is proved.

`RunControl_proofs` proves type correctness, with the fact that an executing command
exists, and the run-control invariants and action properties for any number of
handlers, commands, kinds and bounds.

The safety properties are not inductive.  `HeldMeansStopped` fails from a state in
which the loop is about to resume under a hold; what rules it out is where a hold
can *appear*: only from the handlers and hooks of the training thread itself, and
then only in a mode whose exit looks again.  `GateInv` says so (`active # NoHold =>
mode \in {"safe_point", "hold"}`, `pc = "resume" => active = NoHold /\ ~exception`);
releases by other threads only ever shrink it.  `ModeInv` ties `mode` to `pc`,
`StatusInv` covers the gap between choosing a status and publishing it.  For the
queue, `DueListInv` says that the due list is downward closed among the runnable
commands: that is what makes execution follow submission order while the list
goes stale.  `CurrentInv` and `AllowedInv` do the same for the command in
execution.  `IInv` is their conjunction, each proved action by action.

It also proves `Spec => Protocol!Safety`: every step of `RunControl` is a step or a
stutter of `HoldProtocol` under the mapping that reads an exception breakpoint as one more
hold.

The liveness properties of the runs rest on notifications, with no fairness on the 0.1 s
timeout.  What that comes down to in every state is proved: `NoWakeupIsLost`, that a loop
never sleeps over a command it could run or a hold that has ended, unless a handler thread
has set the event or is about to.  The hazard is in the order of `ClearEvent`, the scan
and the wait; `WakeInv` says that whatever a pass of a loop has not seen came after it
looked, and that whoever brought it has still to notify, or has.

`Readers_proofs` proves, of `LiveCapture`, that no waiting request is lost, that the list holds
only requests somebody waits for, and that nothing is computed twice, for any
number of readers.  Its invariant adds that one reader waits for one request, that
list, batch, current request and answered requests are disjoint, and that numbers
above `issued` are unused.

Of `VirtualFiles` it proves that an open file is a snapshot and that only a publication
tears a file, for any number of threads, publications and handles.  Neither is
inductive.  That all reads through a handle agree needs that what was read is what the
handle holds, and that a number not given out yet has neither content nor reads
(`HandleInv`, which also counts: every open in progress will find a number, so that the
bound on handles never decides who gets one).  That a torn file was overtaken needs to
know, between the two reads, that what was tested for is still there *or* that something
was published since the operation began (`SinceInv`).

`HookRunner_proofs` proves that a result is built from a reaped script and complete
output, that a timeout leaves nobody of a group that honours SIGTERM, and when a signal
may follow the leader's reaping, for any processes, streams and sizes: SIGKILL never,
SIGTERM only where a KeyboardInterrupt of the first wait has reaped a script that ended
meanwhile (`runner.py:199`).  The invariant has to know what the end of a drain means: its pipe had no writer, and
none can come back, since only a holder hands a pipe on (`DrainInv`).  `ProcessInv`
says that only live processes hold a pipe, `ScriptInv` where the script may still be
alive or unreaped, `ResultInv` and `SignalInv` what was true when the result was built
and after the group was signalled.  `UnboundedWaitsAreForChildren` is what can be proved
of `ReturnsUnlessPipesAreKept`: the waits without a timeout are for a script that SIGKILL
was sent to, or for pipes that only what it has left behind can hold.

`HooksBootstrap_proofs` proves the bootstrap's properties for any number of starts,
and that it implements `OneTree`.  `MarkerNamesTree` alone is not inductive: a start
about to write the marker must hold the live tree's record (`RecordInv`), which
needs that a start about to rename has described its own tree, and that a published
tree is never built on again (`LiveInv`).  `MarkerInv` adds that an empty marker has
a start that is writing it or died while it did, which is what `SettledIsMarked`
excludes.

`HookSession_proofs` proves the sessions' three safety properties for any number of
processes, scripts, callbacks and stages.  They are inductive together with two facts
they do not say: only an open session dispatches (`SessionInv`), without which a
directory could appear when no session is left to remove it, and a sink is the open
session's or one that a failed set-up has left (`SinkInv`).

`Services_proofs` proves that the services on record are those that run and that a
finished teardown leaves only what had been late, for any number of ports and models,
through every failure and abort; a debug server that an earlier model of the process
has left is the one other exception, for a later model's teardown does not know of it.
`StartedInv` says what `_started` means in each part
of the code.  `SocketInv` is the ownership of a port on its way: exactly one is bound
and not served, it is the one being set up, and no record names it.  `LateInv` accounts
for everything that runs: it is on record, it is being awaited, or a wait for it timed
out, which is why `late` is the only excuse `FinishedIsStopped` allows.  The equality of
the two ports' offsets needs `DebugInv`: a debug server that is up before the set-up has
come to start one was left behind by a teardown that raised.  `EveryStepGetsOn` is what
can be proved of `LifecycleEnds`: every step of set-up and teardown lowers `ToDo`, a
number the offsets bound, and nothing the environment does raises it.  That some step is
possible, and is taken, is the rest, and model-checked.

`DebugCapture_proofs` proves the four safety properties of a capture for any number
of clients, attempts and lives of the target.  `TriesInv` relates the calls of a
snippet to the attempts that were abandoned, at every place a client can be at, so
that a retry is paid for before it is made.  `FileInv` says who can still write once
the `finally` has run, `HoldInv` that a client of this life of the target past its
check has its hold or has seen it go, which a stopped process cannot change, and that a
target which is not paused has no hold, which `HoldProtocol` promises.  Together they give
`StoppedUnderItsHold`: gdb stops no process in the middle of a training step, unless the
hold went between check and attach.
`EveryStepGetsOn` is the provable half of `CaptureEnds`, as in `Services`.
`NameInv` counts: a life has named no more artifacts than it has clients that are
through, so that each gets a number nobody of that life has; clients of an earlier
life may still carry the same one, which is why it speaks of one life.

`Algorithms_proofs` proves of `Tuning` that values stay valid and that answers are exact, for any
declarations, models, optimizers and requests.  The invariant adds only the shape of
the values (`ShapeInv`); the work is in the lemmas about the operators.  `Truncation`
says that dropping a fraction is monotonic, which is why an integer that is cast after
its bounds were compared is within these bounds *without their fractions*, and within the
bounds themselves exactly when they are integers.  `ConvertedFitsType` and
`ConvertedFitsBounds` say so of one number, `AsTensorElements` and `CastIsValid` of
whatever `cast_and_assign` stores, alone or in a tensor of any shape.  Nothing is assumed of
the values a model is built with beyond their types: nothing in the code compares them,
and a knob nobody has set yet may be out of its bounds (`ValuesStayValid` says that it is
within them or still has its first value).

Of `Payload` it proves the three properties, for any graph of any number of nodes, any
callback and any bounds.  That what a script is given comes from one call (`InputInv`) is
all that concerns time; the rest is about what two recursive functions return.  Three
things carry it.

- *Recursion.*  That a function defined by recursion on the levels exists and satisfies
  its definition is proved here (`Iteration`), by an induction on sets of numbers:
  `SetInduction` takes a set, not a predicate, which is what lets the provers use it.
  `DescribeRecursion` and `CollectRecursion` follow, and from them what is said of a node
  in each case: `DescribeCases` and `CollectCases` when it is not entered,
  `EnteredDescription` and `EnteredCollection` when it is.
- *Induction on the levels left* (`LevelInduction`), once for each fact.  `Correlation`:
  a leaf is collected at a path exactly where the description has a tensor, which is
  `TensorsCorrelate`.  `Sameness`: a traversal that hit no bound returns the same under
  any wider bounds, the half of `TruncationIsTold` about scripts that are told nothing.
  `Marking`: one that hit a bound has a place that says so, the other half.
- *Walks.*  `Reaching`: the leaves collected are the ends of the walks through the
  arguments that meet no container twice, which `AllOrFailed` defines without any
  traversal.  `WalkSplit` takes a walk apart into its first step and a walk that avoids
  the container it came from, `TrailRecursion` says where it leads.

The assumptions are those of the modules (`RunControlAssumption`,
`LiveCaptureAssumption`, `VirtualFilesAssumption`, `HookRunnerAssumption`,
`HooksBootstrapAssumption`, `HookSessionAssumption`, `ServicesAssumption`,
`DebugCaptureAssumption`, `TuningAssumption`, `PayloadAssumption`): natural bounds, positive sizes, finitely
many clients and threads, that what `parse_when` accepts is a `When`, that names of
processes, starts and clients are not the names of states, and for `Tuning` that numbers
are below the ones that stand for infinity and NaN, that declared bounds are numbers and
that initial values have their types, and for `Payload` that a graph gives every node a kind
and items, that no object is one of the marks that stand for others, and that `Ample`
bounds what may be configured.  TLC evaluates each of them in a run.

Only model-checked: every liveness property, with the fairness half of
`ImplementsHoldProtocol`, and the violations above.  The provers at hand do no fairness
arguments, and `ENABLED` is beyond them.  `NoWakeupIsLost`, the two `EveryStepGetsOn`
and `UnboundedWaitsAreForChildren` are the parts of these properties that need neither;
the runs check the whole and not these parts.

## 5. Not modelled, and the plan

Not modelled:

- the browser interface, the renderers behind the inspectors, environment parsing,
  examples: no control state;
- pipeline pressure: arithmetic on timestamps in one thread, and
  `PipelinePressureTracker.optimizer_step` has no caller;
- CUDA history: two statements, a call and an assignment; that the published flag is
  torch's does not hold when two REST threads interleave them, and nothing else
  depends on it;
- what the profiler records between its steps;
- ranks without a REST server, and the collectives the others wait in: a hold of the
  finite guard on such a rank has nobody to release it, but what happens to the rest
  is torch.distributed's;
- directories and paths of the mount, which only configuration changes;
- checkpoints and snapshots on disk, written as debug captures are.

Noticed in translation, and stated by no run:

- `CommandWhen` documents next_any as "same as immediate but outside a hold";
  `is_due` treats the two alike.
- A cancel that lands between `due()` and `mark_executing` answers True, and the
  command runs (`commands.py:185`).
- `release_hold` compares the id on one read of the gate and releases on another, so
  that it may release a hold engaged in between (`app.py:233`).
- POST /holds answers as soon as its command is not queued any more, which is before
  the hold is engaged.
- The README of trainctl says that a *tail* of a script's output is retained for the
  failure record; `_record` keeps its beginning.  It says that output is streamed
  live; it stays in the read buffer until a chunk is full (`runner.py:80`).  And it
  says that `hooks_timeout_s` bounds how long training waits; the joins of the drains
  wait for any child that keeps a pipe (`runner.py:176`), which is what
  `ReturnsUnlessPipesAreKept` excepts.
- `LIFECYCLE_HOOKS_PLAN.md` has rank zero initialise the hooks directory; every rank
  does, and one that loses the rename raises.  A truncated marker is refused although
  the live tree has its record (`manager.py:81`).
- A parameters document that drops its arguments is not measured again, and may still
  be larger than its limit.  A mapping with the keys `1` and `"1"` gives two tensors
  one path, and describes one of them.
- Bounds are compared before the cast, and NaN passes them.  An integer tensor with a
  minimum of 0.5 that is sent `[0.7]` stores 0; `ValuesStayValid` says how far out of its
  bounds a cast can take a value.  A negative optimizer index counts from the end.
- A KeyboardInterrupt in the first wait for a hook script may reap it; its process group
  is sent SIGTERM all the same, when its number may be another's (`runner.py:199`).
- After an aborted training, the next model of the process gets neither debug server
  nor, paired with it, REST.  A set-up that raised under `inspection_strict` leaves
  `_started` set.
- An evaluation that gdb abandoned may have been queued: the retry runs the snippet a
  second time.  A schedule that gives up leaves the snippet's file, so that a call
  that was queued all the same still runs.
- Artifact ids count from 1 in every process; with a configured directory, a restart
  writes into the artifacts of the process before it.
- A hold may be released between a debugger's check and its attach.
- A virtual file of a value that is withdrawn between its two reads prints `None`, or
  raises, which `getattr` does not catch.  Attributes of the runtime that are no part of
  the published snapshot, such as `_rest_port` (`virtual_fs.py:118`, 183), are
  read twice as well, and no property is about them.
- `_percentile` indexes `int(f * n)`, which is one above the nearest rank: of two
  samples, the median is the larger.

Left for later: a variant like `ToDo` for the dispatch of a session, and fairness, with a
prover that has `ENABLED`.
