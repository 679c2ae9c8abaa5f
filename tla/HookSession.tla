----------------------------- MODULE HookSession -----------------------------
(***************************************************************************)
(* The hook sessions of the processes (ranks) that share a run directory:  *)
(* the adapter's callbacks as Lightning calls them, the session each stage *)
(* opens and closes, the logging bridge it installs, and the dispatch of   *)
(* one callback's light and heavy script.                                  *)
(*                                                                         *)
(* Lightning and the operator are the environment: any callback may follow *)
(* any other within a stage, any may fail, and execute bits change at any  *)
(* time.  A script is run_script, module HookRunner; here it takes a step  *)
(* and succeeds, fails or is interrupted.                                  *)
(***************************************************************************)
EXTENDS Integers

CONSTANTS
  Ranks,        (* the processes of the run                                  *)
  RankZero,     (* the one whose global rank is 0                            *)
  Ordinary,     (* the callbacks that neither open nor close a session       *)
  Scripts,      (* the scripts an operator may enable: callback and modality *)
  MaxSetups     (* bound: stages one process enters                          *)

ASSUME HookSessionAssumption ==
  /\ RankZero \in Ranks
  /\ Ordinary \cap {"setup", "teardown", "on_exception"} = {}
  /\ Scripts \subseteq (Ordinary \cup {"setup", "teardown", "on_exception"})
                     \X {"light", "heavy"}
  /\ MaxSetups \in Nat

VARIABLES
  policy,       (* hooks_rank_policy                                         *)
  enabled,      (* the scripts whose execute bit is set                      *)
  root,         (* .hooks-tmp exists                                         *)
  killed,       (* history: a process was killed since the last close        *)
  pc,           (* where each process stands                                 *)
  hook,         (* the callback in dispatch ...                              *)
  modality,     (* ... and the script of it                                  *)
  dir,          (* the invocation directory of each process                  *)
  exportable,   (* prepare_heavy_export found no reason to refuse            *)
  unreported,   (* history: the invocation failed, and no record says so     *)
  setups,       (* sessions begun, which also number them                    *)
  session,      (* _hook_session and _logging_session; 0 for None            *)
  bridge,       (* the session whose handler the loggers have; 0 for none    *)
  sinks,        (* the sessions whose run file is attached                   *)
  failed        (* history: sessions that were begun and never opened        *)

tree == <<policy, enabled, root, killed>>
position == <<pc, hook, modality>>
invocation == <<dir, exportable, unreported>>
logging == <<setups, session, bridge, sinks, failed>>
vars == <<policy, enabled, root, killed, pc, hook, modality, dir, exportable,
          unreported, setups, session, bridge, sinks, failed>>

Callbacks == Ordinary \cup {"setup", "teardown", "on_exception"}
Modalities == {"light", "heavy"}
Sessions == 1 .. MaxSetups

Init ==
  /\ policy \in {"rank_zero", "all"}
  /\ enabled \in SUBSET Scripts
  /\ root = FALSE /\ killed = FALSE
  /\ pc = [r \in Ranks |-> "idle"] /\ hook = [r \in Ranks |-> "setup"]
  /\ modality = [r \in Ranks |-> "light"]
  /\ dir = [r \in Ranks |-> "absent"]
  /\ exportable = [r \in Ranks |-> TRUE] /\ unreported = [r \in Ranks |-> FALSE]
  /\ setups = [r \in Ranks |-> 0] /\ session = setups /\ bridge = setups
  /\ sinks = [r \in Ranks |-> {}] /\ failed = sinks

Set(f, r, v) == f' = [f EXCEPT ![r] = v]
Goto(r, p) == Set(pc, r, p) /\ UNCHANGED <<hook, modality>>
Call(r, h) == Set(pc, r, "handle") /\ Set(hook, r, h) /\ Set(modality, r, "light")
Leave(r, p) == Set(pc, r, p) /\ Set(modality, r, "light") /\ UNCHANGED hook
GoIdle(r) == Set(pc, r, "idle") /\ Set(hook, r, "setup") /\ Set(modality, r, "light")

-----------------------------------------------------------------------------
(* ensure_hook_session.  What the loggers and the run file have been given *)
(* by then stays when a later step raises: the two fields that close would *)
(* look at are assigned last.                                              *)

Begun(r) == setups[r] + 1
CanSetUp(r) == pc[r] = "idle" /\ session[r] = 0 /\ setups[r] < MaxSetups

LoggersAreFree(r) == bridge[r] = 0

Open(r) ==
  /\ CanSetUp(r) /\ LoggersAreFree(r)
  /\ Set(setups, r, Begun(r)) /\ Set(bridge, r, Begun(r)) /\ Set(session, r, Begun(r))
  /\ Set(sinks, r, sinks[r] \cup {Begun(r)})
  /\ Call(r, "setup")
  /\ UNCHANGED <<tree, invocation, failed>>

(* install raises; Lightning then calls on_exception, which finds nothing  *)
(* to dispatch to and nothing to close.                                    *)
Overlap(r) ==
  /\ CanSetUp(r) /\ ~LoggersAreFree(r)
  /\ Set(setups, r, Begun(r)) /\ Set(failed, r, failed[r] \cup {Begun(r)})
  /\ UNCHANGED <<tree, position, invocation, session, bridge, sinks>>

(* The run file cannot be opened, no bash is found, or the bootstrap of    *)
(* the hooks tree (module HooksBootstrap) raises.                          *)
SetUpFails(r) ==
  /\ CanSetUp(r) /\ LoggersAreFree(r)
  /\ Set(setups, r, Begun(r)) /\ Set(bridge, r, Begun(r))
  /\ sinks' \in {sinks, [sinks EXCEPT ![r] = @ \cup {Begun(r)}]}
  /\ Set(failed, r, failed[r] \cup {Begun(r)})
  /\ UNCHANGED <<tree, position, invocation, session>>

-----------------------------------------------------------------------------
(* Lightning. *)

Fire(r, h) ==
  /\ pc[r] = "stage" /\ Call(r, h)
  /\ UNCHANGED <<tree, invocation, logging>>

(* Where a callback leaves Lightning, and what follows a raise in it:      *)
(* teardown and on_exception close the session in a finally, any other has *)
(* Lightning call on_exception.                                            *)
Closing(h) == h \in {"teardown", "on_exception"}

(* Seeded bug: on_exception is dispatched again when it raises. *)
RaiseAgain(r) == Call(r, "on_exception")
Raise(r) == IF Closing(hook[r]) THEN Leave(r, "finalize") ELSE Call(r, "on_exception")
Return(r) == Leave(r, IF Closing(hook[r]) THEN "finalize" ELSE "stage")

(* finalize_hooks_and_logging.  The whole of .hooks-tmp goes, with what    *)
(* other processes have in it.  Seeded bug: the loggers keep the handler.  *)
StillBridged(r) == bridge[r]
Restored(r) == 0

Finalize(r) ==
  /\ pc[r] = "finalize" /\ GoIdle(r)
  /\ root' = FALSE /\ killed' = FALSE
  /\ dir' = [q \in Ranks |-> "absent"]
  /\ Set(bridge, r, Restored(r)) /\ Set(sinks, r, sinks[r] \ {session[r]})
  /\ Set(session, r, 0)
  /\ UNCHANGED <<policy, enabled, exportable, unreported, setups, failed>>

(* The process is killed, and may be started again: what it had in memory  *)
(* is gone, its invocation directory stays.                                *)
Kill(r) ==
  /\ pc[r] # "idle" /\ GoIdle(r)
  /\ killed' = TRUE
  /\ Set(dir, r, "absent") /\ Set(exportable, r, TRUE) /\ Set(unreported, r, FALSE)
  /\ Set(session, r, 0) /\ Set(bridge, r, 0) /\ Set(sinks, r, {}) /\ Set(failed, r, {})
  /\ UNCHANGED <<policy, enabled, root, setups>>

-----------------------------------------------------------------------------
(* HookSession.handle, dispatch_light and dispatch_heavy. *)

Eligible(r) == policy = "all" \/ r = RankZero
Script(r) == <<hook[r], modality[r]>>

Skip(r) ==
  /\ pc[r] = "handle" /\ ~Eligible(r) /\ Return(r)
  /\ UNCHANGED <<tree, invocation, logging>>

Handle(r) ==
  /\ pc[r] = "handle" /\ Eligible(r)
  /\ root' = TRUE
  /\ Goto(r, "check")
  /\ UNCHANGED <<policy, enabled, killed, invocation, logging>>

(* mkdir of .hooks-tmp or of the invocation directory fails. *)
MkdirFails(r) ==
  /\ pc[r] = "mkdir" \/ (pc[r] = "handle" /\ Eligible(r))
  /\ Raise(r)
  /\ UNCHANGED <<tree, invocation, logging>>

NextModality(r) ==
  IF modality[r] = "light"
    THEN Set(pc, r, "check") /\ Set(modality, r, "heavy") /\ UNCHANGED hook
    ELSE Return(r)

(* resolve_enabled_script, asked before the metadata is built and again    *)
(* before the launch.                                                      *)
Check(r) ==
  /\ pc[r] = "check"
  /\ IF Script(r) \in enabled THEN Goto(r, "build") ELSE NextModality(r)
  /\ UNCHANGED <<tree, invocation, logging>>

Build(r) ==
  /\ pc[r] = "build" /\ Goto(r, "recheck")
  /\ \E ok \in BOOLEAN : (modality[r] = "light" => ok) /\ Set(exportable, r, ok)
  /\ UNCHANGED <<tree, dir, unreported, logging>>

Recheck(r) ==
  /\ pc[r] = "recheck"
  /\ \/ Script(r) \notin enabled /\ NextModality(r) /\ UNCHANGED unreported
     \/ Script(r) \in enabled /\ exportable[r] /\ Goto(r, "mkdir") /\ UNCHANGED unreported
     \/ /\ Script(r) \in enabled /\ ~exportable[r] /\ Goto(r, "log")
        /\ Set(unreported, r, TRUE)
  /\ Set(exportable, r, TRUE)
  /\ UNCHANGED <<tree, dir, logging>>

Mkdir(r) ==
  /\ pc[r] = "mkdir" /\ Goto(r, "write")
  /\ root' = TRUE /\ Set(dir, r, "empty")
  /\ UNCHANGED <<policy, enabled, killed, exportable, unreported, logging>>

Write(r) ==
  /\ pc[r] = "write" /\ dir[r] = "empty" /\ Goto(r, "run")
  /\ Set(dir, r, "filled")
  /\ UNCHANGED <<tree, exportable, unreported, logging>>

(* Seeded bugs: the directory is removed only after a run;                 *)
(* with it goes everybody's.                                               *)
NoFinally(r) == dir
AllOfThem(r) == [q \in Ranks |-> "absent"]
Removed(r) == [dir EXCEPT ![r] = "absent"]
RemovedAfterRaise(r) == Removed(r)

(* The disk is full, or the directory is gone; a KeyboardInterrupt reaches *)
(* run_script.                                                             *)
WriteFails(r) ==
  /\ pc[r] = "write" /\ Raise(r)
  /\ dir' = RemovedAfterRaise(r)
  /\ UNCHANGED <<tree, exportable, unreported, logging>>

RunInterrupted(r) ==
  /\ pc[r] = "run" /\ Raise(r)
  /\ dir' = RemovedAfterRaise(r)
  /\ UNCHANGED <<tree, exportable, unreported, logging>>

(* _is_failure: a timeout, a failed launch or a non-zero exit code; a      *)
(* signal has no exit code, which is not 0 either.                         *)
Ends == {"succeeded", "exit_code", "signal", "timeout", "launch_error"}
IsFailure == Ends \ {"succeeded"}

Run(r) ==
  /\ pc[r] = "run"
  /\ dir' = Removed(r)
  /\ \E end \in Ends :
       /\ Set(unreported, r, end # "succeeded")
       /\ IF end \in IsFailure THEN Goto(r, "log") ELSE NextModality(r)
  /\ UNCHANGED <<tree, exportable, logging>>

LogFailure(r) ==
  /\ pc[r] = "log" /\ NextModality(r)
  /\ Set(unreported, r, FALSE)
  /\ UNCHANGED <<tree, dir, exportable, logging>>

(* The operator: chmod of one script. *)
Chmod(script) ==
  /\ enabled' \in {enabled \cup {script}, enabled \ {script}}
  /\ UNCHANGED <<policy, root, killed, position, invocation, logging>>

Dispatch(r) ==
  \/ Skip(r) \/ Handle(r) \/ MkdirFails(r) \/ Check(r) \/ Build(r) \/ Recheck(r)
  \/ Mkdir(r) \/ Write(r) \/ WriteFails(r) \/ Run(r) \/ RunInterrupted(r)
  \/ LogFailure(r) \/ Finalize(r)

Stage(r) ==
  \/ Open(r) \/ Overlap(r) \/ SetUpFails(r)
  \/ \E h \in Ordinary \cup {"teardown", "on_exception"} : Fire(r, h)

Done == (\A r \in Ranks : pc[r] = "idle") /\ UNCHANGED vars

Next ==
  \/ \E r \in Ranks : Stage(r) \/ Dispatch(r) \/ Kill(r)
  \/ \E script \in Scripts : Chmod(script)
  \/ Done

Spec == Init /\ [][Next]_vars

(* Dispatch runs on the training thread, and a script ends; a stage does   *)
(* not fire callbacks for ever.                                            *)
FairSpec ==
  /\ Spec
  /\ \A r \in Ranks : WF_vars(Dispatch(r)) /\ SF_vars(Fire(r, "teardown"))

-----------------------------------------------------------------------------
TypeOK ==
  /\ policy \in {"rank_zero", "all"} /\ enabled \subseteq Scripts
  /\ root \in BOOLEAN /\ killed \in BOOLEAN
  /\ pc \in [Ranks -> {"idle", "stage", "handle", "check", "build", "recheck", "mkdir",
                       "write", "run", "log", "finalize"}]
  /\ hook \in [Ranks -> Callbacks] /\ modality \in [Ranks -> Modalities]
  /\ dir \in [Ranks -> {"absent", "empty", "filled"}]
  /\ exportable \in [Ranks -> BOOLEAN] /\ unreported \in [Ranks -> BOOLEAN]
  /\ setups \in [Ranks -> 0 .. MaxSetups] /\ session \in [Ranks -> 0 .. MaxSetups]
  /\ bridge \in [Ranks -> 0 .. MaxSetups]
  /\ sinks \in [Ranks -> SUBSET Sessions] /\ failed \in [Ranks -> SUBSET Sessions]

(* An open session has the loggers and a run file to itself, whatever      *)
(* other sessions of the process did before it; and once no session is     *)
(* open, the only thing that can still hold them is one whose set-up       *)
(* raised after install (runtime.py 271-294).  (With the types.)           *)
LoggingIsOwned ==
  /\ TypeOK
  /\ \A r \in Ranks :
       /\ session[r] # 0 => bridge[r] = session[r] /\ session[r] \in sinks[r]
       /\ session[r] = 0 => bridge[r] \in failed[r] \cup {0} /\ sinks[r] \subseteq failed[r]

(* Outside a dispatch no process has an invocation directory, and when no  *)
(* session is open there is no .hooks-tmp, whichever callbacks raised and  *)
(* in whatever order the ranks closed, unless a process was killed.        *)
(* Nor is a failed invocation left unlogged when training goes on.         *)
NothingIsLeft ==
  /\ \A r \in Ranks : unreported[r] => pc[r] = "log"
  /\ \A r \in Ranks : dir[r] # "absent" => pc[r] \in {"write", "run"}
  /\ (\A r \in Ranks : session[r] = 0) => (root => killed)

(* What a script was given to read is taken away under it only when        *)
(* another process closes its session (session.py 154): its own process    *)
(* removes the directory after it, a third one's dispatch leaves it alone. *)
OnlyACloseTakesAway ==
  [][\A r \in Ranks :
       pc[r] = "run" /\ dir[r] = "filled" /\ pc'[r] = "run" /\ dir'[r] # "filled" =>
         \E q \in Ranks \ {r} : pc[q] = "finalize" /\ pc'[q] = "idle"]_vars

(* README 125-126: the directory of a heavy script exists "for the heavy   *)
(* script's entire supervised lifetime"; and session.py 150: what close    *)
(* finds there is a leak.                                                  *)
ExistsForItsScript ==
  \A r \in Ranks : pc[r] = "run" /\ modality[r] = "heavy" => dir[r] = "filled"

(* However often callbacks raise, the one for the exception included, the  *)
(* session ends and the process gives its loggers back.                    *)
SessionEnds ==
  \A r \in Ranks : session[r] # 0 ~> session[r] = 0 /\ bridge[r] = 0
=============================================================================
