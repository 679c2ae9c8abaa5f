------------------------------- MODULE Services -------------------------------
(***************************************************************************)
(* The services of one training process: TrainctlRuntime.setup_environment *)
(* and teardown, the REST server's and the debug frontend's ports, and the *)
(* FUSE mount, through several stages and, after an exception, several     *)
(* models of the same process.                                             *)
(*                                                                         *)
(* Ports are numbered by their offset.  Other programs take and give back  *)
(* ports at any time; server and mount threads come up, fail or linger as  *)
(* they like, and every bounded wait may time out.                         *)
(***************************************************************************)
EXTENDS Integers

CONSTANTS
  Attempts,     (* paired_port_search_attempts, the search ranges            *)
  MaxModels     (* bound: models (runtimes) the process constructs           *)

ASSUME ServicesAssumption == Attempts \in Nat \ {0} /\ MaxModels \in Nat \ {0}

VARIABLES
  config,       (* what is enabled on this rank, and inspection_strict       *)
  distributed,  (* torch.distributed is initialised                          *)
  pc,           (* the step of set-up or teardown                            *)
  k,            (* the offset it tries                                       *)
  started,      (* _started                                                  *)
  status,       (* the published status                                      *)
  rest,         (* each REST port: who has it, and in what state             *)
  mine,         (* the REST ports this model has bound                       *)
  restPort,     (* _rest_server and _rest_port                               *)
  debug,        (* each debug port                                           *)
  debugPort,    (* TorchDebugManager's _started and _selected_port           *)
  upstream,     (* the globals of torch.distributed.debug                    *)
  calls,        (* history: start_debug_server calls of one set-up           *)
  mount,        (* the FUSE mount                                            *)
  fuseRef,      (* _fuse_thread, _fuse_ops and _fuse_mountpoint are set      *)
  late,         (* history: what failed to come up or to stop in time        *)
  models        (* models constructed so far                                 *)

control == <<pc, k, started, status>>
restState == <<rest, mine, restPort>>
debugState == <<debug, debugPort, upstream, calls>>
fuseState == <<mount, fuseRef>>
fixed == <<config, distributed, models>>
vars == <<config, distributed, pc, k, started, status, rest, mine, restPort, debug,
          debugPort, upstream, calls, mount, fuseRef, late, models>>

Offsets == 0 .. Attempts - 1
None == -1
Services == {"rest", "debug", "fuse"}

Init ==
  /\ config \in [enabled : SUBSET Services, strict : BOOLEAN]
  /\ distributed \in {FALSE, "debug" \in config.enabled}   (* only the manager asks *)
  /\ pc = "idle" /\ k = 0 /\ started = FALSE /\ status = "starting"
  /\ rest \in [Offsets -> {"free", "other"}] /\ mine = {} /\ restPort = None
  /\ debug \in [Offsets -> {"free", "other"}] /\ debugPort = None
  /\ upstream = "none" /\ calls = 0
  /\ mount = "none" /\ fuseRef = FALSE /\ late = {} /\ models = 1

On(service) == service \in config.enabled
Paired == On("rest") /\ On("debug")
Goto(p) == pc' = p /\ UNCHANGED <<k, started, status>>

(* _guarded: a failure is logged and the next step follows, or it is       *)
(* raised; Lightning then calls no teardown.                               *)
Fails(next) == Goto(IF config.strict THEN "idle" ELSE next)

-----------------------------------------------------------------------------
(* setup_environment. *)

Setup ==
  /\ pc = "idle"
  /\ IF started
       THEN Goto("stage") /\ UNCHANGED calls
       ELSE pc' = "artifacts" /\ k' = 0 /\ started' = TRUE /\ calls' = 0 /\ UNCHANGED status
  /\ UNCHANGED <<fixed, restState, debug, debugPort, upstream, fuseState, late>>

First == IF Paired THEN "probe" ELSE IF On("debug") THEN "pick" ELSE IF On("rest") THEN "bind" ELSE "fuse"

ResolveArtifactDir ==
  /\ pc = "artifacts" /\ (Goto(First) \/ Fails(First))
  /\ UNCHANGED <<fixed, restState, debugState, fuseState, late>>

(* Seeded bug: a collision tries the same offset again. *)
SameOffset == k
NextOffset == k + 1
TryNext(p) == pc' = p /\ k' = NextOffset /\ UNCHANGED <<started, status>>

Exhausted ==
  /\ pc \in {"probe", "bind"} /\ k = Attempts /\ Fails("fuse")
  /\ UNCHANGED <<fixed, restState, debugState, fuseState, late>>

Probe ==
  /\ pc = "probe" /\ k \in Offsets
  /\ IF debug[k] = "free" THEN Goto("bind") ELSE TryNext("probe")
  /\ UNCHANGED <<fixed, restState, debugState, fuseState, late>>

Bind ==
  /\ pc = "bind" /\ k \in Offsets
  /\ IF rest[k] = "free"
       THEN /\ Goto(IF Paired THEN "reprobe" ELSE "serve")
            /\ rest' = [rest EXCEPT ![k] = "held"] /\ mine' = mine \cup {k}
       ELSE TryNext(IF Paired THEN "probe" ELSE "bind") /\ UNCHANGED <<rest, mine>>
  /\ UNCHANGED <<fixed, restPort, debugState, fuseState, late>>

CloseSocket == rest' = [rest EXCEPT ![k] = "free"] /\ mine' = mine \ {k}

(* Seeded bug: the socket of an abandoned offset is not closed. *)
KeepSocket == UNCHANGED <<rest, mine>>
Abandon == CloseSocket

Reprobe ==
  /\ pc = "reprobe"
  /\ IF debug[k] = "free"
       THEN Goto("debug") /\ UNCHANGED <<rest, mine>>
       ELSE TryNext("probe") /\ Abandon
  /\ UNCHANGED <<fixed, restPort, debugState, fuseState, late>>

(* Without a REST server to pair with: _select_free_port, which starts     *)
(* anywhere in its range, once start_after_distributed_init has found that *)
(* the server is neither up nor out of reach.                              *)
Pick ==
  /\ pc = "pick" /\ debugPort = None /\ distributed
  /\ \/ \E j \in Offsets : debug[j] = "free" /\ k' = j /\ pc' = "debug"
                           /\ UNCHANGED <<started, status>>
     \/ (\A j \in Offsets : debug[j] # "free") /\ Fails("fuse")
  /\ UNCHANGED <<fixed, restState, debugState, fuseState, late>>

(* start_after_distributed_init, from there on. *)
StartDebug ==
  /\ pc = "debug" /\ debugPort = None /\ distributed /\ upstream = "none"
  /\ debug[k] = "free"
  /\ debug' = [debug EXCEPT ![k] = "own"] /\ debugPort' = k
  /\ upstream' = "up" /\ calls' = calls + 1
  /\ Goto(IF Paired THEN "serve" ELSE "fuse")
  /\ UNCHANGED <<fixed, restState, fuseState, late>>

(* A teardown that raised before it came to the debug server left it up.   *)
DebugIsUp ==
  /\ pc \in {"pick", "debug"} /\ debugPort # None
  /\ Goto(IF Paired THEN "serve" ELSE "fuse")
  /\ UNCHANGED <<fixed, restState, debugState, fuseState, late>>

(* It is not available; it was started before in this process, and asserts *)
(* so; or its port is gone, with the worker server already up.  The REST   *)
(* socket goes with the exception: at once where the exception is only     *)
(* logged, and with its traceback, whenever that is, where it is raised.   *)
GiveUpDebug == Fails("fuse")

DropSocket ==
  /\ mine' = mine \ {k}
  /\ rest' = [rest EXCEPT ![k] = IF config.strict THEN "exiting" ELSE "free"]

DebugFails ==
  /\ debugPort = None
  /\ \/ pc \in {"pick", "debug"} /\ ~distributed /\ UNCHANGED <<upstream, calls>>
     \/ /\ pc = "debug" /\ distributed /\ upstream # "none"
        /\ calls' = calls + 1 /\ UNCHANGED upstream
     \/ /\ pc = "debug" /\ distributed /\ upstream = "none"
        /\ upstream' = "stuck" /\ calls' = calls + 1
  /\ IF Paired THEN DropSocket ELSE UNCHANGED <<rest, mine>>
  /\ GiveUpDebug
  /\ UNCHANGED <<fixed, restPort, debug, debugPort, fuseState, late>>

(* _start_rest_on_socket, from the start of the server thread on. *)
Serve ==
  /\ pc = "serve" /\ Goto("await")
  /\ rest' = [rest EXCEPT ![k] = "starting"]
  /\ UNCHANGED <<fixed, mine, restPort, debugState, fuseState, late>>

RestReady ==
  /\ pc = "await" /\ rest[k] = "serving" /\ Goto("fuse")
  /\ restPort' = k
  /\ UNCHANGED <<fixed, rest, mine, debugState, fuseState, late>>

RestNotReady ==
  /\ pc = "await" /\ Fails("fuse")
  /\ late' = late \cup {"rest"}
  /\ UNCHANGED <<fixed, restState, debugState, fuseState>>

StartFuse ==
  /\ pc = "fuse" /\ On("fuse")
  /\ \/ Goto("await_fuse") /\ mount' = "mounting"
     \/ Fails("up") /\ UNCHANGED mount
  /\ UNCHANGED <<fixed, restState, debugState, fuseRef, late>>

NoFuse ==
  /\ pc = "fuse" /\ ~On("fuse") /\ Goto("up")
  /\ UNCHANGED <<fixed, restState, debugState, fuseState, late>>

FuseReady ==
  /\ pc = "await_fuse" /\ mount = "mounted" /\ Goto("up")
  /\ fuseRef' = TRUE
  /\ UNCHANGED <<fixed, restState, debugState, mount, late>>

FuseNotReady ==
  /\ pc = "await_fuse" /\ Fails("up")
  /\ late' = late \cup {"fuse"}
  /\ UNCHANGED <<fixed, restState, debugState, fuseState>>

Up ==
  /\ pc = "up" /\ pc' = "stage" /\ status' = "running" /\ k' = 0
  /\ UNCHANGED <<fixed, started, restState, debugState, fuseState, late>>

-----------------------------------------------------------------------------
(* teardown; the release of a dangling hold is RunControl's.               *)

(* Seeded bug: status before the services. *)
Early == "finished"
Stopping == "stopping"

Teardown ==
  /\ pc = "stage" /\ pc' = "stop_rest"
  /\ started' = FALSE /\ status' = Stopping /\ UNCHANGED k
  /\ UNCHANGED <<fixed, restState, debugState, fuseState, late>>

StopRest ==
  /\ pc = "stop_rest" /\ Goto("stop_fuse")
  /\ IF restPort = None THEN UNCHANGED rest
       ELSE rest' \in {[rest EXCEPT ![restPort] = s] : s \in {"free", "exiting"}}
  /\ restPort' = None
  /\ UNCHANGED <<fixed, mine, debugState, fuseState, late>>

(* fusermount3 is missing, or fails because the mount is busy. *)
StopFuse ==
  /\ pc = "stop_fuse"
  /\ \/ ~fuseRef /\ Goto("stop_debug") /\ UNCHANGED <<mount, fuseRef, late>>
     \/ fuseRef /\ Fails("stop_debug") /\ late' = late \cup {"fuse"} /\ UNCHANGED <<mount, fuseRef>>
     \/ /\ fuseRef /\ Goto("stop_debug") /\ fuseRef' = FALSE
        /\ \/ mount' = "none" /\ UNCHANGED late
           \/ late' = late \cup {"fuse"} /\ UNCHANGED mount
  /\ UNCHANGED <<fixed, restState, debugState>>

(* stop_debug_server may raise; the manager forgets it all the same. *)
StopDebug ==
  /\ pc = "stop_debug"
  /\ \/ debugPort = None /\ Goto("finish") /\ UNCHANGED <<debug, upstream, late>>
     \/ /\ debugPort # None /\ Goto("finish")
        /\ debug' = [debug EXCEPT ![debugPort] = "free"] /\ upstream' = "none"
        /\ UNCHANGED late
     \/ /\ debugPort # None /\ Fails("finish")
        /\ late' = late \cup {"debug"} /\ UNCHANGED <<debug, upstream>>
  /\ debugPort' = None
  /\ UNCHANGED <<fixed, restState, calls, fuseState>>

Finish ==
  /\ pc = "finish" /\ pc' = "idle" /\ status' = "finished"
  /\ UNCHANGED <<fixed, k, started, restState, debugState, fuseState, late>>

-----------------------------------------------------------------------------
(* The environment. *)

(* An exception in training: no teardown. *)
Abort ==
  /\ pc = "stage" /\ Goto("idle")
  /\ UNCHANGED <<fixed, restState, debugState, fuseState, late>>

(* The user constructs another model; what the last one left running stays. *)
NewModel ==
  /\ pc = "idle" /\ models < MaxModels /\ models' = models + 1
  /\ started' = FALSE /\ status' = "starting" /\ k' = 0 /\ UNCHANGED pc
  /\ mine' = {} /\ restPort' = None /\ debugPort' = None /\ calls' = 0
  /\ mount' = "none" /\ fuseRef' = FALSE /\ late' = {}
  /\ UNCHANGED <<config, distributed, rest, debug, upstream>>

ServerRuns(j) ==
  /\ \/ rest[j] = "starting" /\ rest' \in {[rest EXCEPT ![j] = s] : s \in {"serving", "free"}}
     \/ rest[j] = "exiting" /\ rest' = [rest EXCEPT ![j] = "free"]
  /\ UNCHANGED <<fixed, control, mine, restPort, debugState, fuseState, late>>

MountRuns ==
  /\ mount = "mounting" /\ mount' \in {"mounted", "none"}
  /\ UNCHANGED <<fixed, control, restState, debugState, fuseRef, late>>

Toggle(f, j) ==
  /\ f[j] \in {"free", "other"}
  /\ f' = [f EXCEPT ![j] = IF @ = "free" THEN "other" ELSE "free"]

(* Their comings and goings matter while set-up looks at the ports.        *)
Others ==
  /\ pc \in {"probe", "bind", "reprobe", "pick", "debug"}
  /\ \E j \in Offsets :
       \/ Toggle(rest, j) /\ UNCHANGED debug
       \/ Toggle(debug, j) /\ UNCHANGED rest
  /\ UNCHANGED <<fixed, control, mine, restPort, debugPort, upstream, calls, fuseState, late>>

SetupStep ==
  \/ ResolveArtifactDir \/ Exhausted \/ Probe \/ Bind \/ Reprobe \/ Pick \/ StartDebug
  \/ DebugIsUp \/ DebugFails \/ Serve \/ RestReady \/ RestNotReady
  \/ StartFuse \/ NoFuse \/ FuseReady \/ FuseNotReady \/ Up

TeardownStep == StopRest \/ StopFuse \/ StopDebug \/ Finish

Next ==
  \/ Setup \/ SetupStep \/ Teardown \/ TeardownStep
  \/ Abort \/ NewModel \/ Others \/ MountRuns
  \/ \E j \in Offsets : ServerRuns(j)

Spec == Init /\ [][Next]_vars

(* The training thread runs, and its waits are bounded. *)
FairSpec == Spec /\ WF_vars(SetupStep \/ TeardownStep)

-----------------------------------------------------------------------------
TypeOK ==
  /\ config \in [enabled : SUBSET Services, strict : BOOLEAN] /\ distributed \in BOOLEAN
  /\ pc \in {"idle", "artifacts", "probe", "bind", "reprobe", "pick", "debug", "serve",
             "await", "fuse", "await_fuse", "up", "stage", "stop_rest", "stop_fuse",
             "stop_debug", "finish"}
  /\ k \in 0 .. Attempts /\ started \in BOOLEAN
  /\ status \in {"starting", "running", "stopping", "finished"}
  /\ rest \in [Offsets -> {"free", "other", "held", "starting", "serving", "exiting"}]
  /\ mine \subseteq Offsets /\ restPort \in Offsets \cup {None}
  /\ debug \in [Offsets -> {"free", "other", "own"}] /\ debugPort \in Offsets \cup {None}
  /\ upstream \in {"none", "up", "stuck"} /\ calls \in Nat
  /\ mount \in {"none", "mounting", "mounted"} /\ fuseRef \in BOOLEAN
  /\ late \subseteq Services /\ models \in Nat \ {0}

(* The REST port on record is one this model bound and serves, and the     *)
(* debug port on record has the same offset when the two were paired,      *)
(* whatever other programs did to the ports in between.  Nor is more bound *)
(* than is on record: no path out of set-up, collision, failure or raise,  *)
(* leaves a REST socket that no server thread has, but in the traceback of *)
(* an exception it raised.  And a set-up calls start_debug_server once: it *)
(* asserts on a second call.  (With the types.)                            *)
RecordIsTrue ==
  /\ TypeOK /\ calls <= 1
  /\ pc \notin {"reprobe", "debug", "serve"} => \A j \in Offsets : rest[j] # "held"
  /\ restPort # None => restPort \in mine /\ rest[restPort] = "serving"
  /\ debugPort # None => debug[debugPort] = "own" /\ upstream = "up"
  /\ Paired /\ restPort # None /\ debugPort # None /\ late = {} => restPort = debugPort

(* After a teardown that ended, a model has no server, mount or debug      *)
(* server left, but for one whose start or stop had timed out or failed:   *)
(* nothing refers to it then, and nothing will stop it (runtime.py         *)
(* 820-826, 780-784).  A debug server may also be an earlier model's.  A   *)
(* teardown that raised, or that never came, promises nothing.             *)
FinishedIsStopped ==
  status = "finished" /\ pc = "idle" /\ ~started =>
    /\ "rest" \in late \/ \A j \in mine : rest[j] \in {"free", "other", "exiting"}
    /\ "fuse" \in late \/ mount = "none"
    /\ "debug" \in late \/ models > 1 \/ \A j \in Offsets : debug[j] # "own"

(* Set-up and teardown end, whoever fights for the ports. *)
LifecycleEnds == pc \notin {"idle", "stage"} ~> pc \in {"idle", "stage"}

(* The steps that set-up or teardown can still take, counting for each     *)
(* offset that is left a probe, a bind and a second probe.                 *)
Search(j) == 3 * (Attempts - j)
ToDo ==
  CASE pc \in {"idle", "stage"}        -> 0
    [] pc \in {"finish", "up"}         -> 1
    [] pc \in {"stop_debug", "await_fuse"} -> 2
    [] pc \in {"stop_fuse", "fuse"}    -> 3
    [] pc \in {"stop_rest", "await"}   -> 4
    [] pc = "serve"                    -> 5
    [] pc = "debug"                    -> 6
    [] pc = "pick"                     -> 7
    [] pc = "reprobe"                  -> 8 + Search(k)
    [] pc = "bind"                     -> 9 + Search(k)
    [] pc = "probe"                    -> 10 + Search(k)
    [] pc = "artifacts"                -> 11 + Search(0)

(* However often other programs take a port between the probe, the bind    *)
(* and the second probe, every step of set-up and teardown leaves fewer to *)
(* do, and nothing else moves them; so that they end whenever they are     *)
(* given their turns (runtime.py 730-757).                                 *)
EveryStepGetsOn ==
  /\ [](ToDo \in 0 .. 11 + Search(0))
  /\ [][/\ SetupStep \/ TeardownStep => ToDo' < ToDo
        /\ Others \/ MountRuns \/ (\E j \in Offsets : ServerRuns(j)) => ToDo' = ToDo]_vars

(* config.py 33: the debug server is started "when available".  A set-up   *)
(* that met no taken port, and whose REST server came up in time if it was *)
(* started at all, has a REST server, whatever becomes of the debug server *)
(* (runtime.py 745-749).                                                   *)
RestNeedsNoDebugServer ==
  pc = "up" /\ Paired /\ k = 0 /\ "rest" \notin late => restPort # None
=============================================================================
