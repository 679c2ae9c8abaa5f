----------------------------- MODULE DebugCapture -----------------------------
(***************************************************************************)
(* Debugger clients against one training process: each arms a hold over    *)
(* REST, checks that it is in force, has gdb schedule a snippet in the     *)
(* target, polls for the snippet's report, and pushes the result to the    *)
(* target's artifact store.                                                *)
(*                                                                         *)
(* The target's holds are HoldProtocol's, which RunControl implements.     *)
(* gdb, CPython's pending calls and the operators are the environment: an  *)
(* evaluation may be abandoned before or after its call was queued, a      *)
(* queued call is served when the interpreter comes to it, anybody may     *)
(* release a hold, and the process may be killed and started again.        *)
(***************************************************************************)
EXTENDS Integers, FiniteSets

CONSTANTS
  Clients,      (* the debugger processes, one capture each                  *)
  Injecting,    (* those that use gdb_capture; the others use pyspy_capture  *)
  NoHold,
  MaxAttempts,  (* max_attempts                                              *)
  MaxLives      (* bound: times the training process is started              *)

ASSUME DebugCaptureAssumption ==
  /\ IsFiniteSet(Clients) /\ Injecting \subseteq Clients /\ NoHold \notin Clients
  /\ MaxAttempts \in Nat \ {0} /\ MaxLives \in Nat \ {0}

VARIABLES
  run, hold,    (* HoldProtocol's: a hold is named by the client that armed it *)
  status,       (* each hold command's status; "none" where REST knows none  *)
  life, up,     (* starts of the process; whether it runs                    *)
  tracer,       (* the client whose gdb is attached, which stops the process *)
  pending,      (* pending calls of each client's snippet                    *)
  running,      (* the client whose snippet the interpreter is in            *)
  ran,          (* history: runs of each client's snippet                    *)
  pc, pid,      (* where each client stands; the life it captures, pushes to *)
  tries,        (* evaluations abandoned                                     *)
  snippet,      (* the snippet's file exists                                 *)
  report,       (* the file the snippet reports to                           *)
  lost,         (* history: the hold went after the check had read it        *)
  gaveUp,       (* history: schedule raised                                  *)
  overran,      (* history: the capture ended while its snippet ran          *)
  counter,      (* artifacts named so far in this life                       *)
  name,         (* the artifact each client's push writes; 0 for none        *)
  manifest,     (* of each artifact directory: who wrote the manifest ...    *)
  files         (* ... and the files                                         *)

target == <<run, hold, status>>
process == <<life, up>>
injection == <<pending, running, ran>>
client == <<pid, tries, snippet, report>>
history == <<lost, gaveUp, overran>>
artifacts == <<counter, name, manifest, files>>
vars == <<run, hold, status, life, up, tracer, pending, running, ran, pc, pid, tries,
          snippet, report, lost, gaveUp, overran, counter, name, manifest, files>>

Target == INSTANCE HoldProtocol WITH Holds <- Clients

Nobody == NoHold
Names == 1 .. Cardinality(Clients)
Writer == [by : Clients, life : 1 .. MaxLives]
Nothing == [by |-> Nobody, life |-> 0]

Init ==
  /\ Target!Init
  /\ status = [c \in Clients |-> "none"]
  /\ life = 1 /\ up = TRUE /\ tracer = Nobody
  /\ pending = [c \in Clients |-> 0] /\ running = Nobody /\ ran = pending
  /\ pc = [c \in Clients |-> "idle"] /\ pid = ran /\ tries = ran
  /\ snippet = [c \in Clients |-> FALSE] /\ report = [c \in Clients |-> "absent"]
  /\ lost = snippet /\ gaveUp = snippet /\ overran = snippet
  /\ counter = 0 /\ name = ran
  /\ manifest = [i \in Names |-> Nothing] /\ files = manifest

Set(f, c, v) == f' = [f EXCEPT ![c] = v]
Goto(c, p) == Set(pc, c, p)

(* The process runs: it is up, and no debugger has it stopped. *)
Live == up /\ tracer = Nobody

-----------------------------------------------------------------------------
(* The target.  A hold that goes while a client stands between its check   *)
(* and its attach is noted.                                                *)

Past(c) == pc[c] \in {"prepare", "attach"}
HoldGoes == lost' = [c \in Clients |-> lost[c] \/ (hold = c /\ Past(c))]

SafePoint ==
  /\ Live /\ Target!Pause /\ hold' = NoHold
  /\ UNCHANGED <<status, process, tracer, injection, pc, client, history, artifacts>>

(* _execute of a hold command, up to its mark. *)
Engage(c) ==
  /\ Live /\ status[c] = "queued" /\ (\A d \in Clients : status[d] # "executing")
  /\ Target!Engage /\ hold' = c
  /\ Set(status, c, "executing") /\ HoldGoes
  /\ UNCHANGED <<process, tracer, injection, pc, client, gaveUp, overran, artifacts>>

Mark(c) ==
  /\ Live /\ status[c] = "executing" /\ Set(status, c, "succeeded")
  /\ UNCHANGED <<run, hold, process, tracer, injection, pc, client, history, artifacts>>

Resume ==
  /\ Live /\ Target!Resume /\ run' = "running"
  /\ \A c \in Clients : status[c] # "executing"
  /\ UNCHANGED <<status, process, tracer, injection, pc, client, history, artifacts>>

(* An operator's POST /control/continue, and a hold's cancellation. *)
Continue ==
  /\ Live /\ Target!Release /\ HoldGoes
  /\ UNCHANGED <<status, process, tracer, injection, pc, client, gaveUp, overran, artifacts>>

Cancel(c) ==
  /\ Live /\ status[c] = "queued" /\ Set(status, c, "cancelled")
  /\ UNCHANGED <<run, hold, process, tracer, injection, pc, client, history, artifacts>>

Kill ==
  /\ up /\ life < MaxLives
  /\ up' = FALSE /\ tracer' = Nobody
  /\ run' = "over" /\ hold' = NoHold /\ status' = [c \in Clients |-> "none"]
  /\ pending' = [c \in Clients |-> 0] /\ running' = Nobody
  /\ UNCHANGED <<life, ran, pc, client, history, artifacts>>

(* next_id counts from 1 again, in an artifact directory that may be the   *)
(* last one's.                                                             *)
Restart ==
  /\ ~up /\ up' = TRUE /\ life' = life + 1
  /\ run' = "running" /\ UNCHANGED <<hold, status>>
  /\ counter' = 0
  /\ manifest' \in {manifest, [i \in Names |-> Nothing]}
  /\ files' = IF manifest' = manifest THEN files ELSE manifest'
  /\ UNCHANGED <<tracer, injection, pc, client, history, name>>

-----------------------------------------------------------------------------
(* Py_AddPendingCall's queue, and the snippet.                             *)

(* The main thread comes to its eval loop: it runs, or it is held, and the *)
(* hold's loop wakes up every 0.1 s.                                       *)
Wakes == run \in {"running", "paused"}

Serve(c) ==
  /\ Live /\ Wakes /\ running = Nobody /\ pending[c] > 0
  /\ Set(pending, c, pending[c] - 1)
  /\ IF snippet[c] THEN running' = c /\ Set(ran, c, ran[c] + 1)
                   ELSE UNCHANGED <<running, ran>>
  /\ UNCHANGED <<target, process, tracer, pc, client, history, artifacts>>

OpenReport(c) ==
  /\ Live /\ running = c /\ report[c] # "part" /\ Set(report, c, "part")
  /\ UNCHANGED <<target, process, tracer, injection, pc, pid, tries, snippet, history, artifacts>>

(* The report is complete, or the snippet raised.  A report whose file was *)
(* unlinked meanwhile is written to nobody's file.                         *)
SnippetEnds(c) ==
  /\ Live /\ running = c /\ running' = Nobody
  /\ \/ report[c] = "part" /\ Set(report, c, "whole")
     \/ UNCHANGED report
  /\ UNCHANGED <<target, process, tracer, pending, ran, pc, pid, tries, snippet, history, artifacts>>

-----------------------------------------------------------------------------
(* The client: hold_client, gdb_capture, artifact_push. *)

Finish(c) == Goto(c, "done")

Arm(c) ==
  /\ pc[c] = "idle" /\ Live /\ Set(status, c, "queued")
  /\ Goto(c, "status") /\ Set(pid, c, life)
  /\ UNCHANGED <<run, hold, process, tracer, injection, tries, snippet, report, history, artifacts>>

(* require_hold_active, in two requests.  It may come at any time:         *)
(* arm_hold's and wait_for_hold's waits are bounded.                       *)
CheckStatus(c) ==
  /\ pc[c] = "status" /\ Live
  /\ IF status[c] = "succeeded" THEN Goto(c, "active") ELSE Finish(c)
  /\ UNCHANGED <<target, process, tracer, injection, client, history, artifacts>>

(* Seeded bug: the succeeded status is trusted. *)
Trusted(c) == TRUE
IsActive(c) == hold = c

CheckActive(c) ==
  /\ pc[c] = "active" /\ Live
  /\ IF IsActive(c) THEN Goto(c, "prepare") ELSE Finish(c)
  /\ UNCHANGED <<target, process, tracer, injection, client, history, artifacts>>

(* A REST call that is not answered: the capture, or the push, fails. *)
Unanswered(c) ==
  /\ pc[c] \in {"status", "active", "push", "manifest", "files"} /\ (~Live \/ life # pid[c])
  /\ Finish(c)
  /\ UNCHANGED <<target, process, tracer, injection, client, history, artifacts>>

(* pyspy_capture reads the target's memory and changes nothing in it. *)
Dump(c) ==
  /\ pc[c] = "prepare" /\ c \notin Injecting /\ (Goto(c, "push") \/ Finish(c))
  /\ UNCHANGED <<target, process, tracer, injection, client, history, artifacts>>

(* check_gdb_available, and the snippet's file. *)
Prepare(c) ==
  /\ pc[c] = "prepare" /\ c \in Injecting /\ Goto(c, "attach") /\ Set(snippet, c, TRUE)
  /\ UNCHANGED <<target, process, tracer, injection, pid, tries, report, history, artifacts>>

Attach(c) ==
  /\ pc[c] = "attach" /\ Live /\ life = pid[c]
  /\ Goto(c, "call") /\ tracer' = c
  /\ UNCHANGED <<target, process, injection, client, history, artifacts>>

(* schedule raises: the process is gone, another debugger has it, or gdb   *)
(* reports an error.                                                       *)
GiveUp(c) == Finish(c) /\ Set(gaveUp, c, TRUE) /\ UNCHANGED <<lost, overran>>

AttachFails(c) ==
  /\ pc[c] = "attach" /\ GiveUp(c)
  /\ UNCHANGED <<target, process, tracer, injection, client, artifacts>>

(* _mi_eval of Py_AddPendingCall, and the detach: queued; or an error,     *)
(* which may hide that the call was queued (no result record came, or the  *)
(* detach failed); or abandoned, which may hide it too, and is tried       *)
(* again.  Seeded bugs: a call that was queued is tried again; attempts    *)
(* are not counted.                                                        *)
TriesOn == "attach"
Uncounted(c) == tries[c]
Scheduled == "poll"
Counted(c) == tries[c] + 1

Queue(c, n) == Set(pending, c, pending[c] + n) /\ UNCHANGED <<running, ran>>

CallQueued(c) ==
  /\ pc[c] = "call" /\ tracer = c /\ tracer' = Nobody
  /\ Queue(c, 1) /\ Goto(c, Scheduled)
  /\ UNCHANGED <<target, process, client, history, artifacts>>

CallRefused(c) ==
  /\ pc[c] = "call" /\ GiveUp(c)
  /\ \/ tracer = c /\ tracer' = Nobody /\ \E n \in {0, 1} : Queue(c, n)
     \/ tracer # c /\ UNCHANGED <<tracer, injection>>       (* the process is gone *)
  /\ UNCHANGED <<target, process, client, artifacts>>

CallAbandoned(c) ==
  /\ pc[c] = "call" /\ tracer = c /\ tracer' = Nobody
  /\ \E n \in {0, 1} : Queue(c, n)
  /\ Set(tries, c, Counted(c))
  /\ IF Counted(c) < MaxAttempts THEN Goto(c, "attach") /\ UNCHANGED history ELSE GiveUp(c)
  /\ UNCHANGED <<target, process, pid, snippet, report, artifacts>>

(* schedule_and_wait's polls and its finally.  Seeded bug: the finally     *)
(* forgets the report.                                                     *)
OnlySnippet(c) == Set(snippet, c, FALSE) /\ UNCHANGED report
CleanUp(c) == Set(snippet, c, FALSE) /\ Set(report, c, "absent")

Ends(c, p) ==
  /\ Goto(c, p) /\ CleanUp(c)
  /\ Set(overran, c, running = c) /\ UNCHANGED <<lost, gaveUp, pid, tries>>

(* A report that is read half-written does not parse. *)
ReadReport(c) ==
  /\ pc[c] = "poll" /\ report[c] # "absent"
  /\ Ends(c, IF report[c] = "whole" THEN "push" ELSE "done")
  /\ UNCHANGED <<target, process, tracer, injection, artifacts>>

PollTimesOut(c) ==
  /\ pc[c] = "poll" /\ Ends(c, "done")
  /\ UNCHANGED <<target, process, tracer, injection, artifacts>>

(* POST /debug/captures, on a REST thread each, of whatever process        *)
(* answers by then: next_id and the directory, the manifest, the files.    *)
(* Seeded bug: the id is read without being taken.                         *)
NotTaken == counter
Taken == counter + 1
Me(c) == [by |-> c, life |-> life]

NameArtifact(c) ==
  /\ pc[c] = "push" /\ Live /\ Set(pid, c, life)
  /\ counter' = Taken /\ Set(name, c, counter + 1) /\ Goto(c, "manifest")
  /\ UNCHANGED <<manifest, files, target, process, tracer, injection, tries, snippet, report, history>>

WriteManifest(c) ==
  /\ pc[c] = "manifest" /\ Live /\ life = pid[c]
  /\ Set(manifest, name[c], Me(c)) /\ Goto(c, "files")
  /\ UNCHANGED <<counter, name, files, target, process, tracer, injection, client, history>>

WriteFiles(c) ==
  /\ pc[c] = "files" /\ Live /\ life = pid[c]
  /\ Set(files, name[c], Me(c)) /\ Goto(c, "release")
  /\ UNCHANGED <<counter, name, manifest, target, process, tracer, injection, client, history>>

(* release_hold of its own hold, once it is through. *)
ReleaseOwn(c) ==
  /\ pc[c] \in {"release", "done"} /\ Live /\ life = pid[c] /\ hold = c
  /\ Target!Release /\ HoldGoes
  /\ Set(pc, c, "done")
  /\ UNCHANGED <<status, process, tracer, injection, client, gaveUp, overran, artifacts>>

NothingToRelease(c) ==
  /\ pc[c] = "release" /\ ~(Live /\ life = pid[c] /\ hold = c) /\ Finish(c)
  /\ UNCHANGED <<target, process, tracer, injection, client, history, artifacts>>

-----------------------------------------------------------------------------
TargetStep ==
  \/ SafePoint \/ Resume \/ Continue \/ Kill \/ Restart
  \/ \E c \in Clients : Engage(c) \/ Mark(c) \/ Cancel(c) \/ OpenReport(c) \/ SnippetEnds(c)

ClientStep(c) ==
  \/ CheckStatus(c) \/ CheckActive(c) \/ Unanswered(c) \/ Dump(c) \/ Prepare(c)
  \/ Attach(c) \/ AttachFails(c) \/ CallQueued(c) \/ CallRefused(c) \/ CallAbandoned(c)
  \/ ReadReport(c) \/ PollTimesOut(c) \/ NameArtifact(c) \/ WriteManifest(c) \/ WriteFiles(c)
  \/ NothingToRelease(c)

Next ==
  \/ TargetStep
  \/ \E c \in Clients : Serve(c) \/ Arm(c) \/ ClientStep(c) \/ ReleaseOwn(c)

Spec == Init /\ [][Next]_vars

(* Client processes run, and their waits are bounded; the interpreter      *)
(* comes to its pending calls, and snippets end.                           *)
FairSpec ==
  /\ Spec
  /\ \A c \in Clients :
       WF_vars(ClientStep(c)) /\ WF_vars(Serve(c)) /\ WF_vars(SnippetEnds(c))

-----------------------------------------------------------------------------
TypeOK ==
  /\ run \in {"running", "paused", "over"} /\ hold \in Clients \cup {NoHold}
  /\ status \in [Clients -> {"none", "queued", "executing", "succeeded", "cancelled"}]
  /\ life \in 1 .. MaxLives /\ up \in BOOLEAN
  /\ tracer \in Clients \cup {Nobody} /\ running \in Clients \cup {Nobody}
  /\ pending \in [Clients -> 0 .. MaxAttempts] /\ ran \in [Clients -> 0 .. MaxAttempts]
  /\ pc \in [Clients -> {"idle", "status", "active", "prepare", "attach", "call", "poll",
                         "push", "manifest", "files", "release", "done"}]
  /\ pid \in [Clients -> 0 .. MaxLives] /\ tries \in [Clients -> 0 .. MaxAttempts]
  /\ snippet \in [Clients -> BOOLEAN] /\ report \in [Clients -> {"absent", "part", "whole"}]
  /\ lost \in [Clients -> BOOLEAN] /\ gaveUp \in [Clients -> BOOLEAN]
  /\ overran \in [Clients -> BOOLEAN]
  /\ counter \in 0 .. Cardinality(Clients)
  /\ name \in [Clients -> 0 .. Cardinality(Clients)]
  /\ manifest \in [Names -> Writer \cup {Nothing}] /\ files \in [Names -> Writer \cup {Nothing}]

(* While gdb has the process of a gated capture stopped, training is held, *)
(* and by this client's hold; or the hold was in force when                *)
(* require_hold_active read it and was released before the attach, which   *)
(* nothing prevents (gdb_capture.py 226-229).                              *)
StoppedUnderItsHold ==
  \A c \in Clients : tracer = c => (hold = c /\ run = "paused") \/ lost[c]

(* A snippet runs at most once more often than its evaluations were        *)
(* abandoned, however late the calls are served.  (With the types.)        *)
RunsOncePerAttempt ==
  /\ TypeOK
  /\ \A c \in Clients : ran[c] + pending[c] <= tries[c] + 1

(* A finished capture leaves no report, except where the snippet was at    *)
(* work at its end, and no snippet, except where schedule raised: a call   *)
(* served later finds none, since the finally of schedule_and_wait revokes *)
(* it.                                                                     *)
NothingIsLeftBehind ==
  \A c \in Clients : pc[c] \in {"push", "done"} =>
    /\ snippet[c] => gaveUp[c]
    /\ report[c] # "absent" => gaveUp[c] \/ overran[c]

(* A pushed artifact has the manifest and the files of that one push,      *)
(* whoever writes at the same time, for as long as the process lives.      *)
PushedIsWhole ==
  \A c \in Clients : up /\ pid[c] = life /\ pc[c] = "release" =>
    manifest[name[c]] = Me(c) /\ files[name[c]] = Me(c)

(* The steps a capture can still take: an attempt is an attach and a call. *)
Retries(n) == 2 * (MaxAttempts - n)
ToDo(c) ==
  CASE pc[c] = "done"     -> 0
    [] pc[c] = "release"  -> 1
    [] pc[c] = "files"    -> 2
    [] pc[c] = "manifest" -> 3
    [] pc[c] = "push"     -> 4
    [] pc[c] = "poll"     -> 5
    [] pc[c] = "call"     -> 6 + Retries(tries[c])
    [] pc[c] = "attach"   -> 7 + Retries(tries[c])
    [] pc[c] = "prepare"  -> 8 + Retries(0)
    [] pc[c] = "active"   -> 9 + Retries(0)
    [] pc[c] = "status"   -> 10 + Retries(0)
    [] pc[c] = "idle"     -> 11 + Retries(0)

(* Whatever becomes of the target, every step of a client leaves its       *)
(* capture fewer to take, and no step of another adds one: attempts that   *)
(* gdb abandons are counted, and no end of a capture starts it over        *)
(* (gdb_capture.py 154-161).                                               *)
EveryStepGetsOn ==
  /\ [](\A c \in Clients : ToDo(c) \in 0 .. 11 + Retries(0))
  /\ [][\A c \in Clients : /\ ClientStep(c) => ToDo(c)' < ToDo(c)
                           /\ ToDo(c)' <= ToDo(c)]_vars

(* Every capture comes to an end: attempts and waits are bounded, whatever *)
(* happens to the target; and a held target serves what gdb has queued, or *)
(* dies.                                                                   *)
CaptureEnds ==
  \A c \in Clients :
    /\ pc[c] = "status" ~> pc[c] \in {"release", "done"}
    /\ pending[c] > 0 ~> pending[c] = 0
=============================================================================
