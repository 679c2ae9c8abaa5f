------------------------------ MODULE HookRunner ------------------------------
(***************************************************************************)
(* run_script: one hook script in its own process group, supervised by the *)
(* training thread, its two pipes emptied by one drain thread each.        *)
(*                                                                         *)
(* The script and the processes it leaves in the background are the        *)
(* environment: they fork, write, exit, ignore SIGTERM and keep pipes open *)
(* as they like.  A KeyboardInterrupt may reach the training thread in     *)
(* every step that waits.                                                  *)
(***************************************************************************)
EXTENDS Integers, FiniteSets

CONSTANTS
  Background,      (* processes the script may leave behind                  *)
  Streams,         (* stdout, stderr                                         *)
  Timeout,         (* hooks_timeout_s is set                                 *)
  PipeCapacity,    (* a pipe's capacity, in units of output                  *)
  ReadChunk,       (* _READ_CHUNK_SIZE, in units                             *)
  MaxWritten       (* bound: units written to one pipe in one run            *)

ASSUME HookRunnerAssumption ==
  /\ "script" \notin Background
  /\ Timeout \in BOOLEAN
  /\ PipeCapacity \in Nat \ {0} /\ ReadChunk \in Nat \ {0}
  /\ MaxWritten \in Nat

VARIABLES
  pc,           (* where run_script stands                                   *)
  timedOut,     (* the local timed_out                                       *)
  raising,      (* a KeyboardInterrupt is on its way up                      *)
  waited,       (* Popen._sigint_wait_secs was used up by an earlier wait    *)
  result,       (* ExecutionResult.phase, or "interrupted"                   *)
  life,         (* of each process; only the script becomes a zombie         *)
  stubborn,     (* the processes that ignore SIGTERM                         *)
  doomed,       (* the processes a deadly signal has been sent to            *)
  open,         (* the processes that hold the write end of each pipe        *)
  written,      (* units written to each pipe ...                            *)
  fetched,      (* ... moved from it into the reader's buffer ...            *)
  recorded,     (* ... and logged by _record                                 *)
  drain,        (* the state of each drain thread                            *)
  closed        (* the streams Popen.__exit__ has closed                     *)

runner == <<pc, timedOut, raising, waited, result>>
processes == <<life, stubborn, doomed, open>>
output == <<written, fetched, recorded, drain>>
vars == <<pc, timedOut, raising, waited, result, life, stubborn, doomed, open,
          written, fetched, recorded, drain, closed>>

Script == "script"
Processes == Background \cup {Script}
Units == 1 .. MaxWritten

Alive(p) == life[p] = "alive"
Group == {p \in Processes : life[p] \in {"alive", "zombie"}}
InPipe(s) == written[s] - fetched[s]
Holders(s) == {p \in open[s] : Alive(p)}

Init ==
  /\ pc = "launch" /\ timedOut = FALSE /\ raising = FALSE /\ waited = FALSE
  /\ result = "none"
  /\ life = [p \in Processes |-> "absent"] /\ stubborn = {} /\ doomed = {}
  /\ open = [s \in Streams |-> {}]
  /\ written = [s \in Streams |-> 0] /\ fetched = written /\ recorded = written
  /\ drain = [s \in Streams |-> "new"] /\ closed = {}

-----------------------------------------------------------------------------
(* The environment. *)

(* A child inherits any of its parent's pipes, and may handle SIGTERM in a *)
(* way of its own.  The kernel lets no process fork that a group signal is *)
(* about to kill.                                                          *)
Fork(p, child) ==
  /\ Alive(p) /\ p \notin doomed /\ life[child] = "absent"
  /\ life' = [life EXCEPT ![child] = "alive"]
  /\ stubborn' \in {stubborn, stubborn \cup {child}}
  /\ \E inherited \in SUBSET {s \in Streams : p \in open[s]} :
       open' = [s \in Streams |-> IF s \in inherited THEN open[s] \cup {child} ELSE open[s]]
  /\ UNCHANGED <<runner, doomed, output, closed>>

Write(p, s) ==
  /\ p \in Holders(s) /\ s \notin closed
  /\ written[s] < MaxWritten /\ InPipe(s) < PipeCapacity
  /\ written' = [written EXCEPT ![s] = @ + 1]
  /\ UNCHANGED <<runner, processes, fetched, recorded, drain, closed>>

(* The script waits for its parent; others are reaped by init. *)
Exit(p) ==
  /\ Alive(p)
  /\ life' = [life EXCEPT ![p] = IF p = Script THEN "zombie" ELSE "gone"]
  /\ open' = [s \in Streams |-> open[s] \ {p}]
  /\ UNCHANGED <<runner, stubborn, doomed, output, closed>>

-----------------------------------------------------------------------------
(* _BoundedDrain._run.  A buffered read returns a full chunk, or at EOF    *)
(* what there is.                                                          *)

Buffered(s) == fetched[s] - recorded[s]
AtEof(s) == Holders(s) = {} /\ InPipe(s) = 0

(* Seeded bug: the second stream is read after the first has ended. *)
OneAfterTheOther(s) ==
  InPipe(s) > 0 /\ LET first == CHOOSE t \in Streams : TRUE IN s = first \/ drain[first] = "done"
Available(s) == InPipe(s) > 0

Fetch(s) ==
  /\ drain[s] = "reading" /\ Available(s) /\ Buffered(s) < ReadChunk
  /\ fetched' = [fetched EXCEPT ![s] = @ + 1]
  /\ UNCHANGED <<runner, processes, written, recorded, drain, closed>>

ReturnChunk(s) ==
  /\ drain[s] = "reading"
  /\ Buffered(s) = ReadChunk \/ AtEof(s)
  /\ drain' = [drain EXCEPT ![s] = IF Buffered(s) > 0 THEN "recording" ELSE "done"]
  /\ UNCHANGED <<runner, processes, written, fetched, recorded, closed>>

(* _record logs the chunk; what it keeps of it for the result is data. The *)
(* next read of a stream __exit__ has closed ends the thread.              *)
RecordChunk(s) ==
  /\ drain[s] = "recording"
  /\ recorded' = [recorded EXCEPT ![s] = fetched[s]]
  /\ drain' = [drain EXCEPT ![s] = IF s \in closed THEN "done" ELSE "reading"]
  /\ UNCHANGED <<runner, processes, written, fetched, closed>>

Drain(s) == Fetch(s) \/ ReturnChunk(s) \/ RecordChunk(s)

-----------------------------------------------------------------------------
(* run_script, on the training thread. *)

Goto(p) == pc' = p /\ UNCHANGED <<timedOut, raising, waited, result>>

LaunchFails ==
  /\ pc = "launch"
  /\ pc' = "returned" /\ result' = "launch_error"
  /\ UNCHANGED <<timedOut, raising, waited, processes, output, closed>>

Launch ==
  /\ pc = "launch" /\ Goto("start")
  /\ life' = [life EXCEPT ![Script] = "alive"]
  /\ stubborn' \in {{}, {Script}}
  /\ open' = [s \in Streams |-> {Script}]
  /\ UNCHANGED <<doomed, output, closed>>

StartDrains ==
  /\ pc = "start" /\ Goto("wait")
  /\ drain' = [s \in Streams |-> "reading"]
  /\ UNCHANGED <<processes, written, fetched, recorded, closed>>

(* Popen.wait succeeds: at once if the script was reaped before. *)
Dead == life[Script] \in {"zombie", "gone"}
Reaped == [life EXCEPT ![Script] = IF Dead THEN "gone" ELSE @]

(* Seeded bugs: _terminate_group goes on after a successful wait; returns  *)
(* when the grace period expires; does not wait for what it has killed.    *)
GoOn == "kill"
AfterGrace == "join"
GiveUp == "join"
AfterExpiry == "kill"
NoWait == "join"
AfterKill == "reap"

WaitReturns ==
  /\ Dead
  /\ \/ pc \in {"wait", "reap"} /\ Goto("join")
     \/ pc = "grace" /\ Goto(AfterGrace)
  /\ life' = Reaped
  /\ UNCHANGED <<stubborn, doomed, open, output, closed>>

WaitTimesOut ==
  /\ pc = "wait" /\ Timeout /\ ~Dead
  /\ pc' = "terminate" /\ timedOut' = TRUE
  /\ UNCHANGED <<raising, waited, result, processes, output, closed>>

(* Seeded bug: os.kill of the script where killpg is meant. *)
ScriptOnly == {Script}
Signalled == Group

(* killpg(SIGTERM): ProcessLookupError if nobody is left. *)
Terminate ==
  /\ pc = "terminate"
  /\ Goto(IF Group = {} THEN "join" ELSE "grace")
  /\ doomed' = doomed \cup (Signalled \ stubborn)
  /\ UNCHANGED <<life, stubborn, open, output, closed>>

GraceExpires ==
  /\ pc = "grace" /\ ~Dead /\ Goto(AfterExpiry)
  /\ UNCHANGED <<processes, output, closed>>

(* killpg(SIGKILL). *)
Kill ==
  /\ pc = "kill"
  /\ Goto(IF Group = {} THEN "join" ELSE AfterKill)
  /\ doomed' = doomed \cup Group
  /\ UNCHANGED <<life, stubborn, open, output, closed>>

Drained == \A s \in Streams : drain[s] = "done"

(* Both joins, and the result, built inside the with block; a pending      *)
(* KeyboardInterrupt skips the latter.                                     *)
Join ==
  /\ pc = "join" /\ Drained
  /\ pc' = "close"
  /\ result' = IF raising THEN "interrupted" ELSE IF timedOut THEN "timeout" ELSE "completed"
  /\ UNCHANGED <<timedOut, raising, waited, processes, output, closed>>

(* Popen.__exit__ closes the streams: it has to wait for a read in         *)
(* progress, and nothing can interrupt that wait.                          *)
Close(s) ==
  /\ pc = "close" /\ s \notin closed /\ drain[s] # "reading"
  /\ closed' = closed \cup {s}
  /\ UNCHANGED <<runner, processes, output>>

(* ... and waits for the process: after a KeyboardInterrupt only briefly.  *)
Return ==
  /\ pc = "close" /\ closed = Streams
  /\ raising \/ Dead
  /\ Goto("returned")
  /\ life' = IF raising /\ waited THEN life ELSE Reaped
  /\ UNCHANGED <<stubborn, doomed, open, output, closed>>

(* KeyboardInterrupt.  Popen.wait, interrupted, waits briefly for a child  *)
(* that may have received the same ^C.  Only the handler of the first wait *)
(* contains the group; every other place is left for the joins, and the    *)
(* joins for __exit__.                                                     *)
Interrupt ==
  /\ pc \in {"start", "wait", "terminate", "grace", "kill", "reap", "join"}
  /\ raising' = TRUE
  /\ pc' = CASE pc = "wait" -> "terminate" [] pc \in {"start", "join"} -> "close" [] OTHER -> "join"
  /\ result' = IF pc' = "close" THEN "interrupted" ELSE result
  /\ IF pc \in {"wait", "grace", "reap"}
     THEN waited' = TRUE /\ life' = Reaped
     ELSE UNCHANGED <<waited, life>>
  /\ UNCHANGED <<timedOut, stubborn, doomed, open, output, closed>>

Runner ==
  \/ LaunchFails \/ Launch \/ StartDrains \/ WaitReturns \/ WaitTimesOut
  \/ Terminate \/ GraceExpires \/ Kill \/ Join \/ Return
  \/ \E s \in Streams : Close(s)

Environment ==
  \E p \in Processes : \/ Exit(p)
                       \/ \E s \in Streams : Write(p, s)
                       \/ \E child \in Background : Fork(p, child)

(* The call is over; what the script left behind goes on without it. *)
Done == pc = "returned" /\ UNCHANGED vars

Next == Runner \/ Environment \/ Interrupt \/ Done \/ \E s \in Streams : Drain(s)

(***************************************************************************)
(* The training thread and the drain threads run, timeouts expire, and a   *)
(* process that was sent a deadly signal dies.  Nothing makes a script     *)
(* exit, write or interrupt.                                               *)
(***************************************************************************)
Fairness ==
  /\ WF_vars(Runner) /\ \A s \in Streams : WF_vars(Drain(s))
  /\ \A p \in Processes : WF_vars(p \in doomed /\ Exit(p))

Spec == Init /\ [][Next]_vars
FairSpec == Spec /\ Fairness

-----------------------------------------------------------------------------
TypeOK ==
  /\ pc \in {"launch", "start", "wait", "terminate", "grace", "kill", "reap",
             "join", "close", "returned"}
  /\ timedOut \in BOOLEAN /\ raising \in BOOLEAN /\ waited \in BOOLEAN
  /\ result \in {"none", "launch_error", "completed", "timeout", "interrupted"}
  /\ life \in [Processes -> {"absent", "alive", "zombie", "gone"}]
  /\ stubborn \subseteq Processes /\ doomed \subseteq Processes
  /\ open \in [Streams -> SUBSET Processes]
  /\ written \in [Streams -> 0 .. MaxWritten]
  /\ fetched \in [Streams -> 0 .. MaxWritten]
  /\ recorded \in [Streams -> 0 .. MaxWritten]
  /\ drain \in [Streams -> {"new", "reading", "recording", "done"}]
  /\ closed \subseteq Streams

HasResult == result \in {"completed", "timeout"}

(* A result is built from the script's return code and from everything it  *)
(* and its children wrote: by then the script is reaped, on every path of  *)
(* the escalation, and both pipes are at EOF and logged to the end.        *)
ResultIsFinal ==
  HasResult => /\ life[Script] = "gone"
               /\ \A s \in Streams : recorded[s] = written[s] /\ Holders(s) = {}

(* Once the group's leader is reaped its number may belong to somebody     *)
(* else.  SIGKILL is never sent then, whatever was interrupted; SIGTERM is *)
(* on one path only: a KeyboardInterrupt in the first wait, in which Popen *)
(* reaps a script that has ended meanwhile, and then _terminate_group      *)
(* (runner.py 171-172, 199).                                               *)
OwnGroupIsSignalled ==
  pc \in {"terminate", "kill"} /\ life[Script] = "gone"
    => pc = "terminate" /\ raising /\ waited /\ ~timedOut

(* After a timeout nothing lives on of a script whose processes all honour *)
(* SIGTERM, forked before or while the signal was sent.                    *)
CooperativeGroupDies ==
  result = "timeout" /\ stubborn = {} => \A p \in Processes : Alive(p) => p \in doomed

(* A full pipe is emptied again while the script runs, however far its     *)
(* output is beyond the budget and whichever other pipe it fills.          *)
FullPipeDrains ==
  \A s \in Streams : (InPipe(s) = PipeCapacity /\ drain[s] # "new")
                       ~> (InPipe(s) < PipeCapacity \/ s \in closed)

(* The waits that have no timeout of their own are for the script only     *)
(* once SIGKILL was sent to it, and for pipes only once the script is      *)
(* reaped, so that just what it has left behind can keep the call waiting  *)
(* (runner.py 165-177).  An interrupt gives up the killing.                *)
UnboundedWaitsAreForChildren ==
  /\ pc = "reap" => life[Script] # "alive" \/ Script \in doomed
  /\ pc = "join" /\ ~raising => \A s \in Streams : Holders(s) \subseteq Background

(* With a timeout the call returns, even from a script that ignores        *)
(* SIGTERM, unless a process it left behind keeps a pipe open.             *)
ReturnsUnlessPipesAreKept ==
  Timeout /\ pc # "returned"
    ~> pc = "returned" \/ raising \/ \E s \in Streams : Holders(s) \ {Script} # {}
=============================================================================
