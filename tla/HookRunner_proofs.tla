-------------------------- MODULE HookRunner_proofs --------------------------
(***************************************************************************)
(* Proofs about HookRunner, for any number of background processes and     *)
(* streams, any sizes, with and without a timeout.                         *)
(***************************************************************************)
EXTENDS HookRunner, TLAPS

USE DEF runner, processes, output, Goto

-----------------------------------------------------------------------------
(* The initial states have the right types.                                *)
LEMMA TypeInit == Init => TypeOK
<1> SUFFICES ASSUME Init PROVE TypeOK
  OBVIOUS
<1>1. timedOut \in BOOLEAN /\ raising \in BOOLEAN /\ waited \in BOOLEAN
  BY DEF Init
<1>2. /\ written \in [Streams -> 0 .. MaxWritten] /\ fetched \in [Streams -> 0 .. MaxWritten]
      /\ recorded \in [Streams -> 0 .. MaxWritten]
  BY HookRunnerAssumption DEF Init
<1>3. /\ open \in [Streams -> SUBSET Processes]
      /\ drain \in [Streams -> {"new", "reading", "recording", "done"}]
      /\ life \in [Processes -> {"absent", "alive", "zombie", "gone"}]
  BY DEF Init
<1> QED
  BY <1>1, <1>2, <1>3 DEF Init, TypeOK

(* Reaping leaves every process in one of the four states.                 *)
LEMMA ReapedType == TypeOK => Reaped \in [Processes -> {"absent", "alive", "zombie", "gone"}]
  BY DEF TypeOK, Reaped

(* The hook's processes keep the types.                                    *)
LEMMA EnvironmentType == TypeOK /\ Environment => TypeOK'
<1> SUFFICES ASSUME TypeOK, NEW p \in Processes,
                    \/ Exit(p)
                    \/ \E s \in Streams : Write(p, s)
                    \/ \E child \in Background : Fork(p, child)
             PROVE  TypeOK'
  BY DEF Environment
<1> USE DEF TypeOK
<1>1. CASE Exit(p)
  <2>1. life' \in [Processes -> {"absent", "alive", "zombie", "gone"}]
    BY <1>1 DEF Exit
  <2>2. open' \in [Streams -> SUBSET Processes]
    BY <1>1 DEF Exit
  <2> QED
    BY <1>1, <2>1, <2>2 DEF Exit
<1>2. ASSUME NEW s \in Streams, Write(p, s) PROVE TypeOK'
  <2>1. written' \in [Streams -> 0 .. MaxWritten]
    BY <1>2, HookRunnerAssumption DEF Write
  <2> QED
    BY <1>2, <2>1 DEF Write
<1>3. ASSUME NEW child \in Background, Fork(p, child) PROVE TypeOK'
  <2>1. child \in Processes
    BY DEF Processes
  <2>2. life' \in [Processes -> {"absent", "alive", "zombie", "gone"}]
    BY <1>3 DEF Fork
  <2>3. open' \in [Streams -> SUBSET Processes]
    BY <1>3, <2>1 DEF Fork
  <2>4. stubborn' \subseteq Processes
    BY <1>3, <2>1 DEF Fork
  <2> QED
    BY <1>3, <2>2, <2>3, <2>4 DEF Fork
<1> QED
  BY <1>1, <1>2, <1>3

(* A drain thread keeps the types.                                         *)
LEMMA DrainType == ASSUME TypeOK, NEW s \in Streams, Drain(s) PROVE TypeOK'
<1> USE DEF TypeOK
<1>1. CASE Fetch(s)
  <2>1. fetched' \in [Streams -> 0 .. MaxWritten]
    BY <1>1, HookRunnerAssumption DEF Fetch, Available, InPipe
  <2> QED
    BY <1>1, <2>1 DEF Fetch
<1>2. CASE ReturnChunk(s)
  BY <1>2 DEF ReturnChunk
<1>3. CASE RecordChunk(s)
  <2>1. recorded' \in [Streams -> 0 .. MaxWritten]
    BY <1>3 DEF RecordChunk
  <2>2. drain' \in [Streams -> {"new", "reading", "recording", "done"}]
    BY <1>3 DEF RecordChunk
  <2> QED
    BY <1>3, <2>1, <2>2 DEF RecordChunk
<1> QED
  BY <1>1, <1>2, <1>3 DEF Drain

(* The runner keeps the types.                                             *)
LEMMA RunnerType == TypeOK /\ Runner => TypeOK'
<1> SUFFICES ASSUME TypeOK, Runner PROVE TypeOK'
  OBVIOUS
<1> USE DEF TypeOK
<1>1. CASE LaunchFails
  BY <1>1 DEF LaunchFails
<1>2. CASE Launch
  <2>1. life' \in [Processes -> {"absent", "alive", "zombie", "gone"}]
    BY <1>2 DEF Launch
  <2>2. open' \in [Streams -> SUBSET Processes] /\ stubborn' \subseteq Processes
    BY <1>2 DEF Launch, Processes, Script
  <2> QED
    BY <1>2, <2>1, <2>2 DEF Launch
<1>3. CASE StartDrains
  BY <1>3 DEF StartDrains
<1>4. CASE WaitReturns
  BY <1>4, ReapedType DEF WaitReturns, AfterGrace
<1>5. CASE WaitTimesOut
  <2>1. timedOut' \in BOOLEAN
    BY <1>5 DEF WaitTimesOut
  <2> QED
    BY <1>5, <2>1 DEF WaitTimesOut
<1>6. CASE Terminate
  BY <1>6 DEF Terminate, Signalled, Group
<1>7. CASE GraceExpires
  BY <1>7 DEF GraceExpires, AfterExpiry
<1>8. CASE Kill
  BY <1>8 DEF Kill, AfterKill, Group
<1>9. CASE Join
  BY <1>9 DEF Join
<1>10. CASE Return
  BY <1>10, ReapedType DEF Return
<1>11. ASSUME NEW s \in Streams, Close(s) PROVE TypeOK'
  BY <1>11 DEF Close
<1> QED
  BY <1>1, <1>2, <1>3, <1>4, <1>5, <1>6, <1>7, <1>8, <1>9, <1>10, <1>11 DEF Runner

(* An interrupt keeps the types.                                           *)
LEMMA InterruptType == TypeOK /\ Interrupt => TypeOK'
<1> SUFFICES ASSUME TypeOK, Interrupt PROVE TypeOK'
  OBVIOUS
<1> USE DEF TypeOK
<1>1. raising' \in BOOLEAN
  BY DEF Interrupt
<1>2. waited' \in BOOLEAN
  BY DEF Interrupt
<1>3. life' \in [Processes -> {"absent", "alive", "zombie", "gone"}]
  BY ReapedType DEF Interrupt
<1>4. pc' \in {"terminate", "close", "join"}
  BY DEF Interrupt
<1>5. result' \in {"none", "launch_error", "completed", "timeout", "interrupted"}
  BY DEF Interrupt
<1> QED
  BY <1>1, <1>2, <1>3, <1>4, <1>5 DEF Interrupt

(* Every step keeps the types.                                             *)
LEMMA TypeStep == TypeOK /\ [Next]_vars => TypeOK'
<1>1. ASSUME TypeOK, UNCHANGED vars PROVE TypeOK'
  BY <1>1 DEF TypeOK, vars
<1> QED
  BY <1>1, EnvironmentType, DrainType, RunnerType, InterruptType DEF Next, Done

-----------------------------------------------------------------------------
(***************************************************************************)
(* The inductive invariant.                                                *)
(***************************************************************************)

(* Only live processes hold pipes; a process that was never started holds  *)
(* none; output moves from pipe to buffer to log.                          *)
ProcessInv ==
  /\ \A s \in Streams : \A p \in open[s] : Alive(p)
  /\ \A s \in Streams : recorded[s] <= fetched[s] /\ fetched[s] <= written[s]

(* A drain ends at EOF, or because its stream was closed under it, which   *)
(* happens only when the result is settled.                                *)
DrainInv ==
  /\ \A s \in Streams : drain[s] = "done" =>
       s \in closed \/ (recorded[s] = written[s] /\ Holders(s) = {})
  /\ closed # {} => pc \in {"close", "returned"}
  /\ pc \in {"launch", "start"} => \A s \in Streams : drain[s] = "new"

(* Where the script is supervised, and not reaped; where it is reaped.     *)
Supervised == {"start", "wait", "terminate", "grace", "kill", "reap"}
ScriptInv ==
  /\ pc \in Supervised \cup {"join", "close"} => life[Script] # "absent"
  /\ pc \in Supervised /\ ~raising => life[Script] \in {"alive", "zombie"}
  /\ pc = "kill" => life[Script] \in {"alive", "zombie"}
  /\ pc = "terminate" /\ raising => waited /\ ~timedOut
  /\ raising => pc \notin {"launch", "start", "wait"}
  /\ pc = "join" /\ ~raising => life[Script] = "gone"
  /\ pc = "launch" => life[Script] = "absent"

(* A result exists only behind the joins; what it was built from is final. *)
ResultInv ==
  /\ HasResult => /\ pc \in {"close", "returned"} /\ ~raising
                  /\ life[Script] = "gone"
                  /\ \A s \in Streams : /\ drain[s] = "done"
                                        /\ recorded[s] = written[s] /\ Holders(s) = {}
  /\ result = "timeout" => timedOut

(* After SIGTERM to a group that honours it, everybody is about to die. *)
SignalInv ==
  /\ timedOut => pc \notin {"launch", "start", "wait"}
  /\ timedOut /\ ~raising /\ pc # "terminate" /\ stubborn = {}
       => \A p \in Processes : Alive(p) => p \in doomed

IInv == ProcessInv /\ DrainInv /\ ScriptInv /\ ResultInv /\ SignalInv

(* The initial states satisfy the invariant.                               *)
LEMMA IInvInit == Init => IInv
  BY DEF Init, IInv, ProcessInv, DrainInv, ScriptInv, ResultInv, SignalInv, HasResult, Supervised,
         Processes, Script

(* A process that exits.                                                   *)
LEMMA ExitStep == ASSUME TypeOK, IInv, NEW p \in Processes, Exit(p) PROVE IInv'
<1> USE DEF TypeOK, IInv
<1>1. /\ UNCHANGED <<pc, timedOut, raising, waited, result, stubborn, doomed, written, fetched,
                    recorded, drain, closed>>
      /\ life[p] = "alive"
      /\ \A q \in Processes : q # p => life'[q] = life[q]
      /\ life'[p] = IF p = Script THEN "zombie" ELSE "gone"
      /\ \A s \in Streams : open'[s] = open[s] \ {p}
  BY DEF Exit, Alive
<1>2. ProcessInv'
  BY <1>1 DEF ProcessInv, Alive
<1>3. \A s \in Streams : Holders(s)' \subseteq Holders(s)
  BY <1>1 DEF Holders, Alive
<1>4. DrainInv'
  BY <1>1, <1>3 DEF DrainInv
<1>5. ScriptInv'
  BY <1>1 DEF ScriptInv, Supervised, Processes, Script
<1>6. ResultInv'
  <2>1. HasResult => p # Script
    BY <1>1 DEF ResultInv
  <2> QED
    BY <1>1, <1>3, <2>1 DEF ResultInv, HasResult, Processes, Script
<1>7. SignalInv'
  BY <1>1 DEF SignalInv, Alive
<1> QED
  BY <1>2, <1>4, <1>5, <1>6, <1>7

(* A process that writes to a pipe it holds.                               *)
LEMMA WriteStep ==
  ASSUME TypeOK, IInv, NEW p \in Processes, NEW s \in Streams, Write(p, s) PROVE IInv'
<1> USE DEF TypeOK, IInv
<1>1. /\ UNCHANGED <<pc, timedOut, raising, waited, result, life, stubborn, doomed, open, fetched,
                    recorded, drain, closed>>
      /\ p \in Holders(s) /\ s \notin closed
      /\ written' = [written EXCEPT ![s] = @ + 1]
  BY DEF Write
<1>2. \A t \in Streams : Holders(t)' = Holders(t)
  BY <1>1 DEF Holders, Alive
<1>3. ProcessInv'
  BY <1>1, HookRunnerAssumption DEF ProcessInv, Alive
<1>4. DrainInv'
  BY <1>1, <1>2 DEF DrainInv
<1>5. ScriptInv'
  BY <1>1 DEF ScriptInv
<1>6. ResultInv'
  <2>1. ~HasResult
    BY <1>1 DEF ResultInv
  <2> QED
    BY <1>1, <2>1 DEF ResultInv, HasResult
<1>7. SignalInv'
  BY <1>1 DEF SignalInv, Alive
<1> QED
  BY <1>3, <1>4, <1>5, <1>6, <1>7

(* A process that leaves a child in the background.                        *)
LEMMA ForkStep ==
  ASSUME TypeOK, IInv, NEW p \in Processes, NEW child \in Background, Fork(p, child) PROVE IInv'
<1> USE DEF TypeOK, IInv
<1> DEFINE Inherited(s) == p \in open[s]
<1>1. /\ UNCHANGED <<pc, timedOut, raising, waited, result, doomed, written, fetched, recorded, drain,
                    closed>>
      /\ Alive(p) /\ p \notin doomed /\ life[child] = "absent"
      /\ life' = [life EXCEPT ![child] = "alive"]
      /\ stubborn \subseteq stubborn'
      /\ child \in Processes /\ child # Script
  BY HookRunnerAssumption DEF Fork, Processes, Script
<1>2. \A s \in Streams : open'[s] = open[s] \/ (p \in open[s] /\ open'[s] = open[s] \cup {child})
  BY DEF Fork
<1>3. \A s \in Streams : Holders(s) = {} => Holders(s)' = {}
  BY <1>1, <1>2 DEF Holders, Alive, ProcessInv
<1>4. ProcessInv'
  BY <1>1, <1>2 DEF ProcessInv, Alive
<1>5. DrainInv'
  BY <1>1, <1>3 DEF DrainInv
<1>6. ScriptInv'
  BY <1>1 DEF ScriptInv, Processes, Script
<1>7. ResultInv'
  BY <1>1, <1>3 DEF ResultInv, HasResult, Processes, Script
<1>8. SignalInv'
  BY <1>1 DEF SignalInv, Alive
<1> QED
  BY <1>4, <1>5, <1>6, <1>7, <1>8

(* A drain thread that fetches a chunk, gets it and records it.            *)
LEMMA DrainStep == ASSUME TypeOK, IInv, NEW s \in Streams, Drain(s) PROVE IInv'
<1> USE DEF TypeOK, IInv
<1>1. /\ UNCHANGED <<pc, timedOut, raising, waited, result, life, stubborn, doomed, open, written, closed>>
      /\ drain[s] \in {"reading", "recording"}
      /\ \A t \in Streams : t # s => /\ drain'[t] = drain[t] /\ fetched'[t] = fetched[t]
                                     /\ recorded'[t] = recorded[t]
  BY DEF Drain, Fetch, ReturnChunk, RecordChunk
<1>2. ~HasResult
  BY <1>1 DEF ResultInv
<1>3. \A t \in Streams : Holders(t)' = Holders(t)
  BY <1>1 DEF Holders, Alive
<1>4. recorded[s] <= fetched[s] /\ fetched[s] <= written[s]
  BY DEF ProcessInv
<1>5. recorded'[s] <= fetched'[s] /\ fetched'[s] <= written'[s]
  BY <1>4, HookRunnerAssumption DEF Drain, Fetch, Available, ReturnChunk, RecordChunk, InPipe
<1>6. ProcessInv'
  BY <1>1, <1>5 DEF ProcessInv, Alive
<1>7. drain'[s] = "done" => s \in closed' \/ (recorded'[s] = written'[s] /\ Holders(s)' = {})
  <2>1. CASE ReturnChunk(s)
    BY <1>3, <1>4, <2>1, HookRunnerAssumption DEF ReturnChunk, AtEof, InPipe, Buffered
  <2>2. CASE Fetch(s) \/ RecordChunk(s)
    BY <1>1, <2>2 DEF Fetch, RecordChunk
  <2> QED
    BY <2>1, <2>2 DEF Drain
<1>8. DrainInv'
  BY <1>1, <1>3, <1>7 DEF DrainInv
<1>9. ScriptInv' /\ SignalInv'
  BY <1>1 DEF ScriptInv, SignalInv, Alive
<1>10. ResultInv'
  BY <1>1, <1>2 DEF ResultInv, HasResult
<1> QED
  BY <1>6, <1>8, <1>9, <1>10

(* Reaping the script takes no pipe from anybody and kills nobody. *)
LEMMA ReapFacts ==
  ASSUME TypeOK
  PROVE  /\ \A p \in Processes : Alive(p) <=> Reaped[p] = "alive"
         /\ \A p \in Processes : life[p] # "absent" => Reaped[p] # "absent"
         /\ Dead => Reaped[Script] = "gone"
         /\ life[Script] = "gone" => Reaped[Script] = "gone"
         /\ ~Dead => Reaped = life
  BY DEF TypeOK, Reaped, Alive, Dead, Processes, Script

(* A step of the training thread that leaves the pipes to the drains. *)
LEMMA QuietStep ==
  ASSUME TypeOK, IInv, UNCHANGED <<open, written, fetched, recorded, drain, closed>>,
         life' \in {life, Reaped}, closed # {} => pc' \in {"close", "returned"},
         pc' \notin {"launch", "start"}
  PROVE  ProcessInv' /\ DrainInv' /\ \A s \in Streams : Holders(s)' = Holders(s)
<1>1. \A p \in Processes : Alive(p)' <=> Alive(p)
  BY ReapFacts DEF Alive
<1>2. \A s \in Streams : Holders(s)' = Holders(s)
  BY <1>1 DEF Holders, TypeOK
<1> QED
  BY <1>1, <1>2 DEF TypeOK, IInv, ProcessInv, DrainInv

(* The runner, step by step.                                               *)
LEMMA RunnerStep == TypeOK /\ IInv /\ Runner => IInv'
<1> SUFFICES ASSUME TypeOK, IInv, Runner PROVE IInv'
  OBVIOUS
<1> USE DEF TypeOK, IInv
<1>1. CASE LaunchFails
  BY <1>1 DEF LaunchFails, ProcessInv, DrainInv, ScriptInv, ResultInv, SignalInv, HasResult, Supervised,
              Holders, Alive
<1>2. CASE Launch
  <2>1. /\ pc = "launch" /\ pc' = "start" /\ ~HasResult /\ closed = {} /\ ~timedOut
        /\ UNCHANGED <<timedOut, raising, result, written, fetched, recorded, drain, closed>>
        /\ life'[Script] = "alive" /\ \A s \in Streams : open'[s] = {Script}
    BY <1>2 DEF Launch, DrainInv, ResultInv, SignalInv, Processes
  <2>2. ProcessInv'
    BY <2>1 DEF ProcessInv, Alive
  <2>3. \A s \in Streams : drain[s] = "new"
    BY <2>1 DEF DrainInv
  <2> QED
    BY <2>1, <2>2, <2>3 DEF DrainInv, ScriptInv, ResultInv, SignalInv, HasResult, Supervised
<1>3. CASE StartDrains
  <2>1. /\ pc = "start" /\ pc' = "wait" /\ closed = {} /\ ~HasResult
        /\ UNCHANGED <<timedOut, raising, result, life, stubborn, doomed, open, written, fetched,
                      recorded, closed>>
        /\ \A s \in Streams : drain'[s] = "reading"
    BY <1>3 DEF StartDrains, DrainInv, ResultInv
  <2> QED
    BY <2>1 DEF ProcessInv, DrainInv, ScriptInv, ResultInv, SignalInv, HasResult, Supervised, Alive
<1>4. ASSUME pc \notin {"launch", "start", "returned"}, pc' \notin {"launch", "start"},
             UNCHANGED <<open, written, fetched, recorded, drain, closed>>,
             life' \in {life, Reaped}, closed # {} => pc' \in {"close", "returned"}
      PROVE  /\ ProcessInv' /\ DrainInv' /\ \A s \in Streams : Holders(s)' = Holders(s)
             /\ life'[Script] # "absent"
             /\ \A p \in Processes : Alive(p)' <=> Alive(p)
  BY <1>4, QuietStep, ReapFacts DEF ScriptInv, Supervised, Alive, Processes, Script
<1>5. CASE WaitReturns
  <2>1. /\ pc \in {"wait", "grace", "reap"} /\ pc' = "join" /\ closed = {} /\ ~HasResult
        /\ UNCHANGED <<timedOut, raising, result, stubborn, doomed>>
        /\ UNCHANGED <<open, written, fetched, recorded, drain, closed>>
        /\ life' = Reaped
    BY <1>5 DEF WaitReturns, AfterGrace, DrainInv, ResultInv
  <2>2. life'[Script] = "gone"
    BY <2>1, <1>5, ReapFacts DEF WaitReturns
  <2> QED
    BY <2>1, <2>2, <1>4 DEF ScriptInv, ResultInv, SignalInv, HasResult, Supervised
<1>6. CASE WaitTimesOut
  <2>1. /\ pc = "wait" /\ pc' = "terminate" /\ closed = {} /\ ~HasResult
        /\ UNCHANGED <<raising, result, life, stubborn, doomed>>
        /\ UNCHANGED <<open, written, fetched, recorded, drain, closed>>
    BY <1>6 DEF WaitTimesOut, DrainInv, ResultInv
  <2> QED
    BY <2>1, <1>4 DEF ScriptInv, ResultInv, SignalInv, HasResult, Supervised
<1>7. CASE Terminate
  <2>1. /\ pc = "terminate" /\ pc' \in {"join", "grace"} /\ closed = {} /\ ~HasResult
        /\ UNCHANGED <<timedOut, raising, result, life, stubborn>>
        /\ UNCHANGED <<open, written, fetched, recorded, drain, closed>>
        /\ pc' = "join" => Group = {}
        /\ doomed' = doomed \cup (Group \ stubborn)
    BY <1>7 DEF Terminate, Signalled, DrainInv, ResultInv
  <2>2. pc' = "join" => life[Script] \notin {"alive", "zombie"}
    BY <2>1 DEF Group, Processes
  <2>3. \A p \in Processes : Alive(p)' => p \in Group
    BY <2>1 DEF Alive, Group
  <2>4. ScriptInv'
    BY <2>1, <2>2, <1>4 DEF ScriptInv, Supervised
  <2>5. SignalInv'
    BY <2>1, <2>3 DEF SignalInv
  <2> QED
    BY <2>1, <2>4, <2>5, <1>4 DEF ResultInv, HasResult
<1>8. CASE GraceExpires
  <2>1. /\ pc = "grace" /\ pc' = "kill" /\ closed = {} /\ ~HasResult
        /\ UNCHANGED <<timedOut, raising, result, life, stubborn, doomed>>
        /\ UNCHANGED <<open, written, fetched, recorded, drain, closed>>
        /\ life'[Script] \in {"alive", "zombie"}
    BY <1>8 DEF GraceExpires, AfterExpiry, DrainInv, ResultInv, ScriptInv, Supervised, Dead, Processes
  <2> QED
    BY <2>1, <1>4 DEF ScriptInv, ResultInv, SignalInv, HasResult, Supervised
<1>9. CASE Kill
  <2>1. /\ pc = "kill" /\ pc' \in {"join", "reap"} /\ closed = {} /\ ~HasResult
        /\ UNCHANGED <<timedOut, raising, result, life, stubborn>>
        /\ UNCHANGED <<open, written, fetched, recorded, drain, closed>>
        /\ pc' = "join" => Group = {}
        /\ doomed \subseteq doomed'
    BY <1>9 DEF Kill, AfterKill, DrainInv, ResultInv
  <2>2. pc' = "join" => life[Script] \notin {"alive", "zombie"}
    BY <2>1 DEF Group, Processes
  <2>3. ScriptInv'
    BY <2>1, <2>2, <1>4 DEF ScriptInv, Supervised
  <2>4. SignalInv'
    BY <2>1, <1>4 DEF SignalInv
  <2> QED
    BY <2>1, <2>3, <2>4, <1>4 DEF ResultInv, HasResult
<1>10. CASE Join
  <2>1. /\ pc = "join" /\ pc' = "close" /\ Drained /\ closed = {} /\ ~HasResult
        /\ result' = IF raising THEN "interrupted" ELSE IF timedOut THEN "timeout" ELSE "completed"
        /\ UNCHANGED <<timedOut, raising, life, stubborn, doomed>>
        /\ UNCHANGED <<open, written, fetched, recorded, drain, closed>>
    BY <1>10 DEF Join, DrainInv, ResultInv
  <2>2. \A s \in Streams : drain[s] = "done" /\ recorded[s] = written[s] /\ Holders(s) = {}
    BY <2>1 DEF Drained, DrainInv
  <2>3. ResultInv'
    BY <2>1, <2>2, <1>4 DEF ResultInv, HasResult, ScriptInv
  <2> QED
    BY <2>1, <2>3, <1>4 DEF ScriptInv, SignalInv, Supervised
<1>11. CASE Return
  <2>1. /\ pc = "close" /\ pc' = "returned"
        /\ UNCHANGED <<timedOut, raising, result, stubborn, doomed>>
        /\ UNCHANGED <<open, written, fetched, recorded, drain, closed>>
        /\ life' \in {life, Reaped}
    BY <1>11 DEF Return
  <2>2. HasResult => life'[Script] = "gone"
    BY <2>1, ReapFacts DEF ResultInv
  <2> QED
    BY <2>1, <2>2, <1>4 DEF ScriptInv, ResultInv, SignalInv, HasResult, Supervised
<1>12. ASSUME NEW s \in Streams, Close(s) PROVE IInv'
  BY <1>12 DEF Close, ProcessInv, DrainInv, ScriptInv, ResultInv, SignalInv, HasResult, Supervised,
               Holders, Alive
<1> QED
  BY <1>1, <1>2, <1>3, <1>5, <1>6, <1>7, <1>8, <1>9, <1>10, <1>11, <1>12 DEF Runner

(* An exception that interrupts the wait.                                  *)
LEMMA InterruptStep == TypeOK /\ IInv /\ Interrupt => IInv'
<1> SUFFICES ASSUME TypeOK, IInv, Interrupt PROVE IInv'
  OBVIOUS
<1> USE DEF TypeOK, IInv
<1>1. /\ pc \in Supervised \cup {"join"} /\ pc' \in {"terminate", "close", "join"} /\ raising'
      /\ pc' = "terminate" => pc = "wait" /\ waited'
      /\ result' \in {result, "interrupted"} /\ life' \in {life, Reaped}
      /\ UNCHANGED <<timedOut, stubborn, doomed>>
      /\ UNCHANGED <<open, written, fetched, recorded, drain, closed>>
  BY DEF Interrupt, Supervised
<1>2. ~HasResult /\ closed = {}
  BY <1>1 DEF ResultInv, DrainInv, Supervised
<1>3. ProcessInv' /\ DrainInv'
  BY <1>1, <1>2, QuietStep
<1>4. life'[Script] # "absent"
  BY <1>1, ReapFacts DEF ScriptInv, Processes
<1> QED
  BY <1>1, <1>2, <1>3, <1>4 DEF ScriptInv, ResultInv, SignalInv, HasResult, Supervised

(* Every step keeps the invariant.                                         *)
LEMMA IInvStep == TypeOK /\ IInv /\ [Next]_vars => IInv'
<1>1. ASSUME IInv, UNCHANGED vars PROVE IInv'
  BY <1>1 DEF IInv, ProcessInv, DrainInv, ScriptInv, ResultInv, SignalInv, HasResult, Supervised,
              Holders, Alive, vars
<1> QED
  BY <1>1, ExitStep, WriteStep, ForkStep, DrainStep, RunnerStep, InterruptStep DEF Next, Environment, Done

-----------------------------------------------------------------------------
(* Types, and the inductive invariant of the supervision. *)
THEOREM Invariant == Spec => [](TypeOK /\ IInv)
  BY TypeInit, TypeStep, IInvInit, IInvStep, PTL DEF Spec

(* Every result is built from a reaped script and complete output, whichever *)
(* way timeouts, signals, children and interrupts interleave.                *)
THEOREM ResultIsFinalTheorem == Spec => []ResultIsFinal
<1>1. IInv => ResultIsFinal
  BY DEF IInv, ResultInv, ResultIsFinal
<1> QED
  BY <1>1, Invariant, PTL

(* A group whose leader run_script has already reaped is never sent SIGKILL, *)
(* and is sent SIGTERM only when a KeyboardInterrupt in the first wait       *)
(* reaped the leader and no timeout came before.                             *)
THEOREM OwnGroupIsSignalledTheorem == Spec => []OwnGroupIsSignalled
<1>1. IInv => OwnGroupIsSignalled
  BY DEF IInv, ScriptInv, OwnGroupIsSignalled, Supervised
<1> QED
  BY <1>1, Invariant, PTL

(* A script whose processes all honour SIGTERM leaves nobody behind when it  *)
(* is timed out, however many processes it forked.                           *)
THEOREM CooperativeGroupDiesTheorem == Spec => []CooperativeGroupDies
<1>1. IInv => CooperativeGroupDies
  BY DEF IInv, ResultInv, SignalInv, CooperativeGroupDies, HasResult
<1> QED
  BY <1>1, Invariant, PTL

-----------------------------------------------------------------------------
(* A script that is waited for without a timeout is dead or will die.      *)
ReapInv == pc = "reap" => life[Script] # "alive" \/ Script \in doomed

LEMMA ReapStep == TypeOK /\ ReapInv /\ [Next]_vars => ReapInv'
<1> SUFFICES ASSUME TypeOK, ReapInv, [Next]_vars, pc' = "reap"
             PROVE  life'[Script] # "alive" \/ Script \in doomed'
  BY DEF ReapInv
<1>0. Script \in Processes /\ Script \notin Background
  BY HookRunnerAssumption DEF Processes, Script
<1>1. CASE Kill
  BY <1>0, <1>1 DEF Kill, Group
<1>2. CASE Runner /\ ~Kill
  BY <1>2 DEF Runner, LaunchFails, Launch, StartDrains, WaitReturns, AfterGrace, WaitTimesOut,
     Terminate, GraceExpires, AfterExpiry, Join, Return, Close
<1>3. CASE Interrupt
  BY <1>3 DEF Interrupt
<1>4. ASSUME NEW p \in Processes, Exit(p) PROVE life'[Script] # "alive" \/ Script \in doomed'
  BY <1>0, <1>4 DEF Exit, ReapInv, TypeOK, Alive
<1>5. ASSUME NEW p \in Processes, NEW child \in Background, Fork(p, child)
      PROVE  life'[Script] # "alive" \/ Script \in doomed'
  BY <1>0, <1>5 DEF Fork, ReapInv, TypeOK
<1>6. ASSUME NEW p \in Processes, NEW s \in Streams, Write(p, s)
      PROVE  life'[Script] # "alive" \/ Script \in doomed'
  BY <1>6 DEF Write, ReapInv
<1>7. ASSUME NEW s \in Streams, Drain(s) PROVE life'[Script] # "alive" \/ Script \in doomed'
  BY <1>7 DEF Drain, Fetch, ReturnChunk, RecordChunk, ReapInv
<1>8. CASE UNCHANGED vars
  BY <1>8 DEF vars, ReapInv
<1> QED
  BY <1>1, <1>2, <1>3, <1>4, <1>5, <1>6, <1>7, <1>8 DEF Next, Environment, Done

(* run_script waits without end for nothing but processes that its script  *)
(* has left behind.                                                        *)
THEOREM UnboundedWaitsAreForChildrenTheorem == Spec => []UnboundedWaitsAreForChildren
<1>1. Init => ReapInv
  BY DEF Init, ReapInv
<1>2. TypeOK /\ IInv /\ ReapInv => UnboundedWaitsAreForChildren
  <2> SUFFICES ASSUME TypeOK, IInv, ReapInv, pc = "join", ~raising, NEW s \in Streams
               PROVE  Holders(s) \subseteq Background
    BY DEF ReapInv, UnboundedWaitsAreForChildren
  <2>1. life[Script] = "gone"
    BY DEF IInv, ScriptInv
  <2> QED
    BY <2>1 DEF Holders, Alive, TypeOK, Processes
<1> QED
  BY <1>1, <1>2, ReapStep, Invariant, PTL DEF Spec
=============================================================================
