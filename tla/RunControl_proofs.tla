--------------------------- MODULE RunControl_proofs ---------------------------
(***************************************************************************)
(* Proofs about RunControl, for every value of its constants: its types,   *)
(* its invariants and action properties, and that it implements            *)
(* HoldProtocol.                                                           *)
(***************************************************************************)
EXTENDS RunControl, TLAPS

USE DEF control, trainer, batch, execution, queue, gate, published, service,
        TrainingSide, Stay

-----------------------------------------------------------------------------
(***************************************************************************)
(* Type correctness.                                                       *)
(***************************************************************************)

(* A counter that saturates stays within its bound.                        *)
LEMMA SaturateType ==
  ASSUME NEW max \in Nat, NEW n \in 0 .. max
  PROVE  Saturate(n, max) \in 0 .. max
  BY DEF Saturate

(* Going back to the training loop keeps the types.                        *)
LEMMA LeaveControlType ==
  ASSUME TypeOK, LeaveControl
  PROVE  /\ phase' \in Phases /\ pc' \in Steps /\ mode' \in Modes
         /\ epoch' \in 0 .. MaxEpoch /\ step' \in 0 .. MaxStep
         /\ shouldStop' \in BOOLEAN /\ batchLive' \in BOOLEAN
<1>1. phase' \in Phases
  BY DEF LeaveControl, After, TypeOK, Phases
<1>2. epoch' \in 0 .. MaxEpoch /\ step' \in 0 .. MaxStep
  BY SaturateType, RunControlAssumption DEF LeaveControl, TypeOK
<1>3. QED
  BY <1>1, <1>2 DEF LeaveControl, TypeOK, Steps, Modes

(* The initial states have the right types.                                *)
LEMMA InitTypeOK == Init => TypeOK
<1> SUFFICES ASSUME Init PROVE TypeOK
  OBVIOUS
<1> USE RunControlAssumption DEF Init, NoId, NoHold
<1>1. commands \in [Ids -> Command]
  <2>1. NoCommand \in Command
    BY DEF NoCommand, Command, CommandStatus
  <2> QED
    BY <2>1
<1>2. snapshot \in Snapshot /\ status \in PublishedStatus
  BY DEF Snapshot, PublishedStatus
<1>3. client \in [Clients -> Client]
  BY DEF Client, Idle, CommandStatus, Holds
<1>4. phase \in Phases /\ pc \in Steps /\ mode \in Modes
  BY DEF Phases, Steps, Modes
<1>5. /\ epoch \in 0 .. MaxEpoch /\ step \in 0 .. MaxStep /\ profiler \in 0 .. MaxProfileSteps
      /\ submitted \in 0 .. MaxCommands
  OBVIOUS
<1>6. /\ shouldStop \in BOOLEAN /\ batchLive \in BOOLEAN /\ guard \in BOOLEAN
      /\ thenHold \in BOOLEAN /\ controlEvent \in BOOLEAN /\ exception \in BOOLEAN
      /\ rest \in BOOLEAN
  OBVIOUS
<1> QED
  BY <1>1, <1>2, <1>3, <1>4, <1>5, <1>6 DEF TypeOK

(* The types are preserved: one step per action. *)
LEMMA StepTypeOK == TypeOK /\ [Next]_vars => TypeOK'
<1> SUFFICES ASSUME TypeOK, [Next]_vars PROVE TypeOK'
  OBVIOUS
<1> USE RunControlAssumption DEF TypeOK
<1>1. CASE BatchStart
  BY <1>1 DEF BatchStart, Begin, Phases, Steps, Modes, Holds, PublishedStatus
<1>2. CASE Backward
  <2>1. CASE phase' \in {"optimizer_step", "batch_end"} /\ UNCHANGED <<pc, mode, exception, status>>
    BY <1>2, <2>1 DEF Backward, Phases
  <2>2. CASE phase' = "aborted" /\ UNCHANGED <<pc, mode, exception, status>>
    BY <1>2, <2>2 DEF Backward, Phases
  <2>3. CASE exception' = TRUE /\ status' = "exception_held" /\ mode' = "exception"
             /\ pc' = "announce" /\ UNCHANGED phase
    <3>1. exception' \in BOOLEAN
      BY <2>3
    <3> QED
      BY <1>2, <2>3, <3>1 DEF Backward, Steps, Modes, PublishedStatus
  <2> QED
    BY <1>2, <2>1, <2>2, <2>3 DEF Backward
<1>3. CASE EnterSafePoint
  BY <1>3 DEF EnterSafePoint, Steps, Modes
<1>4. CASE BeginTeardown
  BY <1>4 DEF BeginTeardown, Begin, Steps, Snapshot, PublishedStatus
<1>5. CASE Scan
  BY <1>5 DEF Scan, Phases, Steps, Modes, Runnable, Due
<1>6. CASE StartCommand
  BY <1>6 DEF StartCommand, NextInOrder, Steps, Command, CommandStatus
<1>7. CASE EndOfWork
  BY <1>7 DEF EndOfWork, Steps, PublishedStatus
<1>8. CASE Handle
  <2> USE <1>8 DEF Handle, Steps, Holds, NoHold
  <2>1. CASE HandleHold
    BY <2>1 DEF HandleHold, Outcome, NoId
  <2>2. CASE HandleStop
    BY <2>2 DEF HandleStop, Outcome
  <2>3. CASE HandleReleaseException
    BY <2>3 DEF HandleReleaseException, Outcome
  <2>4. CASE HandleFiniteCheck
    BY <2>4 DEF HandleFiniteCheck, Outcome
  <2>5. CASE HandleProfile
    BY <2>5 DEF HandleProfile, Outcome
  <2>6. CASE HandleTorchlens
    BY <2>6 DEF HandleTorchlens, Outcome, NoId
  <2>7. CASE HandleOther
    BY <2>7 DEF HandleOther, Outcome
  <2> QED
    BY <2>1, <2>2, <2>3, <2>4, <2>5, <2>6, <2>7
<1>9. CASE Record
  BY <1>9 DEF Record, Steps, Command, CommandStatus, NoId
<1>10. CASE ReadStatus
  BY <1>10 DEF ReadStatus, StatusSeen, Steps, PublishedStatus
<1>11. CASE Publish
  BY <1>11 DEF Publish, View, HoldState, Steps, Snapshot
<1>12. CASE Announce
  BY <1>12 DEF Announce, View, HoldState, Steps, Snapshot
<1>13. CASE CheckHeld
  <2>1. CASE GateOpen /\ LeaveControl
    BY <1>13, <2>1, LeaveControlType DEF CheckHeld
  <2>2. CASE ~(GateOpen /\ LeaveControl)
    BY <1>13, <2>2 DEF CheckHeld, Steps, Modes
  <2> QED
    BY <2>1, <2>2
<1>14. CASE LoopHead
  BY <1>14 DEF LoopHead, Steps
<1>15. CASE Recheck
  BY <1>15 DEF Recheck, Steps
<1>16. CASE WaitWoken
  BY <1>16 DEF WaitWoken, Steps
<1>17. CASE WaitTimeout
  BY <1>17 DEF WaitTimeout, Steps
<1>18. CASE ClearEvent
  BY <1>18 DEF ClearEvent, Steps
<1>19. CASE Resume
  BY <1>19, LeaveControlType DEF Resume, View, HoldState, Snapshot, PublishedStatus
<1>20. CASE AdvanceProfiler
  <2> USE <1>20 DEF AdvanceProfiler
  <2>1. CASE NoRun
    BY <2>1, LeaveControlType DEF NoRun
  <2>2. CASE StepRun
    <3>1. profiler' \in 0 .. MaxProfileSteps
      BY <2>2 DEF StepRun
    <3> QED
      BY <2>2, <3>1, LeaveControlType DEF StepRun
  <2>3. CASE FinalizeRun /\ thenHold
    <3>1. thenHold' \in BOOLEAN
      BY <2>3 DEF FinalizeRun
    <3> QED
      BY <2>3, <3>1 DEF FinalizeRun, Holds, PublishedStatus, Steps, Modes
  <2>4. CASE FinalizeRun /\ ~thenHold
    <3>1. thenHold' \in BOOLEAN
      BY <2>4 DEF FinalizeRun
    <3>2. LeaveControl /\ UNCHANGED <<active, status>> /\ profiler' = 0
      BY <2>4 DEF FinalizeRun
    <3> QED
      BY <3>1, <3>2, LeaveControlType
  <2> QED
    BY <2>1, <2>2, <2>3, <2>4
<1>21. CASE EndTeardown
  BY <1>21 DEF EndTeardown, Phases, Steps, Snapshot, PublishedStatus
<1>22. ASSUME NEW t \in Clients, Submit(t) PROVE TypeOK'
  <2>1. PICK kind \in Kinds, raw \in Requests :
          /\ ~ParseFails(raw)
          /\ submitted' = submitted + 1
          /\ commands' = [commands EXCEPT ![submitted'] =
                [kind |-> kind, when |-> ParseWhen(raw), status |-> "queued"]]
          /\ client' = [client EXCEPT ![t] = [Idle EXCEPT !.at = "notify"]]
    BY <1>22 DEF Submit
  <2>2. submitted' \in Ids
    BY <1>22, <2>1 DEF Submit, Ids
  <2>3. [kind |-> kind, when |-> ParseWhen(raw), status |-> "queued"] \in Command
    BY <2>1 DEF Command, CommandStatus
  <2>4. commands' \in [Ids -> Command]
    BY <2>1, <2>2, <2>3
  <2>5. client' \in [Clients -> Client]
    BY <2>1 DEF Client, Idle, NoId
  <2> QED
    BY <1>22, <2>2, <2>4, <2>5 DEF Submit, Ids
<1>23. ASSUME NEW t \in Clients, Notify(t) PROVE TypeOK'
  BY <1>23 DEF Notify, SetEvent, Client, Idle, NoId, CommandStatus
<1>24. ASSUME NEW t \in Clients, Cancel(t) PROVE TypeOK'
  BY <1>24 DEF Cancel, Queued, Command, CommandStatus
<1>25. ASSUME NEW t \in Clients, CheckRelease(t) PROVE TypeOK'
  BY <1>25 DEF CheckRelease, Client, Idle, NoId, CommandStatus
<1>26. ASSUME NEW t \in Clients, Release(t) PROVE TypeOK'
  BY <1>26 DEF Release, OpenGate, Client, Idle, NoId, CommandStatus
<1>27. ASSUME NEW t \in Clients, Continue(t) PROVE TypeOK'
  BY <1>27 DEF Continue, OpenGate, Client, Idle, NoId, CommandStatus
<1>28. ASSUME NEW t \in Clients, Wake(t) PROVE TypeOK'
  BY <1>28 DEF Wake, SetEvent, Client, Idle, NoId, CommandStatus
<1>29. CASE UNCHANGED vars
  BY <1>29 DEF vars
<1> QED
  BY <1>1, <1>2, <1>3, <1>4, <1>5, <1>6, <1>7, <1>8, <1>9, <1>10, <1>11, <1>12,
     <1>13, <1>14, <1>15, <1>16, <1>17, <1>18, <1>19, <1>20, <1>21, <1>22, <1>23, <1>24, <1>25,
     <1>26, <1>27, <1>28, <1>29
     DEF Next, Lightning, Control, Reply, Request, Done

(* Every variable keeps the type of its attribute, in any run with any number *)
(* of commands, handler threads, epochs and steps.                            *)
THEOREM TypeCorrect == Spec => []TypeOK
  BY InitTypeOK, StepTypeOK, PTL DEF Spec

-----------------------------------------------------------------------------
(***************************************************************************)
(* The inductive invariants.                                               *)
(***************************************************************************)
Executing == {"pick", "handle", "record"}

(* The due list is a set of submitted commands nobody has started, closed  *)
(* downwards: an older command that is runnable is on it too.              *)
DueListInv ==
  /\ \A c \in work : c <= submitted /\ commands[c].status \in {"queued", "cancelled"}
  /\ \A c \in work, d \in Runnable : d < c => d \in work
  /\ pc \notin Executing => work = {}

(* One command executes at a time, and only in _execute. *)
CurrentInv ==
  /\ pc \in {"handle", "record"} =>
       /\ current \in Ids /\ current \notin work
       /\ current <= submitted /\ commands[current].status = "executing"
  /\ pc \notin {"handle", "record"} => current = NoId
  /\ \A c \in Ids : c > submitted => commands[c].status = "absent"

(* What a loop has taken, or is executing, is on its allow-list. *)
AllowedInv ==
  mode \in {"hold", "exception"} =>
    \A c \in work \cup {current} : c # NoId => commands[c].kind \in AllowedIn(mode)

QueueInv == DueListInv /\ CurrentInv /\ AllowedInv

(* Which loop the control code is in. *)
ModeInv ==
  /\ pc \in {"training", "finish", "stopping"} => mode = "none"
  /\ pc \in Executing \cup {"scan", "publish"} => mode # "none"
  /\ pc \in {"status", "check"} => mode = "safe_point"
  /\ pc \in {"announce", "loop", "recheck", "wait", "clear", "resume"}
       => mode \in {"hold", "exception"}
  /\ phase \in Dead => pc = "training"

(* Where a hold and a breakpoint can be in force.  The hold of a safe      *)
(* point starts after its scan; the two never coincide.                    *)
GateInv ==
  /\ exception => mode = "exception"
  /\ active # NoHold => mode \in {"safe_point", "hold"}
  /\ pc = "scan" /\ mode = "safe_point" => active = NoHold
  /\ pc = "resume" => active = NoHold /\ ~exception

(* "running" is about to be published only of a run that nothing holds. *)
StatusInv ==
  /\ pc \in {"publish", "announce"} /\ status = "running" => active = NoHold /\ ~exception
  /\ RunningIsTruthful

ControlInv == ModeInv /\ GateInv /\ StatusInv

(* The initial states satisfy the invariant.                               *)
LEMMA QueueInvInit == Init => QueueInv
  BY DEF Init, QueueInv, DueListInv, CurrentInv, AllowedInv, Executing, NoCommand, NoId, Runnable, Due,
         Queued

(* A step that leaves the queue alone, outside of _execute on both sides. *)
LEMMA QuietStep ==
  ASSUME TypeOK, QueueInv, pc \notin Executing, pc' \notin Executing,
         UNCHANGED <<commands, submitted, work, current>>
  PROVE  QueueInv'
  BY DEF QueueInv, DueListInv, CurrentInv, AllowedInv, Executing, NoId

(* A step of a handler thread that does not touch the queue. *)
LEMMA ElsewhereStep ==
  ASSUME QueueInv,
         UNCHANGED <<commands, submitted, work, current, pc, mode, phase, epoch, step>>
  PROVE  QueueInv'
  BY DEF QueueInv, DueListInv, CurrentInv, AllowedInv, Runnable, Due, ScoredAt, Queued

(* The scan of the queue fills the due list.                               *)
LEMMA ScanStep == ASSUME TypeOK, QueueInv, Scan PROVE QueueInv'
<1>1. CASE DueRaises(ScoredAt)
  <2>1. pc \notin Executing /\ pc' \notin Executing /\ UNCHANGED <<commands, submitted, work, current>>
    BY <1>1 DEF Scan, Executing
  <2> QED
    BY <2>1, QuietStep
<1>2. CASE ~DueRaises(ScoredAt)
  <2>1. /\ work' = Runnable /\ pc = "scan" /\ pc' = "pick"
        /\ UNCHANGED <<commands, submitted, current, phase, mode, epoch, step>>
    BY <1>2 DEF Scan
  <2>2. Runnable' = Runnable
    BY <2>1 DEF Runnable, Due, ScoredAt, Queued
  <2>3. \A c \in Runnable : c \in Ids /\ commands[c].status = "queued" /\ commands[c].kind \in AllowedIn(mode)
    BY DEF Runnable, Due, Queued
  <2>4. current = NoId
    BY <2>1 DEF QueueInv, CurrentInv
  <2>5. DueListInv'
    <3>1. \A c \in Runnable : c <= submitted
      BY <2>3, RunControlAssumption DEF QueueInv, CurrentInv, TypeOK, Ids
    <3> QED
      BY <2>1, <2>2, <2>3, <3>1 DEF DueListInv, Executing
  <2>6. CurrentInv'
    BY <2>1 DEF QueueInv, CurrentInv
  <2>7. AllowedInv'
    BY <2>1, <2>3, <2>4 DEF AllowedInv, AllowedIn
  <2> QED
    BY <2>5, <2>6, <2>7 DEF QueueInv
<1> QED
  BY <1>1, <1>2

(* Starting a command takes it off the due list.                           *)
LEMMA StartStep == ASSUME TypeOK, QueueInv, StartCommand PROVE QueueInv'
<1>1. PICK c \in Ids : /\ NextInOrder(c)
                       /\ work' = work \ {c} /\ current' = c
                       /\ commands' = [commands EXCEPT ![c].status = "executing"]
  BY DEF StartCommand
<1>2. /\ pc = "pick" /\ pc' = "handle"
      /\ UNCHANGED <<submitted, phase, mode, epoch, step>>
  BY DEF StartCommand
<1>3. /\ c \in work /\ c <= submitted /\ c # NoId
      /\ \A d \in work : c <= d
  BY <1>1 DEF NextInOrder, QueueInv, DueListInv, Ids, NoId
<1>4. \A d \in Ids : d # c => commands'[d] = commands[d]
  BY <1>1 DEF TypeOK
<1>5. commands'[c].status = "executing" /\ commands'[c].kind = commands[c].kind
  BY <1>1 DEF TypeOK, Command
<1>6. Runnable' \subseteq Runnable \ {c}
  BY <1>2, <1>4, <1>5 DEF Runnable, Due, ScoredAt, Queued
<1>7. DueListInv'
  <2>1. \A d \in work' : d <= submitted' /\ commands'[d].status \in {"queued", "cancelled"}
    BY <1>1, <1>2, <1>4 DEF QueueInv, DueListInv, TypeOK
  <2>2. \A d \in work', e \in Runnable' : e < d => e \in work'
    BY <1>1, <1>6 DEF QueueInv, DueListInv
  <2> QED
    BY <1>2, <2>1, <2>2 DEF DueListInv, Executing
<1>8. CurrentInv'
  <2>1. \A d \in Ids : d > submitted => d # c
    BY <1>3, RunControlAssumption DEF TypeOK, Ids
  <2> QED
    BY <1>1, <1>2, <1>3, <1>4, <1>5, <2>1 DEF QueueInv, CurrentInv
<1>9. AllowedInv'
  <2>1. \A d \in work' \cup {current'} : d \in Ids /\ d \in work
    BY <1>1, <1>3 DEF TypeOK
  <2>2. \A d \in Ids : commands'[d].kind = commands[d].kind
    BY <1>4, <1>5
  <2> QED
    BY <1>2, <2>1, <2>2 DEF QueueInv, AllowedInv, AllowedIn
<1> QED
  BY <1>7, <1>8, <1>9 DEF QueueInv

(* Recording the outcome of a command.                                     *)
LEMMA RecordStep == ASSUME TypeOK, QueueInv, Record PROVE QueueInv'
<1>1. /\ pc = "record" /\ pc' = "pick"
      /\ commands' = [commands EXCEPT ![current].status = outcome]
      /\ current' = NoId
      /\ UNCHANGED <<submitted, work, phase, mode, epoch, step>>
  BY DEF Record
<1>2. current \in Ids /\ current \notin work /\ current <= submitted
  BY <1>1 DEF QueueInv, CurrentInv
<1>3. \A d \in Ids : d # current => commands'[d] = commands[d]
  BY <1>1 DEF TypeOK
<1>4. commands'[current].status \in {"succeeded", "failed"}
      /\ commands'[current].kind = commands[current].kind
  BY <1>1, <1>2 DEF TypeOK, Command
<1>5. Runnable' \subseteq Runnable
  BY <1>1, <1>3, <1>4 DEF Runnable, Due, ScoredAt, Queued
<1>6. DueListInv'
  <2>1. \A d \in work' : d <= submitted' /\ commands'[d].status \in {"queued", "cancelled"}
    BY <1>1, <1>2, <1>3 DEF QueueInv, DueListInv, TypeOK
  <2>2. \A d \in work', e \in Runnable' : e < d => e \in work'
    BY <1>1, <1>5 DEF QueueInv, DueListInv
  <2> QED
    BY <1>1, <2>1, <2>2 DEF DueListInv, Executing
<1>7. CurrentInv'
  <2>1. \A d \in Ids : d > submitted => d # current
    BY <1>2, RunControlAssumption DEF TypeOK, Ids
  <2> QED
    BY <1>1, <1>3, <2>1 DEF QueueInv, CurrentInv
<1>8. AllowedInv'
  BY <1>1, <1>2, <1>3 DEF QueueInv, AllowedInv, AllowedIn, TypeOK
<1> QED
  BY <1>6, <1>7, <1>8 DEF QueueInv

(* A request that submits a command.                                       *)
LEMMA SubmitStep == ASSUME TypeOK, QueueInv, NEW t \in Clients, Submit(t) PROVE QueueInv'
<1>1. PICK kind \in Kinds, raw \in Requests :
        commands' = [commands EXCEPT ![submitted'] =
                       [kind |-> kind, when |-> ParseWhen(raw), status |-> "queued"]]
  BY DEF Submit
<1>2. /\ submitted' = submitted + 1 /\ submitted' \in Ids
      /\ UNCHANGED <<pc, mode, phase, epoch, step, work, current>>
  BY RunControlAssumption DEF Submit, TypeOK, Ids
<1>3. \A d \in Ids : d # submitted' => commands'[d] = commands[d]
  BY <1>1, <1>2 DEF TypeOK
<1>4. \A d \in Ids : d <= submitted => commands'[d] = commands[d] /\ d <= submitted'
  BY <1>2, <1>3, RunControlAssumption DEF TypeOK, Ids
<1>5. \A d \in Ids : d <= submitted /\ d \in Runnable' => d \in Runnable
  BY <1>2, <1>4 DEF Runnable, Due, ScoredAt, Queued
<1>6. \A c \in work : c \in Ids /\ c <= submitted
  BY DEF QueueInv, DueListInv, TypeOK
<1>7. DueListInv'
  <2>1. \A c \in work, d \in Runnable' : d < c => d \in work
    <3> SUFFICES ASSUME NEW c \in work, NEW d \in Runnable', d < c PROVE d \in work
      OBVIOUS
    <3>1. d \in Ids /\ d <= submitted
      BY <1>6, RunControlAssumption DEF Runnable, Due, TypeOK, Ids
    <3> QED
      BY <1>5, <3>1 DEF QueueInv, DueListInv
  <2> QED
    BY <1>2, <1>4, <1>6, <2>1 DEF QueueInv, DueListInv
<1>8. CurrentInv'
  <2>1. \A d \in Ids : d > submitted' => d > submitted /\ d # submitted'
    BY <1>2, RunControlAssumption DEF TypeOK, Ids
  <2> QED
    BY <1>2, <1>3, <1>4, <2>1 DEF QueueInv, CurrentInv
<1>9. AllowedInv'
  <2>1. current # NoId => current \in Ids /\ current <= submitted
    BY DEF QueueInv, CurrentInv
  <2> QED
    BY <1>2, <1>4, <1>6, <2>1 DEF QueueInv, AllowedInv, AllowedIn
<1> QED
  BY <1>7, <1>8, <1>9 DEF QueueInv

(* A request that cancels a command.                                       *)
LEMMA CancelStep == ASSUME TypeOK, QueueInv, NEW t \in Clients, Cancel(t) PROVE QueueInv'
<1>1. PICK c \in Ids : /\ commands[c].status = "queued"
                       /\ commands' = [commands EXCEPT ![c].status = "cancelled"]
  BY DEF Cancel, Queued
<1>2. UNCHANGED <<pc, mode, phase, epoch, step, work, current, submitted>>
  BY DEF Cancel
<1>3. \A d \in Ids : d # c => commands'[d] = commands[d]
  BY <1>1 DEF TypeOK
<1>4. commands'[c].status = "cancelled" /\ commands'[c].kind = commands[c].kind
  BY <1>1 DEF TypeOK, Command
<1>5. Runnable' \subseteq Runnable
  BY <1>2, <1>3, <1>4 DEF Runnable, Due, ScoredAt, Queued
<1>6. DueListInv'
  BY <1>2, <1>3, <1>4, <1>5 DEF QueueInv, DueListInv, TypeOK
<1>7. CurrentInv'
  BY <1>1, <1>2, <1>3 DEF QueueInv, CurrentInv
<1>8. AllowedInv'
  BY <1>2, <1>3, <1>4 DEF QueueInv, AllowedInv, AllowedIn, TypeOK, NoId
<1> QED
  BY <1>6, <1>7, <1>8 DEF QueueInv

(* Every step keeps the invariant.                                         *)
LEMMA QueueInvStep == TypeOK /\ QueueInv /\ [Next]_vars => QueueInv'
<1> SUFFICES ASSUME TypeOK, QueueInv, [Next]_vars PROVE QueueInv'
  OBVIOUS
<1>1. ASSUME Lightning PROVE QueueInv'
  <2>1. pc = "training" /\ UNCHANGED <<commands, submitted, work, current>>
    BY <1>1 DEF Lightning, BatchStart, Backward, EnterSafePoint, BeginTeardown, Begin
  <2>2. pc' \notin Executing
    BY <1>1 DEF Lightning, BatchStart, Backward, EnterSafePoint, BeginTeardown, Begin, Executing
  <2> QED
    BY <2>1, <2>2, QuietStep DEF Executing
<1>2. CASE Scan
  BY <1>2, ScanStep
<1>3. CASE StartCommand
  BY <1>3, StartStep
<1>4. CASE EndOfWork
  BY <1>4 DEF EndOfWork, QueueInv, DueListInv, CurrentInv, AllowedInv, Executing, NoId
<1>5. CASE Handle
  <2>1. /\ UNCHANGED <<commands, submitted, work, current, mode, phase, epoch, step>>
        /\ pc = "handle" /\ pc' = "record"
    BY <1>5 DEF Handle
  <2> QED
    BY <2>1 DEF QueueInv, DueListInv, CurrentInv, AllowedInv, Executing, Runnable, Due, ScoredAt, Queued
<1>6. CASE Record
  BY <1>6, RecordStep
<1>7. CASE ReadStatus \/ Publish \/ Announce \/ CheckHeld \/ LoopHead \/ Recheck \/ WaitWoken
           \/ WaitTimeout \/ ClearEvent \/ Resume
  <2>1. pc \notin Executing /\ UNCHANGED <<commands, submitted, work, current>>
    BY <1>7 DEF ReadStatus, Publish, Announce, CheckHeld, LoopHead, Recheck, WaitWoken,
                WaitTimeout, ClearEvent, Resume, Executing
  <2>2. pc' \notin Executing
    BY <1>7 DEF ReadStatus, Publish, Announce, CheckHeld, LoopHead, Recheck, WaitWoken,
                WaitTimeout, ClearEvent, Resume, Executing, LeaveControl
  <2> QED
    BY <2>1, <2>2, QuietStep
<1>8. CASE AdvanceProfiler \/ EndTeardown
  <2>1. pc \notin Executing /\ UNCHANGED <<commands, submitted, work, current>>
    BY <1>8 DEF AdvanceProfiler, EndTeardown, Executing
  <2>2. pc' \notin Executing
    BY <1>8 DEF AdvanceProfiler, EndTeardown, Executing, NoRun, StepRun, FinalizeRun, LeaveControl
  <2> QED
    BY <2>1, <2>2, QuietStep
<1>9. ASSUME NEW t \in Clients, Submit(t) PROVE QueueInv'
  BY <1>9, SubmitStep
<1>10. ASSUME NEW t \in Clients, Cancel(t) PROVE QueueInv'
  BY <1>10, CancelStep
<1>11. ASSUME NEW t \in Clients, Reply(t) \/ CheckRelease(t) \/ Continue(t) PROVE QueueInv'
  <2>1. UNCHANGED <<commands, submitted, work, current, pc, mode, phase, epoch, step>>
    BY <1>11 DEF Reply, CheckRelease, Continue, Notify, Release, Wake, OpenGate
  <2> QED
    BY <2>1, ElsewhereStep
<1>12. CASE UNCHANGED vars
  BY <1>12, ElsewhereStep DEF vars
<1> QED
  BY <1>1, <1>2, <1>3, <1>4, <1>5, <1>6, <1>7, <1>8, <1>9, <1>10, <1>11, <1>12
     DEF Next, Control, Request, Done

(***************************************************************************)
(* The control code between the hooks.                                     *)
(***************************************************************************)
LEMMA ControlInvInit == Init => ControlInv
  BY DEF Init, ControlInv, ModeInv, GateInv, StatusInv, RunningIsTruthful, Executing, Dead

(* A handler thread's step: at most it opens the gate. *)
LEMMA ClientStep ==
  ASSUME ControlInv, active' \in {active, NoHold},
         UNCHANGED <<pc, mode, phase, exception, status, snapshot>>
  PROVE  ControlInv'
  BY DEF ControlInv, ModeInv, GateInv, StatusInv, RunningIsTruthful

(* A return to Lightning with nothing in force. *)
LEMMA ReturnStep ==
  ASSUME ControlInv, LeaveControl, active = NoHold, ~exception, phase \notin Dead,
         UNCHANGED <<active, exception>>, RunningIsTruthful'
  PROVE  ControlInv'
<1>1. mode' = "none" /\ pc' \in {"finish", "training"} /\ (phase = "batch_end" \/ pc' = "training")
  BY DEF LeaveControl
<1>2. phase = "batch_end" => phase' = "batch_finish"
  BY DEF LeaveControl, After
<1>3. ModeInv'
  BY <1>1, <1>2 DEF ModeInv, Executing, Dead
<1> QED
  BY <1>1, <1>3 DEF ControlInv, GateInv, StatusInv

(* A hook called by Lightning.                                             *)
LEMMA LightningStep == ASSUME TypeOK, ControlInv, Lightning PROVE ControlInv'
<1> USE DEF ControlInv, ModeInv, GateInv, StatusInv, RunningIsTruthful, Executing, Dead, Begin,
            AtSafePoint, SafePointOf
<1>1. pc = "training" /\ mode = "none" /\ active = NoHold /\ ~exception
  BY DEF Lightning, BatchStart, Backward, EnterSafePoint, BeginTeardown
<1>2. CASE BatchStart
  BY <1>1, <1>2 DEF BatchStart
<1>3. CASE Backward
  BY <1>1, <1>3 DEF Backward
<1>4. CASE EnterSafePoint
  BY <1>1, <1>4 DEF EnterSafePoint
<1>5. CASE BeginTeardown
  BY <1>1, <1>5 DEF BeginTeardown, TypeOK, Snapshot
<1> QED
  BY <1>2, <1>3, <1>4, <1>5 DEF Lightning

(* The handler of a command.                                               *)
LEMMA HandleStep == ASSUME TypeOK, QueueInv, ControlInv, Handle PROVE ControlInv'
<1> USE DEF ControlInv, ModeInv, GateInv, StatusInv, RunningIsTruthful, Executing
<1>1. /\ pc = "handle" /\ pc' = "record" /\ mode # "none"
      /\ UNCHANGED <<phase, mode, status, snapshot>>
  BY DEF Handle
<1>2. current \in Ids /\ current # NoHold /\ current # NoId
  BY <1>1 DEF QueueInv, CurrentInv, Ids, NoHold, NoId
<1>3. mode = "exception" => Kind \in AllowedDuringException
  BY <1>2 DEF QueueInv, AllowedInv, AllowedIn, Kind
<1>4. mode \in {"safe_point", "hold", "exception"}
  BY <1>1 DEF TypeOK, Modes
<1>5. (exception' => exception) /\ (active' # active => mode # "exception")
  BY <1>3 DEF Handle, HandleHold, HandleStop, HandleReleaseException, HandleFiniteCheck, HandleProfile,
              HandleTorchlens, HandleOther, AllowedDuringException
<1>6. RunningIsTruthful'
  BY <1>1, <1>5
<1>7. ModeInv' /\ GateInv'
  BY <1>1, <1>4, <1>5 DEF Dead
<1> QED
  BY <1>1, <1>6, <1>7

(* The rest of the execution of the due commands.                          *)
LEMMA WorkStep ==
  ASSUME TypeOK, QueueInv, ControlInv, Scan \/ StartCommand \/ EndOfWork \/ Record
  PROVE  ControlInv'
<1> USE DEF ControlInv, ModeInv, GateInv, StatusInv, RunningIsTruthful, Executing, Dead
<1>1. CASE Scan /\ DueRaises(ScoredAt)
  <2>1. mode = "safe_point"
    BY <1>1 DEF DueRaises, IsDueRaises, ScoredAt
  <2> QED
    BY <1>1, <2>1 DEF Scan
<1>2. CASE Scan /\ ~DueRaises(ScoredAt)
  BY <1>2 DEF Scan
<1>3. CASE StartCommand
  BY <1>3 DEF StartCommand
<1>4. CASE EndOfWork
  BY <1>4 DEF EndOfWork, TypeOK, Modes
<1>5. CASE Record
  BY <1>5 DEF Record
<1> QED
  BY <1>1, <1>2, <1>3, <1>4, <1>5

(* Publishing a snapshot.                                                  *)
LEMMA PublishStep ==
  ASSUME TypeOK, ControlInv, ReadStatus \/ Publish \/ Announce
  PROVE  ControlInv'
<1> USE DEF ControlInv, ModeInv, GateInv, StatusInv, RunningIsTruthful, Executing, Dead
<1>1. CASE ReadStatus
  BY <1>1 DEF ReadStatus, StatusSeen
<1>2. CASE Publish
  BY <1>2 DEF Publish, View, HoldState, TypeOK, Modes
<1>3. CASE Announce
  BY <1>3 DEF Announce, View, HoldState
<1> QED
  BY <1>1, <1>2, <1>3

(* The hold loops.                                                         *)
LEMMA LoopStep ==
  ASSUME TypeOK, ControlInv,
         \/ CheckHeld \/ LoopHead \/ Recheck \/ WaitWoken \/ WaitTimeout \/ ClearEvent \/ Resume
  PROVE  ControlInv'
<1>1. CASE CheckHeld
  <2>1. phase \notin Dead /\ ~exception /\ UNCHANGED <<active, exception, snapshot, status>>
    BY <1>1 DEF CheckHeld, ControlInv, ModeInv, GateInv
  <2>2. CASE GateOpen /\ LeaveControl
    BY <2>1, <2>2, ReturnStep DEF GateOpen, ControlInv, StatusInv, RunningIsTruthful
  <2>3. CASE active # NoHold /\ mode' = "hold" /\ pc' = "loop" /\ UNCHANGED phase
    BY <2>1, <2>3 DEF ControlInv, ModeInv, GateInv, StatusInv, RunningIsTruthful, Executing, Dead
  <2> QED
    BY <1>1, <2>2, <2>3 DEF CheckHeld
<1>2. CASE Resume
  <2>1. phase \notin Dead /\ active = NoHold /\ ~exception /\ UNCHANGED <<active, exception>>
    BY <1>2 DEF Resume, ControlInv, ModeInv, GateInv
  <2>2. RunningIsTruthful' /\ LeaveControl
    BY <1>2, <2>1 DEF Resume, View, HoldState, RunningIsTruthful
  <2> QED
    BY <2>1, <2>2, ReturnStep
<1>3. CASE LoopHead \/ Recheck
  BY <1>3 DEF LoopHead, Recheck, Blocked, ControlInv, ModeInv, GateInv, StatusInv, RunningIsTruthful,
              Executing, Dead
<1>4. CASE WaitWoken \/ WaitTimeout \/ ClearEvent
  BY <1>4 DEF WaitWoken, WaitTimeout, ClearEvent, ControlInv, ModeInv, GateInv, StatusInv,
              RunningIsTruthful, Executing, Dead
<1> QED
  BY <1>1, <1>2, <1>3, <1>4

(* The profiler's step and the end of teardown.                            *)
LEMMA EndStep ==
  ASSUME TypeOK, ControlInv, AdvanceProfiler \/ EndTeardown
  PROVE  ControlInv'
<1>1. CASE AdvanceProfiler
  <2>1. /\ pc = "finish" /\ mode = "none" /\ phase \notin Dead /\ active = NoHold /\ ~exception
        /\ UNCHANGED <<exception, snapshot>>
    BY <1>1 DEF AdvanceProfiler, ControlInv, ModeInv, GateInv
  <2>2. CASE LeaveControl /\ UNCHANGED active
    BY <2>1, <2>2, ReturnStep DEF ControlInv, StatusInv, RunningIsTruthful
  <2>3. CASE /\ active' = ProfilerHold /\ status' = "held" /\ mode' = "hold" /\ pc' = "announce"
             /\ UNCHANGED phase
    BY <2>1, <2>3 DEF ControlInv, ModeInv, GateInv, StatusInv, RunningIsTruthful, Executing, Dead
  <2> QED
    BY <1>1, <2>2, <2>3 DEF AdvanceProfiler, NoRun, StepRun, FinalizeRun
<1>2. CASE EndTeardown
  BY <1>2 DEF EndTeardown, ControlInv, ModeInv, GateInv, StatusInv, RunningIsTruthful,
              Executing, Dead, TypeOK, Snapshot
<1> QED
  BY <1>1, <1>2

(* Every step keeps the invariant.                                         *)
LEMMA ControlInvStep == TypeOK /\ QueueInv /\ ControlInv /\ [Next]_vars => ControlInv'
<1> SUFFICES ASSUME TypeOK, QueueInv, ControlInv, [Next]_vars PROVE ControlInv'
  OBVIOUS
<1>1. ASSUME NEW t \in Clients, Reply(t) \/ Request(t) PROVE ControlInv'
  <2>1. /\ active' \in {active, NoHold}
        /\ UNCHANGED <<pc, mode, phase, exception, status, snapshot>>
    BY <1>1 DEF Reply, Request, Notify, Release, Wake, OpenGate, Submit, Cancel,
                CheckRelease, Continue
  <2> QED
    BY <2>1, ClientStep
<1>2. CASE UNCHANGED vars
  BY <1>2, ClientStep DEF vars
<1> QED
  BY <1>1, <1>2, LightningStep, HandleStep, WorkStep, PublishStep, LoopStep, EndStep
     DEF Next, Control, Done

-----------------------------------------------------------------------------
(* Every reachable state satisfies the two inductive invariants. *)
THEOREM Invariant == Spec => [](TypeOK /\ QueueInv /\ ControlInv)
<1>1. TypeOK /\ QueueInv /\ ControlInv /\ [Next]_vars => QueueInv' /\ ControlInv'
  BY QueueInvStep, ControlInvStep
<1> QED
  BY <1>1, TypeCorrect, QueueInvInit, ControlInvInit, PTL DEF Spec

(* While a hold or a breakpoint is in force the training thread is inside  *)
(* trainctl's code, with any number of operators pausing and releasing.    *)
THEOREM HeldMeansStoppedTheorem == Spec => []HeldMeansStopped
<1>1. ControlInv => HeldMeansStopped
  BY DEF ControlInv, ModeInv, GateInv, HeldMeansStopped
<1> QED
  BY <1>1, Invariant, PTL

(* No published snapshot calls a held run running. *)
THEOREM RunningIsTruthfulTheorem == Spec => []RunningIsTruthful
<1>1. ControlInv => RunningIsTruthful
  BY DEF ControlInv, StatusInv
<1> QED
  BY <1>1, Invariant, PTL

(* Neither loop ever executes a command its allow-list does not name. *)
THEOREM AllowListTheorem == Spec => []LoopsRunOnlyAllowedKinds
<1>1. QueueInv => LoopsRunOnlyAllowedKinds
  BY DEF QueueInv, AllowedInv, AllowedIn, LoopsRunOnlyAllowedKinds, Kind
<1> QED
  BY <1>1, Invariant, PTL

-----------------------------------------------------------------------------
(***************************************************************************)
(* The queue's action properties.  Only six actions change `commands`.     *)
(***************************************************************************)
LEMMA WhoWritesCommands ==
  ASSUME [Next]_vars
  PROVE  \/ UNCHANGED commands
         \/ StartCommand \/ Record
         \/ \E t \in Clients : Submit(t) \/ Cancel(t)
<1>1. CASE UNCHANGED vars
  BY <1>1 DEF vars
<1>2. CASE Lightning
  BY <1>2 DEF Lightning, BatchStart, Backward, EnterSafePoint, BeginTeardown
<1>3. CASE Control \/ WaitTimeout
  BY <1>3 DEF Control, WaitTimeout, Scan, EndOfWork, Handle, ReadStatus, Publish, Announce, CheckHeld,
              LoopHead, Recheck, WaitWoken, ClearEvent, Resume, AdvanceProfiler, EndTeardown
<1>4. ASSUME NEW t \in Clients, Reply(t) \/ Request(t)
      PROVE  UNCHANGED commands \/ Submit(t) \/ Cancel(t)
  BY <1>4 DEF Reply, Request, Notify, Release, Wake, OpenGate, CheckRelease, Continue
<1> QED
  BY <1>1, <1>2, <1>3, <1>4 DEF Next, Done

(* What one step may do to one entry of the queue. *)
LEMMA OneEntry ==
  ASSUME TypeOK, QueueInv, [Next]_vars, NEW c \in Ids, commands'[c] # commands[c]
  PROVE  \/ commands[c].status = "absent"
         \/ commands[c].status = "queued" /\ commands'[c].status = "cancelled"
         \/ c = current
         \/ StartCommand /\ NextInOrder(c)
<1>1. CASE StartCommand
  BY <1>1 DEF StartCommand, TypeOK
<1>2. CASE Record
  BY <1>2 DEF Record, TypeOK
<1>3. ASSUME NEW t \in Clients, Submit(t) PROVE commands[c].status = "absent"
  <2>1. c = submitted'
    BY <1>3 DEF Submit, TypeOK
  <2>2. c > submitted
    BY <1>3, <2>1, RunControlAssumption DEF Submit, TypeOK, Ids
  <2> QED
    BY <2>2 DEF QueueInv, CurrentInv
<1>4. ASSUME NEW t \in Clients, Cancel(t)
      PROVE  commands[c].status = "queued" /\ commands'[c].status = "cancelled"
  <2>1. PICK d \in Ids : Queued(d) /\ commands' = [commands EXCEPT ![d].status = "cancelled"]
    BY <1>4 DEF Cancel
  <2>2. c = d
    BY <2>1 DEF TypeOK
  <2> QED
    BY <2>1, <2>2 DEF Queued, TypeOK, Command
<1> QED
  BY <1>1, <1>2, <1>3, <1>4, WhoWritesCommands

(* A command that has run keeps its outcome for ever. *)
THEOREM SettledTheorem == Spec => SettledIsFinal
<1>1. ASSUME TypeOK, QueueInv, [Next]_vars, NEW c \in Ids,
             commands[c].status \in {"succeeded", "failed"}
      PROVE  commands'[c] = commands[c]
  <2>1. c # current
    BY <1>1 DEF QueueInv, CurrentInv, Ids, NoId, TypeOK
  <2>2. c \notin work
    BY <1>1 DEF QueueInv, DueListInv
  <2> QED
    BY <1>1, <2>1, <2>2, OneEntry DEF NextInOrder
<1>2. TypeOK /\ QueueInv /\ [Next]_vars =>
        [\A c \in Ids : commands[c].status \in {"succeeded", "failed"}
                          => commands'[c] = commands[c]]_vars
  BY <1>1
<1> QED
  BY <1>2, Invariant, PTL DEF Spec, SettledIsFinal

(* Only the scan fills the due list, and only starting a command takes     *)
(* from it.                                                                *)
LEMMA WhoWritesWork ==
  ASSUME [Next]_vars
  PROVE  UNCHANGED work \/ (Scan /\ work' = Runnable) \/ (StartCommand /\ work' \subseteq work)
<1>1. CASE UNCHANGED vars
  BY <1>1 DEF vars
<1>2. CASE Lightning
  BY <1>2 DEF Lightning, BatchStart, Backward, EnterSafePoint, BeginTeardown
<1>3. CASE Scan \/ StartCommand
  BY <1>3 DEF Scan, StartCommand
<1>4. CASE (Control /\ ~Scan /\ ~StartCommand) \/ WaitTimeout
  BY <1>4 DEF Control, WaitTimeout, Record, EndOfWork, Handle, ReadStatus, Publish, Announce,
              CheckHeld, LoopHead, Recheck, WaitWoken, ClearEvent, Resume, AdvanceProfiler,
              EndTeardown
<1>5. ASSUME NEW t \in Clients, Reply(t) \/ Request(t) PROVE UNCHANGED work
  BY <1>5 DEF Reply, Request, Notify, Release, Wake, OpenGate, CheckRelease, Continue, Submit,
              Cancel, TrainingSide
<1> QED
  BY <1>1, <1>2, <1>3, <1>4, <1>5 DEF Next, Done

(* A cancellation that beats the scan is final. *)
THEOREM CancelTheorem == Spec => CancelStopsUntakenCommands
<1>1. ASSUME TypeOK, QueueInv, [Next]_vars, NEW c \in Ids,
             commands[c].status = "cancelled", c \notin work, c # current
      PROVE  commands'[c].status = "cancelled" /\ c \notin work'
  <2>1. c \notin Runnable
    BY <1>1 DEF Runnable, Due, Queued
  <2>2. c \notin work'
    BY <1>1, <2>1, WhoWritesWork
  <2> QED
    BY <1>1, <2>2, OneEntry DEF NextInOrder
<1>2. TypeOK /\ QueueInv /\ [Next]_vars =>
        [\A c \in Ids : commands[c].status = "cancelled" /\ c \notin work /\ c # current
                          => commands'[c].status = "cancelled" /\ c \notin work']_vars
  BY <1>1
<1> QED
  BY <1>2, Invariant, PTL DEF Spec, CancelStopsUntakenCommands

(* No command starts before an older one that could run at the same point. *)
THEOREM OrderTheorem == Spec => ServedInSubmissionOrder
<1>1. ASSUME TypeOK, QueueInv, [Next]_vars, NEW c \in Ids, NEW d \in Ids,
             commands[c].status # "executing", commands'[c].status = "executing", d < c
      PROVE  d \notin Runnable
  <2>1. c # current \/ ~Record
    BY <1>1 DEF Record, TypeOK, Command
  <2>2. StartCommand /\ NextInOrder(c)
    <3>1. CASE StartCommand
      BY <1>1, <3>1 DEF StartCommand, TypeOK
    <3>2. CASE Record
      BY <1>1, <2>1, <3>2 DEF Record, TypeOK
    <3>3. ASSUME NEW t \in Clients, Submit(t) \/ Cancel(t) PROVE FALSE
      BY <1>1, <3>3 DEF Submit, Cancel, TypeOK, Command
    <3> QED
      BY <1>1, <3>1, <3>2, <3>3, WhoWritesCommands
  <2>3. c \in work /\ d \notin work
    BY <1>1, <2>2 DEF NextInOrder, Ids
  <2> QED
    BY <1>1, <2>3 DEF QueueInv, DueListInv
<1>2. TypeOK /\ QueueInv /\ [Next]_vars =>
        [\A c, d \in Ids :
           /\ commands[c].status # "executing" /\ commands'[c].status = "executing"
           /\ d < c
           => d \notin Runnable]_vars
  BY <1>1
<1> QED
  BY <1>2, Invariant, PTL DEF Spec, ServedInSubmissionOrder

-----------------------------------------------------------------------------
(***************************************************************************)
(* No wakeup is lost: the safety half of NowIsServed and of the resumption *)
(* ImplementsHoldProtocol promises, whose fairness TLC alone can judge.    *)
(***************************************************************************)
Loops == {"hold", "exception"}

(* From the scan of a loop's pass to the end of its wait. *)
Looked == Executing \cup {"publish", "recheck", "wait"}

(* What a pass of a loop has not taken, and what it did not see end, came  *)
(* after it looked, and whoever brought it has set the event or is about   *)
(* to.                                                                     *)
WakeInv ==
  /\ mode \in Loops /\ pc \in Looked => \A c \in Runnable : c \in work \/ Told
  /\ pc = "wait" => Blocked \/ Told

(* Nothing a step does to the control code or the queue outside of a pass. *)
LEMMA UnlookedStep == ASSUME pc' \notin Looked PROVE WakeInv'
  BY DEF WakeInv, Looked

(* A step of the training thread between its scan and its wait, which      *)
(* brings no command and takes no word back.                               *)
LEMMA PassStep ==
  ASSUME WakeInv, mode \in Loops => pc \in Looked, UNCHANGED mode, Told => Told',
         Runnable' \subseteq Runnable, Runnable' \cap work \subseteq work',
         pc' = "wait" => (Blocked => Blocked') /\ (pc # "wait" => Blocked)
  PROVE  WakeInv'
  BY DEF WakeInv

(* Waiting and clearing come after a pass, whose scan takes all there is.  *)
LEMMA WakeStep ==
  ASSUME TypeOK, QueueInv, ControlInv, WakeInv, Control \/ WaitTimeout
  PROVE  WakeInv'
<1>1. CASE Scan
  <2>1. CASE DueRaises(ScoredAt)
    BY <1>1, <2>1, UnlookedStep DEF Scan, Looked, Executing
  <2>2. CASE ~DueRaises(ScoredAt)
    <3>1. work' = Runnable /\ pc' = "pick" /\ UNCHANGED <<commands, phase, mode, epoch, step>>
      BY <1>1, <2>2 DEF Scan
    <3>2. Runnable' = Runnable
      BY <3>1 DEF Runnable, Due, ScoredAt, Queued
    <3> QED
      BY <3>1, <3>2 DEF WakeInv
  <2> QED
    BY <2>1, <2>2
<1>2. CASE StartCommand
  <2>1. PICK c \in Ids : /\ work' = work \ {c}
                         /\ commands' = [commands EXCEPT ![c].status = "executing"]
    BY <1>2 DEF StartCommand
  <2>2. /\ pc = "pick" /\ pc' = "handle"
        /\ UNCHANGED <<phase, mode, epoch, step, controlEvent, client>>
    BY <1>2 DEF StartCommand
  <2>3. /\ \A d \in Ids : d # c => commands'[d] = commands[d]
        /\ commands'[c].status = "executing"
    BY <2>1 DEF TypeOK, Command
  <2>4. Runnable' \subseteq Runnable \ {c}
    BY <2>2, <2>3 DEF Runnable, Due, ScoredAt, Queued
  <2>5. Told' = Told
    BY <2>2 DEF Told
  <2> QED
    BY <2>1, <2>2, <2>4, <2>5, PassStep DEF Looked, Executing
<1>3. CASE Record
  <2>1. /\ pc = "record" /\ pc' = "pick"
        /\ commands' = [commands EXCEPT ![current].status = outcome]
        /\ UNCHANGED <<phase, mode, epoch, step, work, controlEvent, client>>
    BY <1>3 DEF Record
  <2>2. /\ current \in Ids
        /\ \A d \in Ids : d # current => commands'[d] = commands[d]
        /\ commands'[current].status \in {"succeeded", "failed"}
    BY <2>1 DEF QueueInv, CurrentInv, TypeOK, Command
  <2>3. Runnable' \subseteq Runnable
    BY <2>1, <2>2 DEF Runnable, Due, ScoredAt, Queued
  <2>4. Told' = Told
    BY <2>1 DEF Told
  <2> QED
    BY <2>1, <2>3, <2>4, PassStep DEF Looked, Executing
<1>4. CASE EndOfWork \/ Handle
  <2>1. /\ pc \in Executing /\ pc' # "wait"
        /\ UNCHANGED <<commands, phase, mode, epoch, step, work, controlEvent, client>>
    BY <1>4 DEF EndOfWork, Handle, Executing
  <2>2. Runnable' = Runnable /\ Told' = Told
    BY <2>1 DEF Runnable, Due, ScoredAt, Queued, Told
  <2> QED
    BY <2>1, <2>2, PassStep DEF Looked
<1>5. CASE Publish \/ Recheck
  <2>1. /\ pc \in Looked /\ pc # "wait" /\ (pc' = "wait" => Blocked)
        /\ UNCHANGED <<commands, phase, mode, epoch, step, work, controlEvent, client, exception,
                       active>>
    BY <1>5 DEF Publish, Recheck, Looked
  <2>2. Runnable' = Runnable /\ Told' = Told /\ Blocked' = Blocked
    BY <2>1 DEF Runnable, Due, ScoredAt, Queued, Told, Blocked
  <2> QED
    BY <2>1, <2>2, PassStep
<1>6. CASE ReadStatus \/ CheckHeld
  <2>1. mode' \in Loops => pc' \notin Looked
    BY <1>6 DEF ReadStatus, CheckHeld, LeaveControl, ControlInv, ModeInv, Loops, Looked, Executing
  <2>2. pc' # "wait"
    BY <1>6 DEF ReadStatus, CheckHeld, LeaveControl
  <2> QED
    BY <2>1, <2>2 DEF WakeInv
<1>7. CASE Announce \/ LoopHead \/ WaitWoken \/ WaitTimeout \/ ClearEvent \/ Resume
           \/ AdvanceProfiler \/ EndTeardown
  <2>1. pc' \notin Looked
    BY <1>7 DEF Announce, LoopHead, WaitWoken, WaitTimeout, ClearEvent, Resume, AdvanceProfiler,
                EndTeardown, NoRun, StepRun, FinalizeRun, LeaveControl, Looked, Executing
  <2> QED
    BY <2>1, UnlookedStep
<1> QED
  BY <1>1, <1>2, <1>3, <1>4, <1>5, <1>6, <1>7 DEF Control

(* A request brings a command or opens the gate only together with the     *)
(* obligation to tell.                                                     *)
LEMMA TellStep ==
  ASSUME TypeOK, WakeInv, NEW t \in Clients, Reply(t) \/ Request(t)
  PROVE  WakeInv'
<1>1. UNCHANGED <<phase, pc, mode, epoch, step, work, exception>>
  BY DEF Reply, Request, Notify, Release, Wake, OpenGate, Submit, Cancel, CheckRelease, Continue
<1>2. CASE Submit(t) \/ Notify(t) \/ Wake(t)
  <2>1. Told'
    BY <1>2 DEF Submit, Notify, Wake, SetEvent, Told, TypeOK, Idle
  <2> QED
    BY <2>1 DEF WakeInv
<1>3. CASE Cancel(t)
  <2>1. PICK c \in Ids : commands' = [commands EXCEPT ![c].status = "cancelled"]
    BY <1>3 DEF Cancel
  <2>2. /\ \A d \in Ids : d # c => commands'[d] = commands[d]
        /\ commands'[c].status = "cancelled"
    BY <2>1 DEF TypeOK, Command
  <2>3. Runnable' \subseteq Runnable
    BY <1>1, <2>2 DEF Runnable, Due, ScoredAt, Queued
  <2>4. Told' = Told /\ Blocked' = Blocked
    BY <1>1, <1>3 DEF Cancel, Told, Blocked
  <2> QED
    BY <1>1, <2>3, <2>4 DEF WakeInv
<1>4. CASE CheckRelease(t) \/ Release(t) \/ Continue(t)
  <2>1. commands' = commands
    BY <1>4 DEF CheckRelease, Release, Continue, OpenGate
  <2>2. Runnable' = Runnable
    BY <1>1, <2>1 DEF Runnable, Due, ScoredAt, Queued
  <2>3. Told => Told'
    BY <1>4 DEF CheckRelease, Release, Continue, OpenGate, Told, TypeOK, Idle
  <2>4. Blocked => Blocked' \/ Told'
    BY <1>1, <1>4 DEF CheckRelease, Release, Continue, OpenGate, Told, TypeOK, Idle, Blocked
  <2> QED
    BY <1>1, <2>2, <2>3, <2>4 DEF WakeInv
<1> QED
  BY <1>2, <1>3, <1>4 DEF Reply, Request

(* No wakeup is lost, whoever submits, cancels and releases while a loop   *)
(* decides to wait: a missed event costs no more than the time until the   *)
(* handler that is already on its way sets it.                             *)
THEOREM NoWakeupIsLostTheorem == Spec => []NoWakeupIsLost
<1>1. Init => WakeInv
  BY DEF Init, WakeInv, Loops
<1>2. TypeOK /\ QueueInv /\ ControlInv /\ WakeInv /\ [Next]_vars => WakeInv'
  <2> SUFFICES ASSUME TypeOK, QueueInv, ControlInv, WakeInv, [Next]_vars PROVE WakeInv'
    OBVIOUS
  <2>1. CASE UNCHANGED vars
    <3>1. Runnable' = Runnable /\ Told' = Told /\ Blocked' = Blocked
      BY <2>1 DEF vars, Runnable, Due, ScoredAt, Queued, Told, Blocked
    <3> QED
      BY <2>1, <3>1 DEF vars, WakeInv
  <2>2. CASE Lightning
    <3>1. pc' \notin Looked
      BY <2>2 DEF Lightning, BatchStart, Backward, EnterSafePoint, BeginTeardown, Begin, Looked,
                  Executing
    <3> QED
      BY <3>1, UnlookedStep
  <2> QED
    BY <2>1, <2>2, WakeStep, TellStep DEF Next, Done
<1>3. QueueInv /\ ControlInv /\ WakeInv => NoWakeupIsLost
  BY DEF QueueInv, DueListInv, ControlInv, ModeInv, WakeInv, NoWakeupIsLost, Looked, Executing,
         Loops
<1> QED
  BY <1>1, <1>2, <1>3, Invariant, PTL DEF Spec

-----------------------------------------------------------------------------
(***************************************************************************)
(* RunControl implements HoldProtocol.                                     *)
(***************************************************************************)

(* What is in force, as HoldProtocol sees it. *)
LEMMA HoldFacts ==
  ASSUME TypeOK
  PROVE  /\ HoldInForce = NoHold <=> active = NoHold /\ ~exception
         /\ ExceptionHold # NoHold /\ ExceptionHold \notin Holds /\ NoHold \notin Holds
         /\ AnomalyHold \in Holds /\ ProfilerHold \in Holds
  BY RunControlAssumption DEF HoldInForce, ExceptionHold, NoHold, NoId, Holds, Ids, AnomalyHold,
     ProfilerHold, TypeOK

(* Leaving the control code is a Resume, or for batch_end not yet a step. *)
LEMMA ReturnRefines ==
  ASSUME TypeOK, ControlInv, pc # "training", LeaveControl, active = NoHold, ~exception,
         UNCHANGED <<active, exception>>
  PROVE  [Protocol!Next]_(Protocol!vars)
<1>1. phase \notin Dead /\ RunState = "paused" /\ HoldInForce = NoHold /\ HoldInForce' = NoHold
  BY DEF ControlInv, ModeInv, RunState, HoldInForce
<1>2. RunState' \in {"running", "over", "paused"}
  BY DEF RunState
<1>3. CASE RunState' = "paused"
  BY <1>1, <1>3 DEF Protocol!vars
<1>4. CASE RunState' \in {"running", "over"}
  BY <1>1, <1>4 DEF Protocol!Next, Protocol!Resume
<1> QED
  BY <1>2, <1>3, <1>4

(* A step inside the control code that keeps what is in force. *)
LEMMA StutterRefines ==
  ASSUME UNCHANGED <<active, exception>>,
         \/ UNCHANGED <<pc, phase>>
         \/ pc # "training" /\ pc' # "training" /\ UNCHANGED phase
  PROVE  [Protocol!Next]_(Protocol!vars)
  BY DEF Protocol!vars, RunState, HoldInForce

(* A hook called by Lightning pauses the run, ends it, or shows nothing.   *)
LEMMA LightningRefines ==
  ASSUME TypeOK, ControlInv, Lightning PROVE [Protocol!Next]_(Protocol!vars)
<1>1. pc = "training" /\ mode = "none" /\ active = NoHold /\ ~exception /\ phase \notin Dead
  BY DEF Lightning, BatchStart, Backward, EnterSafePoint, BeginTeardown, Begin, ControlInv, ModeInv,
         GateInv, Dead, AtSafePoint, SafePointOf
<1>2. RunState = "running" /\ HoldInForce = NoHold
  BY <1>1 DEF RunState, HoldInForce
<1>3. CASE pc' = "training" /\ UNCHANGED <<active, exception>>
  <2>1. HoldInForce' = HoldInForce /\ RunState' \in {"running", "over"}
    BY <1>3 DEF HoldInForce, RunState
  <2> QED
    BY <1>2, <2>1 DEF Protocol!vars, Protocol!Next, Protocol!Fail
<1>4. CASE /\ pc' # "training" /\ UNCHANGED phase
           /\ HoldInForce' \in Holds \cup {ExceptionHold} \cup {NoHold}
  <2>1. RunState' = "paused"
    BY <1>1, <1>4 DEF RunState
  <2> QED
    BY <1>2, <1>4, <2>1 DEF Protocol!Next, Protocol!Pause
<1>5. CASE BatchStart
  BY <1>1, <1>3, <1>4, <1>5, HoldFacts DEF BatchStart, HoldInForce
<1>6. CASE Backward
  BY <1>1, <1>3, <1>4, <1>6 DEF Backward, HoldInForce
<1>7. CASE EnterSafePoint \/ BeginTeardown
  BY <1>1, <1>4, <1>7 DEF EnterSafePoint, BeginTeardown, HoldInForce
<1> QED
  BY <1>5, <1>6, <1>7 DEF Lightning

(* A handler engages or releases a hold, or shows nothing.                 *)
LEMMA HandleRefines ==
  ASSUME TypeOK, QueueInv, ControlInv, Handle PROVE [Protocol!Next]_(Protocol!vars)
<1>1. /\ pc = "handle" /\ pc' = "record" /\ UNCHANGED <<phase, mode>>
  BY DEF Handle
<1>2. RunState = "paused" /\ RunState' = "paused"
  BY <1>1 DEF RunState, ControlInv, ModeInv
<1>3. current \in Holds /\ current # NoId
  BY <1>1 DEF QueueInv, CurrentInv, Ids, NoId, Holds
<1>4. mode = "exception" => Kind \in AllowedDuringException
  BY <1>3 DEF QueueInv, AllowedInv, AllowedIn, Kind
<1>5. CASE HandleHold \/ HandleTorchlens
  <2>1. mode # "exception" /\ ~exception /\ UNCHANGED exception
    BY <1>4, <1>5 DEF HandleHold, HandleTorchlens, AllowedDuringException, ControlInv, GateInv
  <2>2. UNCHANGED active \/ active' = current
    BY <1>5 DEF HandleHold, HandleTorchlens
  <2>3. UNCHANGED HoldInForce \/ HoldInForce' \in Holds
    BY <1>3, <2>1, <2>2 DEF HoldInForce
  <2> QED
    BY <1>2, <2>3 DEF Protocol!vars, Protocol!Next, Protocol!Engage
<1>6. CASE HandleReleaseException
  <2>1. CASE exception
    <3>1. HoldInForce # NoHold /\ HoldInForce' = NoHold
      BY <1>6, <2>1, HoldFacts DEF HandleReleaseException, ControlInv, GateInv, HoldInForce
    <3> QED
      BY <1>2, <3>1 DEF Protocol!Next, Protocol!Release
  <2>2. CASE ~exception
    BY <1>2, <1>6, <2>2 DEF HandleReleaseException, HoldInForce, Protocol!vars
  <2> QED
    BY <2>1, <2>2
<1>7. CASE HandleStop \/ HandleFiniteCheck \/ HandleProfile \/ HandleOther
  BY <1>1, <1>7, StutterRefines DEF HandleStop, HandleFiniteCheck, HandleProfile, HandleOther
<1> QED
  BY <1>5, <1>6, <1>7 DEF Handle

(* The control code engages, releases and resumes as HoldProtocol does.    *)
LEMMA ControlRefines ==
  ASSUME TypeOK, QueueInv, ControlInv, Control \/ WaitTimeout
  PROVE  [Protocol!Next]_(Protocol!vars)
<1>1. CASE Scan
  <2>1. CASE DueRaises(ScoredAt)
    <3>1. /\ pc = "scan" /\ mode = "safe_point" /\ active = NoHold /\ ~exception
          /\ UNCHANGED <<active, exception>> /\ phase \notin Dead
      BY <1>1, <2>1 DEF Scan, DueRaises, IsDueRaises, ScoredAt, ControlInv, GateInv, ModeInv
    <3>2. RunState = "paused" /\ RunState' \in {"paused", "over"} /\ HoldInForce = NoHold
          /\ HoldInForce' = NoHold
      BY <1>1, <2>1, <3>1 DEF Scan, RunState, HoldInForce, Dead
    <3> QED
      BY <3>2 DEF Protocol!vars, Protocol!Next, Protocol!Resume
  <2>2. CASE ~DueRaises(ScoredAt)
    BY <1>1, <2>2, StutterRefines DEF Scan
  <2> QED
    BY <2>1, <2>2
<1>2. CASE StartCommand \/ EndOfWork \/ Record \/ ReadStatus \/ Publish \/ Announce \/ LoopHead
           \/ Recheck \/ WaitWoken \/ WaitTimeout \/ ClearEvent
  <2>1. UNCHANGED <<active, exception, phase>> /\ pc # "training" /\ pc' # "training"
    BY <1>2 DEF StartCommand, EndOfWork, Record, ReadStatus, Publish, Announce, LoopHead, Recheck,
                WaitWoken, WaitTimeout, ClearEvent
  <2> QED
    BY <2>1, StutterRefines
<1>3. CASE Handle
  BY <1>3, HandleRefines
<1>4. CASE CheckHeld
  <2>1. pc = "check" /\ ~exception /\ UNCHANGED <<active, exception>>
    BY <1>4 DEF CheckHeld, ControlInv, ModeInv, GateInv
  <2>2. CASE GateOpen /\ LeaveControl
    BY <2>1, <2>2, ReturnRefines DEF GateOpen
  <2>3. CASE pc' = "loop" /\ UNCHANGED phase
    BY <2>1, <2>3, StutterRefines
  <2> QED
    BY <1>4, <2>2, <2>3 DEF CheckHeld
<1>5. CASE Resume
  BY <1>5, ReturnRefines DEF Resume, ControlInv, GateInv
<1>6. CASE AdvanceProfiler
  <2>1. pc = "finish" /\ active = NoHold /\ ~exception /\ UNCHANGED exception /\ phase \notin Dead
    BY <1>6 DEF AdvanceProfiler, ControlInv, ModeInv, GateInv
  <2>2. CASE LeaveControl /\ UNCHANGED active
    BY <2>1, <2>2, ReturnRefines
  <2>3. CASE active' = ProfilerHold /\ pc' = "announce" /\ UNCHANGED phase
    <3>1. RunState = "paused" /\ RunState' = "paused" /\ HoldInForce' \in Holds
      BY <2>1, <2>3, HoldFacts DEF RunState, HoldInForce
    <3> QED
      BY <3>1 DEF Protocol!Next, Protocol!Engage
  <2> QED
    BY <1>6, <2>2, <2>3 DEF AdvanceProfiler, NoRun, StepRun, FinalizeRun
<1>7. CASE EndTeardown
  <2>1. /\ RunState = "paused" /\ HoldInForce = NoHold /\ RunState' = "over" /\ HoldInForce' = NoHold
    BY <1>7 DEF EndTeardown, ControlInv, ModeInv, GateInv, RunState, HoldInForce, Dead
  <2> QED
    BY <2>1 DEF Protocol!Next, Protocol!Resume
<1> QED
  BY <1>1, <1>2, <1>3, <1>4, <1>5, <1>6, <1>7 DEF Control

(* A request can only release a hold.                                      *)
LEMMA ClientRefines ==
  ASSUME TypeOK, ControlInv, NEW t \in Clients, Reply(t) \/ Request(t)
  PROVE  [Protocol!Next]_(Protocol!vars)
<1>1. UNCHANGED <<pc, phase, exception>>
  BY DEF Reply, Request, Notify, Release, Wake, OpenGate, Submit, Cancel,
         CheckRelease, Continue
<1>2. CASE UNCHANGED active
  BY <1>1, <1>2, StutterRefines
<1>3. CASE active' = NoHold /\ active # NoHold
  <2>1. RunState' = RunState /\ ~exception
    BY <1>1, <1>3 DEF RunState, ControlInv, GateInv
  <2>2. HoldInForce # NoHold /\ HoldInForce' = NoHold
    BY <1>1, <1>3, <2>1 DEF HoldInForce
  <2> QED
    BY <2>1, <2>2 DEF Protocol!Next, Protocol!Release
<1>4. active' \in {active, NoHold}
  BY DEF Reply, Request, Notify, Release, Wake, OpenGate, Submit, Cancel,
         CheckRelease, Continue
<1> QED
  BY <1>2, <1>3, <1>4

(* Queue, loops and handler threads together implement the abstract hold   *)
(* protocol's safety part; its fairness is checked by TLC.                 *)
THEOREM Refinement == Spec => Protocol!Safety
<1>1. Init => Protocol!Init
  BY DEF Init, Protocol!Init, RunState, HoldInForce, Dead
<1>2. TypeOK /\ QueueInv /\ ControlInv /\ [Next]_vars => [Protocol!Next]_(Protocol!vars)
  <2> SUFFICES ASSUME TypeOK, QueueInv, ControlInv, [Next]_vars
               PROVE  [Protocol!Next]_(Protocol!vars)
    OBVIOUS
  <2>1. CASE UNCHANGED vars
    BY <2>1, StutterRefines DEF vars
  <2> QED
    BY <2>1, LightningRefines, ControlRefines, ClientRefines DEF Next, Done
<1> QED
  BY <1>1, <1>2, Invariant, PTL DEF Spec, Protocol!Safety
=============================================================================
