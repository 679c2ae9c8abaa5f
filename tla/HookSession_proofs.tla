-------------------------- MODULE HookSession_proofs --------------------------
(***************************************************************************)
(* Proofs about HookSession, for any number of processes, scripts,         *)
(* callbacks and stages.                                                   *)
(***************************************************************************)
EXTENDS HookSession, TLAPS

(* NothingIsLeft needs to know that only an open session dispatches;       *)
(* LoggingIsOwned that a run file's sink is the open session's, or one     *)
(* that a failed set-up has left.                                          *)
SessionInv ==
  \A r \in Ranks : pc[r] # "idle" => session[r] # 0

SinkInv ==
  \A r \in Ranks : sinks[r] \subseteq failed[r] \cup {session[r]}

IInv == TypeOK /\ SessionInv /\ SinkInv /\ LoggingIsOwned /\ NothingIsLeft

USE HookSessionAssumption DEF tree, position, invocation, logging, Set, Goto, Call, Leave, GoIdle

(* The initial states satisfy the invariant.                               *)
LEMMA IInvInit == Init => IInv
<1> SUFFICES ASSUME Init PROVE IInv
  OBVIOUS
<1>1. root \in BOOLEAN /\ killed \in BOOLEAN
  BY DEF Init
<1>2. exportable \in [Ranks -> BOOLEAN] /\ unreported \in [Ranks -> BOOLEAN]
  BY DEF Init
<1>3. /\ sinks \in [Ranks -> SUBSET Sessions] /\ failed \in [Ranks -> SUBSET Sessions]
      /\ setups \in [Ranks -> 0 .. MaxSetups]
  BY DEF Init
<1>4. TypeOK
  BY <1>1, <1>2, <1>3 DEF Init, TypeOK, Callbacks, Modalities
<1> QED
  BY <1>4 DEF Init, IInv, SessionInv, SinkInv, LoggingIsOwned, NothingIsLeft

(* A stage's beginning: what install and attach give, and what stays of it *)
(* when a later step raises.                                               *)
LEMMA SetUpStep ==
  ASSUME IInv, NEW r \in Ranks, Open(r) \/ Overlap(r) \/ SetUpFails(r)
  PROVE  IInv'
<1> USE DEF IInv, SessionInv, SinkInv, LoggingIsOwned, NothingIsLeft, CanSetUp, Begun, LoggersAreFree
<1>1. Begun(r) \in Sessions /\ Begun(r) \in 1 .. MaxSetups
  BY DEF Open, Overlap, SetUpFails, TypeOK, Sessions
<1>2. TypeOK'
  <2>1. CASE Open(r)
    BY <1>1, <2>1 DEF Open, TypeOK, Callbacks, Modalities
  <2>2. CASE Overlap(r)
    BY <1>1, <2>2 DEF Overlap, TypeOK
  <2>3. CASE SetUpFails(r)
    BY <1>1, <2>3 DEF SetUpFails, TypeOK
  <2> QED
    BY <2>1, <2>2, <2>3
<1>3. CASE Open(r)
  BY <1>1, <1>2, <1>3 DEF Open, TypeOK
<1>4. CASE Overlap(r)
  BY <1>1, <1>2, <1>4 DEF Overlap, TypeOK
<1>5. CASE SetUpFails(r)
  BY <1>1, <1>2, <1>5 DEF SetUpFails, TypeOK
<1> QED
  BY <1>3, <1>4, <1>5

(* What a dispatch does to its own process: it neither opens nor closes a  *)
(* session, and moves within the callbacks of one.                         *)
LEMMA MoveType ==
  ASSUME TypeOK, NEW r \in Ranks,
         \/ \E p \in {"stage", "check", "build", "recheck", "mkdir", "write", "run", "log"} : Goto(r, p)
         \/ NextModality(r) \/ Return(r) \/ Raise(r)
         \/ \E h \in Callbacks : Call(r, h)
  PROVE  /\ pc' \in [Ranks -> {"idle", "stage", "handle", "check", "build", "recheck", "mkdir",
                                "write", "run", "log", "finalize"}]
         /\ hook' \in [Ranks -> Callbacks] /\ modality' \in [Ranks -> Modalities]
         /\ \A q \in Ranks \ {r} : pc'[q] = pc[q]
BY DEF TypeOK, NextModality, Return, Raise, RaiseAgain, Callbacks, Modalities

(* A callback dispatched on a rank.                                        *)
LEMMA DispatchStep ==
  ASSUME IInv, NEW r \in Ranks, Dispatch(r) \/ \E h \in Callbacks : Fire(r, h)
  PROVE  IInv'
<1> USE DEF IInv, SessionInv, SinkInv, LoggingIsOwned, NothingIsLeft
<1>1. CASE Skip(r)
  BY <1>1, MoveType DEF Skip, TypeOK, Return
<1>2. CASE Handle(r)
  BY <1>2, MoveType DEF Handle, TypeOK
<1>3. CASE MkdirFails(r)
  BY <1>3, MoveType DEF MkdirFails, TypeOK, Raise
<1>4. CASE Check(r)
  BY <1>4, MoveType DEF Check, TypeOK, NextModality, Return
<1>5. CASE Build(r)
  <2>1. exportable' \in [Ranks -> BOOLEAN]
    BY <1>5 DEF Build, TypeOK
  <2>2. UNCHANGED <<unreported, dir, root, killed, session, bridge, sinks, failed, setups, policy, enabled>>
    BY <1>5 DEF Build
  <2>3. pc' = [pc EXCEPT ![r] = "recheck"] /\ pc[r] = "build" /\ UNCHANGED <<hook, modality>>
    BY <1>5 DEF Build
  <2> QED
    BY <2>1, <2>2, <2>3 DEF TypeOK
<1>6. CASE Recheck(r)
  <2>1. exportable' \in [Ranks -> BOOLEAN]
    BY <1>6 DEF Recheck, TypeOK
  <2>2. UNCHANGED <<dir, root, killed, session, bridge, sinks, failed, setups, policy, enabled>>
    BY <1>6 DEF Recheck
  <2>3. CASE UNCHANGED unreported /\ (NextModality(r) \/ Goto(r, "mkdir"))
    <3>1. \A q \in Ranks : ~unreported'[q] \/ (q # r /\ unreported[q])
      BY <1>6, <2>3 DEF Recheck, TypeOK
    <3> QED
      BY <1>6, <2>1, <2>2, <2>3, <3>1, MoveType DEF Recheck, TypeOK, NextModality, Return
  <2>4. CASE Goto(r, "log") /\ Set(unreported, r, TRUE)
    BY <1>6, <2>1, <2>2, <2>4 DEF Recheck, TypeOK
  <2> QED
    BY <1>6, <2>3, <2>4 DEF Recheck
<1>7. CASE Mkdir(r)
  BY <1>7, MoveType DEF Mkdir, TypeOK
<1>8. CASE Write(r)
  BY <1>8, MoveType DEF Write, TypeOK
<1>9. CASE WriteFails(r)
  BY <1>9, MoveType DEF WriteFails, TypeOK, Raise, RemovedAfterRaise, Removed
<1>10. CASE Run(r)
  BY <1>10, MoveType DEF Run, TypeOK, NextModality, Return, Removed, Ends, IsFailure
<1>11. CASE RunInterrupted(r)
  BY <1>11, MoveType DEF RunInterrupted, TypeOK, Raise, RemovedAfterRaise, Removed
<1>12. CASE LogFailure(r)
  BY <1>12, MoveType DEF LogFailure, TypeOK, NextModality, Return
<1>13. ASSUME NEW h \in Callbacks, Fire(r, h) PROVE IInv'
  BY <1>13, MoveType DEF Fire, TypeOK
<1>14. CASE Finalize(r)
  <2>1. TypeOK'
    <3>1. root' \in BOOLEAN /\ killed' \in BOOLEAN
      BY <1>14 DEF Finalize
    <3>2. dir' \in [Ranks -> {"absent", "empty", "filled"}] /\ sinks' \in [Ranks -> SUBSET Sessions]
      BY <1>14 DEF Finalize, TypeOK
    <3> QED
      BY <1>14, <3>1, <3>2 DEF Finalize, Restored, TypeOK, Callbacks, Modalities
  <2> QED
    BY <1>14, <2>1 DEF Finalize, Restored, TypeOK
<1> QED
  BY <1>1, <1>2, <1>3, <1>4, <1>5, <1>6, <1>7, <1>8, <1>9, <1>10, <1>11, <1>12, <1>13, <1>14 DEF Dispatch

(* A rank that is killed.                                                  *)
LEMMA KillStep ==
  ASSUME IInv, NEW r \in Ranks, Kill(r)
  PROVE  IInv'
<1> USE DEF IInv, SessionInv, SinkInv, LoggingIsOwned, NothingIsLeft, Kill
<1>1. exportable' \in [Ranks -> BOOLEAN] /\ unreported' \in [Ranks -> BOOLEAN] /\ killed' \in BOOLEAN
  BY DEF TypeOK
<1>2. TypeOK'
  BY <1>1 DEF TypeOK, Callbacks, Modalities
<1>3. \A q \in Ranks : unreported'[q] => q # r /\ unreported[q]
  BY DEF TypeOK
<1> QED
  BY <1>2, <1>3 DEF TypeOK

(* Every step keeps the invariant.                                         *)
LEMMA IInvStep == IInv /\ [Next]_vars => IInv'
<1> SUFFICES ASSUME IInv, [Next]_vars PROVE IInv'
  OBVIOUS
<1>1. ASSUME NEW r \in Ranks, Stage(r) PROVE IInv'
  BY <1>1, SetUpStep, DispatchStep DEF Stage, Callbacks
<1>2. ASSUME NEW r \in Ranks, Dispatch(r) PROVE IInv'
  BY <1>2, DispatchStep
<1>3. ASSUME NEW r \in Ranks, Kill(r) PROVE IInv'
  BY <1>3, KillStep
<1>4. ASSUME NEW script \in Scripts, Chmod(script) PROVE IInv'
  <2>1. enabled' \subseteq Scripts
    BY <1>4 DEF Chmod, IInv, TypeOK
  <2> QED
    BY <1>4, <2>1 DEF Chmod, invocation, IInv, TypeOK, SessionInv, SinkInv, LoggingIsOwned, NothingIsLeft
<1>5. CASE UNCHANGED vars
  BY <1>5 DEF vars, IInv, TypeOK, SessionInv, SinkInv, LoggingIsOwned, NothingIsLeft
<1> QED
  BY <1>1, <1>2, <1>3, <1>4, <1>5 DEF Next, Done

-----------------------------------------------------------------------------
(* The inductive invariant, types included, for any number of processes.   *)
THEOREM Invariant == Spec => []IInv
  BY IInvInit, IInvStep, PTL DEF Spec

(* However set-ups fail and sessions follow each other, an open session    *)
(* has the loggers and its run file, and a closed one has given them back. *)
THEOREM LoggingIsOwnedTheorem == Spec => []LoggingIsOwned
<1>1. IInv => LoggingIsOwned
  BY DEF IInv
<1> QED
  BY <1>1, Invariant, PTL

(* Whichever callbacks raise and whoever closes first, no temporary        *)
(* directory outlives what it is for, and no failure goes unlogged.        *)
THEOREM NothingIsLeftTheorem == Spec => []NothingIsLeft
<1>1. IInv => NothingIsLeft
  BY DEF IInv
<1> QED
  BY <1>1, Invariant, PTL

(* A script's input is taken away under it only by another rank's close.   *)
THEOREM OnlyACloseTakesAwayTheorem == Spec => OnlyACloseTakesAway
<1> DEFINE Taken(r) == /\ pc[r] = "run" /\ dir[r] = "filled"
                       /\ pc'[r] = "run" /\ dir'[r] # "filled"
           Closed(r) == \E q \in Ranks \ {r} : pc[q] = "finalize" /\ pc'[q] = "idle"
<1>1. ASSUME IInv, [Next]_vars, NEW r \in Ranks, Taken(r) PROVE Closed(r)
  <2> USE <1>1 DEF IInv, TypeOK
  <2>1. ASSUME NEW q \in Ranks, Open(q) \/ Overlap(q) \/ SetUpFails(q) PROVE FALSE
    BY <2>1 DEF Open, Overlap, SetUpFails, invocation
  <2>2. ASSUME NEW q \in Ranks, Kill(q) PROVE FALSE
    BY <2>2 DEF Kill
  <2>3. ASSUME NEW q \in Ranks, Finalize(q) PROVE Closed(r)
    BY <2>3 DEF Finalize
  <2>4. ASSUME NEW q \in Ranks, NEW h \in Callbacks, Fire(q, h) PROVE FALSE
    BY <2>4 DEF Fire, invocation
  <2>5. ASSUME NEW q \in Ranks,
               \/ Skip(q) \/ Handle(q) \/ MkdirFails(q) \/ Check(q) \/ Build(q)
               \/ Recheck(q) \/ LogFailure(q)
        PROVE  FALSE
    BY <2>5 DEF Skip, Handle, MkdirFails, Check, Build, Recheck, LogFailure, invocation
  <2>6. ASSUME NEW q \in Ranks, Mkdir(q) \/ Write(q) PROVE FALSE
    BY <2>6 DEF Mkdir, Write
  <2>7. ASSUME NEW q \in Ranks, WriteFails(q) \/ RunInterrupted(q) PROVE FALSE
    BY <2>7 DEF WriteFails, RunInterrupted, Raise, RemovedAfterRaise, Removed
  <2>8. ASSUME NEW q \in Ranks, Run(q) PROVE FALSE
    BY <2>8 DEF Run, NextModality, Return, Removed
  <2>9. ASSUME NEW script \in Scripts, Chmod(script) PROVE FALSE
    BY <2>9 DEF Chmod, invocation
  <2>10. CASE UNCHANGED vars
    BY <2>10 DEF vars
  <2> QED
    BY <2>1, <2>2, <2>3, <2>4, <2>5, <2>6, <2>7, <2>8, <2>9, <2>10
       DEF Next, Stage, Dispatch, Done, Callbacks
<1>2. IInv /\ [Next]_vars =>
        [\A r \in Ranks :
           pc[r] = "run" /\ dir[r] = "filled" /\ pc'[r] = "run" /\ dir'[r] # "filled" =>
             \E q \in Ranks \ {r} : pc[q] = "finalize" /\ pc'[q] = "idle"]_vars
  BY <1>1
<1> QED
  BY <1>2, Invariant, PTL DEF Spec, OnlyACloseTakesAway
=============================================================================
