--------------------------- MODULE Services_proofs ---------------------------
(***************************************************************************)
(* Proofs about Services, for any number of ports and models.              *)
(***************************************************************************)
EXTENDS Services, TLAPS

(* Where set-up looks for ports, and where it has found them.              *)
Searching == {"artifacts", "probe", "bind", "reprobe", "pick", "debug"}
SettingUp == Searching \cup {"serve", "await", "fuse", "await_fuse", "up"}
TearingDown == {"stop_rest", "stop_fuse", "stop_debug", "finish"}

(* A port the control code holds and has not put on record yet.            *)
HasSocket == pc \in {"reprobe", "serve"} \/ (pc = "debug" /\ Paired)

(* _started says what the code is doing.                                   *)
StartedInv ==
  /\ pc \in SettingUp \cup {"stage"} => started
  /\ pc \in TearingDown => ~started /\ status = "stopping"

(* Only the port being set up is bound and not served; nothing of it is on *)
(* record.                                                                 *)
SocketInv ==
  /\ pc \in {"reprobe", "debug", "serve", "await"} => k \in Offsets
  /\ (pc = "pick" => ~Paired) /\ (pc \in {"probe", "reprobe"} => Paired)
  /\ HasSocket => rest[k] = "held"
  /\ HasSocket \/ pc = "await" => k \in mine
  /\ \A j \in Offsets : rest[j] = "held" => HasSocket /\ j = k
  /\ ~started /\ pc # "stop_rest" => restPort = None
  /\ pc \in Searching \cup {"serve", "await"} => restPort = None

(* A debug server that is up before this set-up came to start it is one    *)
(* that a teardown which raised has left, so that its port may be another. *)
DebugInv ==
  /\ pc \in Searching => calls = 0
  /\ debugPort # None /\ (pc \in Searching \/ (pc = "idle" /\ ~started)) => late # {}
  /\ pc = "finish" => debugPort = None
  /\ pc \in {"serve", "await"} /\ Paired /\ debugPort # None /\ late = {} => debugPort = k

(* What runs is on record, being awaited, or was late.                     *)
LateInv ==
  /\ \A j \in mine : rest[j] \in {"starting", "serving"} =>
       j = restPort \/ (pc = "await" /\ j = k) \/ "rest" \in late
  /\ mount # "none" => fuseRef \/ pc = "await_fuse" \/ "fuse" \in late
  /\ pc \in {"stop_debug", "finish"} => mount = "none" \/ "fuse" \in late
  /\ \A j \in Offsets : debug[j] = "own" => j = debugPort \/ "debug" \in late \/ models > 1

IInv ==
  RecordIsTrue /\ FinishedIsStopped /\ StartedInv /\ SocketInv /\ DebugInv /\ LateInv

USE DEF Services, control, restState, debugState, fuseState, fixed, Goto, On, Paired,
        Searching, SettingUp, TearingDown, HasSocket

-----------------------------------------------------------------------------
(* The offsets tried from the configured port.                             *)
LEMMA OffsetFacts ==
  /\ None \notin Offsets /\ 0 \in 0 .. Attempts
  /\ \A j \in Offsets : j \in 0 .. Attempts /\ j + 1 \in 0 .. Attempts
BY ServicesAssumption DEF None, Offsets

(* The initial states satisfy the invariant.                               *)
LEMMA IInvInit == Init => IInv
<1> SUFFICES ASSUME Init PROVE IInv
  OBVIOUS
<1>1. config \in [enabled : SUBSET Services, strict : BOOLEAN] /\ distributed \in BOOLEAN
  <2>1. ("debug" \in config.enabled) \in BOOLEAN
    OBVIOUS
  <2>2. distributed = FALSE \/ distributed = ("debug" \in config.enabled)
    BY Zenon DEF Init
  <2>3. distributed \in BOOLEAN
    BY <2>1, <2>2, Zenon
  <2> QED
    BY <2>3 DEF Init
<1>2. /\ rest \in [Offsets -> {"free", "other", "held", "starting", "serving", "exiting"}]
      /\ debug \in [Offsets -> {"free", "other", "own"}]
      /\ \A j \in Offsets : rest[j] \in {"free", "other"}
  BY DEF Init
<1>3. TypeOK
  <2>1. models \in Nat \ {0} /\ mine \subseteq Offsets /\ late \subseteq Services
    BY DEF Init
  <2>2. started \in BOOLEAN /\ fuseRef \in BOOLEAN
    BY DEF Init
  <2> QED
    BY <1>1, <1>2, <2>1, <2>2, OffsetFacts DEF Init, TypeOK
<1>4. RecordIsTrue
  BY <1>2, <1>3 DEF Init, RecordIsTrue
<1> QED
  BY <1>2, <1>4 DEF Init, IInv, FinishedIsStopped, StartedInv, SocketInv, DebugInv, LateInv

(* The search for ports, until one is free.                                *)
LEMMA SearchStep ==
  ASSUME IInv, ResolveArtifactDir \/ Exhausted \/ Probe \/ Pick
  PROVE  IInv'
<1> USE DEF IInv, ResolveArtifactDir, Exhausted, Probe, Pick, First, Fails, TryNext,
            NextOffset
<1>1. TypeOK'
  <2>1. CASE ResolveArtifactDir
    BY OffsetFacts, <2>1 DEF RecordIsTrue, TypeOK, SocketInv
  <2>2. CASE Exhausted
    BY OffsetFacts, <2>2 DEF RecordIsTrue, TypeOK, SocketInv
  <2>3. CASE Probe
    BY OffsetFacts, <2>3 DEF RecordIsTrue, TypeOK, SocketInv
  <2>4. CASE Pick
    BY OffsetFacts, <2>4 DEF RecordIsTrue, TypeOK, SocketInv
  <2> QED
    BY <2>1, <2>2, <2>3, <2>4
<1>2. StartedInv'
  BY OffsetFacts DEF RecordIsTrue, TypeOK, StartedInv
<1>3. SocketInv'
  BY OffsetFacts DEF RecordIsTrue, TypeOK, StartedInv, SocketInv
<1>4. DebugInv'
  BY OffsetFacts DEF RecordIsTrue, TypeOK, StartedInv, SocketInv, DebugInv
<1>5. LateInv'
  BY OffsetFacts DEF RecordIsTrue, TypeOK, StartedInv, SocketInv, DebugInv, LateInv
<1>6. RecordIsTrue'
  BY OffsetFacts, <1>1 DEF TypeOK, RecordIsTrue, StartedInv, SocketInv, DebugInv
<1>7. FinishedIsStopped'
  BY OffsetFacts DEF FinishedIsStopped, StartedInv, SocketInv, DebugInv, LateInv, RecordIsTrue,
     TypeOK
<1> QED
  BY <1>1, <1>2, <1>3, <1>4, <1>5, <1>6, <1>7

(* Binding a port, and giving it up when the debug port is gone since.     *)
LEMMA BindStep ==
  ASSUME IInv, Bind \/ Reprobe
  PROVE  IInv'
<1> USE DEF IInv, Bind, Reprobe, TryNext, NextOffset, Abandon, CloseSocket
<1>1. TypeOK'
  <2>1. CASE Bind
    <3>1. mine' = mine \/ mine' = mine \cup {k}
      BY <2>1
    <3>2. mine' \subseteq Offsets
      <4>1. mine \subseteq Offsets /\ k \in Offsets
        BY <2>1 DEF RecordIsTrue, TypeOK
      <4> QED
        BY <3>1, <4>1
    <3>3. k' \in 0 .. Attempts
      BY OffsetFacts, <2>1 DEF RecordIsTrue, TypeOK
    <3>4. rest' \in [Offsets -> {"free", "other", "held", "starting", "serving", "exiting"}]
      BY <2>1 DEF RecordIsTrue, TypeOK
    <3> QED
      BY <2>1, <3>2, <3>3, <3>4 DEF RecordIsTrue, TypeOK
  <2>2. CASE Reprobe
    BY OffsetFacts, <2>2 DEF RecordIsTrue, TypeOK, SocketInv
  <2> QED
    BY <2>1, <2>2
<1>2. StartedInv'
  BY OffsetFacts DEF RecordIsTrue, TypeOK, StartedInv
<1>3. SocketInv'
  <2>1. CASE Bind
    BY OffsetFacts, <2>1 DEF RecordIsTrue, TypeOK, StartedInv, SocketInv
  <2>2. CASE Reprobe
    <3>1. CASE debug[k] = "free"
      BY <2>2, <3>1 DEF RecordIsTrue, TypeOK, StartedInv, SocketInv
    <3>2. CASE debug[k] # "free"
      <4>1. rest'[k] = "free" /\ \A j \in Offsets : j # k => rest'[j] = rest[j]
        BY <2>2, <3>2 DEF RecordIsTrue, TypeOK, SocketInv
      <4> QED
        BY <2>2, <3>2, <4>1 DEF RecordIsTrue, TypeOK, StartedInv, SocketInv
    <3> QED
      BY <3>1, <3>2
  <2> QED
    BY <2>1, <2>2
<1>4. DebugInv'
  BY OffsetFacts DEF RecordIsTrue, TypeOK, StartedInv, SocketInv, DebugInv
<1>5. LateInv'
  <2>1. CASE Bind
    <3>1. mine' = mine \/ (mine' = mine \cup {k} /\ rest'[k] = "held")
      BY <2>1 DEF RecordIsTrue, TypeOK
    <3>2. \A j \in Offsets : rest'[j] = rest[j] \/ rest'[j] = "held"
      BY <2>1 DEF RecordIsTrue, TypeOK
    <3>3. \A j \in mine' : j \in mine \/ rest'[j] = "held"
      BY <3>1
    <3> QED
      BY <2>1, <3>2, <3>3 DEF RecordIsTrue, TypeOK, SocketInv, LateInv
  <2>2. CASE Reprobe
    BY OffsetFacts, <2>2 DEF RecordIsTrue, TypeOK, StartedInv, SocketInv, DebugInv, LateInv
  <2> QED
    BY <2>1, <2>2
<1>6. RecordIsTrue'
  BY OffsetFacts, <1>1 DEF TypeOK, RecordIsTrue, StartedInv, SocketInv, DebugInv
<1>7. FinishedIsStopped'
  BY OffsetFacts DEF FinishedIsStopped, StartedInv, SocketInv, DebugInv, LateInv, RecordIsTrue,
     TypeOK
<1> QED
  BY <1>1, <1>2, <1>3, <1>4, <1>5, <1>6, <1>7

(* The debug server: started, up already, or raising, which drops the REST *)
(* socket.                                                                 *)
LEMMA DebugStep ==
  ASSUME IInv, StartDebug \/ DebugIsUp \/ DebugFails
  PROVE  IInv'
<1> USE DEF IInv, StartDebug, DebugIsUp, DebugFails, GiveUpDebug, Fails, DropSocket
<1>1. TypeOK'
  <2>1. CASE StartDebug
    BY OffsetFacts, <2>1 DEF RecordIsTrue, TypeOK, SocketInv
  <2>2. CASE DebugIsUp
    BY OffsetFacts, <2>2 DEF RecordIsTrue, TypeOK, SocketInv
  <2>3. CASE DebugFails
    BY OffsetFacts, <2>3 DEF RecordIsTrue, TypeOK, SocketInv
  <2> QED
    BY <2>1, <2>2, <2>3
<1>2. StartedInv'
  BY OffsetFacts DEF RecordIsTrue, TypeOK, StartedInv
<1>3. SocketInv'
  BY OffsetFacts DEF RecordIsTrue, TypeOK, StartedInv, SocketInv
<1>4. DebugInv'
  BY OffsetFacts DEF RecordIsTrue, TypeOK, StartedInv, SocketInv, DebugInv
<1>5. LateInv'
  BY OffsetFacts DEF RecordIsTrue, TypeOK, StartedInv, SocketInv, DebugInv, LateInv
<1>6. RecordIsTrue'
  BY OffsetFacts, <1>1 DEF TypeOK, RecordIsTrue, StartedInv, SocketInv, DebugInv
<1>7. FinishedIsStopped'
  BY OffsetFacts DEF FinishedIsStopped, StartedInv, SocketInv, DebugInv, LateInv, RecordIsTrue,
     TypeOK
<1> QED
  BY <1>1, <1>2, <1>3, <1>4, <1>5, <1>6, <1>7

(* The REST server takes the socket over, and is on record once it serves. *)
LEMMA ServeStep ==
  ASSUME IInv, Serve \/ RestReady \/ RestNotReady
  PROVE  IInv'
<1> USE DEF IInv, Serve, RestReady, RestNotReady, Fails
<1>1. TypeOK'
  <2>1. CASE Serve
    BY OffsetFacts, <2>1 DEF RecordIsTrue, TypeOK, SocketInv
  <2>2. CASE RestReady
    BY OffsetFacts, <2>2 DEF RecordIsTrue, TypeOK, SocketInv
  <2>3. CASE RestNotReady
    BY OffsetFacts, <2>3 DEF RecordIsTrue, TypeOK, SocketInv
  <2> QED
    BY <2>1, <2>2, <2>3
<1>2. StartedInv'
  BY OffsetFacts DEF RecordIsTrue, TypeOK, StartedInv
<1>3. SocketInv'
  BY OffsetFacts DEF RecordIsTrue, TypeOK, StartedInv, SocketInv
<1>4. DebugInv'
  BY OffsetFacts DEF RecordIsTrue, TypeOK, StartedInv, SocketInv, DebugInv
<1>5. LateInv'
  BY OffsetFacts DEF RecordIsTrue, TypeOK, StartedInv, SocketInv, DebugInv, LateInv
<1>6. RecordIsTrue'
  BY OffsetFacts, <1>1 DEF TypeOK, RecordIsTrue, StartedInv, SocketInv, DebugInv
<1>7. FinishedIsStopped'
  BY OffsetFacts DEF FinishedIsStopped, StartedInv, SocketInv, DebugInv, LateInv, RecordIsTrue,
     TypeOK
<1> QED
  BY <1>1, <1>2, <1>3, <1>4, <1>5, <1>6, <1>7

(* The mount, and the end of set-up.                                       *)
LEMMA FuseStep ==
  ASSUME IInv, StartFuse \/ NoFuse \/ FuseReady \/ FuseNotReady \/ Up
  PROVE  IInv'
<1> USE DEF IInv, StartFuse, NoFuse, FuseReady, FuseNotReady, Up, Fails
<1>1. TypeOK'
  <2>1. CASE StartFuse
    BY OffsetFacts, <2>1 DEF RecordIsTrue, TypeOK, SocketInv
  <2>2. CASE NoFuse
    BY OffsetFacts, <2>2 DEF RecordIsTrue, TypeOK, SocketInv
  <2>3. CASE FuseReady
    BY OffsetFacts, <2>3 DEF RecordIsTrue, TypeOK, SocketInv
  <2>4. CASE FuseNotReady
    BY OffsetFacts, <2>4 DEF RecordIsTrue, TypeOK, SocketInv
  <2>5. CASE Up
    BY OffsetFacts, <2>5 DEF RecordIsTrue, TypeOK, SocketInv
  <2> QED
    BY <2>1, <2>2, <2>3, <2>4, <2>5
<1>2. StartedInv'
  BY OffsetFacts DEF RecordIsTrue, TypeOK, StartedInv
<1>3. SocketInv'
  BY OffsetFacts DEF RecordIsTrue, TypeOK, StartedInv, SocketInv
<1>4. DebugInv'
  BY OffsetFacts DEF RecordIsTrue, TypeOK, StartedInv, SocketInv, DebugInv
<1>5. LateInv'
  BY OffsetFacts DEF RecordIsTrue, TypeOK, StartedInv, SocketInv, DebugInv, LateInv
<1>6. RecordIsTrue'
  BY OffsetFacts, <1>1 DEF TypeOK, RecordIsTrue, StartedInv, SocketInv, DebugInv
<1>7. FinishedIsStopped'
  BY OffsetFacts DEF FinishedIsStopped, StartedInv, SocketInv, DebugInv, LateInv, RecordIsTrue,
     TypeOK
<1> QED
  BY <1>1, <1>2, <1>3, <1>4, <1>5, <1>6, <1>7

(* The stages of a model, and a new model, which knows nothing of the last.*)
LEMMA StageStep ==
  ASSUME IInv, Setup \/ Teardown \/ Abort \/ NewModel
  PROVE  IInv'
<1> USE DEF IInv, Setup, Teardown, Abort, NewModel, Stopping
<1>1. TypeOK'
  <2>1. CASE Setup
    <3>1. k' \in 0 .. Attempts /\ calls' \in Nat
      BY OffsetFacts, <2>1 DEF RecordIsTrue, TypeOK, SocketInv
    <3>2. started' \in BOOLEAN
      BY OffsetFacts, <2>1 DEF RecordIsTrue, TypeOK, SocketInv
    <3> QED
      BY <3>1, <3>2, OffsetFacts, <2>1 DEF RecordIsTrue, TypeOK, SocketInv
  <2>2. CASE Teardown
    BY OffsetFacts, <2>2 DEF RecordIsTrue, TypeOK, SocketInv
  <2>3. CASE Abort
    BY OffsetFacts, <2>3 DEF RecordIsTrue, TypeOK, SocketInv
  <2>4. CASE NewModel
    <3>1. k' \in 0 .. Attempts /\ calls' \in Nat
      BY OffsetFacts, <2>4 DEF RecordIsTrue, TypeOK, SocketInv
    <3>2. models' \in Nat \ {0}
      BY OffsetFacts, <2>4 DEF RecordIsTrue, TypeOK, SocketInv
    <3>3. started' \in BOOLEAN /\ fuseRef' \in BOOLEAN
      BY OffsetFacts, <2>4 DEF RecordIsTrue, TypeOK, SocketInv
    <3>4. mine' \subseteq Offsets /\ late' \subseteq Services
      BY OffsetFacts, <2>4 DEF RecordIsTrue, TypeOK, SocketInv
    <3> QED
      BY <3>1, <3>2, <3>3, <3>4, OffsetFacts, <2>4 DEF RecordIsTrue, TypeOK, SocketInv
  <2> QED
    BY <2>1, <2>2, <2>3, <2>4
<1>2. StartedInv'
  BY OffsetFacts DEF RecordIsTrue, TypeOK, StartedInv
<1>3. SocketInv'
  BY OffsetFacts DEF RecordIsTrue, TypeOK, StartedInv, SocketInv
<1>4. DebugInv'
  BY OffsetFacts DEF RecordIsTrue, TypeOK, StartedInv, SocketInv, DebugInv
<1>5. LateInv'
  BY OffsetFacts DEF RecordIsTrue, TypeOK, StartedInv, SocketInv, DebugInv, LateInv
<1>6. RecordIsTrue'
  BY OffsetFacts, <1>1 DEF TypeOK, RecordIsTrue, StartedInv, SocketInv, DebugInv
<1>7. FinishedIsStopped'
  BY OffsetFacts DEF FinishedIsStopped, StartedInv, SocketInv, DebugInv, LateInv, RecordIsTrue,
     TypeOK
<1> QED
  BY <1>1, <1>2, <1>3, <1>4, <1>5, <1>6, <1>7

(* Teardown, step by step; what fails is in late.                          *)
LEMMA StopStep ==
  ASSUME IInv, StopRest \/ StopFuse \/ StopDebug \/ Finish
  PROVE  IInv'
<1> USE DEF IInv, StopRest, StopFuse, StopDebug, Finish, Fails
<1>1. TypeOK'
  <2>1. CASE StopRest
    BY OffsetFacts, <2>1 DEF RecordIsTrue, TypeOK, SocketInv
  <2>2. CASE StopFuse
    <3>1. mount' \in {"none", "mounting", "mounted"} /\ fuseRef' \in BOOLEAN
      BY OffsetFacts, <2>2 DEF RecordIsTrue, TypeOK, SocketInv
    <3>2. late' \subseteq Services
      BY OffsetFacts, <2>2 DEF RecordIsTrue, TypeOK, SocketInv
    <3>3. pc' \in {"idle", "stop_debug"}
      BY OffsetFacts, <2>2 DEF RecordIsTrue, TypeOK, SocketInv
    <3> QED
      BY <3>1, <3>2, <3>3, OffsetFacts, <2>2 DEF RecordIsTrue, TypeOK, SocketInv
  <2>3. CASE StopDebug
    <3>1. debug' \in [Offsets -> {"free", "other", "own"}] /\ upstream' \in {"none", "up", "stuck"}
      BY OffsetFacts, <2>3 DEF RecordIsTrue, TypeOK, SocketInv
    <3>2. late' \subseteq Services
      BY OffsetFacts, <2>3 DEF RecordIsTrue, TypeOK, SocketInv
    <3>3. pc' \in {"idle", "finish"}
      BY OffsetFacts, <2>3 DEF RecordIsTrue, TypeOK, SocketInv
    <3> QED
      BY <3>1, <3>2, <3>3, OffsetFacts, <2>3 DEF RecordIsTrue, TypeOK, SocketInv
  <2>4. CASE Finish
    BY OffsetFacts, <2>4 DEF RecordIsTrue, TypeOK, SocketInv
  <2> QED
    BY <2>1, <2>2, <2>3, <2>4
<1>2. StartedInv'
  BY OffsetFacts DEF RecordIsTrue, TypeOK, StartedInv
<1>3. SocketInv'
  BY OffsetFacts DEF RecordIsTrue, TypeOK, StartedInv, SocketInv
<1>4. DebugInv'
  BY OffsetFacts DEF RecordIsTrue, TypeOK, StartedInv, SocketInv, DebugInv
<1>5. LateInv'
  BY OffsetFacts DEF RecordIsTrue, TypeOK, StartedInv, SocketInv, DebugInv, LateInv
<1>6. RecordIsTrue'
  BY OffsetFacts, <1>1 DEF TypeOK, RecordIsTrue, StartedInv, SocketInv, DebugInv
<1>7. FinishedIsStopped'
  BY OffsetFacts DEF FinishedIsStopped, StartedInv, SocketInv, DebugInv, LateInv, RecordIsTrue,
     TypeOK
<1> QED
  BY <1>1, <1>2, <1>3, <1>4, <1>5, <1>6, <1>7

(* A server thread takes its time to come up, and to exit.                 *)
LEMMA ServerStep ==
  ASSUME IInv, NEW i \in Offsets, ServerRuns(i)
  PROVE  IInv'
<1> USE DEF IInv, ServerRuns
<1>1. TypeOK'
  BY OffsetFacts DEF RecordIsTrue, TypeOK, SocketInv
<1>2. StartedInv'
  BY OffsetFacts DEF RecordIsTrue, TypeOK, StartedInv
<1>3. SocketInv'
  BY OffsetFacts DEF RecordIsTrue, TypeOK, StartedInv, SocketInv
<1>4. DebugInv'
  BY OffsetFacts DEF RecordIsTrue, TypeOK, StartedInv, SocketInv, DebugInv
<1>5. LateInv'
  BY OffsetFacts DEF RecordIsTrue, TypeOK, StartedInv, SocketInv, DebugInv, LateInv
<1>6. RecordIsTrue'
  BY OffsetFacts, <1>1 DEF TypeOK, RecordIsTrue, StartedInv, SocketInv, DebugInv
<1>7. FinishedIsStopped'
  BY OffsetFacts DEF FinishedIsStopped, StartedInv, SocketInv, DebugInv, LateInv, RecordIsTrue,
     TypeOK
<1> QED
  BY <1>1, <1>2, <1>3, <1>4, <1>5, <1>6, <1>7

(* So does the mount; other programs take and give back ports.             *)
LEMMA EnvironmentStep ==
  ASSUME IInv, MountRuns \/ Others
  PROVE  IInv'
<1> USE DEF IInv, MountRuns, Others, Toggle
<1>1. TypeOK'
  <2>1. CASE MountRuns
    BY OffsetFacts, <2>1 DEF RecordIsTrue, TypeOK, SocketInv
  <2>2. CASE Others
    BY OffsetFacts, <2>2 DEF RecordIsTrue, TypeOK, SocketInv
  <2> QED
    BY <2>1, <2>2
<1>2. StartedInv'
  BY OffsetFacts DEF RecordIsTrue, TypeOK, StartedInv
<1>3. SocketInv'
  BY OffsetFacts DEF RecordIsTrue, TypeOK, StartedInv, SocketInv
<1>4. DebugInv'
  BY OffsetFacts DEF RecordIsTrue, TypeOK, StartedInv, SocketInv, DebugInv
<1>5. LateInv'
  BY OffsetFacts DEF RecordIsTrue, TypeOK, StartedInv, SocketInv, DebugInv, LateInv
<1>6. RecordIsTrue'
  BY OffsetFacts, <1>1 DEF TypeOK, RecordIsTrue, StartedInv, SocketInv, DebugInv
<1>7. FinishedIsStopped'
  BY OffsetFacts DEF FinishedIsStopped, StartedInv, SocketInv, DebugInv, LateInv, RecordIsTrue,
     TypeOK
<1> QED
  BY <1>1, <1>2, <1>3, <1>4, <1>5, <1>6, <1>7
-----------------------------------------------------------------------------
(* Every step keeps the invariant.                                         *)
LEMMA IInvStep == IInv /\ [Next]_vars => IInv'
<1> SUFFICES ASSUME IInv, [Next]_vars PROVE IInv'
  OBVIOUS
<1>1. CASE SetupStep
  BY <1>1, SearchStep, BindStep, DebugStep, ServeStep, FuseStep DEF SetupStep
<1>2. CASE TeardownStep
  BY <1>2, StopStep DEF TeardownStep
<1>3. CASE Setup \/ Teardown \/ Abort \/ NewModel
  BY <1>3, StageStep
<1>4. CASE Others \/ MountRuns \/ \E j \in Offsets : ServerRuns(j)
  BY <1>4, EnvironmentStep, ServerStep
<1>5. CASE UNCHANGED vars
  BY <1>5 DEF vars, IInv, TypeOK, RecordIsTrue, FinishedIsStopped, StartedInv, SocketInv, DebugInv,
     LateInv
<1> QED
  BY <1>1, <1>2, <1>3, <1>4, <1>5 DEF Next

(* The inductive invariant: types, what _started says, the port in hand,   *)
(* what is on record, and what was late.                                   *)
THEOREM Invariant == Spec => []IInv
<1> QED
  BY IInvInit, IInvStep, PTL DEF Spec

(* The ports on record are served, and paired if anything is; no path out  *)
(* of set-up leaves a bound socket without a server, for any number of     *)
(* ports, models and failures.                                             *)
THEOREM RecordIsTrueTheorem == Spec => []RecordIsTrue
<1>1. IInv => RecordIsTrue
  BY DEF IInv
<1> QED
  BY <1>1, Invariant, PTL

(* A teardown that ended has stopped all that its model had started, but   *)
(* for what had timed out or failed.                                       *)
THEOREM FinishedIsStoppedTheorem == Spec => []FinishedIsStopped
<1>1. IInv => FinishedIsStopped
  BY DEF IInv
<1> QED
  BY <1>1, Invariant, PTL

-----------------------------------------------------------------------------
(* An offset less to try is three steps less.                              *)
LEMMA SearchFacts ==
  /\ \A j \in 0 .. Attempts : Search(j) \in 0 .. Search(0)
  /\ \A j \in Offsets : Search(j + 1) = Search(j) - 3 /\ Search(j) \in Nat /\ Search(j + 1) \in Nat
BY ServicesAssumption DEF Search, Offsets

(* What is left to do is a number, at most one more than the search takes. *)
LEMMA ToDoIsBounded == IInv => ToDo \in 0 .. 11 + Search(0)
<1> SUFFICES ASSUME IInv PROVE ToDo \in 0 .. 11 + Search(0)
  OBVIOUS
<1>1. Search(0) \in Nat /\ Search(k) \in 0 .. Search(0)
  BY SearchFacts, ServicesAssumption DEF IInv, RecordIsTrue, TypeOK
<1>2. pc \in {"idle", "artifacts", "probe", "bind", "reprobe", "pick", "debug", "serve",
             "await", "fuse", "await_fuse", "up", "stage", "stop_rest", "stop_fuse",
             "stop_debug", "finish"}
  BY DEF IInv, RecordIsTrue, TypeOK
<1>3. CASE pc \in {"artifacts", "probe", "bind", "reprobe"}
  <2>1. ToDo \in {11 + Search(0), 10 + Search(k), 9 + Search(k), 8 + Search(k)}
    BY <1>3 DEF ToDo
  <2> QED
    BY <1>1, <2>1
<1>4. CASE pc \notin {"artifacts", "probe", "bind", "reprobe"}
  <2>1. ToDo \in 0 .. 7
    BY <1>2, <1>4 DEF ToDo
  <2> QED
    BY <1>1, <2>1
<1> QED
  BY <1>3, <1>4

(* Set-up and teardown come to their end in a number of steps that the     *)
(* ports bound, whatever fails, raises, is late or is taken meanwhile.     *)
THEOREM EveryStepGetsOnTheorem == Spec => EveryStepGetsOn
<1> DEFINE GetsOn == /\ SetupStep \/ TeardownStep => ToDo' < ToDo
                     /\ Others \/ MountRuns \/ (\E j \in Offsets : ServerRuns(j)) => ToDo' = ToDo
<1>1. ASSUME IInv, SetupStep \/ TeardownStep PROVE ToDo' < ToDo
  <2>1. TypeOK
    BY <1>1 DEF IInv, RecordIsTrue
  <2>0. /\ Search(0) \in Nat /\ Search(k) \in 0 .. Search(0)
        /\ k \in Offsets => Search(k + 1) = Search(k) - 3
    BY <2>1, SearchFacts, ServicesAssumption DEF TypeOK
  <2>2. CASE ResolveArtifactDir \/ Exhausted \/ Probe \/ Pick
    BY <2>0, <2>1, <2>2
    DEF ResolveArtifactDir, Exhausted, Probe, Pick, First, Fails, TryNext, NextOffset, TypeOK, ToDo
  <2>3. CASE Bind \/ Reprobe
    <3>1. \/ pc = "bind" /\ pc' \in {"reprobe", "serve"} /\ k' = k
          \/ pc \in {"bind", "reprobe"} /\ k \in Offsets /\ pc' \in {"probe", "bind"} /\ k' = k + 1
          \/ pc = "reprobe" /\ pc' = "debug"
      BY <1>1, <2>3 DEF Bind, Reprobe, TryNext, NextOffset, IInv, SocketInv
    <3> QED
      BY <2>0, <3>1 DEF ToDo
  <2>4. CASE StartDebug \/ DebugIsUp \/ DebugFails
    BY <2>1, <2>4 DEF StartDebug, DebugIsUp, DebugFails, GiveUpDebug, Fails, TypeOK, ToDo
  <2>5. CASE Serve \/ RestReady \/ RestNotReady
    BY <2>1, <2>5 DEF Serve, RestReady, RestNotReady, Fails, TypeOK, ToDo
  <2>6. CASE StartFuse \/ NoFuse \/ FuseReady \/ FuseNotReady \/ Up
    BY <2>1, <2>6 DEF StartFuse, NoFuse, FuseReady, FuseNotReady, Up, Fails, TypeOK, ToDo
  <2>7. CASE TeardownStep
    BY <2>1, <2>7 DEF TeardownStep, StopRest, StopFuse, StopDebug, Finish, Fails, TypeOK, ToDo
  <2> QED
    BY <1>1, <2>2, <2>3, <2>4, <2>5, <2>6, <2>7 DEF SetupStep
<1>2. ASSUME Others \/ MountRuns \/ \E j \in Offsets : ServerRuns(j) PROVE ToDo' = ToDo
  BY <1>2 DEF Others, MountRuns, ServerRuns, ToDo
<1>3. IInv /\ [Next]_vars => [GetsOn]_vars
  BY <1>1, <1>2
<1> QED
  BY <1>3, ToDoIsBounded, Invariant, PTL DEF Spec, EveryStepGetsOn
=============================================================================
