-------------------------- MODULE DebugCapture_proofs --------------------------
(***************************************************************************)
(* Proofs about DebugCapture, for any number of clients, attempts and      *)
(* restarts of the target.                                                 *)
(***************************************************************************)
EXTENDS DebugCapture, FiniteSetTheorems, TLAPS

Early == {"idle", "status", "active", "prepare"}
Pushing == {"manifest", "files", "release"}

(* Who has an artifact number, or will not ask for one. *)
Through == {c \in Clients : pc[c] \in Pushing \cup {"done"}}

-----------------------------------------------------------------------------
(* Evaluations: until one is known to be queued, there are no more calls   *)
(* than abandoned evaluations.                                             *)
TriesInv ==
  \A c \in Clients :
    /\ ran[c] + pending[c] <= tries[c] + 1
    /\ pc[c] \in Early \cup {"attach", "call"} => ran[c] + pending[c] <= tries[c]
    /\ pc[c] # "done" => tries[c] < MaxAttempts
    /\ ran[c] + pending[c] <= MaxAttempts

(* Before a capture has prepared its snippet there is nothing of it; after *)
(* its end only what schedule or a snippet at work has left.               *)
FileInv ==
  \A c \in Clients :
    /\ pc[c] \in Early => ~snippet[c] /\ report[c] = "absent" /\ running # c
    /\ pc[c] \in Pushing \cup {"push", "done"} =>
         /\ snippet[c] => gaveUp[c]
         /\ report[c] # "absent" => gaveUp[c] \/ overran[c]
         /\ running = c => gaveUp[c] \/ overran[c]

(* A client of this life of the target stands past its check only under    *)
(* its hold, unless that was seen to go.                                   *)
HoldInv ==
  /\ run # "paused" => hold = NoHold
  /\ ~up => run = "over" /\ life < MaxLives
  /\ \A c \in Clients : tracer = c => pc[c] = "call" /\ up /\ pid[c] = life
  /\ \A c \in Clients : pid[c] <= life
  /\ \A c \in Clients : up /\ pid[c] = life =>
       /\ pc[c] \in {"prepare", "attach", "call"} => hold = c \/ lost[c]
       /\ pc[c] = "call" => tracer = c

(* Numbers are taken once in a life, and there are enough for all.         *)
NameInv ==
  /\ counter <= Cardinality(Through)
  /\ \A c \in Clients : up /\ pid[c] = life /\ pc[c] \in Pushing =>
       /\ name[c] \in 1 .. counter
       /\ pc[c] \in {"files", "release"} => manifest[name[c]] = Me(c)
       /\ pc[c] = "release" => files[name[c]] = Me(c)
       /\ \A d \in Clients : d # c /\ pid[d] = life /\ pc[d] \in Pushing => name[d] # name[c]

IInv == TypeOK /\ TriesInv /\ FileInv /\ HoldInv /\ NameInv

USE DebugCaptureAssumption
    DEF Nobody, target, process, injection, client, history, artifacts, Set, Goto

-----------------------------------------------------------------------------
(* Those who have a number are finitely many, no more than the clients.    *)
LEMMA ThroughIsFinite ==
  /\ Cardinality(Clients) \in Nat /\ Cardinality(Through) \in Nat
  /\ Cardinality(Through) <= Cardinality(Clients)
<1>1. Through \in SUBSET Clients /\ IsFiniteSet(Clients)
  BY DEF Through
<1> QED
  BY <1>1, FS_Subset, FS_CardinalityType

(* The initial states satisfy the invariant.                               *)
LEMMA IInvInit == Init => IInv
<1> SUFFICES ASSUME Init PROVE IInv
  OBVIOUS
<1>0. Cardinality(Clients) \in Nat
  BY FS_CardinalityType
<1>1. up \in BOOLEAN
  BY DEF Init
<1>2. /\ snippet = [c \in Clients |-> FALSE] /\ lost = [c \in Clients |-> FALSE]
      /\ gaveUp = [c \in Clients |-> FALSE] /\ overran = [c \in Clients |-> FALSE]
  BY DEF Init
<1>3. /\ snippet \in [Clients -> BOOLEAN] /\ lost \in [Clients -> BOOLEAN]
      /\ gaveUp \in [Clients -> BOOLEAN] /\ overran \in [Clients -> BOOLEAN]
  BY <1>2
<1>4. manifest \in [Names -> Writer \cup {Nothing}] /\ files \in [Names -> Writer \cup {Nothing}]
  BY DEF Init
<1>5. run = "running" /\ hold = NoHold
  BY DEF Init, Target!Init
<1>6. TypeOK
  BY <1>0, <1>1, <1>3, <1>4, <1>5 DEF Init, TypeOK
<1>7. TriesInv
  BY DEF Init, TriesInv, Early
<1>8. \A c \in Clients : ~snippet[c]
  BY <1>2
<1>9. FileInv
  BY <1>8 DEF Init, FileInv, Early, Pushing
<1>10. HoldInv
  BY <1>1, <1>5 DEF Init, HoldInv
<1>11. NameInv
  BY ThroughIsFinite DEF Init, NameInv, Pushing
<1> QED
  BY <1>6, <1>7, <1>9, <1>10, <1>11 DEF IInv

(* What leaves the artifacts alone leaves NameInv alone, if it only ever   *)
(* takes a client out of its push.                                         *)
LEMMA NameKept ==
  ASSUME IInv, TypeOK', UNCHANGED <<life, up, artifacts>>,
         \A c \in Clients :
           \/ pc'[c] = pc[c] /\ pid'[c] = pid[c]
           \/ /\ pc'[c] \notin Pushing
              /\ pc[c] \in Pushing \cup {"done"} => pc'[c] = "done"
  PROVE  NameInv'
<1>1. Through \subseteq Through' /\ Through' \subseteq Clients
  BY DEF Through, Pushing
<1>2. Cardinality(Through) <= Cardinality(Through')
  BY <1>1, FS_Subset
<1>3. Cardinality(Through) \in Nat /\ Cardinality(Through') \in Nat
  BY <1>1, FS_Subset, FS_CardinalityType
<1> QED
  BY <1>2, <1>3 DEF IInv, TypeOK, NameInv, Me

(* Safe points, resumptions and operators.  A hold that goes under a       *)
(* client past its check is in lost[c].                                    *)
LEMMA HoldStep ==
  ASSUME IInv, SafePoint \/ Resume \/ Continue
  PROVE  IInv'
<1> USE DEF IInv, SafePoint, Resume, Continue, Live, HoldGoes, Past, Target!Pause,
            Target!Resume, Target!Release
<1>1. TriesInv'
  BY DEF TypeOK, TriesInv, Early
<1>2. TypeOK'
  BY <1>1 DEF TypeOK, TriesInv
<1>3. FileInv'
  BY DEF TypeOK, FileInv, Early, Pushing
<1>4. HoldInv'
  BY DEF TypeOK, HoldInv
<1>5. NameInv'
  BY <1>2, NameKept DEF TypeOK, Pushing
<1> QED
  BY <1>1, <1>2, <1>3, <1>4, <1>5

(* What happens to a client's hold command, and to the hold.               *)
LEMMA CommandStep ==
  ASSUME IInv, NEW c \in Clients, Engage(c) \/ Mark(c) \/ Cancel(c) \/ ReleaseOwn(c)
  PROVE  IInv'
<1> USE DEF IInv, Engage, Mark, Cancel, ReleaseOwn, Live, HoldGoes, Past, Target!Engage,
            Target!Release
<1>1. TriesInv'
  BY DEF TypeOK, TriesInv, Early
<1>2. TypeOK'
  BY <1>1 DEF TypeOK, TriesInv
<1>3. FileInv'
  BY DEF TypeOK, FileInv, Early, Pushing
<1>4. HoldInv'
  BY DEF TypeOK, HoldInv
<1>5. NameInv'
  BY <1>2, NameKept DEF TypeOK, Pushing
<1> QED
  BY <1>1, <1>2, <1>3, <1>4, <1>5

(* What the interpreter does with a queued call and its snippet.  A call   *)
(* served does not change ran + pending; one whose snippet is still there  *)
(* is of a capture that is scheduled, or gave up.                          *)
LEMMA SnippetStep ==
  ASSUME IInv, NEW c \in Clients,
         Serve(c) \/ OpenReport(c) \/ SnippetEnds(c)
  PROVE  IInv'
<1> USE DEF IInv, Serve, OpenReport, SnippetEnds, Live
<1>1. TriesInv'
  BY DEF TypeOK, TriesInv, Early
<1>2. TypeOK'
  BY <1>1 DEF TypeOK, TriesInv
<1>3. FileInv'
  BY DEF TypeOK, FileInv, Early, Pushing
<1>4. HoldInv'
  BY DEF TypeOK, HoldInv
<1>5. NameInv'
  BY <1>2, NameKept DEF TypeOK, Pushing
<1> QED
  BY <1>1, <1>2, <1>3, <1>4, <1>5

(* With the process go its calls and its holds.                            *)
LEMMA KillStep ==
  ASSUME IInv,
         Kill
  PROVE  IInv'
<1> USE DEF IInv, Kill
<1>1. TriesInv'
  BY DEF TypeOK, TriesInv, Early
<1>2. TypeOK'
  <2>1. /\ up' \in BOOLEAN
        /\ snippet' \in [Clients -> BOOLEAN] /\ lost' \in [Clients -> BOOLEAN]
        /\ gaveUp' \in [Clients -> BOOLEAN] /\ overran' \in [Clients -> BOOLEAN]
    BY DEF TypeOK
  <2> QED
    BY <1>1, <2>1 DEF TypeOK, TriesInv
<1>3. FileInv'
  BY DEF TypeOK, FileInv, Early, Pushing
<1>4. HoldInv'
  BY DEF TypeOK, HoldInv
<1>5. NameInv'
  BY DEF TypeOK, NameInv, Through
<1> QED
  BY <1>1, <1>2, <1>3, <1>4, <1>5

(* After a restart no client is of the new life yet.                       *)
LEMMA RestartStep ==
  ASSUME IInv,
         Restart
  PROVE  IInv'
<1> USE DEF IInv, Restart
<1>0. \A c \in Clients : pid'[c] < life'
  BY DEF TypeOK, HoldInv
<1>1. TriesInv'
  BY DEF TypeOK, TriesInv, Early
<1>2. TypeOK'
  <2>1. /\ manifest' \in [Names -> Writer \cup {Nothing}]
        /\ files' \in [Names -> Writer \cup {Nothing}]
    BY DEF TypeOK
  <2>2. up' \in BOOLEAN
    OBVIOUS
  <2>3. life' \in 1 .. MaxLives
    BY DEF TypeOK, HoldInv
  <2> QED
    BY <2>1, <2>2, <2>3, ThroughIsFinite DEF TypeOK
<1>3. FileInv'
  BY DEF TypeOK, FileInv, Early, Pushing
<1>4. HoldInv'
  BY <1>0 DEF TypeOK, HoldInv
<1>5. NameInv'
  BY <1>0, ThroughIsFinite DEF TypeOK, NameInv, HoldInv, Through
<1> QED
  BY <1>1, <1>2, <1>3, <1>4, <1>5

(* The client from its request to its snippet, and its ends without one.   *)
LEMMA CheckStep ==
  ASSUME IInv, NEW c \in Clients,
         Arm(c) \/ CheckStatus(c) \/ CheckActive(c) \/ Unanswered(c) \/
         Dump(c) \/ Prepare(c) \/ NothingToRelease(c)
  PROVE  IInv'
<1> USE DEF IInv, Arm, CheckStatus, CheckActive, Unanswered, Dump, Prepare,
            NothingToRelease, Live, Finish, IsActive
<1>1. TriesInv'
  BY DEF TypeOK, TriesInv, Early
<1>2. TypeOK'
  <2>1. /\ up' \in BOOLEAN
        /\ snippet' \in [Clients -> BOOLEAN] /\ lost' \in [Clients -> BOOLEAN]
        /\ gaveUp' \in [Clients -> BOOLEAN] /\ overran' \in [Clients -> BOOLEAN]
    BY DEF TypeOK
  <2> QED
    BY <1>1, <2>1 DEF TypeOK, TriesInv
<1>3. FileInv'
  BY DEF TypeOK, FileInv, Early, Pushing
<1>4. HoldInv'
  BY DEF TypeOK, HoldInv
<1>5. NameInv'
  BY <1>2, NameKept DEF TypeOK, Pushing
<1> QED
  BY <1>1, <1>2, <1>3, <1>4, <1>5

(* gdb's evaluations: one that was queued is not tried again, and one that *)
(* was abandoned is counted.                                               *)
LEMMA ScheduleStep ==
  ASSUME IInv, NEW c \in Clients,
         Attach(c) \/ AttachFails(c) \/ CallQueued(c) \/ CallRefused(c)
         \/ CallAbandoned(c)
  PROVE  IInv'
<1> USE DEF IInv, Attach, AttachFails, CallQueued, CallRefused,
            CallAbandoned, Live, Queue, Scheduled, Counted, GiveUp, Finish
<1>1. TriesInv'
  BY DEF TypeOK, TriesInv, Early
<1>2. TypeOK'
  <2>1. /\ up' \in BOOLEAN
        /\ snippet' \in [Clients -> BOOLEAN] /\ lost' \in [Clients -> BOOLEAN]
        /\ gaveUp' \in [Clients -> BOOLEAN] /\ overran' \in [Clients -> BOOLEAN]
    BY DEF TypeOK
  <2> QED
    BY <1>1, <2>1 DEF TypeOK, TriesInv
<1>3. FileInv'
  BY DEF TypeOK, FileInv, Early, Pushing
<1>4. HoldInv'
  BY DEF TypeOK, HoldInv
<1>5. NameInv'
  BY <1>2, NameKept DEF TypeOK, Pushing
<1> QED
  BY <1>1, <1>2, <1>3, <1>4, <1>5

(* The finally of schedule_and_wait removes both files; what the snippet   *)
(* still writes is in overran[c].                                          *)
LEMMA PollStep ==
  ASSUME IInv, NEW c \in Clients,
         ReadReport(c) \/ PollTimesOut(c)
  PROVE  IInv'
<1> USE DEF IInv, ReadReport, PollTimesOut, Ends, CleanUp
<1>1. TriesInv'
  BY DEF TypeOK, TriesInv, Early
<1>2. TypeOK'
  <2>1. /\ up' \in BOOLEAN
        /\ snippet' \in [Clients -> BOOLEAN] /\ lost' \in [Clients -> BOOLEAN]
        /\ gaveUp' \in [Clients -> BOOLEAN] /\ overran' \in [Clients -> BOOLEAN]
    BY DEF TypeOK
  <2> QED
    BY <1>1, <2>1 DEF TypeOK, TriesInv
<1>3. FileInv'
  <2>1. ~snippet'[c] /\ report'[c] = "absent" /\ (running' = c => overran'[c])
    BY DEF TypeOK
  <2>2. \A d \in Clients : d # c =>
          /\ pc'[d] = pc[d] /\ snippet'[d] = snippet[d] /\ report'[d] = report[d]
          /\ gaveUp'[d] = gaveUp[d] /\ overran'[d] = overran[d] /\ running' = running
    BY DEF TypeOK
  <2>3. pc'[c] \in {"push", "done"}
    BY DEF TypeOK
  <2> QED
    BY <2>1, <2>2, <2>3 DEF FileInv, Early, Pushing
<1>4. HoldInv'
  BY DEF TypeOK, HoldInv
<1>5. NameInv'
  BY <1>2, NameKept DEF TypeOK, Pushing
<1> QED
  BY <1>1, <1>2, <1>3, <1>4, <1>5

(* A number is new in its life; there are enough, since each client of the *)
(* life takes one at most.                                                 *)
LEMMA NameArtifactStep ==
  ASSUME IInv, NEW c \in Clients,
         NameArtifact(c)
  PROVE  IInv'
<1> USE DEF IInv, NameArtifact, Live, Taken
<1>0. counter + 1 <= Cardinality(Through') /\ counter + 1 <= Cardinality(Clients)
  <2>1. /\ Through \subseteq Clients /\ Through' \subseteq Clients
        /\ Through' = Through \cup {c} /\ c \notin Through
    BY DEF TypeOK, Through, Pushing
  <2>2. /\ Cardinality(Through') = Cardinality(Through) + 1
        /\ Cardinality(Through') <= Cardinality(Clients)
    BY <2>1, FS_Subset, FS_AddElement
  <2> QED
    BY <2>2, ThroughIsFinite DEF TypeOK, NameInv
<1>1. TriesInv'
  BY DEF TypeOK, TriesInv, Early
<1>2. TypeOK'
  BY <1>0, ThroughIsFinite DEF TypeOK
<1>3. FileInv'
  BY DEF TypeOK, FileInv, Early, Pushing
<1>4. HoldInv'
  BY DEF TypeOK, HoldInv
<1>5. NameInv'
  <2>1. name'[c] = counter' /\ counter' = counter + 1 /\ pc'[c] = "manifest"
    BY DEF TypeOK
  <2>2. \A d \in Clients : d # c => pc'[d] = pc[d] /\ pid'[d] = pid[d] /\ name'[d] = name[d]
    BY DEF TypeOK
  <2>3. \A d \in Clients : d # c /\ pid[d] = life /\ pc[d] \in Pushing =>
          name[d] \in 1 .. counter' /\ name[d] # counter'
    BY DEF TypeOK, NameInv
  <2>4. counter' <= Cardinality(Through')
    BY <1>0
  <2> QED
    BY <2>1, <2>2, <2>3, <2>4, <1>2 DEF TypeOK, NameInv, Me, Pushing
<1> QED
  BY <1>1, <1>2, <1>3, <1>4, <1>5

(* The two writes go to the directory of the number, which is nobody       *)
(* else's.                                                                 *)
LEMMA WriteManifestStep ==
  ASSUME IInv, NEW c \in Clients,
         WriteManifest(c)
  PROVE  IInv'
<1> USE DEF IInv, WriteManifest, Live
<1>0. name[c] \in Names /\ Me(c) \in Writer
  <2>1. name[c] \in 1 .. counter /\ counter \in 0 .. Cardinality(Clients)
    BY DEF TypeOK, NameInv, Pushing
  <2>2. name[c] \in Names
    BY <2>1, ThroughIsFinite DEF Names
  <2>3. Me(c) \in Writer
    BY DEF TypeOK, Me, Writer
  <2> QED
    BY <2>2, <2>3
<1>1. TriesInv'
  BY DEF TypeOK, TriesInv, Early
<1>2. TypeOK'
  <2>1. manifest' \in [Names -> Writer \cup {Nothing}]
    BY <1>0 DEF TypeOK
  <2> QED
    BY <2>1 DEF TypeOK
<1>3. FileInv'
  BY DEF TypeOK, FileInv, Early, Pushing
<1>4. HoldInv'
  BY DEF TypeOK, HoldInv
<1>5. NameInv'
  <2>1. Through' = Through
    BY DEF TypeOK, Through, Pushing
  <2> QED
    BY <1>0, <2>1 DEF TypeOK, NameInv, Me, Pushing
<1> QED
  BY <1>1, <1>2, <1>3, <1>4, <1>5

(* A client writes the files of its manifest, before it releases its hold. *)
LEMMA WriteFilesStep ==
  ASSUME IInv, NEW c \in Clients,
         WriteFiles(c)
  PROVE  IInv'
<1> USE DEF IInv, WriteFiles, Live
<1>0. name[c] \in Names /\ Me(c) \in Writer
  <2>1. name[c] \in 1 .. counter /\ counter \in 0 .. Cardinality(Clients)
    BY DEF TypeOK, NameInv, Pushing
  <2>2. name[c] \in Names
    BY <2>1, ThroughIsFinite DEF Names
  <2>3. Me(c) \in Writer
    BY DEF TypeOK, Me, Writer
  <2> QED
    BY <2>2, <2>3
<1>1. TriesInv'
  BY DEF TypeOK, TriesInv, Early
<1>2. TypeOK'
  <2>1. files' \in [Names -> Writer \cup {Nothing}]
    BY <1>0 DEF TypeOK
  <2> QED
    BY <2>1 DEF TypeOK
<1>3. FileInv'
  BY DEF TypeOK, FileInv, Early, Pushing
<1>4. HoldInv'
  BY DEF TypeOK, HoldInv
<1>5. NameInv'
  <2>1. Through' = Through
    BY DEF TypeOK, Through, Pushing
  <2> QED
    BY <1>0, <2>1 DEF TypeOK, NameInv, Me, Pushing
<1> QED
  BY <1>1, <1>2, <1>3, <1>4, <1>5
-----------------------------------------------------------------------------

(* Every step keeps the invariant.                                         *)
LEMMA IInvStep == IInv /\ [Next]_vars => IInv'
<1> SUFFICES ASSUME IInv, [Next]_vars PROVE IInv'
  OBVIOUS
<1>1. CASE TargetStep
  BY <1>1, HoldStep, CommandStep, SnippetStep, KillStep, RestartStep DEF TargetStep
<1>2. ASSUME NEW c \in Clients, Serve(c) \/ Arm(c) \/ ReleaseOwn(c) PROVE IInv'
  BY <1>2, CommandStep, SnippetStep, CheckStep
<1>3. ASSUME NEW c \in Clients, ClientStep(c) PROVE IInv'
  BY <1>3, CheckStep, ScheduleStep, PollStep, NameArtifactStep, WriteManifestStep,
     WriteFilesStep DEF ClientStep
<1>4. CASE UNCHANGED vars
  BY <1>4 DEF IInv, TypeOK, TriesInv, FileInv, HoldInv, NameInv, vars, Through, Me
<1> QED
  BY <1>1, <1>2, <1>3, <1>4 DEF Next

(* The inductive invariant: types, the count of evaluations, the files of  *)
(* a capture, whose hold it stands under, and whose artifact it writes.    *)
THEOREM Invariant == Spec => []IInv
<1> QED
  BY IInvInit, IInvStep, PTL DEF Spec

(* A snippet runs at most once more often than its evaluations were        *)
(* abandoned, for any number of attempts, clients and restarts.            *)
THEOREM RunsOncePerAttemptTheorem == Spec => []RunsOncePerAttempt
<1>1. IInv => RunsOncePerAttempt
  BY DEF IInv, TriesInv, RunsOncePerAttempt
<1> QED
  BY <1>1, Invariant, PTL

(* schedule_and_wait's finally leaves no report and no snippet, but those  *)
(* of a schedule that raised and of a snippet still at work.               *)
THEOREM NothingIsLeftBehindTheorem == Spec => []NothingIsLeftBehind
<1>1. IInv => NothingIsLeftBehind
  BY DEF IInv, TypeOK, FileInv, NothingIsLeftBehind, Pushing
<1> QED
  BY <1>1, Invariant, PTL

(* However many clients push at once, next_id gives each a directory of    *)
(* its own, which holds what that client wrote.                            *)
THEOREM PushedIsWholeTheorem == Spec => []PushedIsWhole
<1>1. IInv => PushedIsWhole
  BY DEF IInv, TypeOK, NameInv, PushedIsWhole, Pushing
<1> QED
  BY <1>1, Invariant, PTL

(* A process that gdb has stopped is held by the client of that gdb, which *)
(* its check had read; that a held run does not train is HoldProtocol's.   *)
THEOREM StoppedUnderItsHoldTheorem == Spec => []StoppedUnderItsHold
<1>1. IInv => StoppedUnderItsHold
  BY DEF IInv, HoldInv, StoppedUnderItsHold
<1> QED
  BY <1>1, Invariant, PTL

-----------------------------------------------------------------------------
(* An attempt less to make is two steps less.                              *)
LEMMA RetriesFacts ==
  /\ Retries(0) \in Nat
  /\ \A n \in 0 .. MaxAttempts : Retries(n) \in 0 .. Retries(0)
  /\ \A n \in 0 .. MaxAttempts : n < MaxAttempts => Retries(n + 1) = Retries(n) - 2
BY DEF Retries

(* What a step of a client does to its place and its attempts.             *)
Finishes(c) == pc[c] # "done" /\ pc'[c] = "done"
Abandons(c) ==
  pc[c] = "call" /\ pc'[c] = "attach" /\ tries[c] < MaxAttempts /\ tries'[c] = tries[c] + 1
Follows(c) ==
  /\ \/ pc[c] = "status" /\ pc'[c] = "active"
     \/ pc[c] = "active" /\ pc'[c] = "prepare"
     \/ pc[c] = "prepare" /\ pc'[c] = "push"
     \/ pc[c] = "prepare" /\ pc'[c] = "attach"
     \/ pc[c] = "attach" /\ pc'[c] = "call"
     \/ pc[c] = "call" /\ pc'[c] = "poll"
     \/ pc[c] = "poll" /\ pc'[c] = "push"
     \/ pc[c] = "push" /\ pc'[c] = "manifest"
     \/ pc[c] = "manifest" /\ pc'[c] = "files"
     \/ pc[c] = "files" /\ pc'[c] = "release"
  /\ tries'[c] = tries[c]

LEMMA StepForms ==
  ASSUME TypeOK, NEW c \in Clients, ClientStep(c)
  PROVE  Finishes(c) \/ Abandons(c) \/ Follows(c)
<1> USE DEF TypeOK, Finish, Finishes, Abandons, Follows
<1>1. CASE \/ CheckStatus(c) \/ CheckActive(c) \/ Unanswered(c) \/ Dump(c) \/ Prepare(c)
           \/ NothingToRelease(c)
  BY <1>1 DEF CheckStatus, CheckActive, IsActive, Unanswered, Dump, Prepare, NothingToRelease
<1>2. CASE Attach(c) \/ AttachFails(c) \/ CallQueued(c) \/ CallRefused(c) \/ CallAbandoned(c)
  BY <1>2 DEF Attach, AttachFails, CallQueued, CallRefused, CallAbandoned, GiveUp, Scheduled,
     Counted
<1>3. CASE ReadReport(c) \/ PollTimesOut(c)
  BY <1>3 DEF ReadReport, PollTimesOut, Ends
<1>4. CASE NameArtifact(c) \/ WriteManifest(c) \/ WriteFiles(c)
  BY <1>4 DEF NameArtifact, WriteManifest, WriteFiles
<1> QED
  BY <1>1, <1>2, <1>3, <1>4 DEF ClientStep

(* Each of them leaves fewer steps to take.                                *)
LEMMA StepForward ==
  ASSUME TypeOK, NEW c \in Clients, Finishes(c) \/ Abandons(c) \/ Follows(c)
  PROVE  ToDo(c)' < ToDo(c)
<1>1. Retries(0) \in Nat /\ Retries(tries[c]) \in 0 .. Retries(0) /\ tries[c] \in Nat
  BY RetriesFacts DEF TypeOK
<1>2. CASE Finishes(c)
  BY <1>1, <1>2 DEF Finishes, ToDo, TypeOK
<1>3. CASE Abandons(c)
  BY <1>1, <1>3, RetriesFacts DEF Abandons, ToDo, TypeOK
<1>4. CASE Follows(c)
  <2>1. Retries(tries'[c]) = Retries(tries[c])
    BY <1>4 DEF Follows
  <2>2. CASE pc[c] \in {"push", "manifest", "files"}
    BY <1>4, <2>2 DEF Follows, ToDo
  <2>3. CASE pc[c] \in {"attach", "call", "poll"}
    <3>1. pc[c] = "attach" => ToDo(c) = 7 + Retries(tries[c]) /\ ToDo(c)' = 6 + Retries(tries[c])
      BY <1>4, <2>1 DEF Follows, ToDo
    <3>2. pc[c] = "call" => ToDo(c) = 6 + Retries(tries[c]) /\ ToDo(c)' = 5
      BY <1>4 DEF Follows, ToDo
    <3>3. pc[c] = "poll" => ToDo(c) = 5 /\ ToDo(c)' = 4
      BY <1>4 DEF Follows, ToDo
    <3> QED
      BY <1>1, <2>3, <3>1, <3>2, <3>3
  <2>4. CASE pc[c] \in {"status", "active"}
    BY <1>1, <1>4, <2>4 DEF Follows, ToDo
  <2>5. CASE pc[c] = "prepare"
    BY <1>1, <1>4, <2>1, <2>5 DEF Follows, ToDo
  <2> QED
    BY <1>4, <2>2, <2>3, <2>4, <2>5 DEF Follows
<1> QED
  BY <1>2, <1>3, <1>4

(* The others leave a client where it is.                                  *)
LEMMA OthersStayOut ==
  ASSUME TypeOK, NEW c \in Clients, NEW d \in Clients, d # c,
         Serve(d) \/ Arm(d) \/ ClientStep(d) \/ ReleaseOwn(d)
  PROVE  pc'[c] = pc[c] /\ tries'[c] = tries[c]
  BY DEF TypeOK, Serve, Arm, ReleaseOwn, ClientStep, CheckStatus, CheckActive, Unanswered, Dump,
     Prepare, Attach, AttachFails, CallQueued, CallRefused, CallAbandoned, ReadReport,
     PollTimesOut, NameArtifact, WriteManifest, WriteFiles, NothingToRelease, Finish, GiveUp,
     Ends

(* Every capture comes to its end in a number of its steps that the        *)
(* attempts bound, whatever gdb, the target and other clients do.          *)
THEOREM EveryStepGetsOnTheorem == Spec => EveryStepGetsOn
<1> DEFINE GetsOn == \A c \in Clients : /\ ClientStep(c) => ToDo(c)' < ToDo(c)
                                        /\ ToDo(c)' <= ToDo(c)
           Bounded == \A c \in Clients : ToDo(c) \in 0 .. 11 + Retries(0)
<1>1. IInv => Bounded
  <2> SUFFICES ASSUME IInv, NEW c \in Clients PROVE ToDo(c) \in 0 .. 11 + Retries(0)
    OBVIOUS
  <2>1. Retries(0) \in Nat /\ Retries(tries[c]) \in 0 .. Retries(0)
    BY RetriesFacts DEF IInv, TypeOK
  <2>2. CASE pc[c] \in {"call", "attach"}
    <3>1. ToDo(c) \in {6 + Retries(tries[c]), 7 + Retries(tries[c])}
      BY <2>2 DEF ToDo
    <3> QED
      BY <2>1, <3>1
  <2>3. CASE pc[c] \in {"prepare", "active", "status", "idle"}
    <3>1. ToDo(c) \in {n + Retries(0) : n \in 8 .. 11}
      BY <2>3 DEF ToDo
    <3> QED
      BY <2>1, <3>1
  <2>4. CASE pc[c] \in {"done", "release", "files", "manifest", "push", "poll"}
    <3>1. ToDo(c) \in 0 .. 5
      BY <2>4 DEF ToDo
    <3> QED
      BY <2>1, <3>1
  <2> QED
    BY <2>2, <2>3, <2>4 DEF IInv, TypeOK
<1>2. ASSUME IInv, [Next]_vars, NEW c \in Clients
      PROVE  /\ ClientStep(c) => ToDo(c)' < ToDo(c)
             /\ ToDo(c)' <= ToDo(c)
  <2>1. TypeOK /\ ToDo(c) \in Int
    BY <1>1, <1>2, RetriesFacts DEF IInv
  <2>2. ClientStep(c) => ToDo(c)' < ToDo(c)
    BY <2>1, StepForms, StepForward
  <2>3. Arm(c) \/ ReleaseOwn(c) => ToDo(c)' <= ToDo(c)
    BY <2>1, RetriesFacts DEF Arm, ReleaseOwn, ToDo, TypeOK
  <2>4. pc'[c] = pc[c] /\ tries'[c] = tries[c] => ToDo(c)' = ToDo(c)
    BY DEF ToDo
  <2>5. CASE TargetStep \/ Serve(c) \/ UNCHANGED vars
    <3>1. SafePoint \/ Resume \/ Continue \/ Kill \/ Restart => UNCHANGED <<pc, tries>>
      BY DEF SafePoint, Resume, Continue, Kill, Restart
    <3>2. ASSUME NEW d \in Clients,
                 Engage(d) \/ Mark(d) \/ Cancel(d) \/ OpenReport(d) \/ SnippetEnds(d) \/ Serve(d)
          PROVE  UNCHANGED <<pc, tries>>
      BY <3>2 DEF Engage, Mark, Cancel, OpenReport, SnippetEnds, Serve
    <3>3. UNCHANGED vars => UNCHANGED <<pc, tries>>
      BY DEF vars
    <3>4. UNCHANGED <<pc, tries>>
      BY <2>5, <3>1, <3>2, <3>3 DEF TargetStep
    <3> QED
      BY <2>1, <2>2, <2>4, <3>4
  <2>6. ASSUME NEW d \in Clients, d # c, Serve(d) \/ Arm(d) \/ ClientStep(d) \/ ReleaseOwn(d)
        PROVE  ToDo(c)' = ToDo(c)
    BY <2>1, <2>4, <2>6, OthersStayOut
  <2>7. ToDo(c)' \in Int
    <3>1. IInv'
      BY <1>2, IInvStep
    <3>2. TypeOK'
      BY <3>1 DEF IInv
    <3>3. tries'[c] \in 0 .. MaxAttempts
      BY <3>2 DEF TypeOK
    <3>4. Retries(0) \in Int /\ Retries(tries'[c]) \in Int
      BY <3>3, RetriesFacts
    <3> QED
      BY <3>2, <3>4 DEF ToDo, TypeOK
  <2> QED
    BY <1>2, <2>1, <2>2, <2>3, <2>5, <2>6, <2>7 DEF Next
<1>3. IInv /\ [Next]_vars => GetsOn
  BY <1>2
<1> QED
  BY <1>1, <1>3, Invariant, PTL DEF Spec, EveryStepGetsOn
=============================================================================
