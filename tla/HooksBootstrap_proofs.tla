------------------------ MODULE HooksBootstrap_proofs ------------------------
(* Proofs about HooksBootstrap, for any number of starts, ranks or restarts.*)
EXTENDS HooksBootstrap, TLAPS

-----------------------------------------------------------------------------
(* The inductive invariant. *)

(* What was published is complete, and its start is past building it.      *)
LiveInv ==
  live \in Starts =>
    /\ built[live] = "described"
    /\ place[live] \in {"open_marker", "write_marker", "returned", "crashed", "torn"}

(* Whoever is about to rename has described its tree, and whoever is about *)
(* to write the marker will write the record of the live tree.             *)
RecordInv ==
  \A s \in Starts :
    /\ place[s] = "rename" => built[s] = "described" /\ record[s] = s
    /\ place[s] \in {"open_marker", "write_marker"} => live \in Starts /\ record[s] = live

(* The marker stays foreign or absent until a tree is published, and an    *)
(* empty one has a start that is writing it, or failed to.                 *)
MarkerInv ==
  /\ marker \in Starts => live = marker
  /\ marker = "empty" => /\ live \in Starts
                         /\ \E s \in Starts : place[s] \in {"write_marker", "torn"}
  /\ marker = "foreign" =>
       \A s \in Starts : place[s] \in {"start", "read_marker", "unreadable", "conflict", "crashed"}
  /\ \A s \in Starts : place[s] = "returned" => live \in Starts /\ marker # "absent"

IInv == TreeTypeOK /\ LiveInv /\ RecordInv /\ MarkerInv

(* The initial states satisfy the invariant.                               *)
LEMMA IInvInit == TreeInit => IInv
BY HooksBootstrapAssumption
   DEF TreeInit, IInv, TreeTypeOK, LiveInv, RecordInv, MarkerInv, Ended, Refusals

-----------------------------------------------------------------------------
(* The steps that read, and those that touch the start's own staging tree. *)
LEMMA ReadingStep ==
  ASSUME IInv, NEW s \in Starts,
         CheckMarker(s) \/ ReadMarker(s) \/ RejectSource(s) \/ CheckLive(s) \/ ReadRecord(s)
  PROVE  IInv'
<1> USE HooksBootstrapAssumption
        DEF IInv, TreeTypeOK, LiveInv, RecordInv, MarkerInv, Advance, Ended, Refusals
<1>1. CASE CheckMarker(s)
  BY <1>1 DEF CheckMarker
<1>2. CASE ReadMarker(s)
  BY <1>2 DEF ReadMarker
<1>3. CASE RejectSource(s) \/ CheckLive(s)
  BY <1>3 DEF RejectSource, CheckLive
<1>4. CASE ReadRecord(s)
  BY <1>4 DEF ReadRecord, Adoptable, HasProvenance, RecordRead, AfterAdoption
<1> QED BY <1>1, <1>2, <1>3, <1>4

(* Building the tree in the staging directory.                             *)
LEMMA BuildingStep ==
  ASSUME IInv, NEW s \in Starts, StageTree(s) \/ Fill(s) \/ Describe(s) \/ BuildFails(s)
  PROVE  IInv'
<1> USE HooksBootstrapAssumption
        DEF IInv, TreeTypeOK, LiveInv, RecordInv, MarkerInv, Advance, Ended, Refusals
<1>1. CASE StageTree(s)
  BY <1>1 DEF StageTree
<1>2. CASE Fill(s)
  BY <1>2 DEF Fill, AfterFill
<1>3. CASE Describe(s)
  BY <1>3 DEF Describe, AfterDescribe
<1>4. CASE BuildFails(s)
  BY <1>4 DEF BuildFails
<1> QED BY <1>1, <1>2, <1>3, <1>4

(* The steps on shared files, and the crash between any two steps. *)
LEMMA PublishingStep ==
  ASSUME IInv, NEW s \in Starts, Rename(s) \/ OpenMarker(s) \/ WriteMarker(s) \/ Crash(s)
  PROVE  IInv'
<1> USE HooksBootstrapAssumption
        DEF IInv, TreeTypeOK, LiveInv, RecordInv, MarkerInv, Advance, Ended, Refusals
<1>1. CASE Rename(s)
  BY <1>1 DEF Rename, Free
<1>2. CASE OpenMarker(s)
  BY <1>2 DEF OpenMarker
<1>3. CASE WriteMarker(s)
  BY <1>3 DEF WriteMarker
<1>4. CASE Crash(s)
  BY <1>4 DEF Crash
<1> QED BY <1>1, <1>2, <1>3, <1>4

(* Every step keeps the invariant.                                         *)
LEMMA IInvStep == IInv /\ [TreeNext]_treeVars => IInv'
<1> SUFFICES ASSUME IInv, [TreeNext]_treeVars PROVE IInv'
  OBVIOUS
<1>1. CASE UNCHANGED treeVars \/ AllEnded
  BY <1>1 DEF treeVars, AllEnded, IInv, TreeTypeOK, LiveInv, RecordInv, MarkerInv
<1>2. ASSUME NEW s \in Starts, Step(s) PROVE IInv'
  BY <1>2, ReadingStep, BuildingStep, PublishingStep DEF Step
<1> QED BY <1>1, <1>2 DEF TreeNext

(* The inductive invariant, and with it types and the record in the marker,*)
(* hold however starts interleave and wherever they are killed.            *)
THEOREM Invariant == TreeSpec => [](IInv /\ MarkerNamesTree)
<1>1. IInv => MarkerNamesTree
  BY DEF IInv, MarkerInv, MarkerNamesTree
<1> QED BY <1>1, IInvInit, IInvStep, PTL DEF TreeSpec

(* A start is only ever given a complete tree.                             *)
THEOREM ReturnedTreeIsCompleteTheorem == TreeSpec => []ReturnedTreeIsComplete
<1>1. IInv => ReturnedTreeIsComplete
  BY HooksBootstrapAssumption
     DEF IInv, LiveInv, MarkerInv, ReturnedTreeIsComplete, HasProvenance
<1> QED BY <1>1, Invariant, PTL

(* When all are through and one got the tree, the marker is complete.      *)
THEOREM SettledIsMarkedTheorem == TreeSpec => []SettledIsMarked
<1>1. ASSUME IInv PROVE SettledIsMarked
  <2> SUFFICES ASSUME \A s \in Starts : place[s] \in Ended \ {"torn"},
                      NEW t \in Starts, place[t] = "returned"
               PROVE  marker = live
    BY DEF SettledIsMarked
  <2>1. live \in Starts /\ marker # "absent" /\ marker # "foreign"
    BY <1>1 DEF IInv, MarkerInv
  <2>2. marker # "empty"
    BY <1>1 DEF IInv, MarkerInv, Ended, Refusals
  <2> QED BY <1>1, <2>1, <2>2 DEF IInv, TreeTypeOK, MarkerInv
<1> QED BY <1>1, Invariant, PTL

(* What is not trainctl's is neither overwritten nor adopted.              *)
THEOREM ForeignIsUntouchedTheorem == TreeSpec => ForeignIsUntouched
<1> DEFINE Untouched ==
      (live \in {"foreign", "symlink"} \/ marker = "foreign") => UNCHANGED <<live, marker>>
<1>1. IInv /\ [TreeNext]_treeVars => [Untouched]_treeVars
  <2> SUFFICES ASSUME IInv, NEW s \in Starts, Step(s),
                      live \in {"foreign", "symlink"} \/ marker = "foreign"
               PROVE  UNCHANGED <<live, marker>>
    BY DEF TreeNext, AllEnded, treeVars
  <2>1. live \notin Starts \/ marker = "foreign"
    BY HooksBootstrapAssumption
  <2>2. place[s] \notin {"open_marker", "write_marker"} /\ (place[s] = "rename" => live # "absent")
    BY <2>1 DEF IInv, RecordInv, MarkerInv
  <2> QED
    BY <2>2 DEF Step, CheckMarker, ReadMarker, RejectSource, CheckLive, ReadRecord, StageTree,
                Fill, Describe, BuildFails, Rename, Free, OpenMarker, WriteMarker, Crash
<1> QED BY <1>1, Invariant, PTL DEF TreeSpec, ForeignIsUntouched

-----------------------------------------------------------------------------
(* The tree is write-once: every step is one of OneTree, or a stutter.     *)
Tree == CASE live = "absent" -> "none" [] live \in {"foreign", "symlink"} -> "other" [] OTHER -> live
VerdictOf(s) == CASE place[s] = "returned" -> live
                  [] place[s] \in Ended \ {"returned"} -> "denied"
                  [] OTHER -> "none"
Verdict == [s \in Starts |-> VerdictOf(s)]

(* Steps that move one start and leave the live tree alone. *)
LEMMA MoveStep ==
  ASSUME IInv, NEW s \in Starts, NEW label, place[s] \notin Ended,
         place' = [place EXCEPT ![s] = label], live' = live,
         label = "returned" => live \in Starts
  PROVE  Tree' = Tree /\
         \/ Verdict' = Verdict
         \/ label = "returned" /\ Promise!Grant(s)
         \/ Promise!Deny(s)
<1>1. Tree' = Tree
  BY DEF Tree
<1>2. \A t \in Starts \ {s} : VerdictOf(t)' = VerdictOf(t)
  BY DEF VerdictOf, IInv, TreeTypeOK
<1>3. VerdictOf(s) = "none" /\ place'[s] = label
  BY DEF VerdictOf, IInv, TreeTypeOK, Ended
<1>4. VerdictOf(s)' = CASE label = "returned" -> live
                        [] label \in Ended \ {"returned"} -> "denied"
                        [] OTHER -> "none"
  BY <1>3 DEF VerdictOf
<1>5. CASE label = "returned"
  <2>1. Tree = live
    BY <1>5, HooksBootstrapAssumption DEF Tree
  <2>2. Verdict' = [Verdict EXCEPT ![s] = Tree]
    BY <1>2, <1>4, <1>5, <2>1 DEF Verdict
  <2> QED BY <1>1, <1>3, <1>5, <2>1, <2>2 DEF Promise!Grant, Tree, Verdict, VerdictOf
<1>6. CASE label \in Ended \ {"returned"}
  <2>1. Verdict' = [Verdict EXCEPT ![s] = "denied"]
    BY <1>2, <1>4, <1>6 DEF Verdict
  <2> QED BY <1>1, <1>3, <2>1 DEF Promise!Deny, Tree, Verdict, VerdictOf
<1>7. CASE label \notin Ended
  BY <1>1, <1>2, <1>3, <1>4, <1>7 DEF Verdict, Ended
<1> QED BY <1>5, <1>6, <1>7

(* The rename that finds no live tree publishes it. *)
LEMMA PublishStep ==
  ASSUME IInv, NEW s \in Starts, Rename(s), live = "absent"
  PROVE  Promise!Publish(s)
<1>1. live' = s /\ place' = [place EXCEPT ![s] = "open_marker"] /\ place[s] = "rename"
  BY DEF Rename, Free, Advance
<1>2. Tree = "none" /\ Tree' = s
  BY <1>1, HooksBootstrapAssumption DEF Tree
<1>3. \A t \in Starts : place[t] # "returned" /\ place'[t] # "returned"
  BY <1>1, HooksBootstrapAssumption DEF IInv, TreeTypeOK, MarkerInv
<1>4. Verdict[s] = "none" /\ Verdict' = Verdict
  BY <1>1, <1>3 DEF Verdict, VerdictOf, IInv, TreeTypeOK, Ended, Refusals
<1> QED BY <1>2, <1>4 DEF Promise!Publish, Tree, Verdict, VerdictOf

(* A step of a start publishes the tree, answers the start, or shows       *)
(* nothing.                                                                *)
LEMMA StepRefines ==
  ASSUME IInv, NEW s \in Starts, Step(s)
  PROVE  Promise!Publish(s) \/ Promise!Grant(s) \/ Promise!Deny(s)
           \/ (Tree' = Tree /\ Verdict' = Verdict)
<1> DEFINE Moved(label) == place' = [place EXCEPT ![s] = label] /\ live' = live
           Labels == Ended \cup {"check_live", "read_marker", "stage", "read_record", "fill",
                                 "describe", "rename", "open_marker", "write_marker"}
<1>1. CASE Rename(s) /\ live = "absent"
  BY <1>1, PublishStep
<1>2. CASE ~(Rename(s) /\ live = "absent")
  <2>1. place[s] \notin Ended
    BY DEF Step, CheckMarker, ReadMarker, RejectSource, CheckLive, ReadRecord, StageTree, Fill,
           Describe, BuildFails, Rename, OpenMarker, WriteMarker, Crash, Ended, Refusals
  <2>2. \E label \in Labels : Moved(label) /\ (label = "returned" => live \in Starts)
    <3>1. CASE CheckMarker(s) \/ RejectSource(s) \/ CheckLive(s)
      BY <3>1 DEF CheckMarker, RejectSource, CheckLive, Advance, Ended, Refusals
    <3>2. CASE ReadMarker(s)
      BY <3>2 DEF ReadMarker, Advance, Ended, Refusals, IInv, MarkerInv
    <3>3. CASE ReadRecord(s)
      BY <3>3 DEF ReadRecord, AfterAdoption, Advance, Ended, Refusals
    <3>4. CASE StageTree(s) \/ Fill(s) \/ Describe(s) \/ BuildFails(s)
      BY <3>4 DEF StageTree, Fill, AfterFill, Describe, AfterDescribe, BuildFails, Advance, Ended, Refusals
    <3>5. CASE Rename(s)
      BY <3>5, <1>2 DEF Rename, Free, Advance, Ended, Refusals
    <3>6. CASE OpenMarker(s) \/ Crash(s)
      BY <3>6 DEF OpenMarker, Crash, Advance, Ended, Refusals
    <3>7. CASE WriteMarker(s)
      BY <3>7 DEF WriteMarker, Advance, Ended, Refusals, IInv, RecordInv
    <3> QED BY <3>1, <3>2, <3>3, <3>4, <3>5, <3>6, <3>7 DEF Step
  <2>3. PICK label \in Labels : Moved(label) /\ (label = "returned" => live \in Starts)
    BY <2>2
  <2> QED BY <2>1, <2>3, MoveStep
<1> QED BY <1>1, <1>2

(* Every start of a run, however many race and wherever they are killed,   *)
(* gets the one tree that was published, or none.                          *)
THEOREM Refinement == TreeSpec => ImplementsOneTree
<1>1. TreeInit => Promise!Init
  BY HooksBootstrapAssumption DEF TreeInit, Promise!Init, Ended, Refusals
<1>2. IInv /\ [TreeNext]_treeVars => [Promise!Next]_(Promise!vars)
  <2> SUFFICES ASSUME IInv, [TreeNext]_treeVars PROVE [Promise!Next]_(Promise!vars)
    OBVIOUS
  <2>1. CASE UNCHANGED treeVars \/ AllEnded
    BY <2>1 DEF treeVars, AllEnded, Promise!vars
  <2>2. ASSUME NEW s \in Starts, Step(s) PROVE [Promise!Next]_(Promise!vars)
    BY <2>2, StepRefines DEF Promise!Next, Promise!vars, Tree, Verdict, VerdictOf
  <2> QED BY <2>1, <2>2 DEF TreeNext
<1> QED BY <1>1, <1>2, Invariant, PTL DEF TreeSpec, ImplementsOneTree, Promise!Spec
=============================================================================
