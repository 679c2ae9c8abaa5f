---------------------------- MODULE HooksBootstrap ----------------------------
(***************************************************************************)
(* bootstrap_hooks_tree, called on one run directory by every rank of a    *)
(* run and by its restarts.  The calls share nothing but that directory:   *)
(* the live tree hooks/, which a rename publishes, and the marker file     *)
(* beside it.  Any of them may be killed between two file operations.      *)
(***************************************************************************)
EXTENDS Integers

CONSTANT Starts      (* the calls; each has a session id of its own *)

ASSUME HooksBootstrapAssumption ==
  Starts \cap {"absent", "foreign", "symlink", "empty", "none", "other", "denied"} = {}

VARIABLES
  live,        (* whose tree hooks/ is, or "absent", "foreign", "symlink"    *)
  marker,      (* whose record the marker holds, or "absent", "foreign",
                  or "empty" between the truncation and the write            *)
  built,       (* how far each start's own tree is built                     *)
  record,      (* the record a start is about to write to the marker         *)
  place        (* where each call stands, or how it ended                    *)

treeVars == <<live, marker, built, record, place>>

Refusals == {"unreadable", "conflict", "rejected", "lost", "failed"}
Ended == Refusals \cup {"returned", "crashed", "torn"}

TreeInit ==
  /\ live \in {"absent", "foreign", "symlink"}
  /\ marker \in {"absent", "foreign"}
  /\ built = [s \in Starts |-> "nothing"]
  /\ record = [s \in Starts |-> "none"]
  /\ place = [s \in Starts |-> "start"]

Advance(s, label) == place' = [place EXCEPT ![s] = label]

(* _try_read_record: only a tree that was described holds provenance.  The *)
(* operator edits scripts, and leaves these two files alone.               *)
HasProvenance(tree) == tree \in Starts /\ built[tree] = "described"

-----------------------------------------------------------------------------
(* bootstrap_hooks_tree. *)

CheckMarker(s) ==
  /\ place[s] = "start"
  /\ Advance(s, IF live = "symlink" THEN "conflict"
             ELSE IF marker = "absent" THEN "check_live" ELSE "read_marker")
  /\ UNCHANGED <<live, marker, built, record>>

ReadMarker(s) ==
  /\ place[s] = "read_marker"
  /\ Advance(s, IF marker \in Starts THEN "returned" ELSE "unreadable")
  /\ UNCHANGED <<live, marker, built, record>>

(* _resolve_and_validate_source *)
RejectSource(s) ==
  /\ place[s] = "check_live" /\ Advance(s, "rejected")
  /\ UNCHANGED <<live, marker, built, record>>

CheckLive(s) ==
  /\ place[s] = "check_live"
  /\ Advance(s, IF live = "absent" THEN "stage" ELSE "read_record")
  /\ UNCHANGED <<live, marker, built, record>>

(* Seeded bugs: the marker gets the record of the start that adopts the    *)
(* tree, not the tree's own; or is not finished.                           *)
Adoptable(tree) == HasProvenance(tree)
RecordOfStart(s) == s
RecordRead(s) == live
Unfinished == "returned"
AfterAdoption == "open_marker"

ReadRecord(s) ==
  /\ place[s] = "read_record"
  /\ IF Adoptable(live)
     THEN Advance(s, AfterAdoption) /\ record' = [record EXCEPT ![s] = RecordRead(s)]
     ELSE Advance(s, "conflict") /\ UNCHANGED record
  /\ UNCHANGED <<live, marker, built>>

-----------------------------------------------------------------------------
(* _publish_fresh_tree. *)

(* Seeded bug: the marker is written before the tree is published. *)
AfterFill == "describe"
MarkFirst == "open_marker"
AfterDescribe == "rename"

StageTree(s) ==
  /\ place[s] = "stage" /\ Advance(s, "fill")
  /\ built' = [built EXCEPT ![s] = "partly"]
  /\ UNCHANGED <<live, marker, record>>

(* The baseline is copied, missing slots are seeded. *)
Fill(s) ==
  /\ place[s] = "fill" /\ Advance(s, AfterFill)
  /\ built' = [built EXCEPT ![s] = "filled"]
  /\ UNCHANGED <<live, marker, record>>

Describe(s) ==
  /\ place[s] = "describe" /\ Advance(s, AfterDescribe)
  /\ built' = [built EXCEPT ![s] = "described"]
  /\ record' = [record EXCEPT ![s] = s]
  /\ UNCHANGED <<live, marker>>

(* A copy, a chown or a write fails: the staging tree is removed. *)
BuildFails(s) ==
  /\ place[s] \in {"fill", "describe", "rename"} /\ Advance(s, "failed")
  /\ built' = [built EXCEPT ![s] = "nothing"]
  /\ UNCHANGED <<live, marker, record>>

(* Seeded bug: the rename replaces what is there. *)
Replaceable == live \in {"absent"} \cup Starts
Free == live = "absent"

Rename(s) ==
  /\ place[s] = "rename"
  /\ IF Free
     THEN live' = s /\ Advance(s, "open_marker") /\ UNCHANGED built
     ELSE built' = [built EXCEPT ![s] = "nothing"] /\ Advance(s, "lost") /\ UNCHANGED live
  /\ UNCHANGED <<marker, record>>

(* _write_json: write_text truncates the marker, then writes it. *)
OpenMarker(s) ==
  /\ place[s] = "open_marker" /\ Advance(s, "write_marker")
  /\ marker' = "empty"
  /\ UNCHANGED <<live, built, record>>

WriteMarker(s) ==
  /\ place[s] = "write_marker" /\ Advance(s, "returned")
  /\ marker' = record[s]
  /\ UNCHANGED <<live, built, record>>

-----------------------------------------------------------------------------
(* The process is killed, or the marker cannot be written: torn, when it   *)
(* was truncated already.                                                  *)
Crash(s) ==
  /\ place[s] \notin Ended
  /\ Advance(s, IF place[s] = "write_marker" THEN "torn" ELSE "crashed")
  /\ UNCHANGED <<live, marker, built, record>>

Step(s) ==
  \/ CheckMarker(s) \/ ReadMarker(s) \/ RejectSource(s) \/ CheckLive(s)
  \/ ReadRecord(s) \/ StageTree(s) \/ Fill(s) \/ Describe(s) \/ BuildFails(s)
  \/ Rename(s) \/ OpenMarker(s) \/ WriteMarker(s) \/ Crash(s)

AllEnded == (\A s \in Starts : place[s] \in Ended) /\ UNCHANGED treeVars

TreeNext == AllEnded \/ \E s \in Starts : Step(s)

TreeSpec == TreeInit /\ [][TreeNext]_treeVars

-----------------------------------------------------------------------------
TreeTypeOK ==
  /\ live \in {"absent", "foreign", "symlink"} \cup Starts
  /\ marker \in {"absent", "foreign", "empty"} \cup Starts
  /\ built \in [Starts -> {"nothing", "partly", "filled", "described"}]
  /\ record \in [Starts -> {"none"} \cup Starts]
  /\ place \in [Starts -> Ended \cup {"start", "read_marker", "check_live", "read_record",
                 "stage", "fill", "describe", "rename", "open_marker", "write_marker"}]

(* Whichever start wrote the marker last, it records the session that      *)
(* published the live tree, also when another start recovered the tree.    *)
MarkerNamesTree == marker \in Starts => live = marker

(* A start that is given the live directory is given a complete tree.      *)
ReturnedTreeIsComplete ==
  \A s \in Starts : place[s] = "returned" => HasProvenance(live)

(* "never overwritten or adopted silently": with a tree or a marker that   *)
(* is not trainctl's in its place, no start changes either.                *)
ForeignIsUntouched ==
  [][(live \in {"foreign", "symlink"} \/ marker = "foreign") => UNCHANGED <<live, marker>>]_treeVars

(* Once some start was given the tree and all are through, the marker is   *)
(* complete, even if the publisher was killed before it began to write it: *)
(* the next start finished that for it.                                    *)
SettledIsMarked ==
  /\ \A s \in Starts : place[s] \in Ended \ {"torn"}
  /\ \E s \in Starts : place[s] = "returned"
  => marker = live

(* All starts of a run get one and the same tree, or none.                 *)
Promise == INSTANCE OneTree WITH
  tree <- CASE live = "absent" -> "none" [] live \in {"foreign", "symlink"} -> "other" [] OTHER -> live,
  verdict <- [s \in Starts |-> CASE place[s] = "returned" -> live
                                [] place[s] \in Ended \ {"returned"} -> "denied"
                                [] OTHER -> "none"]
ImplementsOneTree == Promise!Spec
=============================================================================
