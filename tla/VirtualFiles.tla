----------------------------- MODULE VirtualFiles -----------------------------
(***************************************************************************)
(* The virtual files, read by FUSE threads (getattr, open, read, release)  *)
(* and by REST threads (GET /files/...) while the training thread          *)
(* publishes.  A static file is generated from what is published when its  *)
(* generator reads it, which is twice for a file that tests an optional    *)
(* value first; a live file is a request to the broker of LiveCapture,     *)
(* which answers, fails or times out.                                      *)
(*                                                                         *)
(* A file's content is the publication it was made from; its text is left  *)
(* out, and so are the directories, which only the ranks change.           *)
(***************************************************************************)
EXTENDS Integers, FiniteSets

CONSTANTS Threads,           (* of the mount and of the REST server          *)
          MaxPublications,   (* bound: publications in one run               *)
          MaxHandles         (* bound: files opened in one run               *)

ASSUME VirtualFilesAssumption ==
  IsFiniteSet(Threads) /\ MaxPublications \in Nat \ {0} /\ MaxHandles \in Nat

VARIABLES
  shown,        (* what the runtime publishes: a generation, and which of    *)
                (* the optional values it has                                *)
  call,         (* the file operation each thread is in                      *)
  handles,      (* TrainctlFS._handles                                       *)
  nextFh,       (* TrainctlFS._next_fh                                       *)
  given         (* history: the contents read through each handle            *)

table == <<handles, nextFh, given>>
fileVars == <<shown, call, table>>

(* No publication has both: a breakpoint's are made without a batch index. *)
Optional == {"batch", "exception"}
Static == {"snapshot"} \cup Optional

Publication == [generation : 1 .. MaxPublications, has : Optional \cup {"neither"}]
Handle == 1 .. MaxHandles
Nothing == [what |-> "nothing", of |-> 0]
Content == [what : {"nothing", "value", "empty", "None", "capture"}, of : 0 .. MaxPublications]
Idle == [at |-> "idle", via |-> "none", file |-> "none", since |-> 0, content |-> Nothing]

FilesInit ==
  /\ shown = [generation |-> 1, has |-> "neither"]
  /\ call = [t \in Threads |-> Idle]
  /\ handles = [h \in Handle |-> Nothing] /\ nextFh = 1
  /\ given = [h \in Handle |-> {}]

(* The training thread replaces the snapshot. *)
Publish ==
  /\ shown.generation < MaxPublications
  /\ \E has \in Optional \cup {"neither"} :
       shown' = [generation |-> shown.generation + 1, has |-> has]
  /\ UNCHANGED <<call, table>>

-----------------------------------------------------------------------------
(* generate, on behalf of open, or of getattr and GET /files, which keep   *)
(* nothing: "get" stands for both.                                         *)

Opening == {t \in Threads : call[t].via = "open"}
Start(t, at, via, file) ==
  /\ call[t].at = "idle"
  /\ via = "open" => nextFh + Cardinality(Opening) <= MaxHandles
  /\ call' = [call EXCEPT ![t] = [at |-> at, via |-> via, file |-> file,
                                  since |-> IF file = "live" THEN 0 ELSE shown.generation,
                                  content |-> Nothing]]
  /\ UNCHANGED <<shown, table>>

Call(t, via, file) == Start(t, "generate", via, file)

(* getattr does not generate a live file, open and GET /files do. *)
CallLive(t, via) == Start(t, "live", via, "live")

Generated(t, what, s) ==
  call' = [call EXCEPT ![t].at = "generated", ![t].content = [what |-> what, of |-> s.generation]]
Failed(t) == call' = [call EXCEPT ![t].at = "failed"]

(* What the generator reads. *)
Current == shown

(* The value or, of an optional one, the test for it.  Seeded bug: the     *)
(* value is used whatever the test said.                                   *)
Untested(t) == call[t].file \in Optional
Tested(t) == call[t].file \in Optional /\ shown.has = call[t].file

FirstRead(t) ==
  /\ call[t].at = "generate"
  /\ IF Tested(t) THEN call' = [call EXCEPT ![t].at = "tested"]
     ELSE Generated(t, IF call[t].file \in Optional THEN "empty" ELSE "value", Current)
  /\ UNCHANGED <<shown, table>>

(* The second read of the snapshot, which may have lost the value by now:  *)
(* str prints None, asdict raises.                                         *)
SecondRead(t) ==
  /\ call[t].at = "tested"
  /\ \/ shown.has = call[t].file /\ Generated(t, "value", Current)
     \/ shown.has # call[t].file /\ call[t].file = "batch" /\ Generated(t, "None", Current)
     \/ shown.has # call[t].file /\ call[t].file = "exception" /\ Failed(t)
  /\ UNCHANGED <<shown, table>>

(* The broker's answer, or its error, or its timeout. *)
Nowhere == [generation |-> 0]
Live(t) ==
  /\ call[t].at = "live" /\ (Generated(t, "capture", Nowhere) \/ Failed(t))
  /\ UNCHANGED <<shown, table>>

-----------------------------------------------------------------------------
(* What the operation does with the content: open stores it in a handle,   *)
(* under the lock; getattr returns its length and the route the content.   *)
(* Seeded bug: the number of the handle is not taken.                      *)
End(t) == call' = [call EXCEPT ![t] = Idle]

NotTaken == nextFh
Taken == nextFh + 1

Open(t) ==
  /\ call[t].at = "generated" /\ call[t].via = "open"
  /\ handles' = [handles EXCEPT ![nextFh] = call[t].content]
  /\ nextFh' = Taken
  /\ End(t)
  /\ UNCHANGED <<shown, given>>

Return(t) ==
  /\ \/ call[t].at = "generated" /\ call[t].via # "open"
     \/ call[t].at = "failed"
  /\ End(t)
  /\ UNCHANGED <<shown, table>>

(* read, of any part of the file, and release, by whoever has the handle.  *)
(* Seeded bug: read generates the content again.                           *)
Regenerated(h) == [handles[h] EXCEPT !.of = shown.generation]
Served(h) == handles[h]

IsOpen(h) == handles[h] # Nothing

Read(h) ==
  /\ IsOpen(h)
  /\ given' = [given EXCEPT ![h] = @ \cup {Served(h)}]
  /\ UNCHANGED <<shown, call, handles, nextFh>>

Release(h) ==
  /\ IsOpen(h)
  /\ handles' = [handles EXCEPT ![h] = Nothing]
  /\ given' = [given EXCEPT ![h] = {}]
  /\ UNCHANGED <<shown, call, nextFh>>

-----------------------------------------------------------------------------
Operations == {"open", "get"}

Operate(t) ==
  \/ \E via \in Operations : CallLive(t, via) \/ \E file \in Static : Call(t, via, file)
  \/ FirstRead(t) \/ SecondRead(t) \/ Live(t) \/ Open(t) \/ Return(t)

FilesNext ==
  \/ Publish
  \/ \E t \in Threads : Operate(t)
  \/ \E h \in Handle : Read(h) \/ Release(h)

FilesSpec == FilesInit /\ [][FilesNext]_fileVars

-----------------------------------------------------------------------------
FilesTypeOK ==
  /\ shown \in Publication
  /\ call \in [Threads -> [at : {"idle", "generate", "tested", "live", "generated", "failed"},
                           via : Operations \cup {"none"},
                           file : Static \cup {"live", "none"},
                           since : 0 .. MaxPublications, content : Content]]
  /\ handles \in [Handle -> Content] /\ nextFh \in 1 .. MaxHandles + 1
  /\ given \in [Handle -> SUBSET Content]

(* An open file is a snapshot: all its reads, by any thread and whatever   *)
(* is published or opened meanwhile, see one content; and the content of a *)
(* static file was published while it was being opened, never before       *)
(* (filesystem.py 3-8).  (With the types.)                                 *)
OpenIsASnapshot ==
  /\ FilesTypeOK
  /\ \A h \in Handle : Cardinality(given[h]) <= 1
  /\ \A t \in Threads :
       call[t].at = "generated" /\ call[t].file \in Static =>
         call[t].content.of \in call[t].since .. shown.generation

(* The two reads of an optional value may disagree: a file of it then      *)
(* prints None, or fails.  That happens only to an operation during which  *)
(* something was published.                                                *)
TornOnlyByPublication ==
  \A t \in Threads :
    call[t].file \in Static /\ (call[t].at = "failed" \/ call[t].content.what = "None")
      => shown.generation > call[t].since
=============================================================================
