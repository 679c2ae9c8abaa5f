---------------------------- MODULE Readers_proofs ----------------------------
(***************************************************************************)
(* Proofs about LiveCapture and VirtualFiles, for any number of readers,   *)
(* requests, threads, publications and open files.                         *)
(***************************************************************************)
EXTENDS LiveCapture, VirtualFiles, FiniteSetTheorems, TLAPS

(***************************************************************************)
(* The broker of LiveCapture.                                              *)
(***************************************************************************)

USE DEF broker

(* The initial states have the right types.                                *)
LEMMA TypeInit == Init => TypeOK
<1> SUFFICES ASSUME Init PROVE TypeOK
  OBVIOUS
<1>1. interrupted \in BOOLEAN
  BY DEF Init
<1>2. reader \in [Readers -> Reader]
  BY DEF Init, Reader
<1>3. outcome \in [Requests -> Outcomes]
  BY DEF Init, Outcomes
<1> QED
  BY <1>1, <1>2, <1>3, LiveCaptureAssumption DEF Init, TypeOK, None

(* Every step keeps the types.                                             *)
LEMMA TypeStep == TypeOK /\ [Next]_vars => TypeOK'
<1> SUFFICES ASSUME TypeOK, [Next]_vars PROVE TypeOK'
  OBVIOUS
<1> USE LiveCaptureAssumption DEF TypeOK
<1>1. CASE Take
  BY <1>1 DEF Take, SwapPending
<1>2. CASE Compute
  BY <1>2 DEF Compute, Outcomes
<1>3. CASE Wake
  BY <1>3 DEF Wake, Woken, None, Requests
<1>4. CASE Interrupt
  <2>1. interrupted' \in BOOLEAN
    BY <1>4 DEF Interrupt
  <2> QED
    BY <1>4, <2>1 DEF Interrupt
<1>5. ASSUME NEW r \in Readers, Ask(r) PROVE TypeOK'
  <2>1. issued' \in Requests /\ issued' \in 0 .. MaxRequests
    BY <1>5 DEF Ask, Requests
  <2>2. reader' \in [Readers -> Reader]
    BY <1>5, <2>1 DEF Ask, Reader
  <2> QED
    BY <1>5, <2>1, <2>2 DEF Ask
<1>6. ASSUME NEW r \in Readers, Answer(r) PROVE TypeOK'
  <2>1. reader' \in [Readers -> Reader]
    <3>1. \A w \in {"error", "result"} : Replied(r, w) \in Reader
      BY DEF Replied, Reader
    <3> QED
      BY <1>6, <3>1 DEF Answer
  <2> QED
    BY <1>6, <2>1 DEF Answer
<1>7. ASSUME NEW r \in Readers, Expire(r) PROVE TypeOK'
  <2>1. reader' \in [Readers -> Reader]
    BY <1>7 DEF Expire, Reader
  <2> QED
    BY <1>7, <2>1 DEF Expire
<1>8. ASSUME NEW r \in Readers, Withdraw(r) PROVE TypeOK'
  <2>1. reader' \in [Readers -> Reader]
    BY <1>8 DEF Withdraw, Replied, Reader
  <2> QED
    BY <1>8, <2>1 DEF Withdraw, PendingWithout
<1>9. CASE UNCHANGED vars
  BY <1>9 DEF vars
<1> QED
  BY <1>1, <1>2, <1>3, <1>4, <1>5, <1>6, <1>7, <1>8, <1>9 DEF Next, Training, Reading, Done

-----------------------------------------------------------------------------
(* Every request has one reader, and passes through the list, the batch    *)
(* and the computation in that order.                                      *)
ReaderInv ==
  /\ \A r \in Readers : Waiting(r) => reader[r].item \in Requests /\ reader[r].item <= issued
  /\ \A r, s \in Readers : Waiting(r) /\ Waiting(s) /\ reader[r].item = reader[s].item => r = s

BatchInv ==
  /\ \A q \in pending \cup taken : q <= issued /\ outcome[q] = "none"
  /\ \A q \in Requests : q > issued => outcome[q] = "none"
  /\ pending \cap taken = {}
  /\ current \notin pending \cup taken

EventInv ==
  /\ current <= issued /\ \A q \in event : q <= issued
  /\ event \cap (pending \cup taken) = {}

IInv == ReaderInv /\ BatchInv /\ EventInv /\ NoRequestIsLost /\ PendingIsAwaited

(* The initial states satisfy the invariant.                               *)
LEMMA IInvInit == Init => IInv
  BY DEF Init, IInv, ReaderInv, BatchInv, EventInv, NoRequestIsLost, PendingIsAwaited, Waiting, None

(* Every step keeps the invariant.                                         *)
LEMMA IInvStep == TypeOK /\ IInv /\ [Next]_vars => IInv'
<1> SUFFICES ASSUME TypeOK, IInv, [Next]_vars PROVE IInv'
  OBVIOUS
<1> USE LiveCaptureAssumption DEF TypeOK, IInv, ReaderInv, BatchInv, EventInv, NoRequestIsLost,
        PendingIsAwaited, Waiting, Requests, None
<1>1. CASE Take
  BY <1>1 DEF Take, SwapPending
<1>2. CASE Compute
  BY <1>2 DEF Compute
<1>3. CASE Wake
  BY <1>3 DEF Wake, Woken
<1>4. CASE Interrupt
  BY <1>4 DEF Interrupt
<1>5. ASSUME NEW r \in Readers, Ask(r) PROVE IInv'
  <2>1. /\ issued' = issued + 1 /\ pending' = pending \cup {issued'}
        /\ UNCHANGED <<taken, current, outcome, event, interrupted>>
        /\ reader' = [reader EXCEPT ![r] = [at |-> "waiting", item |-> issued', reply |-> "none"]]
    BY <1>5 DEF Ask
  <2>2. reader'[r].item = issued' /\ Waiting(r)'
    BY <2>1
  <2>3. \A s \in Readers : s # r => reader'[s] = reader[s]
    BY <2>1
  <2>4. \A s \in Readers : s # r /\ Waiting(s) => reader[s].item # issued'
    BY <2>1
  <2>5. ReaderInv'
    BY <2>1, <2>2, <2>3, <2>4, <1>5 DEF Ask
  <2>6. BatchInv'
    <3>1. issued' \in Requests /\ issued' # current /\ outcome[issued'] = "none" /\ issued' \notin taken
      <4>1. issued' \in Requests /\ issued' > issued
        BY <1>5, <2>1 DEF Ask
      <4>2. issued' # current /\ issued' \notin taken
        BY <4>1
      <4> QED
        BY <4>1, <4>2
    <3> QED
      BY <2>1, <3>1
  <2>7. NoRequestIsLost'
    BY <2>1, <2>2, <2>3
  <2>8. PendingIsAwaited'
    <3>1. \A q \in pending : \E s \in Readers : s # r /\ Waiting(s) /\ reader[s].item = q
      BY <1>5 DEF Ask
    <3>2. \A q \in pending : \E s \in Readers : Waiting(s)' /\ reader'[s].item = q
      BY <3>1, <2>3
    <3> QED
      BY <2>1, <2>2, <3>2
  <2>9. EventInv'
    BY <2>1
  <2> QED
    BY <2>5, <2>6, <2>7, <2>8, <2>9
<1>6. ASSUME NEW r \in Readers, Answer(r) PROVE IInv'
  <2>1. \A s \in Readers : s # r => reader'[s] = reader[s]
    BY <1>6 DEF Answer
  <2>2. reader'[r].at = "idle" /\ Waiting(r)
    <3>1. \A w \in {"error", "result"} : Replied(r, w).at = "idle"
      BY DEF Replied, Reader
    <3> QED
      BY <1>6, <3>1 DEF Answer
  <2>3. UNCHANGED <<issued, pending, taken, current, outcome, event, interrupted>>
    BY <1>6 DEF Answer
  <2>4. reader[r].item \notin pending
    BY <1>6, <2>2 DEF Answer
  <2> QED
    BY <2>1, <2>2, <2>3, <2>4
<1>7. ASSUME NEW r \in Readers, Expire(r) PROVE IInv'
  BY <1>7 DEF Expire
<1>8. ASSUME NEW r \in Readers, Withdraw(r) PROVE IInv'
  BY <1>8 DEF Withdraw, Replied, PendingWithout
<1>9. CASE UNCHANGED vars
  BY <1>9 DEF vars
<1> QED
  BY <1>1, <1>2, <1>3, <1>4, <1>5, <1>6, <1>7, <1>8, <1>9 DEF Next, Training, Reading, Done

(* Types, and the inductive invariant of the broker. *)
THEOREM Invariant == Spec => [](TypeOK /\ IInv)
  BY TypeInit, TypeStep, IInvInit, IInvStep, PTL DEF Spec

(* Swapping the list under the lock loses no request, however readers      *)
(* append and withdraw around it.                                          *)
THEOREM NoRequestIsLostTheorem == Spec => []NoRequestIsLost
<1>1. IInv => NoRequestIsLost
  BY DEF IInv
<1> QED
  BY <1>1, Invariant, PTL

(* Readers that gave up leave nothing in the list. *)
THEOREM PendingIsAwaitedTheorem == Spec => []PendingIsAwaited
<1>1. IInv => PendingIsAwaited
  BY DEF IInv
<1> QED
  BY <1>1, Invariant, PTL

(* A request is computed at most once. *)
THEOREM ComputedOnceTheorem == Spec => ComputedOnce
<1>1. ASSUME TypeOK, IInv, [Next]_vars, NEW q \in Requests, outcome[q] # "none"
      PROVE  outcome'[q] = outcome[q] /\ q \notin pending' \cup taken'
  <2> USE <1>1 DEF TypeOK, IInv, BatchInv, Requests
  <2>1. q \notin pending \cup taken /\ q <= issued
    OBVIOUS
  <2>2. CASE Take
    BY <2>1, <2>2 DEF Take, SwapPending
  <2>3. CASE Compute
    BY <2>1, <2>3 DEF Compute
  <2>4. CASE Wake
    BY <2>1, <2>4 DEF Wake
  <2>5. CASE Interrupt
    BY <2>1, <2>5 DEF Interrupt
  <2>6. ASSUME NEW r \in Readers, Ask(r)
        PROVE  outcome'[q] = outcome[q] /\ q \notin pending' \cup taken'
    BY <2>1, <2>6, LiveCaptureAssumption DEF Ask
  <2>7. ASSUME NEW r \in Readers, Answer(r) \/ Expire(r) \/ Withdraw(r)
        PROVE  outcome'[q] = outcome[q] /\ q \notin pending' \cup taken'
    BY <2>1, <2>7 DEF Answer, Expire, Withdraw, PendingWithout
  <2>8. CASE UNCHANGED vars
    BY <2>1, <2>8 DEF vars
  <2> QED
    BY <2>2, <2>3, <2>4, <2>5, <2>6, <2>7, <2>8 DEF Next, Training, Reading, Done
<1>2. TypeOK /\ IInv /\ [Next]_vars =>
        [\A q \in Requests : outcome[q] # "none" => outcome'[q] = outcome[q]
                                                     /\ q \notin pending' \cup taken']_vars
  BY <1>1
<1> QED
  BY <1>2, Invariant, PTL DEF Spec, ComputedOnce

-----------------------------------------------------------------------------
(***************************************************************************)
(* The virtual files.                                                      *)
(***************************************************************************)

(* A thread that does nothing opens nothing; a call for a live file is the *)
(* broker's until it is answered.                                          *)
CallInv ==
  \A t \in Threads :
    /\ call[t].at = "idle" => call[t].via = "none" /\ call[t].file = "none"
    /\ call[t].at \in {"generate", "tested"} => call[t].file \in Static
    /\ call[t].at = "live" => call[t].file = "live"

(* Numbers that are not given out have no content and no reads; one that   *)
(* is has the reads of its content alone.  Every open in progress will     *)
(* find a number.                                                          *)
HandleInv ==
  /\ \A h \in Handle : given[h] \subseteq {handles[h]}
  /\ \A h \in Handle : h >= nextFh => handles[h] = Nothing /\ given[h] = {}
  /\ nextFh + Cardinality(Opening) <= MaxHandles + 1

(* A call never looks at what was published before it began; and what it   *)
(* tested for is still there, or something was published since.            *)
SinceInv ==
  \A t \in Threads : call[t].file \in Static =>
    /\ call[t].since <= shown.generation
    /\ call[t].at = "generated" => call[t].content.of \in call[t].since .. shown.generation
    /\ call[t].at = "tested" => shown.has = call[t].file \/ shown.generation > call[t].since

FilesInv == FilesTypeOK /\ CallInv /\ HandleInv /\ SinceInv /\ TornOnlyByPublication

USE VirtualFilesAssumption DEF table, Call

(* The type of call, with a name. *)
Sites == {"idle", "generate", "tested", "live", "generated", "failed"}
CallRecord ==
  [at : Sites, via : Operations \cup {"none"}, file : Static \cup {"live", "none"},
   since : 0 .. MaxPublications, content : Content]

-----------------------------------------------------------------------------
(* The opens in progress can be counted.                                   *)
LEMMA OpeningIsFinite == IsFiniteSet(Opening) /\ Cardinality(Opening) \in Nat
<1>1. Opening \subseteq Threads
  BY DEF Opening
<1> QED
  BY <1>1, FS_Subset, FS_CardinalityType

(* The initial states satisfy the invariant.                               *)
LEMMA FilesInvInit == FilesInit => FilesInv
<1> SUFFICES ASSUME FilesInit PROVE FilesInv
  OBVIOUS
<1>1. Idle \in CallRecord /\ Nothing \in Content
  BY DEF Idle, CallRecord, Sites, Operations, Content, Nothing
<1>2. FilesTypeOK
  BY <1>1 DEF FilesInit, FilesTypeOK, CallRecord, Sites, Publication
<1>3. Opening = {}
  BY DEF FilesInit, Opening, Idle
<1>4. Cardinality(Opening) = 0
  BY <1>3, FS_EmptySet
<1>5. HandleInv
  BY <1>4 DEF FilesInit, HandleInv
<1> QED
  BY <1>2, <1>5 DEF FilesInit, FilesInv, CallInv, SinceInv, TornOnlyByPublication, Idle, Static,
     Optional

(* A publication, whatever is being read meanwhile.                        *)
LEMMA PublishStep == ASSUME FilesInv, Publish PROVE FilesInv'
<1> USE DEF FilesInv, Publish
<1>1. shown' \in Publication /\ shown'.generation = shown.generation + 1
  BY DEF FilesTypeOK, Publication
<1>2. FilesTypeOK'
  BY <1>1 DEF FilesTypeOK
<1>3. CallInv' /\ HandleInv'
  BY DEF CallInv, HandleInv, Opening
<1>4. SinceInv'
  <2> SUFFICES ASSUME NEW t \in Threads, call[t].file \in Static
               PROVE  /\ call[t].since <= shown'.generation
                      /\ call[t].at = "generated" =>
                           call[t].content.of \in call[t].since .. shown'.generation
                      /\ call[t].at = "tested" => shown'.generation > call[t].since
    BY DEF SinceInv
  <2>1. shown.generation \in Nat /\ call[t].since \in Nat
    BY DEF FilesTypeOK, Publication
  <2> QED
    BY <1>1, <2>1 DEF SinceInv, FilesTypeOK
<1>5. TornOnlyByPublication'
  BY <1>1 DEF TornOnlyByPublication, FilesTypeOK, Publication
<1> QED
  BY <1>2, <1>3, <1>4, <1>5

(* An operation that begins: an open counts the number it will need.       *)
LEMMA StartStep ==
  ASSUME FilesInv, NEW t \in Threads, NEW at \in {"generate", "live"}, NEW via \in Operations,
         NEW file \in Static \cup {"live"}, at = "live" <=> file = "live", Start(t, at, via, file)
  PROVE  FilesInv'
<1> USE DEF FilesInv, Start
<1>0. shown.generation \in 1 .. MaxPublications
  BY DEF FilesTypeOK, Publication
<1>1. FilesTypeOK'
  <2>1. [at |-> at, via |-> via, file |-> file,
         since |-> IF file = "live" THEN 0 ELSE shown.generation, content |-> Nothing] \in CallRecord
    BY <1>0 DEF CallRecord, Sites, Content, Nothing
  <2>2. call' \in [Threads -> CallRecord]
    BY <2>1 DEF FilesTypeOK, CallRecord, Sites
  <2> QED
    BY <2>2 DEF FilesTypeOK, CallRecord, Sites
<1>2. CallInv'
  BY DEF CallInv, FilesTypeOK, Static, Optional, Operations
<1>3. HandleInv'
  <2>1. CASE via = "open"
    <3>1. Opening' = Opening \cup {t} /\ t \notin Opening
      BY <2>1 DEF Opening, CallInv, FilesTypeOK
    <3>2. Cardinality(Opening') = Cardinality(Opening) + 1
      BY <3>1, OpeningIsFinite, FS_AddElement
    <3> QED
      BY <2>1, <3>2, OpeningIsFinite DEF HandleInv, FilesTypeOK
  <2>2. CASE via # "open"
    <3>1. Opening' = Opening
      BY <2>2 DEF Opening, CallInv, FilesTypeOK
    <3> QED
      BY <3>1 DEF HandleInv
  <2> QED
    BY <2>1, <2>2
<1>4. SinceInv' /\ TornOnlyByPublication'
  BY <1>0 DEF SinceInv, TornOnlyByPublication, FilesTypeOK, Static, Optional, Nothing
<1> QED
  BY <1>1, <1>2, <1>3, <1>4

(* The reads of a generator, and the answer of the broker.                 *)
LEMMA ReadStep ==
  ASSUME FilesInv, NEW t \in Threads, FirstRead(t) \/ SecondRead(t) \/ Live(t)
  PROVE  FilesInv'
<1> USE DEF FilesInv, FirstRead, SecondRead, Live, Generated, Failed, Current, Nowhere, Tested
<1>0. shown.generation \in 1 .. MaxPublications /\ UNCHANGED <<shown, table>>
  BY DEF FilesTypeOK, Publication
<1>1. /\ \A u \in Threads : u # t => call'[u] = call[u]
      /\ call'[t].via = call[t].via /\ call'[t].file = call[t].file /\ call'[t].since = call[t].since
      /\ call'[t].at \in {"tested", "generated", "failed"}
  BY DEF FilesTypeOK
<1>2. FilesTypeOK'
  <2>1. \A what \in {"value", "empty", "None", "capture"}, n \in 0 .. MaxPublications :
          [call[t] EXCEPT !.at = "generated", !.content = [what |-> what, of |-> n]] \in CallRecord
    BY DEF FilesTypeOK, CallRecord, Sites, Content
  <2>2. \A at \in {"tested", "failed"} : [call[t] EXCEPT !.at = at] \in CallRecord
    BY DEF FilesTypeOK, CallRecord, Sites
  <2>3. call \in [Threads -> CallRecord]
    BY DEF FilesTypeOK, CallRecord, Sites
  <2>4. PICK c \in CallRecord : call' = [call EXCEPT ![t] = c]
    <3>1. shown.generation \in 0 .. MaxPublications /\ 0 \in 0 .. MaxPublications
      BY <1>0
    <3>2. CASE FirstRead(t)
      BY <2>1, <2>2, <2>3, <3>1, <3>2
    <3>3. CASE SecondRead(t)
      BY <2>1, <2>2, <2>3, <3>1, <3>3
    <3>4. CASE Live(t)
      BY <2>1, <2>2, <2>3, <3>1, <3>4
    <3> QED
      BY <3>2, <3>3, <3>4
  <2>5. call' \in [Threads -> CallRecord]
    BY <2>3, <2>4
  <2> QED
    BY <1>0, <2>5 DEF FilesTypeOK, CallRecord, Sites
<1>3. CallInv'
  BY <1>1 DEF CallInv, FilesTypeOK, Static
<1>4. HandleInv'
  <2>1. Opening' = Opening
    BY <1>1 DEF Opening
  <2> QED
    BY <1>0, <2>1 DEF HandleInv
<1>5. SinceInv'
  BY <1>0, <1>1 DEF SinceInv, CallInv, FilesTypeOK, Static, Optional
<1>6. TornOnlyByPublication'
  BY <1>0, <1>1 DEF TornOnlyByPublication, SinceInv, CallInv, FilesTypeOK, Static, Optional
<1> QED
  BY <1>2, <1>3, <1>4, <1>5, <1>6

(* An operation that ends: an open takes the number it counted.            *)
LEMMA EndStep ==
  ASSUME FilesInv, NEW t \in Threads, Open(t) \/ Return(t)
  PROVE  FilesInv'
<1> USE DEF FilesInv, End, Idle, Taken
<1>1. CallInv' /\ SinceInv' /\ TornOnlyByPublication'
  BY DEF Open, Return, CallInv, SinceInv, TornOnlyByPublication, FilesTypeOK, Static, Optional
<1>2. call' \in [Threads -> CallRecord]
  <2>1. call \in [Threads -> CallRecord]
    BY DEF FilesTypeOK, CallRecord, Sites
  <2>2. Idle \in CallRecord
    BY DEF CallRecord, Sites, Content, Nothing
  <2>3. call' = [call EXCEPT ![t] = Idle]
    BY DEF Open, Return
  <2> HIDE DEF Idle
  <2> QED
    BY <2>1, <2>2, <2>3
<1>3. CASE Open(t)
  <2>1. t \in Opening /\ Opening' = Opening \ {t}
    BY <1>3 DEF Open, Opening, FilesTypeOK
  <2>2. Cardinality(Opening') = Cardinality(Opening) - 1
    BY <2>1, OpeningIsFinite, FS_RemoveElement
  <2>3. Cardinality(Opening) # 0
    BY <2>1, OpeningIsFinite, FS_EmptySet
  <2>4. nextFh \in Handle /\ nextFh' = nextFh + 1
    BY <1>3, <2>3, OpeningIsFinite DEF Open, HandleInv, FilesTypeOK, Handle
  <2>5. FilesTypeOK'
    BY <1>2, <1>3, <2>4 DEF Open, FilesTypeOK, CallRecord, Sites, Handle
  <2>6. HandleInv'
    BY <1>3, <2>2, <2>4, OpeningIsFinite DEF Open, HandleInv, FilesTypeOK, Handle
  <2> QED
    BY <1>1, <2>5, <2>6
<1>4. CASE Return(t)
  <2>1. FilesTypeOK'
    BY <1>2, <1>4 DEF Return, FilesTypeOK, CallRecord, Sites
  <2>2. Opening' \subseteq Opening
    BY <1>4 DEF Return, Opening, FilesTypeOK
  <2>3. Cardinality(Opening') <= Cardinality(Opening) /\ Cardinality(Opening') \in Nat
    BY <2>2, OpeningIsFinite, FS_Subset, FS_CardinalityType
  <2>4. HandleInv'
    BY <1>4, <2>3, OpeningIsFinite DEF Return, HandleInv, FilesTypeOK
  <2> QED
    BY <1>1, <2>1, <2>4
<1> QED
  BY <1>3, <1>4

(* read and release through a handle.                                      *)
LEMMA HandleStep ==
  ASSUME FilesInv, NEW h \in Handle, Read(h) \/ Release(h)
  PROVE  FilesInv'
<1> USE DEF FilesInv, Read, Release, IsOpen, Served
<1>1. FilesTypeOK'
  <2>1. Nothing \in Content
    BY DEF Content, Nothing
  <2>2. given[h] \cup {handles[h]} \in SUBSET Content /\ {} \in SUBSET Content
    BY DEF FilesTypeOK
  <2>3. given' \in [Handle -> SUBSET Content] /\ handles' \in [Handle -> Content]
    BY <2>1, <2>2 DEF FilesTypeOK
  <2> QED
    BY <2>3 DEF FilesTypeOK
<1>2. CallInv' /\ SinceInv' /\ TornOnlyByPublication'
  BY DEF CallInv, SinceInv, TornOnlyByPublication
<1>3. Opening' = Opening
  BY DEF Opening
<1>4. HandleInv'
  BY <1>3 DEF HandleInv, FilesTypeOK
<1> QED
  BY <1>1, <1>2, <1>4

(* Every step keeps the invariant.                                         *)
LEMMA FilesInvStep == FilesInv /\ [FilesNext]_fileVars => FilesInv'
<1> SUFFICES ASSUME FilesInv, [FilesNext]_fileVars PROVE FilesInv'
  OBVIOUS
<1>1. CASE Publish
  BY <1>1, PublishStep
<1>2. ASSUME NEW t \in Threads, Operate(t) PROVE FilesInv'
  <2>1. ASSUME NEW via \in Operations, CallLive(t, via) PROVE FilesInv'
    BY <2>1, StartStep DEF CallLive
  <2>2. ASSUME NEW via \in Operations, NEW file \in Static, Call(t, via, file) PROVE FilesInv'
    BY <2>2, StartStep DEF Static, Optional
  <2> QED
    BY <1>2, <2>1, <2>2, ReadStep, EndStep DEF Operate
<1>3. ASSUME NEW h \in Handle, Read(h) \/ Release(h) PROVE FilesInv'
  BY <1>3, HandleStep
<1>4. CASE UNCHANGED fileVars
  BY <1>4 DEF fileVars, FilesInv, FilesTypeOK, CallInv, HandleInv, SinceInv,
     TornOnlyByPublication, Opening
<1> QED
  BY <1>1, <1>2, <1>3, <1>4 DEF FilesNext

(* Types, and the inductive invariant of the virtual files.                *)
THEOREM FilesInvariant == FilesSpec => []FilesInv
<1> QED
  BY FilesInvInit, FilesInvStep, PTL DEF FilesSpec

(* All reads through a handle see one content, of a publication shown      *)
(* while the file was being opened.                                        *)
THEOREM OpenIsASnapshotTheorem == FilesSpec => []OpenIsASnapshot
<1>1. FilesInv => OpenIsASnapshot
  <2> SUFFICES ASSUME FilesInv PROVE OpenIsASnapshot
    OBVIOUS
  <2>1. ASSUME NEW h \in Handle PROVE Cardinality(given[h]) <= 1
    <3>1. given[h] \subseteq {handles[h]}
      BY DEF FilesInv, HandleInv
    <3>2. IsFiniteSet({handles[h]}) /\ Cardinality({handles[h]}) = 1
      BY FS_Singleton
    <3>3. Cardinality(given[h]) <= Cardinality({handles[h]})
      BY <3>1, <3>2, FS_Subset
    <3> QED
      BY <3>2, <3>3
  <2> QED
    BY <2>1 DEF FilesInv, SinceInv, OpenIsASnapshot
<1> QED
  BY <1>1, FilesInvariant, PTL

(* A file prints None, or fails, only if something was published while it  *)
(* was being generated.                                                    *)
THEOREM TornOnlyByPublicationTheorem == FilesSpec => []TornOnlyByPublication
<1>1. FilesInv => TornOnlyByPublication
  BY DEF FilesInv
<1> QED
  BY <1>1, FilesInvariant, PTL
=============================================================================
