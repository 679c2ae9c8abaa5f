----------------------------- MODULE LiveCapture -----------------------------
(***************************************************************************)
(* LiveCaptureBroker: FUSE reader threads hand one-shot computations to    *)
(* the training thread and wait for them, with a timeout.                  *)
(*                                                                         *)
(* A request is numbered in the order of its append, so that a Python list *)
(* of requests is a set of numbers.  Every acquisition of the lock and     *)
(* every access to a request's event is a step of its own.                 *)
(***************************************************************************)
EXTENDS Integers

CONSTANTS Readers,       (* reader threads                                   *)
          MaxRequests    (* bound: requests issued in one run                *)

ASSUME LiveCaptureAssumption == MaxRequests \in Nat

VARIABLES
  issued,       (* requests appended so far                                  *)
  pending,      (* LiveCaptureBroker._pending                                *)
  taken,        (* the list serve swapped out and still has to run           *)
  current,      (* the request whose fn serve is running, or whose event it  *)
                (* is about to set                                           *)
  outcome,      (* _PendingCapture.result and .error, of each request        *)
  event,        (* the requests whose event is set                           *)
  interrupted,  (* a KeyboardInterrupt ended training inside serve           *)
  reader        (* the state of each reader thread                           *)

broker == <<pending, taken, current>>
vars == <<issued, pending, taken, current, outcome, event, interrupted, reader>>

Requests == 1 .. MaxRequests
None == 0
Outcomes == {"none", "result", "error"}

(* `reply` is what the last call of request() came to. *)
Reader == [at : {"idle", "waiting", "expired"}, item : Requests \cup {None},
           reply : {"none", "result", "error", "timeout"}]

Init ==
  /\ issued = 0 /\ pending = {} /\ taken = {} /\ current = None
  /\ outcome = [q \in Requests |-> "none"] /\ event = {}
  /\ interrupted = FALSE
  /\ reader = [r \in Readers |-> [at |-> "idle", item |-> None, reply |-> "none"]]

-----------------------------------------------------------------------------
(* request: append under the lock, then wait. *)
Ask(r) ==
  /\ reader[r].at = "idle" /\ issued < MaxRequests
  /\ issued' = issued + 1
  /\ pending' = pending \cup {issued'}
  /\ reader' = [reader EXCEPT ![r] = [at |-> "waiting", item |-> issued', reply |-> "none"]]
  /\ UNCHANGED <<taken, current, outcome, event, interrupted>>

Replied(r, what) == [reader[r] EXCEPT !.at = "idle", !.reply = what]

(* An error is re-raised; otherwise `result` is returned, set or not. *)
Outcome(r) == outcome[reader[r].item]

Answer(r) ==
  /\ reader[r].at = "waiting" /\ reader[r].item \in event
  /\ reader' = [reader EXCEPT ![r] =
                  Replied(r, IF Outcome(r) = "error" THEN "error" ELSE "result")]
  /\ UNCHANGED <<issued, broker, outcome, event, interrupted>>

(* event.wait returned False; the lock is not yet taken. *)
Expire(r) ==
  /\ reader[r].at = "waiting" /\ reader[r].item \notin event
  /\ reader' = [reader EXCEPT ![r].at = "expired"]
  /\ UNCHANGED <<issued, broker, outcome, event, interrupted>>

PendingWithout(r) == pending \ {reader[r].item}

Withdraw(r) ==
  /\ reader[r].at = "expired"
  /\ pending' = PendingWithout(r)
  /\ reader' = [reader EXCEPT ![r] = Replied(r, "timeout")]
  /\ UNCHANGED <<issued, taken, current, outcome, event, interrupted>>

-----------------------------------------------------------------------------
(* serve, on the training thread, at before_optimizer_step only. *)

(* Seeded bugs: the list is copied but not emptied; or emptied although a  *)
(* request was appended since it was read.                                 *)
CopyPending == taken' = pending /\ UNCHANGED pending
DropNewest == \E q \in {issued} : taken' = pending \ {q} /\ pending' = {}
SwapPending == taken' = pending /\ pending' = {}

Take ==
  /\ ~interrupted /\ taken = {} /\ current = None
  /\ pending # {}
  /\ SwapPending
  /\ UNCHANGED <<issued, current, outcome, event, interrupted, reader>>

Compute ==
  /\ ~interrupted /\ current = None
  /\ \E q \in taken :
       /\ \A p \in taken : q <= p
       /\ current' = q
       /\ taken' = taken \ {q}
       /\ \E o \in {"result", "error"} : outcome' = [outcome EXCEPT ![q] = o]
  /\ UNCHANGED <<issued, pending, event, interrupted, reader>>

(* Seeded bug: a failed computation wakes nobody (no finally). *)
WakeOnResult == IF outcome[current] = "error" THEN event ELSE event \cup {current}
Woken == event \cup {current}

Wake ==
  /\ current # None
  /\ event' = Woken
  /\ current' = None
  /\ UNCHANGED <<issued, pending, taken, outcome, interrupted, reader>>

(* KeyboardInterrupt in fn: the finally block still sets the event, of a   *)
(* request with neither result nor error; the rest of the list is dropped. *)
Interrupt ==
  /\ ~interrupted /\ current = None /\ taken # {}
  /\ \E q \in taken : (\A p \in taken : q <= p) /\ current' = q
  /\ taken' = {}
  /\ interrupted' = TRUE
  /\ UNCHANGED <<issued, pending, outcome, event, reader>>

Training == Take \/ Compute \/ Wake
Reading(r) == Ask(r) \/ Answer(r) \/ Expire(r) \/ Withdraw(r)

(* No reader is left waiting, nothing more may be asked: the run is over. *)
Done == /\ issued = MaxRequests /\ \A r \in Readers : reader[r].at = "idle"
        /\ UNCHANGED vars

Next == Training \/ Interrupt \/ Done \/ \E r \in Readers : Reading(r)

(***************************************************************************)
(* Training keeps reaching its safe point, and a reader that was woken or  *)
(* has timed out goes on.  No fairness makes the timeout fire.             *)
(***************************************************************************)
Spec == Init /\ [][Next]_vars
FairSpec == Spec /\ WF_vars(Training) /\ \A r \in Readers : WF_vars(Answer(r) \/ Withdraw(r))

-----------------------------------------------------------------------------
TypeOK ==
  /\ issued \in 0 .. MaxRequests
  /\ pending \subseteq Requests /\ taken \subseteq Requests
  /\ current \in Requests \cup {None}
  /\ outcome \in [Requests -> Outcomes] /\ event \subseteq Requests
  /\ interrupted \in BOOLEAN
  /\ reader \in [Readers -> Reader]

Waiting(r) == reader[r].at \in {"waiting", "expired"}

(* While readers append and withdraw and serve swaps the list, a reader    *)
(* that still waits is known to somebody: its request is in the list, in   *)
(* the batch being served, or answered; only an interrupt forgets it.      *)
NoRequestIsLost ==
  \A r \in Readers : Waiting(r) =>
    reader[r].item \in pending \cup taken \cup {current} \cup event \/ interrupted

(* fn runs at most once for a request: a computed request is never pending *)
(* again, and its outcome never changes.                                   *)
ComputedOnce ==
  [][\A q \in Requests : outcome[q] # "none" => outcome'[q] = outcome[q]
                                                /\ q \notin pending' \cup taken']_vars

(* A reader that gave up leaves nothing behind for the training thread to  *)
(* compute: the list holds requests of waiting readers only.               *)
PendingIsAwaited ==
  \A q \in pending : \E r \in Readers : Waiting(r) /\ reader[r].item = q

(* While training runs every request is answered or times out, and an fn   *)
(* that raises wakes its reader as one that returns.                       *)
EveryRequestEnds ==
  \A r \in Readers : reader[r].at = "waiting" ~> (reader[r].at = "idle" \/ interrupted)

=============================================================================
