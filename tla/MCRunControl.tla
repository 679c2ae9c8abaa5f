----------------------------- MODULE MCRunControl -----------------------------
(* Small instances of RunControl for TLC. *)
EXTENDS RunControl, TLC

(* Handler threads are interchangeable (used where no liveness is checked). *)
MCSymmetry == Permutations(Clients)

MCNow == [form |-> "now", fields |-> <<>>]
MCAtStepOne == [form |-> "mapping", fields |-> [global_step |-> {1}]]
MCAtFirstEpochEnd == [form |-> "mapping",
                 fields |-> [safe_point |-> "train_epoch_end", epoch |-> {0}]]
MCBogus == [form |-> "mapping", fields |-> [occurrence |-> "sometime"]]
MCNoNumber == [form |-> "mapping", fields |-> [global_step |-> {}]]

MCNowOnly == {MCNow}
MCScheduled == {MCNow, MCAtStepOne, MCAtFirstEpochEnd, MCNoNumber}
MCMalformed == {MCBogus, MCNoNumber}
MCHasty == {MCNow, MCBogus}
=============================================================================
