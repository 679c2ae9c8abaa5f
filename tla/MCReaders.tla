------------------------------ MODULE MCReaders ------------------------------
(* LiveCapture and VirtualFiles on small instances for TLC.  The broker     *)
(* knows nothing of files and the files only its three answers: a behaviour *)
(* leaves the initial state of one of the two.                              *)
EXTENDS LiveCapture, VirtualFiles

MCInit == Init /\ FilesInit

MCNext ==
  \/ FilesInit /\ Next /\ UNCHANGED fileVars
  \/ Init /\ FilesNext /\ UNCHANGED vars

MCSpec ==
  /\ MCInit /\ [][MCNext]_<<vars, fileVars>>
  /\ WF_vars(Training) /\ \A r \in Readers : WF_vars(Answer(r) \/ Withdraw(r))
=============================================================================
