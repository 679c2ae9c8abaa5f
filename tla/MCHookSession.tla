---------------------------- MODULE MCHookSession ----------------------------
(* HookSession and HooksBootstrap on small instances for TLC.  A session    *)
(* sees of the bootstrap only whether it raised: a behaviour leaves the     *)
(* initial state of one of the two, and the bootstrap does not look at      *)
(* policy and execute bits.                                                 *)
EXTENDS HookSession, HooksBootstrap

(* Both modalities of a callback of the training loop, and a script of the *)
(* callback that follows a raise.                                          *)

MCScripts ==
  {<<"on_train_batch_end", "light">>, <<"on_train_batch_end", "heavy">>,
   <<"on_exception", "heavy">>}

NoTree == live = "absent" /\ marker = "absent"
NoScripts == policy = "all" /\ enabled = {}

MCInit == Init /\ TreeInit /\ (NoTree \/ NoScripts)

MCNext ==
  \/ TreeInit /\ NoTree /\ Next /\ UNCHANGED treeVars
  \/ Init /\ NoScripts /\ TreeNext /\ UNCHANGED vars

MCSpec == MCInit /\ [][MCNext]_<<vars, treeVars>>

MCFairSpec ==
  /\ MCSpec
  /\ \A r \in Ranks : WF_vars(Dispatch(r)) /\ SF_vars(Fire(r, "teardown"))

(* The policy that is the default, and a script of rank 0's teardown.       *)
MCTeardownScript == {<<"teardown", "heavy">>}
MCRankZeroSpec == policy = "rank_zero" /\ MCSpec
=============================================================================
