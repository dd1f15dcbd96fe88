----------------------------- MODULE MCFatTasks -----------------------------
(* Tasks that use the FAT volume at the same time, for TLC: together they      *)
(* make at most MaxCalls calls.                                                *)
EXTENDS FatChains

CONSTANT MaxCalls
VARIABLE begun          \* the calls made so far

MCInit == Init /\ begun = 0

MCNext ==
    \/ /\ begun < MaxCalls /\ begun' = begun + 1
       /\ \E p \in Callers : Begin(p)
    \/ /\ UNCHANGED begun
       /\ \/ \E p \in Callers : Proceed(p) \/ TaskKilled(p)
          \/ PowerCut

MCSpec == /\ MCInit /\ [][MCNext]_<<vars, begun>>
          /\ \A p \in Callers : WF_vars(Proceed(p))
=============================================================================
