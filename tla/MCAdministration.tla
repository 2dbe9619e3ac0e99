-------------------------- MODULE MCAdministration --------------------------
(* A finite instance of Administration.  A payload changes one of two      *)
(* columns of the settings of the environment, or none.  Accounts and      *)
(* settings share requests and restarts but no data, so that the run       *)
(* follows several changes of accounts without settings, and settings with *)
(* at most one of them.                                                    *)
EXTENDS Administration, TLC

CONSTANTS boot, ann, a, b, r1, r2

MCEnvironment == <<0, 0>>
MCPayloads == {<<0, 0>>, <<0, 1>>, <<1, 0>>}
MCIdentities == {<<a, Nothing>>, <<b, Nothing>>, <<b, a>>}
MCWishes == [role : Roles] \union
             {[active |-> FALSE], [active |-> TRUE], [role |-> "USER", active |-> TRUE]}
MCBound ==
  \/ Len(audit) <= 1
  \/ /\ row = Nothing
     /\ \A r \in Requests : request[r].at \notin {"load", "save", "replace"}
MCSymmetry == Permutations({r1, r2})
=============================================================================
