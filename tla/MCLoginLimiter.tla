--------------------------- MODULE MCLoginLimiter ---------------------------
(* Finite instance of LoginLimiter. *)
EXTENDS LoginLimiter, TLC

CONSTANTS t1, t2

MCRules ==
  [d \in LoginDimensions \union QuotaDimensions |->
     [limit |-> IF d = "login_combination" THEN 1 ELSE 2, window |-> 2]]

MCLogins == {<<"home", "ann">>}
MCRegistrations == {<<"home", <<"ann">>>>}

MCSymmetry == Permutations({t1, t2})
=============================================================================
