---------------------------- MODULE MCTsbClient ----------------------------
(* Values of the constants of TsbClient for its runs.                      *)
EXTENDS TsbClient

(* Two seeds for one label, and one of them for another label.             *)
TwoSeedsTwoLabels ==
  {<<"vault", "s1">>, <<"vault", "s2">>, <<"other", "s1">>}

(* A master itself, and an account of another one.                         *)
MasterAndAccount == {<<"vault", << >>>>, <<"other", <<86, 0>>>>}
=============================================================================
