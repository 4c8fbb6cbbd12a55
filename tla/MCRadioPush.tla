---------------------------- MODULE MCRadioPush ----------------------------
(***************************************************************************)
(* Small instances of RadioPush.                                           *)
(***************************************************************************)
EXTENDS RadioPush

CONSTANTS f1, f2, m1, m2

TwoFreqs == {f1, f2}
TwoModes == {m1, m2}

=============================================================================
