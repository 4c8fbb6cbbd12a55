----------------------------- MODULE MCQsoSpool -----------------------------
(***************************************************************************)
(* Small instances of QsoSpool: three QSOs, one above the cap of two, and  *)
(* a bounded number of crashes and failed system calls.                    *)
(***************************************************************************)
EXTENDS QsoSpool

CONSTANTS q1, q2, q3

MCQsos == {q1, q2, q3}
NoQso  == {}
OneQso == {q1}

=============================================================================
