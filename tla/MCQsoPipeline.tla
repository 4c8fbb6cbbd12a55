--------------------------- MODULE MCQsoPipeline ---------------------------
(***************************************************************************)
(* Small instances of QsoPipeline.                                         *)
(***************************************************************************)
EXTENDS QsoPipeline

CONSTANTS q1, q2, q3

TwoQsos   == {q1, q2}
ThreeQsos == {q1, q2, q3}
NoQso     == {}
OneQso    == {q1}

\* The QSOs are interchangeable.
Symmetry == Permutations(Qsos)

\* Every QSO persisted is answered in the end: one stands for all.
EventuallyAnswered == AnsweredInTheEnd(q1)

=============================================================================
