--------------------------- MODULE MCClickToTune ----------------------------
(***************************************************************************)
(* A small instance of ClickToTune.                                        *)
(***************************************************************************)
EXTENDS ClickToTune

CONSTANTS f1, f2

TwoFreqs   == {f1, f2}
\* One plain mode, one with an override, one that is not a mode of Wavelog.
ThreeModes == {"cw", "dig", "olivia"}

=============================================================================
