------------------------------ MODULE MC_Dither ------------------------------
(* Model-checking instances of Dither.                                    *)
EXTENDS Dither

(* All five kernels on a 3 x 3 frame: three rows so that Atkinson's and   *)
(* Stucki's +2 row is reached, three columns so that the +-2 offsets land *)
(* both inside and outside the frame.  127 sits on the threshold, 0 and   *)
(* 200 push the error both ways.                                          *)
MCLevels3 == {0, 127, 200}
MCAllAlgos == DiffusionAlgos
MCScale3 == 2^10

(* The four kernels with power-of-two denominators on a 2 x 3 frame, with *)
(* a scale at which every share, in the frame and in the margin, is      *)
(* exact, as it is in float64.                                            *)
MCLevels2 == {0, 100, 127, 128, 255}
MCExactAlgos == {"floyd-steinberg", "atkinson", "sierra", "burkes"}
MCScale2 == 2^19

(* Sierra alone on a 2 x 2 frame, at the exact scale.                  *)
MCSierra == {"sierra"}
=============================================================================
