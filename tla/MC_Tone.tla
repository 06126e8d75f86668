------------------------------- MODULE MC_Tone -----------------------------
(* Model-checking instances of Tone.                                      *)
EXTENDS Tone

(* A two-pixel frame, at the Bayer thresholds 0 and 48 / 64; samples at  *)
(* both ends, around the threshold and under and over the bounds 50 and  *)
(* 200; bounds either way round, so that the no-op min >= max happens;   *)
(* exposures -1, 0 and +1; the three point-wise ditherers.              *)
MCPixels == {<<0, 0>>, <<0, 1>>}
MCSamples == {0, 40, 100, 125, 128, 200, 255}
MCBounds == {None, 50, 200}
MCExposures == {-1, 0, 1}
MCAlgos == {"threshold", "ordered", "random"}
=============================================================================
