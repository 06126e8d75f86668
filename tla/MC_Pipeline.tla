----------------------------- MODULE MC_Pipeline ---------------------------
(* Model-checking instances of Pipeline.                                  *)
EXTENDS Pipeline

T(n, d) == [num |-> n, den |-> d]

(* The CLI's default target, 384 x 168 (width x height).  Source shapes   *)
(* <<h, w>>: a square frame (cropped in height), a wide one whose         *)
(* int(h * target_ratio) is exactly 16 (so the float may give 15), and a  *)
(* 2 x 2 one whose crop is empty, so that a video of mixed shapes raises  *)
(* in a later frame, after earlier ones were processed.  Times 0, 0.1 s and 2.5 s; budgets none, -1 and 0 (which    *)
(* the CLI accepts), 2 and 3, so that 4 frames over 2 gives the exact     *)
(* product 1 * 2.0; fps 10 and 0; one unknown algorithm name.             *)
MCShapes == {<<100, 100>>, <<7, 20>>, <<2, 2>>}
MCFps == {0, 10}
MCBudgets == {None, -1, 0, 2, 3}
MCTimes == {None, T(0, 1), T(1, 10), T(5, 2)}
MCAlgos == {"floyd-steinberg", "bayer"}
(* Exposure at its default and at 1024, where 2.0 ** exposure overflows.  *)
MCExposures == {0, 1024}
MCDitherNames == {"floyd-steinberg", "ordered", "atkinson", "sierra",
                  "burkes", "stucki", "threshold", "random"}

(* A 4-frame square video, budget 0, everything else at its default.       *)
MCOneShape == {<<100, 100>>}
MCFps10 == {10}
MCBudget0 == {0}
MCNoTime == {None}
MCFS == {"floyd-steinberg"}
MCExposure0 == {0}

(* A 2 x 2 frame, whose int(w / target_ratio) is 0 rows.                  *)
MCTiny == {<<2, 2>>}

(* Three frames at 47 fps, cut from 0 s to 3 / 47 s, i.e. len / fps.      *)
MCFps47 == {47}
MCWindow == {None, T(0, 1), T(3, 47)}
=============================================================================
