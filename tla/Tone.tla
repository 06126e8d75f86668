------------------------------- MODULE Tone --------------------------------
(***************************************************************************)
(* The tone stages process_video applies to a grayscale frame, in its     *)
(* order: filter_color_range when a bound is given, adjust_exposure when  *)
(* exposure != 0.0, invert_frame when invert is set; then dither_frame    *)
(* with one of the point-wise ditherers threshold_dither, ordered_dither  *)
(* and random_dither (the diffusion kernels are the module Dither).  The  *)
(* frame is a function from a few <<y, x>> pixels to uint8 samples.      *)
(*                                                                         *)
(* filter_color_range computes frame - min_value in uint8, which wraps    *)
(* below min_value, then ((...) / range_size) * 255 in float64; over all *)
(* uint8 operands that float truncates to exactly a * 255 \div r (checked *)
(* exhaustively), so the model uses integer division.  adjust_exposure is *)
(* modelled for whole exposures, where v * 2.0 ** e is exact.             *)
(***************************************************************************)
EXTENDS Integers, FiniteSets, PyFloat

CONSTANTS
  Pixels,      \* the pixels of the frame
  Samples,     \* uint8 values a pixel may hold after to_grayscale
  MinSet,      \* values of min_value (may hold None)
  MaxSet,      \* values of max_value (may hold None)
  ExposureSet, \* whole values of exposure
  AlgoSet,     \* values of algorithm
  None         \* an optional argument left at its default

ASSUME PixelAssumption == Pixels \subseteq Nat \X Nat
ASSUME SampleAssumption == Samples \subseteq 0..255
ASSUME BoundAssumption == (MinSet \cup MaxSet) \ {None} \subseteq 0..255
(* The exposures adjust_exposure returns for: from 1024 on, 2.0 ** e     *)
(* raises OverflowError, which Pipeline models as an outcome of the loop. *)
ASSUME ExposureAssumption == ExposureSet \subseteq {e \in Int : e < 1024}
(* A fact of arithmetic, not a restriction: the gain 2 ** |e| of every   *)
(* exposure is a positive whole number.  The provers have no induction    *)
(* over ^ to derive it; TLC evaluates it on every run.                    *)
ASSUME PowerAssumption ==
  \A e \in ExposureSet : 2^(IF e >= 0 THEN e ELSE -e) \in Nat \ {0}

PointAlgos == {"threshold", "ordered", "random"}
ASSUME AlgoAssumption == AlgoSet \subseteq PointAlgos

VARIABLES
  opts,     \* min_value, max_value, exposure, invert, keep_black
  gray,     \* the frame as to_grayscale returned it
  frame,    \* the local `gray` as the stages rewrite it
  stage,    \* the next stage of the frame loop body
  dithered  \* dither_frame(gray, algorithm), once computed

vars == <<opts, gray, frame, stage, dithered>>

Opts == [min : MinSet, max : MaxSet, exposure : ExposureSet,
         invert : BOOLEAN, keepBlack : BOOLEAN, algo : AlgoSet]

Init ==
  /\ opts \in Opts
  /\ gray \in [Pixels -> Samples]
  /\ frame = gray
  /\ stage = "range"
  /\ dithered = None

(* np.clip(x, 0, 255).astype(np.uint8) of a value x >= 0 or < 0.          *)
Clip(x) == PyMax(0, PyMin(x, 255))

(* Bug variant: the np.clip dropped, leaving values over 255.           *)
FilterColorRangeNoClip(v, lo, hi) ==
  IF lo >= hi THEN v
  ELSE (((v - lo) % 256) * 255) \div (hi - lo)

(* filter_color_range(v, lo, hi) on one sample.                           *)
FilterColorRange(v, lo, hi) ==
  IF lo >= hi THEN v
  ELSE Clip((((v - lo) % 256) * 255) \div (hi - lo))

(* Bug variant: astype(np.uint8) before np.clip, so products wrap.        *)
AdjustExposureWrap(v, e) ==
  IF e >= 0 THEN (v * 2^e) % 256 ELSE Clip(v \div 2^(-e))

(* adjust_exposure(v, e): v * 2.0 ** e, clipped, truncated.  A negative   *)
(* exposure divides by 2 ** -e; np.clip applies to both.                  *)
AdjustExposure(v, e) ==
  IF e >= 0 THEN Clip(v * 2^e) ELSE Clip(v \div 2^(-e))

(* invert_frame(v, keep_black).                                           *)
InvertFrame(v, keepBlack) ==
  IF keepBlack /\ v = 0 THEN 0 ELSE 255 - v

(* `if min_value is not None or max_value is not None:` filter, with the  *)
(* missing bound at 0 or 255.                                             *)
RangeStage ==
  /\ stage = "range"
  /\ IF opts.min # None \/ opts.max # None
     THEN LET lo == IF opts.min # None THEN opts.min ELSE 0
              hi == IF opts.max # None THEN opts.max ELSE 255
          IN  frame' = [p \in Pixels |-> FilterColorRange(frame[p], lo, hi)]
     ELSE UNCHANGED frame
  /\ stage' = "exposure"
  /\ UNCHANGED <<opts, gray, dithered>>

(* `if exposure != 0.0:` adjust.                                           *)
ExposureStage ==
  /\ stage = "exposure"
  /\ IF opts.exposure # 0
     THEN frame' = [p \in Pixels |-> AdjustExposure(frame[p], opts.exposure)]
     ELSE UNCHANGED frame
  /\ stage' = "invert"
  /\ UNCHANGED <<opts, gray, dithered>>

(* `if invert:` invert_frame(gray, keep_black).                           *)
InvertStage ==
  /\ stage = "invert"
  /\ IF opts.invert
     THEN frame' = [p \in Pixels |-> InvertFrame(frame[p], opts.keepBlack)]
     ELSE UNCHANGED frame
  /\ stage' = "dither"
  /\ UNCHANGED <<opts, gray, dithered>>

(* threshold_dither: np.where(image > 127, 255, 0).                       *)
ThresholdPixel(v) == IF v > 127 THEN 255 ELSE 0

(* Bug variant: one entry of the matrix mistyped (27 as 21), so that   *)
(* one threshold appears twice and another never.                         *)
BayerTypo ==
  << <<0, 48, 12, 60, 3, 51, 15, 63>>, <<32, 16, 44, 28, 35, 19, 47, 31>>,
     <<8, 56, 4, 52, 11, 59, 7, 55>>, <<40, 24, 36, 20, 43, 21, 39, 23>>,
     <<2, 50, 14, 62, 1, 49, 13, 61>>, <<34, 18, 46, 30, 33, 17, 45, 29>>,
     <<10, 58, 6, 54, 9, 57, 5, 53>>, <<42, 26, 38, 22, 41, 25, 37, 21>> >>

(* ordered_dither's 8 x 8 Bayer matrix, before its / 64.0.                *)
Bayer ==
  << <<0, 48, 12, 60, 3, 51, 15, 63>>, <<32, 16, 44, 28, 35, 19, 47, 31>>,
     <<8, 56, 4, 52, 11, 59, 7, 55>>, <<40, 24, 36, 20, 43, 27, 39, 23>>,
     <<2, 50, 14, 62, 1, 49, 13, 61>>, <<34, 18, 46, 30, 33, 17, 45, 29>>,
     <<10, 58, 6, 54, 9, 57, 5, 53>>, <<42, 26, 38, 22, 41, 25, 37, 21>> >>

(* Bug variant: `>=` for `>` in the comparison of ordered_dither.         *)
OrderedPixelGE(v, p) ==
  IF 64 * v >= 255 * Bayer[(p[1] % 8) + 1][(p[2] % 8) + 1] THEN 255 ELSE 0

(* 255 if image[y, x] / 255.0 > bayer_matrix[y % 8, x % 8] else 0.  The  *)
(* threshold b / 64 is exact in float64 and differs from v / 255 by at    *)
(* least 1 / 16320 unless both are 0, far more than the rounding of       *)
(* v / 255.0, so the float comparison is 64 * v > 255 * b.                *)
OrderedPixel(v, p) ==
  IF 64 * v > 255 * Bayer[(p[1] % 8) + 1][(p[2] % 8) + 1] THEN 255 ELSE 0

(* random_dither: np.random.randint(0, 64) noise added in int, clipped,   *)
(* cast back, then the 127 threshold.                                     *)
Noise == 0..63
RandomPixel(v, n) == ThresholdPixel(Clip(v + n))

(* dithered = self.dither_frame(gray, algorithm).  The noise of each     *)
(* pixel is drawn independently.                                          *)
DitherStage ==
  /\ stage = "dither"
  /\ CASE opts.algo = "threshold" ->
            dithered' = [p \in Pixels |-> ThresholdPixel(frame[p])]
       [] opts.algo = "ordered" ->
            dithered' = [p \in Pixels |-> OrderedPixel(frame[p], p)]
       [] opts.algo = "random" ->
            dithered' \in {d \in [Pixels -> {0, 255}] :
                             \A p \in Pixels : \E n \in Noise : d[p] = RandomPixel(frame[p], n)}
  /\ stage' = "done"
  /\ UNCHANGED <<opts, gray, frame>>

Next == RangeStage \/ ExposureStage \/ InvertStage \/ DitherStage

Spec == Init /\ [][Next]_vars

-----------------------------------------------------------------------------
(***************************************************************************)
(* Properties.                                                             *)
(***************************************************************************)

TypeOK ==
  /\ opts \in Opts
  /\ gray \in [Pixels -> Samples]
  /\ frame \in [Pixels -> 0..255]
  /\ stage \in {"range", "exposure", "invert", "dither", "done"}
  /\ dithered \in [Pixels -> {0, 255}] \cup {None}

(* The filter's bounds as process_video passes them.                      *)
Lo == IF opts.min # None THEN opts.min ELSE 0
Hi == IF opts.max # None THEN opts.max ELSE 255
Filtering == (opts.min # None \/ opts.max # None) /\ Lo < Hi

(* Spec 4.4: the range filter remaps linearly and clamps, exposure is a   *)
(* multiplicative gain, inversion negates; so among the samples at or     *)
(* above min_value, the stages keep the order of two pixels, and the      *)
(* inversion reverses it, except that keep_black leaves a 0 at 0.         *)
ToneOrder ==
  \A p, q \in Pixels :
    /\ gray[p] <= gray[q]
    /\ opts.min = None \/ opts.min <= gray[p]
    => IF stage \notin {"dither", "done"} \/ ~opts.invert THEN frame[p] <= frame[q]
       ELSE IF ~opts.keepBlack THEN frame[p] >= frame[q]
       ELSE frame[p] >= frame[q] \/ frame[p] = 0

(* Spec 8: threshold_dither is idempotent, and (spec 4.5) every ditherer  *)
(* maps a frame to a binary one: a sample the dither stage receives       *)
(* already black or white comes out unchanged, for threshold, for the     *)
(* Bayer thresholds of ordered_dither and for every noise random_dither   *)
(* may draw.                                                               *)
BinaryFixed ==
  stage = "done" => \A p \in Pixels : frame[p] \in {0, 255} => dithered[p] = frame[p]

Tile == (0..7) \X (0..7)

(* Spec 4.5: ordered_dither's matrix holds the thresholds 0..63 / 64, so  *)
(* a flat 8 x 8 tile of sample v comes out with exactly as many white     *)
(* pixels as there are thresholds t / 64 below v / 255: the share of     *)
(* white tracks the sample, for every sample the dither stage receives.   *)
OrderedCoverage ==
  stage = "done" /\ opts.algo = "ordered" =>
    \A p \in Pixels :
      Cardinality({c \in Tile : OrderedPixel(frame[p], c) = 255})
        = Cardinality({t \in 0..63 : 255 * t < 64 * frame[p]})

(* Spec 4.4, step 2: the filter maps v to                                 *)
(* clamp(((v - min_value) / (max_value - min_value)) * 255, 0, 255): a    *)
(* sample below min_value becomes 0.                                      *)
RangeFilterSpec ==
  stage = "exposure" /\ Filtering =>
    \A p \in Pixels : frame[p] = Clip(((gray[p] - Lo) * 255) \div (Hi - Lo))

=============================================================================
