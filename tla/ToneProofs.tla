----------------------------- MODULE ToneProofs -----------------------------
(***************************************************************************)
(* Proofs about the point-wise ditherers of dither_frame, for every frame *)
(* and option set: threshold_dither, ordered_dither and random_dither    *)
(* leave a black or white sample as it is, and ordered_dither whitens a  *)
(* flat tile in proportion to its sample.  The exposure stage, whose     *)
(* 2.0 ** exposure the provers cannot reason about, plays no part: the    *)
(* property is about what the dither stage does to the frame it gets.     *)
(***************************************************************************)
EXTENDS Tone, FiniteSetTheorems, TLAPS

(* Every entry of ordered_dither's matrix is a threshold in 0..63.        *)
LEMMA BayerRange ==
  \A i, j \in 1..8 : Bayer[i][j] \in 0..63
<1> SUFFICES ASSUME NEW i \in 1..8, NEW j \in 1..8 PROVE Bayer[i][j] \in 0..63
  OBVIOUS
<1>1. i \in {1, 2, 3, 4, 5, 6, 7, 8} /\ j \in {1, 2, 3, 4, 5, 6, 7, 8}
  OBVIOUS
<1>. QED
  BY <1>1 DEF Bayer

(* y % 8 and x % 8 index the matrix, for every pixel of the frame.       *)
LEMMA PixelIndex ==
  ASSUME NEW p \in Pixels
  PROVE  (p[1] % 8) + 1 \in 1..8 /\ (p[2] % 8) + 1 \in 1..8
BY PixelAssumption

(* np.where(image > 127, 255, 0) fixes 0 and 255.                         *)
LEMMA ThresholdFixed ==
  ThresholdPixel(0) = 0 /\ ThresholdPixel(255) = 255
BY DEF ThresholdPixel

(* ordered_dither fixes 0 and 255: no threshold b / 64 lies below 0 and  *)
(* every one lies below 1.                                                *)
LEMMA OrderedFixed ==
  ASSUME NEW p \in Pixels
  PROVE  OrderedPixel(0, p) = 0 /\ OrderedPixel(255, p) = 255
<1>1. Bayer[(p[1] % 8) + 1][(p[2] % 8) + 1] \in 0..63
  BY PixelIndex, BayerRange
<1>. QED
  BY <1>1 DEF OrderedPixel

(* random_dither fixes 0 and 255 for every noise 0..63: 0 + n stays at or *)
(* below 127, and 255 + n is clipped to 255.                              *)
LEMMA RandomFixed ==
  ASSUME NEW n \in Noise
  PROVE  RandomPixel(0, n) = 0 /\ RandomPixel(255, n) = 255
BY DEF RandomPixel, ThresholdPixel, Clip, PyMax, PyMin, Noise

(* What dither_frame(gray, algorithm) returned for frame f, per algorithm.*)
DitherOf(f, d, a) ==
  /\ a = "threshold" => d = [p \in Pixels |-> ThresholdPixel(f[p])]
  /\ a = "ordered" => d = [p \in Pixels |-> OrderedPixel(f[p], p)]
  /\ a = "random" => \A p \in Pixels : \E n \in Noise : d[p] = RandomPixel(f[p], n)

(* Once the stages are done, `dithered` is dither_frame of the final     *)
(* frame, for the algorithm of the options.                               *)
DInv ==
  /\ opts \in Opts
  /\ stage = "done" => DitherOf(frame, dithered, opts.algo)

LEMMA InitDInv == Init => DInv
BY DEF Init, DInv

LEMMA NextDInv == DInv /\ [Next]_vars => DInv'
<1> SUFFICES ASSUME DInv, [Next]_vars PROVE DInv'
  OBVIOUS
<1>1. CASE RangeStage \/ ExposureStage \/ InvertStage
  <2>1. opts' = opts /\ stage' # "done"
    BY <1>1 DEF RangeStage, ExposureStage, InvertStage
  <2>. QED
    BY <2>1 DEF DInv
<1>2. CASE DitherStage
  <2>1. opts' = opts /\ frame' = frame /\ stage' = "done"
    BY <1>2 DEF DitherStage
  <2>2. opts.algo \in {"threshold", "ordered", "random"}
    BY AlgoAssumption DEF DInv, Opts, PointAlgos
  <2>3. CASE opts.algo = "threshold"
    BY <1>2, <2>1, <2>3 DEF DitherStage, DInv, DitherOf
  <2>4. CASE opts.algo = "ordered"
    BY <1>2, <2>1, <2>4 DEF DitherStage, DInv, DitherOf
  <2>5. CASE opts.algo = "random"
    BY <1>2, <2>1, <2>5 DEF DitherStage, DInv, DitherOf
  <2>. QED
    BY <2>2, <2>3, <2>4, <2>5
<1>3. CASE UNCHANGED vars
  BY <1>3 DEF vars, DInv, DitherOf
<1>. QED
  BY <1>1, <1>2, <1>3 DEF Next

(* Spec 8 (threshold idempotence) and spec 4.5, for every frame, option  *)
(* set and noise: a sample the dither stage receives already black or    *)
(* white comes out of threshold_dither, ordered_dither or random_dither   *)
(* unchanged.                                                             *)
THEOREM BinaryFixedHolds == Spec => []BinaryFixed
<1>1. DInv => BinaryFixed
  <2> SUFFICES ASSUME DInv, stage = "done", NEW p \in Pixels, frame[p] \in {0, 255}
               PROVE  dithered[p] = frame[p]
    BY DEF BinaryFixed
  <2>1. opts.algo \in {"threshold", "ordered", "random"}
    BY AlgoAssumption DEF DInv, Opts, PointAlgos
  <2>2. DitherOf(frame, dithered, opts.algo)
    BY DEF DInv
  <2>3. CASE opts.algo = "threshold"
    BY <2>2, <2>3, ThresholdFixed DEF DitherOf
  <2>4. CASE opts.algo = "ordered"
    BY <2>2, <2>4, OrderedFixed DEF DitherOf
  <2>5. CASE opts.algo = "random"
    <3>1. PICK n \in Noise : dithered[p] = RandomPixel(frame[p], n)
      BY <2>2, <2>5 DEF DitherOf
    <3>. QED
      BY <3>1, RandomFixed
  <2>. QED
    BY <2>1, <2>3, <2>4, <2>5
<1>. QED
  BY <1>1, InitDInv, NextDInv, PTL DEF Spec

-----------------------------------------------------------------------------
(***************************************************************************)
(* OrderedCoverage.  The Bayer matrix is a permutation of 0..63: BayerPos *)
(* lists the cell of each threshold, and the two tables are inverse.      *)
(* Reading a tile cell's threshold is then a bijection from the white     *)
(* cells of a flat tile onto the thresholds below its sample.             *)
(***************************************************************************)

(* The cell <<y, x>> of the matrix that holds threshold t, at t + 1.      *)
BayerPos ==
  << <<0, 0>>, <<4, 4>>, <<4, 0>>, <<0, 4>>, <<2, 2>>, <<6, 6>>, <<6, 2>>, <<2, 6>>,
     <<2, 0>>, <<6, 4>>, <<6, 0>>, <<2, 4>>, <<0, 2>>, <<4, 6>>, <<4, 2>>, <<0, 6>>,
     <<1, 1>>, <<5, 5>>, <<5, 1>>, <<1, 5>>, <<3, 3>>, <<7, 7>>, <<7, 3>>, <<3, 7>>,
     <<3, 1>>, <<7, 5>>, <<7, 1>>, <<3, 5>>, <<1, 3>>, <<5, 7>>, <<5, 3>>, <<1, 7>>,
     <<1, 0>>, <<5, 4>>, <<5, 0>>, <<1, 4>>, <<3, 2>>, <<7, 6>>, <<7, 2>>, <<3, 6>>,
     <<3, 0>>, <<7, 4>>, <<7, 0>>, <<3, 4>>, <<1, 2>>, <<5, 6>>, <<5, 2>>, <<1, 6>>,
     <<0, 1>>, <<4, 5>>, <<4, 1>>, <<0, 5>>, <<2, 3>>, <<6, 7>>, <<6, 3>>, <<2, 7>>,
     <<2, 1>>, <<6, 5>>, <<6, 1>>, <<2, 5>>, <<0, 3>>, <<4, 7>>, <<4, 3>>, <<0, 7>> >>

(* The threshold of a cell of the tile.                                   *)
TileThreshold(c) == Bayer[c[1] + 1][c[2] + 1]

(* Each cell's threshold leads back to the cell.                          *)
LEMMA BayerPosInverse ==
  ASSUME NEW c \in Tile
  PROVE  BayerPos[TileThreshold(c) + 1] = c
<1>1. PICK a \in 0..7, b \in 0..7 : c = <<a, b>>
  BY DEF Tile
<1>2. a \in {0, 1, 2, 3, 4, 5, 6, 7} /\ b \in {0, 1, 2, 3, 4, 5, 6, 7}
  OBVIOUS
<1>. QED
  BY <1>1, <1>2 DEF Bayer, BayerPos, TileThreshold

(* Each threshold 0..63 sits in a cell of the tile.                       *)
LEMMA BayerOnto ==
  \A t \in 0..63 : BayerPos[t + 1] \in Tile /\ TileThreshold(BayerPos[t + 1]) = t
<1> SUFFICES ASSUME NEW t \in 0..63
             PROVE  BayerPos[t + 1] \in Tile /\ TileThreshold(BayerPos[t + 1]) = t
  OBVIOUS
<1>1. t \in {0, 1, 2, 3, 4, 5, 6, 7, 8, 9, 10, 11, 12, 13, 14, 15,
             16, 17, 18, 19, 20, 21, 22, 23, 24, 25, 26, 27, 28, 29, 30, 31,
             32, 33, 34, 35, 36, 37, 38, 39, 40, 41, 42, 43, 44, 45, 46, 47,
             48, 49, 50, 51, 52, 53, 54, 55, 56, 57, 58, 59, 60, 61, 62, 63}
  OBVIOUS
<1>. QED
  BY <1>1 DEF Bayer, BayerPos, Tile, TileThreshold

(* On a cell of the tile, y % 8 and x % 8 are the cell's own indices.     *)
LEMMA TileCell ==
  ASSUME NEW c \in Tile
  PROVE  /\ c = <<c[1], c[2]>> /\ c[1] \in 0..7 /\ c[2] \in 0..7
         /\ Bayer[(c[1] % 8) + 1][(c[2] % 8) + 1] = TileThreshold(c)
         /\ TileThreshold(c) \in 0..63
<1>1. c = <<c[1], c[2]>> /\ c[1] \in 0..7 /\ c[2] \in 0..7
  BY DEF Tile
<1>2. c[1] % 8 = c[1] /\ c[2] % 8 = c[2]
  BY <1>1
<1>3. c[1] + 1 \in 1..8 /\ c[2] + 1 \in 1..8
  BY <1>1
<1>4. TileThreshold(c) \in 0..63
  BY <1>3, BayerRange DEF TileThreshold
<1>. QED
  BY <1>1, <1>2, <1>4 DEF TileThreshold

(* For every sample v, a flat tile of v has as many cells that           *)
(* ordered_dither whitens as there are thresholds t / 64 below v / 255.  *)
LEMMA Coverage ==
  ASSUME NEW v
  PROVE  Cardinality({c \in Tile : OrderedPixel(v, c) = 255})
           = Cardinality({t \in 0..63 : 255 * t < 64 * v})
<1> DEFINE A == {c \in Tile : OrderedPixel(v, c) = 255}
           T == {t \in 0..63 : 255 * t < 64 * v}
           f == [c \in A |-> TileThreshold(c)]
<1>1. \A c \in Tile : c \in A <=> TileThreshold(c) \in T
  <2> TAKE c \in Tile
  <2>1. OrderedPixel(v, c) = IF 64 * v > 255 * TileThreshold(c) THEN 255 ELSE 0
    BY TileCell DEF OrderedPixel
  <2>2. TileThreshold(c) \in 0..63
    BY TileCell
  <2>. QED
    BY <2>1, <2>2
<1>2. IsFiniteSet(A)
  <2>1. IsFiniteSet(0..7)
    <3>1. 0 \in Int /\ 7 \in Int
      OBVIOUS
    <3>. QED
      BY <3>1, FS_Interval, Zenon
  <2>2. IsFiniteSet(Tile)
    BY <2>1, FS_Product DEF Tile
  <2>. QED
    BY <2>2, FS_Subset
<1>3. f \in [A -> T]
  BY <1>1
<1>4. \A c1, c2 \in A : f[c1] = f[c2] => c1 = c2
  <2> TAKE c1, c2 \in A
  <2>1. c1 \in Tile /\ c2 \in Tile
    OBVIOUS
  <2>2. BayerPos[TileThreshold(c1) + 1] = c1
    BY <2>1, BayerPosInverse
  <2>3. BayerPos[TileThreshold(c2) + 1] = c2
    BY <2>1, BayerPosInverse
  <2>. QED
    BY <2>2, <2>3
<1>5. \A t \in T : \E c \in A : f[c] = t
  <2> TAKE t \in T
  <2>1. BayerPos[t + 1] \in Tile /\ TileThreshold(BayerPos[t + 1]) = t
    BY BayerOnto
  <2>2. BayerPos[t + 1] \in A
    BY <1>1, <2>1
  <2>. QED
    BY <2>1, <2>2
<1>6. f \in Bijection(A, T)
  <2>1. IsInjective(f)
    BY <1>4 DEF IsInjective
  <2>. QED
    BY <1>3, <1>5, <2>1 DEF Bijection, Injection, Surjection
<1>7. ExistsBijection(A, T)
  BY <1>6 DEF ExistsBijection
<1>. QED
  BY <1>2, <1>7, FS_Bijection

(* Spec 4.5, for every frame: ordered_dither's share of white pixels in a *)
(* flat 8 x 8 tile tracks the sample exactly, because its matrix holds    *)
(* each threshold 0..63 / 64 once.                                        *)
THEOREM OrderedCoverageHolds == Spec => []OrderedCoverage
<1>1. OrderedCoverage
  BY Coverage DEF OrderedCoverage
<1>. QED
  BY <1>1, PTL

-----------------------------------------------------------------------------
(***************************************************************************)
(* Type correctness.  Every tone stage writes a uint8 sample back into the *)
(* frame: np.clip bounds filter_color_range and adjust_exposure, and       *)
(* invert_frame maps 0..255 onto itself.                                   *)
(***************************************************************************)

(* np.clip(x, 0, 255) of any integer is a uint8 sample.                   *)
LEMMA ClipRange ==
  ASSUME NEW x \in Int
  PROVE  Clip(x) \in 0..255
BY DEF Clip, PyMax, PyMin

(* filter_color_range keeps a sample a sample, for any uint8 bounds: the *)
(* identity when lo >= hi, else a clipped integer.                        *)
LEMMA FilterRange ==
  ASSUME NEW v \in 0..255, NEW lo \in 0..255, NEW hi \in 0..255
  PROVE  FilterColorRange(v, lo, hi) \in 0..255
<1>1. CASE lo >= hi
  BY <1>1 DEF FilterColorRange
<1>2. CASE ~(lo >= hi)
  <2>1. hi - lo \in Nat \ {0}
    BY <1>2
  <2>2. (((v - lo) % 256) * 255) \div (hi - lo) \in Int
    BY <2>1
  <2>. QED
    BY <1>2, <2>2, ClipRange DEF FilterColorRange
<1>. QED
  BY <1>1, <1>2

(* adjust_exposure keeps a sample a sample, for every whole exposure: the *)
(* gain or the division is an integer, which np.clip bounds.              *)
LEMMA ExposureRange ==
  ASSUME NEW v \in 0..255, NEW e \in ExposureSet
  PROVE  AdjustExposure(v, e) \in 0..255
<1>1. CASE e >= 0
  <2>1. 2^e \in Int
    BY <1>1, ExposureAssumption
  <2>2. v * 2^e \in Int
    BY <2>1
  <2>. QED
    BY <1>1, <2>2, ClipRange DEF AdjustExposure
<1>2. CASE ~(e >= 0)
  <2>1. 2^(-e) \in Nat \ {0}
    BY <1>2, PowerAssumption
  <2>2. v \div 2^(-e) \in Int
    BY <2>1, ExposureAssumption
  <2>. QED
    BY <1>2, <2>2, ClipRange DEF AdjustExposure
<1>. QED
  BY <1>1, <1>2

(* invert_frame keeps a sample a sample, with or without keep_black.     *)
LEMMA InvertRange ==
  ASSUME NEW v \in 0..255, NEW k \in BOOLEAN
  PROVE  InvertFrame(v, k) \in 0..255
BY DEF InvertFrame

LEMMA InitTypeOK == Init => TypeOK
<1>. SUFFICES ASSUME Init PROVE TypeOK
  OBVIOUS
<1>1. gray \in [Pixels -> 0..255]
  BY SampleAssumption DEF Init
<1>. QED
  BY <1>1 DEF Init, TypeOK

LEMMA NextTypeOK == TypeOK /\ [Next]_vars => TypeOK'
<1>. SUFFICES ASSUME TypeOK, [Next]_vars PROVE TypeOK'
  OBVIOUS
<1>0. /\ opts.min \in MinSet /\ opts.max \in MaxSet
      /\ opts.exposure \in Int /\ opts.invert \in BOOLEAN
      /\ opts.keepBlack \in BOOLEAN /\ opts.algo \in PointAlgos
  BY ExposureAssumption, AlgoAssumption DEF TypeOK, Opts
<1>1. CASE RangeStage
  <2>1. CASE opts.min # None \/ opts.max # None
    <3>1. /\ (IF opts.min # None THEN opts.min ELSE 0) \in 0..255
          /\ (IF opts.max # None THEN opts.max ELSE 255) \in 0..255
      BY <1>0, BoundAssumption
    <3>2. frame' = [p \in Pixels |-> FilterColorRange(frame[p], Lo, Hi)]
      BY <1>1, <2>1 DEF RangeStage, Lo, Hi
    <3>3. \A p \in Pixels : FilterColorRange(frame[p], Lo, Hi) \in 0..255
      <4>1. SUFFICES ASSUME NEW p \in Pixels
                     PROVE  FilterColorRange(frame[p], Lo, Hi) \in 0..255
        OBVIOUS
      <4>2. frame[p] \in 0..255 /\ Lo \in 0..255 /\ Hi \in 0..255
        BY <3>1 DEF TypeOK, Lo, Hi
      <4>. QED
        BY <4>2, FilterRange
    <3>4. frame' \in [Pixels -> 0..255]
      BY <3>2, <3>3, Zenon
    <3>. QED
      BY <1>1, <3>4 DEF RangeStage, TypeOK
  <2>4. CASE ~(opts.min # None \/ opts.max # None)
    BY <1>1, <2>4 DEF RangeStage, TypeOK
  <2>. QED
    BY <2>1, <2>4
<1>2. CASE ExposureStage
  <2>1. opts.exposure # 0 => frame' \in [Pixels -> 0..255]
    <3>0. HAVE opts.exposure # 0
    <3>1. frame' = [p \in Pixels |-> AdjustExposure(frame[p], opts.exposure)]
      BY <1>2, <3>0 DEF ExposureStage
    <3>2. \A p \in Pixels : AdjustExposure(frame[p], opts.exposure) \in 0..255
      BY ExposureRange DEF TypeOK, Opts
    <3>. QED
      BY <3>1, <3>2, Zenon
  <2>2. opts.exposure = 0 => frame' \in [Pixels -> 0..255]
    BY <1>2 DEF ExposureStage, TypeOK
  <2>3. frame' \in [Pixels -> 0..255]
    BY <2>1, <2>2
  <2>. QED
    BY <1>2, <2>3 DEF ExposureStage, TypeOK
<1>3. CASE InvertStage
  <2>1. opts.invert => frame' \in [Pixels -> 0..255]
    <3>0. HAVE opts.invert
    <3>1. frame' = [p \in Pixels |-> InvertFrame(frame[p], opts.keepBlack)]
      BY <1>3, <3>0 DEF InvertStage
    <3>2. \A p \in Pixels : InvertFrame(frame[p], opts.keepBlack) \in 0..255
      BY <1>0, InvertRange DEF TypeOK
    <3>. QED
      BY <3>1, <3>2, Zenon
  <2>2. ~opts.invert => frame' \in [Pixels -> 0..255]
    BY <1>3 DEF InvertStage, TypeOK
  <2>3. frame' \in [Pixels -> 0..255]
    BY <2>1, <2>2
  <2>. QED
    BY <1>3, <2>3 DEF InvertStage, TypeOK
<1>4. CASE DitherStage
  <2>1. dithered' \in [Pixels -> {0, 255}]
    BY <1>0, <1>4 DEF DitherStage, TypeOK, PointAlgos, ThresholdPixel, OrderedPixel
  <2>. QED
    BY <1>4, <2>1 DEF DitherStage, TypeOK
<1>5. CASE UNCHANGED vars
  BY <1>5 DEF vars, TypeOK
<1>. QED
  BY <1>1, <1>2, <1>3, <1>4, <1>5 DEF Next

(* Every stage of process_video's frame loop body (filter_color_range,   *)
(* adjust_exposure, invert_frame, dither_frame) leaves the frame a        *)
(* function to uint8 samples, and the dithered frame binary: no stage    *)
(* overflows or underflows the uint8 range, for every exposure and bound. *)
THEOREM ToneTypeCorrect == Spec => []TypeOK
BY InitTypeOK, NextTypeOK, PTL DEF Spec


-----------------------------------------------------------------------------
(***************************************************************************)
(* The tone curve.  filter_color_range, adjust_exposure and np.clip are   *)
(* monotone on the samples they see, and invert_frame is antitone, so the *)
(* composition process_video applies keeps (or reverses) the order of two *)
(* samples.  The exposure's gain is a positive whole number               *)
(* (PowerAssumption), so multiplying or dividing by it keeps the order.   *)
(***************************************************************************)

(* np.clip keeps the order of two integers.                               *)
LEMMA ClipMono ==
  ASSUME NEW x \in Int, NEW y \in Int, x <= y
  PROVE  Clip(x) <= Clip(y)
BY DEF Clip, PyMax, PyMin

(* Integer division by a positive divisor keeps the order.               *)
LEMMA DivMono ==
  ASSUME NEW x \in Int, NEW y \in Int, NEW d \in Nat \ {0}, x <= y
  PROVE  x \div d <= y \div d
OBVIOUS

(* filter_color_range keeps the order of two samples at or above lo: the  *)
(* uint8 subtraction does not wrap there, and the division is by hi - lo *)
(* > 0.                                                                    *)
LEMMA FilterMono ==
  ASSUME NEW v \in 0..255, NEW w \in 0..255, NEW lo \in 0..255,
         NEW hi \in 0..255, lo <= v, v <= w
  PROVE  FilterColorRange(v, lo, hi) <= FilterColorRange(w, lo, hi)
<1>1. CASE lo >= hi
  BY <1>1 DEF FilterColorRange
<1>2. CASE ~(lo >= hi)
  <2>1. (v - lo) % 256 = v - lo /\ (w - lo) % 256 = w - lo
    OBVIOUS
  <2>2. ((v - lo) * 255) \div (hi - lo) <= ((w - lo) * 255) \div (hi - lo)
    <3>1. /\ hi - lo \in Nat \ {0}
          /\ (v - lo) * 255 \in Int /\ (w - lo) * 255 \in Int
          /\ (v - lo) * 255 <= (w - lo) * 255
      BY <1>2
    <3>. QED
      BY <3>1, DivMono
  <2>3. /\ ((v - lo) * 255) \div (hi - lo) \in Int
        /\ ((w - lo) * 255) \div (hi - lo) \in Int
    BY <1>2
  <2>. QED
    BY <1>2, <2>1, <2>2, <2>3, ClipMono DEF FilterColorRange
<1>. QED
  BY <1>1, <1>2

(* adjust_exposure keeps the order of two samples, for every exposure.   *)
LEMMA ExposureMono ==
  ASSUME NEW v \in 0..255, NEW w \in 0..255, NEW e \in ExposureSet, v <= w
  PROVE  AdjustExposure(v, e) <= AdjustExposure(w, e)
<1>1. CASE e >= 0
  <2>1. 2^e \in Nat \ {0}
    BY <1>1, PowerAssumption, ExposureAssumption
  <2>2. v * 2^e <= w * 2^e /\ v * 2^e \in Int /\ w * 2^e \in Int
    BY <2>1
  <2>. QED
    BY <1>1, <2>2, ClipMono DEF AdjustExposure
<1>2. CASE ~(e >= 0)
  <2>1. 2^(-e) \in Nat \ {0}
    BY <1>2, PowerAssumption, ExposureAssumption
  <2>2. /\ v \div 2^(-e) <= w \div 2^(-e)
        /\ v \div 2^(-e) \in Int /\ w \div 2^(-e) \in Int
    BY <2>1
  <2>. QED
    BY <1>2, <2>2, ClipMono DEF AdjustExposure
<1>. QED
  BY <1>1, <1>2

(* invert_frame reverses the order of two samples, except that           *)
(* keep_black leaves a black sample black.                                *)
LEMMA InvertAnti ==
  ASSUME NEW v \in 0..255, NEW w \in 0..255, NEW k \in BOOLEAN, v <= w
  PROVE  /\ ~k => InvertFrame(v, k) >= InvertFrame(w, k)
         /\ k => InvertFrame(v, k) >= InvertFrame(w, k) \/ InvertFrame(v, k) = 0
BY DEF InvertFrame

(* ToneOrder made inductive: before the range stage the frame is still    *)
(* to_grayscale's output.                                                  *)
OInv ==
  /\ TypeOK
  /\ stage = "range" => frame = gray
  /\ ToneOrder


LEMMA InitOInv == Init => OInv
BY InitTypeOK DEF Init, OInv, ToneOrder

LEMMA NextOInv == OInv /\ [Next]_vars => OInv'
<1>. SUFFICES ASSUME OInv, [Next]_vars PROVE OInv'
  OBVIOUS
<1>0. /\ TypeOK' /\ TypeOK
      /\ opts.min \in MinSet /\ opts.max \in MaxSet
      /\ opts.exposure \in ExposureSet /\ opts.invert \in BOOLEAN
      /\ opts.keepBlack \in BOOLEAN
  BY NextTypeOK DEF OInv, TypeOK, Opts
<1>r. stage' = "range" => frame' = gray'
  BY DEF Next, vars, RangeStage, ExposureStage, InvertStage, DitherStage, OInv
<1>. SUFFICES ASSUME NEW p \in Pixels, NEW q \in Pixels,
                    gray'[p] <= gray'[q],
                    opts'.min = None \/ opts'.min <= gray'[p]
             PROVE  IF stage' \notin {"dither", "done"} \/ ~opts'.invert
                    THEN frame'[p] <= frame'[q]
                    ELSE IF ~opts'.keepBlack THEN frame'[p] >= frame'[q]
                    ELSE frame'[p] >= frame'[q] \/ frame'[p] = 0
  BY <1>0, <1>r DEF OInv, ToneOrder
<1>a. frame[p] \in 0..255 /\ frame[q] \in 0..255 /\ gray[p] \in 0..255
  BY <1>0, SampleAssumption DEF TypeOK
<1>1. CASE RangeStage
  <2>0. frame = gray
    BY <1>1 DEF RangeStage, OInv
  <2>1. CASE opts.min # None \/ opts.max # None
    <3>1. /\ Lo \in 0..255 /\ Hi \in 0..255 /\ Lo <= gray[p]
      BY <1>0, <1>1, <1>a, BoundAssumption DEF Lo, Hi, RangeStage
    <3>2. frame' = [x \in Pixels |-> FilterColorRange(frame[x], Lo, Hi)]
      BY <1>1, <2>1 DEF RangeStage, Lo, Hi
    <3>3. FilterColorRange(frame[p], Lo, Hi) <= FilterColorRange(frame[q], Lo, Hi)
      BY <1>1, <1>a, <2>0, <3>1, FilterMono DEF RangeStage
    <3>. QED
      BY <1>1, <3>2, <3>3 DEF RangeStage
  <2>2. CASE ~(opts.min # None \/ opts.max # None)
    BY <1>1, <2>0, <2>2 DEF RangeStage
  <2>. QED
    BY <2>1, <2>2
<1>2. CASE ExposureStage
  <2>0. frame[p] <= frame[q]
    BY <1>2 DEF ExposureStage, OInv, ToneOrder
  <2>1. CASE opts.exposure # 0
    <3>1. frame' = [x \in Pixels |-> AdjustExposure(frame[x], opts.exposure)]
      BY <1>2, <2>1 DEF ExposureStage
    <3>2. AdjustExposure(frame[p], opts.exposure) <= AdjustExposure(frame[q], opts.exposure)
      BY <1>0, <1>a, <2>0, ExposureMono
    <3>. QED
      BY <1>2, <3>1, <3>2 DEF ExposureStage
  <2>2. CASE opts.exposure = 0
    BY <1>2, <2>0, <2>2 DEF ExposureStage
  <2>. QED
    BY <2>1, <2>2
<1>3. CASE InvertStage
  <2>0. frame[p] <= frame[q]
    BY <1>3 DEF InvertStage, OInv, ToneOrder
  <2>1. CASE opts.invert
    <3>1. frame' = [x \in Pixels |-> InvertFrame(frame[x], opts.keepBlack)]
      BY <1>3, <2>1 DEF InvertStage
    <3>2. /\ ~opts.keepBlack => InvertFrame(frame[p], opts.keepBlack)
                                 >= InvertFrame(frame[q], opts.keepBlack)
          /\ opts.keepBlack => \/ InvertFrame(frame[p], opts.keepBlack)
                                   >= InvertFrame(frame[q], opts.keepBlack)
                                \/ InvertFrame(frame[p], opts.keepBlack) = 0
      BY <1>0, <1>a, <2>0, InvertAnti
    <3>. QED
      BY <1>3, <2>1, <3>1, <3>2 DEF InvertStage
  <2>2. CASE ~opts.invert
    BY <1>3, <2>0, <2>2 DEF InvertStage
  <2>. QED
    BY <2>1, <2>2
<1>4. CASE DitherStage
  BY <1>4 DEF DitherStage, OInv, ToneOrder
<1>5. CASE UNCHANGED vars
  BY <1>5 DEF vars, OInv, ToneOrder
<1>. QED
  BY <1>1, <1>2, <1>3, <1>4, <1>5 DEF Next

(* Spec 4.4 for every frame, option set and whole exposure: the range    *)
(* filter, adjust_exposure and invert_frame, as process_video applies    *)
(* them, keep the order of two samples at or above min_value, and the    *)
(* inversion reverses it, leaving 0 at 0 under keep_black.                *)
THEOREM ToneOrderHolds == Spec => []ToneOrder
<1>1. OInv => ToneOrder
  BY DEF OInv
<1>. QED
  BY InitOInv, NextOInv, <1>1, PTL DEF Spec

=============================================================================
