------------------------------- MODULE Dither -------------------------------
(***************************************************************************)
(* The error-diffusion ditherers of DitheringConverter (dittering.py):    *)
(* floyd_steinberg_dither, atkinson_dither, sierra_dither, burkes_dither  *)
(* and stucki_dither.  Each copies the grayscale frame into a float       *)
(* accumulator `result`, scans it row-major, quantises the pixel under    *)
(* the cursor at old_pixel > 127 and adds fixed fractions of the error    *)
(* old_pixel - new_pixel to neighbours, then casts `result` to uint8.     *)
(*                                                                         *)
(* One Step is one iteration of the `for y / for x` body.  The float      *)
(* accumulator is kept as an integer scaled by Scale: with the power-of-  *)
(* two denominators of four of the kernels and Scale large enough for the *)
(* frame, every share is exact, as it is in float64.  The neighbour       *)
(* writes that the code skips because they fall outside the frame are     *)
(* written instead to a margin of the canvas that is never scanned and    *)
(* never output: the margin is the ledger of the error the code drops.    *)
(***************************************************************************)
EXTENDS Integers, FiniteSets, Functions, TLC

CONSTANTS
  Height,   \* h of image.shape
  Width,    \* w of image.shape
  Levels,   \* grayscale sample values the input frame may hold
  Algos,    \* the diffusion algorithms this instance runs
  Scale     \* fixed-point scale of the float accumulator

ASSUME DimAssumption == Height \in Nat \ {0} /\ Width \in Nat \ {0}
ASSUME LevelsAssumption == Levels \subseteq 0..255
ASSUME ScaleAssumption == Scale \in Nat \ {0}

DiffusionAlgos == {"floyd-steinberg", "atkinson", "sierra", "burkes", "stucki"}
ASSUME AlgosAssumption == Algos \subseteq DiffusionAlgos /\ Algos # {}

(* Pixels of the frame, as <<y, x>>, and the canvas: the frame with a     *)
(* margin wide enough for every kernel offset (two rows below, two       *)
(* columns on each side).                                                 *)
Frame == (0..Height-1) \X (0..Width-1)
Canvas == (0..Height+1) \X (-2..Width+1)
InFrame(p) == p \in Frame

(* The kernels, as sets of <<dy, dx, n>>: the share of the error that    *)
(* goes to result[y + dy, x + dx] is error * n / Den, as the code writes  *)
(* it.  Atkinson divides the error by 8 once and adds that to each        *)
(* neighbour.                                                              *)
Kernel(a) ==
  CASE a = "floyd-steinberg" ->
         {<<0,1,7>>, <<1,-1,3>>, <<1,0,5>>, <<1,1,1>>}
    [] a = "atkinson" ->
         {<<0,1,1>>, <<1,0,1>>, <<1,1,1>>, <<0,2,1>>, <<2,0,1>>}
    [] a = "sierra" ->
         {<<0,1,2>>, <<0,2,1>>, <<1,-1,1>>, <<1,0,2>>, <<1,1,1>>}
    [] a = "burkes" ->
         {<<0,1,8>>, <<0,2,4>>, <<1,-2,2>>, <<1,-1,4>>, <<1,0,8>>,
          <<1,1,4>>, <<1,2,2>>}
    [] a = "stucki" ->
         {<<0,1,8>>, <<0,2,4>>, <<1,-2,2>>, <<1,-1,4>>, <<1,0,8>>,
          <<1,1,4>>, <<1,2,2>>, <<2,-1,1>>, <<2,0,2>>, <<2,1,1>>}

Offset(k) == <<k[1], k[2]>>

Den(a) ==
  CASE a = "floyd-steinberg" -> 16 [] a = "atkinson" -> 8
    [] a = "sierra" -> 4 [] a = "burkes" -> 32 [] a = "stucki" -> 42

(* Weight numerator of kernel a for offset d; 0 where the kernel has no   *)
(* entry.                                                                 *)
KernelWeight(a, d) ==
  IF \E k \in Kernel(a) : Offset(k) = d
  THEN (CHOOSE k \in Kernel(a) : Offset(k) = d)[3]
  ELSE 0

(* Bug variants of Weight, each a plausible slip in one line of the code, *)
(* that the properties below must tell apart from it:                    *)
(*  - WeightLeftTypo: Burkes' 2/32 written to result[y, x-2] instead of   *)
(*    result[y+1, x-2];                                                   *)
(*  - WeightBurkesTypo: Burkes' (+1, +1) share 2/32 instead of 4/32.      *)
WeightLeftTypo(a, d) ==
  IF a = "burkes" /\ d = <<0,-2>> THEN 2
  ELSE IF a = "burkes" /\ d = <<1,-2>> THEN 0
  ELSE KernelWeight(a, d)

WeightBurkesTypo(a, d) ==
  IF a = "burkes" /\ d = <<1,1>> THEN 2 ELSE KernelWeight(a, d)

(* The weight numerator Share uses.                                       *)
Weight(a, d) == KernelWeight(a, d)

VARIABLES
  algo,     \* the `algorithm` argument of dither_frame
  input,    \* the grayscale frame passed in (`image`)
  result,   \* the accumulator, scaled by Scale, over the canvas
  y, x,     \* the loop cursor
  errSum,   \* history: sum of the quantisation errors so far
  out       \* result.astype(np.uint8) once the scan is over, else None

vars == <<algo, input, result, y, x, errSum, out>>

None == <<>>

Scanned(p) == p[1] < y \/ (p[1] = y /\ p[2] < x)

(* result = image.copy().astype(float); the margin starts at 0.           *)
Init ==
  /\ algo \in Algos
  /\ input \in [Frame -> Levels]
  /\ result = [q \in Canvas |-> IF InFrame(q) THEN input[q] * Scale ELSE 0]
  /\ y = 0 /\ x = 0
  /\ errSum = 0
  /\ out = None

(* One iteration of the loop body: quantise result[y, x], add each       *)
(* neighbour's share error * n / d, and advance the cursor.              *)
Quantise(v) == IF v > 127 * Scale THEN 255 * Scale ELSE 0

Share(err, q) == (err * Weight(algo, <<q[1] - y, q[2] - x>>)) \div Den(algo)

(* Advance the cursor: next x, or the start of the next row.  The bug     *)
(* variant AdvanceOffByOne tests x + 1 <= w.                              *)
AdvanceOffByOne ==
  IF x + 1 <= Width THEN x' = x + 1 /\ y' = y ELSE x' = 0 /\ y' = y + 1

Advance ==
  IF x + 1 < Width THEN x' = x + 1 /\ y' = y ELSE x' = 0 /\ y' = y + 1

(* Bug variant: the loop body without `result[y, x] = new_pixel`: the    *)
(* error is passed on, the pixel keeps its unquantised value.             *)
StepNoStore ==
  /\ y < Height
  /\ LET old == result[<<y, x>>]
         err == old - Quantise(old)
     IN /\ result' = [q \in Canvas |->
                        IF q = <<y, x>> THEN old ELSE result[q] + Share(err, q)]
        /\ errSum' = errSum + err
  /\ Advance
  /\ UNCHANGED <<algo, input, out>>

Step ==
  /\ y < Height
  /\ LET old == result[<<y, x>>]
         new == Quantise(old)
         err == old - new
     IN /\ result' = [q \in Canvas |->
                        IF q = <<y, x>> THEN new ELSE result[q] + Share(err, q)]
        /\ errSum' = errSum + err
  /\ Advance
  /\ UNCHANGED <<algo, input, out>>

(* return result.astype(np.uint8).  The cast truncates; an out-of-range   *)
(* float has no defined uint8 value, and wraps here.                      *)
ToUint8(v) == (v \div Scale) % 256

(* Bug variant: `return result.astype(np.uint8)` indented into the       *)
(* `for y` loop, so the frame is returned after its first row.           *)
FinishInLoop ==
  /\ y = 1
  /\ out = None
  /\ out' = [p \in Frame |-> ToUint8(result[p])]
  /\ UNCHANGED <<algo, input, result, y, x, errSum>>

Finish ==
  /\ y = Height
  /\ out = None
  /\ out' = [p \in Frame |-> ToUint8(result[p])]
  /\ UNCHANGED <<algo, input, result, y, x, errSum>>

Next == Step \/ Finish

Spec == Init /\ [][Next]_vars

-----------------------------------------------------------------------------
(***************************************************************************)
(* Properties.                                                             *)
(***************************************************************************)

TypeOK ==
  /\ algo \in Algos
  /\ input \in [Frame -> Levels]
  /\ result \in [Canvas -> Int]
  /\ y \in 0..Height
  /\ x \in 0..Width-1
  /\ y = Height => x = 0
  /\ errSum \in Int
  /\ out \in [Frame -> 0..255] \cup {None}

(* Spec 4.5 and 8: every output sample of every algorithm is exactly 0 or *)
(* 255.  In the scan: each pixel the loop has passed holds 0 or 255 and   *)
(* no later share reaches it, so the final uint8 cast sees only 0 and     *)
(* 255.                                                                    *)
ScannedBinary ==
  \A p \in Frame : Scanned(p) => result[p] \in {0, 255 * Scale}

OutputBinary ==
  out # None => \A p \in Frame : out[p] \in {0, 255}

(* Spec 4.5: error goes only to not-yet-visited neighbours: no iteration  *)
(* of the loop body changes a pixel the scan has already quantised.       *)
ForwardOnly ==
  [][\A p \in Frame : Scanned(p) => result'[p] = result[p]]_vars

(* Spec 4.5 and 9: the error each kernel passes on, as a fraction of the  *)
(* quantisation error, is the total the spec's table states: 1 for        *)
(* Floyd-Steinberg and Burkes, 5/8 for Atkinson (3/8 discarded) and 7/4   *)
(* for Sierra as implemented.  Over the whole canvas (frame plus the      *)
(* margin that collects the shares the bounds checks drop) the intensity  *)
(* therefore moves, per quantised pixel, by (total - 1) times its error.  *)
SpecTotal ==
  [a \in {"floyd-steinberg", "atkinson", "sierra", "burkes"} |->
     CASE a = "floyd-steinberg" -> <<16, 16>> [] a = "atkinson" -> <<5, 8>>
       [] a = "sierra" -> <<7, 4>> [] a = "burkes" -> <<32, 32>>]

CanvasSum == SumFunction(result)
InputSum == SumFunction([p \in Frame |-> input[p] * Scale])

ErrorAccounting ==
  algo \in DOMAIN SpecTotal =>
    LET n == SpecTotal[algo][1]
        d == SpecTotal[algo][2]
    IN /\ ((n - d) * errSum) % d = 0
       /\ CanvasSum - InputSum = ((n - d) * errSum) \div d

(* Spec 4.5 and 8, as one contract: the row-major scan of every kernel   *)
(* implements DitherSpec, in which each pixel is quantised exactly once  *)
(* to 0 or 255, a quantised pixel never changes again, and the frame is   *)
(* returned only once all are quantised, holding those values.  The scan *)
(* cursor tells which pixels are quantised; the margin of the canvas is   *)
(* not part of the frame.                                                 *)
Abstract == INSTANCE DitherSpec WITH
              img <- [q \in Frame |-> result[q]],
              quantised <- {q \in Frame : Scanned(q)}

ImplementsDitherSpec == Abstract!Spec

=============================================================================
