---------------------------- MODULE DitherProofs ----------------------------
(***************************************************************************)
(* Proofs about the error-diffusion scan of Dither, for every frame size, *)
(* every set of input levels and every scale.                             *)
(*                                                                         *)
(* The argument: every offset of every kernel points forward in scan      *)
(* order (KernelForward), so the share a step adds to a pixel the scan    *)
(* has passed is 0 (ShareBehindIsZero).  Hence a pixel, once quantised to *)
(* 0 or 255, keeps that value, and the uint8 cast at the end reads 0 or   *)
(* 255 from every pixel.                                                   *)
(***************************************************************************)
EXTENDS Dither, TLAPS

(* An offset <<dy, dx>> points forward in the row-major scan.             *)
Forward(d) == d[1] > 0 \/ (d[1] = 0 /\ d[2] > 0)

(* Every kernel entry points forward, has a natural weight, and every    *)
(* denominator is positive.                                               *)
LEMMA KernelForward ==
  ASSUME NEW a \in DiffusionAlgos
  PROVE  /\ \A k \in Kernel(a) : Forward(Offset(k)) /\ k[3] \in Nat
         /\ Den(a) \in Nat \ {0}
<1>1. CASE a = "floyd-steinberg"
  BY <1>1 DEF Kernel, Den, Forward, Offset
<1>2. CASE a = "atkinson"
  BY <1>2 DEF Kernel, Den, Forward, Offset
<1>3. CASE a = "sierra"
  BY <1>3 DEF Kernel, Den, Forward, Offset
<1>4. CASE a = "burkes"
  BY <1>4 DEF Kernel, Den, Forward, Offset
<1>5. CASE a = "stucki"
  BY <1>5 DEF Kernel, Den, Forward, Offset
<1>6. QED
  BY <1>1, <1>2, <1>3, <1>4, <1>5 DEF DiffusionAlgos

(* Weight is a natural number, and 0 for an offset that is not forward.   *)
LEMMA WeightFacts ==
  ASSUME NEW a \in DiffusionAlgos, NEW d
  PROVE  /\ Weight(a, d) \in Nat
         /\ ~Forward(d) => Weight(a, d) = 0
<1>1. CASE \E k \in Kernel(a) : Offset(k) = d
  <2>1. PICK k \in Kernel(a) : Offset(k) = d
    BY <1>1
  <2>2. (CHOOSE k2 \in Kernel(a) : Offset(k2) = d) \in Kernel(a)
    BY <2>1
  <2>. QED
    BY <1>1, <2>2, KernelForward DEF Weight, KernelWeight
<1>2. CASE ~\E k \in Kernel(a) : Offset(k) = d
  BY <1>2 DEF Weight, KernelWeight
<1>3. QED
  BY <1>1, <1>2

(* The frame lies inside the canvas.                                     *)
LEMMA FrameInCanvas == Frame \subseteq Canvas
<1> SUFFICES ASSUME NEW p \in Frame PROVE p \in Canvas
  BY DEF Frame
<1>1. PICK r \in 0..Height-1, c \in 0..Width-1 : p = <<r, c>>
  BY DEF Frame
<1>. QED
  BY <1>1, DimAssumption DEF Canvas

(* A pixel the scan has passed lies behind the cursor: its offset from    *)
(* the cursor is not forward, so no step adds a share to it.              *)
LEMMA ShareBehindIsZero ==
  ASSUME TypeOK, NEW p \in Frame, Scanned(p), NEW err \in Int
  PROVE  Share(err, p) = 0
<1>1. ~Forward(<<p[1] - y, p[2] - x>>)
  BY DimAssumption DEF Scanned, Forward, Frame, TypeOK
<1>2. Weight(algo, <<p[1] - y, p[2] - x>>) = 0
  BY <1>1, WeightFacts, AlgosAssumption DEF TypeOK
<1>3. Den(algo) \in Nat \ {0}
  BY KernelForward, AlgosAssumption DEF TypeOK
<1>4. QED
  BY <1>2, <1>3 DEF Share

(* A share is an integer.                                                 *)
LEMMA ShareInt ==
  ASSUME TypeOK, NEW err \in Int, NEW q
  PROVE  Share(err, q) \in Int
<1>1. Weight(algo, <<q[1] - y, q[2] - x>>) \in Nat
  BY WeightFacts, AlgosAssumption DEF TypeOK
<1>2. Den(algo) \in Nat \ {0}
  BY KernelForward, AlgosAssumption DEF TypeOK
<1>3. QED
  BY <1>1, <1>2 DEF Share

-----------------------------------------------------------------------------
(* The initial state is well typed.                                       *)
LEMMA InitTypeOK == Init => TypeOK
<1> SUFFICES ASSUME Init PROVE TypeOK
  OBVIOUS
<1>1. result \in [Canvas -> Int]
  <2>1. \A q \in Frame : input[q] * Scale \in Int
    <3> SUFFICES ASSUME NEW q \in Frame PROVE input[q] * Scale \in Int
      OBVIOUS
    <3>1. input[q] \in 0..255
      BY LevelsAssumption DEF Init
    <3>. QED
      BY <3>1, ScaleAssumption
  <2>. QED
    BY <2>1 DEF Init, InFrame
<1>2. out \in [Frame -> 0..255] \cup {None}
  BY DEF Init
<1>. QED
  BY <1>1, <1>2, DimAssumption DEF Init, TypeOK

(* Every step keeps the state well typed.                                 *)
LEMMA NextTypeOK == TypeOK /\ [Next]_vars => TypeOK'
<1> SUFFICES ASSUME TypeOK, [Next]_vars PROVE TypeOK'
  OBVIOUS
<1>1. CASE Step
  <2> DEFINE old == result[<<y, x>>]
       new == Quantise(old)
  <2>1. old \in Int
    BY DimAssumption DEF TypeOK, Canvas
  <2>2. new \in Int
    BY <2>1, ScaleAssumption DEF Quantise
  <2>3. result' \in [Canvas -> Int]
    <3>1. \A q \in Canvas : result[q] + Share(old - new, q) \in Int
      BY <2>1, <2>2, ShareInt DEF TypeOK
    <3>. QED
      BY <1>1, <2>2, <3>1 DEF Step
  <2>4. /\ y' \in 0..Height /\ x' \in 0..Width-1 /\ (y' = Height => x' = 0)
    BY <1>1, DimAssumption DEF Step, Advance, TypeOK
  <2>5. errSum' \in Int
    BY <1>1, <2>1, <2>2 DEF Step, TypeOK
  <2>. QED
    BY <1>1, <2>3, <2>4, <2>5 DEF Step, TypeOK
<1>2. CASE Finish
  <2>1. \A p \in Frame : ToUint8(result[p]) \in 0..255
    <3> SUFFICES ASSUME NEW p \in Frame PROVE ToUint8(result[p]) \in 0..255
      OBVIOUS
    <3>1. result[p] \in Int
      BY FrameInCanvas DEF TypeOK
    <3>. QED
      BY <3>1, ScaleAssumption DEF ToUint8
  <2>. QED
    BY <1>2, <2>1 DEF Finish, TypeOK
<1>3. CASE UNCHANGED vars
  BY <1>3 DEF vars, TypeOK
<1>4. QED
  BY <1>1, <1>2, <1>3 DEF Next

(* Type correctness of the scan.                                          *)
THEOREM TypeCorrect == Spec => []TypeOK
BY InitTypeOK, NextTypeOK, PTL DEF Spec

-----------------------------------------------------------------------------
(* After a Step the scanned pixels are the ones scanned before it and the *)
(* pixel that was under the cursor.                                        *)
LEMMA ScannedAfterStep ==
  ASSUME TypeOK, Step, NEW p \in Frame
  PROVE  Scanned(p)' <=> Scanned(p) \/ p = <<y, x>>
<1>1. p[1] \in 0..Height-1 /\ p[2] \in 0..Width-1 /\ p = <<p[1], p[2]>>
  BY DEF Frame
<1>2. CASE x + 1 < Width
  BY <1>1, <1>2 DEF Step, Advance, Scanned, TypeOK
<1>3. CASE ~(x + 1 < Width)
  BY <1>1, <1>3, DimAssumption DEF Step, Advance, Scanned, TypeOK
<1>4. QED
  BY <1>2, <1>3

(* 0 and 255 survive the uint8 cast.                                      *)
LEMMA CastBinary ==
  ASSUME NEW v \in {0, 255 * Scale}
  PROVE  ToUint8(v) \in {0, 255}
<1>1. (255 * Scale) \div Scale = 255
  BY ScaleAssumption
<1>2. 0 \div Scale = 0
  BY ScaleAssumption
<1>. QED
  BY <1>1, <1>2 DEF ToUint8

(* The inductive invariant: the type, the quantised pixels, the output.   *)
IInv == TypeOK /\ ScannedBinary /\ OutputBinary

(* Spec 4.5 and 8: every pixel the scan has passed is 0 or 255, and the   *)
(* frame dither_frame returns is binary, for every frame size, input and  *)
(* diffusion kernel.                                                       *)
THEOREM BinaryOutput == Spec => [](ScannedBinary /\ OutputBinary)
<1>1. Init => IInv
  <2> SUFFICES ASSUME Init PROVE IInv
    OBVIOUS
  <2>1. TypeOK
    BY InitTypeOK
  <2>2. \A p \in Frame : ~Scanned(p)
    BY DEF Init, Scanned, Frame
  <2>. QED
    BY <2>1, <2>2 DEF IInv, ScannedBinary, OutputBinary, Init
<1>2. IInv /\ [Next]_vars => IInv'
  <2> SUFFICES ASSUME IInv, [Next]_vars PROVE IInv'
    OBVIOUS
  <2>1. TypeOK'
    BY NextTypeOK DEF IInv
  <2>2. CASE Step
    <3> DEFINE old == result[<<y, x>>]
       new == Quantise(old)
    <3>1. ScannedBinary'
      <4> SUFFICES ASSUME NEW p \in Frame, Scanned(p)'
                   PROVE  result'[p] \in {0, 255 * Scale}
        BY DEF ScannedBinary
      <4>0. p \in Canvas /\ old \in Int /\ new \in Int
        BY FrameInCanvas, DimAssumption, ScaleAssumption
        DEF IInv, TypeOK, Canvas, Quantise
      <4>1. CASE p = <<y, x>>
        <5>1. result'[p] = new
          BY <2>2, <4>0, <4>1 DEF Step
        <5>2. new \in {0, 255 * Scale}
          BY DEF Quantise
        <5>. QED
          BY <5>1, <5>2
      <4>2. CASE p # <<y, x>>
        <5>1. Scanned(p)
          BY <2>2, <4>2, ScannedAfterStep DEF IInv
        <5>2. Share(old - new, p) = 0
          BY <5>1, <4>0, ShareBehindIsZero DEF IInv
        <5>3. result'[p] = result[p] + Share(old - new, p)
          BY <2>2, <4>0, <4>2 DEF Step
        <5>4. result[p] \in {0, 255 * Scale}
          BY <5>1 DEF IInv, ScannedBinary
        <5>. QED
          BY <4>0, <5>2, <5>3, <5>4 DEF IInv, TypeOK
      <4>. QED
        BY <4>1, <4>2
    <3>2. OutputBinary'
      BY <2>2 DEF Step, IInv, OutputBinary
    <3>. QED
      BY <2>1, <3>1, <3>2 DEF IInv
  <2>3. CASE Finish
    <3>1. \A p \in Frame : Scanned(p)
      BY <2>3 DEF Finish, Scanned, Frame, IInv, TypeOK
    <3>2. OutputBinary'
      BY <2>3, <3>1, CastBinary DEF Finish, IInv, ScannedBinary, OutputBinary
    <3>3. ScannedBinary'
      BY <2>3 DEF Finish, IInv, ScannedBinary, Scanned
    <3>. QED
      BY <2>1, <3>2, <3>3 DEF IInv
  <2>4. CASE UNCHANGED vars
    BY <2>1, <2>4 DEF vars, IInv, ScannedBinary, OutputBinary, Scanned
  <2>5. QED
    BY <2>2, <2>3, <2>4 DEF Next
<1>3. QED
  BY <1>1, <1>2, PTL DEF Spec, IInv

(* Spec 4.5: no step of the scan changes a pixel it has already          *)
(* quantised: the error only ever goes to pixels not yet visited.         *)
THEOREM ForwardOnlyHolds == Spec => ForwardOnly
<1>1. TypeOK /\ [Next]_vars =>
        [\A p \in Frame : Scanned(p) => result'[p] = result[p]]_vars
  <2> SUFFICES ASSUME TypeOK, [Next]_vars,
                      NEW p \in Frame, Scanned(p)
               PROVE  result'[p] = result[p]
    OBVIOUS
  <2>1. CASE Step
    <3> DEFINE old == result[<<y, x>>]
               new == Quantise(old)
    <3>1. p \in Canvas /\ p # <<y, x>> /\ old \in Int /\ new \in Int
      BY FrameInCanvas, DimAssumption, ScaleAssumption
      DEF TypeOK, Canvas, Quantise, Scanned
    <3>2. result'[p] = result[p] + Share(old - new, p)
      BY <2>1, <3>1 DEF Step
    <3>3. Share(old - new, p) = 0
      BY <3>1, ShareBehindIsZero
    <3>. QED
      BY <3>1, <3>2, <3>3, FrameInCanvas DEF TypeOK
  <2>2. CASE Finish
    BY <2>2 DEF Finish
  <2>3. CASE UNCHANGED vars
    BY <2>3 DEF vars
  <2>. QED
    BY <2>1, <2>2, <2>3 DEF Next
<1>. QED
  BY <1>1, TypeCorrect, PTL DEF Spec, ForwardOnly

-----------------------------------------------------------------------------
(* The frame is returned only after the scan has ended.                  *)
OutDone == out # None => y = Height

LEMMA OutDoneInductive == Spec => []OutDone
<1>1. Init => OutDone
  BY DEF Init, OutDone
<1>2. TypeOK /\ OutDone /\ [Next]_vars => OutDone'
  <2> SUFFICES ASSUME TypeOK, OutDone, [Next]_vars PROVE OutDone'
    OBVIOUS
  <2>1. CASE Step
    <3>1. y < Height /\ out' = out
      BY <2>1 DEF Step
    <3>. QED
      BY <3>1, DimAssumption DEF TypeOK, OutDone
  <2>2. CASE Finish
    BY <2>2 DEF Finish, OutDone
  <2>3. CASE UNCHANGED vars
    BY <2>3 DEF vars, OutDone
  <2>. QED
    BY <2>1, <2>2, <2>3 DEF Next
<1>. QED
  BY <1>1, <1>2, TypeCorrect, PTL DEF Spec

(* A Step leaves every pixel the scan has passed as it was.              *)
LEMMA StepKeepsScanned ==
  ASSUME TypeOK, Step, NEW p \in Frame, Scanned(p)
  PROVE  result'[p] = result[p]
<1> DEFINE old == result[<<y, x>>]
           new == Quantise(old)
<1>1. p \in Canvas /\ p # <<y, x>> /\ old \in Int /\ new \in Int
  BY FrameInCanvas, DimAssumption, ScaleAssumption
  DEF TypeOK, Canvas, Quantise, Scanned
<1>2. result'[p] = result[p] + Share(old - new, p)
  BY <1>1 DEF Step
<1>3. Share(old - new, p) = 0
  BY <1>1, ShareBehindIsZero
<1>. QED
  BY <1>1, <1>2, <1>3, FrameInCanvas DEF TypeOK

(* The scan's view of DitherSpec: the frame part of the accumulator and  *)
(* the pixels behind the cursor.                                          *)
Img == [q \in Frame |-> result[q]]
Quantised == {q \in Frame : Scanned(q)}

(* A Step quantises the pixel under the cursor: a Quantise step of      *)
(* DitherSpec.                                                             *)
LEMMA StepRefines ==
  ASSUME TypeOK, ScannedBinary, OutDone, Step
  PROVE  Abstract!Next
<1> DEFINE old == result[<<y, x>>]
           new == Quantise(old)
<1>0. y < Height /\ out' = out /\ input' = input
  BY DEF Step
<1>1. <<y, x>> \in Frame /\ <<y, x>> \in Canvas
  <2>1. <<y, x>> \in Frame
    BY <1>0, DimAssumption DEF TypeOK, Frame
  <2>. QED
    BY <2>1, FrameInCanvas
<1>2. <<y, x>> \notin Quantised
  BY DimAssumption DEF Quantised, Scanned, TypeOK
<1>3. out = None /\ out' = None /\ input' = input
  BY <1>0, DimAssumption DEF OutDone, TypeOK
<1>4. Quantised' = Quantised \cup {<<y, x>>}
  BY <1>1, ScannedAfterStep DEF Quantised
<1>5. TypeOK'
  BY NextTypeOK DEF Next
<1>6. Img' \in [Frame -> Int]
  BY <1>5, FrameInCanvas DEF TypeOK, Img
<1>7. Img'[<<y, x>>] \in {0, 255 * Scale}
  <2>1. result'[<<y, x>>] = new
    BY <1>1 DEF Step
  <2>. QED
    BY <1>1, <2>1 DEF Img, Quantise
<1>8. \A r \in Quantised : Img'[r] = Img[r]
  BY StepKeepsScanned DEF Quantised, Img
<1>9. Abstract!Frame = Frame
  BY DEF Abstract!Frame, Frame
<1>10. /\ <<y, x>> \notin {q \in Frame : Scanned(q)}
       /\ out = Abstract!None
       /\ UNCHANGED <<input, out>>
  BY <1>0, <1>2, <1>3 DEF Quantised, Abstract!None, None
<1>11. {q \in Frame : Scanned(q)}' = {q \in Frame : Scanned(q)} \cup {<<y, x>>}
  BY <1>4 DEF Quantised
<1>12. /\ [q \in Frame |-> result[q]]' \in [Abstract!Frame -> Int]
       /\ ([q \in Frame |-> result[q]]')[<<y, x>>] \in {Abstract!Black, Abstract!White}
  BY <1>6, <1>7, <1>9 DEF Img, Abstract!Black, Abstract!White
<1>13. \A r \in {q \in Frame : Scanned(q)} :
         ([q \in Frame |-> result[q]]')[r] = [q \in Frame |-> result[q]][r]
  BY <1>8 DEF Img, Quantised
<1>15. <<y, x>> \in Abstract!Frame
  BY <1>1, <1>9
<1>. QED
  BY <1>10, <1>11, <1>12, <1>13, <1>15 DEF Abstract!Next, Abstract!Quantise

(* Finish returns the frame, as DitherSpec's Return does.                 *)
LEMMA FinishRefines ==
  ASSUME TypeOK, ScannedBinary, Finish
  PROVE  Abstract!Return
<1>1. Quantised = Frame
  BY DEF Finish, Quantised, Scanned, Frame, TypeOK
<1>2. \A p \in Frame : ToUint8(result[p]) = IF Img[p] = 255 * Scale THEN 255 ELSE 0
  <2> SUFFICES ASSUME NEW p \in Frame
               PROVE  ToUint8(result[p]) = IF result[p] = 255 * Scale THEN 255 ELSE 0
    BY DEF Img
  <2>1. result[p] \in {0, 255 * Scale}
    BY <1>1 DEF ScannedBinary, Quantised
  <2>2. (255 * Scale) \div Scale = 255 /\ 0 \div Scale = 0 /\ 255 * Scale # 0
    BY ScaleAssumption
  <2>. QED
    BY <2>1, <2>2 DEF ToUint8
<1>3. out' = [p \in Frame |-> IF Img[p] = 255 * Scale THEN 255 ELSE 0]
  BY <1>2 DEF Finish
<1>4. Img' = Img /\ Quantised' = Quantised /\ input' = input /\ out = None
  BY DEF Finish, Img, Quantised, Scanned
<1>5. Abstract!Frame = Frame
  BY DEF Abstract!Frame, Frame
<1>. QED
  BY <1>1, <1>3, <1>4, <1>5
  DEF Abstract!Return, Abstract!White, Abstract!None, None, Img, Quantised

(* Spec 4.5 and 8: every diffusion kernel's row-major scan implements    *)
(* DitherSpec: each pixel is quantised once to 0 or 255 and never changed *)
(* again, and the frame is returned only when all are, holding them.     *)
THEOREM Refinement == Spec => ImplementsDitherSpec
<1>1. Init => Abstract!Init
  <2> SUFFICES ASSUME Init PROVE Abstract!Init
    OBVIOUS
  <2>1. Img = [p \in Frame |-> input[p] * Scale]
    BY FrameInCanvas DEF Init, Img, InFrame
  <2>2. Quantised = {}
    BY DEF Init, Quantised, Scanned, Frame
  <2>3. Abstract!Frame = Frame
    BY DEF Abstract!Frame, Frame
  <2>. QED
    BY <2>1, <2>2, <2>3 DEF Init, Abstract!Init, Abstract!None, None, Img, Quantised
<1>2. TypeOK /\ ScannedBinary /\ OutDone /\ [Next]_vars
        => [Abstract!Next]_Abstract!vars
  <2> SUFFICES ASSUME TypeOK, ScannedBinary, OutDone, [Next]_vars
               PROVE  [Abstract!Next]_Abstract!vars
    OBVIOUS
  <2>1. CASE Step
    BY <2>1, StepRefines
  <2>2. CASE Finish
    BY <2>2, FinishRefines DEF Abstract!Next
  <2>3. CASE UNCHANGED vars
    BY <2>3 DEF vars, Abstract!vars, Scanned
  <2>. QED
    BY <2>1, <2>2, <2>3 DEF Next
<1>3. Spec => [](TypeOK /\ ScannedBinary /\ OutDone)
  BY TypeCorrect, BinaryOutput, OutDoneInductive, PTL
<1>. QED
  BY <1>1, <1>2, <1>3, PTL DEF Spec, ImplementsDitherSpec, Abstract!Spec

=============================================================================
