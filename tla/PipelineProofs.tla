--------------------------- MODULE PipelineProofs ---------------------------
(***************************************************************************)
(* Proofs about process_video for every target size, shape set, option    *)
(* set and number of loaded frames: it is well typed, _cut_duration never *)
(* empties a non-empty video, _reduce_frames keeps the frames in order    *)
(* without repeating one, and resize_frame's crop fits the source frame.  *)
(***************************************************************************)
EXTENDS Pipeline, SequenceTheorems, TLAPS

-----------------------------------------------------------------------------
(***************************************************************************)
(* Integer division, int() and the crop.                                   *)
(***************************************************************************)

(* int() of a / b is an integer, for integer a and positive b.            *)
LEMMA IntOfInt ==
  ASSUME NEW a \in Int, NEW b \in Nat \ {0}
  PROVE  IntOf(a, b) \subseteq Int
BY DEF IntOf, TruncDiv

(* Floor division by a positive divisor.                                  *)
LEMMA DivBounds ==
  ASSUME NEW a \in Int, NEW b \in Nat \ {0}
  PROVE  /\ a \div b \in Int
         /\ b * (a \div b) <= a
         /\ a < b * (a \div b) + b
         /\ a % b = 0 => a = b * (a \div b)
OBVIOUS

(* int(a / b) for a >= 0: the quotient k, or k - 1 when b divides a.     *)
LEMMA IntOfNat ==
  ASSUME NEW a \in Nat, NEW b \in Nat \ {0}, NEW v \in IntOf(a, b)
  PROVE  /\ v \in Nat
         /\ b * v <= a
         /\ a < b * (v + 1) \/ a = b * (v + 1)
<1> DEFINE k == a \div b
<1>1. k \in Nat /\ b * k <= a /\ a < b * k + b /\ (a % b = 0 => a = b * k)
  BY DivBounds
<1>2. v = k \/ (v = k - 1 /\ a = b * k /\ k # 0)
  BY <1>1 DEF IntOf, TruncDiv
<1>3. CASE v = k
  BY <1>1, <1>3
<1>4. CASE v = k - 1 /\ a = b * k /\ k # 0
  BY <1>1, <1>4
<1>. QED
  BY <1>2, <1>3, <1>4

(* A centred cut of c out of l >= c leaves margins of equal size, or the *)
(* far one a pixel larger.                                                *)
LEMMA Centre ==
  ASSUME NEW l \in Nat, NEW c \in 0..l
  PROVE  /\ (l - c) \div 2 \in Nat
         /\ (l - c) \div 2 + c <= l
         /\ l - c - 2 * ((l - c) \div 2) \in {0, 1}
OBVIOUS

LEMMA CropsFit ==
  ASSUME NEW sh \in Nat \ {0}, NEW sw \in Nat \ {0}, TargetH # 0,
         NEW b \in Crops(sh, sw, TargetW, TargetH)
  PROVE  /\ b \in [y0 : Nat, x0 : Nat, h : Nat, w : Nat]
         /\ CropFit(b, sh, sw)
<1>0. TargetH \in Nat \ {0} /\ TargetW \in Nat
  BY TargetAssumption
<1>1. CASE Wider(sh, sw, TargetW, TargetH)
  <2>1. PICK nw \in IntOf(sh * TargetW, TargetH) : b = Box(0, (sw - nw) \div 2, sh, nw)
    BY <1>1 DEF Crops
  <2>2. nw \in Nat /\ TargetH * nw <= sh * TargetW
        /\ (sh * TargetW < TargetH * (nw + 1) \/ sh * TargetW = TargetH * (nw + 1))
    BY <1>0, IntOfNat
  <2>3. TargetH * nw < TargetH * sw
    BY <1>1, <2>2, TargetAssumption DEF Wider
  <2>4. nw <= sw
    BY <2>2, <2>3, TargetAssumption
  <2>5. (sw - nw) \div 2 \in Nat /\ (sw - nw) \div 2 + nw <= sw
        /\ sw - nw - 2 * ((sw - nw) \div 2) \in {0, 1}
    BY <2>2, <2>4, Centre
  <2>6. b.y0 = 0 /\ b.x0 = (sw - nw) \div 2 /\ b.h = sh /\ b.w = nw
    BY <2>1 DEF Box
  <2>7. b \in [y0 : Nat, x0 : Nat, h : Nat, w : Nat]
    BY <2>1, <2>2, <2>5 DEF Box
  <2>8. nw * TargetH <= TargetW * sh /\ TargetW * sh <= (nw + 1) * TargetH
    BY <2>2, TargetAssumption
  <2>9. sh - sh - 2 * 0 = 0
    OBVIOUS
  <2>. QED
    BY <2>5, <2>6, <2>7, <2>8, <2>9 DEF CropFit
<1>2. CASE ~Wider(sh, sw, TargetW, TargetH)
  <2>0. TargetW \in Nat \ {0}
    BY <1>0, <1>2 DEF Wider
  <2>1. PICK nh \in IntOf(sw * TargetH, TargetW) : b = Box((sh - nh) \div 2, 0, nh, sw)
    BY <1>2 DEF Crops
  <2>2. nh \in Nat /\ TargetW * nh <= sw * TargetH
        /\ (sw * TargetH < TargetW * (nh + 1) \/ sw * TargetH = TargetW * (nh + 1))
    BY <1>0, <2>0, IntOfNat
  <2>3. TargetW * nh <= TargetW * sh
    <3>1. sw * TargetH <= TargetW * sh
      BY <1>0, <1>2 DEF Wider
    <3>. QED
      BY <1>0, <2>2, <3>1
  <2>4. nh <= sh
    BY <2>0, <2>2, <2>3
  <2>5. (sh - nh) \div 2 \in Nat /\ (sh - nh) \div 2 + nh <= sh
        /\ sh - nh - 2 * ((sh - nh) \div 2) \in {0, 1}
    BY <2>2, <2>4, Centre
  <2>6. b.y0 = (sh - nh) \div 2 /\ b.x0 = 0 /\ b.h = nh /\ b.w = sw
    BY <2>1 DEF Box
  <2>7. b \in [y0 : Nat, x0 : Nat, h : Nat, w : Nat]
    BY <2>1, <2>2, <2>5 DEF Box
  <2>8. nh * TargetW <= TargetH * sw /\ TargetH * sw <= (nh + 1) * TargetW
    BY <2>2, TargetAssumption
  <2>9. sw - sw - 2 * 0 = 0
    OBVIOUS
  <2>. QED
    BY <2>5, <2>6, <2>7, <2>8, <2>9 DEF CropFit
<1>. QED
  BY <1>1, <1>2
(* _reduce_frames with len(frames) = n > max_frames = m > 0: iteration i  *)
(* picks an index inside the list, strictly past every index that        *)
(* iteration i - 1 can pick, and at most i * n / m.  The float rounding   *)
(* that int() may suffer at an exact product costs one, and n / m > 1     *)
(* leaves room for it.                                                    *)
LEMMA SampleIndex ==
  ASSUME NEW n \in Nat, NEW m \in Nat \ {0}, m < n,
         NEW r \in Nat, r < m, NEW fi \in FrameIndex(r, n, m)
  PROVE  /\ fi \in 0..n - 1
         /\ ((r - 1) * n) \div m < fi
         /\ fi <= (r * n) \div m
         /\ ((r - 1) * n) \div m <= (r * n) \div m
<1> DEFINE q == ((r - 1) * n) \div m
           k == (r * n) \div m
<1>1. q \in Int /\ m * q <= (r - 1) * n
  BY DivBounds
<1>2. k \in Int /\ m * k <= r * n /\ r * n < m * k + m
  BY DivBounds
<1>3. r * n >= 0 /\ r * n = (r - 1) * n + n /\ r * n <= (m - 1) * n
  OBVIOUS
<1>4. fi = k \/ (fi = k - 1 /\ r * n = m * k /\ k # 0)
  <2>1. TruncDiv(r * n, m) = k
    BY <1>3 DEF TruncDiv
  <2>2. (r * n) % m = 0 => r * n = m * k
    BY DivBounds
  <2>. QED
    BY <2>1, <2>2 DEF FrameIndex, IntOf
<1>5. m * q < m * k
  BY <1>1, <1>2, <1>3
<1>6. q < k
  BY <1>1, <1>2, <1>5
<1>7. k >= 0 /\ k < n
  <2>1. m * k < m * n
    BY <1>2, <1>3
  <2>. QED
    BY <1>2, <1>3, <2>1
<1>8. CASE fi = k
  BY <1>1, <1>6, <1>7, <1>8
<1>9. CASE fi = k - 1 /\ r * n = m * k /\ k # 0
  <2>1. m * q < m * (k - 1)
    BY <1>1, <1>9
  <2>2. q < k - 1
    BY <1>1, <1>2, <2>1
  <2>. QED
    BY <1>1, <1>6, <1>7, <1>9, <2>2
<1>. QED
  BY <1>4, <1>8, <1>9
(* The bounds _cut_duration computes for a non-empty list: the start is  *)
(* a valid index and the end lies past it, at most at the length.         *)
LEMMA CutBoundsRange ==
  ASSUME NEW total \in Nat \ {0}, NEW st \in TimeSet, NEW en \in TimeSet,
         NEW fps \in FpsSet, NEW b \in CutBounds(total, st, en, fps)
  PROVE  /\ b[1] \in 0..total - 1
         /\ b[2] \in b[1] + 1..total
<1> DEFINE Starts == IF st = None THEN {0}
                     ELSE {PyMax(0, PyMin(s, total - 1)) : s \in IntTimes(st, fps)}
<1>1. Starts \subseteq 0..total - 1
  <2>1. CASE st = None
    BY <2>1
  <2>2. CASE st # None
    <3>1. IntTimes(st, fps) \subseteq Int
      BY <2>2, IntOfInt, TimeAssumption, FpsAssumption DEF IntTimes
    <3>. QED
      BY <2>2, <3>1 DEF PyMax, PyMin
  <2>. QED
    BY <2>1, <2>2
<1>2. PICK sf \in Starts :
        b \in IF en = None THEN {<<sf, total>>}
              ELSE {<<sf, PyMax(sf + 1, PyMin(e, total))>> : e \in IntTimes(en, fps)}
  BY DEF CutBounds
<1>3. CASE en = None
  BY <1>1, <1>2, <1>3
<1>4. CASE en # None
  <2>1. IntTimes(en, fps) \subseteq Int
    BY <1>4, IntOfInt, TimeAssumption, FpsAssumption DEF IntTimes
  <2>. QED
    BY <1>1, <1>2, <1>4, <2>1 DEF PyMax, PyMin
<1>. QED
  BY <1>3, <1>4

(* Spec 4.1: trimming a non-empty list returns a non-empty run of         *)
(* consecutive frames of it.                                              *)
LEMMA CutWindow ==
  ASSUME NEW S, NEW fr \in Seq(S), fr # <<>>,
         NEW st \in TimeSet, NEW en \in TimeSet, NEW fps \in FpsSet,
         NEW s \in CutDuration(fr, st, en, fps)
  PROVE  \E lo \in 0..Len(fr) - 1, len \in 1..Len(fr) :
           /\ lo + len <= Len(fr)
           /\ s = [k \in 1..len |-> fr[lo + k]]
<1>1. Len(fr) \in Nat \ {0}
  BY EmptySeq, Zenon
<1>2. PICK b \in CutBounds(Len(fr), st, en, fps) : s = PySlice(fr, b[1], b[2])
  BY DEF CutDuration
<1>3. b[1] \in 0..Len(fr) - 1 /\ b[2] \in b[1] + 1..Len(fr)
  BY <1>1, CutBoundsRange
<1>4. PyMin(b[2], Len(fr)) = b[2]
  BY <1>1, <1>3 DEF PyMin
<1>5. s = [k \in 1..(b[2] - b[1]) |-> fr[b[1] + k]]
  BY <1>2, <1>4 DEF PySlice
<1>6. /\ b[1] \in 0..Len(fr) - 1
      /\ b[2] - b[1] \in 1..Len(fr)
      /\ b[1] + (b[2] - b[1]) <= Len(fr)
  BY <1>1, <1>3
<1> USE <1>6
<1>. WITNESS b[1] \in 0..Len(fr) - 1, b[2] - b[1] \in 1..Len(fr)
<1>. QED
  BY <1>5, <1>6

(* Such a run is a non-empty sequence over the same set.                   *)
LEMMA WindowSeq ==
  ASSUME NEW S, NEW fr \in Seq(S), NEW lo \in Nat, NEW len \in Nat \ {0},
         lo + len <= Len(fr)
  PROVE  /\ [k \in 1..len |-> fr[lo + k]] \in Seq(S)
         /\ [k \in 1..len |-> fr[lo + k]] # <<>>
         /\ Len([k \in 1..len |-> fr[lo + k]]) = len
<1>1. \A k \in 1..len : fr[lo + k] \in S
  BY ElementOfSeq
<1>2. [k \in 1..len |-> fr[lo + k]] \in Seq(S)
  BY <1>1, IsASeq
<1>. QED
  BY <1>2

-----------------------------------------------------------------------------
(***************************************************************************)
(* TypeOK and CutKeepsFrame.  Neither is inductive by itself:             *)
(*  - the save copies processed frames, so their records must be typed;   *)
(*  - the cut and the sampler replace `frames` before the frame loop has  *)
(*    started;                                                            *)
(*  - the sampler's index stays inside a list longer than the budget;     *)
(*  - the cut must see the loaded list, and a non-empty one: until the    *)
(*    cut, `frames` is the loaded list, and process_video reaches the cut *)
(*    only past its `if not frames: return False`.                        *)
(***************************************************************************)
ProcRec == [src : Nat, from : Shapes, crop : [y0 : Nat, x0 : Nat, h : Nat, w : Nat],
            shape : {<<TargetH, TargetW>>}]

TInv ==
  /\ TypeOK
  /\ processed \in Seq(ProcRec)
  /\ pc \in {"start", "cut", "reduce", "sample"} => i = 1
  /\ pc = "sample" => cfg.maxFrames \in Int /\ cfg.maxFrames < Len(frames)
  /\ pc \in {"start", "cut"} => frames = Source
  /\ pc = "cut" => loaded # <<>>
  /\ CutKeepsFrame

(* The loaded list, as frame records, is a sequence, empty only when the *)
(* loaded list is.                                                        *)
LEMMA SourceSeq ==
  ASSUME loaded \in Seq(Shapes)
  PROVE  /\ Source \in Seq(FrameRec)
         /\ Len(Source) = Len(loaded)
         /\ Source = <<>> <=> loaded = <<>>
<1>1. Len(loaded) \in Nat /\ DOMAIN loaded = 1..Len(loaded)
  BY LenProperties
<1>2. Source \in [1..Len(loaded) -> FrameRec]
  <2>1. \A k \in 1..Len(loaded) : loaded[k] \in Shapes
    BY ElementOfSeq
  <2>2. \A k \in 1..Len(loaded) : k - 1 \in Nat
    OBVIOUS
  <2>. QED
    BY <1>1, <2>1, <2>2 DEF Source, FrameRec
<1>3. Source \in Seq(FrameRec)
  BY <1>1, <1>2
<1>4. DOMAIN Source = DOMAIN loaded
  BY DEF Source
<1>. QED
  BY <1>1, <1>3, <1>4, EmptySeq

LEMMA InitTInv ==
  Init => TInv
<1> SUFFICES ASSUME Init PROVE TInv
  OBVIOUS
<1>1. loaded \in Seq(Shapes)
  BY DEF Init
<1>2. Source \in Seq(FrameRec) /\ Len(Source) \in Nat
  BY <1>1, SourceSeq, LenProperties
<1>3. <<>> \in Seq(ProcRec) /\ <<>> \in Seq(FrameRec) /\ Len(<<>>) = 0
  BY EmptySeq
<1>4. /\ cfg \in Cfgs /\ pc = "start" /\ frames = Source /\ trimmed = Source
      /\ i = 1 /\ processed = <<>> /\ saved = <<>> /\ outcome = "running"
      /\ ri = 0 /\ reduced = <<>>
  BY DEF Init
<1>5. TypeOK
  BY <1>1, <1>2, <1>3, <1>4 DEF TypeOK, ProcRec, Outcomes
<1>6. CutKeepsFrame
  BY <1>1, <1>4, SourceSeq DEF CutKeepsFrame
<1>. QED
  BY <1>3, <1>4, <1>5, <1>6 DEF TInv


(* The facts TInv gives about the current state, one name for each.       *)
LEMMA TInvFacts ==
  ASSUME TInv
  PROVE  /\ cfg \in Cfgs /\ loaded \in Seq(Shapes)
         /\ pc \in {"start", "cut", "reduce", "sample", "loop", "save", "done"}
         /\ trimmed \in Seq(FrameRec) /\ frames \in Seq(FrameRec)
         /\ Len(frames) \in Nat /\ i \in 1..Len(frames) + 1
         /\ processed \in Seq(ProcRec) /\ Len(processed) = i - 1
         /\ saved \in Seq(ProcRec)
         /\ outcome \in Outcomes /\ ((outcome = "running") <=> (pc # "done"))
         /\ ri \in Nat /\ reduced \in Seq(FrameRec)
         /\ pc \in {"start", "cut", "reduce", "sample"} => i = 1
         /\ pc = "sample" => cfg.maxFrames \in Int /\ cfg.maxFrames < Len(frames)
         /\ pc \in {"start", "cut"} => frames = Source
         /\ pc = "cut" => loaded # <<>>
         /\ CutKeepsFrame
<1>1. Len(frames) \in Nat
  BY LenProperties DEF TInv, TypeOK
<1>. QED
  BY <1>1 DEF TInv, TypeOK, ProcRec

(* TInv, stated of the next state by its conjuncts.                       *)
LEMMA TInvFromFacts ==
  ASSUME /\ cfg' \in Cfgs /\ loaded' \in Seq(Shapes)
         /\ pc' \in {"start", "cut", "reduce", "sample", "loop", "save", "done"}
         /\ trimmed' \in Seq(FrameRec) /\ frames' \in Seq(FrameRec)
         /\ i' \in 1..Len(frames') + 1
         /\ processed' \in Seq(ProcRec) /\ Len(processed') = i' - 1
         /\ saved' \in Seq(ProcRec)
         /\ outcome' \in Outcomes /\ ((outcome' = "running") <=> (pc' # "done"))
         /\ ri' \in Nat /\ reduced' \in Seq(FrameRec)
         /\ pc' \in {"start", "cut", "reduce", "sample"} => i' = 1
         /\ pc' = "sample" => cfg'.maxFrames \in Int /\ cfg'.maxFrames < Len(frames')
         /\ pc' \in {"start", "cut"} => frames' = Source'
         /\ pc' = "cut" => loaded' # <<>>
         /\ CutKeepsFrame'
  PROVE  TInv'
BY DEF TInv, TypeOK, ProcRec

LEMMA NextTInv ==
  TInv /\ [Next]_vars => TInv'
<1> SUFFICES ASSUME TInv, [Next]_vars PROVE TInv'
  OBVIOUS
<1>0. /\ cfg \in Cfgs /\ loaded \in Seq(Shapes)
      /\ pc \in {"start", "cut", "reduce", "sample", "loop", "save", "done"}
      /\ trimmed \in Seq(FrameRec) /\ frames \in Seq(FrameRec)
      /\ Len(frames) \in Nat /\ i \in 1..Len(frames) + 1
      /\ processed \in Seq(ProcRec) /\ Len(processed) = i - 1
      /\ saved \in Seq(ProcRec)
      /\ outcome \in Outcomes /\ ((outcome = "running") <=> (pc # "done"))
      /\ ri \in Nat /\ reduced \in Seq(FrameRec)
      /\ pc \in {"start", "cut", "reduce", "sample"} => i = 1
      /\ pc = "sample" => cfg.maxFrames \in Int /\ cfg.maxFrames < Len(frames)
      /\ pc \in {"start", "cut"} => frames = Source
      /\ pc = "cut" => loaded # <<>>
      /\ CutKeepsFrame
  BY TInvFacts
<1>1. cfg' = cfg /\ loaded' = loaded
  BY DEF Next, vars, Start, SkipCut, Cut, Reduce, Sample, SampleEnd,
         ProcessFrame, LoopEnd, SavePng, SaveGif
<1>2. Source' = Source
  BY <1>1 DEF Source
<1>3. CASE Start
  <2>1. /\ pc = "start"
        /\ UNCHANGED <<trimmed, frames, i, processed, saved, ri, reduced>>
        /\ \/ loaded = <<>> /\ pc' = "done" /\ outcome' = "fail"
           \/ loaded # <<>> /\ pc' = "cut" /\ outcome' = outcome
    BY <1>3 DEF Start, Return
  <2>. QED
    BY <1>0, <1>1, <1>2, <2>1, TInvFromFacts DEF Outcomes, CutKeepsFrame
<1>4. CASE SkipCut
  <2>1. /\ pc = "cut" /\ pc' = "reduce"
        /\ UNCHANGED <<trimmed, frames, i, processed, saved, outcome, ri, reduced>>
    BY <1>4 DEF SkipCut
  <2>. QED
    BY <1>0, <1>1, <1>2, <2>1, TInvFromFacts DEF CutKeepsFrame
<1>5. CASE Cut
  <2>1. /\ pc = "cut" /\ i = 1 /\ frames = Source /\ loaded # <<>>
        /\ UNCHANGED <<i, processed, saved, ri, reduced>>
    BY <1>0, <1>5 DEF Cut
  <2>2. frames # <<>>
    BY <1>0, <2>1, SourceSeq
  <2>3. cfg.start \in TimeSet /\ cfg.end \in TimeSet /\ cfg.fps \in FpsSet
    BY <1>0 DEF Cfgs
  <2>4. CASE CutRaises(cfg.end, cfg.fps)
    <3>1. pc' = "done" /\ outcome' = "ZeroDivisionError"
          /\ UNCHANGED <<trimmed, frames>>
      BY <1>5, <2>4 DEF Cut, Return
    <3>. QED
      BY <1>0, <1>1, <1>2, <2>1, <3>1, TInvFromFacts DEF Outcomes, CutKeepsFrame
  <2>5. CASE ~CutRaises(cfg.end, cfg.fps)
    <3>1. PICK s \in CutDuration(frames, cfg.start, cfg.end, cfg.fps) :
            /\ frames' = s /\ trimmed' = s
            /\ IF s = <<>> THEN Return("fail")
               ELSE pc' = "reduce" /\ UNCHANGED outcome
      BY <1>5, <2>5 DEF Cut
    <3>2. PICK lo \in 0..Len(frames) - 1, len \in 1..Len(frames) :
            /\ lo + len <= Len(frames)
            /\ s = [k \in 1..len |-> frames[lo + k]]
      <4>1. frames \in Seq(FrameRec) /\ frames # <<>>
        BY <1>0, <2>2
      <4>2. s \in CutDuration(frames, cfg.start, cfg.end, cfg.fps)
        OBVIOUS
      <4>3. cfg.start \in TimeSet /\ cfg.end \in TimeSet /\ cfg.fps \in FpsSet
        BY <2>3
      <4>. QED
        BY <4>1, <4>2, <4>3, CutWindow, SMTT(60)
    <3>3. s \in Seq(FrameRec) /\ s # <<>> /\ Len(s) = len
      <4>1. lo \in Nat /\ len \in Nat \ {0} /\ lo + len <= Len(frames)
        BY <1>0, <3>2
      <4>2. frames \in Seq(FrameRec)
        BY <1>0
      <4>3. s = [k \in 1..len |-> frames[lo + k]]
        BY <3>2
      <4>. QED
        BY <4>1, <4>2, <4>3, WindowSeq
    <3>4. pc' = "reduce" /\ outcome' = outcome
      BY <3>1, <3>3
    <3>. QED
      BY <1>0, <1>1, <1>2, <2>1, <3>1, <3>3, <3>4, TInvFromFacts DEF CutKeepsFrame
  <2>. QED
    BY <2>4, <2>5
<1>6. CASE Reduce
  <2>1. /\ pc = "reduce" /\ i = 1
        /\ UNCHANGED <<trimmed, frames, i, processed, saved>>
    BY <1>0, <1>6 DEF Reduce
  <2>2. CASE cfg.maxFrames # None /\ Len(frames) > cfg.maxFrames
                /\ ReduceRaises(Len(frames), cfg.maxFrames)
    <3>1. pc' = "done" /\ outcome' = "ZeroDivisionError" /\ UNCHANGED <<ri, reduced>>
      BY <1>6, <2>2 DEF Reduce, Return, sampler
    <3>. QED
      BY <1>0, <1>1, <1>2, <2>1, <3>1, TInvFromFacts DEF Outcomes, CutKeepsFrame
  <2>3. CASE cfg.maxFrames # None /\ Len(frames) > cfg.maxFrames
                /\ ~ReduceRaises(Len(frames), cfg.maxFrames)
    <3>1. pc' = "sample" /\ ri' = 0 /\ reduced' = <<>> /\ outcome' = outcome
      BY <1>6, <2>3 DEF Reduce
    <3>2. cfg.maxFrames \in Int
      BY <1>0, <2>3, BudgetAssumption DEF Cfgs
    <3>3. <<>> \in Seq(FrameRec)
      BY EmptySeq
    <3>. QED
      BY <1>0, <1>1, <1>2, <2>1, <2>3, <3>1, <3>2, <3>3, TInvFromFacts DEF CutKeepsFrame
  <2>4. CASE ~(cfg.maxFrames # None /\ Len(frames) > cfg.maxFrames)
    <3>1. pc' = "loop" /\ UNCHANGED <<outcome, ri, reduced>>
      BY <1>6, <2>4 DEF Reduce
    <3>. QED
      BY <1>0, <1>1, <1>2, <2>1, <3>1, TInvFromFacts DEF CutKeepsFrame
  <2>. QED
    BY <2>2, <2>3, <2>4
<1>7. CASE Sample
  <2>1. /\ pc = "sample" /\ ~SampleOver(ri, cfg.maxFrames) /\ ri' = ri + 1
        /\ UNCHANGED <<pc, trimmed, frames, i, processed, saved, outcome>>
    BY <1>7 DEF Sample
  <2>2. PICK fi \in FrameIndex(ri, Len(frames), cfg.maxFrames) :
          reduced' = IF fi < Len(frames) THEN Append(reduced, frames[fi + 1])
                     ELSE reduced
    BY <1>7 DEF Sample
  <2>3. /\ cfg.maxFrames \in Nat \ {0} /\ cfg.maxFrames < Len(frames)
        /\ ri < cfg.maxFrames
    BY <1>0, <2>1 DEF SampleOver
  <2>4. fi \in 0..Len(frames) - 1
    BY <1>0, <2>3, SampleIndex
  <2>5. frames[fi + 1] \in FrameRec
    BY <1>0, <2>4, ElementOfSeq
  <2>6. reduced' \in Seq(FrameRec)
    BY <1>0, <2>2, <2>5, AppendProperties
  <2>. QED
    BY <1>0, <1>1, <1>2, <2>1, <2>6, TInvFromFacts DEF CutKeepsFrame
<1>8. CASE SampleEnd
  <2>1. /\ pc = "sample" /\ frames' = reduced /\ pc' = "loop" /\ i = 1
        /\ UNCHANGED <<trimmed, i, processed, saved, outcome, ri, reduced>>
    BY <1>0, <1>8 DEF SampleEnd
  <2>2. Len(reduced) \in Nat
    BY <1>0, LenProperties
  <2>. QED
    BY <1>0, <1>1, <1>2, <2>1, <2>2, TInvFromFacts DEF CutKeepsFrame
<1>9. CASE ProcessFrame
  <2>1. /\ pc = "loop" /\ i <= Len(frames)
        /\ UNCHANGED <<trimmed, frames, saved, ri, reduced>>
    BY <1>9 DEF ProcessFrame
  <2>2. frames[i] \in FrameRec
    BY <1>0, <2>1, ElementOfSeq
  <2>3. frames[i].shape[1] \in Nat \ {0} /\ frames[i].shape[2] \in Nat \ {0}
        /\ frames[i].src \in Nat /\ frames[i].shape \in Shapes
    BY <2>2, ShapeAssumption DEF FrameRec
  <2>4. CASE TargetH = 0
    <3>1. pc' = "done" /\ outcome' = "ZeroDivisionError" /\ UNCHANGED <<i, processed>>
      BY <1>9, <2>4 DEF ProcessFrame, Return
    <3>. QED
      BY <1>0, <1>1, <1>2, <2>1, <3>1, TInvFromFacts DEF Outcomes, CutKeepsFrame
  <2>5. CASE TargetH # 0
    <3>1. PICK box \in Crops(frames[i].shape[1], frames[i].shape[2], TargetW, TargetH) :
            IF ResizeRaises(box) THEN Return("cv2.error") /\ UNCHANGED <<i, processed>>
            ELSE IF ExposureOverflows THEN Return("OverflowError") /\ UNCHANGED <<i, processed>>
            ELSE IF cfg.algorithm \notin DitherNames
            THEN Return("ValueError") /\ UNCHANGED <<i, processed>>
            ELSE /\ processed' = Append(processed,
                      [src |-> frames[i].src, from |-> frames[i].shape, crop |-> box,
                       shape |-> <<TargetH, TargetW>>])
                 /\ i' = i + 1
                 /\ UNCHANGED <<pc, outcome>>
      BY <1>9, <2>5 DEF ProcessFrame
    <3>2. box \in [y0 : Nat, x0 : Nat, h : Nat, w : Nat]
      BY <2>3, <2>5, CropsFit
    <3>3. CASE ResizeRaises(box) \/ ExposureOverflows \/ cfg.algorithm \notin DitherNames
      <4>1. pc' = "done" /\ outcome' \in {"cv2.error", "OverflowError", "ValueError"}
            /\ UNCHANGED <<i, processed>>
        BY <3>1, <3>3 DEF Return
      <4>. QED
        BY <1>0, <1>1, <1>2, <2>1, <4>1, TInvFromFacts DEF Outcomes, CutKeepsFrame
    <3>4. CASE ~ResizeRaises(box) /\ ~ExposureOverflows /\ cfg.algorithm \in DitherNames
      <4> DEFINE rec == [src |-> frames[i].src, from |-> frames[i].shape, crop |-> box,
                         shape |-> <<TargetH, TargetW>>]
      <4>1. processed' = Append(processed, rec) /\ i' = i + 1
            /\ UNCHANGED <<pc, outcome>>
        BY <3>1, <3>4
      <4>2. rec \in ProcRec
        BY <2>3, <3>2 DEF ProcRec
      <4>3. processed' \in Seq(ProcRec) /\ Len(processed') = i
        BY <1>0, <4>1, <4>2, AppendProperties
      <4>4. i' \in 1..Len(frames') + 1
        BY <1>0, <2>1, <4>1
      <4>. QED
        BY <1>0, <1>1, <1>2, <2>1, <4>1, <4>3, <4>4, TInvFromFacts DEF CutKeepsFrame
    <3>. QED
      BY <3>3, <3>4
  <2>. QED
    BY <2>4, <2>5
<1>10. CASE LoopEnd
  <2>1. pc = "loop" /\ pc' = "save"
        /\ UNCHANGED <<trimmed, frames, i, processed, saved, outcome, ri, reduced>>
    BY <1>10 DEF LoopEnd
  <2>. QED
    BY <1>0, <1>1, <1>2, <2>1, TInvFromFacts DEF CutKeepsFrame
<1>11. CASE SavePng \/ SaveGif
  <2>1. /\ pc = "save" /\ pc' = "done" /\ outcome' \in {"ok", "fail"}
        /\ UNCHANGED <<trimmed, frames, i, processed, ri, reduced>>
    BY <1>11 DEF SavePng, SaveGif, Return
  <2>2. saved' \in Seq(ProcRec)
    <3>1. CASE processed = <<>>
      <4>1. saved' = saved
        BY <1>11, <3>1 DEF SavePng, SaveGif
      <4>. QED
        BY <1>0, <4>1
    <3>2. CASE processed # <<>>
      <4>1. Len(processed) \in Nat /\ Len(processed) # 0
        BY <1>0, <3>2, EmptySeq, LenProperties
      <4>2. processed[1] \in ProcRec
        BY <1>0, <4>1, ElementOfSeq
      <4>3. <<processed[1]>> \in Seq(ProcRec)
        BY <4>2
      <4>4. saved' \in {saved, processed, <<processed[1]>>}
        BY <1>11 DEF SavePng, SaveGif
      <4>. QED
        BY <1>0, <4>3, <4>4
    <3>. QED
      BY <3>1, <3>2
  <2>. QED
    BY <1>0, <1>1, <1>2, <2>1, <2>2, TInvFromFacts DEF Outcomes, CutKeepsFrame
<1>12. CASE UNCHANGED vars
  BY <1>0, <1>12, TInvFromFacts DEF vars, Source, CutKeepsFrame
<1>. QED
  BY <1>3, <1>4, <1>5, <1>6, <1>7, <1>8, <1>9, <1>10, <1>11, <1>12 DEF Next

(* Every state process_video reaches satisfies TInv.                      *)
LEMMA TInvHolds == Spec => []TInv
BY InitTInv, NextTInv, PTL DEF Spec

(* Type correctness of process_video's state, for all constants that meet *)
(* the assumptions: the frames, the processed and saved records and the   *)
(* sampler's list keep their types through every stage.                   *)
THEOREM PipelineTypeCorrect == Spec => []TypeOK
BY TInvHolds, PTL DEF TInv

(* Spec 4.1 and 8, for all constants: _cut_duration never leaves an empty *)
(* list from a non-empty one, whatever the window and fps.                *)
THEOREM CutKeepsFrameHolds == Spec => []CutKeepsFrame
BY TInvHolds, PTL DEF TInv

-----------------------------------------------------------------------------
(***************************************************************************)
(* CropFits.  Only the frame loop appends to processed_frames, and what   *)
(* it appends records the crop resize_frame chose for the frame's own     *)
(* shape: CropsFit is the whole argument, with TInv for the types.        *)
(***************************************************************************)
LEMMA NextCropFits ==
  TInv /\ CropFits /\ [Next]_vars => CropFits'
<1> SUFFICES ASSUME TInv, CropFits, [Next]_vars PROVE CropFits'
  OBVIOUS
<1>1. CASE processed' = processed
  BY <1>1 DEF CropFits
<1>2. CASE processed' # processed
  <2>1. /\ pc = "loop" /\ i <= Len(frames) /\ TargetH # 0
        /\ \E box \in Crops(frames[i].shape[1], frames[i].shape[2], TargetW, TargetH) :
             /\ ~ResizeRaises(box) /\ cfg.algorithm \in DitherNames
             /\ processed' = Append(processed,
                  [src |-> frames[i].src, from |-> frames[i].shape, crop |-> box,
                   shape |-> <<TargetH, TargetW>>])
    <3>1. ProcessFrame
      BY <1>2 DEF Next, vars, Start, SkipCut, Cut, Reduce, Sample, SampleEnd,
                  LoopEnd, SavePng, SaveGif
    <3>. QED
      BY <1>2, <3>1 DEF ProcessFrame
  <2>2. PICK box \in Crops(frames[i].shape[1], frames[i].shape[2], TargetW, TargetH) :
          processed' = Append(processed,
                  [src |-> frames[i].src, from |-> frames[i].shape, crop |-> box,
                   shape |-> <<TargetH, TargetW>>])
    BY <2>1
  <2>3. frames \in Seq(FrameRec) /\ processed \in Seq(ProcRec)
    BY DEF TInv, TypeOK
  <2>4. i \in 1..Len(frames)
    BY <2>1, <2>3 DEF TInv, TypeOK
  <2>5. frames[i].shape[1] \in Nat \ {0} /\ frames[i].shape[2] \in Nat \ {0}
    <3>1. frames[i] \in FrameRec
      BY <2>3, <2>4, ElementOfSeq
    <3>. QED
      BY <3>1, ShapeAssumption DEF FrameRec
  <2>6. CropFit(box, frames[i].shape[1], frames[i].shape[2])
    BY <2>1, <2>5, CropsFit
  <2>7. /\ DOMAIN processed' = 1..Len(processed) + 1
        /\ \A k \in 1..Len(processed) : processed'[k] = processed[k]
        /\ processed'[Len(processed) + 1].crop = box
        /\ processed'[Len(processed) + 1].from = frames[i].shape
    BY <2>2, <2>3, AppendProperties
  <2>. QED
    BY <2>3, <2>6, <2>7 DEF CropFits
<1>. QED
  BY <1>1, <1>2

(* Spec 4.3, for all constants: every frame process_video has resized    *)
(* was cropped inside itself, centred, with the target ratio.             *)
THEOREM CropFitsHolds == Spec => []CropFits
<1>1. Init => CropFits
  BY DEF Init, CropFits
<1>. QED
  BY <1>1, InitTInv, NextTInv, NextCropFits, PTL DEF Spec

-----------------------------------------------------------------------------
(***************************************************************************)
(* FramesInOrder.  The frame loop emits frames in the order of the local  *)
(* `frames`, so it is enough that `frames` is always strictly ordered by  *)
(* source index.  The loaded list is; the cut keeps a run of consecutive  *)
(* frames of it; the sampler's loop appends frames[int(i * step)], whose  *)
(* index lies past every index taken before: each earlier one is at most  *)
(* floor((i - 1) * len / max_frames), and SampleIndex puts the new one    *)
(* above that.  The strengthening records that bound for the sample       *)
(* gathered so far.                                                       *)
(***************************************************************************)

(* A list of frame records in strictly increasing source order.           *)
Ordered(s) == \A j, k \in DOMAIN s : j < k => s[j].src < s[k].src

(* What _reduce_frames has gathered, while it runs: an ordered list of    *)
(* frames taken at indices no later than the last one it computed.        *)
SampledBefore ==
  pc = "sample" =>
    /\ Ordered(reduced)
    /\ \A k \in DOMAIN reduced : \E p \in 0..Len(frames) - 1 :
         /\ reduced[k] = frames[p + 1]
         /\ p <= ((ri - 1) * Len(frames)) \div cfg.maxFrames

(* The k-th processed frame is the k-th frame of `frames`.                *)
ProcSrc == \A k \in DOMAIN processed : processed[k].src = frames[k].src

OInv == TInv /\ Ordered(frames) /\ SampledBefore /\ ProcSrc

(* Appending a frame later than all of an ordered list keeps it ordered.  *)
LEMMA OrderedAppend ==
  ASSUME NEW S, NEW s \in Seq(S), NEW e \in S, Ordered(s),
         \A k \in DOMAIN s : s[k].src < e.src
  PROVE  Ordered(Append(s, e))
BY AppendProperties DEF Ordered

(* A run of consecutive frames of an ordered list is ordered.             *)
LEMMA OrderedWindow ==
  ASSUME NEW S, NEW fr \in Seq(S), Ordered(fr), NEW lo \in Nat,
         NEW len \in Nat, lo + len <= Len(fr)
  PROVE  Ordered([k \in 1..len |-> fr[lo + k]])
BY DEF Ordered

(* load_video's frames come in source order.                              *)
LEMMA OrderedSource ==
  ASSUME loaded \in Seq(Shapes)
  PROVE  Ordered(Source)
BY DEF Ordered, Source

LEMMA InitOInv == Init => OInv
<1> SUFFICES ASSUME Init PROVE OInv
  OBVIOUS
<1>1. TInv
  BY InitTInv
<1>2. loaded \in Seq(Shapes) /\ frames = Source /\ pc = "start" /\ processed = <<>>
  BY <1>1 DEF Init, TInv, TypeOK
<1>3. Ordered(frames)
  BY <1>2, OrderedSource
<1>. QED
  BY <1>1, <1>2, <1>3 DEF OInv, SampledBefore, ProcSrc

(* The steps that leave frames and processed_frames alone and do not run  *)
(* the sampler's loop keep OInv.                                          *)
LEMMA OInvKept ==
  ASSUME OInv, TInv', frames' = frames, processed' = processed, pc' # "sample"
  PROVE  OInv'
BY DEF OInv, SampledBefore, ProcSrc, Ordered

LEMMA NextOInv ==
  OInv /\ [Next]_vars => OInv'
<1> SUFFICES ASSUME OInv, [Next]_vars PROVE OInv'
  OBVIOUS
<1>0. /\ TInv'
      /\ frames \in Seq(FrameRec) /\ processed \in Seq(ProcRec)
      /\ Len(frames) \in Nat /\ i \in 1..Len(frames) + 1
      /\ Len(processed) = i - 1
      /\ pc \in {"start", "cut", "reduce", "sample"} => i = 1
      /\ pc = "sample" => cfg.maxFrames \in Int /\ cfg.maxFrames < Len(frames)
      /\ pc \in {"start", "cut"} => frames = Source
      /\ loaded \in Seq(Shapes) /\ ri \in Nat /\ reduced \in Seq(FrameRec)
      /\ cfg \in Cfgs /\ (pc = "cut" => loaded # <<>>)
  BY NextTInv, TInvFacts DEF OInv
<1>1. Ordered(frames) /\ SampledBefore /\ ProcSrc
  BY DEF OInv
<1>2. CASE Start \/ SkipCut \/ LoopEnd \/ SavePng \/ SaveGif
  <2>1. frames' = frames /\ processed' = processed /\ pc' # "sample"
    BY <1>2 DEF Start, SkipCut, LoopEnd, SavePng, SaveGif, Return
  <2>. QED
    BY <1>0, <2>1, OInvKept
<1>3. CASE Cut
  <2>1. pc = "cut" /\ i = 1 /\ frames = Source /\ pc' # "sample"
        /\ processed' = processed
    BY <1>0, <1>3 DEF Cut, Return
  <2>2. processed = <<>>
    BY <1>0, <2>1, EmptySeq
  <2>3. Ordered(frames')
    <3>1. CASE frames' = frames
      BY <1>1, <3>1
    <3>2. CASE frames' # frames
      <4>1. ~CutRaises(cfg.end, cfg.fps)
            /\ frames' \in CutDuration(frames, cfg.start, cfg.end, cfg.fps)
        BY <1>3, <3>2 DEF Cut
      <4>2. frames \in Seq(FrameRec) /\ frames # <<>>
        BY <1>0, <2>1, SourceSeq
      <4>3. cfg.start \in TimeSet /\ cfg.end \in TimeSet /\ cfg.fps \in FpsSet
        BY <1>0 DEF Cfgs
      <4>4. PICK lo \in 0..Len(frames) - 1, len \in 1..Len(frames) :
              /\ lo + len <= Len(frames)
              /\ frames' = [k \in 1..len |-> frames[lo + k]]
        BY <4>1, <4>2, <4>3, CutWindow, SMTT(60)
      <4>5. lo \in Nat /\ len \in Nat /\ lo + len <= Len(frames)
        BY <1>0, <4>4
      <4>6. Ordered(frames)
        BY <1>1
      <4>. QED
        BY <1>0, <4>4, <4>5, <4>6, OrderedWindow
    <3>. QED
      BY <3>1, <3>2
  <2>. QED
    BY <1>0, <2>1, <2>2, <2>3 DEF OInv, SampledBefore, ProcSrc
<1>4. CASE Reduce
  <2>1. frames' = frames /\ processed' = processed
    BY <1>4 DEF Reduce
  <2>2. pc' = "sample" => reduced' = <<>>
    BY <1>4 DEF Reduce, Return
  <2>3. Ordered(<<>>)
    BY DEF Ordered
  <2>. QED
    BY <1>0, <1>1, <2>1, <2>2, <2>3 DEF OInv, SampledBefore, ProcSrc
<1>5. CASE Sample
  <2> DEFINE n == Len(frames)
             m == cfg.maxFrames
  <2>1. /\ pc = "sample" /\ pc' = "sample" /\ ~SampleOver(ri, m) /\ ri' = ri + 1
        /\ UNCHANGED <<cfg, frames, processed>>
    BY <1>5 DEF Sample
  <2>2. PICK fi \in FrameIndex(ri, n, m) :
          reduced' = IF fi < n THEN Append(reduced, frames[fi + 1]) ELSE reduced
    BY <1>5 DEF Sample
  <2>3. m \in Nat \ {0} /\ m < n /\ ri < m
    BY <1>0, <2>1 DEF SampleOver
  <2>4. /\ fi \in 0..n - 1
        /\ ((ri - 1) * n) \div m < fi
        /\ fi <= (ri * n) \div m
        /\ ((ri - 1) * n) \div m <= (ri * n) \div m
    BY <1>0, <2>3, SampleIndex
  <2>5. reduced' = Append(reduced, frames[fi + 1]) /\ frames[fi + 1] \in FrameRec
    BY <1>0, <2>2, <2>4, ElementOfSeq
  <2>6. /\ Ordered(reduced)
        /\ \A k \in DOMAIN reduced : \E p \in 0..n - 1 :
             reduced[k] = frames[p + 1] /\ p <= ((ri - 1) * n) \div m
    BY <1>1, <2>1 DEF SampledBefore
  <2>7. \A k \in DOMAIN reduced : reduced[k].src < frames[fi + 1].src
    <3>1. TAKE k \in DOMAIN reduced
    <3>2. PICK p \in 0..n - 1 :
            reduced[k] = frames[p + 1] /\ p <= ((ri - 1) * n) \div m
      BY <2>6
    <3>3. p + 1 \in DOMAIN frames /\ fi + 1 \in DOMAIN frames /\ p + 1 < fi + 1
      <4>1. DOMAIN frames = 1..n /\ n \in Nat
        BY <1>0
      <4>2. p \in 0..n - 1 /\ p <= ((ri - 1) * n) \div m
        BY <3>2
      <4>3. ((ri - 1) * n) \div m \in Int
        BY <1>0, <2>3, DivBounds
      <4>. QED
        BY <2>4, <4>1, <4>2, <4>3
    <3>4. Ordered(frames)
      BY <1>1
    <3>. QED
      BY <3>2, <3>3, <3>4 DEF Ordered
  <2>8. Ordered(reduced')
    BY <1>0, <2>5, <2>6, <2>7, OrderedAppend
  <2>9. \A k \in DOMAIN reduced' : \E p \in 0..n - 1 :
          reduced'[k] = frames[p + 1] /\ p <= ((ri' - 1) * n) \div m
    <3>1. ((ri' - 1) * n) \div m = (ri * n) \div m
      BY <1>0, <2>1
    <3>2. /\ DOMAIN reduced' = 1..Len(reduced) + 1
          /\ \A k \in 1..Len(reduced) : reduced'[k] = reduced[k]
          /\ reduced'[Len(reduced) + 1] = frames[fi + 1]
      BY <1>0, <2>5, AppendProperties
    <3>3. DOMAIN reduced = 1..Len(reduced)
      BY <1>0
    <3>4. TAKE k \in DOMAIN reduced'
    <3>5. CASE k = Len(reduced) + 1
      BY <2>4, <3>1, <3>2, <3>5
    <3>6. CASE k \in 1..Len(reduced)
      <4>1. PICK p \in 0..n - 1 :
              reduced[k] = frames[p + 1] /\ p <= ((ri - 1) * n) \div m
        BY <2>6, <3>3, <3>6
      <4>2. reduced'[k] = frames[p + 1]
        BY <3>2, <3>6, <4>1
      <4>3. p <= ((ri' - 1) * n) \div m
        <5>1. p <= ((ri - 1) * n) \div m
          BY <4>1
        <5>2. ((ri - 1) * n) \div m <= (ri * n) \div m
          BY <2>4
        <5>3. p \in Int /\ ((ri - 1) * n) \div m \in Int /\ (ri * n) \div m \in Int
          BY <1>0, <2>3, DivBounds
        <5>. QED
          BY <3>1, <5>1, <5>2, <5>3
      <4>. QED
        BY <4>1, <4>2, <4>3
    <3>. QED
      BY <1>0, <3>2, <3>4, <3>5, <3>6
  <2>. QED
    BY <1>0, <1>1, <2>1, <2>8, <2>9 DEF OInv, SampledBefore, ProcSrc
<1>6. CASE SampleEnd
  <2>1. pc = "sample" /\ frames' = reduced /\ pc' = "loop" /\ i = 1
        /\ processed' = processed
    BY <1>0, <1>6 DEF SampleEnd
  <2>2. processed = <<>>
    BY <1>0, <2>1, EmptySeq
  <2>3. Ordered(reduced)
    BY <1>1, <2>1 DEF SampledBefore
  <2>. QED
    BY <1>0, <2>1, <2>2, <2>3 DEF OInv, SampledBefore, ProcSrc
<1>7. CASE ProcessFrame
  <2>1. pc = "loop" /\ i <= Len(frames) /\ frames' = frames /\ pc' # "sample"
    BY <1>7 DEF ProcessFrame, Return
  <2>2. CASE processed' = processed
    BY <1>0, <2>1, <2>2, OInvKept
  <2>3. CASE processed' # processed
    <3>1. PICK box \in Crops(frames[i].shape[1], frames[i].shape[2], TargetW, TargetH) :
            processed' = Append(processed,
                 [src |-> frames[i].src, from |-> frames[i].shape, crop |-> box,
                  shape |-> <<TargetH, TargetW>>])
      BY <1>7, <2>3 DEF ProcessFrame, Return
    <3>2. /\ DOMAIN processed' = 1..Len(processed) + 1
          /\ \A k \in 1..Len(processed) : processed'[k] = processed[k]
          /\ processed'[Len(processed) + 1].src = frames[i].src
      BY <1>0, <3>1, AppendProperties
    <3>3. ProcSrc'
      BY <1>0, <1>1, <2>1, <3>2 DEF ProcSrc
    <3>. QED
      BY <1>0, <1>1, <2>1, <3>3 DEF OInv, SampledBefore
  <2>. QED
    BY <2>2, <2>3
<1>8. CASE UNCHANGED vars
  BY <1>0, <1>8, OInvKept DEF vars, OInv, SampledBefore, ProcSrc, Ordered
<1>. QED
  BY <1>2, <1>3, <1>4, <1>5, <1>6, <1>7, <1>8 DEF Next

(* Spec 3 and 4.2, for all constants: the frames process_video has       *)
(* processed come from strictly later and later source frames, through   *)
(* the cut and the sampler alike.                                          *)
THEOREM FramesInOrderHolds == Spec => []FramesInOrder
<1>1. OInv => FramesInOrder
  <2> SUFFICES ASSUME OInv PROVE FramesInOrder
    OBVIOUS
  <2>1. /\ Len(processed) = i - 1 /\ i \in 1..Len(frames) + 1
        /\ processed \in Seq(ProcRec) /\ frames \in Seq(FrameRec)
    BY TInvFacts DEF OInv
  <2>. QED
    BY <2>1 DEF OInv, Ordered, ProcSrc, FramesInOrder
<1>. QED
  BY <1>1, InitOInv, NextOInv, PTL DEF Spec

-----------------------------------------------------------------------------
(***************************************************************************)
(* BudgetExact.  _reduce_frames appends a frame on every iteration of     *)
(* its loop (SampleIndex puts int(i * step) below len(frames)), so when   *)
(* `range(max_frames)` is over it has gathered max_frames frames.         *)
(***************************************************************************)

(* While _reduce_frames runs, its list holds one frame per iteration, and *)
(* the counter has not passed a non-negative budget.                      *)
SampleCount ==
  pc = "sample" =>
    /\ Len(reduced) = ri
    /\ cfg.maxFrames >= 0 => ri <= cfg.maxFrames

LEMMA InitSampleCount == Init => SampleCount
BY DEF Init, SampleCount

LEMMA NextSampleCount ==
  TInv /\ SampleCount /\ [Next]_vars => SampleCount'
<1> SUFFICES ASSUME TInv, SampleCount, [Next]_vars PROVE SampleCount'
  OBVIOUS
<1>0. /\ frames \in Seq(FrameRec) /\ Len(frames) \in Nat
      /\ ri \in Nat /\ reduced \in Seq(FrameRec)
      /\ pc = "sample" => cfg.maxFrames \in Int /\ cfg.maxFrames < Len(frames)
  BY TInvFacts
<1>1. CASE Reduce
  <2>1. pc' = "sample" => ri' = 0 /\ reduced' = <<>> /\ cfg' = cfg
    BY <1>1 DEF Reduce, Return
  <2>2. CASE pc' = "sample"
    <3>1. cfg'.maxFrames \in Int
      <4>1. cfg.maxFrames # None /\ Len(frames) > cfg.maxFrames
        BY <1>1, <2>2 DEF Reduce, Return
      <4>2. cfg.maxFrames \in Int
        BY <4>1, BudgetAssumption, TInvFacts DEF Cfgs
      <4>. QED
        BY <2>1, <2>2, <4>2
    <3>. QED
      BY <2>1, <2>2, <3>1 DEF SampleCount
  <2>. QED
    BY <2>2 DEF SampleCount
<1>2. CASE Sample
  <2> DEFINE n == Len(frames)
             m == cfg.maxFrames
  <2>1. /\ pc = "sample" /\ pc' = "sample" /\ ~SampleOver(ri, m) /\ ri' = ri + 1
        /\ UNCHANGED <<cfg, frames>>
    BY <1>2 DEF Sample
  <2>2. PICK fi \in FrameIndex(ri, n, m) :
          reduced' = IF fi < n THEN Append(reduced, frames[fi + 1]) ELSE reduced
    BY <1>2 DEF Sample
  <2>3. m \in Nat \ {0} /\ m < n /\ ri < m
    BY <1>0, <2>1 DEF SampleOver
  <2>4. fi \in 0..n - 1
    BY <1>0, <2>3, SampleIndex
  <2>5. reduced' = Append(reduced, frames[fi + 1])
    BY <2>2, <2>4
  <2>6. Len(reduced') = Len(reduced) + 1
    BY <1>0, <2>5, AppendProperties
  <2>. QED
    BY <1>0, <2>1, <2>3, <2>6 DEF SampleCount
<1>3. CASE ~Reduce /\ ~Sample
  <2>1. pc' = "sample" => UNCHANGED <<pc, cfg, ri, reduced>>
    BY <1>3 DEF Next, vars, Start, SkipCut, Cut, SampleEnd, ProcessFrame,
                LoopEnd, SavePng, SaveGif, Return
  <2>. QED
    BY <2>1 DEF SampleCount
<1>. QED
  BY <1>1, <1>2, <1>3

(* Every step out of _reduce_frames respects the budget: BudgetStep, for *)
(* any state satisfying TInv and SampleCount.                             *)
LEMMA BudgetStepHolds ==
  TInv /\ SampleCount /\ [Next]_vars => [BudgetStep]_vars
<1> SUFFICES ASSUME TInv, SampleCount, [Next]_vars,
                    pc \in {"reduce", "sample"}, pc' = "loop",
                    cfg.maxFrames = None \/ cfg.maxFrames >= 0
             PROVE  IF cfg.maxFrames = None \/ Len(frames) <= cfg.maxFrames
                    THEN frames' = frames
                    ELSE Len(frames') = cfg.maxFrames
  BY DEF BudgetStep
<1>0. /\ Len(frames) \in Nat /\ ri \in Nat
      /\ pc = "sample" => cfg.maxFrames \in Int /\ cfg.maxFrames < Len(frames)
  BY TInvFacts
<1>1. CASE pc = "reduce"
  <2>1. Reduce
    BY <1>1 DEF Next, vars, Start, SkipCut, Cut, Sample, SampleEnd,
                ProcessFrame, LoopEnd, SavePng, SaveGif
  <2>2. ~(cfg.maxFrames # None /\ Len(frames) > cfg.maxFrames) /\ frames' = frames
    BY <2>1 DEF Reduce, Return
  <2>3. cfg.maxFrames # None => cfg.maxFrames \in Int
    BY BudgetAssumption, TInvFacts DEF Cfgs
  <2>. QED
    BY <1>0, <2>2, <2>3
<1>2. CASE pc = "sample"
  <2>1. SampleEnd
    BY <1>2 DEF Next, vars, Start, SkipCut, Cut, Reduce, Sample,
                ProcessFrame, LoopEnd, SavePng, SaveGif
  <2>2. frames' = reduced /\ SampleOver(ri, cfg.maxFrames)
    BY <2>1 DEF SampleEnd
  <2>3. Len(reduced) = ri /\ ri <= cfg.maxFrames /\ cfg.maxFrames \in Int
        /\ cfg.maxFrames < Len(frames)
    <3>1. cfg.maxFrames \in Int /\ cfg.maxFrames < Len(frames) /\ cfg.maxFrames >= 0
      BY <1>0, <1>2, NoneAssumption
    <3>. QED
      BY <1>2, <3>1 DEF SampleCount
  <2>. QED
    BY <1>0, <2>2, <2>3, NoneAssumption DEF SampleOver
<1>. QED
  BY <1>1, <1>2

(* Spec 4.2 and 8, for every budget and video length: a sequence within  *)
(* a non-negative budget leaves _reduce_frames unchanged, and a longer    *)
(* one leaves it with exactly max_frames frames.                          *)
THEOREM BudgetExactHolds == Spec => BudgetExact
<1>1. Spec => [](TInv /\ SampleCount)
  BY InitTInv, NextTInv, InitSampleCount, NextSampleCount, PTL DEF Spec
<1>. QED
  BY <1>1, BudgetStepHolds, PTL DEF Spec, BudgetExact
-----------------------------------------------------------------------------
(***************************************************************************)
(* AllOrNothing and ZeroDivisionExplained.  Nothing is written before the *)
(* save, which is reached only once the loop cursor has passed the last  *)
(* frame (SaveReady), so that processed_frames then holds one record per  *)
(* frame; and once process_video has returned, no step changes anything.  *)
(***************************************************************************)
SaveReady == pc = "save" => i = Len(frames) + 1

LEMMA InitOutcome == Init => SaveReady /\ AllOrNothing /\ ZeroDivisionExplained
BY DEF Init, SaveReady, AllOrNothing, ZeroDivisionExplained

(* Every action of process_video starts from a pc other than "done".      *)
LEMMA DoneFrozen ==
  ASSUME [Next]_vars, pc = "done"
  PROVE  UNCHANGED vars
BY DEF Next, Start, SkipCut, Cut, Reduce, Sample, SampleEnd, ProcessFrame,
       LoopEnd, SavePng, SaveGif

(* The steps before the save write nothing and return no True.            *)
LEMMA BeforeSave ==
  ASSUME Start \/ SkipCut \/ Cut \/ Reduce \/ Sample \/ SampleEnd \/ ProcessFrame,
         outcome = "running"
  PROVE  /\ saved' = saved /\ cfg' = cfg /\ pc' # "save"
         /\ outcome' \in {"running", "fail", "ZeroDivisionError", "cv2.error", "OverflowError", "ValueError"}
<1>1. CASE Start
  BY <1>1 DEF Start, Return
<1>2. CASE SkipCut
  BY <1>2 DEF SkipCut
<1>3. CASE Cut
  <2>1. CASE CutRaises(cfg.end, cfg.fps)
    BY <1>3, <2>1 DEF Cut, Return
  <2>2. CASE ~CutRaises(cfg.end, cfg.fps)
    <3>1. PICK s \in CutDuration(frames, cfg.start, cfg.end, cfg.fps) :
            IF s = <<>> THEN Return("fail") ELSE pc' = "reduce" /\ UNCHANGED outcome
      BY <1>3, <2>2 DEF Cut
    <3>2. pc' # "save" /\ outcome' \in {"running", "fail"}
      BY <3>1 DEF Return
    <3>. QED
      BY <1>3, <3>2 DEF Cut
  <2>. QED
    BY <2>1, <2>2
<1>4. CASE Reduce
  BY <1>4 DEF Reduce, Return
<1>5. CASE Sample \/ SampleEnd
  BY <1>5 DEF Sample, SampleEnd
<1>6. CASE ProcessFrame
  BY <1>6 DEF ProcessFrame, Return
<1>. QED
  BY <1>1, <1>2, <1>3, <1>4, <1>5, <1>6

(* Only the cut stage and the sampler raise ZeroDivisionError, each for   *)
(* the division it performs.                                              *)
LEMMA ZeroDivisionStep ==
  ASSUME Start \/ SkipCut \/ Cut \/ Reduce \/ Sample \/ SampleEnd \/ ProcessFrame,
         outcome = "running", outcome' = "ZeroDivisionError"
  PROVE  \/ cfg.fps = 0 /\ (cfg.end = None \/ cfg.end.num = 0)
         \/ cfg.maxFrames = 0
         \/ TargetH = 0
<1>1. CASE Cut
  <2>1. CASE CutRaises(cfg.end, cfg.fps)
    BY <2>1 DEF CutRaises
  <2>2. CASE ~CutRaises(cfg.end, cfg.fps)
    <3>1. PICK s \in CutDuration(frames, cfg.start, cfg.end, cfg.fps) :
            IF s = <<>> THEN Return("fail") ELSE pc' = "reduce" /\ UNCHANGED outcome
      BY <1>1, <2>2 DEF Cut
    <3>. QED
      BY <3>1 DEF Return
  <2>. QED
    BY <2>1, <2>2
<1>2. CASE Reduce
  <2>1. CASE cfg.maxFrames # None /\ Len(frames) > cfg.maxFrames
             /\ ReduceRaises(Len(frames), cfg.maxFrames)
    BY <2>1 DEF ReduceRaises
  <2>2. CASE ~(cfg.maxFrames # None /\ Len(frames) > cfg.maxFrames
               /\ ReduceRaises(Len(frames), cfg.maxFrames))
    BY <1>2, <2>2 DEF Reduce, Return
  <2>. QED
    BY <2>1, <2>2
<1>3. CASE Start \/ SkipCut \/ Sample \/ SampleEnd
  BY <1>3 DEF Start, SkipCut, Sample, SampleEnd, Return
<1>4. CASE ProcessFrame
  <2>1. CASE TargetH = 0
    BY <2>1
  <2>2. CASE TargetH # 0
    BY <1>4, <2>2 DEF ProcessFrame, Return
  <2>. QED
    BY <2>1, <2>2
<1>. QED
  BY <1>1, <1>2, <1>3, <1>4

LEMMA NextOutcome ==
  TInv /\ SaveReady /\ AllOrNothing /\ ZeroDivisionExplained /\ [Next]_vars
    => (SaveReady /\ AllOrNothing /\ ZeroDivisionExplained)'
<1> SUFFICES ASSUME TInv, SaveReady, AllOrNothing, ZeroDivisionExplained,
                    [Next]_vars
             PROVE  (SaveReady /\ AllOrNothing /\ ZeroDivisionExplained)'
  OBVIOUS
<1>0. /\ frames \in Seq(FrameRec) /\ Len(frames) \in Nat
      /\ i \in 1..Len(frames) + 1
      /\ processed \in Seq(ProcRec) /\ Len(processed) = i - 1
      /\ (outcome = "running") <=> (pc # "done")
  BY TInvFacts
<1>1. CASE pc = "done"
  BY <1>1, DoneFrozen DEF vars, SaveReady, AllOrNothing, ZeroDivisionExplained
<1>2. CASE pc # "done"
  <2>1. outcome = "running" /\ saved = <<>>
    BY <1>0, <1>2 DEF AllOrNothing
  <2>2. CASE Start \/ SkipCut \/ Cut \/ Reduce \/ Sample \/ SampleEnd \/ ProcessFrame
    <3>1. /\ saved' = saved /\ cfg' = cfg /\ pc' # "save"
          /\ outcome' \in {"running", "fail", "ZeroDivisionError", "cv2.error", "OverflowError", "ValueError"}
      BY <2>1, <2>2, BeforeSave
    <3>2. ZeroDivisionExplained'
      BY <2>1, <2>2, <3>1, ZeroDivisionStep DEF ZeroDivisionExplained
    <3>. QED
      BY <2>1, <3>1, <3>2 DEF SaveReady, AllOrNothing
  <2>3. CASE LoopEnd
    <3>1. i > Len(frames) /\ pc' = "save"
          /\ UNCHANGED <<cfg, frames, i, processed, saved, outcome>>
      BY <2>3 DEF LoopEnd
    <3>. QED
      BY <1>0, <2>1, <3>1 DEF SaveReady, AllOrNothing, ZeroDivisionExplained
  <2>5. CASE SavePng \/ SaveGif
    <3>1. /\ pc = "save" /\ UNCHANGED <<cfg, frames, processed>>
          /\ outcome' \in {"ok", "fail"}
      BY <2>5 DEF SavePng, SaveGif, Return
    <3>2. pc' = "done"
      BY <2>5 DEF SavePng, SaveGif, Return
    <3>3. Len(processed) = Len(frames)
      BY <1>0, <3>1 DEF SaveReady
    <3>4. CASE processed = <<>>
      <4>1. saved' = saved /\ outcome' = "fail"
        BY <2>5, <3>4 DEF SavePng, SaveGif, Return
      <4>. QED
        BY <2>1, <3>2, <4>1 DEF SaveReady, AllOrNothing, ZeroDivisionExplained
    <3>5. CASE processed # <<>>
      <4>1. Len(processed) \in Nat \ {0}
        BY <1>0, <3>5, EmptySeq, LenProperties
      <4>2. CASE SavePng
        <5>1. saved' = <<processed[1]>> /\ outcome' = "ok"
          BY <4>2, <3>5 DEF SavePng, Return
        <5>2. \A k \in DOMAIN saved' : saved'[k] = processed[k]
          BY <5>1
        <5>3. saved' # <<>>
          BY <5>1
        <5>. QED
          BY <3>1, <3>2, <3>3, <5>1, <5>2, <5>3 DEF SaveReady, AllOrNothing, ZeroDivisionExplained
      <4>3. CASE SaveGif
        <5>1. \/ saved' = processed /\ outcome' = "ok"
              \/ saved' = saved /\ outcome' = "fail"
          BY <4>3 DEF SaveGif, Return
        <5>. QED
          BY <2>1, <3>1, <3>2, <3>3, <4>1, <5>1, EmptySeq
             DEF SaveReady, AllOrNothing, ZeroDivisionExplained
      <4>. QED
        BY <2>5, <4>2, <4>3
    <3>. QED
      BY <3>4, <3>5
  <2>6. CASE UNCHANGED vars
    BY <2>6 DEF vars, SaveReady, AllOrNothing, ZeroDivisionExplained
  <2>. QED
    BY <2>2, <2>3, <2>5, <2>6 DEF Next
<1>. QED
  BY <1>1, <1>2

(* Spec 7, for every video and every option: process_video writes output *)
(* only when it returns True, and then one record per frame that went     *)
(* through the loop, in order; a failure in any frame writes nothing.     *)
THEOREM AllOrNothingHolds == Spec => []AllOrNothing
<1>1. Spec => [](TInv /\ SaveReady /\ AllOrNothing /\ ZeroDivisionExplained)
  BY InitTInv, NextTInv, InitOutcome, NextOutcome, PTL DEF Spec
<1>. QED
  BY <1>1, PTL

(* For every video and every option: a ZeroDivisionError escapes          *)
(* process_video only from the progress line of _cut_duration with fps 0  *)
(* and no end time, or from _reduce_frames with a budget of 0.            *)
THEOREM ZeroDivisionExplainedHolds == Spec => []ZeroDivisionExplained
<1>1. Spec => [](TInv /\ SaveReady /\ AllOrNothing /\ ZeroDivisionExplained)
  BY InitTInv, NextTInv, InitOutcome, NextOutcome, PTL DEF Spec
<1>. QED
  BY <1>1, PTL
=============================================================================
