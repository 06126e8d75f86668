------------------------- MODULE PipelineRefinement -------------------------
(***************************************************************************)
(* process_video implements ProcessVideoSpec, for every target size,     *)
(* shape set, option set and number of loaded frames.  Seen from the      *)
(* caller, every step of process_video but the one that returns leaves    *)
(* the result and the output alone, and the returning step is the         *)
(* abstract Finish.  That a True comes with a valid output rests on the   *)
(* invariants of PipelineProofs (the types, the order of the frames, the *)
(* crops, SaveReady and AllOrNothing) and on two more:                    *)
(*  - Provenance: every frame record the stages pass on is a loaded      *)
(*    frame, with its index and its shape;                                *)
(*  - the budget: once the sampler is done, a non-empty `frames` is no    *)
(*    longer than max_frames, a negative budget included, for which       *)
(*    `range(max_frames)` gathers nothing.                                *)
(***************************************************************************)
EXTENDS PipelineProofs

(* Every record of the frame list s is loaded frame src, with its shape.  *)
Provenance(s) ==
  \A k \in DOMAIN s :
    /\ s[k].src \in 0..Len(loaded) - 1
    /\ s[k].shape = loaded[s[k].src + 1]

(* Every processed frame was resized from loaded frame src.               *)
ProcProvenance ==
  \A k \in DOMAIN processed :
    /\ processed[k].src \in 0..Len(loaded) - 1
    /\ processed[k].from = loaded[processed[k].src + 1]

Prov ==
  /\ Provenance(frames)
  /\ pc = "sample" => Provenance(reduced)
  /\ ProcProvenance

(* _reduce_frames' counter: 0 while a negative budget's empty range runs, *)
(* else within the budget.                                                *)
SampleBound == pc = "sample" => ri = 0 \/ ri <= cfg.maxFrames

(* From the frame loop on, a non-empty list is within a given budget.     *)
WithinBudget ==
  (pc \in {"loop", "save"} /\ cfg.maxFrames # None /\ frames # <<>>)
    => Len(frames) <= cfg.maxFrames

(* No step of process_video changes what load_video returned.             *)
LEMMA LoadedFixed ==
  ASSUME [Next]_vars
  PROVE  loaded' = loaded
BY DEF Next, vars, Start, SkipCut, Cut, Reduce, Sample, SampleEnd,
       ProcessFrame, LoopEnd, SavePng, SaveGif

LEMMA InitProv == Init => Prov
<1> SUFFICES ASSUME Init PROVE Prov
  OBVIOUS
<1>1. loaded \in Seq(Shapes) /\ frames = Source /\ pc = "start" /\ processed = <<>>
  BY DEF Init
<1>2. DOMAIN loaded = 1..Len(loaded) /\ Len(loaded) \in Nat
  BY <1>1, LenProperties
<1>. QED
  BY <1>1, <1>2 DEF Prov, Provenance, ProcProvenance, Source

(* The cut keeps a run of consecutive loaded frames, the sampler picks    *)
(* frames[int(i * step)] inside the list, and the frame loop records the  *)
(* frame it resized: each stage passes on loaded frames only.             *)
LEMMA NextProv ==
  TInv /\ Prov /\ [Next]_vars => Prov'
<1> SUFFICES ASSUME TInv, Prov, [Next]_vars PROVE Prov'
  OBVIOUS
<1>0. /\ frames \in Seq(FrameRec) /\ Len(frames) \in Nat
      /\ i \in 1..Len(frames) + 1 /\ ri \in Nat
      /\ processed \in Seq(ProcRec) /\ reduced \in Seq(FrameRec)
      /\ pc = "sample" => cfg.maxFrames \in Int /\ cfg.maxFrames < Len(frames)
      /\ pc \in {"start", "cut"} => frames = Source
      /\ pc = "cut" => loaded # <<>>
      /\ loaded \in Seq(Shapes) /\ cfg \in Cfgs
  BY TInvFacts
<1>1. loaded' = loaded
  BY LoadedFixed
<1>2. CASE Cut
  <2>1. /\ pc = "cut" /\ UNCHANGED <<processed, reduced>> /\ pc' # "sample"
        /\ frames' = frames \/ frames' \in CutDuration(frames, cfg.start, cfg.end, cfg.fps)
    BY <1>2 DEF Cut, Return
  <2>2. frames # <<>>
    BY <1>0, <2>1, SourceSeq
  <2>3. CASE frames' \in CutDuration(frames, cfg.start, cfg.end, cfg.fps)
    <3>1. cfg.start \in TimeSet /\ cfg.end \in TimeSet /\ cfg.fps \in FpsSet
      BY <1>0 DEF Cfgs
    <3>2. PICK lo \in 0..Len(frames) - 1, len \in 1..Len(frames) :
            /\ lo + len <= Len(frames)
            /\ frames' = [k \in 1..len |-> frames[lo + k]]
      <4>1. frames \in Seq(FrameRec) /\ frames # <<>>
        BY <1>0, <2>2
      <4>. QED
        BY <2>3, <3>1, <4>1, CutWindow, SMTT(60)
    <3>3. Provenance(frames')
      BY <1>1, <3>2 DEF Prov, Provenance
    <3>. QED
      BY <1>1, <2>1, <3>3 DEF Prov, Provenance, ProcProvenance
  <2>. QED
    BY <1>1, <2>1, <2>3 DEF Prov, Provenance, ProcProvenance
<1>3. CASE Reduce
  <2>1. /\ UNCHANGED <<frames, processed>>
        /\ pc' = "sample" => reduced' = <<>>
    BY <1>3 DEF Reduce, Return
  <2>. QED
    BY <1>1, <2>1 DEF Prov, Provenance, ProcProvenance
<1>4. CASE Sample
  <2> DEFINE n == Len(frames)
             m == cfg.maxFrames
  <2>1. /\ pc = "sample" /\ pc' = "sample" /\ ~SampleOver(ri, m)
        /\ UNCHANGED <<frames, processed>>
    BY <1>4 DEF Sample
  <2>2. PICK fi \in FrameIndex(ri, n, m) :
          reduced' = IF fi < n THEN Append(reduced, frames[fi + 1]) ELSE reduced
    BY <1>4 DEF Sample
  <2>3. m \in Nat \ {0} /\ m < n /\ ri < m
    BY <1>0, <2>1 DEF SampleOver
  <2>4. fi \in 0..n - 1
    BY <1>0, <2>3, SampleIndex
  <2>5. reduced' = Append(reduced, frames[fi + 1])
    BY <2>2, <2>4
  <2>6. /\ DOMAIN reduced' = 1..Len(reduced) + 1
        /\ \A k \in 1..Len(reduced) : reduced'[k] = reduced[k]
        /\ reduced'[Len(reduced) + 1] = frames[fi + 1]
    BY <1>0, <2>5, AppendProperties
  <2>7. Provenance(reduced')
    BY <1>1, <2>1, <2>4, <2>6 DEF Prov, Provenance
  <2>. QED
    BY <1>1, <2>1, <2>7 DEF Prov, Provenance, ProcProvenance
<1>5. CASE SampleEnd
  <2>1. /\ pc = "sample" /\ frames' = reduced /\ pc' = "loop"
        /\ UNCHANGED processed
    BY <1>5 DEF SampleEnd
  <2>. QED
    BY <1>1, <2>1 DEF Prov, Provenance, ProcProvenance
<1>6. CASE ProcessFrame
  <2>1. /\ pc = "loop" /\ pc' # "sample" /\ i <= Len(frames)
        /\ UNCHANGED frames
        /\ \/ processed' = processed
           \/ \E box \in Crops(frames[i].shape[1], frames[i].shape[2], TargetW, TargetH) :
                processed' = Append(processed,
                  [src |-> frames[i].src, from |-> frames[i].shape, crop |-> box,
                   shape |-> <<TargetH, TargetW>>])
    BY <1>6 DEF ProcessFrame, Return
  <2>2. i \in DOMAIN frames
    BY <1>0, <2>1
  <2>3. frames[i].src \in 0..Len(loaded) - 1 /\ frames[i].shape = loaded[frames[i].src + 1]
    BY <2>2 DEF Prov, Provenance
  <2>4. ProcProvenance'
    <3>1. CASE processed' = processed
      BY <1>1, <3>1 DEF Prov, ProcProvenance
    <3>2. CASE processed' # processed
      <4>1. PICK box \in Crops(frames[i].shape[1], frames[i].shape[2], TargetW, TargetH) :
              processed' = Append(processed,
                [src |-> frames[i].src, from |-> frames[i].shape, crop |-> box,
                 shape |-> <<TargetH, TargetW>>])
        BY <2>1, <3>2
      <4>2. /\ DOMAIN processed' = 1..Len(processed) + 1
            /\ \A k \in 1..Len(processed) : processed'[k] = processed[k]
            /\ processed'[Len(processed) + 1].src = frames[i].src
            /\ processed'[Len(processed) + 1].from = frames[i].shape
        BY <1>0, <4>1, AppendProperties
      <4>3. ASSUME NEW k \in DOMAIN processed'
            PROVE  /\ processed'[k].src \in 0..Len(loaded) - 1
                   /\ processed'[k].from = loaded[processed'[k].src + 1]
        <5>1. CASE k \in 1..Len(processed)
          <6>1. k \in DOMAIN processed
            BY <1>0, <5>1
          <6>. QED
            BY <4>2, <4>3, <5>1, <6>1 DEF Prov, ProcProvenance
        <5>2. CASE k = Len(processed) + 1
          BY <2>3, <4>2, <5>2
        <5>. QED
          BY <4>2, <4>3, <5>1, <5>2
      <4>. QED
        BY <1>1, <4>3 DEF ProcProvenance
    <3>. QED
      BY <3>1, <3>2
  <2>. QED
    BY <1>1, <2>1, <2>4 DEF Prov, Provenance
<1>7. CASE Start \/ SkipCut \/ LoopEnd \/ SavePng \/ SaveGif \/ UNCHANGED vars
  <2>1. /\ UNCHANGED <<frames, processed, reduced>>
        /\ pc' = "sample" => pc = "sample"
    BY <1>7 DEF Start, SkipCut, LoopEnd, SavePng, SaveGif, Return, vars
  <2>. QED
    BY <1>1, <2>1 DEF Prov, Provenance, ProcProvenance
<1>. QED
  BY <1>2, <1>3, <1>4, <1>5, <1>6, <1>7 DEF Next

LEMMA InitBudget == Init => SampleBound /\ WithinBudget
BY DEF Init, SampleBound, WithinBudget

(* The budget holds from the frame loop on: the sampler is skipped only   *)
(* within the budget; it gathers one frame per iteration of               *)
(* `range(max_frames)`, and none for a negative budget.                   *)
LEMMA NextBudget ==
  TInv /\ SampleCount /\ SampleBound /\ WithinBudget /\ [Next]_vars
    => (SampleBound /\ WithinBudget)'
<1> SUFFICES ASSUME TInv, SampleCount, SampleBound, WithinBudget, [Next]_vars
             PROVE  (SampleBound /\ WithinBudget)'
  OBVIOUS
<1>0. /\ frames \in Seq(FrameRec) /\ Len(frames) \in Nat
      /\ ri \in Nat /\ reduced \in Seq(FrameRec) /\ cfg \in Cfgs
      /\ pc = "sample" => cfg.maxFrames \in Int /\ cfg.maxFrames < Len(frames)
  BY TInvFacts
<1>1. CASE Reduce
  <2>1. /\ UNCHANGED <<cfg, frames>> /\ pc' \in {"sample", "loop", "done"}
        /\ pc' = "sample" => ri' = 0
        /\ pc' = "loop" => ~(cfg.maxFrames # None /\ Len(frames) > cfg.maxFrames)
    BY <1>1 DEF Reduce, Return
  <2>2. cfg.maxFrames # None => cfg.maxFrames \in Int
    BY <1>0, BudgetAssumption DEF Cfgs
  <2>. QED
    BY <1>0, <2>1, <2>2 DEF SampleBound, WithinBudget
<1>2. CASE Sample
  <2>1. /\ pc = "sample" /\ pc' = "sample" /\ ~SampleOver(ri, cfg.maxFrames)
        /\ ri' = ri + 1 /\ UNCHANGED cfg
    BY <1>2 DEF Sample
  <2>. QED
    BY <1>0, <2>1 DEF SampleOver, SampleBound, WithinBudget
<1>3. CASE SampleEnd
  <2>1. /\ pc = "sample" /\ pc' = "loop" /\ frames' = reduced /\ UNCHANGED cfg
    BY <1>3 DEF SampleEnd
  <2>2. Len(reduced) = ri /\ (ri = 0 \/ ri <= cfg.maxFrames)
    BY <2>1 DEF SampleCount, SampleBound
  <2>3. ri = 0 => reduced = <<>>
    BY <1>0, <2>2, EmptySeq
  <2>. QED
    BY <1>0, <2>1, <2>2, <2>3 DEF SampleBound, WithinBudget
<1>4. CASE Start \/ SkipCut \/ Cut \/ ProcessFrame \/ LoopEnd \/ SavePng \/ SaveGif
           \/ UNCHANGED vars
  <2>1. /\ pc' = "save" => pc \in {"loop", "save"} /\ UNCHANGED <<cfg, frames>>
        /\ pc' = "loop" => pc = "loop" /\ UNCHANGED <<cfg, frames>>
        /\ pc' = "sample" => pc = "sample" /\ UNCHANGED <<cfg, ri>>
    BY <1>4 DEF Start, SkipCut, Cut, ProcessFrame, LoopEnd, SavePng, SaveGif,
                Return, vars
  <2>. QED
    BY <2>1 DEF SampleBound, WithinBudget
<1>. QED
  BY <1>1, <1>2, <1>3, <1>4 DEF Next

(* At the save, processed_frames is what ProcessVideoSpec allows to be    *)
(* written: loaded frames resized to the target, each cropped inside      *)
(* itself, in source order, one per frame of `frames` and so within the   *)
(* budget.                                                                *)
LEMMA SavedValid ==
  ASSUME TInv, OInv, SaveReady, CropFits, Prov, WithinBudget,
         pc = "save", processed # <<>>
  PROVE  /\ ProcessVideo!FromSource(processed)
         /\ ProcessVideo!InOrder(processed)
         /\ Len(processed) \in Nat \ {0}
         /\ cfg.maxFrames # None => Len(processed) <= cfg.maxFrames
<1>0. /\ frames \in Seq(FrameRec) /\ Len(frames) \in Nat
      /\ i \in 1..Len(frames) + 1
      /\ processed \in Seq(ProcRec) /\ Len(processed) = i - 1
  BY TInvFacts
<1>1. Len(processed) \in Nat \ {0}
  BY <1>0, EmptySeq, LenProperties
<1>2. Len(processed) = Len(frames)
  BY <1>0 DEF SaveReady
<1>3. frames # <<>>
  BY <1>1, <1>2, EmptySeq
<1>4. cfg.maxFrames # None => Len(processed) <= cfg.maxFrames
  BY <1>2, <1>3 DEF WithinBudget
<1>5. ProcessVideo!InOrder(processed)
  BY <1>0 DEF OInv, Ordered, ProcSrc, ProcessVideo!InOrder
<1>6. ASSUME NEW k \in DOMAIN processed
      PROVE  /\ processed[k].src \in 0..Len(loaded) - 1
             /\ processed[k].from = loaded[processed[k].src + 1]
             /\ processed[k].shape = <<TargetH, TargetW>>
             /\ processed[k].crop.y0 + processed[k].crop.h <= processed[k].from[1]
             /\ processed[k].crop.x0 + processed[k].crop.w <= processed[k].from[2]
  <2>1. processed[k] \in ProcRec
    BY <1>0, <1>6, ElementOfSeq
  <2>2. CropFit(processed[k].crop, processed[k].from[1], processed[k].from[2])
    BY <1>6 DEF CropFits
  <2>. QED
    BY <1>6, <2>1, <2>2 DEF ProcRec, CropFit, Prov, ProcProvenance
<1>7. ProcessVideo!FromSource(processed)
  BY <1>6 DEF ProcessVideo!FromSource
<1>. QED
  BY <1>1, <1>4, <1>5, <1>7

(* Every step of process_video is a stutter of ProcessVideoSpec or its    *)
(* Finish: the stages before the save return only failures, with nothing *)
(* written, and the save returns True with a valid output or False with  *)
(* nothing written.                                                        *)
LEMMA StepRefines ==
  ASSUME TInv, OInv, SaveReady, AllOrNothing, CropFits, Prov, WithinBudget,
         [Next]_vars
  PROVE  [ProcessVideo!Next]_ProcessVideo!vars
<1>0. /\ (outcome = "running") <=> (pc # "done")
      /\ processed \in Seq(ProcRec)
  BY TInvFacts
<1>1. loaded' = loaded
  BY LoadedFixed
<1>2. CASE pc = "done"
  BY <1>2, DoneFrozen DEF vars, ProcessVideo!vars
<1>3. CASE pc # "done"
  <2>1. outcome = "running" /\ saved = <<>>
    BY <1>0, <1>3 DEF AllOrNothing
  <2>2. CASE Start \/ SkipCut \/ Cut \/ Reduce \/ Sample \/ SampleEnd \/ ProcessFrame
    <3>1. /\ saved' = saved /\ cfg' = cfg
          /\ outcome' \in {"running", "fail", "ZeroDivisionError", "cv2.error", "OverflowError", "ValueError"}
      BY <2>1, <2>2, BeforeSave
    <3>2. CASE outcome' = "running"
      BY <1>1, <2>1, <3>1, <3>2 DEF ProcessVideo!vars
    <3>3. CASE outcome' # "running"
      BY <1>1, <2>1, <3>1, <3>3 DEF ProcessVideo!Next, ProcessVideo!Finish
    <3>. QED
      BY <3>2, <3>3
  <2>3. CASE LoopEnd
    BY <2>3 DEF LoopEnd, ProcessVideo!vars
  <2>4. CASE SavePng
    <3>1. pc = "save" /\ cfg.png /\ cfg' = cfg
      BY <2>4 DEF SavePng
    <3>2. CASE processed = <<>>
      <4>1. outcome' = "fail" /\ saved' = saved
        BY <2>4, <3>2 DEF SavePng, Return
      <4>. QED
        BY <1>1, <2>1, <3>1, <4>1 DEF ProcessVideo!Next, ProcessVideo!Finish
    <3>3. CASE processed # <<>>
      <4>1. outcome' = "ok" /\ saved' = <<processed[1]>>
        BY <2>4, <3>3 DEF SavePng, Return
      <4>2. /\ ProcessVideo!FromSource(processed)
            /\ Len(processed) \in Nat \ {0}
            /\ cfg.maxFrames # None => Len(processed) <= cfg.maxFrames
        BY <3>1, <3>3, SavedValid
      <4>3. 1 \in DOMAIN processed
        BY <1>0, <4>2
      <4>4. ProcessVideo!FromSource(<<processed[1]>>)
        BY <4>2, <4>3 DEF ProcessVideo!FromSource
      <4>5. ProcessVideo!InOrder(<<processed[1]>>)
        BY DEF ProcessVideo!InOrder
      <4>6. ProcessVideo!Fits(<<processed[1]>>)
        <5>1. Len(<<processed[1]>>) = 1
          OBVIOUS
        <5>2. cfg.maxFrames # None => 1 <= cfg.maxFrames
          <6>1. cfg.maxFrames # None => cfg.maxFrames \in Int
            BY BudgetAssumption, TInvFacts DEF Cfgs
          <6>. QED
            BY <4>2, <6>1
        <5>. QED
          BY <3>1, <5>1, <5>2, Zenon DEF ProcessVideo!Fits
      <4>7. ProcessVideo!Valid(<<processed[1]>>)
        BY <4>4, <4>5, <4>6 DEF ProcessVideo!Valid
      <4>. QED
        BY <1>1, <2>1, <3>1, <4>1, <4>7 DEF ProcessVideo!Next, ProcessVideo!Finish
    <3>. QED
      BY <3>2, <3>3
  <2>5. CASE SaveGif
    <3>1. pc = "save" /\ ~cfg.png /\ cfg' = cfg
      BY <2>5 DEF SaveGif
    <3>2. CASE processed = <<>> \/ cfg.fps = 0
      <4>1. outcome' = "fail" /\ saved' = saved
        BY <2>5, <3>2 DEF SaveGif, Return
      <4>. QED
        BY <1>1, <2>1, <3>1, <4>1 DEF ProcessVideo!Next, ProcessVideo!Finish
    <3>3. CASE processed # <<>> /\ cfg.fps # 0
      <4>1. outcome' = "ok" /\ saved' = processed
        BY <2>5, <3>3 DEF SaveGif, Return
      <4>2. /\ ProcessVideo!FromSource(processed)
            /\ ProcessVideo!InOrder(processed)
            /\ cfg.maxFrames # None => Len(processed) <= cfg.maxFrames
        BY <3>1, <3>3, SavedValid
      <4>3. ProcessVideo!Valid(processed)
        BY <3>1, <3>3, <4>2 DEF ProcessVideo!Valid, ProcessVideo!Fits
      <4>. QED
        BY <1>1, <2>1, <3>1, <4>1, <4>3 DEF ProcessVideo!Next, ProcessVideo!Finish
    <3>. QED
      BY <3>2, <3>3
  <2>6. CASE UNCHANGED vars
    BY <2>6 DEF vars, ProcessVideo!vars
  <2>. QED
    BY <2>2, <2>3, <2>4, <2>5, <2>6 DEF Next
<1>. QED
  BY <1>2, <1>3

(* The inductive invariant of the refinement: PipelineProofs' invariants  *)
(* with Provenance and the budget.                                         *)
RInv ==
  /\ OInv /\ SampleCount /\ SaveReady /\ AllOrNothing /\ ZeroDivisionExplained
  /\ CropFits /\ Prov /\ SampleBound /\ WithinBudget

LEMMA InitRInv == Init => RInv
<1>1. Init => CropFits
  BY DEF Init, CropFits
<1>. QED
  BY <1>1, InitOInv, InitSampleCount, InitOutcome, InitProv, InitBudget DEF RInv

LEMMA NextRInv == RInv /\ [Next]_vars => RInv'
<1> SUFFICES ASSUME RInv, [Next]_vars PROVE RInv'
  OBVIOUS
<1>1. TInv
  BY DEF RInv, OInv
<1>2. OInv'
  BY NextOInv DEF RInv
<1>3. SampleCount'
  BY <1>1, NextSampleCount DEF RInv
<1>4. (SaveReady /\ AllOrNothing /\ ZeroDivisionExplained)'
  BY <1>1, NextOutcome DEF RInv
<1>5. CropFits'
  BY <1>1, NextCropFits DEF RInv
<1>6. Prov'
  BY <1>1, NextProv DEF RInv
<1>7. (SampleBound /\ WithinBudget)'
  BY <1>1, NextBudget DEF RInv
<1>. QED
  BY <1>2, <1>3, <1>4, <1>5, <1>6, <1>7 DEF RInv

(* Spec 2, 3, 6 and 7, for every target size, shape set, option set and  *)
(* number of loaded frames: process_video implements ProcessVideoSpec.    *)
(* The caller sees one step, the return: nothing is written before it, a *)
(* True writes target-size frames cut from inside loaded frames, in      *)
(* source order, within max_frames, one frame for a PNG and with a        *)
(* non-zero fps for a GIF, and anything else writes nothing.              *)
THEOREM ProcessVideoRefinement == Spec => ImplementsProcessVideo
<1>1. Init => ProcessVideo!Init
  BY DEF Init, ProcessVideo!Init
<1>2. RInv /\ [Next]_vars => [ProcessVideo!Next]_ProcessVideo!vars
  BY StepRefines DEF RInv, OInv
<1>. QED
  BY <1>1, <1>2, InitRInv, NextRInv, PTL
     DEF Spec, ImplementsProcessVideo, ProcessVideo!Spec
=============================================================================
