----------------------------- MODULE Pipeline ------------------------------
(***************************************************************************)
(* DitheringConverter.process_video: load, optional _cut_duration,        *)
(* optional _reduce_frames, then per frame resize_frame, the tone stages  *)
(* and dither_frame, then the save of the PNG or GIF.  A frame is the     *)
(* record of its index in the loaded sequence and its shape; the pixels   *)
(* are Dither's and Tone's business.  The result is the bool process_video *)
(* returns, or the exception that escapes it.                             *)
(***************************************************************************)
EXTENDS Integers, Sequences, Frames, Geometry

CONSTANTS
  TargetW, TargetH, \* self.target_width, self.target_height
  MaxLoad,          \* bound on the number of frames load_video returns
  Shapes,           \* the <<h, w>> shapes a loaded frame may have
  FpsSet,           \* values of the fps argument
  BudgetSet,        \* values of max_frames (may hold None)
  TimeSet,          \* values of start_time and end_time (may hold None)
  AlgoSet,          \* values of the algorithm argument
  ExposureSet,      \* whole values of the exposure argument
  DitherNames       \* the names dither_frame dispatches on

(* argparse's type=int takes any size; a negative one is not modelled     *)
(* (cv2.resize rejects its dsize).  A zero height divides at line 98.     *)
ASSUME TargetAssumption == TargetW \in Nat /\ TargetH \in Nat
ASSUME ExposureAssumption == ExposureSet \subseteq Int
ASSUME ShapeAssumption == Shapes \subseteq (Nat \ {0}) \X (Nat \ {0})
ASSUME FpsAssumption == FpsSet \subseteq Int
ASSUME BudgetAssumption == BudgetSet \subseteq Int \cup {None}
ASSUME NoneAssumption == None \notin Int
ASSUME TimeAssumption ==
  \A t \in TimeSet \ {None} : t.num \in Int /\ t.den \in Nat \ {0}

Outcomes == {"running", "ok", "fail",
             "ZeroDivisionError", "cv2.error", "OverflowError", "ValueError"}

VARIABLES
  cfg,        \* the arguments of process_video
  loaded,     \* what load_video returned
  pc,         \* where process_video is
  trimmed,    \* history: the sequence after the cut stage
  frames,     \* the local `frames`
  i,          \* the frame loop's cursor (1-based)
  processed,  \* processed_frames
  saved,      \* the frames written to output_path
  outcome,    \* the return value, or the exception raised
  ri,         \* _reduce_frames' loop counter i
  reduced     \* _reduce_frames' reduced_frames

vars == <<cfg, loaded, pc, trimmed, frames, i, processed, saved, outcome,
          ri, reduced>>
sampler == <<ri, reduced>>

Cfgs == [fps : FpsSet, maxFrames : BudgetSet, start : TimeSet,
         end : TimeSet, algorithm : AlgoSet, exposure : ExposureSet,
         png : BOOLEAN]

(* The loaded list as frame records: frame k - 1 of the source.           *)
Source == [k \in DOMAIN loaded |-> [src |-> k - 1, shape |-> loaded[k]]]

(* process_video's arguments and the frames load_video returns.           *)
Init ==
  /\ cfg \in Cfgs
  /\ loaded \in UNION {[1..n -> Shapes] : n \in 0..MaxLoad}
  /\ frames = Source /\ trimmed = Source
  /\ pc = "start" /\ i = 1 /\ processed = <<>> /\ saved = <<>>
  /\ outcome = "running"
  /\ ri = 0 /\ reduced = <<>>

(* Bug variant: the result is set but the `return` is missing, so         *)
(* process_video carries on where it was.                                 *)
ReturnFallThrough(r) == outcome' = r /\ UNCHANGED pc

(* Leave process_video with a return value or an exception.               *)
Return(r) == pc' = "done" /\ outcome' = r

(* Bug variant: `if len(frames) <= 1: return False`, an off-by-one test  *)
(* for the empty load.                                                     *)
StartOffByOne ==
  /\ pc = "start"
  /\ IF Len(loaded) <= 1 THEN Return("fail") ELSE pc' = "cut" /\ UNCHANGED outcome
  /\ UNCHANGED <<cfg, loaded, trimmed, frames, i, processed, saved,
                 ri, reduced>>

(* `if not frames: return False`.                                          *)
Start ==
  /\ pc = "start"
  /\ IF loaded = <<>> THEN Return("fail") ELSE pc' = "cut" /\ UNCHANGED outcome
  /\ UNCHANGED <<cfg, loaded, trimmed, frames, i, processed, saved,
                 ri, reduced>>

(* No time bound: the cut stage is skipped.                               *)
SkipCut ==
  /\ pc = "cut"
  /\ cfg.start = None /\ cfg.end = None
  /\ pc' = "reduce"
  /\ UNCHANGED <<cfg, loaded, trimmed, frames, i, processed, saved, outcome,
                 ri, reduced>>

(* frames = self._cut_duration(...); `if not frames: return False`.       *)
Cut ==
  /\ pc = "cut"
  /\ cfg.start # None \/ cfg.end # None
  /\ IF CutRaises(cfg.end, cfg.fps)
     THEN Return("ZeroDivisionError") /\ UNCHANGED <<trimmed, frames>>
     ELSE \E s \in CutDuration(frames, cfg.start, cfg.end, cfg.fps) :
            /\ frames' = s /\ trimmed' = s
            /\ IF s = <<>> THEN Return("fail")
               ELSE pc' = "reduce" /\ UNCHANGED outcome
  /\ UNCHANGED <<cfg, loaded, i, processed, saved, ri, reduced>>

(* `if max_frames is not None and len(frames) > max_frames:` call        *)
(* _reduce_frames, whose step = len(frames) / max_frames may divide by 0, *)
(* and whose reduced_frames starts empty.                                 *)
Reduce ==
  /\ pc = "reduce"
  /\ IF cfg.maxFrames # None /\ Len(frames) > cfg.maxFrames
     THEN IF ReduceRaises(Len(frames), cfg.maxFrames)
          THEN Return("ZeroDivisionError") /\ UNCHANGED sampler
          ELSE pc' = "sample" /\ ri' = 0 /\ reduced' = <<>> /\ UNCHANGED outcome
     ELSE pc' = "loop" /\ UNCHANGED <<outcome, ri, reduced>>
  /\ UNCHANGED <<cfg, loaded, trimmed, frames, i, processed, saved>>

(* One iteration of _reduce_frames' loop: frame_index = int(i * step),   *)
(* appended if it is below len(frames).                                   *)
Sample ==
  /\ pc = "sample"
  /\ ~SampleOver(ri, cfg.maxFrames)
  /\ \E fi \in FrameIndex(ri, Len(frames), cfg.maxFrames) :
       reduced' = IF fi < Len(frames) THEN Append(reduced, frames[fi + 1])
                  ELSE reduced
  /\ ri' = ri + 1
  /\ UNCHANGED <<cfg, loaded, pc, trimmed, frames, i, processed, saved, outcome>>

(* return reduced_frames: process_video's frames is now the sample.       *)
SampleEnd ==
  /\ pc = "sample"
  /\ SampleOver(ri, cfg.maxFrames)
  /\ frames' = reduced /\ pc' = "loop"
  /\ UNCHANGED <<cfg, loaded, trimmed, i, processed, saved, outcome, ri, reduced>>

(* adjust_exposure's 2.0 ** exposure raises OverflowError from 1024 on  *)
(* (2.0 ** 1024 is past the largest float); it runs only for exposure    *)
(* != 0.0.                                                                 *)
ExposureOverflows == cfg.exposure >= 1024

(* Bug variant: the loop body wrapped in try/except that breaks out of   *)
(* the loop, so the frames processed so far are saved as a success.       *)
ProcessFrameBreak ==
  /\ pc = "loop"
  /\ i <= Len(frames)
  /\ IF TargetH = 0 THEN pc' = "save" /\ UNCHANGED <<i, processed, outcome>>
     ELSE \E box \in Crops(frames[i].shape[1], frames[i].shape[2], TargetW, TargetH) :
       IF ResizeRaises(box) \/ ExposureOverflows \/ cfg.algorithm \notin DitherNames
       THEN pc' = "save" /\ UNCHANGED <<i, processed, outcome>>
       ELSE /\ processed' = Append(processed,
                   [src |-> frames[i].src, from |-> frames[i].shape, crop |-> box,
                    shape |-> <<TargetH, TargetW>>])
            /\ i' = i + 1
            /\ UNCHANGED <<pc, outcome>>
  /\ UNCHANGED <<cfg, loaded, trimmed, frames, saved, ri, reduced>>

(* One iteration of `for i, frame in enumerate(frames)`, whose exceptions *)
(* escape in the order the body meets them: resize_frame's               *)
(* target_width / target_height, then cv2.resize of an empty crop; then  *)
(* the tone stages, where `2.0 ** exposure` overflows; then dither_frame, *)
(* whose unknown-name branch raises ValueError.                           *)
ProcessFrame ==
  /\ pc = "loop"
  /\ i <= Len(frames)
  /\ IF TargetH = 0 THEN Return("ZeroDivisionError") /\ UNCHANGED <<i, processed>>
     ELSE \E box \in Crops(frames[i].shape[1], frames[i].shape[2], TargetW, TargetH) :
       IF ResizeRaises(box) THEN Return("cv2.error") /\ UNCHANGED <<i, processed>>
       ELSE IF ExposureOverflows THEN Return("OverflowError") /\ UNCHANGED <<i, processed>>
       ELSE IF cfg.algorithm \notin DitherNames
       THEN Return("ValueError") /\ UNCHANGED <<i, processed>>
       ELSE /\ processed' = Append(processed,
                 [src |-> frames[i].src, from |-> frames[i].shape, crop |-> box,
                  shape |-> <<TargetH, TargetW>>])
            /\ i' = i + 1
            /\ UNCHANGED <<pc, outcome>>
  /\ UNCHANGED <<cfg, loaded, trimmed, frames, saved, ri, reduced>>

(* Bug variant: a hand-written `while i <= len(frames)` that waits for   *)
(* one frame too many.                                                    *)
LoopEndOffByOne ==
  /\ pc = "loop"
  /\ i > Len(frames) + 1
  /\ pc' = "save"
  /\ UNCHANGED <<cfg, loaded, trimmed, frames, i, processed, saved, outcome,
                 ri, reduced>>

(* The loop is over.                                                      *)
LoopEnd ==
  /\ pc = "loop"
  /\ i > Len(frames)
  /\ pc' = "save"
  /\ UNCHANGED <<cfg, loaded, trimmed, frames, i, processed, saved, outcome,
                 ri, reduced>>

(* Bug variant: the still image saved with save_all=True, which writes    *)
(* every processed frame.                                                  *)
SavePngAll ==
  /\ pc = "save" /\ cfg.png
  /\ IF processed = <<>> THEN Return("fail") /\ UNCHANGED saved
     ELSE Return("ok") /\ saved' = processed
  /\ UNCHANGED <<cfg, loaded, trimmed, frames, i, processed, ri, reduced>>

(* processed_frames[0].save(output_path): IndexError on an empty list is  *)
(* caught and reported by `return False`.                                  *)
SavePng ==
  /\ pc = "save" /\ cfg.png
  /\ IF processed = <<>> THEN Return("fail") /\ UNCHANGED saved
     ELSE Return("ok") /\ saved' = <<processed[1]>>
  /\ UNCHANGED <<cfg, loaded, trimmed, frames, i, processed, ri, reduced>>

(* The GIF save: IndexError on an empty list and ZeroDivisionError of     *)
(* duration = 1000 // fps are caught and reported by `return False`.      *)
SaveGif ==
  /\ pc = "save" /\ ~cfg.png
  /\ IF processed = <<>> \/ cfg.fps = 0 THEN Return("fail") /\ UNCHANGED saved
     ELSE Return("ok") /\ saved' = processed
  /\ UNCHANGED <<cfg, loaded, trimmed, frames, i, processed, ri, reduced>>

Next == Start \/ SkipCut \/ Cut \/ Reduce \/ Sample \/ SampleEnd
          \/ ProcessFrame \/ LoopEnd \/ SavePng \/ SaveGif

Spec == Init /\ [][Next]_vars

(* process_video is one sequential call on one thread: it waits on no    *)
(* other actor, so while it has not returned its next step is always      *)
(* enabled and is taken.  Weak fairness of Next says no more than that.    *)
FairSpec == Spec /\ WF_vars(Next)

-----------------------------------------------------------------------------
(***************************************************************************)
(* Properties.                                                             *)
(***************************************************************************)

FrameRec == [src : Nat, shape : Shapes]

TypeOK ==
  /\ cfg \in Cfgs
  /\ loaded \in Seq(Shapes)
  /\ pc \in {"start", "cut", "reduce", "sample", "loop", "save", "done"}
  /\ trimmed \in Seq(FrameRec) /\ frames \in Seq(FrameRec)
  /\ i \in 1..Len(frames) + 1
  /\ Len(processed) = i - 1
  /\ saved \in Seq([src : Nat, from : Shapes, crop : [y0 : Nat, x0 : Nat, h : Nat, w : Nat],
                    shape : {<<TargetH, TargetW>>}])
  /\ outcome \in Outcomes
  /\ ri \in Nat /\ reduced \in Seq(FrameRec)
  /\ (outcome = "running") <=> (pc # "done")

(* Spec 3 and 4.2: every stage keeps the temporal order, and the sampler  *)
(* subsamples without reordering.  With step = len / max_frames > 1 it    *)
(* never repeats a frame either, whatever int() makes of the float        *)
(* products: the frames process_video emits come from strictly later and *)
(* later source frames.                                                   *)
FramesInOrder ==
  \A j, k \in DOMAIN processed : j < k => processed[j].src < processed[k].src

(* Spec 4.2 and 8: a sequence within the budget passes the sampler        *)
(* unchanged, and a longer one leaves it with exactly max_frames frames.  *)
BudgetStep ==
  (pc \in {"reduce", "sample"} /\ pc' = "loop" /\
     (cfg.maxFrames = None \/ cfg.maxFrames >= 0))
    => IF cfg.maxFrames = None \/ Len(frames) <= cfg.maxFrames
       THEN frames' = frames
       ELSE Len(frames') = cfg.maxFrames

(* Every step of process_video out of _reduce_frames respects the budget *)
(* as BudgetStep says.                                                    *)
BudgetExact == [][BudgetStep]_vars

(* Spec 4.1 and 8: trimming fails only on an empty sequence; otherwise    *)
(* the clamps of _cut_duration keep at least one frame, even for a window *)
(* that lies past the end of the video.                                   *)
CutKeepsFrame ==
  loaded # <<>> => trimmed # <<>>

(* Spec 4.3: resize_frame's crop b of an sh x sw frame lies inside it,   *)
(* keeps one of its axes whole, is centred on the other (margins differ  *)
(* by at most one pixel) and has the target ratio W / H up to one pixel  *)
(* of the cropped axis.                                                   *)
CropFit(b, sh, sw) ==
  /\ b.y0 + b.h <= sh /\ b.x0 + b.w <= sw
  /\ b.h = sh \/ b.w = sw
  /\ sh - b.h - 2 * b.y0 \in {0, 1} /\ sw - b.w - 2 * b.x0 \in {0, 1}
  /\ \/ b.w * TargetH <= TargetW * b.h /\ TargetW * b.h <= (b.w + 1) * TargetH
     \/ b.h * TargetW <= TargetH * b.w /\ TargetH * b.w <= (b.h + 1) * TargetW

(* Spec 4.3, for every frame process_video has resized so far: its crop  *)
(* fits its source frame as CropFit says.                                 *)
CropFits ==
  \A k \in DOMAIN processed :
    CropFit(processed[k].crop, processed[k].from[1], processed[k].from[2])

(* Spec 8: trim(seq, 0, len(seq) / fps) returns the whole sequence.       *)
TrimWholeWindow ==
  (/\ cfg.start = None \/ cfg.start.num = 0
   /\ cfg.end # None
   /\ cfg.end.num * cfg.fps = Len(loaded) * cfg.end.den)
  => trimmed = Source

(* Spec 7, "no internal state is partially mutated on failure": when     *)
(* process_video returns True, every frame of the trimmed and sampled     *)
(* sequence went through the loop and what was written is a prefix of     *)
(* processed_frames, in order; an exception in frame k (cv2.error from    *)
(* the crop, ValueError from dither_frame) or a False leaves nothing      *)
(* written, although k frames had been processed.                          *)
AllOrNothing ==
  /\ outcome = "ok" =>
       /\ Len(processed) = Len(frames)
       /\ saved # <<>>
       /\ \A k \in DOMAIN saved : saved[k] = processed[k]
  /\ outcome # "ok" => saved = <<>>

(* The ZeroDivisionError that escapes process_video comes from one of     *)
(* three divisions only: the progress line of _cut_duration, `end_time or *)
(* total_frames / fps`, with fps = 0 and no (or a zero) end time; the     *)
(* step len(frames) / max_frames of _reduce_frames with a budget of 0; or *)
(* resize_frame's target_width / target_height with --height 0.  A time   *)
(* bound with fps = 0 but a non-zero end time cuts without error.         *)
ZeroDivisionExplained ==
  outcome = "ZeroDivisionError" =>
    \/ cfg.fps = 0 /\ (cfg.end = None \/ cfg.end.num = 0)
    \/ cfg.maxFrames = 0
    \/ TargetH = 0

(* Under FairSpec process_video always returns or raises: the sampler and *)
(* the frame loop are bounded by max_frames and len(frames).              *)
Termination == <>(pc = "done")

(* Spec 8, end-to-end: with no time bound, no budget, a known algorithm,  *)
(* fps > 0 for the GIF's duration, and source frames whose crops are not  *)
(* empty, a non-empty video eventually yields True with one output frame  *)
(* per source frame, in source order.                                     *)
PlainRun ==
  /\ cfg.start = None /\ cfg.end = None /\ cfg.maxFrames = None
  /\ cfg.algorithm \in DitherNames /\ cfg.fps > 0 /\ ~cfg.png
  /\ ~ExposureOverflows /\ TargetH # 0
  /\ loaded # <<>>
  /\ \A k \in DOMAIN loaded :
       \A box \in Crops(loaded[k][1], loaded[k][2], TargetW, TargetH) : ~ResizeRaises(box)

EndToEnd ==
  PlainRun => <>(/\ outcome = "ok" /\ Len(saved) = Len(loaded)
                 /\ \A k \in DOMAIN saved : saved[k].src = k - 1)

(* Spec 2, 3, 6 and 7, as one contract: process_video implements          *)
(* ProcessVideoSpec.  Seen from the caller, the call returns in one step, *)
(* and in that step a valid output is written (target-size frames cut     *)
(* from inside their source frames, in source order, within the budget,  *)
(* one frame for a PNG, a non-zero rate for a GIF) or nothing is.  Its    *)
(* variables are process_video's own.                                      *)
ProcessVideo == INSTANCE ProcessVideoSpec

ImplementsProcessVideo == ProcessVideo!Spec
=============================================================================
