-------------------------- MODULE ProcessVideoSpec --------------------------
(***************************************************************************)
(* What process_video promises its caller (spec 2, 3, 6 and 7), whatever  *)
(* stages it runs inside: the call returns once, with True, False or an  *)
(* exception, and in that same step the output is written or it is not.  *)
(* Nothing is written while the call runs ("no internal state is          *)
(* partially mutated on failure"), and nothing changes after it returns.  *)
(* What is written is a non-empty list of frames of the target size, each *)
(* cut from inside the source frame it comes from, in source order and    *)
(* without repeats, within the frame budget, one frame for a still image  *)
(* and a non-zero playback rate for an animation.                         *)
(***************************************************************************)
EXTENDS Integers, Sequences

CONSTANTS
  TargetW, TargetH, \* the target canvas
  None              \* an option left at its default

VARIABLES
  cfg,      \* the options of the call: png, fps and maxFrames are read here
  loaded,   \* the decoded frames, as their <<h, w>> shapes
  outcome,  \* "running", then the return value or the exception raised
  saved     \* the frames written to the output

vars == <<cfg, loaded, outcome, saved>>

(* Spec 3: every output frame has the target size; it names its source   *)
(* frame, and its crop lies inside that frame.                            *)
FromSource(s) ==
  \A k \in DOMAIN s :
    /\ s[k].src \in 0..Len(loaded) - 1
    /\ s[k].from = loaded[s[k].src + 1]
    /\ s[k].shape = <<TargetH, TargetW>>
    /\ s[k].crop.y0 + s[k].crop.h <= s[k].from[1]
    /\ s[k].crop.x0 + s[k].crop.w <= s[k].from[2]

(* Spec 3: every stage keeps the temporal order, and the sampler never   *)
(* reorders.                                                               *)
InOrder(s) == \A j, k \in DOMAIN s : j < k => s[j].src < s[k].src

(* Spec 2 and 6: a budget bounds the frame count; a still image is one   *)
(* frame; an animation is written with a playback rate.                   *)
Fits(s) ==
  /\ cfg.png => Len(s) = 1
  /\ cfg.maxFrames # None => Len(s) <= cfg.maxFrames
  /\ ~cfg.png => cfg.fps # 0

Valid(s) == s # <<>> /\ FromSource(s) /\ InOrder(s) /\ Fits(s)

Init == outcome = "running" /\ saved = <<>>

(* The call returns: True with a valid output written, or a failure with *)
(* nothing written.                                                        *)
Finish ==
  /\ outcome = "running"
  /\ outcome' # "running"
  /\ IF outcome' = "ok" THEN Valid(saved') ELSE saved' = <<>>
  /\ UNCHANGED <<cfg, loaded>>

Next == Finish

Spec == Init /\ [][Next]_vars
=============================================================================
