------------------------------ MODULE Frames -------------------------------
(***************************************************************************)
(* The sequence stages of process_video: _cut_duration, the temporal    *)
(* trimmer, and the steps of _reduce_frames, the sampler.  A frame is     *)
(* any value; a time in seconds is the rational [num |-> n, den |-> d]    *)
(* the caller's float stands for, and int() of a product is IntOf of      *)
(* PyFloat, which leaves the float's last-bit rounding open.              *)
(***************************************************************************)
EXTENDS Integers, Sequences, PyFloat

(* An optional argument left at its default: a model value, unequal to   *)
(* every number and time.                                                 *)
CONSTANT None

(* frames[s:e] for 0 <= s: Python clips the end at the length.            *)
PySlice(seq, s, e) == [k \in 1..(PyMin(e, Len(seq)) - s) |-> seq[s + k]]

(* int(t * fps) for the time t.                                           *)
IntTimes(t, fps) == IntOf(t.num * fps, t.den)

(* Bug variant: the end clamp written max(start_frame, ...), without +1.  *)
CutBoundsNoPlusOne(total, start, end, fps) ==
  LET Starts == IF start = None THEN {0}
                ELSE {PyMax(0, PyMin(s, total - 1)) : s \in IntTimes(start, fps)}
  IN  UNION {IF end = None THEN {<<sf, total>>}
             ELSE {<<sf, PyMax(sf, PyMin(e, total))>> : e \in IntTimes(end, fps)}
             : sf \in Starts}

(* The <<start_frame, end_frame>> pairs _cut_duration can compute: each   *)
(* bound is int() of time * fps, clamped, the end to at least one frame   *)
(* past the start.                                                        *)
CutBounds(total, start, end, fps) ==
  LET Starts == IF start = None THEN {0}
                ELSE {PyMax(0, PyMin(s, total - 1)) : s \in IntTimes(start, fps)}
  IN  UNION {IF end = None THEN {<<sf, total>>}
             ELSE {<<sf, PyMax(sf + 1, PyMin(e, total))>> : e \in IntTimes(end, fps)}
             : sf \in Starts}

(* Bug variant: the progress line prints total_frames / fps whatever    *)
(* the end time.                                                           *)
CutRaisesAnyEnd(end, fps) == fps = 0

(* The progress line formats `end_time or total_frames / fps`: with no    *)
(* end time (or 0.0) and fps 0 it raises ZeroDivisionError.               *)
CutRaises(end, fps) == (end = None \/ end.num = 0) /\ fps = 0

(* The sequences _cut_duration can return when a bound is given.          *)
CutDuration(frames, start, end, fps) ==
  {PySlice(frames, b[1], b[2]) : b \in CutBounds(Len(frames), start, end, fps)}

(* _reduce_frames, one iteration at a time.  frame_index = int(i * step) *)
(* with step = len(frames) / max_frames = n / m: the exact value is      *)
(* i * n / m.  Bug variant: step = max_frames / len(frames), inverted.    *)
FrameIndexInverted(k, n, m) == IntOf(k * m, n)

FrameIndex(k, n, m) == IntOf(k * n, m)

(* `for i in range(max_frames)` is over once i reaches max_frames (at    *)
(* once for max_frames < 0).  Bug variant: range(max_frames - 1).        *)
SampleOverShort(k, m) == k >= m - 1

SampleOver(k, m) == k >= m

(* step = len(frames) / max_frames raises ZeroDivisionError for a budget *)
(* of 0; the caller reaches _reduce_frames only with len(frames) > m.    *)
ReduceRaises(n, m) == n > m /\ m = 0
=============================================================================
