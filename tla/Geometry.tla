----------------------------- MODULE Geometry ------------------------------
(***************************************************************************)
(* resize_frame: the centre crop to the target aspect ratio W / H, then   *)
(* cv2.resize to W x H.  The crop is a box [y0, x0, h, w] of the source   *)
(* frame of height sh and width sw; floats are compared and truncated as  *)
(* PyFloat describes.                                                     *)
(***************************************************************************)
EXTENDS Integers, PyFloat

Box(y0, x0, h, w) == [y0 |-> y0, x0 |-> x0, h |-> h, w |-> w]

(* current_ratio > target_ratio, i.e. sw / sh > W / H.                    *)
Wider(sh, sw, W, H) == sw * H > W * sh

(* Bug variant: start_x = w - new_w, the // 2 dropped.                     *)
CropsUncentred(sh, sw, W, H) ==
  IF Wider(sh, sw, W, H)
  THEN {Box(0, sw - nw, sh, nw) : nw \in IntOf(sh * W, H)}
  ELSE {Box((sh - nh) \div 2, 0, nh, sw) : nh \in IntOf(sw * H, W)}

(* The crop boxes resize_frame can cut: the full height and              *)
(* new_w = int(h * target_ratio) columns from start_x = (w - new_w) // 2, *)
(* or the full width and new_h = int(w / target_ratio) rows.              *)
Crops(sh, sw, W, H) ==
  IF Wider(sh, sw, W, H)
  THEN {Box(0, (sw - nw) \div 2, sh, nw) : nw \in IntOf(sh * W, H)}
  ELSE {Box((sh - nh) \div 2, 0, nh, sw) : nh \in IntOf(sw * H, W)}

(* cv2.resize raises cv2.error on an empty crop.                          *)
ResizeRaises(box) == box.h = 0 \/ box.w = 0
=============================================================================
