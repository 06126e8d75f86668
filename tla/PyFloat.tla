------------------------------ MODULE PyFloat ------------------------------
(***************************************************************************)
(* int() of a float computed from small integers, as dittering.py does in *)
(* int(i * step) with step = len / max_frames, int(start_time * fps) and  *)
(* int(h * target_ratio).  Write the exact value as the rational a / b.   *)
(* int() truncates toward zero.  Where a / b is not an integer, no float  *)
(* rounding of such small operands crosses the integer below or above it, *)
(* so int() gives the truncation.  Where a / b is an integer k # 0, the   *)
(* rounded product may land just short of k (int((3 / 47) * 47) = 2,     *)
(* int(0.29 * 100) = 28): int() gives k or the integer next to it toward  *)
(* zero.  Which of the two depends on the bits of the operands, so the    *)
(* model leaves it open.                                                  *)
(***************************************************************************)
EXTENDS Integers

(* Python's min and max of two numbers.                                   *)
PyMin(a, b) == IF a <= b THEN a ELSE b
PyMax(a, b) == IF a >= b THEN a ELSE b

(* a / b truncated toward zero, for b > 0.                                *)
TruncDiv(a, b) == IF a >= 0 THEN a \div b ELSE -((-a) \div b)

(* The values int() can return for the float nearest to a / b, b > 0.     *)
IntOf(a, b) ==
  LET k == TruncDiv(a, b)
  IN  IF a % b = 0 /\ k # 0
      THEN {k, IF k > 0 THEN k - 1 ELSE k + 1}
      ELSE {k}
=============================================================================
