----------------------------- MODULE DitherSpec -----------------------------
(***************************************************************************)
(* What each error-diffusion ditherer of dittering.py promises (spec 4.5 *)
(* and 8), whatever its kernel and scan: every pixel of the frame is      *)
(* quantised exactly once, to black or to white, and is never changed     *)
(* again; pixels not yet quantised may take on any error in between; the  *)
(* frame is returned once every pixel is quantised, and holds the         *)
(* quantised values.  The working image is scaled by Scale, as the        *)
(* accumulator of Dither is.                                              *)
(***************************************************************************)
EXTENDS Integers

CONSTANTS Height, Width, Levels, Scale

VARIABLES
  input,      \* the grayscale frame passed in
  img,        \* the working image, scaled by Scale
  quantised,  \* the pixels already set to black or white
  out         \* the returned frame, else None

vars == <<input, img, quantised, out>>

None == <<>>
Frame == (0..Height-1) \X (0..Width-1)
Black == 0
White == 255 * Scale

Init ==
  /\ input \in [Frame -> Levels]
  /\ img = [p \in Frame |-> input[p] * Scale]
  /\ quantised = {}
  /\ out = None

(* Pixel p is quantised: it becomes black or white, the pixels quantised *)
(* before keep their values, the others may change.                       *)
Quantise(p) ==
  /\ p \notin quantised
  /\ out = None
  /\ quantised' = quantised \cup {p}
  /\ img' \in [Frame -> Int]
  /\ img'[p] \in {Black, White}
  /\ \A r \in quantised : img'[r] = img[r]
  /\ UNCHANGED <<input, out>>

(* The frame is returned, once every pixel is quantised.                  *)
Return ==
  /\ quantised = Frame
  /\ out = None
  /\ out' = [p \in Frame |-> IF img[p] = White THEN 255 ELSE 0]
  /\ UNCHANGED <<input, img, quantised>>

Next == (\E p \in Frame : Quantise(p)) \/ Return

Spec == Init /\ [][Next]_vars

=============================================================================
