------------------------- MODULE FormatCheckProofs --------------------------
(***************************************************************************)
(* Proofs about check_format.py for every set of paths, every set of file *)
(* facts and every year: exit status 0 means no listed file has a defect, *)
(* and exit status 1 is never a false alarm.                               *)
(*                                                                         *)
(* The argument is one inductive invariant.  Each loop ph has looked at   *)
(* the first Scanned(ph) files of the list, and its error list holds      *)
(* exactly those of them it reports (FlagsUpTo).  The list is the set of   *)
(* listed files once the arguments were found valid, and the summary's    *)
(* exit status is read off the three error lists once all three loops     *)
(* have seen the whole list.                                               *)
(***************************************************************************)
EXTENDS FormatCheck, SequenceTheorems, TLAPS

(* main accepted the arguments, clang-format is installed and the        *)
(* listing raised nothing.                                                 *)
Valid == ~(~debug /\ argsGiven) /\ clangOk /\ ~ListingRaises

(* How many files of the list loop ph has looked at.                      *)
Scanned(ph) ==
  IF pc = "done" THEN Len(files)
  ELSE IF pc = ph THEN k - 1
  ELSE IF \/ ph = "format" /\ pc \in {"chinese", "header"}
          \/ ph = "chinese" /\ pc = "header"
       THEN Len(files)
  ELSE 0

(* The files among the first n of the list that loop ph reports.          *)
FlagsUpTo(ph, n) == {files[j] : j \in {i \in 1..n : Verdict(ph, disk[files[i]])}}

FInv ==
  /\ TypeOK
  /\ pc = "start" => files = <<>> /\ k = 1 /\ exitCode = -1
  /\ (pc = "done") <=> (exitCode # -1)
  /\ pc \in PhaseSet => Valid
  /\ pc \in PhaseSet \/ (pc = "done" /\ Valid) => Range(files) = Listed
  /\ pc = "done" /\ ~Valid => exitCode = 1
  /\ \A ph \in PhaseSet : flagged[ph] = FlagsUpTo(ph, Scanned(ph))
  /\ pc = "done" /\ Valid =>
       exitCode = IF \E ph \in PhaseSet : flagged[ph] # {} THEN 1 ELSE 0

-----------------------------------------------------------------------------
(* A file no loop reports has no defect, and a file some loop reports has *)
(* one.                                                                    *)
LEMMA VerdictDefect ==
  ASSUME NEW d
  PROVE  /\ (\A ph \in PhaseSet : ~Verdict(ph, d)) => ~Defect(d)
         /\ \A ph \in PhaseSet : Verdict(ph, d) => Defect(d)
BY DEF Verdict, FormatFlag, ChineseFlag, HeaderFlag, Defect, PhaseSet

(* An enumeration of a set of paths is a list of paths.                   *)
LEMMA EnumerationSeq ==
  ASSUME NEW S, S \subseteq Files, NEW s \in Enumerations(S)
  PROVE  s \in Seq(Files) /\ Range(s) = S
<1>1. PICK n \in 0..Cardinality(S) : s \in [1..n -> S]
  BY DEF Enumerations
<1>2. n \in Nat
  BY <1>1
<1>3. s \in [1..n -> Files]
  BY <1>1
<1>. QED
  BY <1>2, <1>3, SMT DEF Enumerations

LEMMA InitFInv == Init => FInv
BY DEF Init, FInv, TypeOK, Scanned, FlagsUpTo, PhaseSet

(* The error lists do not depend on the cursor: with the list, the disk   *)
(* and the year unchanged, so is what the first n files give.             *)
LEMMA FlagsFrame ==
  ASSUME UNCHANGED <<files, disk, year>>, NEW ph, NEW n
  PROVE  FlagsUpTo(ph, n)' = FlagsUpTo(ph, n)
BY DEF FlagsUpTo, Verdict, FormatFlag, ChineseFlag, HeaderFlag

(* Looking at one more file adds it to the list of loop ph if ph reports *)
(* it.                                                                     *)
LEMMA FlagsStep ==
  ASSUME NEW ph, NEW n \in Nat
  PROVE  FlagsUpTo(ph, n + 1) =
           FlagsUpTo(ph, n) \cup (IF Verdict(ph, disk[files[n + 1]])
                                 THEN {files[n + 1]} ELSE {})
<1>1. {i \in 1..n + 1 : Verdict(ph, disk[files[i]])} =
        {i \in 1..n : Verdict(ph, disk[files[i]])}
        \cup (IF Verdict(ph, disk[files[n + 1]]) THEN {n + 1} ELSE {})
  OBVIOUS
<1>. QED
  BY <1>1 DEF FlagsUpTo

LEMMA FlagsNone ==
  ASSUME NEW ph
  PROVE  FlagsUpTo(ph, 0) = {}
BY DEF FlagsUpTo

(* FInv is kept by every step.  Start fixes the list; Check moves one     *)
(* loop's cursor and error list together; LoopEnd hands over to the next  *)
(* loop with its predecessor complete, or computes the exit status.        *)
LEMMA NextFInv == FInv /\ [Next]_vars => FInv'
<1> SUFFICES ASSUME FInv, [Next]_vars PROVE FInv'
  OBVIOUS
<1>0. /\ files \in Seq(Files) /\ Len(files) \in Nat /\ k \in 1..Len(files) + 1
      /\ flagged \in [PhaseSet -> SUBSET Files] /\ disk \in [Files -> FileRec]
      /\ debug \in BOOLEAN /\ argsGiven \in BOOLEAN /\ gitOk \in BOOLEAN
      /\ gitFound \in BOOLEAN
      /\ clangOk \in BOOLEAN /\ year \in Years
      /\ pc \in {"start", "done"} \cup PhaseSet /\ exitCode \in {-1, 0, 1}
  BY LenProperties DEF FInv, TypeOK
<1>1. CASE Start
  <2>1. pc = "start" /\ files = <<>> /\ k = 1 /\ exitCode = -1
    BY <1>1 DEF Start, FInv
  <2>2. \A ph \in PhaseSet : flagged[ph] = {}
    BY <2>1, FlagsNone DEF FInv, Scanned, PhaseSet
  <2>3. UNCHANGED <<debug, argsGiven, disk, gitFound, gitOk, clangOk, year, k, flagged>>
    BY <1>1 DEF Start, env
  <2>4. CASE ~Valid
    <3>1. pc' = "done" /\ exitCode' = 1 /\ files' = <<>>
      BY <1>1, <2>1, <2>4 DEF Start, Exit, Valid
    <3>2. \A ph \in PhaseSet : flagged'[ph] = FlagsUpTo(ph, Scanned(ph))'
      BY <2>2, <2>3, <3>1, FlagsNone DEF Scanned, FlagsUpTo
    <3>3. TypeOK'
      BY <1>0, <2>1, <2>3, <3>1 DEF TypeOK
    <3>4. ~Valid'
      BY <2>3, <2>4 DEF Valid, ListingRaises
    <3>. QED
      BY <3>1, <3>2, <3>3, <3>4 DEF FInv, PhaseSet
  <2>5. CASE Valid
    <3>1. PICK s \in Enumerations(Listed) :
            /\ files' = s
            /\ IF s = <<>> THEN Exit(0) ELSE pc' = "format" /\ UNCHANGED exitCode
      BY <1>1, <2>5 DEF Start, Valid
    <3>2. s \in Seq(Files) /\ Range(s) = Listed
      BY <3>1, EnumerationSeq DEF Listed
    <3>3. Listed' = Listed /\ Valid'
      BY <2>3, <2>5 DEF Listed, Valid, ListingRaises
    <3>4. \A ph \in PhaseSet : Scanned(ph)' = 0 \/ (Scanned(ph)' = Len(s) /\ s = <<>>)
      BY <2>1, <2>3, <3>1 DEF Scanned, Exit, PhaseSet
    <3>5. \A ph \in PhaseSet : flagged'[ph] = FlagsUpTo(ph, Scanned(ph))'
      <4>1. \A ph \in PhaseSet : FlagsUpTo(ph, Scanned(ph))' = {}
        BY <3>1, <3>4, FlagsNone DEF FlagsUpTo
      <4>. QED
        BY <2>2, <2>3, <4>1
    <3>6. CASE s = <<>>
      <4>1. pc' = "done" /\ exitCode' = 0 /\ files' = <<>>
        BY <3>1, <3>6 DEF Exit
      <4>2. TypeOK'
        BY <1>0, <2>1, <2>3, <4>1 DEF TypeOK
      <4>. QED
        BY <2>2, <2>3, <3>2, <3>3, <3>5, <3>6, <4>1, <4>2 DEF FInv, PhaseSet
    <3>7. CASE s # <<>>
      <4>1. pc' = "format" /\ exitCode' = -1 /\ k' = 1 /\ files' = s
        BY <2>1, <2>3, <3>1, <3>7
      <4>2. Len(s) \in Nat
        BY <3>2, LenProperties
      <4>3. TypeOK'
        BY <1>0, <2>3, <3>2, <4>1, <4>2 DEF TypeOK, PhaseSet
      <4>. QED
        BY <3>2, <3>3, <3>5, <4>1, <4>3 DEF FInv, PhaseSet
    <3>. QED
      BY <3>6, <3>7
  <2>. QED
    BY <2>4, <2>5
<1>2. CASE Check
  <2>1. /\ pc \in PhaseSet /\ k <= Len(files) /\ k' = k + 1
        /\ UNCHANGED <<debug, argsGiven, disk, gitFound, gitOk, clangOk, year, pc, files, exitCode>>
        /\ flagged' = [flagged EXCEPT ![pc] =
                         IF Verdict(pc, disk[files[k]]) THEN @ \cup {files[k]} ELSE @]
    BY <1>2 DEF Check, env
  <2>2. files[k] \in Files
    BY <1>0, <2>1, ElementOfSeq
  <2>3. flagged' \in [PhaseSet -> SUBSET Files]
    BY <1>0, <2>1, <2>2
  <2>4. \A ph \in PhaseSet : FlagsUpTo(ph, Scanned(ph))' = FlagsUpTo(ph, Scanned(ph)')
    BY <2>1, FlagsFrame
  <2>5. Scanned(pc)' = k /\ Scanned(pc) = k - 1
    <3>1. pc # "done" /\ pc' = pc /\ k \in Int
      BY <1>0, <2>1 DEF PhaseSet
    <3>2. Scanned(pc)' = k' - 1
      BY <3>1 DEF Scanned
    <3>3. Scanned(pc) = k - 1
      BY <3>1 DEF Scanned
    <3>. QED
      BY <2>1, <3>1, <3>2, <3>3
  <2>6. \A ph \in PhaseSet \ {pc} : Scanned(ph)' = Scanned(ph)
    BY <2>1 DEF Scanned, PhaseSet
  <2>7. flagged'[pc] = FlagsUpTo(pc, k)
    <3>1. k - 1 \in Nat /\ (k - 1) + 1 = k
      BY <1>0
    <3>2. FlagsUpTo(pc, k) = FlagsUpTo(pc, k - 1)
            \cup (IF Verdict(pc, disk[files[k]]) THEN {files[k]} ELSE {})
      BY <3>1, FlagsStep
    <3>3. flagged[pc] = FlagsUpTo(pc, k - 1)
      BY <2>1, <2>5 DEF FInv
    <3>. QED
      BY <1>0, <2>1, <3>2, <3>3
  <2>8. \A ph \in PhaseSet : flagged'[ph] = FlagsUpTo(ph, Scanned(ph))'
    <3>1. \A ph \in PhaseSet \ {pc} : flagged'[ph] = flagged[ph]
      BY <1>0, <2>1
    <3>2. flagged'[pc] = FlagsUpTo(pc, Scanned(pc))'
      BY <2>1, <2>4, <2>5, <2>7
    <3>3. ASSUME NEW ph \in PhaseSet \ {pc}
          PROVE  flagged'[ph] = FlagsUpTo(ph, Scanned(ph))'
      <4>1. flagged[ph] = FlagsUpTo(ph, Scanned(ph))
        BY DEF FInv
      <4>. QED
        BY <2>4, <2>6, <3>1, <4>1
    <3>. QED
      BY <2>1, <3>2, <3>3
  <2>9. Listed' = Listed /\ Valid' = Valid
    BY <2>1 DEF Listed, Valid, ListingRaises
  <2>. QED
    BY <1>0, <2>1, <2>3, <2>8, <2>9 DEF FInv, TypeOK, PhaseSet
<1>3. CASE LoopEnd
  <2>1. /\ pc \in PhaseSet /\ k = Len(files) + 1 /\ k' = 1
        /\ UNCHANGED <<debug, argsGiven, disk, gitFound, gitOk, clangOk, year, files, flagged>>
    BY <1>0, <1>3 DEF LoopEnd, env
  <2>2. \A ph \in PhaseSet : FlagsUpTo(ph, Scanned(ph))' = FlagsUpTo(ph, Scanned(ph)')
    BY <2>1, FlagsFrame
  <2>3. Listed' = Listed /\ Valid' = Valid /\ Valid /\ Range(files) = Listed
    BY <2>1 DEF Listed, Valid, ListingRaises, FInv
  <2>4. \A ph \in PhaseSet : Scanned(ph)' = Scanned(ph)
    <3>1. CASE pc = "header"
      <4>1. pc' = "done"
        BY <1>3, <3>1 DEF LoopEnd, Exit
      <4>. QED
        BY <2>1, <3>1, <4>1 DEF Scanned, PhaseSet
    <3>2. CASE pc = "format"
      <4>1. pc' = "chinese"
        BY <1>3, <3>2 DEF LoopEnd
      <4>. QED
        BY <2>1, <3>2, <4>1 DEF Scanned, PhaseSet
    <3>3. CASE pc = "chinese"
      <4>1. pc' = "header"
        BY <1>3, <3>3 DEF LoopEnd
      <4>. QED
        BY <2>1, <3>3, <4>1 DEF Scanned, PhaseSet
    <3>. QED
      BY <2>1, <3>1, <3>2, <3>3 DEF PhaseSet
  <2>5. \A ph \in PhaseSet : flagged'[ph] = FlagsUpTo(ph, Scanned(ph))'
    BY <2>1, <2>2, <2>4 DEF FInv
  <2>6. CASE pc = "header"
    <3>1. pc' = "done"
          /\ exitCode' = IF \E ph \in PhaseSet : flagged[ph] # {} THEN 1 ELSE 0
      BY <1>3, <2>6 DEF LoopEnd, Exit
    <3>. QED
      BY <1>0, <2>1, <2>3, <2>5, <3>1 DEF FInv, TypeOK
  <2>7. CASE pc # "header"
    <3>1. pc' \in PhaseSet /\ exitCode' = exitCode /\ exitCode = -1
      BY <1>3, <2>1, <2>7 DEF LoopEnd, FInv, PhaseSet
    <3>. QED
      BY <1>0, <2>1, <2>3, <2>5, <3>1 DEF FInv, TypeOK, PhaseSet
  <2>. QED
    BY <2>6, <2>7
<1>4. CASE UNCHANGED vars
  <2>1. TypeOK'
    BY <1>4 DEF vars, FInv, TypeOK
  <2>2. Valid' = Valid /\ Listed' = Listed
    BY <1>4 DEF vars, Valid, Listed, ListingRaises
  <2>3. \A ph \in PhaseSet : Scanned(ph)' = Scanned(ph)
    BY <1>4 DEF vars, Scanned
  <2>4. \A ph \in PhaseSet : FlagsUpTo(ph, Scanned(ph))' = FlagsUpTo(ph, Scanned(ph))
    BY <1>4, <2>3, FlagsFrame DEF vars
  <2>. QED
    BY <1>4, <2>1, <2>2, <2>3, <2>4 DEF vars, FInv
<1>. QED
  BY <1>1, <1>2, <1>3, <1>4 DEF Next

LEMMA FInvHolds == Spec => []FInv
BY InitFInv, NextFInv, PTL DEF Spec

(* Once the three loops are over with valid arguments, the error list of *)
(* loop ph is the set of listed files that ph reports.                    *)
LEMMA FlagsAtEnd ==
  ASSUME FInv, pc = "done", Valid, NEW ph \in PhaseSet
  PROVE  flagged[ph] = {f \in Listed : Verdict(ph, disk[f])}
<1>1. flagged[ph] = FlagsUpTo(ph, Len(files))
  BY DEF FInv, Scanned
<1>2. files \in Seq(Files) /\ Range(files) = Listed
  BY DEF FInv, TypeOK
<1>. QED
  BY <1>1, <1>2 DEF FlagsUpTo, Range

(* check_format.py exits 0 only when main accepted its arguments and none *)
(* of the files _get_changed_files or _get_local_files listed is          *)
(* unreadable, holds a Chinese character, has a bad header or is changed  *)
(* by clang-format: for every set of paths, file contents and years.      *)
THEOREM SoundHolds == Spec => []Sound
<1>1. FInv => Sound
  <2> SUFFICES ASSUME FInv, exitCode = 0
               PROVE  ~(~debug /\ argsGiven) /\ \A f \in Listed : ~Defect(disk[f])
    BY DEF Sound
  <2>1. pc = "done" /\ Valid
    BY DEF FInv
  <2>2. \A ph \in PhaseSet : flagged[ph] = {}
    BY <2>1 DEF FInv
  <2>3. ASSUME NEW f \in Listed PROVE ~Defect(disk[f])
    <3>1. \A ph \in PhaseSet : ~Verdict(ph, disk[f])
      BY <2>1, <2>2, FlagsAtEnd
    <3>. QED
      BY <3>1, VerdictDefect
  <2>. QED
    BY <2>1, <2>3 DEF Valid
<1>. QED
  BY <1>1, FInvHolds, PTL

(* check_format.py exits 1 only for --files or --dir without --debug, a   *)
(* missing clang-format, an exception out of the file listing, or a listed *)
(* file with a defect: the summary never fails a run whose files are all  *)
(* clean.                                                                  *)
THEOREM NoFalseAlarmHolds == Spec => []NoFalseAlarm
<1>1. FInv => NoFalseAlarm
  <2> SUFFICES ASSUME FInv, exitCode = 1, Valid
               PROVE  \E f \in Listed : Defect(disk[f])
    BY DEF NoFalseAlarm, Valid
  <2>1. pc = "done"
    BY DEF FInv
  <2>2. PICK ph \in PhaseSet : flagged[ph] # {}
    BY <2>1 DEF FInv
  <2>3. PICK f \in Listed : Verdict(ph, disk[f])
    BY <2>1, <2>2, FlagsAtEnd
  <2>. QED
    BY <2>3, VerdictDefect
<1>. QED
  BY <1>1, FInvHolds, PTL

=============================================================================
