---------------------------- MODULE FormatCheck -----------------------------
(***************************************************************************)
(* tools/check_format.py: main, then FormatChecker.check_format, which    *)
(* lists the C/C++ files to check and runs three loops over the list:     *)
(* clang-format (_format_file_content, _show_diff), the Chinese-character  *)
(* scan (_check_chinese_characters) and the header check                   *)
(* (_check_file_header), before the summary decides the exit status.       *)
(*                                                                         *)
(* A file is a model value; what the checker learns of it is a record of  *)
(* facts about its path and contents: whether it is a candidate (in the   *)
(* git diff of the PR, or matched by --files / --dir / the current        *)
(* directory in debug mode), has a C/C++ extension, exists, lies under an *)
(* ignore prefix, can be read as UTF-8, whether clang-format exits 0 on it *)
(* and its output equals the file, whether a line holds a CJK character,   *)
(* and the shape of its header comment, and whether the path glob gives *)
(* for it is absolute and not under the project root.  The file system   *)
(* does not change during a run.                                           *)
(***************************************************************************)
EXTENDS Integers, Sequences, FiniteSets, Functions

CONSTANTS
  Files,    \* the paths of the repository
  FileRec,  \* the facts a file may have, as above
  Years     \* values of datetime.now().year

VARIABLES
  debug,      \* args.debug
  argsGiven,  \* args.files or args.dir
  disk,       \* the facts of every path
  gitFound,   \* a git executable is on the PATH
  gitOk,      \* git diff exits 0
  clangOk,    \* clang-format --version exits 0
  year,       \* self.current_year
  pc,         \* where the run is
  files,      \* changed_files
  k,          \* the cursor of the current loop
  flagged,    \* format_errors, chinese_errors, header_errors
  exitCode    \* sys.exit's argument, or -1 while running

vars == <<debug, argsGiven, disk, gitFound, gitOk, clangOk, year, pc, files,
          k, flagged, exitCode>>
env == <<debug, argsGiven, disk, gitFound, gitOk, clangOk, year>>

(* The three loops of check_format.                                       *)
PhaseSet == {"format", "chinese", "header"}

-----------------------------------------------------------------------------
(* _should_ignore_file and the filters of _get_changed_files and           *)
(* _get_local_files: a candidate with a C/C++ suffix that exists and lies  *)
(* under no ignore prefix.  In PR mode a failing git diff yields [].       *)
Listed ==
  IF ~debug /\ ~gitOk THEN {}
  ELSE {f \in Files : disk[f].candidate /\ disk[f].cext /\ disk[f].exists
                      /\ ~disk[f].ignored}

(* The exceptions that escape the listing.  In debug mode               *)
(* _get_local_files calls relative_to(self.project_root) on every         *)
(* absolute path it matches, before the ignore test; a path outside the  *)
(* root, or one reached through a symlink into it, raises ValueError.  In *)
(* PR mode subprocess.run raises FileNotFoundError when there is no git,  *)
(* and _get_changed_files catches only CalledProcessError.  main catches  *)
(* neither, so Python exits with status 1.                                 *)
ListingRaises ==
  IF debug
  THEN \E f \in Files : disk[f].candidate /\ disk[f].cext /\ disk[f].exists
                        /\ disk[f].outside
  ELSE ~gitFound

(* sorted(list(set(files))): the listed paths, each once, in some order.   *)
Enumerations(S) ==
  {s \in UNION {[1..n -> S] : n \in 0..Cardinality(S)} :
     IsInjective(s) /\ Range(s) = S}

(* _format_file_content returns ("", "") when the file cannot be read and *)
(* (original, original) when clang-format fails, so _show_diff reports a  *)
(* file only when clang-format ran and changed it.                         *)
FormatFlag(d) == d.readable /\ d.formats /\ ~d.conforms

(* _check_chinese_characters returns [] when the file cannot be read.     *)
ChineseFlag(d) == d.readable /\ d.chinese

(* _check_file_header's errors: the first line must open a /** block,     *)
(* some line must close it, and the block must hold @file, @brief and a   *)
(* @copyright line whose end year, or its only year, is the current one.  *)
(* copyright tells whether the copyright pattern matches; fromYear and    *)
(* toYear are its two groups, toYear 0 when the second is absent (every   *)
(* year the pattern matches has four digits).                              *)
HeaderErrors(h, cur) ==
  IF ~h.opens THEN {"start"}
  ELSE IF ~h.closes THEN {"end"}
  ELSE    (IF h.file THEN {} ELSE {"file"})
       \cup (IF h.brief THEN {} ELSE {"brief"})
       \cup (IF ~h.copyright THEN {"copyright"}
             ELSE IF h.toYear # 0
                  THEN IF h.toYear = cur THEN {} ELSE {"year"}
             ELSE IF h.fromYear = cur THEN {} ELSE {"year"})

(* A file that cannot be read fails the header check with "Failed to read *)
(* file for header check".                                                 *)
HeaderFlag(d, cur) == ~d.readable \/ HeaderErrors(d.header, cur) # {}

(* Whether loop ph reports the file with facts d.                          *)
Verdict(ph, d) ==
  \/ ph = "format" /\ FormatFlag(d)
  \/ ph = "chinese" /\ ChineseFlag(d)
  \/ ph = "header" /\ HeaderFlag(d, year)

-----------------------------------------------------------------------------
(* main's arguments and the state of the machine it runs on.               *)
Init ==
  /\ debug \in BOOLEAN /\ argsGiven \in BOOLEAN
  /\ disk \in [Files -> FileRec]
  /\ gitFound \in BOOLEAN /\ gitOk \in BOOLEAN /\ clangOk \in BOOLEAN
  /\ year \in Years
  /\ pc = "start" /\ files = <<>> /\ k = 1
  /\ flagged = [ph \in PhaseSet |-> {}]
  /\ exitCode = -1

Exit(code) == pc' = "done" /\ exitCode' = code

(* main rejects --files / --dir without --debug; check_format returns     *)
(* False without clang-format, the listing may raise, and check_format    *)
(* returns True when no file is listed.  The first three all exit 1.      *)
Start ==
  /\ pc = "start"
  /\ IF (~debug /\ argsGiven) \/ ~clangOk \/ ListingRaises
     THEN Exit(1) /\ UNCHANGED files
     ELSE \E s \in Enumerations(Listed) :
            /\ files' = s
            /\ IF s = <<>> THEN Exit(0)
               ELSE pc' = "format" /\ UNCHANGED exitCode
  /\ UNCHANGED <<env, k, flagged>>

(* One iteration of the loop pc over changed_files.                        *)
Check ==
  /\ pc \in PhaseSet /\ k <= Len(files)
  /\ flagged' = [flagged EXCEPT ![pc] =
                   IF Verdict(pc, disk[files[k]]) THEN @ \cup {files[k]} ELSE @]
  /\ k' = k + 1
  /\ UNCHANGED <<env, pc, files, exitCode>>

(* The loop is over: the next loop starts, or the summary returns        *)
(* `not has_errors` and main exits 0 or 1.                                 *)
LoopEnd ==
  /\ pc \in PhaseSet /\ k > Len(files)
  /\ IF pc = "header"
     THEN Exit(IF \E ph \in PhaseSet : flagged[ph] # {} THEN 1 ELSE 0)
     ELSE /\ pc' = IF pc = "format" THEN "chinese" ELSE "header"
          /\ UNCHANGED exitCode
  /\ k' = 1
  /\ UNCHANGED <<env, files, flagged>>

Next == Start \/ Check \/ LoopEnd

Spec == Init /\ [][Next]_vars

-----------------------------------------------------------------------------
(***************************************************************************)
(* Properties.                                                             *)
(***************************************************************************)

TypeOK ==
  /\ debug \in BOOLEAN /\ argsGiven \in BOOLEAN /\ disk \in [Files -> FileRec]
  /\ gitFound \in BOOLEAN /\ gitOk \in BOOLEAN /\ clangOk \in BOOLEAN
  /\ year \in Years
  /\ pc \in {"start", "done"} \cup PhaseSet
  /\ files \in Seq(Files) /\ k \in 1..Len(files) + 1
  /\ flagged \in [PhaseSet -> SUBSET Files]
  /\ exitCode \in {-1, 0, 1}

(* What the checker exists to catch in a file: it cannot be read, holds a *)
(* CJK character, has a bad header, or clang-format rewrites it.  A file  *)
(* clang-format itself fails on is not a defect here: _format_file_content *)
(* then hands back the original twice and the file passes unformatted.     *)
Defect(d) ==
  \/ ~d.readable \/ d.chinese \/ HeaderErrors(d.header, year) # {}
  \/ d.formats /\ ~d.conforms

(* Exit status 0 means the arguments were valid and no listed file has a  *)
(* defect: each of the three loops must have seen every file of the list, *)
(* and the header loop catches the unreadable files that the first two    *)
(* loops let through.                                                      *)
Sound ==
  exitCode = 0 => ~(~debug /\ argsGiven) /\ \A f \in Listed : ~Defect(disk[f])

(* Exit status 1 is never a false alarm: the arguments were invalid,      *)
(* clang-format is missing, the listing raised (a matched path outside   *)
(* the project root, or no git in PR mode), or some listed file has a    *)
(* defect.                                                                 *)
NoFalseAlarm ==
  exitCode = 1 => \/ ~debug /\ argsGiven
                  \/ ~clangOk
                  \/ ListingRaises
                  \/ \E f \in Listed : Defect(disk[f])
=============================================================================
