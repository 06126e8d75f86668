----------------------------- MODULE Scaffold ------------------------------
(***************************************************************************)
(* `tos.py new platform` and `tos.py new board` (cli_new.py), run one     *)
(* after another on the same tree.  What persists between runs:           *)
(*  - platforms_root/<name> and boards_root/<name>, each with the         *)
(*    _bak_<i> copies create_new_platform_path / create_new_board_path    *)
(*    keep of it; a directory's content is a version number, 0 = absent;  *)
(*  - boards_root/Kconfig, where modify_board_kconfig inserts a choice    *)
(*    entry per platform before the new-board-kconfig marker line;        *)
(*  - boards_root/<platform>/Kconfig, which create_new_board_path writes  *)
(*    (its `header`) and new_board_exec extends with a choice block       *)
(*    ending in the new-board-add marker;                                 *)
(*  - the board directories boards_root/<platform>/<board>.               *)
(* A command is a sequence of steps; when Interrupts holds, a run may     *)
(* stop between any two of them (Ctrl-C, a killed terminal) and leave the *)
(* tree as it is.                                                          *)
(***************************************************************************)
EXTENDS Integers, Sequences, FiniteSets
(* The helpers below are written out here rather than taken from         *)
(* FiniteSetsExt and SequencesExt, which reach the RECURSIVE folds: the   *)
(* proofs of ScaffoldProofs need a module free of them.                   *)

CONSTANTS
  PlatNames,   \* platform names typed at `input:`, as sequences of chars
  BoardNames,  \* board names typed at `input:`
  ProjectNames, \* project names typed at `input:`
  BakSlots,    \* the backup loop's range(1, 100) tries 1 .. BakSlots
  MaxRuns,     \* bound on the number of tos.py runs
  Interrupts   \* whether a run may stop between two steps

ASSUME SlotAssumption == BakSlots \in Nat \ {0}
ASSUME RunAssumption == MaxRuns \in Nat /\ Interrupts \in BOOLEAN
(* A platform is a directory under platforms_root: its name is not empty *)
(* (os.path.join(platforms_root, "") is platforms_root itself).           *)
ASSUME PlatNameAssumption == <<>> \notin PlatNames

(* new_platform_name.upper().replace('-', '_'), on names over a, b, -, _. *)
UpperChar(c) == CASE c = "a" -> "A" [] c = "b" -> "B" [] c = "-" -> "_" [] OTHER -> c
Sym(n) == [k \in DOMAIN n |-> UpperChar(n[k])]

(* Lines of a board Kconfig: the platform header create_new_board_path    *)
(* writes, `choice`, `endchoice`, the new-board-add marker, and a         *)
(* `config BOARD_CHOICE_<b> ... rsource` entry per board.                 *)
Line(k) == [kind |-> k, board |-> ""]
Entry(b) == [kind |-> "entry", board |-> b]
Lines == {Line(k) : k \in {"header", "choice", "endchoice", "marker"}}
           \cup {Entry(b) : b \in BoardNames}

Slots == 1..BakSlots

(* The least element of a set of numbers.                                 *)
Least(S) == CHOOSE i \in S : \A j \in S : i <= j

VARIABLES
  platDir,     \* version of platforms_root/<n>
  platBak,     \* version held by platforms_root/<n>_bak_<i>
  boardRoot,   \* version of boards_root/<n>
  boardBak,    \* version held by boards_root/<n>_bak_<i>
  rootKconfig, \* platform entries of boards_root/Kconfig, in file order
  platKconfig, \* lines of boards_root/<n>/Kconfig
  boards,      \* boards_root/<n>/<board> directories
  defConfig,   \* platforms whose default.config exists
  projects,    \* app_root/<name> directories
  pc,          \* the step the current run is at
  arg,         \* the name the current run works on
  runs,        \* runs started so far
  ver          \* the last version written anywhere

dirVars == <<platDir, platBak, boardRoot, boardBak, rootKconfig, platKconfig, boards>>
fsVars == <<dirVars, defConfig, projects>>
vars == <<fsVars, pc, arg, runs, ver>>

Init ==
  /\ platDir = [n \in PlatNames |-> 0]
  /\ platBak = [n \in PlatNames |-> [i \in Slots |-> 0]]
  /\ boardRoot = [n \in PlatNames |-> 0]
  /\ boardBak = [n \in PlatNames |-> [i \in Slots |-> 0]]
  /\ rootKconfig = <<>>
  /\ platKconfig = [n \in PlatNames |-> <<>>]
  /\ boards = [n \in PlatNames |-> {}]
  /\ defConfig = {}
  /\ projects = {}
  /\ pc = "idle" /\ arg = <<>> /\ runs = 0 /\ ver = 0

(* Bug variant: the loop without its `if not os.path.exists(bak_path):   *)
(* break`, which always ends at the last slot tried.                      *)
BakSlotNoBreak(bak) == BakSlots

(* The slot the loop `for i in range(1, 100): if not exists: break`       *)
(* stops at: the first free one, else the last one tried.                 *)
BakSlot(bak) ==
  LET free == {i \in Slots : bak[i] = 0}
  IN  IF free # {} THEN Least(free) ELSE BakSlots

(* Bug variant: the loop over range(1, 101), which goes one slot past the *)
(* BakSlots ones once they are all taken.                                 *)
BackupOffByOne(bak, v) ==
  LET free == {i \in 1..BakSlots + 1 : i \notin DOMAIN bak \/ bak[i] = 0}
      s == IF free # {} THEN Least(free) ELSE BakSlots + 1
  IN  IF v = 0 THEN bak
      ELSE [i \in DOMAIN bak \cup {s} |-> IF i = s THEN v ELSE bak[i]]

(* `if os.path.exists(path)`: rm_rf(bak_path); copy_directory(path,       *)
(* bak_path).  The result is the new backup function of the directory.    *)
Backup(bak, v) ==
  IF v = 0 THEN bak ELSE [bak EXCEPT ![BakSlot(bak)] = v]

(* A run ends: sys.exit, or an interruption.                              *)
EndRun == pc' = "idle" /\ arg' = <<>>

-----------------------------------------------------------------------------
(* new_platform_exec: the name, and the update question when it exists.   *)
PlatStart(n, yes) ==
  /\ pc = "idle" /\ runs < MaxRuns
  /\ runs' = runs + 1
  /\ IF platDir[n] # 0 /\ ~yes
     THEN UNCHANGED <<pc, arg>>
     ELSE pc' = "p_create" /\ arg' = n
  /\ UNCHANGED <<fsVars, ver>>

(* create_new_platform_path: back the old directory up, then write the    *)
(* new one into it.                                                        *)
PlatCreate ==
  /\ pc = "p_create"
  /\ platBak' = [platBak EXCEPT ![arg] = Backup(@, platDir[arg])]
  /\ ver' = ver + 1
  /\ platDir' = [platDir EXCEPT ![arg] = ver + 1]
  /\ pc' = "p_config"
  /\ UNCHANGED <<boardRoot, boardBak, rootKconfig, platKconfig, boards, defConfig,
                 projects, arg, runs>>

(* gen_default_config: menuconfig, then `if not os.path.exists(          *)
(* default_config): return False` and sys.exit(1).  The user saves, or    *)
(* quits without saving, which fails only if no earlier run left a        *)
(* default.config in the platform directory.                              *)
PlatConfig ==
  /\ pc = "p_config"
  /\ \/ defConfig' = defConfig \cup {arg} /\ pc' = "p_port" /\ UNCHANGED arg
     \/ /\ UNCHANGED defConfig
        /\ IF arg \in defConfig THEN pc' = "p_port" /\ UNCHANGED arg ELSE EndRun
  /\ UNCHANGED <<dirVars, projects, runs, ver>>

(* update_platform_by_config, then porting_platform: kernel_porting.py    *)
(* may exit non-zero, and then sys.exit(1).                               *)
PlatPort ==
  /\ pc = "p_port"
  /\ \/ pc' = "p_board" /\ UNCHANGED arg
     \/ EndRun
  /\ UNCHANGED <<fsVars, runs, ver>>

(* `re.search(r'\bBOARD_ENABLE_<N>\b', content)`: the entries             *)
(* modify_board_kconfig writes say BOARD_CHOICE_<N>, so no entry it wrote *)
(* ever matches.                                                           *)
PlatListed(n) == FALSE

(* initialization_board: create_new_board_path backs up boards_root/<n>,  *)
(* keeps the directory (with its boards) and rewrites its Kconfig; then   *)
(* modify_board_kconfig inserts the entry unless it finds it listed.      *)
PlatBoard ==
  /\ pc = "p_board"
  /\ boardBak' = [boardBak EXCEPT ![arg] = Backup(@, boardRoot[arg])]
  /\ ver' = ver + 1
  /\ boardRoot' = [boardRoot EXCEPT ![arg] = ver + 1]
  /\ platKconfig' = [platKconfig EXCEPT ![arg] = <<Line("header")>>]
  /\ rootKconfig' = IF PlatListed(arg) THEN rootKconfig ELSE Append(rootKconfig, arg)
  /\ EndRun
  /\ UNCHANGED <<platDir, platBak, boards, defConfig, projects, runs>>

-----------------------------------------------------------------------------
(* Bug variant: the existence check of new_board_path left out.           *)
BoardExistsDropped(p, b) == FALSE

(* `if os.path.exists(new_board_path): sys.exit(1)`.                      *)
BoardExists(p, b) == b \in boards[p]

(* new_board_exec: a platform from the subdirectories of boards_root and *)
(* a board name.                                                           *)
BoardStart(p, b) ==
  /\ pc = "idle" /\ runs < MaxRuns
  /\ boardRoot[p] # 0
  /\ runs' = runs + 1
  /\ IF BoardExists(p, b) THEN UNCHANGED <<pc, arg>>
     ELSE pc' = "b_kconfig" /\ arg' = <<p, b>>
  /\ UNCHANGED <<fsVars, ver>>

(* Bug variant: check_text_in_file looks for a misspelt marker.           *)
HasMarkerTypo(f) == FALSE

(* check_text_in_file(board_kconfig, add_line).                           *)
HasMarker(f) == \E k \in DOMAIN f : f[k] = Line("marker")

(* The positions of the marker line in f.                                 *)
Markers(f) == {k \in DOMAIN f : f[k] = Line("marker")}

(* Where line i of f lands once every marker up to it has had an entry    *)
(* put in front of it.                                                     *)
Shift(f, i) == i + Cardinality({j \in Markers(f) : j <= i})

(* replace_string_in_file(board_kconfig, add_line, entry + add_line):     *)
(* content.replace replaces every occurrence of the marker, so each       *)
(* marker gets the entry in front of it.  Line i of f moves to Shift(f,   *)
(* i), and the places no line moves to, one before each marker, hold the *)
(* entry.                                                                  *)
AddBoard(f, b) ==
  [k \in 1..Len(f) + Cardinality(Markers(f)) |->
     IF \E i \in DOMAIN f : Shift(f, i) = k
     THEN f[CHOOSE i \in DOMAIN f : Shift(f, i) = k]
     ELSE Entry(b)]

(* _new_board_kconfig appends a choice block with the entry and marker.   *)
NewBoardBlock(f, b) == f \o <<Line("choice"), Entry(b), Line("marker"), Line("endchoice")>>

(* The Kconfig edit of new_board_exec.                                    *)
BoardKconfig ==
  /\ pc = "b_kconfig"
  /\ LET p == arg[1]
         b == arg[2]
     IN  platKconfig' = [platKconfig EXCEPT ![p] =
                           IF HasMarker(@) THEN AddBoard(@, b) ELSE NewBoardBlock(@, b)]
  /\ pc' = "b_copy"
  /\ UNCHANGED <<platDir, platBak, boardRoot, boardBak, rootKconfig, boards,
                 defConfig, projects, arg, runs, ver>>

(* copy_directory(board_template_root, new_board_path) and the two        *)
(* replace_string_in_file on its Kconfig; sys.exit(0).                    *)
BoardCopy ==
  /\ pc = "b_copy"
  /\ boards' = [boards EXCEPT ![arg[1]] = @ \cup {arg[2]}]
  /\ EndRun
  /\ UNCHANGED <<platDir, platBak, boardRoot, boardBak, rootKconfig, platKconfig,
                 defConfig, projects, runs, ver>>

-----------------------------------------------------------------------------
(* new_project_exec: `if os.path.exists(new_project_path): sys.exit(1)`,  *)
(* else copy_directory of the app template; one step.                     *)
NewProject(n) ==
  /\ pc = "idle" /\ runs < MaxRuns
  /\ runs' = runs + 1
  /\ projects' = projects \cup {n}
  /\ UNCHANGED <<dirVars, defConfig, pc, arg, ver>>

(* The run stops between two steps.                                       *)
Interrupt ==
  /\ Interrupts /\ pc # "idle"
  /\ EndRun
  /\ UNCHANGED <<fsVars, runs, ver>>

Next ==
  \/ \E n \in PlatNames, yes \in BOOLEAN : PlatStart(n, yes)
  \/ PlatCreate \/ PlatConfig \/ PlatPort \/ PlatBoard
  \/ \E p \in PlatNames, b \in BoardNames : BoardStart(p, b)
  \/ BoardKconfig \/ BoardCopy
  \/ \E n \in ProjectNames : NewProject(n)
  \/ Interrupt

Spec == Init /\ [][Next]_vars

-----------------------------------------------------------------------------
(***************************************************************************)
(* Properties.                                                             *)
(***************************************************************************)

Steps == {"idle", "p_create", "p_config", "p_port", "p_board", "b_kconfig", "b_copy"}
Versions == 0..ver

TypeOK ==
  /\ platDir \in [PlatNames -> Versions]
  /\ boardRoot \in [PlatNames -> Versions]
  /\ platBak \in [PlatNames -> [Slots -> Versions]]
  /\ boardBak \in [PlatNames -> [Slots -> Versions]]
  /\ rootKconfig \in Seq(PlatNames)
  /\ platKconfig \in [PlatNames -> Seq(Lines)]
  /\ boards \in [PlatNames -> SUBSET BoardNames]
  /\ defConfig \subseteq PlatNames
  /\ projects \subseteq ProjectNames
  /\ pc \in Steps
  /\ (pc = "idle") <=> (arg = <<>>)
  /\ runs \in 0..MaxRuns /\ ver \in Nat

Count(f, l) == Cardinality({k \in DOMAIN f : f[k] = l})
IsEntry(l) == l \in {Entry(b) : b \in BoardNames}

(* The new-board-add marker says it "cannot be deleted or modified": it   *)
(* must stay the one line new_board_exec adds boards before.  Every board *)
(* Kconfig of a platform is the header create_new_board_path writes,      *)
(* followed by at most one `choice` block, which ends with the marker and *)
(* `endchoice` and holds only board entries, whatever sequence of         *)
(* platform updates and board additions has run.                          *)
KconfigWellFormed ==
  \A n \in PlatNames : boardRoot[n] # 0 =>
    LET f == platKconfig[n]
    IN  /\ Len(f) >= 1 /\ f[1] = Line("header")
        /\ Len(f) > 1 =>
             /\ Len(f) >= 4 /\ f[2] = Line("choice")
             /\ f[Len(f) - 1] = Line("marker") /\ f[Len(f)] = Line("endchoice")
             /\ \A k \in 3..Len(f) - 2 : IsEntry(f[k])

(* new_board_exec refuses a board whose directory exists, so that a      *)
(* board is listed at most once in its platform's choice: a duplicate     *)
(* `config BOARD_CHOICE_<b>` would be offered twice by menuconfig.        *)
BoardListedAtMostOnce ==
  \A n \in PlatNames, b \in BoardNames : Count(platKconfig[n], Entry(b)) <= 1

(* new_board_exec lists every board it creates in its platform's choice:  *)
(* a board directory the platform Kconfig does not list cannot be         *)
(* selected, and new_board_exec refuses to create it again because its    *)
(* directory exists.                                                       *)
BoardsListed ==
  \A n \in PlatNames, b \in BoardNames :
    b \in boards[n] => Count(platKconfig[n], Entry(b)) >= 1

(* The versions a platform or board directory has had that the tree still *)
(* holds: in the directory itself or in one of its _bak_<i> copies.       *)
Held(dir, bak, n) == ({dir[n]} \cup {bak[n][i] : i \in Slots}) \ {0}

(* create_new_platform_path and create_new_board_path save the old       *)
(* directory before they write the new one: as long as a _bak_<i> slot   *)
(* is free, no step loses a version of a platform or board directory,    *)
(* neither the one it replaces nor one saved by an earlier run.  Only    *)
(* once every slot is taken does the loop fall through to the last slot   *)
(* and overwrite it.                                                       *)
BackupsKeepVersions ==
  [][\A n \in PlatNames :
       /\ (\E i \in Slots : platBak[n][i] = 0) =>
            Held(platDir, platBak, n) \subseteq Held(platDir', platBak', n)
       /\ (\E i \in Slots : boardBak[n][i] = 0) =>
            Held(boardRoot, boardBak, n) \subseteq Held(boardRoot', boardBak', n)]_vars

(* modify_board_kconfig checks that a platform is not listed before it    *)
(* inserts its entry: boards_root/Kconfig must never define the same     *)
(* BOARD_CHOICE_<NAME> symbol twice, which kconfig rejects or merges into *)
(* one choice entry with two sources.                                      *)
PlatformListedOnce ==
  \A j, k \in DOMAIN rootKconfig :
    j < k => Sym(rootKconfig[j]) # Sym(rootKconfig[k])

=============================================================================
