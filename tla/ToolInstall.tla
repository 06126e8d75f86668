---------------------------- MODULE ToolInstall ----------------------------
(***************************************************************************)
(* The tyutool install that `tos.py flash` (cli_flash.py) and `tos.py     *)
(* update` (cli_update.py) share, across runs.  What persists:            *)
(*  - root: the tyutool_root checkout directory exists;                   *)
(*  - cli:  its tyutool_cli script exists (only inside root);             *)
(*  - reqs: the Python environment holds the packages the checkout's      *)
(*    requirements.txt names; pip installs them outside root, so          *)
(*    removing root leaves them, and a fresh clone of a newer tyutool may *)
(*    name packages the environment lacks.                                 *)
(* download_tyutool is a sequence of steps (check, rm_rf, git clone, pip  *)
(* install), each an action, and each external step may fail.  When       *)
(* Interrupts holds, a run may stop between two steps.                    *)
(***************************************************************************)
EXTENDS Integers

CONSTANTS
  MaxRuns,     \* bound on the number of tos.py runs
  Interrupts   \* whether a run may stop between two steps

ASSUME ToolAssumption ==
  MaxRuns \in Nat /\ Interrupts \in BOOLEAN

VARIABLES
  root, cli, reqs,  \* the install, as above
  pc,               \* the step the current run is at
  caller,           \* the run: "flash", "update" or "update-t" (-t)
  done,             \* [run, code] of the last run that exited
  runs              \* runs started so far

vars == <<root, cli, reqs, pc, caller, done, runs>>
install == <<root, cli, reqs>>

Runs == {"none", "flash", "update", "update-t"}
NoRun == "none"
NoExit == [run |-> NoRun, code |-> 0]

(* A fresh checkout, before any tos.py run.                                *)
Init ==
  /\ root = FALSE /\ cli = FALSE /\ reqs = FALSE
  /\ pc = "idle" /\ caller = NoRun /\ done = NoExit /\ runs = 0

(* Bug variant: exit_flag = 0 if update_tyutool(tyutool) else -1, which  *)
(* the shell sees as status 255.                                           *)
ExitFlagNegative(r) == IF r THEN 0 ELSE -1

(* exit_flag = 0 if update_tyutool(tyutool) else 1.                       *)
ExitFlag(r) == IF r THEN 0 ELSE 1

(* sys.exit(code): the run ends.                                           *)
Exit(run, code) ==
  /\ pc' = "idle" /\ caller' = NoRun
  /\ done' = [run |-> run, code |-> code]

(* A run starts: Begin, then the first step goes on with Enter.           *)
Begin == pc = "idle" /\ runs < MaxRuns /\ runs' = runs + 1
Enter(run, step) == pc' = step /\ caller' = run /\ UNCHANGED done

(* rm_rf(tyutool_root).  Its result is checked by no caller; the model   *)
(* takes `rm -rf` on the user's own checkout to succeed.                  *)
RmRoot == root' = FALSE /\ cli' = FALSE

-----------------------------------------------------------------------------
(* tos.py flash: check_bin_file, then download_tyutool.  The build output *)
(* may or may not be there.                                                *)
FlashStart ==
  /\ Begin
  /\ \/ Enter("flash", "dl_check")
     \/ Exit("flash", 1)
  /\ UNCHANGED install

(* Bug variant: update_tyutool without its rm_rf(tyutool_root).          *)
UpdateRmDropped == UNCHANGED <<root, cli>>

UpdateRm == RmRoot

(* tos.py update [-t]: update_tyutool(force).  Without root and without  *)
(* force it returns True at once; otherwise rm_rf(tyutool_root) and on to *)
(* download_tyutool.                                                       *)
UpdateStart(force) ==
  /\ Begin
  /\ LET run == IF force THEN "update-t" ELSE "update"
     IN  IF ~root /\ ~force
         THEN Enter(run, "u_platform") /\ UNCHANGED <<root, cli>>
         ELSE Enter(run, "dl_check") /\ UpdateRm
  /\ UNCHANGED reqs

(* download_tyutool returns r to its caller: flash runs the tool or      *)
(* exits 1; update -t exits with the flag; update goes on to             *)
(* update_platform whatever r is.                                          *)
Return(r) ==
  CASE caller = "flash" ->
         IF r THEN pc' = "f_flash" /\ UNCHANGED <<caller, done>> ELSE Exit(caller, 1)
    [] caller = "update-t" -> Exit(caller, ExitFlag(r))
    [] OTHER -> pc' = "u_platform" /\ UNCHANGED <<caller, done>>

(* `if os.path.exists(tyutool_cli): return True`.                          *)
DlCheck ==
  /\ pc = "dl_check"
  /\ IF cli THEN Return(TRUE) ELSE pc' = "dl_rm" /\ UNCHANGED <<caller, done>>
  /\ UNCHANGED <<install, runs>>

DlRm ==
  /\ pc = "dl_rm"
  /\ RmRoot
  /\ pc' = "dl_clone"
  /\ UNCHANGED <<reqs, caller, done, runs>>

(* git clone ... --depth=1: it may fail on the network, and then removes  *)
(* what it created.  A new checkout may need packages the environment     *)
(* lacks.                                                                  *)
DlClone ==
  /\ pc = "dl_clone"
  /\ \/ /\ root' = TRUE /\ cli' = TRUE
        /\ reqs' \in {reqs, FALSE}
        /\ pc' = "dl_pip" /\ UNCHANGED <<caller, done>>
     \/ Return(FALSE) /\ UNCHANGED install
  /\ UNCHANGED runs

(* cd tyutool_root && pip install -r requirements.txt.                    *)
DlPip ==
  /\ pc = "dl_pip"
  /\ \/ reqs' = TRUE /\ Return(TRUE)
     \/ UNCHANGED reqs /\ Return(FALSE)
  /\ UNCHANGED <<root, cli, runs>>

(* The flash subprocess: python tyutool_cli write ...; it fails without   *)
(* the tool's packages, and may fail on the device.                       *)
FlashRun ==
  /\ pc = "f_flash"
  /\ \E ok \in IF cli /\ reqs THEN BOOLEAN ELSE {FALSE} : Exit(caller, IF ok THEN 0 ELSE 1)
  /\ UNCHANGED <<install, runs>>

(* update_platform: git checkout of each platform may fail; the          *)
(* exit_flag of update_tyutool is dropped on this path.                    *)
UpdatePlatform ==
  /\ pc = "u_platform"
  /\ \E ok \in BOOLEAN : Exit(caller, IF ok THEN 0 ELSE 1)
  /\ UNCHANGED <<install, runs>>

(* The run stops between two steps: Ctrl-C, whose KeyboardInterrupt ends *)
(* the process with status 130.                                           *)
Interrupt ==
  /\ Interrupts /\ pc # "idle"
  /\ Exit(caller, 130)
  /\ UNCHANGED <<install, runs>>

Next ==
  \/ FlashStart \/ \E f \in BOOLEAN : UpdateStart(f)
  \/ DlCheck \/ DlRm \/ DlClone \/ DlPip
  \/ FlashRun \/ UpdatePlatform \/ Interrupt

Spec == Init /\ [][Next]_vars

-----------------------------------------------------------------------------
(***************************************************************************)
(* Properties.                                                             *)
(***************************************************************************)

Usable == cli /\ reqs

TypeOK ==
  /\ root \in BOOLEAN /\ cli \in BOOLEAN /\ reqs \in BOOLEAN
  /\ cli => root
  /\ pc \in {"idle", "dl_check", "dl_rm", "dl_clone", "dl_pip", "f_flash", "u_platform"}
  /\ caller \in Runs
  /\ done \in [run : Runs, code : {0, 1, 130}]
  /\ runs \in 0..MaxRuns

(* download_tyutool returning True is what lets `tos.py flash` go on to   *)
(* run the tool: when it does, the tool and its packages are installed.   *)
ReadyMeansUsable ==
  pc = "f_flash" => Usable

(* `tos.py update -t` is the way to repair the tool: when it has exited  *)
(* 0, and no run has started since, tyutool_cli and the packages its      *)
(* requirements name are installed.                                        *)
UpdateRepairs ==
  pc = "idle" /\ done = [run |-> "update-t", code |-> 0] => Usable

=============================================================================
