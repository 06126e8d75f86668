-------------------------- MODULE ToolInstallProofs -------------------------
(***************************************************************************)
(* Proofs about the tyutool install of ToolInstall, for every bound on    *)
(* the number of runs, with or without interruptions.                     *)
(*                                                                         *)
(* The argument for UpdateRepairs: `tos.py update -t` removes the         *)
(* checkout before download_tyutool, so its existence check cannot        *)
(* succeed (NoCliBeforeClone); it exits 0 only from a pip install that    *)
(* succeeded right after a clone (CliAtPip), or not at all.  No other     *)
(* step ends a run with that record: flash and plain update never carry   *)
(* the -t flag (CallerShape), and an interrupted run exits with 130.     *)
(***************************************************************************)
EXTENDS ToolInstall, TLAPS

(* The run each step belongs to.                                          *)
CallerShape ==
  /\ pc # "idle" => caller # NoRun
  /\ pc = "f_flash" => caller = "flash"
  /\ pc = "u_platform" => caller = "update"

(* Between update -t's rm_rf and the clone, tyutool_cli does not exist.  *)
NoCliBeforeClone ==
  pc \in {"dl_check", "dl_rm", "dl_clone"} /\ caller = "update-t" => ~cli

(* pip runs right after a clone that wrote tyutool_cli.                   *)
CliAtPip == pc = "dl_pip" => cli

IInv == TypeOK /\ CallerShape /\ NoCliBeforeClone /\ CliAtPip /\ UpdateRepairs
-----------------------------------------------------------------------------
(* The invariant holds before any run.                                    *)
LEMMA InitIInv == Init => IInv
<1> SUFFICES ASSUME Init PROVE IInv
  OBVIOUS
<1>1. TypeOK
  <2>1. root \in BOOLEAN /\ cli \in BOOLEAN /\ reqs \in BOOLEAN /\ (cli => root)
    BY Zenon DEF Init
  <2>2. caller \in Runs
    BY DEF Init, NoRun, Runs
  <2>3. done \in [run : Runs, code : {0, 1, 130}]
    BY DEF Init, NoExit, NoRun, Runs
  <2>4. runs \in 0..MaxRuns
    BY ToolAssumption DEF Init
  <2>. QED
    BY <2>1, <2>2, <2>3, <2>4 DEF Init, TypeOK
<1>2. CallerShape /\ NoCliBeforeClone /\ CliAtPip /\ UpdateRepairs
  BY DEF Init, CallerShape, NoCliBeforeClone, CliAtPip, UpdateRepairs, NoRun, NoExit
<1>. QED
  BY <1>1, <1>2 DEF IInv

(* What download_tyutool's return does for each caller.                   *)
LEMMA ReturnFacts ==
  ASSUME NEW r \in BOOLEAN, Return(r), caller \in {"flash", "update", "update-t"}
  PROVE  /\ caller = "flash" /\ r => pc' = "f_flash" /\ caller' = caller /\ done' = done
         /\ caller = "flash" /\ ~r =>
              pc' = "idle" /\ caller' = NoRun /\ done' = [run |-> "flash", code |-> 1]
         /\ caller = "update-t" =>
              /\ pc' = "idle" /\ caller' = NoRun
              /\ done' = [run |-> "update-t", code |-> IF r THEN 0 ELSE 1]
         /\ caller = "update" => pc' = "u_platform" /\ caller' = caller /\ done' = done
BY DEF Return, Exit, ExitFlag

(* Every step of every run keeps it.                                      *)
LEMMA NextIInv == IInv /\ [Next]_vars => IInv'
<1> SUFFICES ASSUME IInv, [Next]_vars PROVE IInv'
  OBVIOUS
<1> USE ToolAssumption DEF IInv, TypeOK, CallerShape, NoCliBeforeClone,
                           CliAtPip, UpdateRepairs, Usable, Runs, NoRun
<1>1. CASE FlashStart
  <2>1. /\ pc = "idle" /\ runs' = runs + 1 /\ runs < MaxRuns
        /\ root' = root /\ cli' = cli /\ reqs' = reqs
        /\ \/ pc' = "dl_check" /\ caller' = "flash" /\ done' = done
           \/ pc' = "idle" /\ caller' = NoRun /\ done' = [run |-> "flash", code |-> 1]
    BY <1>1 DEF FlashStart, Begin, Enter, Exit, install
  <2>. QED
    BY <2>1
<1>2. CASE \E f \in BOOLEAN : UpdateStart(f)
  <2>1. PICK f \in BOOLEAN : UpdateStart(f)
    BY <1>2
  <2>2. /\ pc = "idle" /\ runs' = runs + 1 /\ runs < MaxRuns
        /\ reqs' = reqs /\ done' = done
        /\ caller' = IF f THEN "update-t" ELSE "update"
        /\ IF ~root /\ ~f THEN pc' = "u_platform" /\ root' = root /\ cli' = cli
           ELSE pc' = "dl_check" /\ root' = FALSE /\ cli' = FALSE
    BY <2>1 DEF UpdateStart, Begin, Enter, UpdateRm, RmRoot
  <2>3. CASE f
    <3>1. pc' = "dl_check" /\ caller' = "update-t" /\ root' = FALSE /\ cli' = FALSE
          /\ reqs' = reqs /\ done' = done /\ runs' = runs + 1 /\ runs < MaxRuns
      BY <2>2, <2>3
    <3>2. root' \in BOOLEAN /\ cli' \in BOOLEAN /\ (cli' => root') /\ ~cli'
      BY <3>1, Zenon
    <3>3. runs' \in 0..MaxRuns
      BY <3>1
    <3>. QED
      BY <3>1, <3>2, <3>3
  <2>4. CASE ~f /\ root
    <3>1. pc' = "dl_check" /\ caller' = "update" /\ root' = FALSE /\ cli' = FALSE
          /\ reqs' = reqs /\ done' = done /\ runs' = runs + 1 /\ runs < MaxRuns
      BY <2>2, <2>4
    <3>2. root' \in BOOLEAN /\ cli' \in BOOLEAN /\ (cli' => root') /\ ~cli'
      BY <3>1, Zenon
    <3>3. runs' \in 0..MaxRuns
      BY <3>1
    <3>. QED
      BY <3>1, <3>2, <3>3
  <2>5. CASE ~f /\ ~root
    <3>1. pc' = "u_platform" /\ caller' = "update" /\ root' = root /\ cli' = cli
      BY <2>2, <2>5
    <3>. QED
      BY <2>2, <3>1
  <2>. QED
    BY <2>3, <2>4, <2>5
<1>3. CASE DlCheck
  <2>1. /\ pc = "dl_check" /\ UNCHANGED <<root, cli, reqs, runs>>
        /\ IF cli THEN Return(TRUE)
           ELSE pc' = "dl_rm" /\ caller' = caller /\ done' = done
    BY <1>3 DEF DlCheck, install
  <2>2. CASE cli
    <3>1. caller \in {"flash", "update"}
      BY <2>1, <2>2
    <3>2. Return(TRUE)
      BY <2>1, <2>2
    <3>3. CASE caller = "flash"
      <4>1. pc' = "f_flash" /\ caller' = caller /\ done' = done
        BY <3>2, <3>3, ReturnFacts
      <4>. QED
        BY <2>1, <3>3, <4>1
    <3>4. CASE caller = "update"
      <4>1. pc' = "u_platform" /\ caller' = caller /\ done' = done
        BY <3>2, <3>4, ReturnFacts
      <4>. QED
        BY <2>1, <3>4, <4>1
    <3>. QED
      BY <3>1, <3>3, <3>4
  <2>3. CASE ~cli
    BY <2>1, <2>3
  <2>. QED
    BY <2>2, <2>3
<1>4. CASE DlRm
  <2>1. /\ pc = "dl_rm" /\ pc' = "dl_clone" /\ root' = FALSE /\ cli' = FALSE
        /\ UNCHANGED <<reqs, caller, done, runs>>
    BY <1>4 DEF DlRm, RmRoot
  <2>. QED
    BY <2>1
<1>5. CASE DlClone
  <2>1. /\ pc = "dl_clone" /\ UNCHANGED runs
        /\ \/ /\ root' = TRUE /\ cli' = TRUE /\ reqs' \in {reqs, FALSE}
              /\ pc' = "dl_pip" /\ caller' = caller /\ done' = done
           \/ Return(FALSE) /\ UNCHANGED <<root, cli, reqs>>
    BY <1>5 DEF DlClone, install
  <2>2. caller \in {"flash", "update", "update-t"}
    BY <2>1
  <2>3. CASE root' = TRUE /\ cli' = TRUE /\ reqs' \in {reqs, FALSE}
              /\ pc' = "dl_pip" /\ caller' = caller /\ done' = done
    BY <2>1, <2>3
  <2>4. CASE Return(FALSE) /\ UNCHANGED <<root, cli, reqs>>
    <3>1. CASE caller = "update-t"
      <4>1. pc' = "idle" /\ caller' = NoRun /\ done' = [run |-> "update-t", code |-> 1]
        BY <2>4, <3>1, ReturnFacts
      <4>. QED
        BY <2>1, <2>4, <4>1
    <3>2. CASE caller = "flash"
      <4>1. pc' = "idle" /\ caller' = NoRun /\ done' = [run |-> "flash", code |-> 1]
        BY <2>4, <3>2, ReturnFacts
      <4>. QED
        BY <2>1, <2>4, <4>1
    <3>3. CASE caller = "update"
      <4>1. pc' = "u_platform" /\ caller' = caller /\ done' = done
        BY <2>4, <3>3, ReturnFacts
      <4>. QED
        BY <2>1, <2>4, <3>3, <4>1
    <3>. QED
      BY <2>2, <3>1, <3>2, <3>3
  <2>. QED
    BY <2>1, <2>3, <2>4
<1>6. CASE DlPip
  <2>1. /\ pc = "dl_pip" /\ UNCHANGED <<root, cli, runs>>
        /\ \/ reqs' = TRUE /\ Return(TRUE)
           \/ reqs' = reqs /\ Return(FALSE)
    BY <1>6 DEF DlPip
  <2>2. cli /\ root
    BY <2>1
  <2>3. caller \in {"flash", "update", "update-t"}
    BY <2>1
  <2>4. CASE reqs' = TRUE /\ Return(TRUE)
    <3>1. CASE caller = "update-t"
      <4>1. pc' = "idle" /\ caller' = NoRun /\ done' = [run |-> "update-t", code |-> 0]
        BY <2>4, <3>1, ReturnFacts
      <4>. QED
        BY <2>1, <2>2, <2>4, <4>1
    <3>2. CASE caller = "flash"
      <4>1. pc' = "f_flash" /\ caller' = caller /\ done' = done
        BY <2>4, <3>2, ReturnFacts
      <4>. QED
        BY <2>1, <2>2, <2>4, <3>2, <4>1
    <3>3. CASE caller = "update"
      <4>1. pc' = "u_platform" /\ caller' = caller /\ done' = done
        BY <2>4, <3>3, ReturnFacts
      <4>. QED
        BY <2>1, <2>2, <2>4, <3>3, <4>1
    <3>. QED
      BY <2>3, <3>1, <3>2, <3>3
  <2>5. CASE reqs' = reqs /\ Return(FALSE)
    <3>1. CASE caller = "update-t"
      <4>1. pc' = "idle" /\ caller' = NoRun /\ done' = [run |-> "update-t", code |-> 1]
        BY <2>5, <3>1, ReturnFacts
      <4>. QED
        BY <2>1, <2>2, <2>5, <4>1
    <3>2. CASE caller = "flash"
      <4>1. pc' = "idle" /\ caller' = NoRun /\ done' = [run |-> "flash", code |-> 1]
        BY <2>5, <3>2, ReturnFacts
      <4>. QED
        BY <2>1, <2>2, <2>5, <4>1
    <3>3. CASE caller = "update"
      <4>1. pc' = "u_platform" /\ caller' = caller /\ done' = done
        BY <2>5, <3>3, ReturnFacts
      <4>. QED
        BY <2>1, <2>2, <2>5, <3>3, <4>1
    <3>. QED
      BY <2>3, <3>1, <3>2, <3>3
  <2>. QED
    BY <2>1, <2>4, <2>5
<1>7. CASE FlashRun
  <2>1. /\ pc = "f_flash" /\ UNCHANGED <<root, cli, reqs, runs>>
        /\ pc' = "idle" /\ caller' = NoRun
        /\ done' \in {[run |-> caller, code |-> c] : c \in {0, 1}}
    BY <1>7 DEF FlashRun, Exit, install
  <2>. QED
    BY <2>1
<1>8. CASE UpdatePlatform
  <2>1. /\ pc = "u_platform" /\ UNCHANGED <<root, cli, reqs, runs>>
        /\ pc' = "idle" /\ caller' = NoRun
        /\ done' \in {[run |-> caller, code |-> c] : c \in {0, 1}}
    BY <1>8 DEF UpdatePlatform, Exit, install
  <2>. QED
    BY <2>1
<1>9. CASE Interrupt
  <2>1. /\ pc # "idle" /\ UNCHANGED <<root, cli, reqs, runs>>
        /\ pc' = "idle" /\ caller' = NoRun /\ done' = [run |-> caller, code |-> 130]
    BY <1>9 DEF Interrupt, Exit, install
  <2>. QED
    BY <2>1
<1>10. CASE UNCHANGED vars
  BY <1>10 DEF vars
<1>11. QED
  BY <1>1, <1>2, <1>3, <1>4, <1>5, <1>6, <1>7, <1>8, <1>9, <1>10 DEF Next

(* Every reachable state of any sequence of tos.py flash and update runs *)
(* is well typed: tyutool_cli exists only inside its checkout, and every  *)
(* run exits with 0, 1 or 130.                                             *)
THEOREM InstallTypeCorrect == Spec => []TypeOK
<1>1. Init => IInv
  BY InitIInv
<1>2. IInv /\ [Next]_vars => IInv'
  BY NextIInv
<1>3. IInv => TypeOK
  BY DEF IInv
<1>. QED
  BY <1>1, <1>2, <1>3, PTL DEF Spec

(* update_tyutool(True) removes the checkout before download_tyutool, so *)
(* `tos.py update -t` exits 0 only with tyutool_cli and its packages      *)
(* installed, after any earlier failures and interruptions.               *)
THEOREM UpdateRepairsHolds == Spec => []UpdateRepairs
<1>1. Init => IInv
  BY InitIInv
<1>2. IInv /\ [Next]_vars => IInv'
  BY NextIInv
<1>3. IInv => UpdateRepairs
  BY DEF IInv
<1>. QED
  BY <1>1, <1>2, <1>3, PTL DEF Spec
=============================================================================
