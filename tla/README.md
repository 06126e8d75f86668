# TLA+ models of TuyaOpen's Python tools

This directory holds TLA+ models of the Python code in this repository.
It has TLC configurations that check the models on small instances,
and TLAPS proofs of the central properties of the ditherer for every
instance. The main subject is the video dithering converter,
`src/apps/tuya_t5_pocket/tools/ditter-converter/dittering.py`, which
`spec.md` describes. Two parts of the `tos.py` command-line tools
under `src/tools/` are modelled as well: the scaffolding of
`tos.py new`, and the tyutool install of `tos.py flash` and
`tos.py update`. Both are modelled across repeated runs. The format
checker `src/tools/check_format.py` is modelled too, and its exit
status is proved correct for every input.

## 1. The system

### 1.1 The converter (`dittering.py`, class `DitheringConverter`)

`process_video` (lines 474-573) runs its stages once, in this order:

1. `load_video` returns a list of frames. An empty list makes the call
   `return False`.
2. The **temporal trimmer** `_cut_duration` (432-451) runs if a start or
   end time is given. It slices the list to
   `[int(start*fps), int(end*fps))`, with clamps that keep at least one
   frame.
3. The **frame sampler** `_reduce_frames` (416-430) runs if
   `max_frames` is given and exceeded. It picks the frames
   `int(i * len/max_frames)` for `i` in `range(max_frames)`.
4. A loop then handles each frame in turn:
   - `resize_frame` (93-114) is the **geometry normalizer**. It cuts a
     centre crop at the target ratio, then calls `cv2.resize` to
     W x H.
   - `to_grayscale` converts the frame to gray.
   - The **tone adjuster** applies `filter_color_range` (160-179) when
     a bound is given, then `adjust_exposure` (142-158) when
     exposure != 0, then `invert_frame` (124-140) when invert is set.
   - `dither_frame` (453-472) dispatches over eight algorithms and
     raises `ValueError` on an unknown name. Five of the algorithms are
     error-diffusion scans (181-349). Ordered, threshold and random
     dithering compare each pixel independently (206-228, 351-360).
5. The save writes the first frame as a PNG, or all frames as a GIF
   with `duration = 1000 // fps`. Exceptions inside the save are caught
   and turned into `return False`. Exceptions from the earlier stages
   escape `process_video`.

The program is sequential and single-threaded. It has no concurrency,
no messages and no persistence. The hard parts are:

- the in-place accumulator of the diffusion scans, which must only
  ever be written ahead of the cursor;
- float and uint8 arithmetic at its edges: `int()` of float products,
  uint8 wraparound, divisions by zero and empty crops;
- the order of the early returns and exceptions.

### 1.2 The `tos.py` tools (`src/tools/`)

- `cli_command/cli_new.py` scaffolds a platform, board or project. It
  keeps up to 99 `_bak_<i>` backups of a directory it replaces. It
  edits the `Kconfig` files that list the boards: it inserts a block
  before a marker line, or appends a `choice` block that contains the
  marker.
- `cli_command/util_files.py` holds the file primitives that the other
  tools use (`rm_rf`, `copy_directory`, `replace_string_in_file`...).
- `cli_command/cli_flash.py` flashes the firmware, which needs the
  `tyutool` tool. `download_tyutool` installs it with `rm_rf`, then
  `git clone`, then `pip install`.
- `cli_command/cli_update.py` reinstalls tyutool and checks out the
  pinned commit of each platform.
- `check_format.py` lists the changed C/C++ files (the PR's git diff,
  or the `--files`/`--dir` arguments in debug mode). It runs three
  loops over the list: clang-format, a CJK-character scan and a
  header check. Its exit status is 1 if any loop reported a file.
- `porting/template/build_example.py` is a cmake driver that copies
  the built binary to `<name>_QIO_<ver>.bin`, which `cli_flash` looks
  for.

These steps interact through the file system, across separate runs of
the tool. Their hazards are a run interrupted between two steps, a
check that does not match what was written, and a bounded slot search.

## 2. Modules

| module | models | state / operators |
|---|---|---|
| `Dither` | the five error-diffusion kernels (181-349) | `result` (the float accumulator, scaled, over the frame plus a margin), the cursor `y, x`, the output `out`; `Step` = one loop iteration, `Finish` = `result.astype(np.uint8)` |
| `DitherSpec` | what the diffusion kernels promise (spec 4.5 and 8), written from the spec | `img`, `quantised`, `out`; `Quantise(p)` sets one unquantised pixel to black or white and keeps the quantised ones, `Return` returns the frame once all are quantised |
| `DitherProofs` | TLAPS proofs about `Dither` | |
| `ToolInstallProofs` | TLAPS proofs about `ToolInstall` | the inductive invariant `IInv` and its conjuncts |
| `ToneProofs` | TLAPS proofs about `Tone` | `OInv`: `ToneOrder` with the frame still `gray` before the range stage; `DInv`: the dither stage's output is `dither_frame` of the final frame; `BayerPos`, the inverse of the Bayer matrix |
| `PipelineProofs` | TLAPS proofs about `Pipeline`, `Frames` and `Geometry` | the arithmetic of `int()` and floor division, the crop lemma, the inductive invariants `TInv` and `OInv` |
| `ProcessVideoSpec` | what `process_video` promises its caller (spec 2, 3, 6 and 7), written from the spec | `cfg`, `loaded`, `outcome`, `saved`; one action, `Finish`: the call returns, with `Valid` output written on True and nothing written otherwise |
| `PipelineRefinement` | the TLAPS proof that `Pipeline` implements `ProcessVideoSpec` | the inductive invariant `RInv`; `Provenance`, `SampleBound`, `WithinBudget` |
| `PyFloat` | `int()` of a float product of small integers (425, 443, 447, 103, 108) | `IntOf(a, b)`, `PyMin`, `PyMax` |
| `Frames` | `_cut_duration`, `_reduce_frames` | `CutDuration`: the set of sequences `_cut_duration` can return; `FrameIndex`, `SampleOver`, `ReduceRaises`: the parts of one iteration of `_reduce_frames` |
| `Geometry` | the crop of `resize_frame` | `Crops(h, w, W, H)`: the boxes it can cut; `ResizeRaises` |
| `Pipeline` | `process_video` and the loop of `_reduce_frames` | `pc`, `frames`, the loop cursor `i`, `processed`, `saved`, `outcome` (return value or exception), the sampler's `ri` and `reduced`; one action per stage and early return, `Sample` per iteration of `_reduce_frames`, `SampleEnd` for its return |
| `Tone` | the tone stages (517-529 and their helpers), then `dither_frame` with `threshold_dither`, `ordered_dither` or `random_dither` (531-532, 206-229, 351-360) | a two-pixel `frame` of `<<y, x>>` positions, the options (with the algorithm), and `dithered`; one action per stage |
| `Scaffold` | `cli_new.py`: `new_platform_exec`, `new_board_exec`, `new_project_exec` | directory versions and their `_bak_<i>` slots, `boards/Kconfig` entries, each platform's board Kconfig as a sequence of lines, board directories, `default.config`; one action per step of a command (`PlatStart`, `PlatCreate`, `PlatConfig`, `PlatPort`, `PlatBoard`, `BoardStart`, `BoardKconfig`, `BoardCopy`, `NewProject`), plus `Interrupt` |
| `ToolInstall` | `cli_flash.py` and `cli_update.py` around `download_tyutool` | `root`, `cli`, `reqs` (checkout, script, installed packages), the step `pc`, the run `caller`, the last exit `done`; one action per step (`DlCheck`, `DlRm`, `DlClone`, `DlPip`, `FlashRun`, `UpdatePlatform`), plus `Interrupt` |
| `FormatCheck` | `check_format.py`: `main` and `FormatChecker.check_format` | the arguments and machine state (`debug`, `argsGiven`, `disk`, `gitFound`, `gitOk`, `clangOk`, `year`), the list `files`, the loop `pc` and cursor `k`, the three error lists `flagged`, `exitCode`; `Start` (validation, clang probe, listing), `Check` (one loop iteration), `LoopEnd` (next loop, or the summary) |
| `FormatCheckProofs` | TLAPS proofs about `FormatCheck` | the inductive invariant `FInv`; `Scanned` and `FlagsUpTo` |
| `ScaffoldProofs` | TLAPS proofs about `Scaffold` | the inductive invariant `SInv`; `WellFormed`, and the lemmas on `AddBoard`; `KeepStep`, and the lemmas on the slot search |
| `MC_Dither`, `MC_Pipeline`, `MC_Tone`, `MC_Scaffold` | the TLC instances | |

### How the models follow the code

- **Dither.** A `Step` is one iteration of `for y: for x:`. It
  quantises `result[y, x]` at `> 127`, adds `error * n / d` to each
  kernel offset, then advances the cursor. The five kernels are one
  table `Kernel(a)` of `<<dy, dx, n>>` entries with a denominator
  `Den(a)`. Atkinson's "error / 8 added to each neighbour" is the same
  as `n = 1, d = 8`.
  - The code skips writes that fall outside the frame. The model writes
    them to a two-pixel margin of the canvas instead, which is never
    scanned or output. This does not change the frame, and it gives the
    accounting property a ledger of the dropped error.
  - The float accumulator is an integer scaled by `Scale`. Four kernels
    have power-of-two denominators, so every share is exact at scale
    2^19 on a 2 x 3 frame, just as in float64. Stucki's /42 is rounded
    differently from float64. None of the binary-output properties
    depends on the rounding.
- **PyFloat.** `int(x)` of such products truncates the exact rational,
  except that an exact integer k > 0 may come out as k - 1. Python
  confirms this for every case below:
  - `int(i * (n/m))` for n < 600;
  - `int(t * fps)` for two-decimal times and fps up to 60;
  - `int(h * (W/H))` and `int(w / (W/H))` for W, H < 40.

  Which of the two values occurs depends on the operands' bits, so the
  model leaves it open. One example: `int((3/47)*47) = 2`.
- **Frames, Geometry.** `CutDuration` and `Crops` are the sets of
  results their Python functions can return, with the clamps and the
  slice clipping as written. `_reduce_frames` is a loop, so
  `Pipeline` runs it one iteration per `Sample` step. Each step
  appends `frames[frame_index]` under the `frame_index < len` guard.
- **Pipeline.** Each early `return False` and each exception is an
  outcome of its own. The `try` blocks of the save catch `IndexError`
  on an empty list and the `ZeroDivisionError` of `1000 // 0`. Those
  become `"fail"`. The other exceptions escape: `ZeroDivisionError`
  from the cut's progress line, from the sampler, or from
  `resize_frame`'s `target_width / target_height` with `--height 0`
  (line 98); and, per frame, `cv2.error` from an empty crop,
  `OverflowError` from `2.0 ** exposure` for an exposure of 1024 or
  more (line 153), and `ValueError` from an unknown algorithm.
  `ProcessFrame` raises them in the order the code reaches them.
- **Tone.** `filter_color_range` wraps `v - min` modulo 256, as uint8
  subtraction does. For every uint8 operand, the float
  `((v - lo) / r) * 255` truncates to exactly `a * 255 \div r`; this
  was checked exhaustively, so the model uses integer division.
  Exposure is modelled for whole values below 1024, where `v * 2.0 ** e`
  is exact; from 1024 on the power overflows, which `Pipeline` models.
  A negative exposure divides by `2 ** -e`, and `np.clip` bounds the
  result in both directions.
  `DitherStage` applies one of the point-wise ditherers to the tone
  stages' result, as `dither_frame` does. `ordered_dither`'s float
  comparison `v / 255.0 > b / 64` is exact, so it becomes
  `64 * v > 255 * b`: `b / 64` is a dyadic, and the two sides differ
  by at least 1/16320 unless both are 0. `random_dither`'s noise is a
  free choice in 0..63 for each pixel. The diffusion kernels are the
  `Dither` module.
- **Scaffold.** The file system is the state, and it persists from
  one `tos.py` run to the next. A run is a sequence of steps: one
  action per function the command calls, in the command's order. The
  run ends on each `sys.exit`. When `Interrupts` holds, the run can
  also stop between any two steps.
  - A directory's content is a version number.
  - The backup loop is `BakSlot`: the first free slot in
    `1..BakSlots`, else the last slot. `BakSlots` is the code's 99.
  - The platform names are sequences over `a`, `b`, `-` and `_`, so
    that `upper().replace('-', '_')` is modelled by what it does.
  - Kconfig lines are records: the header that
    `create_new_board_path` writes, `choice`, `endchoice`, the marker,
    and one entry per board.
  - `check_text_in_file` is `HasMarker`. `replace_string_in_file`
    replaces every occurrence of the marker. `AddBoard` states this in
    closed form: line `i` moves to `Shift(f, i)`, which is `i` plus the
    number of markers at or before `i`, and every gap is filled by the
    new entry. `MC_Scaffold`'s `ASSUME AddBoardIsReplace` checks this
    form against a fold that follows the code line by line
    (`ReplaceFold`), for every Kconfig of up to 5 lines. TLC evaluates
    it on every `scaffold` run.
  - `modify_board_kconfig`'s regex search is `PlatListed`. It searches
    for `BOARD_ENABLE_<N>`, which no entry the tool writes contains,
    so its value is FALSE.
  - The menuconfig and `kernel_porting.py` steps succeed or fail
    nondeterministically. A quit without saving fails only when no
    `default.config` exists from an earlier run.
- **ToolInstall.** `download_tyutool` is four steps:
  1. the `tyutool_cli` existence check;
  2. `rm_rf`;
  3. `git clone`, which may fail, and whose new checkout may need
     packages the environment lacks;
  4. `pip install`, which may fail.

  pip installs outside the checkout, so `rm_rf` keeps `reqs`. The
  result `download_tyutool` returns goes to its caller (`Return`):
  - flash runs the tool, or exits 1;
  - `update -t` exits with `exit_flag`;
  - plain `update` drops the result and runs `update_platform`.

  An interrupted run exits with status 130. `rm_rf` is taken to
  succeed.
- **FormatCheck.** A path is a model value, and `disk` gives each one
  the record of facts that the checks read. The facts are:
  - whether the path is a candidate (in the diff, or matched in debug
    mode), has a C/C++ suffix, exists, or lies under an ignore prefix;
  - whether it reads as UTF-8;
  - whether clang-format exits 0 on it and leaves it unchanged;
  - whether a line holds a CJK character;
  - its header's shape: opening, closing, `@file`, `@brief`, and the
    copyright years.

  The regular expressions are abstracted to those facts.
  - `Listed` is the set `_get_changed_files` or `_get_local_files`
    returns. It is empty when git diff fails in PR mode.
  - `ListingRaises` is when the listing raises instead: in debug mode
    a matched absolute path outside the project root makes
    `relative_to` raise `ValueError` (lines 103, 119, 128); in PR mode
    a missing git executable makes `subprocess.run` raise
    `FileNotFoundError`, which the `except CalledProcessError` of
    line 86 does not catch. `main` catches neither, so the run exits 1.
    Each file record carries an `outside` fact for the first case, and
    `gitFound` says whether git is installed.
  - `Start` picks the list as any enumeration of that set, since git
    gives the PR's order and debug mode sorts.
  - The read failures follow the `except` clauses: the format loop gets
    `("", "")`, the Chinese loop `[]`, and the header loop an error.

## 3. Runs

| run | cfg | result | shows |
|---|---|---|---|
| dither_binary | `MC_Dither.cfg` | pass, 1.08M states | `TypeOK`, `OutputBinary`, `ForwardOnly` and `ImplementsDitherSpec` for all five kernels, every 3 x 3 frame over {0, 127, 200} |
| dither_accounting | `MC_DitherAccounting.cfg` | pass, 500k states | `ErrorAccounting`: the canvas intensity changes by exactly (total - 1) x error per step, with the spec's totals 1, 1, 5/8, 7/4 |
| pipeline | `MC_Pipeline.cfg` | pass, 908k states | `TypeOK`, `FramesInOrder`, `CutKeepsFrame`, `CropFits`, `BudgetExact` over every option combination on up to 4 frames. `AllOrNothing`: output is written only when every frame was processed and the call returns True, and an exception in a later frame leaves nothing written. `ZeroDivisionExplained`: the only `ZeroDivisionError`s that escape are from fps = 0 without an end time, a budget of 0, or a target height of 0. Under `FairSpec`, `Termination`: every call ends. `EndToEnd`: a call with no trim, no budget, a known algorithm, fps > 0 and croppable frames saves one frame per loaded frame, in order. `ImplementsProcessVideo`: the caller sees one step, the return, with a valid output written or none |
| trim_full_window | `MC_PipelineTrimWindow.cfg` | violation | `TrimWholeWindow`: the trim to `len/fps` keeps only 2 of 3 frames at 47 fps |
| tone | `MC_Tone.cfg` | pass, 81k states | `TypeOK`; `ToneOrder`: the tone curve is monotone (antitone when inverted, with 0 fixed under keep-black) on samples at or above `min_value`; `BinaryFixed`: threshold, ordered and random dithering leave a black or white sample unchanged (spec 8, threshold idempotence); `OrderedCoverage`: a flat 8 x 8 tile of each sample the stage receives gets as many white pixels as there are Bayer thresholds below it |
| tone_range_spec | `MC_ToneRangeSpec.cfg` | violation | `RangeFilterSpec`: a sample below `min_value` wraps to a bright value instead of 0 |
| scaffold | `MC_Scaffold.cfg` | pass, 33k states | `TypeOK`, `KconfigWellFormed`: over any 5 runs on two platforms, with failures and interruptions, each platform's board Kconfig stays the header plus at most one `choice` block ending in the marker; `BackupsKeepVersions` (action property): while a `_bak_<i>` slot is free, no step loses a version of a platform or board directory |
| scaffold_interrupted | `MC_ScaffoldInterrupted.cfg` | violation | `BoardListedAtMostOnce`: `new board` stopped after its Kconfig edit and run again lists the board twice |
| scaffold_rerun | `MC_ScaffoldRerun.cfg` | violation | `PlatformListedOnce`: a platform update, or `a-b` after `a_b`, defines `BOARD_CHOICE_A_B` twice |
| scaffold_update | `MC_ScaffoldUpdate.cfg` | violation | `BoardsListed`: a platform update rewrites the platform's board Kconfig, and its boards drop out of the choice |
| tool_install | `MC_ToolInstall.cfg` | pass, 766 states | `TypeOK`, `UpdateRepairs`: after any 4 runs of flash and update, with every step failing or interrupted, an `update -t` that exits 0 leaves the tool usable |
| tool_install_flash | `MC_ToolInstallFlash.cfg` | violation | `ReadyMeansUsable`: after a failed pip install, the next flash skips the install and runs the tool without its packages |

Every property of a passing run has a mutant in `PROJECT.json`: a
plausible one-line bug in the mapped definition that TLC reports as a
violation of that property.

### Bounds

- **Dither, 3 x 3.** This is the smallest frame where every kernel
  offset lands both inside and outside the frame: rows +2 and columns
  -2..+2. Three levels give errors of both signs and a value on the
  threshold.
- **Accounting, 2 x 3 at scale 2^19.** Here every share is exact.
  Larger frames need more bits than TLC's 32-bit integers have.
- **Pipeline, up to 4 frames.** Budgets {None, -1, 0, 2, 3} include
  the exact float product `1 * (4/2)`. Times {0, 0.1 s, 2.5 s} put
  windows before, inside and past the end. The target is the CLI's
  default of 384 x 168. The shapes are square, wide (with an exact
  `int(7 * 384/168) = 16`), and 2 x 2, whose crop is empty. With
  shapes mixed, `cv2.error` is raised in a later frame after earlier
  frames were processed, which is the case `AllOrNothing` is about.
  Exposures {0, 1024} are the default and the first value at which
  `2.0 ** exposure` overflows. The target is one constant, so a height
  of 0 is not in this run; `ZeroDivisionExplainedHolds` and
  `AllOrNothingHolds` cover it for every target size.
- **Tone.** Samples lie on both sides of the bounds 50 and 200 and
  of the threshold. The bounds are chosen in both orders, so that the
  no-op case `min >= max` occurs. The two pixels sit at the Bayer
  thresholds 0 and 48/64. The 0 threshold is where `>` and `>=`
  differ on a black sample. `OrderedCoverage` counts over the whole
  8 x 8 tile for every sample that reaches the stage.
- **Scaffold, 5 runs, 2 backup slots, 2 platforms, 2 boards.** Every
  property's violation needs at most 4 runs:
  - a platform and two boards (the marker's two branches);
  - a platform, a board, an interrupted board and its retry;
  - a platform and two updates (the slot search falling through).

  Two slots stand for the code's 99. They are the fewest at which the
  search can stop at a free slot after one is taken. That is the case
  `BackupsKeepVersions` is about, and the case in which the
  `BakSlotNoBreak` mutant overwrites a kept version. A platform and
  three updates fill both slots and fall through.
- **ToolInstall, 4 runs.** Every failing step can be followed by a
  flash and an update of either kind.

### Fairness and deadlock

Nothing in the code waits for anything else. Every model ends when the
Python function returns or raises, or, for the `tos.py` models, when
the bound on the number of runs is reached. So the configs say
`CHECK_DEADLOCK FALSE`.

The pipeline run uses `FairSpec == Spec /\ WF_vars(Next)`.
`process_video` is one sequential call on one thread, so while it has
not returned, its next statement is enabled and it runs. Under that
fairness:
- `Termination` says that every call reaches `done`. It fails if a loop
  guard lets the cursor run past the list (mutant `LoopEndOffByOne`).
- `EndToEnd` says that a plain call ends with every frame saved. It
  fails if an early return fires on a valid input (mutant
  `StartOffByOne`).

## 4. Proofs

### `DitherProofs.tla`

The assumptions are `DimAssumption` (positive height and width),
`LevelsAssumption` (samples in 0..255), `ScaleAssumption` and
`AlgosAssumption`. The proofs hold for every frame size, level set,
kernel subset and scale.

- **`TypeCorrect`**: `Spec => []TypeOK`. It follows from `InitTypeOK`
  and `NextTypeOK`. `TypeOK` carries `y = Height => x = 0`, which the
  cursor step needs.
- **`BinaryOutput`**: `Spec => [](ScannedBinary /\ OutputBinary)`.
  `OutputBinary` alone is not inductive: the final cast is binary only
  if every scanned pixel already is. The inductive invariant is
  `IInv == TypeOK /\ ScannedBinary /\ OutputBinary`. A `Step` sets the
  cursor pixel to 0 or 255 x Scale. The lemma `ShareBehindIsZero`
  shows that it adds 0 to every pixel already scanned. That lemma rests
  on `KernelForward`: every kernel offset is forward, meaning below, or
  to the right on the same row. It also rests on `WeightFacts`: the
  weight of a non-forward offset is 0. `Finish` casts pixels that are
  all scanned, so `CastBinary` applies.
- **`ForwardOnlyHolds`**: `Spec => ForwardOnly`. It follows from the
  same lemmas and `TypeCorrect`.
- **`Refinement`**: `Spec => ImplementsDitherSpec`. `Dither` implements
  `DitherSpec` under this mapping:
  - `img` is the frame part of `result`;
  - `quantised` is the set of pixels behind the cursor, `{p : Scanned(p)}`.

  The argument:
  - Init maps to DitherSpec's Init: no pixel is scanned, and the frame
    part of `result` is `input * Scale`.
  - `StepRefines`: a `Step` is a `Quantise` of the cursor pixel.
    - `ScannedAfterStep`: the quantised set grows by exactly that pixel.
    - The pixel becomes 0 or 255 x Scale.
    - `StepKeepsScanned` (from `ShareBehindIsZero`): the quantised
      pixels keep their values.
    - `OutDone` (`out # None => y = Height`, inductive with `TypeOK`):
      no frame has been returned yet.
  - `FinishRefines`: `Finish` is `Return`. All pixels are scanned, and
    by `ScannedBinary` each holds 0 or 255 x Scale, so the uint8 cast
    gives 255 exactly where `img` is white.
  - A stutter of `Dither` is a stutter of `DitherSpec`.

### `ToolInstallProofs.tla`

The only assumption is `ToolAssumption`: `MaxRuns` is a natural number
and `Interrupts` is a Boolean. The proofs therefore hold for every
number of runs, with and without Ctrl-C between steps.

- **`InstallTypeCorrect`**: `Spec => []TypeOK`. This includes
  `cli => root` (the script is never found outside its checkout) and
  exit codes in {0, 1, 130}.
- **`UpdateRepairsHolds`**: `Spec => []UpdateRepairs`. When the last
  run was `tos.py update -t` and it exited 0, tyutool_cli and its
  packages are installed.

Neither property is inductive on its own. Both rest on
`IInv == TypeOK /\ CallerShape /\ NoCliBeforeClone /\ CliAtPip /\ UpdateRepairs`.
TLC checks `IInv` as an invariant before the proof is attempted. Each
extra conjunct is needed for the following reason:

- **`CallerShape`**: the step `pc` and the run `caller` agree. An
  `f_flash` or `u_platform` step can then never end with the record
  `update-t`/0.
- **`NoCliBeforeClone`**: `update -t` does `rm_rf(tyutool_root)` before
  `download_tyutool`, so from its existence check up to the clone there
  is no tyutool_cli. As a result, `DlCheck` cannot take the early
  `return True` for `update -t`.
- **`CliAtPip`**: the pip step comes only after a clone that wrote the
  script. The `update -t` exit 0 from pip therefore has `cli`, and pip's
  success sets `reqs`.

The lemma `ReturnFacts` states once what `Return(r)` does for each
caller. `NextIInv` has one step per action and, inside each action, one
step per caller or disjunct. Each step first states the primed values
and then proves the conjuncts.

### `PipelineProofs.tla`

The assumptions are the ones `Pipeline` declares:
- `TargetAssumption`: the target width and height are natural
  numbers. Zero is included, since argparse accepts it: a height of 0
  raises `ZeroDivisionError` and a width of 0 gives an empty crop. A
  negative size is not modelled (`cv2.resize` rejects it);
- `ExposureAssumption`: exposures are integers;
- `ShapeAssumption`: every source shape is a pair of positive sizes;
- `FpsAssumption`: the fps values are integers (0 included);
- `BudgetAssumption`: a budget is an integer (negative ones included) or `None`;
- `NoneAssumption`: `None` is not an integer;
- `TimeAssumption`: a time is a fraction with a positive denominator.

The proofs therefore hold for every target size, shape set, option set
and number of loaded frames (`MaxLoad`).

The arithmetic lemmas come first:
- `IntOfNat`: what `int(a / b)` can be for `a >= 0`. It is the
  quotient, or one less when `b` divides `a` and the float falls short.
- `SampleIndex`: each index `int(i * step)` that `_reduce_frames` takes
  lies in `0..len - 1`. It lies above `floor((i - 1) * len / max_frames)`,
  which bounds every earlier index, whichever way `int()` truncates.
- `CropsFit`: every box in `Crops` is a box of naturals that satisfies
  `CropFit`. There is one case for each branch of `resize_frame`.
- `CutWindow`: `_cut_duration` on a non-empty list returns a non-empty
  run of consecutive frames of it.

The theorems:
- **`PipelineTypeCorrect`**: `Spec => []TypeOK`.
- **`CutKeepsFrameHolds`**: `Spec => []CutKeepsFrame`.

  Both come from `TInv`, which is `TypeOK` and `CutKeepsFrame`
  strengthened with:
  - the processed records are typed, because the save copies them;
  - until the frame loop starts, `i = 1`;
  - `_reduce_frames`' loop runs only on a list longer than an integer
    budget;
  - before the cut, `frames` is the loaded list, and the cut is reached
    only with a non-empty one.

  `NextTInv` has one step per action.
- **`CropFitsHolds`**: `Spec => []CropFits`. Only the frame loop
  appends to `processed`, and `CropsFit` covers what it appends.
- **`FramesInOrderHolds`**: `Spec => []FramesInOrder`. It rests on
  `OInv`, which says:
  - `frames` is always strictly ordered by source index;
  - while the sampler runs, its list is ordered, and every frame in it
    was taken at an index no later than the last bound;
  - the k-th processed frame is the k-th frame of `frames`.

  The argument for each stage:
  - `OrderedSource`: the loaded list is ordered;
  - `OrderedWindow`: the cut keeps an ordered list ordered;
  - `OrderedAppend` with `SampleIndex`: each `Sample` step keeps the
    sample ordered.

  TLC checked `OInv` as an invariant of the `pipeline` instance before
  the proof was written.
- **`BudgetExactHolds`**: `Spec => BudgetExact`. This is the action
  property `[][BudgetStep]_vars`. It rests on `SampleCount`: while
  `_reduce_frames` runs, its list holds one frame per iteration, and
  the counter does not pass a non-negative budget. Every iteration
  appends, because `SampleIndex` keeps the index below the length. The
  loop therefore ends with exactly `max_frames` frames.
  `BudgetStepHolds` shows that each step satisfies `BudgetStep` under
  `TInv /\ SampleCount`.

- **`AllOrNothingHolds`** and **`ZeroDivisionExplainedHolds`**: these
  hold for every input. They use `TInv` together with `SaveReady`,
  which says that the save is reached only after the frame loop has
  gone over the whole list. Three lemmas carry the argument:
  - `BeforeSave`: each action before the save writes nothing and
    leaves the call running or ends it with a non-`ok` outcome.
  - `ZeroDivisionStep`: the only steps that raise `ZeroDivisionError`
    are the cut with fps = 0 and no (or a zero) end time, the
    sampler with a budget of 0, and the first frame with a target
    height of 0.
  - `CropsFit`, the lemma behind `CropFitsHolds`, needs a positive
    target height; the frame loop adds a crop only past the height
    test, so the invariants hold for a height of 0 as well.
  - `DoneFrozen`: after `done` nothing changes.

  `NextOutcome` combines them into one inductive step.

### `PipelineRefinement.tla`

- **`ProcessVideoRefinement`**: `Spec => ImplementsProcessVideo`.
  `Pipeline` implements `ProcessVideoSpec`. The mapping is the
  identity on `cfg`, `loaded`, `outcome` and `saved`, and the other
  variables are hidden.
  - Init maps to the abstract Init: the call is running and nothing is
    written.
  - `StepRefines` shows that every step is a stutter or the abstract
    `Finish`. The stages before the save (`BeforeSave`), the loop's end
    and every step after `done` (`DoneFrozen`) leave `outcome` and
    `saved` alone, or end the call with a failure and nothing written.
    The save returns False with nothing written, or True with a valid
    output.
  - `SavedValid` shows that at the save, `processed_frames` is a valid
    output. Its frames are target-sized (`TInv`). Their crops lie inside
    the source frames (`CropFits`). They are in source order (`OInv`).
    There is one per frame of `frames` (`SaveReady`), and so they are
    within the budget.

  The inductive invariant `RInv` is PipelineProofs' invariants plus
  three conjuncts:
  - `Prov`: every frame record that the cut, the sampler and the loop
    pass on is a loaded frame with its index and its shape;
  - `SampleBound`: the sampler's counter stays within the budget, or
    at 0 for a negative budget, whose `range(max_frames)` is empty;
  - `WithinBudget`: from the frame loop on, a non-empty `frames` is no
    longer than `max_frames`.

  TLC checked them on the `pipeline` instance before they were proved.

### `FormatCheckProofs.tla`

No assumption on the constants is needed. The theorems hold for every
set of paths, every set of file-fact records and every set of years.
- **`SoundHolds`**: `Spec => []Sound`. An exit status of 0 means that
  the arguments were valid and that no listed file is unreadable,
  holds a CJK character, has a bad header, or is rewritten by
  clang-format.
- **`NoFalseAlarmHolds`**: `Spec => []NoFalseAlarm`. An exit status of
  1 means invalid arguments, a missing clang-format, an exception
  out of the file listing (`ListingRaises`), or a listed file with one
  of those defects.

Both rest on `FInv`. Its central conjunct is that each loop's error
list is exactly `FlagsUpTo(ph, Scanned(ph))`: the reported files among
the first `Scanned(ph)` files of the list. `Scanned` is the cursor for
the current loop, the whole list for finished loops, and 0 for loops
not yet started. The other conjuncts are:
- the list covers `Listed` once the arguments are valid;
- the exit status is -1 exactly until `done`;
- after `done` the exit status is computed from the three lists.

The lemmas are:
- `FlagsStep`: one more file adds it to the list if it is reported;
- `FlagsFrame`: the error sets do not depend on the cursor;
- `VerdictDefect`: a file some loop reports has a defect, and a file
  no loop reports has none;
- `EnumerationSeq`: `Start`'s list is a sequence of paths with range
  `Listed`.

`NextFInv` has one step per action, and splits `Start` on its three
branches and `LoopEnd` on the phase. `FormatCheck` has no TLC run.
The file facts are unconstrained records, so the theorems cover the
instances a run would check. TLC checked `Sound` and `NoFalseAlarm`
on two paths and a reduced set of fact records while the proofs were
written.

### `ToneProofs.tla`

The assumptions used are:
- `AlgoAssumption`: the algorithm is one of the three point-wise
  ditherers.
- `PixelAssumption`: pixels are pairs of natural indices, so `y % 8`
  and `x % 8` index the Bayer matrix.
- `SampleAssumption` and `BoundAssumption`: samples and bounds are
  uint8.
- `ExposureAssumption`: exposures are whole numbers below 1024. From
  1024 on `2.0 ** exposure` raises `OverflowError` before the clip;
  `Pipeline` models that exception, and `Tone` the values that return.
- `PowerAssumption`: `2^|e|` is a positive whole number for each
  exposure. This is a fact of arithmetic, not a restriction, and TLC
  evaluates it on every tone run. The provers know `2^e` only for
  literal exponents and have no induction over `^`, so they cannot
  derive it. Every whole exposure satisfies it, so no exposure is
  excluded. `--exposure` accepts any float; its help text says -2.0
  to 2.0, but nothing enforces that. A literal range would therefore
  state less than the code allows.

- **`ToneTypeCorrect`**: `Spec => []TypeOK`. `TypeOK` is inductive as
  it stands, and each stage is handled by a lemma about the range of
  its operator:
  - `ClipRange`: `np.clip` of any integer lies in 0..255.
  - `FilterRange`: `filter_color_range` is the identity when
    `lo >= hi`. Otherwise it clips an integer quotient by `hi - lo > 0`.
  - `ExposureRange`: the gain `v * 2^e`, or the quotient
    `v \div 2^-e`, is an integer. The quotient is an integer only
    because the divisor is not 0 (`PowerAssumption`).
  - `InvertRange`: `invert_frame` maps 0..255 onto itself.

- **`ToneOrderHolds`**: `Spec => []ToneOrder`. `ToneOrder` is not
  inductive alone: the range stage needs the frame it filters to be
  `to_grayscale`'s output. `OInv` adds `stage = "range" => frame = gray`
  and `TypeOK`, and TLC checked `OInv` on the tone instance before the
  proof. The proof has one step per stage:
  - `FilterMono`: on samples at or above `lo`, the uint8 subtraction
    does not wrap, and the division by `hi - lo` keeps the order
    (`DivMono`).
  - `ExposureMono`: multiplying or dividing by a positive gain keeps
    the order.
  - `ClipMono`: `np.clip` keeps the order.
  - `InvertAnti`: `invert_frame` reverses the order, except for the
    0 that keep_black fixes.

  `ToneOrder` is written with IF/ELSE, not CASE. Its guards overlap,
  and a CASE with overlapping true guards has an unspecified value in
  TLA+, while TLC takes the first. The IF/ELSE form states what TLC
  checks.

- **`BinaryFixedHolds`**: `Spec => []BinaryFixed`. It rests on
  `DInv`: once the stages are done, `dithered` is the output of the
  chosen ditherer on the final frame. This holds because the dither
  stage is the last one and nothing changes `frame` after it.
  `BayerRange` checks the 64 matrix entries. Three lemmas then show
  that each ditherer fixes 0 and 255:
  - `ThresholdFixed`;
  - `OrderedFixed`, because every threshold is below 64/64;
  - `RandomFixed`, because noise in 0..63 keeps 0 at or below 127,
    and 255 + n clips to 255.

- **`OrderedCoverageHolds`**: `Spec => []OrderedCoverage`. The
  property holds in every state, because it is a fact about the Bayer
  matrix: the matrix holds each threshold 0..63 exactly once.
  - `BayerPos` lists the cell of each threshold.
  - `BayerPosInverse` and `BayerOnto` show that the two tables are
    inverse; each is checked case by case.
  - For any sample `v`, reading a cell's threshold is then a bijection
    from the cells ordered_dither whitens onto the thresholds below
    `v`. `a > b` is by definition `b < a`, so no type of `v` is needed.
  - `FS_Bijection` gives the equal cardinalities.

### `ScaffoldProofs.tla`

The assumptions used are `SlotAssumption` (at least one backup slot)
and `PlatNameAssumption`. The second says that a platform name is not
empty: the platform is a directory under `platforms_root`.

- **`ScaffoldTypeCorrect`** (`Spec => []TypeOK`) and
  **`KconfigWellFormedHolds`** (`Spec => []KconfigWellFormed`). Both
  rest on `SInv`, which adds three things to `TypeOK`:
  - every platform whose board directory exists has a well-formed
    board Kconfig;
  - the current step's argument is a platform name, or a platform and
    a board name;
  - while `new board` is at its Kconfig step, its platform's board
    directory exists.

  `KconfigWellFormed` alone is not inductive. `BoardKconfig` edits the
  Kconfig of the platform that `BoardStart` chose, and only the last
  two conjuncts say that this Kconfig exists and is well formed. TLC
  checked `SInv` on the `scaffold` instance first.

  The lemmas, in order:
  - `WellFormedMarkers`: a well-formed Kconfig has the marker exactly
    once, on its last line but one.
  - `AddBoardWellFormed`: `AddBoard` then keeps every line before the
    marker. It puts the new entry at the marker's place and moves the
    marker and `endchoice` down by one. From the one-marker fact,
    `Shift(f, i)` is `i` before the marker and `i + 1` from it on.
  - `NewBoardWellFormed`: the file that `create_new_board_path` writes
    is well formed once the marker is added.
  - `BackupType`: a backup writes a slot in `1..BakSlots`. When the
    slot search finds no free slot, `EXCEPT` on the last slot keeps
    the function's domain. So the type needs no lemma about `Least`.
  - `NextSInv`: one case per action. `BoardStart` is split into its
    exits and the step that goes on to the Kconfig edit.

- **`BackupsKeepVersionsHolds`** (`Spec => BackupsKeepVersions`).
  This is the action property, proved for every number of slots.
  `StepKeeps` shows that, under `SInv`, every step satisfies
  `KeepStep`, the step formula of the property. `SInv` gives the
  argument of the create steps.
  - `LeastIsMin`: `Least` of a non-empty set of naturals is its
    minimum. This follows from `WFMin` and `NatLessThanWellFounded` of
    the library's `WellFoundedInduction`. Neither takes an operator
    parameter, so the provers can apply them.
  - `BakSlotFree`: when a slot is free, the search stops at a free
    slot.
  - `BackupKeeps`: writing the old directory there keeps every
    version the copies held.
  - `HeldAfterCreate`: the same for the directory of `PlatCreate` or
    `PlatBoard`; every other directory is unchanged.

  The fall-through case, when every slot is taken, is outside the
  property, and no property covers it; section 5 records it as seen
  while modelling.

`AddBoard`'s closed form is what makes these proofs possible. The fold
over the lines uses the community modules' `RECURSIVE` definitions,
and a module that reaches them loses the SMT backend. The
`AddBoardIsReplace` assumption checks that the two forms agree on
small inputs. It does not prove this for every input, because that
would need induction over the fold.

### Only model-checked

Only TLC checks the following:

- `ErrorAccounting`, which needs sums over the canvas.
- `TrimWholeWindow`.

- `Termination` and `EndToEnd`, which are liveness properties under
  fairness.

TLAPS cannot reach three things: liveness with `ENABLED`, induction
over recursive data, and modules that contain `RECURSIVE` definitions.

## 5. Findings

See `PROJECT.json` for details.

- **uint8 wrap in the range filter** (`dittering.py:174`, code bug).
- **The trim to the full window can drop a frame** because of float
  `int()` (`:447`).
- **`modify_board_kconfig` searches for a name it never writes**:
  `BOARD_ENABLE_<N>` against `BOARD_CHOICE_<N_>`. Updating a platform
  therefore lists it twice in `boards/Kconfig`, and so do two names
  that differ only in `-` and `_` (`cli_new.py:382`).
- **An interrupted `tos.py new board`** lists the board twice when it
  is retried (`cli_new.py:550`).
- **A platform update unlists its boards**: the platform's board
  Kconfig is rewritten, while the board directories stay
  (`cli_new.py:356`).
- **A failed `pip install` is never retried**: `download_tyutool`
  trusts the existence of `tyutool_cli` (`cli_flash.py:36`).
  `tos.py update -t` repairs the install; `UpdateRepairs` shows it.

Seen while modelling, not kept as runs (each is one input a unit test
reaches directly):

- `--max-frames 0` makes the sampler raise `ZeroDivisionError` out of
  `process_video`, instead of reporting failure (`dittering.py:419`).
- Small, or very wide or tall, frames get an empty crop, and
  `cv2.resize` raises (`:108`).
- `--height 0` raises `ZeroDivisionError` in `resize_frame` (`:98`),
  and `--exposure 1024` or more raises `OverflowError` in
  `adjust_exposure` (`:153`); both escape `process_video`.
  `ZeroDivisionExplained` and `AllOrNothing` include these cases.
- In `check_format.py`, `--debug --files /abs/path` outside the
  project root raises `ValueError` (`:103`), and PR mode without git
  raises `FileNotFoundError` (`:64`): exit status 1 with nothing
  checked. `NoFalseAlarm` names these as causes.
- Sierra's weights on lines 271-279 sum to 7/4. They are not the
  Sierra-2-4A of the docstring (`:257`). `ErrorAccounting` checks the
  7/4 total the code has.
- The spec's range-filter example (125 -> ~191) is inconsistent with
  the spec's own formula: the code and the formula give 127.
- `create_new_*_path` keeps backups in `_bak_1` .. `_bak_99`. When all
  99 exist, `_bak_99` is removed and overwritten, and the directory
  saved there is lost (`cli_new.py:160`). `Backup` models this, and
  `BackupsKeepVersionsHolds` proves that nothing else loses a version.

Minor points not modelled:

- `main` defaults `--width 384 --height 168` while its help text says
  168 and 384. Spec 6 flags this as well.
- `build_example.py` tests `len(sys.argv) < 2` but reads `sys.argv[2]`.

## 6. Not modelled, and the plan

Not modelled, and not planned:

- What menuconfig, `update_platform_by_config` and
  `kernel_porting.py` write inside a platform directory. `Scaffold`
  keeps only the directory's version.
- A failing `rm_rf`, whose result no caller checks. With it,
  `update -t` would keep a broken install, just as flash does after a
  failed pip install. `UpdateRepairs` would then be violated in the
  same way `ReadyMeansUsable` is in `tool_install_flash`. No separate
  run shows it: the project's twelve runs cover one question each, and
  this would repeat the `tool_install_flash` finding on another step.
- `check_bin_file`'s stale binary: this is an exit of `FlashStart`.
  The staleness comes from `build_example.py`, which exits before its
  copies and leaves the previous build's binary in place. That script
  is not modelled.
- The exit status 0 of plain `tos.py update` after a failed reinstall
  (`cli_update.py:72`) is modelled: `UpdatePlatform` ignores the
  result. It is not stated as a property, because the next flash
  downloads the tool again.
- In `check_format.py`, a PR-mode git diff failure makes the list empty
  and the check pass. A clang-format failure on a file lets it pass the
  format loop. Both are modelled (in `Listed` and `FormatFlag`), and
  `Sound` is stated so that it excludes them. Showing them as
  violations needs a TLC run.
- The `_bak_<i>` directories that `new board` offers as platforms,
  because it lists every subdirectory of `boards/`.
- The loaders, the spec printers and `main`: these are file and console
  I/O.
- The text processing of `check_format.py` (regular expressions, the
  CJK ranges, the diff display). Only the facts those scans decide are
  modelled.
- `build_example.py`: a linear script around cmake.
- The pixel values that `cv2.resize` and `to_grayscale` produce: only
  their shapes matter to the properties.

Planned for later work, in order:

1. **Proof** of `ErrorAccounting` for `Dither`, which needs sums over
   the canvas (a fold with a closed form the provers can use).
