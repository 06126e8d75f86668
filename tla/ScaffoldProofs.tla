--------------------------- MODULE ScaffoldProofs ---------------------------
(***************************************************************************)
(* Proofs about `tos.py new` (Scaffold) for every set of platform and     *)
(* board names, every number of backup slots and every bound on the runs, *)
(* with or without interruptions: the tree keeps its types, and every     *)
(* platform's board Kconfig stays the header and at most one choice block *)
(* that ends in the marker.                                               *)
(*                                                                         *)
(* The argument is the inductive invariant SInv.  A board run reaches its  *)
(* Kconfig edit only for a platform whose board directory exists, and the *)
(* edit keeps the shape: on a well-formed Kconfig the marker is the one   *)
(* before last and occurs once, so replacing it inserts a single entry    *)
(* before it (AddBoardWellFormed); without a marker the Kconfig is the    *)
(* bare header, and the appended choice block gives the shape             *)
(* (NewBoardWellFormed).                                                   *)
(***************************************************************************)
EXTENDS Scaffold, FiniteSetTheorems, SequenceTheorems, WellFoundedInduction, TLAPS

(* The shape KconfigWellFormed asks of one board Kconfig.                 *)
WellFormed(f) ==
  /\ Len(f) >= 1 /\ f[1] = Line("header")
  /\ Len(f) > 1 =>
       /\ Len(f) >= 4 /\ f[2] = Line("choice")
       /\ f[Len(f) - 1] = Line("marker") /\ f[Len(f)] = Line("endchoice")
       /\ \A k \in 3..Len(f) - 2 : IsEntry(f[k])

SInv ==
  /\ TypeOK
  /\ \A n \in PlatNames : boardRoot[n] # 0 => WellFormed(platKconfig[n])
  /\ pc \in {"p_create", "p_config", "p_port", "p_board"} => arg \in PlatNames
  /\ pc \in {"b_kconfig", "b_copy"} => arg \in PlatNames \X BoardNames
  /\ pc = "b_kconfig" => boardRoot[arg[1]] # 0

-----------------------------------------------------------------------------
(* The markers of a Kconfig are finitely many, and fewer than its lines.  *)
LEMMA MarkersFinite ==
  ASSUME NEW f \in Seq(Lines)
  PROVE  /\ IsFiniteSet(Markers(f))
         /\ Cardinality(Markers(f)) \in Nat
<1>1. Markers(f) \subseteq 1..Len(f)
  BY DEF Markers
<1>2. IsFiniteSet(1..Len(f))
  BY FS_Interval
<1>. QED
  BY <1>1, <1>2, FS_Subset, FS_CardinalityType

(* The replace gives a Kconfig of lines.                                  *)
LEMMA AddBoardType ==
  ASSUME NEW f \in Seq(Lines), NEW b \in BoardNames
  PROVE  AddBoard(f, b) \in Seq(Lines)
<1>1. Cardinality(Markers(f)) \in Nat
  BY MarkersFinite
<1>2. Entry(b) \in Lines
  BY DEF Lines
<1>3. ASSUME NEW k \in 1..Len(f) + Cardinality(Markers(f)),
             \E i \in DOMAIN f : Shift(f, i) = k
      PROVE  f[CHOOSE i \in DOMAIN f : Shift(f, i) = k] \in Lines
  BY <1>3
<1>. QED
  BY <1>1, <1>2, <1>3 DEF AddBoard

(* The four fixed lines differ from each other and from every entry.    *)
LEMMA LineKinds ==
  /\ Line("header") # Line("marker") /\ Line("choice") # Line("marker")
  /\ Line("endchoice") # Line("marker")
  /\ \A l : IsEntry(l) => l # Line("marker")
<1>1. Line("header") # Line("marker") /\ Line("choice") # Line("marker")
      /\ Line("endchoice") # Line("marker")
  BY DEF Line
<1>2. ASSUME NEW l, IsEntry(l) PROVE l # Line("marker")
  <2>1. PICK b \in BoardNames : l = Entry(b)
    BY <1>2 DEF IsEntry
  <2>2. l.kind = "entry" /\ Line("marker").kind = "marker"
    BY <2>1 DEF Entry, Line
  <2>. QED
    BY <2>2
<1>. QED
  BY <1>1, <1>2

(* An entry of a board name is a line and an entry.                      *)
LEMMA EntryIsEntry ==
  ASSUME NEW b \in BoardNames
  PROVE  IsEntry(Entry(b)) /\ Entry(b) \in Lines
BY DEF IsEntry, Lines

(* On a well-formed Kconfig with a marker, the marker is the line before  *)
(* last and occurs only there.                                            *)
LEMMA WellFormedMarkers ==
  ASSUME NEW f \in Seq(Lines), WellFormed(f), HasMarker(f)
  PROVE  /\ Len(f) >= 4
         /\ Markers(f) = {Len(f) - 1}
<1>0. Len(f) \in Nat /\ DOMAIN f = 1..Len(f)
  BY LenProperties
<1>1. Len(f) > 1
  <2>1. PICK k \in DOMAIN f : f[k] = Line("marker")
    BY DEF HasMarker
  <2>2. Len(f) >= 1 /\ f[1] = Line("header")
    BY DEF WellFormed
  <2>. QED
    BY <1>0, <2>1, <2>2, LineKinds
<1>2. /\ Len(f) >= 4 /\ f[2] = Line("choice")
      /\ f[Len(f) - 1] = Line("marker") /\ f[Len(f)] = Line("endchoice")
      /\ \A k \in 3..Len(f) - 2 : IsEntry(f[k])
      /\ f[1] = Line("header")
  BY <1>1 DEF WellFormed
<1>3. ASSUME NEW k \in DOMAIN f, k # Len(f) - 1 PROVE f[k] # Line("marker")
  <2>1. CASE k \in 3..Len(f) - 2
    BY <1>2, <2>1, LineKinds
  <2>2. CASE k \in {1, 2, Len(f)}
    BY <1>2, <2>2, LineKinds
  <2>0. k \in 1..Len(f)
    BY <1>0
  <2>3. k \in 3..Len(f) - 2 \/ k \in {1, 2, Len(f)}
    BY <1>0, <1>2, <1>3, <2>0
  <2>. QED
    BY <2>1, <2>2, <2>3
<1>. QED
  BY <1>0, <1>2, <1>3 DEF Markers

(* Replacing the single marker inserts one entry before it.              *)
LEMMA AddBoardWellFormed ==
  ASSUME NEW f \in Seq(Lines), WellFormed(f), HasMarker(f), NEW b \in BoardNames
  PROVE  WellFormed(AddBoard(f, b))
<1> DEFINE L == Len(f)
           r == AddBoard(f, b)
<1>0. L \in Nat /\ DOMAIN f = 1..L
  BY LenProperties
<1>1. L >= 4 /\ Markers(f) = {L - 1}
  BY WellFormedMarkers
<1>2. Cardinality(Markers(f)) = 1
  BY <1>1, FS_Singleton
<1>3. \A i \in 1..L : Shift(f, i) = IF i < L - 1 THEN i ELSE i + 1
  <2> SUFFICES ASSUME NEW i \in 1..L
               PROVE  Shift(f, i) = IF i < L - 1 THEN i ELSE i + 1
    OBVIOUS
  <2>1. CASE i < L - 1
    <3>1. {j \in Markers(f) : j <= i} = {}
      BY <1>1, <2>1
    <3>2. Cardinality({j \in Markers(f) : j <= i}) = 0
      BY <3>1, FS_EmptySet
    <3>. QED
      BY <1>0, <2>1, <3>2 DEF Shift
  <2>2. CASE i >= L - 1
    <3>1. {j \in Markers(f) : j <= i} = {L - 1}
      BY <1>1, <2>2
    <3>2. Cardinality({j \in Markers(f) : j <= i}) = 1
      BY <3>1, FS_Singleton
    <3>. QED
      BY <1>0, <2>2, <3>2 DEF Shift
  <2>. QED
    BY <2>1, <2>2
<1>4. DOMAIN r = 1..L + 1
  BY <1>2 DEF AddBoard
<1>5. \A k \in 1..L - 2 : r[k] = f[k]
  <2> SUFFICES ASSUME NEW k \in 1..L - 2 PROVE r[k] = f[k]
    OBVIOUS
  <2>1. \A i \in DOMAIN f : Shift(f, i) = k <=> i = k
    BY <1>1, <1>3
  <2>. QED
    BY <1>2, <1>1, <2>1 DEF AddBoard
<1>6. r[L - 1] = Entry(b)
  <2>1. ~\E i \in DOMAIN f : Shift(f, i) = L - 1
    BY <1>1, <1>3
  <2>. QED
    BY <1>1, <1>2, <2>1 DEF AddBoard
<1>7. r[L] = Line("marker") /\ r[L + 1] = Line("endchoice")
  <2>1. \A i \in DOMAIN f : Shift(f, i) = L <=> i = L - 1
    BY <1>1, <1>3
  <2>2. \A i \in DOMAIN f : Shift(f, i) = L + 1 <=> i = L
    BY <1>1, <1>3
  <2>3. f[L - 1] = Line("marker") /\ f[L] = Line("endchoice")
    BY <1>1 DEF WellFormed
  <2>. QED
    BY <1>1, <1>2, <2>1, <2>2, <2>3 DEF AddBoard
<1>8. r \in Seq(Lines) /\ Len(r) = L + 1
  BY <1>4, AddBoardType
<1>9. \A k \in 3..L - 1 : IsEntry(r[k])
  <2> SUFFICES ASSUME NEW k \in 3..L - 1 PROVE IsEntry(r[k])
    OBVIOUS
  <2>1. CASE k <= L - 2
    BY <1>1, <1>5, <2>1 DEF WellFormed
  <2>2. CASE k > L - 2
    BY <1>0, <1>6, <2>2, EntryIsEntry
  <2>. QED
    BY <2>1, <2>2
<1>10. r[1] = Line("header") /\ r[2] = Line("choice")
  BY <1>1, <1>5 DEF WellFormed
<1>. QED
  BY <1>1, <1>7, <1>8, <1>9, <1>10 DEF WellFormed

(* Without a marker a well-formed Kconfig is the bare header, and the     *)
(* appended choice block makes it well formed.                            *)
LEMMA NewBoardWellFormed ==
  ASSUME NEW f \in Seq(Lines), WellFormed(f), ~HasMarker(f), NEW b \in BoardNames
  PROVE  WellFormed(NewBoardBlock(f, b)) /\ NewBoardBlock(f, b) \in Seq(Lines)
<1>0. Len(f) \in Nat /\ DOMAIN f = 1..Len(f)
  BY LenProperties
<1>1. Len(f) = 1
  <2>1. Len(f) > 1 => f[Len(f) - 1] = Line("marker")
    BY DEF WellFormed
  <2>. QED
    BY <1>0, <2>1 DEF WellFormed, HasMarker
<1>2. IsEntry(Entry(b)) /\ Entry(b) \in Lines
  BY EntryIsEntry
<1>3. <<Line("choice"), Entry(b), Line("marker"), Line("endchoice")>> \in Seq(Lines)
  BY <1>2 DEF Lines
<1> DEFINE nb == NewBoardBlock(f, b)
<1>4. /\ nb \in Seq(Lines) /\ Len(nb) = 5
      /\ \A i \in 1..5 : nb[i] = IF i <= 1 THEN f[i]
                                 ELSE <<Line("choice"), Entry(b), Line("marker"),
                                        Line("endchoice")>>[i - 1]
  BY <1>1, <1>3, ConcatProperties DEF NewBoardBlock
<1>5. f[1] = Line("header")
  BY DEF WellFormed
<1>6. nb[1] = Line("header") /\ nb[2] = Line("choice") /\ nb[3] = Entry(b)
      /\ nb[4] = Line("marker") /\ nb[5] = Line("endchoice")
  BY <1>4, <1>5
<1>. QED
  BY <1>2, <1>4, <1>6 DEF WellFormed
(* A backup writes a version into one slot of the backup function, or    *)
(* none when there is nothing to back up.                                 *)
LEMMA BackupType ==
  ASSUME NEW V, NEW bak \in [Slots -> V], NEW x \in V
  PROVE  Backup(bak, x) \in [Slots -> V]
BY DEF Backup

(* The shape of boards_root/<n>/Kconfig is what KconfigWellFormed asks.   *)
LEMMA WellFormedIsKconfig ==
  KconfigWellFormed <=> \A n \in PlatNames : boardRoot[n] # 0 => WellFormed(platKconfig[n])
BY DEF KconfigWellFormed, WellFormed

LEMMA InitSInv == Init => SInv
<1> SUFFICES ASSUME Init PROVE SInv
  OBVIOUS
<1>1. TypeOK
  BY RunAssumption DEF Init, TypeOK, Versions, Steps, Slots
<1>. QED
  BY <1>1 DEF Init, SInv

(* Every step keeps SInv.  One case per action; the file-system steps of *)
(* a platform run write a version one above every earlier one, and the    *)
(* Kconfig edit of a board run keeps the shape by the lemmas above.       *)
LEMMA NextSInv == SInv /\ [Next]_vars => SInv'
<1> SUFFICES ASSUME SInv, [Next]_vars PROVE SInv'
  OBVIOUS
<1>0. /\ TypeOK /\ ver \in Nat /\ runs \in 0..MaxRuns /\ MaxRuns \in Nat
      /\ \A n \in PlatNames : boardRoot[n] # 0 => WellFormed(platKconfig[n])
  BY RunAssumption DEF SInv, TypeOK
<1>1. ASSUME NEW n \in PlatNames, NEW yes \in BOOLEAN, PlatStart(n, yes) PROVE SInv'
  <2>1. /\ pc = "idle" /\ runs' = runs + 1 /\ runs < MaxRuns
        /\ UNCHANGED <<fsVars, ver>>
        /\ \/ UNCHANGED <<pc, arg>>
           \/ pc' = "p_create" /\ arg' = n
    BY <1>1 DEF PlatStart
  <2>2. UNCHANGED <<platDir, platBak, boardRoot, boardBak, rootKconfig, platKconfig,
                    boards, defConfig, projects, ver>>
    BY <2>1 DEF fsVars, dirVars
  <2>3. n # <<>>
    BY PlatNameAssumption
  <2>. QED
    BY <1>0, <2>1, <2>2, <2>3 DEF SInv, TypeOK, Versions, Steps
<1>2. CASE PlatCreate
  <2>1. /\ pc = "p_create" /\ arg \in PlatNames /\ pc' = "p_config" /\ ver' = ver + 1
        /\ platBak' = [platBak EXCEPT ![arg] = Backup(@, platDir[arg])]
        /\ platDir' = [platDir EXCEPT ![arg] = ver + 1]
        /\ UNCHANGED <<boardRoot, boardBak, rootKconfig, platKconfig, boards, defConfig,
                       projects, arg, runs>>
    BY <1>2 DEF PlatCreate, SInv
  <2>2. platBak[arg] \in [Slots -> 0..ver + 1] /\ platDir[arg] \in 0..ver + 1
    BY <1>0, <2>1 DEF TypeOK, Versions
  <2>3. Backup(platBak[arg], platDir[arg]) \in [Slots -> 0..ver + 1]
    BY <2>2, BackupType
  <2>4. TypeOK'
    BY <1>0, <2>1, <2>3 DEF TypeOK, Versions, Steps
  <2>. QED
    BY <1>0, <2>1, <2>4 DEF SInv
<1>3. CASE PlatConfig
  <2>1. /\ pc = "p_config" /\ arg \in PlatNames
        /\ \/ defConfig' = defConfig \cup {arg} /\ pc' = "p_port" /\ arg' = arg
           \/ defConfig' = defConfig /\ pc' = "p_port" /\ arg' = arg
           \/ defConfig' = defConfig /\ pc' = "idle" /\ arg' = <<>>
        /\ UNCHANGED <<dirVars, projects, runs, ver>>
    BY <1>3 DEF PlatConfig, EndRun, SInv
  <2>2. UNCHANGED <<platDir, platBak, boardRoot, boardBak, rootKconfig, platKconfig, boards>>
    BY <2>1 DEF dirVars
  <2>. QED
    BY <1>0, <2>1, <2>2 DEF SInv, TypeOK, Versions, Steps
<1>4. CASE PlatPort
  <2>1. /\ pc = "p_port" /\ arg \in PlatNames
        /\ \/ pc' = "p_board" /\ arg' = arg
           \/ pc' = "idle" /\ arg' = <<>>
        /\ UNCHANGED <<platDir, platBak, boardRoot, boardBak, rootKconfig, platKconfig,
                       boards, defConfig, projects, runs, ver>>
    BY <1>4 DEF PlatPort, EndRun, SInv, fsVars, dirVars
  <2>. QED
    BY <1>0, <2>1 DEF SInv, TypeOK, Versions, Steps
<1>5. CASE PlatBoard
  <2>1. /\ pc = "p_board" /\ arg \in PlatNames /\ ver' = ver + 1
        /\ boardBak' = [boardBak EXCEPT ![arg] = Backup(@, boardRoot[arg])]
        /\ boardRoot' = [boardRoot EXCEPT ![arg] = ver + 1]
        /\ platKconfig' = [platKconfig EXCEPT ![arg] = <<Line("header")>>]
        /\ rootKconfig' = Append(rootKconfig, arg)
        /\ pc' = "idle" /\ arg' = <<>>
        /\ UNCHANGED <<platDir, platBak, boards, defConfig, projects, runs>>
    BY <1>5 DEF PlatBoard, PlatListed, EndRun, SInv
  <2>2. Backup(boardBak[arg], boardRoot[arg]) \in [Slots -> 0..ver + 1]
    <3>1. boardBak[arg] \in [Slots -> 0..ver + 1] /\ boardRoot[arg] \in 0..ver + 1
      BY <1>0, <2>1 DEF TypeOK, Versions
    <3>. QED
      BY <3>1, BackupType
  <2>3. <<Line("header")>> \in Seq(Lines) /\ WellFormed(<<Line("header")>>)
    BY DEF Lines, WellFormed
  <2>4. TypeOK'
    BY <1>0, <2>1, <2>2, <2>3 DEF TypeOK, Versions, Steps
  <2>5. \A n \in PlatNames : boardRoot'[n] # 0 => WellFormed(platKconfig'[n])
    BY <1>0, <2>1, <2>3 DEF TypeOK
  <2>. QED
    BY <2>1, <2>4, <2>5 DEF SInv
<1>6. ASSUME NEW p \in PlatNames, NEW b \in BoardNames, BoardStart(p, b) PROVE SInv'
  <2>1. /\ pc = "idle" /\ runs' = runs + 1 /\ runs < MaxRuns /\ boardRoot[p] # 0
        /\ UNCHANGED <<fsVars, ver>>
        /\ \/ UNCHANGED <<pc, arg>>
           \/ pc' = "b_kconfig" /\ arg' = <<p, b>>
    BY <1>6 DEF BoardStart
  <2>2. UNCHANGED <<platDir, platBak, boardRoot, boardBak, rootKconfig, platKconfig,
                    boards, defConfig, projects, ver>>
    BY <2>1 DEF fsVars, dirVars
  <2>3. CASE UNCHANGED <<pc, arg>>
    BY <1>0, <2>1, <2>2, <2>3 DEF SInv, TypeOK, Versions, Steps
  <2>4. CASE pc' = "b_kconfig" /\ arg' = <<p, b>>
    <3>1. arg' # <<>> /\ arg' \in PlatNames \X BoardNames /\ arg'[1] = p
      BY <2>4
    <3>2. TypeOK'
      BY <1>0, <2>1, <2>2, <2>4, <3>1 DEF TypeOK, Versions, Steps
    <3>. QED
      BY <1>0, <2>1, <2>2, <2>4, <3>1, <3>2 DEF SInv
  <2>. QED
    BY <2>1, <2>3, <2>4
<1>7. CASE BoardKconfig
  <2>1. PICK p \in PlatNames, b \in BoardNames : arg = <<p, b>>
    BY <1>7 DEF BoardKconfig, SInv
  <2>2. /\ boardRoot[p] # 0 /\ pc' = "b_copy"
        /\ platKconfig' = [platKconfig EXCEPT ![p] =
                             IF HasMarker(@) THEN AddBoard(@, b) ELSE NewBoardBlock(@, b)]
        /\ UNCHANGED <<platDir, platBak, boardRoot, boardBak, rootKconfig, boards,
                       defConfig, projects, arg, runs, ver>>
    BY <1>7, <2>1 DEF BoardKconfig, SInv
  <2>3. platKconfig[p] \in Seq(Lines) /\ WellFormed(platKconfig[p])
    BY <1>0, <2>2 DEF TypeOK
  <2>4. LET g == IF HasMarker(platKconfig[p]) THEN AddBoard(platKconfig[p], b)
                 ELSE NewBoardBlock(platKconfig[p], b)
        IN  g \in Seq(Lines) /\ WellFormed(g)
    <3>1. CASE HasMarker(platKconfig[p])
      BY <2>3, <3>1, AddBoardType, AddBoardWellFormed
    <3>2. CASE ~HasMarker(platKconfig[p])
      BY <2>3, <3>2, NewBoardWellFormed
    <3>. QED
      BY <3>1, <3>2
  <2>5. TypeOK'
    BY <1>0, <2>1, <2>2, <2>4 DEF TypeOK, Versions, Steps
  <2>6. \A n \in PlatNames : boardRoot'[n] # 0 => WellFormed(platKconfig'[n])
    BY <1>0, <2>2, <2>4 DEF TypeOK
  <2>. QED
    BY <2>1, <2>2, <2>5, <2>6 DEF SInv
<1>8. CASE BoardCopy
  <2>1. /\ pc = "b_copy" /\ arg \in PlatNames \X BoardNames
        /\ boards' = [boards EXCEPT ![arg[1]] = @ \cup {arg[2]}]
        /\ pc' = "idle" /\ arg' = <<>>
        /\ UNCHANGED <<platDir, platBak, boardRoot, boardBak, rootKconfig, platKconfig,
                       defConfig, projects, runs, ver>>
    BY <1>8 DEF BoardCopy, EndRun, SInv
  <2>. QED
    BY <1>0, <2>1 DEF SInv, TypeOK, Versions, Steps
<1>9. ASSUME NEW n \in ProjectNames, NewProject(n) PROVE SInv'
  <2>1. /\ pc = "idle" /\ runs' = runs + 1 /\ runs < MaxRuns
        /\ projects' = projects \cup {n}
        /\ UNCHANGED <<platDir, platBak, boardRoot, boardBak, rootKconfig, platKconfig,
                       boards, defConfig, pc, arg, ver>>
    BY <1>9 DEF NewProject, dirVars
  <2>. QED
    BY <1>0, <2>1 DEF SInv, TypeOK, Versions, Steps
<1>10. CASE Interrupt
  <2>1. /\ pc' = "idle" /\ arg' = <<>>
        /\ UNCHANGED <<platDir, platBak, boardRoot, boardBak, rootKconfig, platKconfig,
                       boards, defConfig, projects, runs, ver>>
    BY <1>10 DEF Interrupt, EndRun, fsVars, dirVars
  <2>. QED
    BY <1>0, <2>1 DEF SInv, TypeOK, Versions, Steps
<1>11. CASE UNCHANGED vars
  BY <1>11 DEF vars, fsVars, dirVars, SInv, TypeOK, Versions, Steps
<1>. QED
  BY <1>1, <1>2, <1>3, <1>4, <1>5, <1>6, <1>7, <1>8, <1>9, <1>10, <1>11 DEF Next

(* Whatever sequence of `tos.py new platform`, `new board` and `new       *)
(* project` runs, failed steps and interruptions, the directories, the    *)
(* backups, both Kconfig files and the step of the current run keep their *)
(* types: for every set of names, number of backup slots and bound.      *)
THEOREM ScaffoldTypeCorrect == Spec => []TypeOK
<1>1. SInv => TypeOK
  BY DEF SInv
<1>. QED
  BY <1>1, InitSInv, NextSInv, PTL DEF Spec

(* Every platform's boards_root/<n>/Kconfig stays the header that         *)
(* create_new_board_path writes and at most one choice block ending in    *)
(* the new-board-add marker and endchoice, with only board entries in it: *)
(* new_board_exec's replace of the marker adds one entry in front of it,  *)
(* and its append happens only on the bare header.                        *)
THEOREM KconfigWellFormedHolds == Spec => []KconfigWellFormed
<1>1. SInv => KconfigWellFormed
  BY WellFormedIsKconfig DEF SInv
<1>. QED
  BY <1>1, InitSInv, NextSInv, PTL DEF Spec


-----------------------------------------------------------------------------
(***************************************************************************)
(* Backups.  The slot search of create_new_platform_path and             *)
(* create_new_board_path stops at the first free _bak_<i>, so a backup   *)
(* written while a slot is free overwrites nothing: the old directory     *)
(* joins the copies already kept.                                          *)
(***************************************************************************)

(* A non-empty set of naturals has a least element, and Least finds it:  *)
(* < is well founded on Nat.                                              *)
LEMMA LeastIsMin ==
  ASSUME NEW S \in SUBSET Nat, S # {}
  PROVE  Least(S) \in S /\ \A j \in S : Least(S) <= j
<1>1. \E x \in S : \A y \in S : ~(<<y, x>> \in OpToRel(<, Nat))
  BY NatLessThanWellFounded, WFMin, Zenon
<1>2. PICK x \in S : \A y \in S : ~(<<y, x>> \in OpToRel(<, Nat))
  BY <1>1
<1>3. \A y \in S : x <= y
  <2>1. TAKE y \in S
  <2>2. <<y, x>> \in Nat \X Nat
    OBVIOUS
  <2>3. ~(y < x)
    BY <1>2, <2>2 DEF OpToRel
  <2>. QED
    BY <2>3
<1>. QED
  BY <1>3 DEF Least

(* The slot the search stops at is free when one is.                       *)
LEMMA BakSlotFree ==
  ASSUME NEW b \in [Slots -> Nat], \E i \in Slots : b[i] = 0
  PROVE  BakSlot(b) \in Slots /\ b[BakSlot(b)] = 0
<1>. DEFINE free == {i \in Slots : b[i] = 0}
<1>1. free \in SUBSET Nat /\ free # {}
  BY SlotAssumption DEF Slots
<1>2. Least(free) \in free
  BY <1>1, LeastIsMin
<1>. QED
  BY <1>1, <1>2 DEF BakSlot

(* With a free slot, Backup keeps every version the directory and its     *)
(* copies held.                                                            *)
LEMMA BackupKeeps ==
  ASSUME NEW b \in [Slots -> Nat], NEW d \in Nat, \E i \in Slots : b[i] = 0
  PROVE  ({d} \cup {b[i] : i \in Slots}) \ {0} \subseteq {Backup(b, d)[i] : i \in Slots}
<1>1. CASE d = 0
  BY <1>1 DEF Backup
<1>2. CASE d # 0
  <2>1. BakSlot(b) \in Slots /\ b[BakSlot(b)] = 0
    BY BakSlotFree
  <2>2. Backup(b, d) = [b EXCEPT ![BakSlot(b)] = d]
    BY <1>2 DEF Backup
  <2>. QED
    BY <2>1, <2>2
<1>. QED
  BY <1>1, <1>2

(* The step BackupsKeepVersions asks of every step.                       *)
KeepStep ==
  \A n \in PlatNames :
    /\ (\E i \in Slots : platBak[n][i] = 0) =>
         Held(platDir, platBak, n) \subseteq Held(platDir', platBak', n)
    /\ (\E i \in Slots : boardBak[n][i] = 0) =>
         Held(boardRoot, boardBak, n) \subseteq Held(boardRoot', boardBak', n)

(* One directory's versions after create_new_*_path: Backup, then a new  *)
(* version in the directory.                                              *)
LEMMA HeldAfterCreate ==
  ASSUME NEW dir \in [PlatNames -> Nat], NEW bak \in [PlatNames -> [Slots -> Nat]],
         NEW a \in PlatNames, NEW w, NEW n \in PlatNames,
         \E i \in Slots : bak[n][i] = 0
  PROVE  LET dir2 == [dir EXCEPT ![a] = w]
             bak2 == [bak EXCEPT ![a] = Backup(@, dir[a])]
         IN  Held(dir, bak, n) \subseteq Held(dir2, bak2, n)
<1>1. CASE n = a
  <2>1. ({dir[a]} \cup {bak[a][i] : i \in Slots}) \ {0}
          \subseteq {Backup(bak[a], dir[a])[i] : i \in Slots}
    <3>1. bak[a] \in [Slots -> Nat] /\ dir[a] \in Nat /\ \E i \in Slots : bak[a][i] = 0
      BY <1>1
    <3>. QED
      BY <3>1, BackupKeeps
  <2>. QED
    BY <1>1, <2>1 DEF Held
<1>2. CASE n # a
  BY <1>2 DEF Held
<1>. QED
  BY <1>1, <1>2

LEMMA StepKeeps == SInv /\ [Next]_vars => KeepStep
<1> SUFFICES ASSUME SInv, [Next]_vars PROVE KeepStep
  OBVIOUS
<1>0. /\ platDir \in [PlatNames -> Nat] /\ boardRoot \in [PlatNames -> Nat]
      /\ platBak \in [PlatNames -> [Slots -> Nat]]
      /\ boardBak \in [PlatNames -> [Slots -> Nat]]
  BY DEF SInv, TypeOK, Versions
<1>1. CASE PlatCreate
  <2>1. /\ arg \in PlatNames
        /\ platBak' = [platBak EXCEPT ![arg] = Backup(@, platDir[arg])]
        /\ platDir' = [platDir EXCEPT ![arg] = ver + 1]
        /\ UNCHANGED <<boardRoot, boardBak>>
    BY <1>1 DEF PlatCreate, SInv
  <2>. QED
    BY <1>0, <2>1, HeldAfterCreate DEF KeepStep
<1>2. CASE PlatBoard
  <2>1. /\ arg \in PlatNames
        /\ boardBak' = [boardBak EXCEPT ![arg] = Backup(@, boardRoot[arg])]
        /\ boardRoot' = [boardRoot EXCEPT ![arg] = ver + 1]
        /\ UNCHANGED <<platDir, platBak>>
    BY <1>2 DEF PlatBoard, SInv
  <2>. QED
    BY <1>0, <2>1, HeldAfterCreate DEF KeepStep
<1>3. CASE ~PlatCreate /\ ~PlatBoard
  <2>1. UNCHANGED <<platDir, platBak, boardRoot, boardBak>>
    BY <1>3 DEF Next, vars, fsVars, dirVars, PlatStart, PlatConfig, PlatPort,
                BoardStart, BoardKconfig, BoardCopy, NewProject, Interrupt
  <2>. QED
    BY <2>1 DEF KeepStep, Held
<1>. QED
  BY <1>1, <1>2, <1>3

(* create_new_platform_path and create_new_board_path back a directory   *)
(* up before replacing it: for every number of slots, as long as one is   *)
(* free, no tos.py new step, interrupted or not, loses a version of a     *)
(* platform or board directory.                                           *)
THEOREM BackupsKeepVersionsHolds == Spec => BackupsKeepVersions
<1>1. SInv /\ [Next]_vars => [KeepStep]_vars
  BY StepKeeps
<1>. QED
  BY <1>1, InitSInv, NextSInv, PTL DEF Spec, BackupsKeepVersions, KeepStep

=============================================================================
