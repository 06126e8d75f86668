---------------------------- MODULE MC_Scaffold ----------------------------
EXTENDS Scaffold

(* Two platform names that differ, and two that modify_board_kconfig maps *)
(* to the same BOARD_CHOICE_A_B symbol.                                    *)
MCPlatforms == {<<"a">>, <<"b">>}
MCCollide == {<<"a", "-", "b">>, <<"a", "_", "b">>}
MCOnePlatform == {<<"a">>}

SE == INSTANCE SequencesExt

(* str.replace read line by line: a left fold that copies each line and  *)
(* puts the entry before each marker.  Scaffold's closed form AddBoard    *)
(* must agree with it on every Kconfig of up to five lines, markers at    *)
(* any places and any number of them included.                            *)
ReplaceFold(f, b) ==
  SE!FoldLeft(LAMBDA acc, l : IF l = Line("marker")
                              THEN acc \o <<Entry(b), Line("marker")>>
                              ELSE Append(acc, l), <<>>, f)

ASSUME AddBoardIsReplace ==
  \A f \in SE!BoundedSeq(Lines, 5), b \in BoardNames : AddBoard(f, b) = ReplaceFold(f, b)
=============================================================================
