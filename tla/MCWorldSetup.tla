---------------------------- MODULE MCWorldSetup ----------------------------
(***************************************************************************)
(* A small instance of WorldSetup: scripts with walls that force detours,  *)
(* a boss inside a wall, rectangles that overlap and stick out of the      *)
(* world, more NPCs than there are ids, and fewer; a script that fails;     *)
(* files of both versions, one of them cut off.                     *)
(***************************************************************************)
EXTENDS WorldSetup

Rect(x, y, w, h, t) == [x |-> x, y |-> y, w |-> w, h |-> h, t |-> t]
Group(x, y, range, count, type) ==
    [x |-> x, y |-> y, range |-> range, count |-> count, npc_type |-> type]
Script(obstacles, groups) == [ok |-> TRUE, obstacles |-> obstacles, groups |-> groups]

MCScripts ==
    { Script(<<Rect(1, 0, 1, 1, 1), Rect(3, 2, 1, 1, 1)>>, <<Group(0, 0, 0, 1, 1)>>),
      \* a wall with a gap at the bottom, and one sticking out on the left
      Script(<<Rect(2, -1, 1, 3, 0), Rect(-2, 2, 3, 1, 1)>>, <<Group(4, 1, 0, 1, 1)>>),
      \* a pocket that opens to the left
      Script(<<Rect(1, 1, 3, 1, 0), Rect(3, 1, 1, 5, 2)>>,
             <<Group(9, 2, 1, 1, 1), Group(2, 2, 0, 5, 2)>>),
      [ok |-> FALSE, obstacles |-> <<>>, groups |-> <<>>] }

MCFiles ==
    { [magic |-> "OBS1", n |-> 1, vals |-> <<Rect(0, 0, 5, 1, 0)>>],
      [magic |-> "OBS2", n |-> 2, vals |-> <<Rect(4, 2, 1, 1, 1)>>] }
MCGarbage == {Rect(0, 0, 0, 0, 0), Rect(1, 1, 9, 9, 2)}
MCBoss == <<<<2, 1>>>>
=============================================================================
