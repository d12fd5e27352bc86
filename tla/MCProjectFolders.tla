--------------------------- MODULE MCProjectFolders ---------------------------
(* Two Scenes of one Line each.  The first Project refers to images outside *)
(* its candidates/, one of them from both Lines; the second has brought its *)
(* images in and generated/ still holds what they were copied from.         *)
EXTENDS ProjectFolders

Two == <<1, 2>>
G1 == Generated(1)
G2 == Generated(2)
O1 == Outside(1)
C1 == Copy(1, 1, 0)
C2 == Copy(2, 2, 0)

Outer ==
  [main |-> <<G1, O1>>, cands |-> <<<<G1, G1>>, <<O1>>>>, vars |-> <<<<>>, <<G1, O1>>>>,
   origin |-> <<NoPath, G1>>, trash |-> {}, text |-> 0]
Inner ==
  [main |-> <<C1, C2>>, cands |-> <<<<C1>>, <<C2>>>>, vars |-> <<<<>>, <<>>>>,
   origin |-> <<NoPath, C1>>, trash |-> {}, text |-> 0]
Projects == {Outer, Inner}

Holding(here) == [p \in Paths |-> IF p \in here THEN 1 ELSE Gone]
Disks == {Holding({G1, G2, O1, C1, C2})}

One == [NoTree EXCEPT !.lines = {1}, !.scenes = {1}, !.images = [@ EXCEPT ![1] = 1], !.json = TRUE]
Trees == {Absent, One}

Work ==
  {[does |-> {"fork", "files", "edit", "trash"}, changes |-> 1],
   [does |-> {"append", "files", "elsewhere", "fork edit"}, changes |-> 1],
   [does |-> {"append", "trash"}, changes |-> 1],
   [does |-> {"assets", "files", "edit", "trash"}, changes |-> 2],
   [does |-> {"cleanup", "files", "elsewhere"}, changes |-> 2],
   [does |-> {"assets", "cleanup"}, changes |-> 0]}
=============================================================================
