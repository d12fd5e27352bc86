--------------------------- MODULE MCSceneGallery ---------------------------
(* Two Scenes.  The first has an illustration with an active and a trashed *)
(* candidate and a variant, and one whose only image came from the first.  *)
(* The illustration of the second has no image yet.                        *)
EXTENDS SceneGallery

Two ==
  <<NewLine(1, "scene"),
    [NewLine(2, "image") EXCEPT !.base = 1, !.pool = <<[img |-> 2, gone |-> FALSE], [img |-> 3, gone |-> TRUE]>>,
                                !.vars = <<2>>],
    [NewLine(3, "image") EXCEPT !.sel = 3], NewLine(4, "scene"), NewLine(5, "image")>>

Busy ==
  {[does |-> {"scenes", "lines", "undo"}, edits |-> 3],
   [does |-> {"scenes", "open"}, edits |-> 3],
   [does |-> {"adopt", "images", "undo"}, edits |-> 2],
   [does |-> {"promote", "scenes", "undo"}, edits |-> 2],
   [does |-> {"branch", "images", "undo"}, edits |-> 3],
   [does |-> {"quick", "images", "undo"}, edits |-> 2],
   [does |-> {"grow", "lines", "open"}, edits |-> 2]}
=============================================================================
