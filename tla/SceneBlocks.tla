----------------------------- MODULE SceneBlocks -----------------------------
(***************************************************************************)
(* A Project as a list of lines (core/project.py, core/route_operations.py *)
(* and the line operations of app.py).  A Scene is a separator line and    *)
(* the lines up to the next separator.                                     *)
(*                                                                         *)
(* A line keeps two positions: its place in the list and its ix            *)
(* (current_index), the key of the displayed order.  Images are numbers,   *)
(* 0 is no image; a candidate is an image and whether it is trashed.       *)
(***************************************************************************)
EXTENDS Naturals, Sequences, FiniteSets, TLC, SequencesExt, FiniteSetsExt

NoImage == 0
Kinds == {"scene", "image", "bench"}

NewLine(i, kind) ==
  [id |-> i, kind |-> kind, del |-> FALSE, ix |-> 0, of |-> 0, base |-> NoImage,
   sel |-> NoImage, pool |-> <<>>, vars |-> <<>>, born |-> <<>>]

Ids(s) == {s[k].id : k \in DOMAIN s}
Place(s, i) == CHOOSE k \in DOMAIN s : s[k].id = i
Line(s, i) == s[Place(s, i)]
IsScene(l) == l.kind = "scene"
IsTarget(l) == ~l.del /\ l.kind = "image"
Reindexed(s) == [k \in DOMAIN s |-> [s[k] EXCEPT !.ix = k - 1]]
InsertedAfter(s, k, new) == SubSeq(s, 1, k) \o new \o SubSeq(s, k + 1, Len(s))

-----------------------------------------------------------------------------
(* Scenes. *)

(* The last place of the Scene that starts at place k: deleted separators  *)
(* bound it too.                                                           *)
BlockEnd(s, k) ==
  Min({Len(s)} \cup {m - 1 : m \in {n \in k + 1 .. Len(s) : IsScene(s[n])}})

Block(s, h) == LET k == Place(s, h) IN SubSeq(s, k, BlockEnd(s, k))

Valid(s, h) == h \in Ids(s) /\ IsScene(Line(s, h)) /\ ~Line(s, h).del

Scenes(s) == {h \in Ids(s) : Valid(s, h)}

(* The normal illustrations of the Scene, as its block holds them. *)
BlockTargets(s, h) == {l.id : l \in {m \in ToSet(Block(s, h)) : IsTarget(m)}}

(* Another reading of the same Scene: only live lines are looked at, so a  *)
(* deleted separator bounds nothing.                                       *)
LiveTargets(s, h) ==
  LET live == SelectSeq(s, LAMBDA l : ~l.del)
  IN  IF h \in Ids(live) THEN BlockTargets(live, h) ELSE {}

(* The starts of the two neighbouring blocks a move exchanges. *)
UpperStart(s, h, dir) ==
  LET k == Place(s, h)
      before == {n \in 1 .. k - 1 : IsScene(s[n])}
  IN  IF dir = "down" THEN k ELSE IF before = {} THEN 0 ELSE Max(before)

LowerStart(s, h, dir) ==
  LET k == Place(s, h) IN IF dir = "up" THEN k ELSE BlockEnd(s, k) + 1

CanMove(s, h, dir) ==
  /\ Valid(s, h)
  /\ LET a == UpperStart(s, h, dir)  b == LowerStart(s, h, dir)
     IN  a > 0 /\ b <= Len(s) /\ ~s[a].del /\ ~s[b].del

(* Faulty variant: the lower block loses its last line to the upper one. *)
MovedShort(s, h, dir) ==
  LET a == UpperStart(s, h, dir)  b == LowerStart(s, h, dir)
      e == Max({b, BlockEnd(s, b) - 1})
  IN  Reindexed(SubSeq(s, 1, a - 1) \o SubSeq(s, b, e) \o SubSeq(s, a, b - 1)
                \o SubSeq(s, e + 1, Len(s)))

Moved(s, h, dir) ==
  LET a == UpperStart(s, h, dir)  b == LowerStart(s, h, dir)  e == BlockEnd(s, b)
  IN  Reindexed(SubSeq(s, 1, a - 1) \o SubSeq(s, b, e) \o SubSeq(s, a, b - 1)
                \o SubSeq(s, e + 1, Len(s)))

Main(l) == IF l.sel # NoImage THEN l.sel ELSE l.base

CanDuplicate(s, h) ==
  /\ Valid(s, h)
  /\ \A l \in ToSet(Block(s, h)) : l.kind = "bench" => l.of \in Ids(Block(s, h))

(* A copy that starts over from the current main images, under new ids. *)
Copy(block, first) ==
  LET fresh(i) == first + Place(block, i) - 1
  IN  [k \in DOMAIN block |->
        [block[k] EXCEPT !.id = first + k - 1, !.base = Main(block[k]), !.sel = NoImage,
                         !.pool = <<>>, !.vars = <<>>,
                         !.of = IF block[k].kind = "bench" THEN fresh(@) ELSE @]]

Duplicated(s, h, first) ==
  Reindexed(InsertedAfter(s, BlockEnd(s, Place(s, h)), Copy(Block(s, h), first)))

-----------------------------------------------------------------------------
(* Lines. *)

(* The displayed lines: live ones by their index, ties in list order. *)
Visible(s) ==
  LET live == SelectSeq([k \in DOMAIN s |-> k], LAMBDA k : ~s[k].del)
      sooner(a, b) == s[a].ix < s[b].ix \/ (s[a].ix = s[b].ix /\ a < b)
      order == SortSeq(live, sooner)
  IN  [n \in DOMAIN order |-> s[order[n]]]

Shown(s, i) == \E k \in DOMAIN s : s[k].id = i /\ ~s[k].del

Towards(s, i, dir) == LET n == Place(Visible(s), i) IN IF dir = "up" THEN n - 1 ELSE n + 1

CanMoveLine(s, i, dir) == Shown(s, i) /\ Towards(s, i, dir) \in DOMAIN Visible(s)

(* The displayed lines are renumbered; deleted lines keep place and index. *)
LineMoved(s, i, dir) ==
  LET v == Visible(s)
      n == Place(v, i)
      m == Towards(s, i, dir)
      w == Reindexed([v EXCEPT ![n] = v[m], ![m] = v[n]])
      rank(k) == Cardinality({j \in 1 .. k : ~s[j].del})
  IN  [k \in DOMAIN s |-> IF s[k].del THEN s[k] ELSE w[rank(k)]]

(* The chosen lines go behind line t, deleted lines to the end. *)
MovedAfter(s, chosen, t) ==
  LET live == SelectSeq(s, LAMBDA l : ~l.del)
      picked == SelectSeq(live, LAMBDA l : l.id \in chosen)
      others == SelectSeq(live, LAMBDA l : l.id \notin chosen)
  IN  Reindexed(InsertedAfter(others, Place(others, t), picked)
                \o SelectSeq(s, LAMBDA l : l.del))

AfterLast(s) == Max({0} \cup {k \in DOMAIN s : ~s[k].del})

(* Before the next live separator after the line, or its source line if it *)
(* is a workbench.                                                         *)
SceneTail(s, i) ==
  LET anchor == IF Line(s, i).kind = "bench" /\ Line(s, i).of \in Ids(s) THEN Line(s, i).of ELSE i
      next == {k \in Place(s, anchor) + 1 .. Len(s) : IsScene(s[k]) /\ ~s[k].del}
  IN  IF next = {} THEN AfterLast(s) ELSE Min(next) - 1

Slot(s, i, where) ==
  CASE where = "after" -> Place(s, i) [] where = "scene" -> SceneTail(s, i)
    [] where = "end" -> AfterLast(s)

(* The next live line after the place, or none. *)
NextLive(s, k) ==
  LET later == {m \in k + 1 .. Len(s) : ~s[m].del}
  IN  IF later = {} THEN {} ELSE {s[Min(later)]}

(* Projects are opened with a first Scene over their first illustrations,  *)
(* unless they had one.                                                    *)
TheFirstScene == <<0, 0>>

NeedsFirstScene(s) ==
  LET live == SelectSeq(s, LAMBDA l : ~l.del)
  IN  /\ \E k \in DOMAIN live : live[k].kind = "image"
      /\ ~IsScene(live[1])
      /\ \A k \in DOMAIN live : live[k].born # TheFirstScene

WithFirstScene(s, i) ==
  LET first == Min({k \in DOMAIN s : ~s[k].del})
  IN  Reindexed(InsertedAfter(s, first - 1, <<[NewLine(i, "scene") EXCEPT !.born = TheFirstScene]>>))

-----------------------------------------------------------------------------
(* Removal and restore of a Scene.  A project is its lines, the active     *)
(* removal records and, for the properties, the lines deleted one by one.  *)

Covered(r) == r.ids \ r.before

CanRemove(p, h) == Valid(p.lines, h) /\ \A r \in p.removals : r.handle # h

Removed(p, h) ==
  LET block == Block(p.lines, h)
      gone == {k \in DOMAIN p.lines : p.lines[k].id \in Ids(block)}
  IN  [p EXCEPT
        !.lines = [k \in DOMAIN @ |-> IF k \in gone THEN [@[k] EXCEPT !.del = TRUE] ELSE @[k]],
        !.removals = @ \cup {[handle |-> h, ids |-> Ids(block),
                              before |-> {l.id : l \in {m \in ToSet(block) : m.del}}]}]

(* Faulty variant: every line of the record comes back. *)
RestoredAll(p, r) ==
  [p EXCEPT !.lines = [k \in DOMAIN @ |-> IF @[k].id \in r.ids THEN [@[k] EXCEPT !.del = FALSE] ELSE @[k]],
            !.removals = @ \ {r}, !.own = @ \ Covered(r)]

(* Only what the removal deleted comes back; no index is renewed. *)
Restored(p, r) ==
  [p EXCEPT !.lines = [k \in DOMAIN @ |-> IF @[k].id \in Covered(r) THEN [@[k] EXCEPT !.del = FALSE] ELSE @[k]],
            !.removals = @ \ {r}, !.own = @ \ Covered(r)]
=============================================================================
