---------------------------- MODULE SceneGallery ----------------------------
(***************************************************************************)
(* One editing session on a Project in the Gallery (app.py and its         *)
(* lifecycles): structural edits, images and candidates, batch operations  *)
(* that are previewed and then applied, Undo, autosave and reopening.      *)
(*                                                                         *)
(* A step is one click of the user and everything the rerun does for it.   *)
(* Between a preview and its apply any other click may come.               *)
(***************************************************************************)
EXTENDS SceneBlocks

CONSTANTS
  Start,        \* the Project that is opened first
  Images,       \* images the user can add
  MaxId,        \* largest line id
  HistoryLimit, \* undo entries kept
  Failures,     \* autosaves that may fail
  Sessions      \* what a user may be doing: [does : kinds of clicks, edits : how many]

ASSUME GalleryAssumption ==
  /\ Start \in Seq([id : Nat, kind : Kinds, del : BOOLEAN, ix : Nat, of : Nat, base : Nat, sel : Nat,
                    pool : Seq([img : Nat, gone : BOOLEAN]), vars : Seq(Nat), born : Seq(Nat)])
  /\ Ids(Start) \subseteq 1 .. MaxId /\ {MaxId, HistoryLimit, Failures} \subseteq Nat
  /\ Images \subseteq Nat

VARIABLES
  project, \* lines, active removal records, and own: the lines deleted one by one
  history, \* the projects Undo goes back to
  kept,    \* candidates of each line the session remembers
  picked,  \* selected Scenes
  preview, \* the previews on screen
  disk,    \* the saved project
  desk     \* the user's session, clicks made, ids used, failed saves

vars == <<project, history, kept, picked, preview, disk, desk>>

lines == project.lines
Batches == {"adopt", "promote", "branch", "quick"}
NoPreview == [b \in Batches |-> {}]
Fresh == desk.ids + 1

Init ==
  /\ project = [lines |-> Reindexed(Start), removals |-> {}, own |-> {}]
  /\ history = <<>> /\ kept = [i \in 1 .. MaxId |-> <<>>]
  /\ picked = {} /\ preview = NoPreview /\ disk = project
  /\ desk \in [session : Sessions, edits : {0}, ids : {Max(Ids(Start))}, failed : {0}]

-----------------------------------------------------------------------------
(* What every edit does. *)

(* push_history: the oldest entry goes when there are too many. *)
Pushed == LET h == Append(history, project) IN IF Len(h) > HistoryLimit THEN Tail(h) ELSE h

(* A click of this kind is still to be made. *)
May(kind) == kind \in desk.session.does /\ desk.edits < desk.session.edits

(* The project as it is now is saved; a failure leaves the older file. *)
Save(ids) ==
  \/ disk' = project' /\ desk' = [desk EXCEPT !.edits = @ + 1, !.ids = @ + ids]
  \/ /\ desk.failed < Failures
     /\ desk' = [desk EXCEPT !.edits = @ + 1, !.ids = @ + ids, !.failed = @ + 1]
     /\ UNCHANGED disk

Edit(new, ids) ==
  /\ Cardinality(Ids(new.lines)) <= MaxId /\ desk.ids + ids <= MaxId
  /\ history' = Pushed /\ project' = new /\ Save(ids)

EditLines(new, ids) == Edit([project EXCEPT !.lines = new], ids)

(* Scenes that are gone or deleted are deselected. *)
StillThere(handles, s) == handles \cap Scenes(s)

StructureChanged(removed) ==
  /\ picked' = StillThere(picked, project'.lines) \ removed
  /\ preview' = NoPreview /\ UNCHANGED kept

-----------------------------------------------------------------------------
(* Scenes. *)

(* A refused move was not offered: nothing happens. *)
MoveScene(h, dir) ==
  /\ May("scenes") /\ CanMove(lines, h, dir)
  /\ EditLines(Moved(lines, h, dir), 0) /\ StructureChanged({})

(* The entry pushed for a refused operation is dropped again by cutting    *)
(* the list at its old length, which a full list already had.              *)
Refused ==
  /\ history' = SubSeq(Pushed, 1, Len(history))
  /\ desk' = [desk EXCEPT !.edits = @ + 1]
  /\ UNCHANGED <<project, kept, picked, preview, disk>>

RemoveScene(h) ==
  /\ May("scenes") /\ h \in Scenes(lines)
  /\ \/ /\ CanRemove(project, h)
        /\ Edit(Removed(project, h), 0) /\ StructureChanged({h})
     \/ ~CanRemove(project, h) /\ Refused

DuplicateScene(h) ==
  /\ May("scenes") /\ h \in Scenes(lines)
  /\ LET block == Block(lines, h)
         possible == CanDuplicate(lines, h) /\ \A r \in project.removals : r.handle # h
     IN  \/ /\ possible
            /\ Edit([project EXCEPT
                      !.lines = Duplicated(@, h, Fresh),
                      !.own = @ \cup {l.id : l \in {m \in ToSet(Copy(block, Fresh)) : m.del}}],
                    Len(block))
            /\ StructureChanged({})
         \/ ~possible /\ Refused

(* restore_removed_route takes its history entry only when it succeeded. *)
RestoreScene(r) ==
  /\ May("scenes")
  /\ Edit(Restored(project, r), 0) /\ StructureChanged({})

-----------------------------------------------------------------------------
(* Lines. *)

KeepView == UNCHANGED <<kept, picked, preview>>

DeleteLine(i) ==
  /\ May("lines") /\ Shown(lines, i) /\ ~IsScene(Line(lines, i))
  /\ Edit([project EXCEPT !.lines[Place(lines, i)].del = TRUE, !.own = @ \cup {i}], 0)
  /\ KeepView

(* The Trash offers every deleted line, separators and removed ones too. *)
RestoreLine(i) ==
  /\ May("lines") /\ Line(lines, i).del
  /\ Edit([project EXCEPT !.lines = Reindexed([@ EXCEPT ![Place(lines, i)].del = FALSE]),
                          !.own = @ \ {i}], 0)
  /\ KeepView

MoveLine(i, dir) ==
  /\ May("lines") /\ CanMoveLine(lines, i, dir)
  /\ EditLines(LineMoved(lines, i, dir), 0) /\ KeepView

MoveAfter(i, t) ==
  /\ May("lines") /\ i # t /\ Shown(lines, i) /\ Shown(lines, t) /\ ~IsScene(Line(lines, i))
  /\ EditLines(MovedAfter(lines, {i}, t), 0) /\ KeepView

(* The sidebar's button does not save. *)
AddPromptLine ==
  /\ May("grow")
  /\ LET v == Visible(lines)
         one == Append(lines, [NewLine(Fresh, "image") EXCEPT !.ix = 1 + Max({v[n].ix : n \in DOMAIN v})])
         two == IF NeedsFirstScene(one) THEN WithFirstScene(one, Fresh + 1) ELSE one
         ids == Len(two) - Len(lines)
     IN  /\ desk.ids + ids <= MaxId
         /\ history' = Pushed /\ project' = [project EXCEPT !.lines = two]
         /\ \/ Save(ids)
            \/ desk' = [desk EXCEPT !.edits = @ + 1, !.ids = @ + ids] /\ UNCHANGED disk
  /\ KeepView

AddSceneLast ==
  /\ May("grow")
  /\ EditLines(Reindexed(Append(lines, NewLine(Fresh, "scene"))), 1) /\ KeepView

(* Not behind a separator and not right before one. *)
AddSceneAfter(i) ==
  /\ May("grow") /\ Shown(lines, i) /\ ~IsScene(Line(lines, i))
  /\ \A l \in NextLive(lines, Place(lines, i)) : ~IsScene(l)
  /\ EditLines(Reindexed(InsertedAfter(lines, Place(lines, i), <<NewLine(Fresh, "scene")>>)), 1)
  /\ KeepView

(* One workbench right behind its illustration. *)
AddBench(i) ==
  /\ May("grow") /\ IsTarget(Line(lines, i))
  /\ \A l \in NextLive(lines, Place(lines, i)) : ~(l.kind = "bench" /\ l.of = i)
  /\ EditLines(Reindexed(InsertedAfter(lines, Place(lines, i),
                 <<[NewLine(Fresh, "bench") EXCEPT !.of = i]>>)), 1)
  /\ KeepView

-----------------------------------------------------------------------------
(* Candidates. *)

In(pool, g) == \E k \in DOMAIN pool : pool[k].img = g
Added(pool, g) == IF In(pool, g) THEN pool ELSE Append(pool, [img |-> g, gone |-> FALSE])
Trashed(pool, g, gone) == [k \in DOMAIN pool |-> IF pool[k].img = g THEN [pool[k] EXCEPT !.gone = gone] ELSE pool[k]]
Active(pool) == SelectSeq(pool, LAMBDA c : ~c.gone)

(* The Project's candidates and then those only the session remembers. *)
Merged(l) ==
  l.pool \o SelectSeq(kept[l.id], LAMBDA c : ~In(l.pool, c.img))

WithMerged(ids) ==
  [k \in DOMAIN lines |->
    IF lines[k].id \in ids THEN [lines[k] EXCEPT !.pool = Merged(lines[k])] ELSE lines[k]]

InView(i) == Shown(lines, i) /\ Merged(Line(lines, i)) = Line(lines, i).pool

At(i) == Place(lines, i)
WithLine(i, l) == [lines EXCEPT ![At(i)] = l]
Remember(changed) == kept' = [i \in 1 .. MaxId |-> IF i \in changed THEN Line(project'.lines, i).pool ELSE kept[i]]

(* Showing a line's candidates writes the merged list to the Project. *)
View(i) ==
  /\ Shown(lines, i) /\ ~InView(i)
  /\ project' = [project EXCEPT !.lines = WithMerged({i})]
  /\ Remember({i})
  /\ UNCHANGED <<history, picked, preview, disk, desk>>

(* Faulty variant: the image kept is the imported one, not the one shown. *)
SwappedKeepingBase(l, g) ==
  [l EXCEPT !.sel = g, !.pool = IF l.base = NoImage THEN @ ELSE Trashed(Added(@, l.base), l.base, FALSE)]

(* The previous main image goes back to the pool, out of the trash. *)
SwappedIn(l, g) ==
  [l EXCEPT !.sel = g,
            !.pool = IF Main(l) = NoImage THEN @ ELSE Trashed(Added(@, Main(l)), Main(l), FALSE)]

(* From the line's own candidates or those of a neighbour on screen. *)
Near(i) ==
  LET v == Visible(lines)  n == Place(v, i)
  IN  {v[k] : k \in {m \in DOMAIN v : m \in {n - 1, n, n + 1} /\ v[m].kind # "scene"}}

SetMain(i, g) ==
  /\ May("images") /\ InView(i) /\ IsTarget(Line(lines, i)) /\ g # Main(Line(lines, i))
  /\ \E l \in Near(i) : In(Active(l.pool), g)
  /\ EditLines(WithLine(i, SwappedIn(Line(lines, i), g)), 0)
  /\ Remember({i}) /\ UNCHANGED <<picked, preview>>

(* Trash and restore take no history entry; the main image stays. *)
TrashCandidate(i, g, gone) ==
  /\ May("images") /\ InView(i)
  /\ LET l == Line(lines, i)
     IN  /\ In(l.pool, g) /\ (gone => g # Main(l)) /\ Trashed(l.pool, g, gone) # l.pool
         /\ project' = [project EXCEPT !.lines = WithLine(i, [l EXCEPT !.pool = Trashed(@, g, gone)])]
  /\ Remember({i}) /\ Save(0) /\ UNCHANGED <<history, picked, preview>>

AddCandidate(i, g) ==
  /\ May("images") /\ InView(i) /\ ~IsScene(Line(lines, i)) /\ ~In(Line(lines, i).pool, g)
  /\ EditLines(WithLine(i, [Line(lines, i) EXCEPT !.pool = Added(@, g)]), 0)
  /\ Remember({i}) /\ UNCHANGED <<picked, preview>>

(* A line of its own from a candidate; variants are copied along. *)
FromCandidate(l, i, g) ==
  [NewLine(i, "image") EXCEPT !.base = g, !.vars = l.vars]

InsertCandidate(i, g, where) ==
  /\ May("grow") /\ InView(i) /\ In(Active(Line(lines, i).pool), g)
  /\ EditLines(Reindexed(InsertedAfter(lines, Slot(lines, i, where),
                 <<FromCandidate(Line(lines, i), Fresh, g)>>)), 1)
  /\ KeepView

(* A line of its own from an appended variant. *)
FromVariant(i, g) == [NewLine(i, "image") EXCEPT !.base = g]

PromoteVariant(i, g, where) ==
  /\ May("grow") /\ Shown(lines, i) /\ g \in ToSet(Line(lines, i).vars)
  /\ EditLines(Reindexed(InsertedAfter(lines, Slot(lines, i, where), <<FromVariant(Fresh, g)>>)), 1)
  /\ KeepView

(* The line forgets its candidates, its main image stays.  No undo entry. *)
ClearCandidates(i) ==
  /\ May("images") /\ InView(i) /\ Active(Line(lines, i).pool) # <<>>
  /\ project' = [project EXCEPT !.lines = WithLine(i, [Line(lines, i) EXCEPT !.pool = <<>>])]
  /\ Remember({i}) /\ Save(0) /\ UNCHANGED <<history, picked, preview>>

-----------------------------------------------------------------------------
(* Batches: what is asked for, on which lines, with which outcome. *)

AllTargets == {l.id : l \in {m \in ToSet(lines) : IsTarget(m)}}
PickedScenes == StillThere(picked, lines)

(* The lines of a scope, Scenes as their blocks hold them. *)
Chosen(scope) ==
  CASE scope[1] = "all" -> AllTargets
    [] scope[1] = "line" -> AllTargets \cap {scope[2]}
    [] scope[1] = "scene" -> BlockTargets(lines, scope[2])
    [] scope[1] = "picked" -> UNION {BlockTargets(lines, h) : h \in PickedScenes}

(* The lines of a scope, one Scene as the live lines show it. *)
Seen(scope) == IF scope[1] = "scene" THEN LiveTargets(lines, scope[2]) ELSE Chosen(scope)

OneOf(images, source) == CASE images = <<>> -> NoImage [] source = "first" -> images[1]
                           [] OTHER -> images[Len(images)]

ImagesOf(pool) == [k \in DOMAIN Active(pool) |-> Active(pool)[k].img]

Offer(l, source) == OneOf(IF source = "variant" THEN l.vars ELSE ImagesOf(l.pool), source)

(* A retreated main image that is in the trash stays there. *)
Adopted(l, source) ==
  [l EXCEPT !.sel = Offer(l, source), !.born = <<>>,
            !.pool = IF Main(l) = NoImage THEN @ ELSE Added(@, Main(l))]

Adopts(l, source) == Offer(l, source) \notin {NoImage, Main(l)}

WithAdopted(a) ==
  [k \in DOMAIN lines |->
    IF lines[k].id \in Seen(a.scope) /\ Adopts(lines[k], a.source)
    THEN Adopted(lines[k], a.source) ELSE lines[k]]

(* One line after the other, each at the place it has by then. *)
WithPromoted(a) ==
  LET parents == SelectSeq(lines, LAMBDA l : l.id \in Chosen(a.scope) /\ l.vars # <<>>)
      promote(s, l) ==
        InsertedAfter(s, Slot(s, l.id, a.where),
                      <<FromVariant(Fresh + Len(s) - Len(lines), OneOf(l.vars, a.source))>>)
  IN  Reindexed(FoldLeft(promote, lines, parents))

(* Candidates that have no line of their own from an earlier branch. *)
Unbranched(l) ==
  SelectSeq(ImagesOf(Merged(l)),
            LAMBDA g : \A m \in ToSet(lines) : m.born = <<l.id, g>> => m.del)

(* A Scene behind each line, with one line for each of its candidates. *)
WithBranches(a, s) ==
  LET sources == SelectSeq(lines, LAMBDA l : l.id \in Seen(a.scope) /\ Unbranched(l) # <<>>)
      born(l, first) ==
        [k \in 1 .. 1 + Len(Unbranched(l)) |->
          IF k = 1 THEN NewLine(first, "scene")
          ELSE LET g == Unbranched(l)[k - 1]
               IN  [NewLine(first + k - 1, "image") EXCEPT !.base = g, !.born = <<l.id, g>>]]
      branch(t, l) == InsertedAfter(t, Place(t, l.id), born(l, Fresh + Len(t) - Len(s)))
  IN  Reindexed(FoldLeft(branch, s, sources))

(* The image replaces the main image without a trace, or becomes a variant. *)
Quickly(l, a) ==
  LET g == Offer(l, a.source)
  IN  CASE g = NoImage \/ (a.where = "append" /\ g \in ToSet(l.vars)) -> l
        [] a.where = "append" -> [l EXCEPT !.vars = Append(@, g)]
        [] OTHER -> [l EXCEPT !.sel = g]

WithQuick(a) ==
  LET s == WithMerged(Chosen(a.scope))
  IN  [k \in DOMAIN s |-> IF s[k].id \in Chosen(a.scope) THEN Quickly(s[k], a) ELSE s[k]]

Outcome(b, a) ==
  CASE b = "adopt" -> WithAdopted(a) [] b = "promote" -> WithPromoted(a)
    [] b = "branch" -> WithBranches(a, lines) [] b = "quick" -> WithQuick(a)

(* What a user is shown of an outcome: new main images, and the new lines  *)
(* by the line they follow, their distance to it, their kind and image.    *)
Effect(new) ==
  LET anchor(k) == Max({0} \cup {m \in 1 .. k : new[m].id \in Ids(lines)})
      place(k) == <<IF anchor(k) = 0 THEN 0 ELSE new[anchor(k)].id, k - anchor(k)>>
  IN  [mains |-> {<<l.id, Main(l)>> : l \in {m \in ToSet(new) :
                    m.id \in Ids(lines) /\ Main(m) # Main(Line(lines, m.id))}},
       added |-> {<<place(k), new[k].kind, new[k].base, new[k].born>> :
                    k \in {n \in DOMAIN new : new[n].id \notin Ids(lines)}}]

Asked(b) ==
  {[scope |-> sc, source |-> so, where |-> w] :
     sc \in CASE b = "quick" -> {<<"all">>} \cup {<<"line", i>> : i \in AllTargets}
              [] b = "branch" -> {<<"all">>} \cup {<<"scene", h>> : h \in Scenes(lines)}
              [] OTHER -> {<<"all">>} \cup {<<"scene", h>> : h \in Scenes(lines)}
                          \cup (IF PickedScenes = {} THEN {} ELSE {<<"picked">>}),
     so \in CASE b = "branch" -> {"latest"} [] b = "adopt" -> {"latest", "first", "variant"}
              [] OTHER -> {"latest", "first"},
     w \in CASE b = "promote" -> {"after", "end"} [] b = "quick" -> {"replace", "append"} [] OTHER -> {""}}

-----------------------------------------------------------------------------
(* A preview is current as long as what it depends on is what it was. *)

Structure == [k \in DOMAIN lines |-> <<lines[k].id, lines[k].kind, lines[k].del>>]
The(ids) == SelectSeq(lines, LAMBDA l : l.id \in ids)

(* Faulty variant: whether a candidate is in the trash is not looked at. *)
AdoptSignIgnoringTrash(a) ==
  LET targets == The(Chosen(a.scope))
  IN  IF a.scope[1] # "picked" THEN <<>>
      ELSE <<PickedScenes, Structure,
             [k \in DOMAIN targets |-> <<targets[k].base, targets[k].sel,
                {c.img : c \in ToSet(targets[k].pool)}, targets[k].vars>>]>>

(* Only selected Scenes are watched; other scopes have their inputs alone, *)
(* and all lines also which lines they are.                                *)
AdoptSign(a) ==
  LET targets == The(Chosen(a.scope))
      v == SelectSeq(Visible(lines), IsTarget)
  IN  CASE a.scope[1] = "picked" ->
             <<PickedScenes, Structure,
               [k \in DOMAIN targets |-> <<targets[k].base, targets[k].sel, targets[k].pool, targets[k].vars>>]>>
        [] a.scope[1] = "all" -> [n \in DOMAIN v |-> v[n].id]
        [] OTHER -> <<>>

PromoteSign(a) ==
  LET targets == The(Chosen(a.scope))
  IN  <<IF a.scope[1] = "picked" THEN PickedScenes ELSE {}, Structure,
        [k \in DOMAIN lines |-> lines[k].ix],
        [k \in DOMAIN targets |-> [targets[k] EXCEPT !.pool = <<>>]]>>

BranchSign(a) ==
  LET targets == The(Seen(a.scope))
  IN  <<Structure, [k \in DOMAIN targets |->
          LET l == targets[k]
          IN  <<l.id, l.ix, l.base, l.sel, ImagesOf(Merged(l)), Unbranched(l),
                {h \in Scenes(lines) : l.id \in LiveTargets(lines, h)}>>]>>

Sign(b, a) ==
  CASE b = "adopt" -> AdoptSign(a) [] b = "promote" -> PromoteSign(a)
    [] b = "branch" -> BranchSign(a) [] b = "quick" -> <<>>

(* There is something to apply. *)
Anything(b, a) ==
  IF b = "quick"
  THEN \E l \in ToSet(WithMerged(Chosen(a.scope))) :
         /\ l.id \in Chosen(a.scope) /\ Offer(l, a.source) # NoImage
         /\ a.where = "append" => Offer(l, a.source) \notin ToSet(l.vars)
  ELSE Outcome(b, a) # lines

Previewed(b, a) ==
  [asked |-> a, sign |-> Sign(b, a), effect |-> Effect(Outcome(b, a)), any |-> Anything(b, a)]

(* Looking for quick targets shows their candidates: see View.  A preview  *)
(* that is replaced leaves no trace, so only the last one is taken.        *)
Preview(b) ==
  /\ b \in desk.session.does /\ (b = "quick" \/ preview[b] = {})
  /\ \E a \in Asked(b) :
       /\ preview' = [preview EXCEPT ![b] = {Previewed(b, a)}]
       /\ IF b = "quick"
          THEN project' = [project EXCEPT !.lines = WithMerged(Chosen(a.scope))] /\ Remember(Chosen(a.scope))
          ELSE UNCHANGED <<project, kept>>
  /\ UNCHANGED <<history, picked, disk, desk>>

Current(b, v) == v.any /\ v.sign = Sign(b, v.asked)
Spent(b) == preview' = [preview EXCEPT ![b] = {}]

(* With nothing left to adopt only the undo entry is made. *)
ApplyAdoption(v) ==
  /\ May("adopt") /\ Current("adopt", v)
  /\ LET new == WithAdopted(v.asked)
     IN  \/ /\ new # lines /\ EditLines(new, 0)
            /\ Remember({l.id : l \in {m \in ToSet(new) : m # Line(lines, m.id)}})
         \/ /\ new = lines /\ history' = Pushed /\ desk' = [desk EXCEPT !.edits = @ + 1]
            /\ UNCHANGED <<project, kept, disk>>
  /\ Spent("adopt") /\ UNCHANGED picked

ApplyPromotion(v) ==
  /\ May("promote") /\ Current("promote", v)
  /\ LET new == WithPromoted(v.asked) IN EditLines(new, Len(new) - Len(lines))
  /\ picked' = StillThere(picked, project'.lines)
  /\ Spent("promote") /\ UNCHANGED kept

(* The undo entry is made after the candidates were merged. *)
ApplyBranches(v) ==
  /\ May("branch") /\ Current("branch", v)
  /\ LET merged == [project EXCEPT !.lines = WithMerged(Seen(v.asked.scope))]
         new == WithBranches(v.asked, merged.lines)
         ids == Len(new) - Len(lines)
     IN  /\ desk.ids + ids <= MaxId
         /\ history' = LET h == Append(history, merged) IN IF Len(h) > HistoryLimit THEN Tail(h) ELSE h
         /\ project' = [project EXCEPT !.lines = new] /\ Save(ids)
  /\ Remember(Seen(v.asked.scope)) /\ Spent("branch") /\ UNCHANGED picked

ApplyQuick(v) ==
  /\ May("quick") /\ Current("quick", v)
  /\ EditLines(WithQuick(v.asked), 0) /\ Remember(Chosen(v.asked.scope))
  /\ Spent("quick") /\ UNCHANGED picked

-----------------------------------------------------------------------------
(* Selection, Undo and opening. *)

Pick ==
  /\ {"adopt", "promote"} \cap desk.session.does # {}
  /\ \/ \E h \in Scenes(lines) : picked' = StillThere((picked \ {h}) \cup ({h} \ picked), lines)
     \/ picked' = Scenes(lines)
     \/ picked' = {}
     \/ picked' = Scenes(lines) \ PickedScenes
  /\ UNCHANGED <<project, history, kept, preview, disk, desk>>

(* Neither saved nor told to the previews and the remembered candidates. *)
Undo ==
  /\ May("undo") /\ history # <<>>
  /\ project' = Last(history) /\ history' = Front(history)
  /\ picked' = StillThere(picked, project'.lines)
  /\ desk' = [desk EXCEPT !.edits = @ + 1]
  /\ UNCHANGED <<kept, preview, disk>>

(* Opening adds the first Scene, without saving it. *)
Open ==
  /\ May("open")
  /\ LET first == NeedsFirstScene(disk.lines)
     IN  /\ project' = IF first THEN [disk EXCEPT !.lines = WithFirstScene(@, Fresh)] ELSE disk
         /\ desk' = [desk EXCEPT !.edits = @ + 1, !.ids = IF first THEN @ + 1 ELSE @]
         /\ desk'.ids <= MaxId
  /\ kept' = [i \in 1 .. MaxId |->
                IF i \in Ids(disk.lines) /\ ~IsScene(Line(disk.lines, i)) THEN Line(disk.lines, i).pool ELSE <<>>]
  /\ history' = <<>> /\ picked' = {} /\ preview' = NoPreview /\ UNCHANGED disk

EditScenes ==
  \/ \E h \in Ids(lines) : (\E dir \in {"up", "down"} : MoveScene(h, dir)) \/ RemoveScene(h) \/ DuplicateScene(h)
  \/ \E r \in project.removals : RestoreScene(r)

Apply ==
  \/ \E v \in preview["adopt"] : ApplyAdoption(v)
  \/ \E v \in preview["promote"] : ApplyPromotion(v)
  \/ \E v \in preview["branch"] : ApplyBranches(v)
  \/ \E v \in preview["quick"] : ApplyQuick(v)

EditLine(i) ==
  \/ DeleteLine(i) \/ RestoreLine(i) \/ View(i) \/ AddBench(i) \/ AddSceneAfter(i) \/ ClearCandidates(i)
  \/ \E dir \in {"up", "down"} : MoveLine(i, dir)
  \/ \E t \in Ids(lines) : MoveAfter(i, t)
  \/ \E g \in Images :
       \/ SetMain(i, g) \/ AddCandidate(i, g)
       \/ \E gone \in BOOLEAN : TrashCandidate(i, g, gone)
       \/ \E where \in {"after", "scene", "end"} : InsertCandidate(i, g, where) \/ PromoteVariant(i, g, where)

Next ==
  \/ EditScenes \/ AddPromptLine \/ AddSceneLast \/ Apply \/ Pick \/ Undo \/ Open
  \/ \E i \in Ids(lines) : EditLine(i)
  \/ \E b \in Batches : Preview(b)

Spec == Init /\ [][Next]_vars

-----------------------------------------------------------------------------
(* Properties. *)

(* No line is in the Trash without a reason and no deleted line is back    *)
(* unasked, in the Project, in what Undo returns to and in the file: a     *)
(* line is deleted exactly if it was deleted by itself, or by a Scene      *)
(* removal that can still be undone (route_operations.py:429, 618).        *)
DeletionIsExplained ==
  \A p \in {project, disk} \cup ToSet(history) : \A l \in ToSet(p.lines) :
    /\ l.id \in p.own => l.del
    /\ l.del => l.id \in p.own \/ \E r \in p.removals : l.id \in Covered(r)

(* Moving, removing, restoring and duplicating a Scene leaves every Scene  *)
(* with the lines it had, in their order (route_operations.py:1874): the   *)
(* deleted lines and the Scenes next to it included.                       *)
ScenesStayWhole ==
  [][EditScenes => \A h \in {l.id : l \in {m \in ToSet(lines) : IsScene(m)}} :
       LET was == Block(lines, h)  is == Block(lines', h)
       IN  [k \in DOMAIN was |-> was[k].id] = [k \in DOMAIN is |-> is[k].id]]_vars

(* What is applied is what was reviewed.  However long a preview of picked *)
(* Scenes, of a promotion or of branches was left on screen, and whatever  *)
(* was edited, undone or trashed in between, an apply that is accepted has *)
(* the effect that was shown (route_batch_candidate_adoption.py:950).      *)
Reviewed ==
  {v \in preview["adopt"] : v.asked.scope[1] = "picked"} \cup preview["promote"] \cup preview["branch"]

AppliesWhatWasReviewed ==
  [][\A v \in Reviewed : (ApplyAdoption(v) \/ ApplyPromotion(v) \/ ApplyBranches(v))
                          => Effect(lines') = v.effect]_vars

(* A main image is not lost: after each step but going back and the        *)
(* replacing quick adoption, the line that showed it still offers it, as   *)
(* main image, original, candidate or variant (app.py:4309).               *)
NoMainImageIsLost ==
  [][\/ Undo \/ Open \/ \E v \in preview["quick"] : ApplyQuick(v)
     \/ \A l \in ToSet(lines) : l.id \in Ids(lines') =>
          LET m == Line(lines', l.id)
          IN  Main(l) \in {NoImage, m.sel, m.base} \cup {c.img : c \in ToSet(m.pool)} \cup ToSet(m.vars)]_vars

=============================================================================
