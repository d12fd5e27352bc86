------------------------------ MODULE FolderData ------------------------------
(***************************************************************************)
(* What the operations on Project folders work on: a Project as the        *)
(* session holds it and as its JSON file stores it, the image files it     *)
(* refers to, the directory trees a Derived Project (Fork) is made of, and *)
(* the read-only plans each operation shows for review.                    *)
(*                                                                         *)
(* A Line is a number: its place in the Project.  Its Scene is             *)
(* SceneOf[line].  An image file is named by a path and holds one of       *)
(* Contents; the size and time of modification the code compares stand for *)
(* that content, so a file that was rewritten differs from what it was.    *)
(***************************************************************************)
EXTENDS Integers, Sequences, SequencesExt

CONSTANTS
  Lines,      \* the Lines of the Project, 1..n in Project order
  SceneOf,    \* the Scene (Route) each Line belongs to
  Names,      \* the file names images have outside the Project's candidates/
  Contents,   \* what an image file can hold
  MaxSuffix,  \* the last number a copy's file name may carry
  Tries,      \* how often a rename or a removal is tried (WINDOWS_RETRY_DELAYS)
  Gone,       \* the content of a file that does not exist
  Partial,    \* the content a copy has that broke off
  NoPath      \* the value of an image field that is not set

ASSUME FolderAssumption ==
  /\ Lines = 1..Len(SceneOf) /\ MaxSuffix \in Nat /\ Tries \in Nat \ {0}
  /\ Gone \notin Contents /\ Partial \notin Contents /\ Partial # Gone

Scenes == Range(SceneOf)

----------------------------------------------------------------------------
(* Files and Projects *)

Outside(n)    == <<"outside", n>>
Generated(n)  == <<"generated", n>>
Copy(l, n, k) == <<"candidates", l, n, k>>
Places == {Outside(n) : n \in Names} \cup {Generated(n) : n \in Names}
Copies == {Copy(l, n, k) : l \in Lines, n \in Names, k \in 0..MaxSuffix}
Paths  == Places \cup Copies

IsCopy(p)      == p \in Copies
IsGenerated(p) == p[1] = "generated"
NameOf(p)      == IF IsCopy(p) THEN p[3] ELSE p[2]

\* What the Project says of its images: the main image of each Line, its
\* Candidates and its appended Gallery Variants, the image it was derived from
\* (its lineage), the Lines in the Trash, and a mark that stands for the Prompt
\* text, which only editing changes.
ProjectValues ==
  [main : [Lines -> Paths \cup {NoPath}], cands : [Lines -> Seq(Paths)],
   vars : [Lines -> Seq(Paths)], origin : [Lines -> Paths \cup {NoPath}],
   trash : SUBSET Lines, text : Nat]

\* The paths of generated/ and candidates/ a Project refers to, wherever they
\* stand in it.
References(p) ==
  {q \in {p.main[l] : l \in Lines} \cup {p.origin[l] : l \in Lines}
           \cup UNION {Range(p.cands[l]) \cup Range(p.vars[l]) : l \in Lines} :
     q \in Copies \/ q \in {Generated(n) : n \in Names}}

----------------------------------------------------------------------------
(* Creating a Derived Project: what is planned and reviewed *)

\* The Lines of the chosen Scenes that are not in the Trash.
ForkTargets(p, scenes) == {l \in Lines \ p.trash : SceneOf[l] \in scenes}

\* What the file of a Line's main image holds now.
MainImage(p, files, l) == IF p.main[l] = NoPath THEN Gone ELSE files[p.main[l]]

\* One entry of the plan: the Line, its main image and what the file holds.
ForkEntry(p, files, l) == [line |-> l, image |-> p.main[l], stat |-> MainImage(p, files, l)]

Materializable(plan) == {e \in plan.entries : e.stat # Gone}

ForkPreview(p, files, scenes) ==
  [scenes |-> scenes, text |-> p.text,
   entries |-> {ForkEntry(p, files, l) : l \in ForkTargets(p, scenes)}]

ForkRefusalUncompared(p, files, taken, plan) ==
  IF Materializable(plan) = {} THEN "no materializable lines"
  ELSE IF taken THEN "destination already exists"
  ELSE ""
\* Why a reviewed Fork is refused when it is applied, or "" when it is not.
ForkRefusal(p, files, taken, plan) ==
  IF ForkPreview(p, files, plan.scenes) # plan THEN "stale preview"
  ELSE IF Materializable(plan) = {} THEN "no materializable lines"
  ELSE IF taken THEN "destination already exists"
  ELSE ""

----------------------------------------------------------------------------
(* The directory tree of a Derived Project *)

\* lines: the Lines project.json holds; scenes: the Scenes manifest.json says
\* are materialized; text: the mark of the Prompt text that was copied; images:
\* the files of images/; edits: what its owner changed in it.
NoTree == [lines |-> {}, scenes |-> {}, text |-> 0, edits |-> 0,
           images |-> [l \in Lines |-> Gone], json |-> FALSE]
Absent == [NoTree EXCEPT !.text = -1]

\* A Fork can be used when both its JSON files are there and every Line of the
\* Project has its image.
Whole(t) == t # Absent /\ t.json /\ \A l \in t.lines : t.images[l] # Gone

PlannedLines(plan)  == {e.line : e \in Materializable(plan)}
PlannedScenes(plan) == {SceneOf[l] : l \in PlannedLines(plan)}

\* What project.json and manifest.json of a new Fork say.
ForkProject(t, plan) == [t EXCEPT !.lines = PlannedLines(plan), !.text = plan.text]
ForkManifest(t, plan) == [t EXCEPT !.scenes = PlannedScenes(plan), !.json = TRUE]

\* What a tree may be after a removal of it failed: some of its files are gone.
Torn(t) ==
  {[t EXCEPT !.images = [l \in Lines |-> IF l \in gone THEN Gone ELSE @[l]],
             !.json = @ /\ keep] : gone \in SUBSET Lines, keep \in BOOLEAN}

----------------------------------------------------------------------------
(* Appending Scenes to a Derived Project: what is planned and reviewed *)

\* The Fork as it is read for a plan; it can be appended to when both JSON
\* files are there.
ForkSnapshot(t) == [valid |-> t # Absent /\ t.json, tree |-> t]

\* Of the chosen Scenes: those the manifest holds already are left out, those
\* with an image to copy are appended, the others are blocked.
AppendableScenes(base, t) == PlannedScenes(base) \ t.scenes

AppendedEntries(base, t) == {e \in base.entries : SceneOf[e.line] \in AppendableScenes(base, t)}

\* The whole plan: what the source Project's JSON holds, the Fork as it was,
\* the plan of the chosen Scenes and the entries that will be appended.
AppendPreview(p, saved, files, t, scenes) ==
  LET base == ForkPreview(p, files, scenes) IN
  [source |-> saved, fork |-> ForkSnapshot(t), base |-> base,
   scenes |-> scenes, text |-> base.text, entries |-> AppendedEntries(base, t)]

\* Why a reviewed append is refused when it is applied.  The plan is made again
\* from the Project's saved JSON, not from the Project in the session.
AppendRefusal(saved, files, t, plan) ==
  LET now == AppendPreview(saved, saved, files, t, plan.scenes) IN
  IF now # plan THEN "stale preview"
  ELSE IF ~now.fork.valid \/ ForkTargets(saved, plan.scenes) = {} THEN "invalid"
  ELSE IF AppendableScenes(now.base, t) = {} THEN "already present"
  ELSE ""

\* The Fork's JSON files with the appended Lines and Scenes; everything that was
\* in them stays.
AppendedProject(t, plan) == [t EXCEPT !.lines = @ \cup PlannedLines(plan)]
AppendedManifestAnew(t, plan) == [t EXCEPT !.scenes = PlannedScenes(plan)]
AppendedManifest(t, plan) == [t EXCEPT !.scenes = @ \cup PlannedScenes(plan)]

\* Nothing the plan was made from has changed.
AppendStillCurrent(saved, files, t, plan) ==
  /\ ForkSnapshot(t) = plan.fork /\ saved = plan.source
  /\ \A e \in Materializable(plan) : files[e.image] = e.stat
=============================================================================
