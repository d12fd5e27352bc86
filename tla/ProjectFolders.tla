---------------------------- MODULE ProjectFolders ----------------------------
(***************************************************************************)
(* A session and the folder of its Project: the calls of ForkFolders and   *)
(* ProjectAssets, what the session does to the Project between them, and   *)
(* what other programs do to the files at any time.                        *)
(***************************************************************************)
EXTENDS ForkFolders, ProjectAssets

CONSTANTS
  StartProjects,  \* the Projects JSON files may hold at the start
  StartForks,     \* the trees that may be in the Fork's place at the start
  StartFiles,     \* the image files there may be at the start
  Users           \* what users set out to do: [does : kinds, changes : how many]

\* A changed JSON file, an edited Project or Fork, a rewritten or a lost image:
\* each is one of the changes a behaviour has room for.
ChangeIs(kind) ==
  /\ kind \in user.does /\ user.changes > 0
  /\ user' = [user EXCEPT !.changes = @ - 1]

\* The user edits the Prompt text of the Project in the session.
EditText ==
  /\ call = Idle /\ ChangeIs("edit")
  /\ open' = [open EXCEPT !.text = @ + 1] /\ review' = Redrawn(review, open', files)
  /\ UNCHANGED <<files, saved, dirs, call, result>>

\* The user puts a Line into the Trash or takes it out.
TrashLine(l) ==
  /\ call = Idle /\ ChangeIs("trash")
  /\ open' = [open EXCEPT !.trash = IF l \in @ THEN @ \ {l} ELSE @ \cup {l}]
  /\ review' = Redrawn(review, open', files)
  /\ UNCHANGED <<files, saved, dirs, call, result>>

\* The Project is saved to its JSON file.
SaveProject ==
  /\ call = Idle /\ saved # Loaded(open)
  /\ saved' = Loaded(open)
  /\ UNCHANGED <<files, open, dirs, call, review, result, user>>

\* Another session saves the Project's JSON file.
SavedElsewhere ==
  /\ ChangeIs("elsewhere") /\ saved' = [saved EXCEPT !.text = @ + 1]
  /\ UNCHANGED <<files, open, dirs, call, review, result>>

\* Another program rewrites or removes an image outside the Forks.  While copies
\* are being made, nobody else touches candidates/.
FileChanged(p) ==
  /\ ChangeIs("files") /\ files[p] \in Contents
  /\ p \in Copies => call.op # "assets"
  /\ \E c \in (Contents \cup {Gone}) \ {files[p]} : files' = [files EXCEPT ![p] = c]
  /\ call' = IF call.op = "fork" THEN [call EXCEPT !.written = @ \cup {<<p, files'[p]>>}]
             ELSE call
  /\ UNCHANGED <<open, saved, dirs, review, result>>

\* The owner of the Fork changes something in it.
ForkEdited ==
  /\ ChangeIs("fork edit") /\ dirs["fork"] # Absent
  /\ dirs' = [dirs EXCEPT !["fork"].edits = @ + 1]
  /\ UNCHANGED <<files, open, saved, call, review, result>>

Init ==
  /\ files \in StartFiles /\ saved \in StartProjects /\ open = Loaded(saved)
  /\ \E t \in StartForks :
       dirs = [d \in ForkDirs |-> IF d = "fork" THEN t ELSE Absent]
  /\ call = Idle
  /\ review = [fork |-> NoReview, append |-> NoReview, assets |-> NoReview, cleanup |-> NoReview]
  /\ result = [op |-> "none"]
  /\ user \in Users

Next ==
  \/ \E scenes \in SUBSET Scenes \ {{}} : ReviewFork(scenes) \/ ReviewAppend(scenes)
  \/ ConfirmFork \/ CreateFork \/ ConfirmAppend \/ AppendScenes \/ ForkCall
  \/ ReviewAssets \/ ConfirmAssets \/ CopyAssets
  \/ ScanDuplicates \/ ConfirmCleanup \/ CleanDuplicates \/ AssetCall
  \/ EditText \/ SaveProject \/ SavedElsewhere \/ ForkEdited
  \/ \E l \in Lines : TrashLine(l)
  \/ \E p \in Paths : FileChanged(p)

Spec == Init /\ [][Next]_folderVars

----------------------------------------------------------------------------
(* Properties *)

\* The trees and what they hold without the owner's own edits.
Content(t) == [t EXCEPT !.edits = 0]

\* A call that created a Fork left a folder that is whole: the Lines, Scenes and
\* text of the plan that was reviewed and confirmed, for each Line the image its file
\* held at the review, or else one that another program wrote into that file after
\* Create was clicked, and nothing in the staging directory.  A Fork that was there is never replaced.
ForkIsAsReviewed ==
  [][result'.op = "fork" /\ result' # result =>
       IF result'.ok
       THEN /\ dirs["fork"] = Absent /\ dirs'["staging"] = Absent /\ Whole(dirs'["fork"])
            /\ dirs'["fork"].lines = PlannedLines(result'.plan)
            /\ dirs'["fork"].scenes = PlannedScenes(result'.plan)
            /\ dirs'["fork"].text = open.text
            /\ \A e \in Materializable(result'.plan) :
                 LET copied == dirs'["fork"].images[e.line] IN
                 copied = e.stat \/ <<e.image, copied>> \in call.written
            /\ review.fork.confirmed /\ result'.plan = review.fork.plan
       ELSE dirs'["fork"] = dirs["fork"]]_folderVars

\* A call that appended Scenes kept every file of the Fork and added exactly the
\* images that were reviewed, with the content they had then.
AppendAddsTheReviewed ==
  [][result'.op = "append" /\ result' # result /\ result'.ok =>
       LET t == dirs'["fork"]
           old == result'.old
           added == Materializable(result'.plan) IN
       /\ Whole(old) => Whole(t)
       /\ t.lines = old.lines \cup PlannedLines(result'.plan)
       /\ t.scenes = old.scenes \cup PlannedScenes(result'.plan)
       /\ \A e \in added : t.images[e.line] = e.stat
       /\ \A l \in Lines \ PlannedLines(result'.plan) : t.images[l] = old.images[l]
       /\ t.edits >= old.edits /\ dirs'["backup"] = Absent]_folderVars

\* The Fork an append found is still there when it has failed, in its place or as
\* the backup - unless the removal of the backup broke off after it had begun.
FailedAppendKeepsTheFork ==
  [][result'.op = "append" /\ result' # result /\ ~result'.ok /\ call.op = "append" /\ ~call.torn =>
       Content(call.old) \in {Content(dirs'["fork"]), Content(dirs'["backup"])}]_folderVars

\* A copy of the Project's assets is done completely or not at all: on success the
\* Project is saved with references to files that are whole and its main images are
\* still Candidates, on failure the Project in the session is what it was and no
\* copy is left except one that broke off and those that could not be removed.
AssetsAreAllOrNothing ==
  [][result'.op = "assets" /\ result' # result /\ call.op = "assets" =>
       IF result'.ok
       THEN /\ saved' = open'
            /\ \A q \in References(open') \ References(call.before) :
                 files'[q] \notin {Gone, Partial}
            /\ \A l \in Lines : call.before.main[l] \in Range(call.before.cands[l])
                                  => open'.main[l] \in Range(open'.cands[l])
       ELSE /\ open' = call.before
            /\ \A c \in Copies \ (call.had \cup call.stuck) :
                 files'[c] \in {Gone, Partial}]_folderVars

\* The cleanup removes a file only while neither the Project in the session nor
\* the saved one names it and an identical copy that one of them names is there.
CleanupKeepsACopy ==
  [][call.op = "cleanup" =>
       \A p \in Paths : files[p] # Gone /\ files'[p] = Gone /\ user' = user =>
         /\ IsGenerated(p)
         /\ p \notin References(open) \cup References(saved)
         /\ \E c \in Copies \cap (References(open) \cup References(saved)) :
              files'[c] = files[p]]_folderVars

\* docs/pro-v1.md: an append that fails leaves the existing Fork with all its
\* edits.
AppendKeepsTheFork ==
  [][result'.op = "append" /\ result' # result /\ ~result'.ok /\ call.op = "append" =>
       Content(call.old) \in {Content(dirs'["fork"]), Content(dirs'["backup"])}]_folderVars
=============================================================================
