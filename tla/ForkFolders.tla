------------------------------ MODULE ForkFolders ------------------------------
(***************************************************************************)
(* Creating a Derived Project (Lightweight Fork) in a directory of its own *)
(* and appending Scenes to one that exists.                                *)
(*                                                                         *)
(* Both prepare the whole tree in a staging directory.  A new Fork is then *)
(* renamed to its place.  An append renames the Fork to a backup and the   *)
(* staging directory to the Fork's place, and removes the backup; when one *)
(* of these fails it tries to put the backup back.                         *)
(***************************************************************************)
EXTENDS FolderState

unchangedSession == UNCHANGED <<open, saved, review, user>>

\* The entry that is copied next.
NextEntry(todo) == CHOOSE e \in todo : \A f \in todo : e.line <= f.line

----------------------------------------------------------------------------
(* Review *)

\* The preview of a new Fork, made from the Project in the session.
ReviewFork(scenes) ==
  /\ call = Idle /\ "fork" \in user.does
  /\ review' = [review EXCEPT !.fork = [kind |-> "fork", confirmed |-> FALSE,
                                        plan |-> ForkPreview(open, files, scenes)]]
  /\ UNCHANGED <<files, open, saved, dirs, call, result, user>>

\* What keeps the Create button from being enabled.
ForkBlocked(r) ==
  \/ r = NoReview \/ ~r.confirmed
  \/ ForkRefusal(open, files, dirs["fork"] # Absent, r.plan) # ""

ConfirmFork ==
  /\ call = Idle /\ review.fork # NoReview
  /\ ForkPreview(open, files, review.fork.plan.scenes) = review.fork.plan
  /\ review' = [review EXCEPT !.fork.confirmed = TRUE]
  /\ UNCHANGED <<files, open, saved, dirs, call, result, user>>

\* Fresh Preview of an append.
ReviewAppend(scenes) ==
  /\ call = Idle /\ "append" \in user.does /\ dirs["fork"] # Absent /\ ForkTargets(open, scenes) # {}
  /\ review' = [review EXCEPT !.append =
        [kind |-> "append", confirmed |-> FALSE, trash |-> open.trash,
         plan |-> AppendPreview(open, saved, files, dirs["fork"], scenes)]]
  /\ UNCHANGED <<files, open, saved, dirs, call, result, user>>

\* A preview is ready when the plan is valid and appends something.
AppendReady(r) == r # NoReview /\ r.plan.fork.valid /\ r.plan.entries # {}

ConfirmAppend ==
  /\ call = Idle /\ AppendReady(review.append)
  /\ review' = [review EXCEPT !.append.confirmed = TRUE]
  /\ UNCHANGED <<files, open, saved, dirs, call, result, user>>

\* The page is drawn again after the Project p was changed: the confirmation of a
\* Fork is taken back when its preview is not current, the preview of an append
\* is dropped when the Lines it was made for are not the same.
Redrawn(r, p, now) ==
  [r EXCEPT
    !.fork = IF @ # NoReview /\ ForkPreview(p, now, @.plan.scenes) # @.plan
             THEN [@ EXCEPT !.confirmed = FALSE] ELSE @,
    !.append = IF @ # NoReview /\ @.trash # p.trash THEN NoReview ELSE @]

----------------------------------------------------------------------------
(* Creating a Fork *)

\* A bound of the model: what a failed call could not remove has a name of its own
\* and stays; no call is begun after one that left something.
NothingLeft == \A d \in ForkDirs \ {"fork"} : dirs[d] = Absent

\* Create is clicked and the core validates the plan once more.  written, what other
\* programs write into image files from here on, is a history that no step reads:
\* ForkIsAsReviewed speaks of it.
CreateFork ==
  LET plan == review.fork.plan
      why == ForkRefusal(open, files, dirs["fork"] # Absent, plan) IN
  /\ call = Idle /\ NothingLeft /\ ~ForkBlocked(review.fork)
  /\ IF why = ""
     THEN /\ call' = [op |-> "fork", pc |-> "copy", why |-> "", tries |-> 0, plan |-> plan,
                      todo |-> Materializable(plan), written |-> {},
                      old |-> dirs["fork"], swapped |-> FALSE, torn |-> FALSE, round |-> 0]
          /\ dirs' = [dirs EXCEPT !["staging"] = NoTree]
          /\ UNCHANGED result
     ELSE Report([op |-> "fork", ok |-> FALSE, why |-> why]) /\ UNCHANGED dirs
  /\ UNCHANGED files /\ unchangedSession

\* One image is copied into the staging directory, or cannot be.
ForkCopy ==
  /\ call.op = "fork" /\ call.pc = "copy" /\ call.todo # {}
  /\ LET e == NextEntry(call.todo) IN
     \/ /\ files[e.image] # Gone
        /\ dirs' = [dirs EXCEPT !["staging"].images[e.line] = files[e.image]]
        /\ call' = [call EXCEPT !.todo = @ \ {e}]
     \/ call' = Fail("sweep", "copy failed") /\ UNCHANGED dirs
  /\ UNCHANGED <<files, result>> /\ unchangedSession

\* project.json and manifest.json are written, or cannot be.
ForkWrite ==
  /\ call.op = "fork" /\ call.pc = "copy" /\ call.todo = {}
  /\ \/ /\ dirs' = [dirs EXCEPT !["staging"] =
                      ForkManifest(ForkProject(@, call.plan), call.plan)]
        /\ call' = At("commit")
     \/ /\ \E t \in {dirs["staging"], ForkProject(dirs["staging"], call.plan)} :
             dirs' = [dirs EXCEPT !["staging"] = t]
        /\ call' = Fail("sweep", "write failed")
  /\ UNCHANGED <<files, result>> /\ unchangedSession

ForkCommit ==
  /\ call.op = "fork" /\ call.pc = "commit"
  /\ \/ /\ RenameDone("staging", "fork", dirs["staging"])
        /\ Report([op |-> "fork", ok |-> TRUE, why |-> "", plan |-> call.plan])
     \/ RenameLocked("fork")
     \/ call' = Fail("sweep", RenameRefused("fork")) /\ UNCHANGED <<dirs, result>>
  /\ UNCHANGED files /\ unchangedSession

\* The staging directory of a Fork that failed is removed.
ForkSweep ==
  /\ call.op = "fork" /\ call.pc = "sweep"
  /\ \/ /\ RemoveDone("staging")
        /\ Report([op |-> "fork", ok |-> FALSE, why |-> call.why, swept |-> TRUE])
     \/ /\ RemoveStopped("staging")
        /\ \/ Report([op |-> "fork", ok |-> FALSE, why |-> call.why, swept |-> FALSE])
           \/ MayTryAgain /\ call' = [call EXCEPT !.tries = @ + 1] /\ UNCHANGED result
  /\ UNCHANGED files /\ unchangedSession

----------------------------------------------------------------------------
(* Appending to a Fork *)

\* An append that failed has to be confirmed again.
AppendReport(r) == Report(r) /\ review' = [review EXCEPT !.append.confirmed = FALSE]

\* The append is clicked: the plan is made again and compared.
AppendScenes ==
  LET plan == review.append.plan
      why == AppendRefusal(saved, files, dirs["fork"], plan) IN
  /\ call = Idle /\ NothingLeft /\ AppendReady(review.append) /\ review.append.confirmed
  /\ IF why = ""
     THEN /\ call' = [op |-> "append", pc |-> "tree", why |-> "", tries |-> 0, plan |-> plan,
                      todo |-> Materializable(plan),
                      old |-> dirs["fork"], swapped |-> FALSE, torn |-> FALSE, round |-> 0]
          /\ UNCHANGED <<result, review>>
     ELSE AppendReport([op |-> "append", ok |-> FALSE, why |-> why])
  /\ UNCHANGED <<files, dirs, open, saved, user>>

\* The Fork is copied whole into the staging directory.
AppendTree ==
  /\ call.op = "append" /\ call.pc = "tree"
  /\ \/ /\ dirs["fork"] # Absent
        /\ dirs' = [dirs EXCEPT !["staging"] = dirs["fork"]]
        /\ call' = At("copy")
     \/ /\ \E t \in {Absent} \cup (IF dirs["fork"] = Absent THEN {} ELSE Torn(dirs["fork"])) :
             dirs' = [dirs EXCEPT !["staging"] = t]
        /\ call' = Fail("recover", "copy failed")
  /\ UNCHANGED <<files, result>> /\ unchangedSession

\* An image that is what it was at the preview is copied beside the others.
AppendCopy ==
  /\ call.op = "append" /\ call.pc = "copy" /\ call.todo # {}
  /\ LET e == NextEntry(call.todo) IN
     \/ /\ files[e.image] = e.stat
        /\ dirs["staging"].images[e.line] = Gone
        /\ dirs' = [dirs EXCEPT !["staging"].images[e.line] = files[e.image]]
        /\ call' = [call EXCEPT !.todo = @ \ {e}]
     \/ call' = Fail("recover", "copy failed") /\ UNCHANGED dirs
  /\ UNCHANGED <<files, result>> /\ unchangedSession

\* Both JSON files are written and read back.
AppendWrite ==
  /\ call.op = "append" /\ call.pc = "copy" /\ call.todo = {}
  /\ LET project == AppendedProject(dirs["staging"], call.plan)
         both == AppendedManifest(project, call.plan) IN
     \/ dirs' = [dirs EXCEPT !["staging"] = both] /\ call' = At("verify")
     \/ /\ \E t \in {dirs["staging"], project, both} : dirs' = [dirs EXCEPT !["staging"] = t]
        /\ call' = Fail("recover", "write failed")
  /\ UNCHANGED <<files, result>> /\ unchangedSession

\* Right before the exchange: the source and the Fork are what they were.
AppendVerify ==
  /\ call.op = "append" /\ call.pc = "verify"
  /\ call' = IF AppendStillCurrent(saved, files, dirs["fork"], call.plan)
             THEN At("backup") ELSE Fail("recover", "changed during append staging")
  /\ UNCHANGED <<files, dirs, result>> /\ unchangedSession

AppendBackupByRemoval ==
  /\ call.op = "append" /\ call.pc = "backup"
  /\ RemoveDone("fork") /\ call' = At("swap")
  /\ UNCHANGED <<files, result>> /\ unchangedSession
\* The Fork gives way to the backup.
AppendBackup ==
  /\ call.op = "append" /\ call.pc = "backup"
  /\ \/ RenameDone("fork", "backup", dirs["fork"]) /\ call' = At("swap") /\ UNCHANGED result
     \/ RenameLocked("backup")
     \/ call' = Fail("recover", "backup rename failed") /\ UNCHANGED <<dirs, result>>
  /\ UNCHANGED files /\ unchangedSession

\* The staging directory takes the Fork's place.
AppendSwap ==
  /\ call.op = "append" /\ call.pc = "swap"
  /\ \/ /\ RenameDone("staging", "fork", dirs["staging"])
        /\ call' = [At("clean") EXCEPT !.swapped = TRUE] /\ UNCHANGED result
     \/ RenameLocked("fork")
     \/ call' = Fail("restore", "final rename failed") /\ UNCHANGED <<dirs, result>>
  /\ UNCHANGED files /\ unchangedSession

\* The backup is removed; when it cannot be, the exchange is undone.  torn
\* remembers that a removal of the backup stopped after it had begun.
AppendClean ==
  /\ call.op = "append" /\ call.pc = "clean"
  /\ \/ /\ RemoveDone("backup") /\ review' = [review EXCEPT !.append = NoReview]
        /\ Report([op |-> "append", ok |-> TRUE, why |-> "", plan |-> call.plan,
                   old |-> call.old])
     \/ LET torn == call.torn \/ dirs'["backup"] # dirs["backup"] IN
        /\ RemoveStopped("backup") /\ UNCHANGED <<result, review>>
        /\ \/ call' = [Fail("aside", "backup cleanup failed") EXCEPT !.torn = torn]
           \/ MayTryAgain /\ call' = [call EXCEPT !.tries = @ + 1, !.torn = torn]
  /\ UNCHANGED <<files, open, saved, user>>

\* The exchange is undone: the new tree gives way under a fresh name ...
AppendAside ==
  /\ call.op = "append" /\ call.pc = "aside"
  /\ \/ /\ dirs["fork"] # Absent
        /\ dirs' = [dirs EXCEPT !["aside"] = dirs["fork"], !["fork"] = Absent]
        /\ call' = At("restore") /\ UNCHANGED result
     \/ /\ call' = [call EXCEPT !.tries = @ + 1] /\ MayTryAgain
        /\ UNCHANGED <<dirs, result>>
     \/ call' = At("recover") /\ UNCHANGED <<dirs, result>>
  /\ UNCHANGED files /\ unchangedSession

\* ... and the backup comes back.
AppendRestore ==
  /\ call.op = "append" /\ call.pc = "restore"
  /\ \/ /\ RenameDone("backup", "fork", dirs["backup"])
        /\ call' = IF call.swapped /\ call.round < 2
                   THEN [At("discard") EXCEPT !.swapped = FALSE] ELSE At("recover")
        /\ UNCHANGED result
     \/ RenameLocked("fork")
     \/ call' = At("recover") /\ UNCHANGED <<dirs, result>>
  /\ UNCHANGED files /\ unchangedSession

\* The tree that gave way is removed, as far as that goes.
AppendDiscard ==
  /\ call.op = "append" /\ call.pc = "discard"
  /\ \/ RemoveDone("aside") /\ call' = At("recover")
     \/ /\ RemoveStopped("aside")
        /\ \/ call' = At("recover")
           \/ MayTryAgain /\ call' = [call EXCEPT !.tries = @ + 1]
  /\ UNCHANGED <<files, result>> /\ unchangedSession

\* Whatever failed, the exchange is undone once more while both trees are there;
\* then the backup is put back if nothing is in its place.
AppendRecover ==
  /\ call.op = "append" /\ call.pc = "recover"
  /\ call' =
       IF call.round = 0 /\ call.swapped /\ dirs["backup"] # Absent /\ dirs["fork"] # Absent
       THEN [At("aside") EXCEPT !.round = 1]
       ELSE IF call.round < 2 /\ dirs["backup"] # Absent /\ dirs["fork"] = Absent
       THEN [At("restore") EXCEPT !.round = 2]
       ELSE At("finish")
  /\ UNCHANGED <<files, dirs, result>> /\ unchangedSession

\* The staging directory is removed, as far as that goes, and the failure is
\* reported.
AppendFinish ==
  LET failure == [op |-> "append", ok |-> FALSE, why |-> call.why, old |-> call.old,
                  torn |-> call.torn] IN
  /\ call.op = "append" /\ call.pc = "finish"
  /\ \/ RemoveDone("staging") /\ AppendReport(failure)
     \/ /\ RemoveStopped("staging")
        /\ \/ AppendReport(failure)
           \/ MayTryAgain /\ call' = [call EXCEPT !.tries = @ + 1] /\ UNCHANGED <<result, review>>
  /\ UNCHANGED <<files, open, saved, user>>

\* The steps of a call that has begun.
ForkCall ==
  \/ ForkCopy \/ ForkWrite \/ ForkCommit \/ ForkSweep
  \/ AppendTree \/ AppendCopy \/ AppendWrite \/ AppendVerify \/ AppendBackup
  \/ AppendSwap \/ AppendClean \/ AppendAside \/ AppendRestore \/ AppendDiscard
  \/ AppendRecover \/ AppendFinish
=============================================================================
