----------------------------- MODULE ProjectAssets -----------------------------
(***************************************************************************)
(* Bringing the Candidate and Variant images a Project refers to into its  *)
(* candidates/ folder (Project Assets), and removing files of generated/   *)
(* that the folder keeps an identical copy of (Verified Duplicate          *)
(* Cleanup).                                                               *)
(*                                                                         *)
(* Each shows a plan first and makes the plan again when it is applied.    *)
(* Copying works on a clone of the Project and puts back what it did when  *)
(* anything fails; the cleanup checks every file again before it removes   *)
(* it, and stops at the first that is not what it was.                     *)
(***************************************************************************)
EXTENDS FolderState

unchangedForks == UNCHANGED <<dirs, user>>

----------------------------------------------------------------------------
(* Copying: the plan *)

\* The Candidates of a Line are kept once each.
Deduped(paths) ==
  FoldLeft(LAMBDA kept, p : IF Contains(kept, p) THEN kept ELSE Append(kept, p), <<>>, paths)

\* The Project as it is read from its JSON file, and as it is written to it.
Loaded(p) == [p EXCEPT !.cands = [l \in Lines |-> Deduped(@[l])]]

Slot(l, kind, i) == [line |-> l, kind |-> kind, pos |-> i]
PathAt(p, r) == IF r.kind = "candidate" THEN p.cands[r.line][r.pos] ELSE p.vars[r.line][r.pos]

\* Every Candidate and Variant record of the Lines that are not in the Trash, in
\* the order they are copied.
AssetRecords(p) ==
  LET slots(l) == [i \in DOMAIN p.cands[l] |-> Slot(l, "candidate", i)]
                  \o [i \in DOMAIN p.vars[l] |-> Slot(l, "variant", i)] IN
  FlattenSeq([l \in Lines |-> IF l \in p.trash THEN <<>> ELSE slots(l)])

\* The first free name for a copy in the Line's own folder.
UniqueCopy(now, reserved, l, n) ==
  LET taken(k) == now[Copy(l, n, k)] # Gone \/ Copy(l, n, k) \in reserved IN
  Copy(l, n, CHOOSE k \in 0..MaxSuffix : ~taken(k) /\ \A j \in 0..(k - 1) : taken(j))

\* The record at r now names a copy.  Variants and lineage that named the old
\* path follow it in every Line - except that a Line's own Variants, while they
\* are being copied, are separate records - and so does the Line's main image
\* when the record is a Candidate.
Rewritten(p, r, path, copy) ==
  LET follow(q) == IF q = path THEN copy ELSE q IN
  [p EXCEPT
    !.cands[r.line] = IF r.kind = "candidate" THEN [@ EXCEPT ![r.pos] = copy] ELSE @,
    !.vars = [l \in Lines |->
                IF r.kind = "variant" /\ l = r.line THEN [@[l] EXCEPT ![r.pos] = copy]
                ELSE [i \in DOMAIN @[l] |-> follow(@[l][i])]],
    !.origin = [l \in Lines |-> follow(@[l])],
    !.main[r.line] = IF r.kind = "candidate" THEN follow(@) ELSE @]

\* What will become of a record whose path was first and is path by its turn.
AssetStatus(now, reserved, first, path) ==
  IF path \in reserved THEN "reused"
  ELSE IF now[path] = Gone THEN "missing"
  ELSE IF ~IsCopy(path) THEN "copy"
  ELSE IF IsCopy(first) THEN "local" ELSE "reused"

PlanRecord(now, before, acc, r) ==
  LET path   == PathAt(acc.project, r)
      status == AssetStatus(now, acc.reserved, PathAt(before, r), path)
      copy   == UniqueCopy(now, acc.reserved, r.line, NameOf(path))
      entry  == [slot |-> r, first |-> PathAt(before, r), path |-> path, stat |-> now[path],
                 status |-> status, copy |-> IF status = "copy" THEN copy ELSE NoPath] IN
  IF status = "copy"
  THEN [project |-> Rewritten(acc.project, r, path, copy),
        reserved |-> acc.reserved \cup {copy}, entries |-> Append(acc.entries, entry)]
  ELSE [acc EXCEPT !.entries = Append(@, entry)]

\* The preview and its signature: what the Project refers to and every entry.
AssetsPreview(p, now) ==
  [refs |-> [p EXCEPT !.text = 0],
   entries |-> FoldLeft(LAMBDA acc, r : PlanRecord(now, p, acc, r),
                        [project |-> p, reserved |-> {}, entries |-> <<>>],
                        AssetRecords(p)).entries]

PlannedCopies(plan) == {i \in DOMAIN plan.entries : plan.entries[i].status = "copy"}

----------------------------------------------------------------------------
(* Copying: the session's preview and the call *)

\* A bound of the model: names are left for the copies of one more call.
RoomForCopies == \A l \in Lines, n \in Names, k \in 1..MaxSuffix : files[Copy(l, n, k)] = Gone

ReviewAssets ==
  /\ call = Idle /\ "assets" \in user.does /\ RoomForCopies
  /\ review' = [review EXCEPT !.assets = [kind |-> "assets", confirmed |-> FALSE,
                                          plan |-> AssetsPreview(open, files)]]
  /\ UNCHANGED <<files, open, saved, call, result>> /\ unchangedForks

ConfirmAssets ==
  /\ call = Idle /\ review.assets # NoReview
  /\ review' = [review EXCEPT !.assets.confirmed = TRUE]
  /\ UNCHANGED <<files, open, saved, call, result>> /\ unchangedForks

\* A plan that is not current is replaced by one that is, to be confirmed again.
RenewedAssets(p) ==
  [review EXCEPT !.assets = [kind |-> "assets", confirmed |-> FALSE,
                             plan |-> AssetsPreview(p, files)]]

AssetsReport(ok, why) == Report([op |-> "assets", ok |-> ok, why |-> why])

\* Apply is clicked: the plan is made again and compared, and the copying starts
\* on a clone of the Project.
CopyAssets ==
  LET stored == review.assets IN
  /\ call = Idle /\ stored # NoReview /\ stored.confirmed /\ PlannedCopies(stored.plan) # {}
  /\ RoomForCopies
  /\ IF AssetsPreview(open, files) = stored.plan
     THEN /\ call' = [op |-> "assets", pc |-> "copy", why |-> "", plan |-> stored.plan,
                      before |-> open, project |-> open, todo |-> AssetRecords(open),
                      made |-> <<>>, had |-> {c \in Copies : files[c] # Gone}, stuck |-> {}]
          /\ UNCHANGED <<result, review>>
     ELSE AssetsReport(FALSE, "stale") /\ review' = RenewedAssets(open)
  /\ UNCHANGED <<files, open, saved>> /\ unchangedForks

\* The file a record names is there and is not one of candidates/ already.
ToCopy(path) == files[path] # Gone /\ ~IsCopy(path)

\* One record: there is nothing to copy, or the file is copied and the clone says
\* so, or the copying breaks off, with or without a file that is left incomplete.
AssetsCopyOne ==
  LET r == Head(call.todo)
      path == PathAt(call.project, r)
      copy == UniqueCopy(files, {}, r.line, NameOf(path)) IN
  /\ call.op = "assets" /\ call.pc = "copy" /\ call.todo # <<>>
  /\ \/ /\ files[path] = Gone \/ IsCopy(path)
        /\ call' = [call EXCEPT !.todo = Tail(@)] /\ UNCHANGED files
     \/ /\ ToCopy(path)
        /\ files' = [files EXCEPT ![copy] = files[path]]
        /\ call' = [call EXCEPT !.todo = Tail(@), !.made = Append(@, copy),
                                !.project = Rewritten(@, r, path, copy)]
     \/ /\ ToCopy(path)
        /\ files' \in {files, [files EXCEPT ![copy] = Partial]}
        /\ call' = [call EXCEPT !.pc = "undo", !.why = "copy failed"]
  /\ UNCHANGED <<open, saved, review, result>> /\ unchangedForks

\* All records are done.  The Project takes over the clone if as many files were
\* copied as the plan said.
AssetsTakeOver ==
  /\ call.op = "assets" /\ call.pc = "copy" /\ call.todo = <<>>
  /\ IF Len(call.made) = Cardinality(PlannedCopies(call.plan))
     THEN open' = call.project /\ call' = [call EXCEPT !.pc = "save"]
     ELSE call' = [call EXCEPT !.pc = "undo", !.why = "stale"] /\ UNCHANGED open
  /\ UNCHANGED <<files, saved, review, result>> /\ unchangedForks

\* The Project is written beside its JSON file and takes the file's place, or
\* nothing of it does.
AssetsSave ==
  /\ call.op = "assets" /\ call.pc = "save"
  /\ \/ /\ saved' = Loaded(open)
        /\ AssetsReport(TRUE, "")
        /\ review' = [review EXCEPT !.assets = NoReview, !.cleanup = NoReview]
     \/ /\ call' = [call EXCEPT !.pc = "undo", !.why = "save failed"]
        /\ UNCHANGED <<saved, review, result>>
  /\ UNCHANGED <<files, open>> /\ unchangedForks

\* The last of the copies made is removed, or cannot be and stays.
AssetsUndoOne ==
  /\ call.op = "assets" /\ call.pc = "undo" /\ call.made # <<>>
  /\ LET copy == Last(call.made) IN
     \/ /\ files' = [files EXCEPT ![copy] = Gone]
        /\ call' = [call EXCEPT !.made = Front(@)]
     \/ /\ call' = [call EXCEPT !.made = Front(@), !.stuck = @ \cup {copy}]
        /\ UNCHANGED files
  /\ UNCHANGED <<open, saved, review, result>> /\ unchangedForks

AssetsGiveUpKeepingClone ==
  /\ call.op = "assets" /\ call.pc = "undo" /\ call.made = <<>>
  /\ AssetsReport(FALSE, call.why)
  /\ UNCHANGED <<files, open, saved, review>> /\ unchangedForks
\* The Project is what it was, and the failure is reported.
AssetsGiveUp ==
  /\ call.op = "assets" /\ call.pc = "undo" /\ call.made = <<>>
  /\ open' = call.before /\ AssetsReport(FALSE, call.why)
  /\ review' = IF call.why = "stale" THEN RenewedAssets(call.before) ELSE review
  /\ UNCHANGED <<files, saved>> /\ unchangedForks

----------------------------------------------------------------------------
(* Cleanup: the plan *)

\* A file of generated/ that neither the Project in the session nor the saved one
\* names, with the copies of the same content that one of them names.
CleanupItem(g, refs, now) ==
  [source |-> g, stat |-> now[g], kept |-> {c \in Copies \cap refs : now[c] = now[g]}]

\* What the Project in the session names, as it would be written, and what the
\* saved one names, read from its JSON file.
LiveReferences(p)     == References(Loaded(p))
SavedReferences(disk) == References(disk)

\* The image files of generated/.
GeneratedFiles(now) == {g \in {Generated(n) : n \in Names} : now[g] # Gone}

CleanupItems(p, disk, now) ==
  LET refs == LiveReferences(p) \cup SavedReferences(disk) IN
  {item \in {CleanupItem(g, refs, now) : g \in GeneratedFiles(now) \ refs} : item.kept # {}}

\* What every file of the two folders holds.
Scanned(now) == [q \in Copies \cup {Generated(n) : n \in Names} |-> now[q]]

\* The scan and its signature: both Projects, every file of the two folders and
\* what is to be removed.
CleanupPreview(p, disk, now) ==
  [project |-> p, disk |-> disk, items |-> CleanupItems(p, disk, now),
   scanned |-> Scanned(now)]

ItemHoldsSource(item, now) == now[item.source] = item.stat
\* The file and the copies kept of it are what the scan found.
ItemHolds(item, now) ==
  now[item.source] = item.stat /\ \A c \in item.kept : now[c] = item.stat

----------------------------------------------------------------------------
(* Cleanup: the session's preview and the call *)

ScanDuplicates ==
  /\ call = Idle /\ "cleanup" \in user.does
  /\ review' = [review EXCEPT !.cleanup = [kind |-> "cleanup", confirmed |-> FALSE,
                                           plan |-> CleanupPreview(open, saved, files)]]
  /\ UNCHANGED <<files, open, saved, call, result>> /\ unchangedForks

ConfirmCleanup ==
  /\ call = Idle /\ review.cleanup # NoReview
  /\ review' = [review EXCEPT !.cleanup.confirmed = TRUE]
  /\ UNCHANGED <<files, open, saved, call, result>> /\ unchangedForks

\* However the cleanup ends, its preview is dropped.
CleanupReport(why) ==
  /\ Report([op |-> "cleanup", ok |-> why = "", why |-> why])
  /\ review' = [review EXCEPT !.cleanup = NoReview]

\* Delete is clicked: the scan is made again and compared.
CleanDuplicates ==
  LET stored == review.cleanup IN
  /\ call = Idle /\ stored # NoReview /\ stored.confirmed /\ stored.plan.items # {}
  /\ IF CleanupPreview(open, saved, files) = stored.plan
     THEN /\ call' = [op |-> "cleanup", pc |-> "check", why |-> "", plan |-> stored.plan,
                      todo |-> stored.plan.items, deleted |-> 0]
          /\ UNCHANGED <<result, review>>
     ELSE CleanupReport("stale")
  /\ UNCHANGED <<files, open, saved>> /\ unchangedForks

\* Before the first removal every item and the saved Project are looked at again.
CleanupCheck ==
  /\ call.op = "cleanup" /\ call.pc = "check"
  /\ IF (\A item \in call.todo : ItemHolds(item, files)) /\ saved = call.plan.disk
     THEN call' = [call EXCEPT !.pc = "remove"] /\ UNCHANGED <<result, review>>
     ELSE CleanupReport("stale")
  /\ UNCHANGED <<files, open, saved>> /\ unchangedForks

\* The item whose turn it is, in the order of the file names.
NextItem ==
  CHOOSE item \in call.todo : \A other \in call.todo : NameOf(item.source) <= NameOf(other.source)

\* Right before a removal the item and the saved Project are looked at once more.
CleanupMayRemove == ItemHolds(NextItem, files) /\ saved = call.plan.disk

\* One item: the file is removed, or cannot be, or is not what the scan found.
\* The cleanup stops at the first that stays.  Looking at the files and removing
\* one are calls next to each other; nothing is modelled in between.
CleanupRemove ==
  /\ call.op = "cleanup" /\ call.pc = "remove" /\ call.todo # {}
  /\ \/ /\ CleanupMayRemove
        /\ files' = [files EXCEPT ![NextItem.source] = Gone]
        /\ call' = [call EXCEPT !.todo = @ \ {NextItem}, !.deleted = @ + 1]
        /\ UNCHANGED <<result, review>>
     \/ CleanupMayRemove /\ CleanupReport("partial failure") /\ UNCHANGED files
     \/ /\ ~CleanupMayRemove
        /\ CleanupReport(IF call.deleted = 0 THEN "stale" ELSE "partial stale")
        /\ UNCHANGED files
  /\ UNCHANGED <<open, saved>> /\ unchangedForks

CleanupDone ==
  /\ call.op = "cleanup" /\ call.pc = "remove" /\ call.todo = {} /\ CleanupReport("")
  /\ UNCHANGED <<files, open, saved>> /\ unchangedForks

\* The steps of a call that has begun.
AssetCall ==
  \/ AssetsCopyOne \/ AssetsTakeOver \/ AssetsSave \/ AssetsUndoOne \/ AssetsGiveUp
  \/ CleanupCheck \/ CleanupRemove \/ CleanupDone
=============================================================================
