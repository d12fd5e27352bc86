------------------------------ MODULE FolderState ------------------------------
(***************************************************************************)
(* The state the operations on Project folders share, and the calls they   *)
(* make of the file system: renaming a directory and removing one, each    *)
(* tried again while Windows holds a lock.                                 *)
(*                                                                         *)
(* The operations run one at a time, each inside one call of the app's     *)
(* script; between two steps of a call other programs may change files.    *)
(***************************************************************************)
EXTENDS FolderData

VARIABLES
  files,   \* the content of each image file, Gone when there is none
  open,    \* the Project in the session
  saved,   \* what the Project's JSON file holds
  dirs,    \* the trees of the directories Forks are made in
  call,    \* the operation that is running, and how far it is
  review,  \* the previews the session keeps, by operation
  result,  \* what the last operation reported
  user     \* what the user sets out to do, and how many changes are still made meanwhile

folderVars == <<files, open, saved, dirs, call, review, result, user>>

ForkDirs == {"fork", "staging", "backup", "aside"}

Idle == [op |-> "none", pc |-> "idle", why |-> ""]
NoReview == [kind |-> "none"]

\* The call goes on at pc with its number of tries at zero.
At(pc) == [call EXCEPT !.pc = pc, !.tries = 0]
\* The call has failed and goes on at pc, which puts things back.  The first
\* reason is the one that is reported.
Fail(pc, why) ==
  [call EXCEPT !.pc = pc, !.tries = 0, !.why = IF @ = "" THEN why ELSE @]

\* The call is over and has reported.
Report(r) == call' = Idle /\ result' = r

----------------------------------------------------------------------------
(* A rename that is tried until it is done, refused or out of tries *)

\* A try may succeed only while nothing has the name the directory is to get.
RenameDone(from, to, tree) ==
  /\ dirs[to] = Absent /\ dirs[from] # Absent
  /\ dirs' = [dirs EXCEPT ![to] = tree, ![from] = Absent]

\* Windows holds a file of the directory and the rename is tried again.
RenameLocked(to) ==
  /\ dirs[to] = Absent /\ call.tries + 1 < Tries
  /\ call' = [call EXCEPT !.tries = @ + 1]
  /\ UNCHANGED <<dirs, result>>

\* The name is taken, the last try met a lock or another error came.
RenameRefused(to) == IF dirs[to] # Absent THEN "destination already exists"
                     ELSE "rename failed"

----------------------------------------------------------------------------
(* The removal of a directory that is tried until it is gone *)

RemoveDone(dir) == dirs' = [dirs EXCEPT ![dir] = Absent]

\* A file of the directory cannot be removed; what went before it is gone.  The
\* removal is tried again when Windows held the file and tries are left.
RemoveStopped(dir) ==
  /\ dirs[dir] # Absent
  /\ \E t \in Torn(dirs[dir]) : dirs' = [dirs EXCEPT ![dir] = t]

MayTryAgain == call.tries + 1 < Tries
=============================================================================
