# PromptGraph Pro in TLA+: the agent session, the Gallery, Prompts and Project files

PromptGraph Pro is a Streamlit application for editing prompt graphs. Beside the
editor it has an *agent session*: an external MCP client reaches one browser
session over a local named pipe, asks for tools, proposes changes and generation
runs, and a human reviews and applies them in the page. That part is concurrent
(script threads, a polling fragment, pipe threads, worker threads), has deadlines,
can be interrupted anywhere, and is held together by locks, epochs, one-use claims
and capacity-one slots. This directory models it in TLA+, checks it with TLC and
proves its central invariants with TLAPS.

Paths below are relative to the repository (`src/` here).

## 1. Inventory

### Session mailbox - `ui/project_agent_session_mailbox.py`
*State*: one slot (`idle, pending, wake_requested, service_due, executing,
reply_ready, closed`), the request with its target epoch, deadline and pairing
generation, the claim id, the mark `invalidated_while_executing`, the reply with its
status, review identity and generation, and the wake-up backoff.
*Operations*: `submit`, `synchronize_target_epoch`, `begin_full_app_run`,
`fragment_tick`, `_claim_for_service`, `complete`, `complete_with_review`,
`complete_with_duplicate_review`, the review custody operations, `consume_reply`,
`close`. *Hard*: `_claim_for_service` and `consume_reply` drop the lock to copy and
re-check afterwards; deadlines race with completion; a target change races with all.
*Correct when*: no request runs twice, no reply reaches a call it does not answer or
outlives its target, and nothing accepted is forgotten.

### Project target tracker - `ProjectTargetTracker` in the same file
*State*: the Project object and path seen last, and the epoch handed out for them.
*Operations*: `observe`, `close`. *Correct when*: an epoch stands for exactly one
activation of one Project at one path.

### Session runtime and request pump - `ui/project_agent_session_pump.py`
*State*: mailbox, tracker, custodians, jobs, inbox, the publication gate, `_closed`.
*Operations*: `synchronize_target`, `begin_project_agent_session_run`,
`service_project_agent_session_request`, the polling fragment,
`publish_review_apply`, `save_published_review_apply`,
`reconcile_published_review_apply`, arm/disarm, `close`, and the host side of
generation. *Hard*: runs are interrupted by Streamlit at any session-state access
(`ScriptControlException` is a `BaseException`); with `runner.fastReruns = true` runs
overlap. *Correct when*: work is done for the live Project, once, by the newest run.

### Capture safety and bridge - `ui/project_capture_safety.py`, `ui/project_agent_request_bridge.py`
*State*: the run token in the session state. *Operations*: `begin_project_capture_run`,
`capture_active_project`, `dispatch_project_agent_request`. *Correct when*: an answer
is computed from the Project active in the current run only.

### Gateway, registry, pipe - `agent_adapters/mcp_named_pipe_gateway.py`, `ui/project_agent_session_registry.py`, `ui/project_agent_named_pipe.py`
*State*: one paired client; routes, pairing nonces and generations; endpoints with
their connection. *Operations*: `call_tool`; register, arm, claim, release,
route operations; accept, serve, drain and release. *Hard*: disconnects while work is
in flight, release racing with work, one-use pairing. *Correct when*: at most one
client owns a route, an old pairing generation can do nothing, and an abandoned
request is drained before the route is paired again.

### Review custody and apply - `ui/agent_scene_module_swap_approval_lifecycle.py`, `ui/agent_scene_module_swap_apply_lifecycle.py`, `ui/agent_generation_review_custody.py`
*State*: one proposal (`prepared, pending, applying`, published or not), revision,
tombstones. *Operations*: check, prepare, commit with the reply, inspect, resolve,
mark stale, claim for apply, publish, finish, cancel, expire, close. *Hard*: commit and
acknowledgment must be one step; apply replaces the Project, which changes the target
epoch that revokes every other proposal; retries and replays. *Correct when*: a queued
acknowledgment stands for a pending proposal, a proposal is applied at most once and
only to the Project it was computed from.

### Generation jobs, executor inbox and handoff - `ui/agent_generation_job.py`, `ui/agent_generation_start_lifecycle.py`, `ui/agent_generation_executor_inbox.py`, `ui/agent_generation_executor_handoff.py`, `ui/agent_generation_executable_*.py`
*State*: up to eight jobs with event sequences, one inbox slot, the executable review
and its revision. *Hard*: the review is computed outside the gate, an executor's answer
races its acceptance, unknown outcomes, late and repeated events, target changes between
confirmation and start. *Correct when*: a proposal starts at most one job, nothing is
handed off that was not reviewed, an unknown outcome is never taken for a rejection.

### Executor adapter, journal, HTTP worker - `ui/agent_generation_comfy_executor.py`, `ui/agent_generation_http_executor.py`, `ui/agent_generation_http_io_worker.py`, `ui/agent_generation_executor_journal.py`, `core/generation_multi_request_journal.py`
*State*: phase and index of the operation; a chain of intents, outcomes and settlements
in one file with its lock file; a worker thread with one task. *Hard*: a crash or a
failing disk between any two writes, a host that stops waiting for a POST that goes on, a
transport that never returns, closing. *Correct when*: the file never denies a send,
nothing is sent twice or out of order, no caller hangs.

### Protected storage, capacity, publication - `core/generation_storage_admission.py`, `ui/agent_generation_original_host_worker_storage.py`, `ui/agent_generation_candidate_publication.py` and the runtime's calls
*State*: the capacity ledger with its totals, the refresh slot, publication and save
tokens, the writer lease; per request an attempt with some fifteen one-shot stages.
*Hard*: calls claim under the gate, work outside and publish under it again, while a
revocation, a host change or a close comes in between; native work that fails after
files exist. *Correct when*: every file that may exist is charged, what is uncertain
stays so, cancelled attempts commit nothing, a close ends.

### Project model and Gallery - `core/project.py`, `core/route_operations.py`, `core/gallery_*.py`, `core/route_batch_candidate_adoption.py`, `app.py`
*State*: the list of lines (a Scene is a separator and what follows it), the displayed
order, candidates, main images, the Trash, undo history, previews on screen, the saved
file. *Hard*: previews applied after other edits and Undo, partial restores, two
positions per line. *Correct when*: Scenes stay whole, deletions have a reason, an apply
has the previewed effect, main images stay reachable.

### Prompt editing - `core/parser.py`, `core/graph_builder.py`, `core/operations.py`, `core/module_candidate_apply.py`, `core/global_module_candidate_apply.py`, `app.py`
*State*: the texts and tokens of the lines, Modules written inline (`<m:N>...</m:N>`) or by
reference to the library, Attribute Groups, Illustration Groups, the graph nodes, and the
preview on screen. *Operations*: batch edits, focus propagation, presets, swaps of Modules
and of Attribute Groups, propagation, references inserted or put for words, creation and
renaming of Modules, renaming, weighting, deleting, moving and merging of tokens. *Hard*: a
text has four readings (coarse and fine splitting, tokens, nodes); a preview is computed
once and its Apply computes the change again after whatever was edited meanwhile. *Correct
when*: a preview tells what its Apply does, only lines of its scope change, a swap leaves
other tokens alone, a reference loses none of the words it stands for.

### Project files - `core/io.py`, `core/lightweight_fork.py`, `core/lightweight_fork_append.py`, `ui/project_assets_*_lifecycle.py`, `ui/project_save_as_lifecycle.py`
*State*: the Project in the session and its JSON file, the image files, the directories of
Forks (the Fork, staging, backup, aside), the reviewed plans. *Operations*: create a Fork,
append Scenes to one, copy assets into the Project, clean up the sources of copies, Save,
Save As, duplication, import. *Hard*: several renames, copies and removals, each of which
can fail, be locked for a while or break off; files change under a reviewed plan. *Correct
when*: what is made is what was reviewed, a failure leaves what was there, no last copy of
an image is removed.

### ComfyUI client, MCP adapter, facade, presentation
Stateless conversion, network and operating-system I/O. Of these only the one POST of
the submission transport is in a model.

### Interactions

    MCP client -> gateway.call_tool -> pipe -> registry route -> mailbox.submit / consume_reply
    browser    -> fragment_tick -> st.rerun -> full script run
    full run   -> begin_full_app_run ; service point: claim -> bridge -> complete[_with_review]
    human      -> review panel -> custody (through the mailbox) -> apply -> Project replaced
    human      -> executable review -> confirmation -> job claimed -> envelope in the inbox
    executor   -> takes the envelope -> journal -> HTTP worker -> events, outputs
    outputs    -> capacity admission -> staging -> promotion -> Candidates -> Project save
    page       -> Project or path replaced -> tracker epoch -> mailbox, custody, jobs
    page       -> preview -> other edits -> confirm -> lines, Modules, Gallery, files

The publication gate of the runtime serializes target changes, apply publication and
close; the mailbox lock is always taken before a custodian lock.

## 2. Plan

| order | modules | what they model | builds on |
|---|---|---|---|
| 1 | `Mailbox`, `RequestSlot`, `SessionPump` | the mailbox, what it promises, and the pump that serves it | refinement of `RequestSlot` |
| 2 | `MailboxTheorems`, `SessionPumpProofs` | its safety and the refinement, proved | 1 |
| 3 | `ReviewCustody`, `ReviewSession` | review of a change and its apply | `Mailbox` |
| 4 | `GenerationJobs`, `GenerationStart` | from a reviewed proposal to a finished job | |
| 5 | `StorageAttempt`, `WorkerStorage` | the stages of a generated file up to the Project save | |
| 6 | `StorageAdmission` | the capacity owner | |
| 7 | `SceneBlocks`, `SceneGallery` | the Project as lines and Scenes, and a Gallery session | |
| 8 | `HttpWorker`, `JournalFile`, `HttpExecutor` | one operation through journal and worker | |
| 9 | `PairedRoute` | pairing of a client and its loss | |
| 10 | `PairedRouteProofs`, `GenerationStartProofs` | safety of 9 and 4, proved | 9, 4 |
| 11 | `HttpExecutorProofs` | safety of 8, proved | 8 |
| 12 | `WorkerStorageProofs` | safety of 5, proved | 5 |
| 13 | `ReviewSessionProofs` | safety of 3, proved | 3 |
| 14 | `StorageAdmissionProofs` | safety of 6, proved | 6 |
| 15 | `FolderData`, `FolderState`, `ForkFolders`, `ProjectAssets`, `ProjectFolders` | Forks, their append, asset copies and their cleanup | |
| 16 | `PromptText`, `PromptModules`, `PromptBatch`, `PromptNodes`, `PromptEditing` | the Prompts, the operations on them, and the tools with their previews | |

All of these exist. What could follow: a theory of the cut lines of `SceneBlocks`, with
which the Gallery could be proved about; and the parts of section 7.

Every model module keeps one operation of the code per action, its parameters as
CONSTANTS, with named assumptions where a proof needs them, and no recursive operator in a
module that is proved about (only `PromptModules` and `PromptBatch`, which TLC alone
evaluates, have one each). `MC...` modules only give constants their values.

## 3. Modules

### `Mailbox`
A mailbox is a record with the Python object's fields (`_reply_is_review_request`,
`_reply_review_identity` and `_reply_review_owner` are the one field `review`). Each
operator is one `with self._lock` block; a method that releases the lock in the middle
is two operators: `ClaimTake`/`ClaimCheck` for `_claim_for_service`, `Peek`/`Take` for
`consume_reply`; and the synchronization that `begin_full_app_run`,
`_claim_for_service` and `complete` perform first, under the lock but separately, is
`SynchronizeTargetEpoch`, a step of its own in the modules that use it. Epochs, request
ids and claim ids are numbers; a reply is the request it answers and the Project target
it was computed from (`content`). Payload copying and its size limits are left out: a
bridge result that is not a JSON object is `NoReply`.

### `RequestSlot`
The abstract service: one slot, each request accepted, started at most once,
completed or refused, collected. A change of target refuses what is not started or
not collected and revokes what is started, in the same step.

### `SessionPump`
| model | code |
|---|---|
| `run`, `pc` per script run | local variables and position of `begin_project_agent_session_run`, `service_project_agent_session_request` |
| `token` | `PROJECT_CAPTURE_RUN_TOKEN_KEY` in the session state |
| `session` | `session_state["project"]` with `current_project_path`, one value per activation identity |
| `tracker`, `epochs` | `ProjectTargetTracker`; `epochs` counts the uuids handed out |
| `closed` | `ProjectAgentSessionRuntime._closed` |
| `gateway` | local variables of `call_tool` |
| `targetOf`, `dispatches`, `slot` | history variables, used by properties only |

`Gate` is `synchronize_target` under the publication gate with the arguments the run
read before (`BeginRun`, `ReachServicePoint`, `ReturnFromBridge`); `Resynchronize` the
mailbox's own synchronization with the returned epoch; `MarkRun`, `InlineTick`,
`PollFragment`, `Claim`, `Confirm`, `Dispatch`, `Publish` the critical sections in
their order. `Interrupt` ends a run at a session-state access. `FetchEpoch`,
`SubmitRequest`, `PeekReply`, `TakeReply` are `call_tool`. `SwitchTarget` is any
replacement of Project or path by the page. `FastReruns` is a constant: the run uses the
shipped `FALSE` (serialized runs), the proofs cover overlapping runs too.

### `ReviewCustody`
A custodian is a record with the fields of `AgentSceneModuleSwapApprovalCustodian`
(the record in custody, the revision, the ordered tombstones, what the human is shown);
`AgentGenerationReviewCustodian` is the same without the apply. Each operator is one
call under the custodian's lock; the last section has the mailbox methods that hold
both locks. The secrets of a proposal (prepared token, acknowledgment identity, apply
token) are drawn once per proposal and are its number; digests and plan ids are the
intent, a preview is the content of the Project it shows.

### `ReviewSession`
| model | code |
|---|---|
| `cust` | `runtime.review_custodian`, `runtime.generation_review_custodian` |
| `session`, `history` | `session_state["project"]` with its path and content, `session_state["history"]` |
| `gate` | `_publication_gate`, held over the steps of an apply's publication |
| `pc`, `run` | position and local variables of the script thread: the service point with the bridge, or `apply_agent_scene_module_swap_approval` |
| `client`, `pairing` | the paired client's call and pairing generation |
| `origin`, `replaced`, `outcome`, `run.undo` | history variables, used by properties only |

Runs are serialized, so the script thread is one process; the pipe's threads
(`SubmitRequest`, `PeekReply`, `TakeReply`), the clock and `CloseSession` interleave
with every step of it. `Serve` to `PublishDuplicate` are the service point;
`CompleteWithReview` and `CompleteWithDuplicate` the two atomic publications with every
refusal in the code's order. `Inspect`, `ResolveProposal`, `MarkProposalStale`,
`Disarm` are the panels; `StartApply` to `LookAfterApply` the apply: claim, core,
`StagePublication`, `ReplaceProject` or `RollbackPublication`, `RetireAck`,
`ObserveReplacement`, save, finish. The target synchronization updates the mailbox with
the swap custodian and then the generation custodian; the two are one step. A
synchronization with a target that was just synchronized is no step.
For a generation proposal `Looked` first retires a record of another pairing generation, as
its custodian does; no run reaches that (`review_apply` is about swaps, `review_shared` has one
pairing), the proofs cover it. A run by hand with both kinds and two pairings reached it and
found the safety properties to hold.

### `GenerationJobs`
The job registry and the executor inbox as two records; every operator is one call
under their lock. `jobs` is a function from the numbers of the jobs kept to their
records, `reqs` of a job its requests with their outputs and how many are registered.
`ApplyEvent` is `event_for_characterization` with the aggregation of the job's state,
`Publication` and `Save` the registration and the save of outputs, `SettleJob` the
settlement of a handoff in registry and inbox together, `LateEvent` the event that
finds only the inbox's tombstone. Progress texts and prompt ids are left out.

### `GenerationStart`
| model | code |
|---|---|
| `rt` | `ProjectAgentSessionRuntime` with custodian, executable review, registry and inbox; one change of it is one hold of the publication gate |
| `host` | the Project object with its path, and its content |
| `call` | the human's call in progress, with its local variables |
| `action` | `ExecutorHumanStartAction`, captured when the button was shown |
| `made`, `taken`, `answers` | what each job was claimed for, who holds its envelope, what its start answered (history) |

`PrepareBegin`/`Build`/`PrepareEnd` and `InspectBegin`/`InspectCompute`/`InspectEnd`
compute the review outside the gate; `Confirm`, `CaptureAction`. `HandoffReserve` to
`HandoffSettle` are the start through the inbox, `StartBegin` to `StartAnswered` the
plain start. `ExecutorAccepts`, `DeliverEvent`, `PublishOutputs`, `SaveOutputs`,
`CancelJob`, `Retire` act on the job; `HostChanges`, `Propose`, `ProposalEnds`, `Pair`,
`Unpair`, `Disarm`, `Close`, `Pump`, `Tick` are the surroundings. `DeliverEvent` offers
the last sequence number again or the next one: every other number is refused unseen, and an event
again is refused whatever its kind (one with outputs and one without are drawn).

### `StorageAttempt`, `WorkerStorage`
`StorageAttempt` has the record of the original host's integration (`att`: one attempt
per request with its stages; `ledger`: the capacity entries of the staged and of the
promoted file; `job`: the job's events; `todo`: what a revocation has still to release)
and one operator per transition of it. `WorkerStorage` drives it: each stage is a call
whose `...Begin` claims under the gate, whose middle steps do the work outside, and
whose `...End` publishes under the gate (`SubmitWithEvent`, `PreAdmit...`, `Evidence...`,
`Stage...`, `Accept...`, `Promote...`, `PublishPromotion...`, `OutputsReady...`,
`Admit...`, `Candidates...`, `Save...`). `HostChanges`, `Reconcile`, `Close`,
`ReleaseRevoked`, `FinishClose`, `CapacityChanges` come between. The code's exact owner,
marker and receipt comparisons are comparisons of states; a native check is a choice of
its outcome. `disk`, `gallery` and `saves` are what really happened.

### `StorageAdmission`
| model | code |
|---|---|
| `led` | the ledger: entries, files it knows, reserved, observed and retained bytes per purpose |
| `own` | invalidation, revocation, close and the scope writer lease |
| `slot`, `tokens` | the refresh slot; publication and save tokens |
| `disk` | the files that exist, a stranger's among them |
| `th` | where each thread is in its call |

A refresh is `Claim`, `Scan` outside the lock and `Observe`; `Drain` waits for the slot.
`Begin`, `Reserve`, `Admit`, `Create`, `CompleteScan`, `Complete`, the cancels and
retentions are an operation; `CloseBegin` to `CloseLease` the close. Entries and bytes
have one limit each; both are one number.

### `SceneBlocks`, `SceneGallery`
`SceneBlocks` is the list of lines and the pure operations on it: blocks, moves,
duplication, removal and restore, insertion, the displayed order (`ix` is
`current_index`). `SceneGallery` is the session: one action per click with all it does
(history push, remembered candidates, autosave), previews with what they signed
(`Sign`) and showed (`effect`), `Undo`, `Open`. `disk` is the saved file; a failed save
leaves it. `desk` bounds the session and is no state of the code.

### `PromptText`, `PromptModules`, `PromptBatch`, `PromptNodes`, `PromptEditing`
A text is a sequence of pieces (what is between two top-level commas), a piece a sequence of
words with weights and of opening and closing Module tags. `Coarse` and `Fine` are the two
ways the code reads a text (`parse_prompt`, `_parse_prompt_for_module_preset`), `Graphed`
what `build_graph` makes of the tokens: a node for each word, or for each word and its
place (`Merged`). `PromptModules` has the library and what depends on it (candidates,
detection, swaps, scopes), `PromptBatch` the edits of many lines, `PromptNodes` those by
nodes. Each is a pure operator with its preview; `preview_...` and `apply_...` of the code
that share a helper share an operator.

| model | code |
|---|---|
| `prompts`, `library`, `groups`, `lineGroups` | `project.prompt_lines` with the graph's paths, `module_library`, `attribute_groups`, `line_groups` |
| `review` | the preview in the session state: tool, arguments, targets, the lines it named, what it kept to compare |
| `edits` | counts edits (bound) |

A `Review...` action is a preview, the `Apply...` or `Confirm...` action with the same tool
its button, with the code's guards for a stale one: most tools compare their arguments
only, the reviewed candidates and the detected Modules also the texts and the library.
The other actions are the tools without a preview. Each rebuilds the graph (`Edited`).

### `FolderData`, `FolderState`, `ForkFolders`, `ProjectAssets`, `ProjectFolders`
| model | code |
|---|---|
| `files` | the content of each image file, `Gone`, or `Partial` after a copy that broke off |
| `open`, `saved` | `session_state["project"]` and its JSON file: main images, Candidates, Variants and origins by line, trash, text |
| `dirs` | the Fork's directory, `.staging`, `.append-backup`, `.append-rollback` |
| `call` | the operation that runs, its step, its plan and how often a rename was tried |
| `review`, `result` | the previews kept, with their confirmation; the last report |
| `user` | what this user sets out to do and how many changes others still make (bound) |

`FolderData` has the plans (`ForkPreview`, `AppendPreview`, `AssetsPreview`,
`CleanupPreview`) and the refusals; `FolderState` the renames and removals with their
retries: done, locked, refused, broken off. `ForkFolders` has `materialize_lightweight_fork`
and `append_selected_routes_to_existing_fork` step by step, up to the rollbacks;
`ProjectAssets` the copy on a clone, its saving and its undoing, and the cleanup that checks
every item before the first removal (`CleanupCheck`) and each again before its own. In `ProjectFolders` the user edits between calls, and other programs
change images, the JSON file or the Fork between any two steps.

### `HttpWorker`, `JournalFile`, `HttpExecutor`
`HttpWorker` is the worker as a record with one operator per hold of its lock,
`JournalFile` the file (events, lock file, temporary file) and its writer.
`HttpExecutor` is the adapter's call over both: `pc` is where the call is, `phase` and
`idx` the adapter's fields, `owner` the intent it owns, `job` the registry's job, `sent`
what was connected to the server (history). The worker's thread (`ThreadTakes`,
`ThreadEnters`, `Post`, `TransportReturns`, `ThreadStops`), publication of outputs, job
expiry, Project edits, and closes of worker and journal run beside it. A crash needs no
action: it leaves the file and what was sent, and the properties hold of those at every
moment. The host check and the creation of the lock file are one step; `WriteFails` also
stands for a lock file that cannot be created.

### `PairedRoute`
| model | code |
|---|---|
| `bk` | the broker: the lease of each session, the launcher slot with its file, the offers with their endpoint threads |
| `route`, `mail` | the registry's record of a session; the mailbox reduced to idle, busy, ready, closed and the pairing its request came from |
| `runtime` | arm, disarm and close of the session, and whether it knows the broker |
| `client` | launcher and gateway of a client |
| `used` | offers made, and those whose disarm has returned (history) |

Every step is one hold of the broker's or the registry's lock or one exchange on a pipe.
`Arm`, `Armed`, `DisarmSlot`, `DisarmOffer`, `Retire`, `CloseGate` to `CloseTransport`
are the session; `Accept`, `ReadClaim`, `Mark`, `Reply`, `StopServing`, `Drain`,
`Finish` an endpoint's thread, `Late` and `Expire` its timers; `Launch` to `Release` a
client. The deadlines of registry and lease, set together, are one.

## 4. Runs

| run | expects | question |
|---|---|---|
| `pump_serialized` | pass | with the shipped configuration, interrupts, two calls, target switches, expiry and close: reply and delivery currency, refinement of `RequestSlot` (with it at most one start of a request), and unclaimed work resolved |
| `review_apply` | pass | a request and its retry, same or other intent, from proposal to apply, with interrupts, edits, switches, disarm, expiry, a second pairing, close: one proposal per request, acknowledgments true, the apply replaces its own source once |
| `review_shared` | pass | both kinds of proposal in one mailbox: applies end, proposals leave custody |
| `Start` | pass | a proposal started either way as a job of two requests: one job, nothing unreviewed, true reports, every job ends |
| `Storage` | pass | two requests and two images through every stage, all native checks free to fail, revocation and close anywhere: files charged, nothing committed after a cancellation, a save called done is one, every reservation settled after a retirement |
| `Capacity` | pass | two asset operations with tokens, or one beside a replaced journal, strangers and faults; close at any moment: books hold, own writes are not taken for foreign ones, every close returns |
| `gallery` | pass | seven kinds of Gallery sessions with previews, Undo, failing saves and reopening |
| `executor` | pass | two requests through journal and worker with failing disk, timeouts, hung transport and closes: the file never lies, nothing twice or out of order, nobody hangs |
| `Pairing` | pass | two offers of a session with their threads and a client that comes and goes: no inherited request, a disarm revokes, threads and slot given back |

| `folders` | pass | Forks, appends, asset copies and cleanups with failing file operations and changes by others at every step: what is made was reviewed, a failure leaves what was there, a removed file has a copy |
| `append_loss` | violation | an append "preserves all existing Fork edits ... uses a rollback-safe directory transaction" (`docs/pro-v1.md:283`): not when the removal of the backup breaks off |
| `prompts` | pass | fifteen tools previewed, the Prompts edited by the others, then confirmed: a preview tells the change, only its scope changes, a swap keeps other tokens, references lose no word |

Nine properties that TLAPS proves for every instance are in no run: `TypeOK`,
`DispatchedAtMostOnce` and `DispatchIsTimely` of the pump, `UndoRestored`, `LiveJobPinsInbox`,
`RegisteredInItsProject`, `UncertainIsFinal`, `LeasesAreSound`, `LeaseReleasedSettled`. TLC
checked them before they were proved.

**Bounds.** Constants named `Max...` cap what is unbounded in the code; each is a guard of
the action that would pass it, so a bound only cuts behaviours off.
*Pump*: with `Timeout = 2`, `ResultWait = 3`, `MaxTime = 4` a request can expire
unclaimed, executing and completed, and a call can give up while its request executes.
Two targets and three epochs allow switching away and back; two requests let a late reply
meet a later call. The clock bound leaves room for a whole wait after any submission, so
time can always pass a pending deadline.
*Review*: three activations and two epochs let an apply and a page both replace the
Project; two of the activations are interchangeable in `review_apply` (symmetry: they
are only compared, and the run's properties are safety); one-tick lifetimes let request, reply, prepared and pending proposal all expire;
`MaxHistory = 1` makes an apply evict a snapshot. `ProposalsEnd` asks only for proposals
whose time ends within `MaxTime`.
*Start*: two Projects and two contents, two requests with at most one output, two jobs
for one proposal to be refused, four events (a request takes three). *Storage*: one
caller at a time, because the liveness check of two takes too long; every other step,
revocation and close included, still comes between any two steps of it, and two requests
share the lease and the save. Its safety was also checked by hand with two callers (1.4
million states) and is proved for any number. *Capacity*: estimates one or two in a limit of three, a shared limit
of three and five free, so that each limit is the one that refuses.
*Gallery*: the five lines of `MCSceneGallery` have a trashed candidate, a shared image, a
line without image and two Scenes; `Sessions` names kinds of clicks and two or three edits,
because the product of all clicks is too large; a history of two for the code's twenty;
one preview per kind; one failed save. *Executor*: two requests (what may follow what is
decided between neighbours), one explicit read, two outputs. *Pairing*: two offers of one
session to one client, so that an old endpoint meets a new arming; safety was also run
by hand with two sessions and two clients and is proved for all. *Folders*: two Scenes of
one line each; images by two names and three folders, so that two lines can share one and a
copy can find its name taken; a rename or removal is tried twice for the code's six times
(`WINDOWS_RETRY_DELAYS`);
`Users` names what one user does and how many changes others make (one or two), because the
product of all is too large; what one operation does to another's files is the last kind.
*Prompts*: two starts with inline Modules, nested ones, references and shared words in two
lines under a Scene; at most two nodes per place; one preview at a time, opened before the
other edit (`LastPreview = 0`), with room for its Apply. A preview after an edit is the
preview of another start.

**Deadlock** is not checked: with counters at their bounds and the session closed the
system has nothing left to do.

**Fairness.** Pump: a running script goes on (`WF`: it is a thread), a requested rerun is
started, the browser keeps polling between runs (`SF(PollFragment)`: `run_every` fires
again and again but not while a run holds the script thread), a waiting gateway polls,
time passes. Nothing forces a user to switch, interrupt, close or submit. `review_shared`:
the script thread goes on and panels look at custody again and again (every full run
renders them); runs are not interrupted. `Start`: reruns pump the session and time
passes, nothing of the executor. `Storage`: a call that has begun ends, a revocation
finishes its releases. `Capacity`: a call goes on, a holder returns its token (`finally`).
`executor`: the adapter's call and the worker's thread, nothing of the transport.
`Pairing`: threads, timers and time, nothing of clients, users or a request's outcome.
The Gallery, Prompts and folders are safety only.

## 5. Proofs

All theorems hold for every value of the constants that satisfies the modules' named
assumptions, and for nothing else assumed.

**Pump.** `MailboxTheorems` states what each mailbox operator returns: it keeps
`MailboxType` and `WellFormed` and is one of a few kinds of change (`Refused`,
`Completed`, `Submitted`, `Claimed`, `Taken`, `Closed`, `Synchronized`).
`SessionPumpProofs` proves, for both values of `FastReruns`, `TypeCorrect` (`TypeOK`),
`ReplyCurrency` (`RepliesAreCurrent`), `AtMostOnce` (`DispatchedAtMostOnce`),
`TimelyDispatch` (`DispatchIsTimely`), `DeliveriesAreCurrent` (`DeliveryIsCurrent`) and
`Refinement` (`ImplementsRequestSlot`).
`IInv` is a conjunction of named parts, each needed by another: `WellFormed` (unclaimed
work and completed replies are for the current target); `SlotInv` (the history slot is
the mailbox's occupant), for the refinement; `CallerInv` (a call submits only for an
epoch it got); `ClaimInv` (claim ids are fresh, only the claiming run knows the mailbox's
claim), without which a superseded run could complete another's request; `DispatchInv`
(an unclaimed request was never dispatched); `EpochInv` (epochs in use were handed out);
`ServiceInv` (with serialized runs the session's target is the claim epoch's between gate
and dispatch) and `ContentInv` (what a run carries was computed for its claim's target).
The step proof first classifies every action by its effect on the mailbox (`StepKinds`).
`DeliveryIsCurrent` needs one more invariant, `ReaderInv`: every operation that replaces an
outcome also gives the mailbox a new reply generation (`SameOutcome`), so a reader that
finds the generation it saw finds the outcome it copied.

**Pairing.** `PairedRouteProofs` proves `MailIsPaired` (`RepliesStayPaired`),
`LeasesSound` (`LeasesAreSound`) and `DisarmRevokes` (`DisarmedIsRevoked`) from one
invariant: `Table` (the broker's leases, descriptors, endpoints and slot fit each other;
the slot's part is what makes a forgotten offer's slot impossible), `Made` (offers get
their session in order, so an unused offer is nobody's), `Pipes` (a pipe and its client
know each other, so a client's call reaches only its own endpoint), `Paired` (what is in
a mailbox came from the route's pairing, which is never both offered and paired) and
`Revoked` (a revoked offer is no route's verifier). `RepliesStayPaired` alone is not
inductive: a claim must find the mailbox empty, and it does because a paired route has no
verifier. Lemmas on `DropLease`, `Stop` and the endpoint's end are shared by disarm,
expiry, close and the thread itself. `DisarmRevokes` follows from `Revoked` at the one
step that passes from claim to mark, `ReadClaim`.

**Start.** `GenerationStartProofs` proves `ProposalStartsOnce` (`OneJobPerProposal`),
`HandsOffWhatWasReviewed` (`OfferedAsReviewed`), `EnvelopeIsKept` (`LiveJobPinsInbox`),
`JobsAreReportedTruly` (`ReportsAreTrue`) and `OutputsStayInTheirProject`
(`RegisteredInItsProject`). Its invariant: `Drawn` (numbers are drawn before they are
used); `Once` (a proposal that is pending has not been made a job, which is what the claim
under the gate relies on); `Reviewed` (a held review shows its proposal's preview);
`Asked` (a review built at the current revision is the one in preparation, a built view
shows its proposal's preview: without it a review of an edited Project could be stored);
`LiveJobPinsInbox`; `Told` (of a rejected job the inbox holds nothing, an offered envelope
was not taken, a job of the plain start is not in the inbox); `Sound` (a job's state
agrees with its requests', nothing lives in a closed registry). The step proof separates
what a step does to the registry (`Later`: jobs are forgotten or end, none appears or
revives), to the runtime (`Quiet`), to the pinned envelope, and to the call. `IInv` was
checked by TLC on the constants of `Start` and, as far as five minutes reach, on a second
instance with two proposals and two reviews before it was proved.

**Operation.** `HttpExecutorProofs` proves `FileIsTrue` (`FileTellsSends`) and
`RequestsAreSentInOrder` (`SendsInOrder`). Neither is inductive: both depend on where a
submission may still be posted from (`Pending`: in the worker's queue, or in the transport
before its POST) and on what the adapter's call may still write. The invariant says, of
the worker's record, that only its last task can be queued, held or in the transport
(`Shape`), and that a task that never entered the transport was not sent (`Sends`); of the
file, how far an append has come (`Appending`) and that the event being written is true
(`Truthful`); of the call, that the intent it sends under is the chain's last word
(`Announced`), that before its send a request is nowhere (`Unsent`), and that an answer it
carries is true (`Told`). `Waited` joins them: while a submission may still be posted it
is the current request's, its intent is on file, and either the call waits for it or it
was abandoned and given up as unknown; a later request cannot begin, because an unknown
outcome has no settlement. The worker's operators are proved one by one to be `Calm`:
nothing can be posted, is being posted or has a result that had not before; only
`Admitted`, `Post` and `TransportEnded` are not, and have lemmas of their own. A step of
the call, of the worker, or of both then needs only what it changes. `IInv` was checked by
TLC on the constants of `Executor` (270 556 states) and with three requests and two reads
(1.7 million states).

**Output stages.** `WorkerStorageProofs` proves `FilesAreAccounted` (`FilesAccounted`),
`NothingCommittedAfterCancel` (`NoCommitAfterCancel`), `UncertaintyIsFinal`
(`UncertainIsFinal`) and `SavesAreCertain` (`SavedIsCertain`). A stage's call looks at the
attempt under the gate, works outside it and publishes under the gate; what it publishes is
right because of what nobody else can have done meanwhile. The invariant says so: at most
one call stages a request, one promotes it and one saves (`StageSound`, `PromoSound`,
`SaveSound`); the handoff, the promotion and the capacity entry are where the call's step
needs them (`HandoffAt`, `PromotionAt`, `EntryAt`); a file is charged, and while it is
written its attempt knows it may exist; what a revocation has still to release (`todo`) is
in no call; a request whose submission is not answered has no outcome (`LeaseSound`); and
a save claim presupposes every request's Candidates. `EntryAt` at the end of a stage was
needed because the publication may leave a charged entry only completed or uncertain.
The revocation, retirement, reconciliation and close of `StorageAttempt` are proved one
by one to *settle* (`Settles`): entries move only forwards, an unfinished promotion only
to its cancellation, evidence only to revoked, marks of other calls not at all. A settling
step keeps the invariant whatever the calls are doing, so each call's step is proved for
what it changes itself, and combined with the settling that may come before or after it.
`FilesKnown`, that nothing is on disk but the two files of a request, is a small invariant
of its own. `IInv` was checked by
TLC on the constants of `Storage`, and with a second caller (1.4 million states).

**Review.** `ReviewSessionProofs` proves every safety property stated of `ReviewSession`:
`OutcomesAreTrue` (`OutcomeIsTrue`), `RequestsAreQueuedOnce`
(`OneProposalPerRequest`), `ReplyAndProposalTogether` (`PairedCommit`), `ToldInCustody`
(`AcknowledgedInCustody`), `ReplacesTheReviewed` (`ReplacesItsSource`) and
`RollbackRestoresUndo` (`UndoRestored`), and with `TypesAndBounds` that every variable
keeps its type. The parts of `IInv`: the runtime, the mailbox and the custodians have the
same target (`SameTarget`); the custodian's record fits its state (`RecordsOK`) and its
origin (`OriginOK`); the service point prepares into an empty custodian (`ServiceOK`); the
apply's step agrees with the mark on its record (`ApplyOK`); what lies between the staging
of the undo entry and the assignment (`StagedOK`, which gives `UndoRestored` with the
evicted entry); an unread acknowledgement is of a committed proposal, or its time has run
out (`AckOK`); a reader who still waits for the reply of that generation copied this reply
(`ReaderOK`); a replaced proposal is in custody and published, or was told as applied
(`ReplacedOK`). `OneProposalPerRequest` has an invariant of its own, `FInv`: under
`FewIds` every request that was ever queued is remembered by a tombstone or still in
custody. `FewIds` is no weaker than the code needs: it keeps 64 tombstones, a request
decided before them is new again (section 7), and the property says so itself.

**Capacity.** `StorageAdmissionProofs` proves `BooksAlwaysHold` (`BooksHold`),
`OwnWritesPass` (`OwnWritesAreNotForeign`) and `LeaseIsReleasedSettled`
(`LeaseReleasedSettled`). The books are sums over threads, written with the fold of the
community modules. What the proof needs of a sum, that changing one summand changes it by
the difference, is proved without induction over data: the fold's recursion is unfolded
once, and a smallest set for which the fact fails is refuted, by the well-foundedness of
strict inclusion between finite sets. Each call of the ledger is then a lemma about a
ledger (`LedgerOK`: its counters are balanced, each entry fits its state, observation and
limits agree while it lives), proved once. The rest of `IInv` is about the owner: what
each thread may hold at each place (`PlacesOK`), the one refresh slot (`SlotOK`), what is
on disk (`FilesOK`), what a close has done (`ClosingOK`), and, for
`OwnWritesAreNotForeign`, that nobody scans while a write is active, so that left alone a
scan sees the ledger's files (`AloneOK`). One lemma combines what a step keeps of the
other threads with what it shows of its own.

**Only model-checked.** Liveness (`UnclaimedIsResolved`, `ProposalsEnd`, `EveryJobEnds`,
`RetirementSettles`, `CloseReturns`, `NobodyHangs`, `NothingIsLeftBehind`): fairness and
`ENABLED` are outside the prover. The Gallery's: they speak of every line of a list that is cut and
concatenated by folds and `CHOOSE`. Those of Prompts and folders likewise: they rest on what
the readings of a text and the folds over plans compute, which is induction over data.

## 6. Findings

*A half-removed Fork is restored* (`append_loss`). After an append the old Fork is a backup
and the new one in its place. If the removal of the backup breaks off (on Windows a
scanner that opens one of its files meanwhile is enough), the code moves the complete new Fork aside, puts what is left
of the backup in its place, and removes the complete tree. The existing Fork has lost files,
and the new one is gone. `FailedAppendKeepsTheFork` holds for every other failure.

Disagreements with the documentation met while modelling; the models contain the behaviour,
no run is about it:

- *A claim survives its run.* `service_project_agent_session_request` completes its claim
  after `except Exception` (`ui/project_agent_session_pump.py:4955`); a Streamlit control
  exception passes it. Nothing else leaves `executing`, so the mailbox answers `busy` until
  the session is released, where `docs/architecture/mcp-session-mailbox-pump.md:70` says
  running work is discarded as `expired`.
- *An apply that published nothing.* The rollback around the assignment of the replaced
  Project is an `except Exception` (`:4515`). A control exception raised by that very
  session-state access leaves the proposal `applying` and published, exempt from expiry,
  disarm and target changes, and the undo history changed, where
  `docs/architecture/agent-scene-module-swap-approval-custody.md:690` says a failure rolls
  back both.
- *A restored Scene is displayed out of order.* The restore (`core/route_operations.py:717`)
  clears the deleted flags and renumbers nothing, a move in between renumbers the displayed
  lines only, where `docs/architecture/route-operations.md:223` says the restore
  "reproduces the original order and membership".
- *A creation that shows nothing replaces.* The preview of a Module created from a body with
  a Module reference names no line (`core/operations.py:4608`) and the page says no
  Illustrations will change; the Apply replaces. `PreviewTellsTheChange` leaves it out.
- A Module's renaming leaves the old name in its library entry (`core/operations.py:3869`);
  merging the duplicates of a line drops every copy of a token that has no node
  (`:5434`); moving nodes drops their words from a line that lacks the target.
- A detected Global Module whose name the Project already has with another body is
  referenced all the same: the line then means the Project's Module. `NothingSaidIsLost`
  leaves it out.
- A poll answers `stale_target` for a request that is still executing once the epoch has
  moved (`ui/project_agent_session_mailbox.py:1055`); the gateway takes that as final
  (`docs/architecture/mcp-stdio-transport.md:98` promises to wait for the outcome), and
  the request holds the capacity-one mailbox until its run publishes what nobody polls for.
- Between `prepare` and `complete_with_review` the service point reads the session state;
  an interruption there leaves the prepared record until its deadline, where
  `docs/architecture/agent-scene-module-swap-approval-custody.md:443` says a `finally`
  aborts it.
- A refused removal or duplication of a Scene cuts the undo history at its old length
  (`app.py:12657`, `app.py:12723`); when the history is full the push has already evicted
  its oldest entry, and the last real one is cut instead.
- The quick adoption's preview does not sign everything it depends on
  (`core/route_batch_candidate_adoption.py:63-83`), so `AppliesWhatWasReviewed` is stated
  of the others; adopting over a branched line loses its mark; the replacing adoption
  drops the former main image; Undo is neither saved nor does it take back remembered
  candidates (`app.py:3998-4017`).
- A second close of the HTTP worker turns a cancelled submission into an abandoned one
  (`ui/agent_generation_http_io_worker.py:392-397`), and a host that wakes late sets a
  closed worker back to `uncertain` (`:331-335`), against
  `docs/architecture/agent-generation-comfy-executor-adapter.md:365-371`.
- A refused claimant that has already left ends the endpoint and with it the offer
  (`ui/project_agent_named_pipe.py`, `_write_response` raising in the claim phase), where
  `mcp-local-named-pipe-transport.md` says a failed claim leaves the offer available; a
  launcher that has read an expired record may remove the fresh one written meanwhile; a
  close between the broker's arm and the runtime's note of the broker does not close the
  transport.

## 7. Not modelled

Payload copying, JSON limits and schema validation; Windows handles, ACLs, streams and
framing; ComfyUI request construction; presentation. Save As, directory duplication and
imports: one sequential call each. Of the Prompts: literal batch modes, clean-up of
spelling, normalization of weights, the projection of full stops, outfit copies, labels,
negative prompts, a place in the middle of a chosen anchor, weights inside several words,
the propagation of the tokens that were added last; Undo and saving of Prompt edits. Between
the check of a file and its `os.remove` in the cleanup nothing comes in the model; in the
code another program may. What an append that succeeds must keep is the Fork as it was at the
click: an edit by its owner between the last verification and the rename to the backup goes
unnoticed, in the code and in `AppendAddsTheReviewed`. The outcome `save_not_authorized` of
`_complete_profile_a_project_save` (`ui/agent_generation_original_host_worker_storage.py:3234`)
is none of `SaveEnd`: its callers (`ui/project_agent_session_pump.py:3593`, `:3603`) pass only
saved, failed and uncertain; the answer of that name (`:3326`) follows a claim that was given
back, which is `SavePrewrite`. The compensation of a journal's replacement
(`RetainCompletedWrite`) draws the size of what was replaced, and does not look for other
writes since, which the code answers with a refusal. The single-request executor path and its ownership journal: the
case of one request. Building a Candidate from file bytes. Weak references and garbage collection of
mailboxes: a session is released by `close`. `PROJECT.json` names each part with its
reason. Hazards no property covers: an abandoned claim, an overlapping run that puts the
mailbox's target back, more request ids than tombstones, the snapshot the handoff copies
outside the gate (`ui/agent_generation_executor_handoff.py:91`), the cut undo history, a
Scene restored among lines that moved.
