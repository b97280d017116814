# Oveo: a TLA+ model, its checks and its proofs

Oveo is a self-hosted writing assistant: one FastAPI process (a single uvicorn
worker) over a SQLite database in WAL mode, a React browser client that follows
responses over server-sent events, OpenRouter as the language-model provider,
and a set of host scripts that deploy, back up and restore the installation.

This directory models the parts of it whose correctness depends on the order of
steps of several actors, checks them with TLC on small instances, and proves the
central results with TLAPS for every instance. Line numbers refer to the
repository's files as mapped in `PROJECT.json`.

## 1. Inventory

| Component (source) | State | Operations | Modelled in |
|---|---|---|---|
| Generation manager (`generation.py`, `api.py`) | `generations`, `messages`, `threads` rows; `_tasks`, `_live`, `_starting`, cancel events | submit, hand off, retry, Stop, delete; the run task; orphan finalisation; startup and shutdown | `Generation`, `GenerationLifecycle` |
| Live draft and event streams (`generation.py`, `api.py`, `stream.ts`) | the draft and its `seq`, one bounded queue per stream, the stored row, the browser's view | publish, offer, snapshot, resync, close on sign-out; connect, follow, reconnect, poll | `EventStream` |
| Provider slots (`generation.py`) | an asyncio semaphore and a helper task per call | acquire, give up on Stop, release | `ProviderSlots` |
| Usage ledger (`generation.py`, `usage.py`) | `usage_events` rows (pending, charge), reconciliation flags and backoff | record ids, record usage, the coalesced reconciliation pass | `UsageLedger` |
| Attachment files (`generation.py`, `attachments.py`, `api.py`, `backup_tool.py`) | attachment rows, files under `attachments/`, SQLite's write lock | upload, delete, startup sweep, online backup | `AttachmentFiles` |
| Response decoder (`protocol.py`, `generation.py`) | the decoder of one attempt, the partial line, the draft | feed, finish, retry after a violation | `ResponseDecoder` |
| Provider HTTP client (`provider.py`) | the attempt, what was heard of it, half lines and half characters | connect, read events, classify failures, wait and repeat, deadline | `ProviderClient` |
| Work versions (`generation.py`, `models.py`, `docx.py`) | `work_items`, `work_versions` with Word templates and block maps | establish, append, replace, full, each with the checks that refuse it; repair and retry | `WorkVersions` |
| Exact-anchor edits (`generation.py`) | none (an algorithm) | `_replacement_span`, `_apply_base_replacements` | `TextEdits` |
| Word paragraphs (`docx.py`) | none (an algorithm on XML) | `_paragraph_layout`, `_paragraph_block`, `_patch_paragraph` | `WordBlocks` |
| Context and compaction (`generation.py`, `context.py`) | `context_summary`, `summary_through_ordinal`, extracts of a handoff | compose, summarise older turns, split and merge a handoff | `ContextCompaction` |
| Sign-in and sessions (`auth.py`, `login_guard.py`, `workers.py`, `api.py`, `admin.py`) | account throttle columns, sessions, in-memory failure lists, per-account locks, the Argon2 worker | login, logout, session use, password reset | `SignIn` |
| Host maintenance (`deploy/*.sh`, `backup_tool.py`, `middleware.py`) | data directories, marker file, container, `deploy.env` | deploy with snapshot and undo, backup, restore with revert, the write gate | `HostMaintenance` |
| Browser workspace (`App.tsx`, `api.py`) | the view, the conversation shown, the generation shown, drafts, request ids, the handoff dialog; requests under way | open, send, retry, delete, hand off; refresh; late, lost and refused answers | `Workspace` |
| Titles, and the parts of `PROJECT.json` without a module | | | left out, section 8 |

How they interact. A request inserts a generation row and schedules its task in
the same process; the task composes the context, calls the provider through a
slot, feeds the decoder, publishes the draft to the streams, and commits answer,
state and status in one transaction. Stop, deletion and a new submission of the
same conversation act on the row and on the task table while the task runs. The
provider call leaves ledger rows that a background pass settles later. Uploads
share SQLite's write lock with everything else, and the backup holds that lock
while it links files. The host scripts act from outside: they put a marker file
in the data directory, stop the container and rename directories under it. The
browser sees all of this only through answers and streams that come when they
come; it decides by identities and counters which of them still matter.

What is hard. The SQLite connections open no transaction before their first
write, so every SELECT of a request runs outside the write lock and what it read
may be stale when the request writes. Asyncio code is atomic only between two
awaits, so in-memory tables and rows disagree for a while around every commit.
The process may end between any two commits. Commits may take effect and yet
report an error. Queues overflow, streams break, browsers poll. Host scripts may
be interrupted between any two commands.

What makes each component correct:

* generation manager: a question gets its answer with `completed` and not
  otherwise; the row of a running task is finished by that task; a row no task
  owns exists only after a fault and is finished at the next start; a Stop ends
  the generation it names;
* streams: what a browser shows is a draft that existed, or the stored end; and
  it learns the end;
* slots: no slot is lost or invented, and no call waits for ever;
* ledger: a call is charged once and never forgotten;
* files: a committed row has its file, in the installation and in a backup;
* client and decoder: the accepted answers are those of the grammar, cut into
  chunks anywhere and whatever attempts failed before; a call ends;
* works: the saved work is what the user was shown, and a Word work can be
  exported as saved, in the document it came from; edits equal simultaneous
  replacement; a patched paragraph says the replacement, with its links and
  breaks where they were;
* workspace: a view at rest shows its conversation, a message sent again is one
  turn, and no handoff runs unseen;
* context: the model is shown the whole conversation within the budget, through
  a summary of exactly the turns it stands for, and compaction ends;
* sign-in: failures are counted exactly, guesses are bounded, a reset ends the
  sessions of the old password;
* host: whenever writes are accepted, all acknowledged writes are there.

## 2. Modules

| Module | Content |
|---|---|
| `Generation` | requests, tasks, database rows, crashes, failing and unacknowledged writes |
| `GenerationLifecycle` | the abstract specification: what clients may rely on about stored rows |
| `GenerationProofs` | inductive invariant of `Generation`, the theorems from it, and that `Generation` implements `GenerationLifecycle` |
| `MCGeneration` | symmetry for the generation runs |
| `EventStream`, `EventStreamProofs` | one generation's draft, queues and browsers |
| `ProviderSlots`, `UsageLedger`, `UsageLedgerProofs` | a provider call: the steps of its slot, and the ledger that takes them |
| `AttachmentFiles`, `AttachmentProofs` | files against rows, and the proofs |
| `ResponseDecoder` | from chunks of an answer to the document that is committed |
| `ProviderClient` | extends `ResponseDecoder` with the HTTP responses the chunks come from |
| `WorkVersions`, `MCWorkVersions` | the canonical work, and small texts and documents |
| `TextEdits`, `WordBlocks` | operators `WorkVersions` extends: exact-anchor edits, Word paragraphs |
| `Workspace`, `WorkspaceProofs` | one browser tab against the server's answers |
| `ContextCompaction`, `ContextCompactionProofs` | requests that fit the budget, and the proofs |
| `SignIn`, `SignInProofs` | login throttling and sessions |
| `HostMaintenance`, `MCHostMaintenance`, `HostMaintenanceProofs` | host scripts; three images, one of which migrates; the proofs |

A definition named as a mutant ("Mutant: ..." in its comment) is not part of any
specification; it is the form of the next definition after a plausible mistake,
kept to show that the property named with it in `PROJECT.json` notices.

### How state and steps correspond to the code

*Steps.* A block of Python between two awaits is one step. A write transaction
is one step, because SQLite serialises writers; the SELECTs before its first
write are an earlier step of their own. A compare-and-set (`_transition`) is the
guard and effect of one step. A shell command that changes the host is one step.

*`Generation`.* `Check` is what a starting request reads (`_existing_request`,
`_finalize_orphans`' SELECT, `_is_retryable`), `Commit`/`Reject` its
transaction, where the partial unique index on active rows and the unique
request key decide, `Schedule` the return that creates the task. A commit that
takes effect and raises, or is cancelled, is `CommitUnacknowledged`: no task is
created, and the row is `abandoned`. `RequestStop`,
`StopWrite`, `StopSignal` and `StopFinish` are `stop` up to each of its awaits.
`RequestDelete` stops what runs and `RemoveThread` deletes the rows. `Task...`
actions follow `_run`: `running` is committed and then announced to the draft;
the context is composed; an attempt is decoded, violates the protocol (three in
all), fails or is cancelled; the success is committed, possibly without the
acknowledgement; the title follows. `TaskWriteFails` is the failure of a
write after its retries (also of the commit of `running`, with or without
effect); where it was the terminal write, the row is left `abandoned`.
`RequestFails` is an error of a Stop or a deletion, before or after its write took
effect.

*`EventStream`.* The row's `stream_revision`, the draft's `seq`, `_offer` with
its queue limit, `_events` with its pending item, session recheck and resync,
`get_snapshot` from memory or the row, and `stream.ts` with reconnect and
polling. A block of text is the number of the delta that produced it, so missing,
doubled and left-over text all differ from the draft.

*`UsageLedger`.* It extends `ProviderSlots`: a call waits for its slot, and its
end releases the slot before the result is recorded, or after a failure is
recorded. `Named`/`IdsWritten` are the shielded early write of the id,
`CallEnds`/`UsageWritten` the write at the end, `CallTimesOut` the deadline that
ends the wait for the early write but not the write, `RunEnds` the request for a
pass, `Pass...` the pass with its batch, candidate limit and backoff. A call is
one HTTP attempt there; attempts are the matter of `ProviderClient`.

*`ProviderClient`.* One call of `stream_chat` after another, as `_respond` makes
them. A failure is repeated by `Repeats` (transient, nothing heard, attempts
left) after the delay `Retry`; `ContentRefused` is the decoder's error passing
through the client to `_respond`, which calls again. Keep-alive comments are
stuttering steps. `_sse_lines`, `_split_trailing_surrogate` and
`_joined_surrogates` are operators on sequences of characters; `CutsDoNotMatter`
compares them, in the first state, with the uncut text for every way to cut it.

*`Workspace`.* The browser compares what a request noted (view object, request
number, generation epoch, handoff run) with what is current when the answer
comes. All of these only move on, so the model keeps the result of the comparison
with the request (`newest`, `epoch`, `here`, `run`) instead of numbers that grow.
A load of a view that was left changes nothing however it ends and is dropped at
once, which only shortens behaviours. `thread_detail` is three steps, because its
SELECTs are separate statements (`ReadMessages`, `ReadRow`, `ReadSnapshot`).
`Handle` is a whole submission: the races inside it are the matter of
`Generation`. A stream is its last event (`FollowEnds`, `FollowGone`); what it
shows on the way is the matter of `EventStream`. `known`, `torn`, `missed` and
`unseen` are history for the properties; a load notes (`silences`) whether it took
the place of one whose failure would have been told.

*`WorkVersions`.* `Respond` is `_commit_success` for one answer, any the decoder
lets through: the errors of `_apply_state_operation` in their order decide
whether the attempt is repaired (`_REPAIRABLE_STATE_CODES`), the run ends or a
version is written. Source texts are left out: what refuses one is the choice
`SourceAnchorWrong` or `RunFails`. `ReplacesAsMeant` (texts and edits) and
`PatchSaysTheReplacement` (paragraphs and replacements) quantify over inputs, not
over states; they are evaluated in the initial state.

*`WordBlocks`.* A paragraph is the sequence of its tags: runs, hyperlinks, field
characters and codes, text, page breaks. The element tree is at most two deep
there, so brackets stand for it. A patch works on tags known by their id, as the
code works on element objects. A text node without text counts as a place where
text is written, as in the code, and as no text when breaks are compared.

*`ContextCompaction`.* A message is its role and size. `ComposeChat`,
`SelectCandidates`, `Summarised`, `CheckRunning`, `StoreSummary` and `Recompose`
are the loop of `_compact_chat_context` up to each await; `Chunk`, `Extract` and
`Merge` that of `_compact_handoff_context`. The binary search is the code's, not
"the largest that fits": that it finds this is part of `RequestsFit`. A summary or
extract carries the ordinals it was made from, which the code does not store and
the properties need.

*`AttachmentFiles`.* `UploadBegin` takes the write lock with the first INSERT,
`UploadStage` writes the files, `UploadCommit` commits. When the commit takes
effect and raises (`UploadCommitUnacknowledged`), the `finally` of `submit_turn`
unlinks the file of a committed row; these uploads are `unacknowledged`.
`Delete...` reads the names, deletes the rows, then unlinks; `DeleteFails` is an
error of its write, with or without effect. The sweep runs before the first request.
`BackupLock` copies the database and keeps the lock while files are linked.
`Damage` is a file lost before a backup, which the backup reports and skips.

*`SignIn`.* Time is a counter of ticks. A refused attempt leaves no trace and is
no step. The account row is read before the hash and written after it, from the
values read; the per-account lock is what makes that safe.

*`HostMaintenance`.* A directory is its set of user writes, its schema revision
and the marker; a container follows the directory it mounted when that is
renamed. `expected` is what users must find: the acknowledged writes, or those of
the backup once a restore they asked for succeeded. A script does not run to its
end when it is killed, cut by a reboot, or ended by a command whose failure it
does not handle (`CommandFails`: `|| die`, or `set -e`); `leftBy` is the last such
script. `startedEmpty` notes that a failed restore started Oveo on a directory
without a database.

## 3. Runs

All runs finish in under five minutes with two workers.

| Run | Configuration | Result | What it shows |
|---|---|---|---|
| `generation_safety` | 2 requests of any kind, 2 generations, 1 conversation, 2 attempts, 2 faults, 1 restart | pass | answers, statuses, messages and contexts agree; no silent orphan; the manager implements `GenerationLifecycle` |
| `generation_live` | 1 request at a time, 2 generations, fairness | pass | every generation ends and every Stop takes effect, unless its terminal write was lost or the commit that created it raised |
| `generation_retry` | 2 requests, 3 generations | **violation** | two retries of one turn both store an answer |
| `stream` | 1 browser, queue of 2, 3 text deltas, 1 lost connection, fairness | pass | views are drafts or stored ends, close wins over a full queue, everyone learns the end |
| `provider_calls` | 2 calls for 1 slot, batches of 1, 2 tries, 1 failed write, 1 crash, fairness | pass | no slot is lost or invented by a Stop and waits end; one charge per call, no forgotten call, requests are served |
| `context` | at most 6 messages of 1 or 3 tokens, notes of 1 or 2, a budget of 5, fairness | pass | summaries are exact, requests complete and within the budget, the search finds the largest stretch, compaction ends |
| `host` | 3 images, 3 script runs, 2 writes, 2 kills, reboots or failing commands, or 1 failing stop | pass | no accepted write is missing while Oveo accepts writes (one exception, below), none is destroyed, and only an unfinished script leaves the gate closed |
| `attachment_files` | 2 uploads, 2 conversations, 1 crash, 2 backups, 1 lost file, 1 unacknowledged commit | pass | rows have their files, backups are complete, that commit and that file excepted |
| `signin` | 2 attempts, an account and an unknown name, 1 reset, 3 ticks with a window and a lock of 2, fairness | pass | exact counting, bounded guesses, reset ends sessions, no attempt hangs |
| `answer` | all answers of at most 2 blocks and 2 characters, cut anywhere, 2 attempts of each kind; all texts of at most 5 characters in all pieces; fairness of the timers | pass | client and decoder accept the grammar, the draft is the document, cuts make no difference, a call ends |
| `works` | 4 turns, documents of 1 and of 2 blocks, works of at most 5 characters, 3 attempts; edits: all texts of at most 5 characters over 2 letters, 2 edits of at most 2 characters; paragraphs of at most 3 pieces with all replacements | pass | saved is shown, exports are the work; the splice loop is simultaneous replacement and refuses exactly the ambiguous edits; a patched paragraph says its replacement and keeps the rest |
| `workspace` | 2 conversations, 2 generations, 2 messages, 1 handoff, 1 lost answer or deletion, 2 loads and 2 other requests under way, 3 requests when the user makes one | pass | views at rest are complete, repeated messages are one turn, handoffs are seen or stopped |

### The violation

`generation_retry`. `_is_retryable` (`generation.py:1884`) says that retrying an
answered generation "would append a second answer to a turn that has one". Two
retries with different request ids can both read before either inserts; the
first is committed, runs and is answered, and only then does the second insert
its row, which the unique index on *active* rows admits. The turn has two
answers. One request at a time cannot do this.

### Observations without a run of their own

Met while modelling; the models contain the code involved.

* *A submission whose commit takes effect and raises leaves a queued row without a
  task* (`generation.py:1600`; in `_start_generation`, 1870). `_schedule` is
  skipped, although the comment at 1602 wants a committed row never seen without
  its task. Sent again, the request is answered with that row and starts nothing;
  the row stays active until a submission or retry with another id, a Stop or the
  next start finishes it. `NoSilentOrphan`, `EventuallyFinal` and `StopTakesEffect`
  except the row as `abandoned`.
* *The same submission loses its document.* `staged_files` is not cleared (1601),
  and the `finally` (1416) unlinks the file of the committed row. Its comment says
  that staged files "survive only if their rows were committed"; here the row was,
  and the file does not. A backup that copied the row may find the file gone.
  `RowHasFile` and `BackupIsComplete` except these uploads as `unacknowledged`.
* *A failed restore can start Oveo on an empty directory* (`oveo-restore.sh:161`,
  162). A restore cut between its renames (146, 147) leaves no live directory,
  installing the host bundle makes an empty one (`install-host.sh:32`), and a later
  restore that fails its readiness check puts that one back and starts Oveo on it,
  ungated. `oveo-deploy.sh:69-77` refuses to continue in this situation; the
  restore has no such check. The data is kept under another name
  (`NothingDestroyed`). `ServedDataComplete` excepts it as `startedEmpty`, and says
  that it takes an earlier script that did not run to its end.
* *Error exits leave the gate closed or the live directory out of place*
  (`oveo-deploy.sh:219`, 221; `oveo-restore.sh:146`, 160, 161 under `set -e`, and
  any failing creation or removal of the marker). The next deployment refuses to
  run (82); `GateOnlyAfterUnfinishedScript` excepts scripts ended this way, together
  with killed ones.
* *A row snapshot can hide deltas.* A browser that subscribes between the commit
  of a row and the scheduling of its task, and whose SELECT executes after a Stop
  wrote the row, gets a snapshot whose `seq` is `stream_revision` (2) while the
  draft numbers its deltas from 1: deltas 1 and 2 are taken for part of the
  snapshot (`generation.py:2047-2060`). This needs a Stop, so `ViewIsDraft`
  speaks of generations nobody has stopped; the stored end replaces the view.
* *A stream may be registered after the sign-out it should end with.* `logout`
  closes the registered streams of the session, "as soon as it signs out"
  (`api.py:264`, `ARCHITECTURE.md:110`). A stream authorised before, whose
  generator first runs afterwards, registers a queue nobody closes and sends until
  its next session check. `CloseEndsStream` shows the rest of the mechanism is
  right: a stream that was closed sends at most the event it had in hand.
* *`thread_detail` can answer with a state that never was* (`api.py:354`, 395): an
  answer committed between the SELECT of the messages and that of the newest
  generation is in neither. A view that got this shows the question without its
  answer and without a running generation until it is loaded again. It is what
  `torn` stands for in `SettledViewIsComplete`.
* *A finished answer vanishes for a moment* when the next message is sent and
  adopted before the refresh that brings the answer (`App.tsx:894`), and a message
  sent again after a lost answer shows its finished generation as queued until the
  stream says otherwise. Both end with the next answer; the property speaks of
  views at rest.
* *A refresh can fail without a word* (`App.tsx:860`). The refresh after a turn
  was accepted or has ended tells the user when it fails (799, 896); the one after
  a turn was refused does not. Made while a telling one is under way, it takes its
  place: the older answer is ignored (721), and if the newer request then fails the
  page lacks an answer it was told of and says nothing. It is what `missed` stands
  for in `SettledViewIsComplete`.
* *An older load that fails throws the user out of a conversation a newer refresh
  already shows* (`App.tsx:701` compares the view, not the request number).
* *A handoff dialog that is closed and opened again while the first request is
  under way* uses the same request id, so it follows the generation the first
  request stops when its answer comes (`App.tsx:971`, 981).
* *Text replaces an empty `w:t` in front of a page break* (`docx.py:620`, 889):
  the paragraph counts as editable, because the break has no text before it, and
  the new text is written before the break.
* *A generated title can overwrite a rename* committed between the check of the
  default title and the UPDATE (`generation.py:2730-2736`, `api.py:575-586`).
* *The stream cap is checked when a stream is admitted* (`generation.py:2021`)
  *and counted when its generator starts* (2050), so streams opened together can
  exceed the cap `ARCHITECTURE.md:110` mentions.
* *The candidate limit of a reconciliation pass* (`generation.py:1038`) *is
  applied before rows in backoff are skipped* (1043-1055): as many rows without
  metadata as the limit keep younger rows waiting, which the comment at 1043
  rules out.
* *A merge group of a handoff is measured when an extract joins it, not when an
  extract begins it* (`generation.py:3048-3065`): only the first extract of all is
  checked alone. Extracts have at most 16,384 tokens and the default budget is
  240,000, so this needs a much smaller `context_compaction_tokens` (1,000 is
  accepted); `CompactionAssumption` states what the default guarantees. The
  reminder of a protocol retry (`generation.py:3127`) is added after the budget
  was checked.
* *An append is recognised as the complete work only with the separator it names*
  (`generation.py:2378`): a deliverable that repeats the work with another
  separator, and names no addition, is appended to it.
* *An interrupted live restore leaves the write gate on* (`oveo-restore.sh:138`
  to 153); the comment at `oveo-deploy.sh:80` names only deployments.
* *A container that docker could not stop, followed by a reboot between the two
  renames of an undo*, starts on an empty directory that docker makes. The model
  takes a failing stop as the only fault of a behaviour for this reason.

## 4. Bounds, and why they are enough

Two requests are what a race between requests needs; a third adds nothing that
two and the task do not already interleave. Two generations give a conversation a
finished and an active row, the third one of `generation_retry` the second retry.
Two attempts reach both "try again" and "give up". Two faults allow a lost
acknowledgement (of a success, or of the commit of a request) and a lost terminal
write in one behaviour; one restart separates
what survives from what does not. Conversations do not interact except through
process-wide tables, so one is enough in `Generation` (the proofs cover any
number); deletion and backup need two. One unacknowledged commit of an upload
meets another upload, a deletion, a sweep and a backup.

Six messages with two or three kept let the older turns exceed one summary
request, so that the search cuts them and the loop takes several summaries; a
handoff of six turns needs several chunks and two rounds of merging. Four turns
are enough for a work, an unrelated document, a change and a new work.

Two generations give the workspace a turn and its successor, its retry or a
handoff; two loads an older and a newer one, since any number of older ones
behaves as one; two other requests a send with a retry, a handoff or a deletion
beside it, and a load with both. A lost answer and a deletion share one bound:
each is a way not to get an answer. Three pieces of a paragraph are a field or
link with something on either side, or two links next to each other. Five
characters hold two CRLFs or two pairs of halves with a character between them.

A queue of two overflows with three text deltas and the status events around
them. The window and lock of two ticks both expire within three. Limits
(`MaxWaiting`, `MaxPending`, `GlobalLimit`, `BatchSize`) are set where the run
reaches them. `signin` has one client address, so `record_failure` never forgets
one there; an instance with two addresses was explored without the liveness
property. Three script runs make a backup, restore it and deploy, or deploy twice around
an interruption; two of the images share a schema revision, so both deployments
with and without migration happen.

Symmetry (generation ids, keys, requests) is used only in runs without liveness.
Most runs say `CHECK_DEADLOCK FALSE`: ids, ticks, faults or script runs are used
up, and a bounded behaviour ends; users need not act.

## 5. Fairness

* Tasks, handlers, reconciliation passes: weak fairness. The event loop runs
  every ready coroutine, and each await on the outside (provider, SQLite) has a
  timeout in the code.
* `Restart`: weak fairness. `compose.yml` restarts the container.
* The deadline of an HTTP attempt and the delay before the next: weak fairness.
  `asyncio.timeout` and `asyncio.sleep` end by themselves; nothing is assumed of
  the provider.
* The semaphore: slots are handed to a waiting call as asyncio does.
* A browser that is open goes on following or polling.
* Users, the administrator, the clock, faults and crashes: none.

`EventuallyFinal` and `StopTakesEffect` excuse `abandoned` rows, whose terminal
write failed or whose creating commit took effect and raised: the code leaves them
for the next request of that conversation or the next start, and nothing makes
either happen.

## 6. What is proved

For every value of the constants, from the named assumptions of the modules
(`IdsAssumption`, `FilesAssumption`, `SlotsAssumption`, `LedgerAssumption`,
`BoundsAssumption` of `EventStream`, `SignInAssumption`, `HostAssumption`,
`WorkspaceAssumption`, `CompactionAssumption`): bounds are naturals, limits are
positive, `None` is not an id, the calls of a behaviour are finitely many, and an
extract fits a merge request by itself. Below are the results of each proof module
with the invariant that carries them; one step or lemma per action shows that it
is kept.

`GenerationProofs`. The run-checked invariants are not inductive. `IInv` adds
what every actor knows between its steps:

* `StartingInv`: the id a request took is unused until its commit, belongs to no
  other request and has no task;
* `OrphanInv`: rows read as orphans have no task and no request about to start
  one, and never will: this is why finalising them later is safe although the
  read is stale;
* `StoppingInv`: after its write, the row a Stop names is claimed; when it
  finishes the row itself, no task is there;
* `RowInv`, `TaskInv`: where a task stands bounds the status of its row, and the
  draft and the cancel event bound it too;
* `OneActive`: the unique index; `DownInv`: nothing in memory survives.

From it follow `TypeCorrect`, `AnswersMatchStatus` (`AnswerIffCompleted`),
`ContextStaysCurrent` (`ContextIsCurrent`) and `OrphansNeedAFault`
(`NoSilentOrphan`: an active row nobody drives is `abandoned`, and without a fault
nothing is). `TranscriptIsAccounted` (`MessagesAccounted`) counts, so it
needs besides that only finitely many ids are in use and that a conversation
which does not exist yet has no messages (`Transcript`).

The end of the module is the refinement. With `IInv`, every step of the manager is
a step or a stutter of `GenerationLifecycle` under the mapping "answered = has a
result message" (`Refinement`), and no other actor finishes the row of a live task
(`LiveRowsKeepTheirTask`). `TypeOK` and `LiveRowsFinishedByTask` are proved and no
longer part of a run.

`AttachmentProofs`. `IInv` there records that an upload in progress holds the
write lock and has its file before its row (`UploadInv`), that a deletion only
unlinks names whose rows are gone (`DeleteInv`), that no row appears during the
sweep (`SweepInv`), and that the rows a backup copied stay the committed ones
while it links (`BackupInv`). From it: `AttachmentsKeepTheirFiles` and
`BackupsAreComplete`, which except files lost to something else and uploads whose
commit took effect and raised.

`UsageLedgerProofs`. `SlotInv` says what the helper task of a call can be doing
while the call is where it is (a call that gave up may leave a cancelled helper
with a granted slot), and that the holders and the free slots add up:
`SlotsAreAccounted`. `LedgerInv` says that all charges have one key, so that the
table's uniqueness is what prevents the second charge (`CallsAreChargedOnce`),
and that a call whose early write is over is on the ledger whether or not its run
is (`NamedCallsAreOnTheLedger`).

`EventStreamProofs`. `DraftInv` makes the draft in memory the last of its
history; `ItemOk` says of each queued delta that it leads from the draft before
it to the next, which is what makes skipping and applying safe after any
overflow; `StreamInv` says that a closed stream has the close next, in hand or at
the head of its queue. With what a row holds before a Stop (`RowInv`):
`ViewsAreDrafts`, `EndsShownAreStored`, `ClosedStreamsEnd`. What `Following` and
`After` yield is shown by the least element of a set of sequence numbers, not by
induction; `Apply`, `After` and `Refused` are defined so that this is possible.

`SignInProofs`. `LineInv`: the attempt that reads and writes an account's row is
first in line for it; `ReadInv`: the throttle columns it read are still the
row's; `Tally`: what those columns say about the times at which the account told
of a wrong guess. From it `FailuresAreCounted` (`CounterIsExact`) and
`WrongGuessesAreBounded` (`GuessesBounded`): at most twice the limit less two in
any stretch of a window's length, where a window may reset in the middle.
`ResetsEndOldSessions` needs only that a session carries the version of the
password that opened it.

`HostMaintenanceProofs`. `DirsInv`: each acknowledged write is in some directory,
and directory names are fresh; `AppInv`: the container uses the live directory, or
one that is gated for good after docker failed to stop it; `DeployInv`,
`RestoreInv`: for each place in a script, which sibling directory exists, what it
holds and whether it is marked; `GapInv`: where the live directory is out of
place nothing serves; `GateInv`: who keeps the gate closed; `CutInv`: as long as
every script ran to its end, the live directory, what may be put in its place and
every backup have a database, so that no empty one is started. From them
`ServedDataIsComplete`, `NothingIsDestroyed` and `GateOpensAgain`. These hold for
any images, schema revisions, backups, script runs, kills, reboots and failing
commands.
A failing stop, by the bound of `StopFails`, is the only fault of its behaviour,
in the proofs as in the run.

`WorkspaceProofs`. `TurnInv`: everything that was sent of a message carries one
request id; while the message is still in a composer, `ids` remembers which; `ids`
has one entry for a key, drafts are not shared between views, and the server has
one generation for a request id that is not deleted. Each part is needed by one
step: the memory by sending again, freshness by typing, the last by a delayed
first attempt that arrives after the second. From it `MessagesBecomeOneTurn`
(`OneTurnPerMessage`). `HandoffInv`: a running handoff has somebody responsible
(the dialog, a stop, an answer that has arrived but was not handled), a request
nobody waits for is one the user could not be told of, and the dialog waits for
at most one answer and follows nothing while it does; with `AnswerInv` (an answer
names the generation of its request) it gives `HandoffsAreSeenOrStopped`.

`SettledViewsAreComplete` (`SettledViewIsComplete`) takes the larger part of the
module. `ServerInv` says what a conversation is at the server: turns in order,
each message once, an answer where the status says so, only the newest turn
running. `OwnerInv` and `PostInv` say that an answer is a turn of the conversation
it was asked for, so that what the page adopts belongs to its view. `ViewShape` is
about the page and the newest load, of which there is at most one; `ViewHere` is
the heart of it, while the conversation exists: what is shown is a part of the
conversation, what the newest load has read after each of its three SELECTs is a
later part of it, the generation it read is still the one to show unless the page
has adopted another, and the page is complete, or follows a generation whose end
will be told, or waits for a refresh that cannot fail in silence. The server may
move at any time under all this: `Moves` is what every step of it may do to the
conversation in view, and `ViewMoves` shows once that this keeps the invariant.
That `mergeDetail` appends exactly the messages that are new (`Merging`) is shown
for the fold it is written with, as below. The proof corrected the property: it
had no `missed`, and a retry refused because of a handoff breaks that with three
generations, a handoff and two loads, which is more than `workspace` has (section
3, observations).

`ContextCompactionProofs`. For conversations of every length, any sizes and any
budget. `PhaseInv` ties the place of the loop to the kind of request and to the
row; `CutoffInv` says that the chosen stretch fits, is the longest that does, and
starts after the turns the stored summary stands for; `NoteInv`, that the summary in
hand stands for a longer beginning of the conversation than the stored one, and for
all of it: only the run that owns the conversation writes it; `HandoffInv`, that
no turn is lost between the chunks, the extracts and the groups of a merge;
`SizeInv`, that what is sent and what is prepared fits. From them
`SummaryStaysExact`, `ModelIsShownEverything`, `RequestsAlwaysFit` and the action
property `SummaryOnlyGrows`. `LargestFittingFinds` is the binary search: it ends
with 0 or a value that fits, the largest one where fitting is downward closed.

The library's induction rules take an operator, which the provers cannot
instantiate. These modules use sets instead: the numbers for which a statement
holds are a set that contains 0 and every successor (`NatSet`, from the library's
well-founded minimum). It is applied twice to a recursive function or a fold: once
to show that a function with its equation exists, which is all its definition says,
and once to show what it computes.

## 7. What is only model-checked

* Liveness (`EventuallyFinal`, `StopTakesEffect`, `EveryoneLearnsTheEnd`,
  `WaitEnds`, `RequestIsServed`, `CompactionEnds`, `AttemptsEnd`, `AnswerEnds`):
  out of the prover's reach, as is `ENABLED`.
* `ResponseDecoder`, `ProviderClient` (`AcceptsTheProtocol`, `DraftIsDocument`,
  `CutsDoNotMatter`) and `WorkVersions` with `TextEdits` and `WordBlocks`
  (`SavedIsShown`, `ExportIsTheWork`, `ReplacesAsMeant`,
  `PatchSaysTheReplacement`): these say what folds and searches over characters,
  tags and blocks compute for every answer, text, edit or paragraph, which is
  induction over data in each of a dozen operators. The way of section 6 through
  sets of numbers would have to be taken for every one of them. TLC checks them for
  all small texts, answers and paragraphs.
* That the violation of `generation_retry` exists.

## 8. Not modelled, and the plan

Left out: of Word documents, packages, XML limits, images, text boxes and tables
(pure transformations and checks of one upload); of the provider client, request
bodies and the cost lookup, whose outcomes are choices of `UsageLedger`; of the
browser, the list of conversations, renames, downloads, announcements and layout,
which decide nothing about the rest; titles, for the same reason; HTTP headers and
body limits, settings, logging, diagnostics, schema history, staging validation.
Ownership checks always pass: one account. Texts, prompts and amounts are
abstracted away.

What would come next, in this order:

1. `ContextCompaction` and `WorkVersions` shown to refine the steps of
   `Generation` they stand behind (`TaskCompose`, the success commit).
2. The HTTP attempts of one call in `UsageLedger`, each with an id of its own.
3. `ReplacesAsMeant`, by sets of numbers like the folds of `ContextCompaction`.
