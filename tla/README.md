# Oracy: specifications, model checking and proofs

Oracy records voice notes on a phone, uploads the audio in chunks to a
self-hosted backend, and keeps the transcripts searchable. This directory holds
TLA+ models of the parts of it where interleaving, crashes and retries decide
whether a recording becomes exactly one voice note, together with the TLC
configurations that check them and the TLAPS proofs of the main results.
Paths below are relative to the repository root.

## 1. The system and what of it is modelled

| Component | Code | State it keeps | Modelled in |
|---|---|---|---|
| Transcription jobs and worker | `backend/src/storage.rs`, `transcription_worker.rs`, `abandonment_sweeper.rs` | `transcription_jobs`, `voice_notes`; a worker's claim in memory | `TranscriptionJobs` implements `JobLifecycle` |
| Chunk submission and audio retention | `transcription_jobs.rs`, `audio_store.rs`, `audio_durability.rs`, `retention_cleanup.rs` | `transcription_job_chunks`, the accepted-audio directory | `ChunkSubmission` |
| Embedding regeneration | `embedding_regeneration.rs`, `embedding.rs`, storage | `embeddings`, `voice_note_versions`, `embedding_regeneration_jobs` | `EmbeddingRegeneration` implements `SearchIndex` |
| Client upload queue | `client/lib/services/{upload_queue,background_sync,transcription}_service.dart`, `client/lib/db/database.dart` | `pending_uploads`, recording files | `UploadQueue` |
| Idempotent open, sessions, tags, voice notes | storage, `voice_notes.rs`, `metadata.rs` | `sessions`, `tags`, `voice_notes`, `voice_note_tags`, the submission a key was opened with | `VoiceNoteSubstrate` |
| User settings | `settings.rs`, storage | `api_key_settings` | the capture at finalize, in `ChunkSubmission` |
| Search and collections | `voice_notes.rs`, `collections.rs` | none (queries, cursors) | the pages of notes, in `HistoryPaging` |
| Client recording and recovery | `recording_service.dart`, `recording_recovery_service.dart`, `main.dart` | the recorder, a marker in the preferences, the recordings directory | `RecordingRecovery` |
| Client history and screens | `history_service.dart`, `history_screen.dart` | the pages shown, requests in flight | the notifier, in `HistoryPaging` |
| Authentication, metrics, configuration, bootstrap, widget bridge, deployment | `auth.rs`, `metrics.rs`, `config.rs`, `bootstrap.rs`, Kotlin sources, `deploy/` | per request, counters, files | not modelled |
| Web runtime assets | `client/web/drift_worker.dart.js`, `sqlite3.wasm` | | not modelled: compiler output and third-party binaries |

How they interact: the HTTP handlers (`transcription_jobs.rs`) write chunk files
and rows; finalize moves a job to `queued`; the worker loop claims it under a
lease, calls the engines while it renews the lease, and stores the outcome; the
sweeper fails submissions nobody finalizes; the retention loop, and the worker
after it settled a job, delete the audio. An edit of a voice note queues an
embedding regeneration that another loop claims under a lease of its own. All
of them share one SQLite database (WAL, up to five connections) and one
directory; `main.rs` spawns the loops and nothing joins them. On the phone the
foreground notifier, the queue service and WorkManager tasks in isolates of
their own share the `pending_uploads` table and the recording files, without a
lock or a compare-and-set, and meet the backend only through an idempotency key.
A recording comes into that queue from the recorder when it is stopped, from the
recovery at launch when the app died over it, or from reconciliation, which finds
files no row names. The history screen asks for pages and appends them in
whatever order the answers arrive.

What makes this hard, and what the properties are for:

* the outcome of a claim arrives after the lease was lost to another claim;
* a list of candidates (abandonment, retention, finalize's chunk rows) is acted
  on after the rows have changed;
* handlers write a file, then a row, with an await in between at which the
  client may go away, the storage may fail, or the machine may lose power;
* finalize requests share the path they compose into;
* an edit overtakes the regeneration of the text before it;
* two uploaders of one recording act on snapshots of its row, and the app can be
  killed between any two writes;
* the file, the marker and the row of a recording are written one after the
  other, while recovery and reconciliation, in another isolate too, read them;
* deferred transactions read from one snapshot and write into a later one;
* answers to requests of the history screen overtake one another, and a search
  cursor carries a floating-point score through JSON.

`PROJECT.json` lists every such hazard at its line, with the properties that
cover it.

## 2. Modules

### JobLifecycle (abstract) and TranscriptionJobs

`JobLifecycle` is the promise: a job moves only along the permitted
transitions, never leaves `succeeded` or `failed`, and puts at most one voice
note in the history, when it succeeds. `TranscriptionJobs` is the mechanism.
A row of `job` carries the columns that decide anything: status, retry count,
lease token, voice note, failure code, `retryable_by_client`, and `due`, the
ticks to the timestamp that status is judged by. Every storage call is a
transaction, hence one action (`OpenJob`, `FinalizeJob`, `ListAbandoned`,
`AbandonJob`, `Claim`, `RenewLease`, `CompleteJob`, `RecordTransientFailure`,
`RecordTerminalFailure`, `DeleteVoiceNote`). `worker[w]` is the local state of
`process_one_available_job`: idle, working under a token, or about to record an
outcome. Between those points other workers, the sweeper, the owner, faults and
`Tick` run. `complete_job_with_voice_note_by_lease` begins a deferred
transaction, unlike the others; it is still one action, because SQLite refuses
to upgrade a read snapshot that another writer has overtaken, and the error is
`AttemptAborted`.

Engine calls are reduced to what they can answer: success, a transient code, a
terminal code. `AttemptAborted` is an error or a crash between claim and
outcome; `Stall` is an attempt that stops being polled, so that its lease can
run out while it lives. `Tick` does not outrun the lease of an attempt that has
neither stalled nor lost it, because the renewal interval is at most half the
lease (`effective_lease_renewal_interval`). Several workers stand for several
processes on one database, which is what lease tokens are for; `main.rs` spawns
one loop per process.

### ChunkSubmission

One job's audio. `files` is the directory tree processes see, `disk` what has
been synced. In a `Crash` the process dies with all its requests and cleanups, and
the files stay as they are or, if power was lost too, each unsynced entry is kept
or lost (`Survivors`). A push and a finalize advance await by await, and may fail
or be dropped at each of them; a finalize also fails when it comes to sync a
directory that a cleanup has removed (`FinSync`). Retention cleanups list the
composed audio and then, in a query of its own, the chunks (`ChunkRows`, in the
order of the index); they unlink, sync, mark and remove
empty directories, file by file. There are always two of them in the program, the
retention loop and the one a worker runs after it settled the job (`AfterWork`).
Contents are sequences of payloads, so composing is
concatenation and a hash is the sequence itself (no collisions); a model is the
number of settings updates before it.
Request validation happens before any state is touched and is left out.

### SearchIndex (abstract) and EmbeddingRegeneration

`SearchIndex`: whenever a note's vector is replaced, it is replaced by that of
the text current at that moment. `EmbeddingRegeneration` has the note's version
counter and the version its vector was made from, the note's one regeneration
row, and the loops. An edit appends a version and upserts the row in one
transaction; a claim reads the version; the completion checks token, version and
currency. The lease is not renewed.

### UploadQueue

One recording: `audio` (its file), `row` (its row of `pending_uploads`, with an
id that is never reused), `server` (the job of each idempotency key, as the
client sees it), and `actor`, the point each actor has reached between two
awaits with what it remembers there: its id and key from the snapshot, the
retry count it read. A pass is a list of chores (`Plans`): isolates clean up,
restore stale rows, reconcile files with rows (list, look up, insert) and take up the queue; a service
does so when it starts and only cleans up and processes on its timer. Then the
attempt: `Mark`, `Read`, `Open`, `Push`, `Finalize`, `Poll`, `Fetch`, and either
`Discard` and `Complete` (`finalizeSuccessfulUpload`) or `Rekey`, `Look`,
`Count`, `Store`, `GiveUp` (`recordUploadFailure`). A lost answer is a request
the server handled and the client saw fail. `Kill` stops an isolate or the whole
app. Rows stand alone (updates are by id, jobs by key), so one recording is
enough. Ten minutes are `Age`, which may happen during an attempt: each request
has a timeout, an attempt has many requests and polls without limit. Left out:
`language`, which no caller passes and whose change would draw a key; the web
client, which keeps no queue; backoff delays, which only say when a pass starts.
All chunks of an attempt are one step. Rows are written by constructors
(`Inserted`, `Stamped`, `Rekeyed`), one per `write(PendingUploadsCompanion(...))`.

### RecordingRecovery

How a recording gets into that queue. `said` is what was spoken, `file` the
recordings directory (an original and a repaired copy per recording, each absent,
short, long or half written), `marker` the preference that names the active
recording. `starter[r]` is the `startRecording` of a recording and `stopper[t]` a
`stopRecording` of the notifier; `timed` is the start time without which the
recorder's service does not say what it stopped. `boot` is `main()` with `checkForInterruptedRecording` and
`_repairWavFile`, `scan[x]` a reconciliation, of the running app (`Services`) or
of a background task (`Isolates`), and `upload` the upload of a queued file, cut
down to reading, submitting, deleting and forgetting. Each stops at every await.
`Kill` ends the app with everything that runs in it, `TaskStopped` one background
task alone. Recordings begin at numbers in increasing order because their files are
named by the time. Both methods look at `isRecording` only, which is set after the
recorder has started and reset after it has stopped, so several starts and several
stops may be under way (`Stops` bounds the latter). A start fails before the
recorder runs or while the marker is written, and may leave the marker set then; a
failed removal of a preference is left out. The upload's races are `UploadQueue`'s
subject, so there is one upload at a time here.

### VoiceNoteSubstrate

Which rows name which: sessions and tags with their owners, jobs with the
submission they were opened with, notes with their session and tags. Foreign keys
and the trigger on a session's owner are left out: they refuse writes, so that
without them the properties have more to withstand. An answer is accepted or
refused; 200 is not told from 201, nor 404 from 409. A handler
that begins with a write is one step. The two that read first, the completion of
a job and PUT tags, run in deferred transactions (`pool.begin()`): `txs` holds
what each connection has read, and every commit makes the other snapshots
`stale`, after which SQLite refuses their first write (`MayWrite`, `RollsBack`).
`answers` is the history of opens. Names go by what they fold to; ids are ULIDs
and are given out once.

### HistoryPaging

The notifier of the history list against the server's pages. A request takes a
version number, is answered from one state of the collection, arrives later or
fails; the notifier drops what is not current. On the server a page is the notes
past the cursor (`Found`), ordered by time when browsing and by reciprocal-rank
fusion when searching (`Arranged`, which places a note by the number of notes not
after it). What the two searches rank is any list without repetitions
(`RankingsAssumption`), cut to the notes there are (`Kept`). Scores are exact
rationals; what a score becomes by way of JSON is a `drift` of one last digit up or
down, for the pairs of ranks in `RoundedUp` and `RoundedDown` (no pair is in both).
These were computed with the arithmetic of `serde_json` without its
`float_roundtrip` feature, which `backend/Cargo.toml` does not enable: digits read
as an integer, rounded and divided by a power of ten.

## 3. Runs

| Run | Asks | Bounds |
|---|---|---|
| `jobs` | types, the inductive invariant, ownership, notes, retries, claims accounted for, outcomes by the newest claim, refinement of `JobLifecycle`; accepted jobs settle, open submissions close | 2 jobs, 2 workers, lease 1, `MaxRetries` 2, 1 fault |
| `chunks` | types, chunks and composed audio kept, answers true, releases undone by power loss only; settled audio is released | 2 pushes, 2 finalizes, retention loop and worker's cleanup, 2 chunk indices, 2 payloads, 1 settings update, 1 error, 1 crash |
| `regeneration` | types, the inductive invariant, no edit lost, refinement of `SearchIndex`; search catches up | 1 note, 2 loops, lease 2, 3 versions, 2 faults |
| `queue` | types, audio kept, submitted once, rows outlive audio; recordings settle | notifier, 1 isolate, owner; 2 faults, 6 keys, `MaxRetries` 5 as shipped |
| `recovery` | types, recordings kept until they are sent, submissions counted against interruptions; recordings settle | 1 recording, 1 stop, 1 reconciliation of the app, 1 of a background task, 3 faults |
| `notes` | types, references, sessions of notes, answers to opens, tag names | 2 owners, 1 key each, 1 session, 2 tags, 2 names, 2 connections, 1 body |
| `history` | types, no gaps when browsing, the ranking when searching, the query shown; loading ends | 3 notes, pages of 1, 3 rankings, 1 change, 3 requests, 1 failure |

Why these are enough: two workers and one stall make the smallest lost lease,
and the retry that follows makes a third claim; two retries separate "retry"
from "give up"; two pushes give a winner and a replay or a conflict; two finalizes give
an acceptance and a replay that shares its path. `chunks` with all of its actors and
bounds free at once is too large for TLC, so `MCChunkSubmission` starts from three
kinds of states, in which some of them are used up: both pushes and one finalize
with the error and the crash; both finalizes with the crash, the chunks pushed; one
finalize and the settings update. Cleanups, sweeper and worker are in all three.
What the other combinations could do is covered by the theorems, which are about
`Spec` without such a choice. Three versions let an attempt be overtaken twice; two
uploaders and one failed job are the smallest race for a fresh key, and the keys
suffice for all that the faults can make the actors draw (the owner's `Retry` leaves
two to every pass). Three faults in `recovery` are a kill, a deletion that fails and a
kill of the launch that repairs. Two recordings, or two stops, at once are beyond
TLC with these faults (more than 12 million states); the theorems hold for any
number of both, and `recovery_active` has two recordings, where the listing of one
meets the start of the next. Two connections are two snapshots, one of which the
other's commit outdates; two owners show that nothing crosses between them; with
one body two opens of a key differ by their session. Three notes in pages of one
give a first page, a further page and an end, and three requests a load, a page
and a search that overtakes them. One note is enough for a regeneration because
rows are claimed and settled one by one; that a loop does not starve an older row
is not covered.

Deadlock is checked in every run but three: in `notes` nothing need happen
once every id is used up, and in `history` (and `history_rounding`) once the
requests are used up. Elsewhere the clock, the owner, a pass or a request can
always act.

The bounded quantities are `MaxFaults`, `MaxErrors`, `MaxCrashes`, `MaxVersion`,
`MaxKeys`, `MaxRecordings`, `MaxNotes`, `MaxChanges`, `MaxRequests`,
`MaxFailures`, `MaxUpdates` (named constants, in guards), the set `Stops` and `Horizon`, past which two overdue
deadlines are no longer told apart. Symmetry is used in `notes`, which checks no liveness.

### Runs that refute a documented claim

| Run | The claim | What the code does |
|---|---|---|
| `chunks_lost_audio` | accepted jobs survive (`spec/backend-requirements.md:239-248`) | a failing finalize discards the composed file another finalize was answered 202 for |
| `chunks_released` | audio is recorded as released only after its absence is crash-durable (`spec/backend-requirements.md:614-616`) | one cleanup unlinks the last chunk, the other removes the empty directory, the first finds no directory to sync, takes that for durable absence (`audio_durability.rs:47-49`) and records the release: neither removal is on disk yet |
| `queue_stuck` | exhausted retries become a terminal failure for manual recovery (`client/test/transcription_persistence_test.dart:933`) | the last retry is counted and the row marked terminal in two writes; a kill or a race between them leaves a row no pass selects and no list shows |
| `recovery_active` | reconciliation queues completed recordings and skips the active one (`client/lib/services/recording_recovery_service.dart:211`, `client/test/recording_recovery_service_test.dart:184`) | it reads the marker once, before the listing, and the recorder opens its file before it sets the marker: the file being recorded is queued, and what is spoken later is lost to that submission |
| `history_rounding` | search results are ordered by score, time and id, for cursor pagination (`spec/api-contract.md:306-308`) | the score in a cursor comes back from JSON one digit off for some pairs of ranks and is compared exactly: the last note of a page comes again, or notes that tie with it are left out |

The models also contain, without a run of their own, and TLC finds them when the
definition named is given as an invariant or property:

* `ChunkSubmission!NoAudioOutlivesItsJob`: a push dropped between file and row
  leaves a file no row names (`spec/backend-requirements.md:612-613`).
* `ChunkSubmission!CurrentModelIsCaptured`: finalize reads the settings in an
  earlier transaction than the one that queues the job (`:129-131`).
* `UploadQueue!OneJobUnderWay`: a late failure of an old job replaces the key of
  the new one, and two jobs are under way (`:367`).
* `HistoryPaging!SpinnerMeansLoading`: a screen opened again while a further page
  is in flight asks for a first page, which outdates that request; if it fails,
  `isLoadingMore` stays set and no further page is asked for until a refresh
  (`client/lib/services/history_service.dart:104,118`).

They also have, as ordinary behaviour: a terminal failure taken
back into the automatic retries by a pass with an old snapshot or by another
actor's late failure (`client/lib/db/database.dart:229` calls it excluded); an
attempt still polling after ten minutes taken for a stranded one
(`background_sync_service.dart:27-29` says its process must have died); a chunk a
sealed job has answered 409, which the client takes for a permanent failure; a
completion refused because of any commit between its reads and its write, whose
transcription is made again; and
an engine failure of a retryable class that fails its job at once
(`spec/backend-requirements.md:396-399`, `transcription_worker.rs:679`).

## 4. Fairness

`TranscriptionJobs!Fairness`: the clock runs; the sweeper's loop and the workers'
loops never return (`main.rs`); an engine request has a timeout
(`DEFAULT_OPENAI_REQUEST_TIMEOUT`), so the work future resolves. `ffprobe` and
`ffmpeg` have no timeout: that they end is an assumption. Nothing is assumed of
users, renewals or faults; faults are finitely many, since a worker that crashes
at every claim settles nothing. `ChunkSubmission!FairSpec`: the retention loop,
the sweeper and the worker go on; requests owe nothing.
`UploadQueue!Fairness`: the periodic task is registered with the system and an
actor's awaits return (each request has a timeout, the server settles what it
accepted); services and the owner owe nothing. Faults are finitely many, and
with the shipped limit too few to use up the retries: when they are used up,
`queue_stuck` applies. `EmbeddingRegeneration!Fairness`: clock and loops; an
embedding request times out after 60 s, inside the lease of 5 min.
`RecordingRecovery!Fairness`: the owner opens the app, the periodic task is
scheduled, and their awaits return; a pass takes up every queued file, and passes
come again and again, so a file that is queued time and again is read in one of
them (`SF_vars(UploadReads(f))`); starting and stopping a recording is up to
the owner, kills and failures are finitely many. Its liveness property excepts a
marker set after its recording was stopped, which lasts until the next launch.
`HistoryPaging!Fairness`: dio answers or fails every request within its
timeouts.

## 5. Proofs

Eight modules prove, for every value of the constants that meets the named
assumptions of the module they extend:

`TranscriptionJobs_proofs` and `EmbeddingRegeneration_proofs`:

* `TypeCorrect`, `Invariance`: the inductive invariant `Inv`. Safety alone is
  not inductive: that a voice note's job is `succeeded` needs that a token marks
  exactly the rows in `processing` (`LeaseShape`), that an attempt's token is
  held by nobody else (`DistinctTokens`), that the row holds the newest
  (`NewestClaim`), and that the ids of notes are spent tokens (`DistinctNotes`).
* `OneOwner`, `NotesAgree`, `RetriesAreBounded` follow from it (the last from
  `BudgetInv`, which adds that an unsettled job has a retry left).
* `ClaimsArePaidFor`: every claim is charged to a retry or an outcome some row
  shows, or to a fault. `AccountInv` makes the inequality inductive: the lease of a
  row whose attempt has not stalled has not run out (`due >= 0`), and a row in
  `processing` that such an attempt no longer attends (`Unattended`) is a fault not
  yet spent. The claim of a waiting job then adds to both sides; a claim that takes
  a lease over spends an unattended row.
* `OutcomesAreLatest`: an action property from `Inv` and `NewestClaim`.
* `LifecycleImplemented`: each step of `TranscriptionJobs` is a step of
  `JobLifecycle` or leaves its variables alone.
* For regeneration: `Invariance`, `TypeCorrectness`, `NoEditIsLost`,
  `IndexImplemented`. There the strengthening is that whoever holds a row's token
  embeds the row's version (`HoldersEmbedTheRow`), and the row's version is the
  current one.

`UploadQueue_proofs`: `TypeCorrectness`, `AudioIsKept`, `RowsOutliveAudio`.
`AudioKept` is not
inductive, because an actor deletes the file steps after it saw the job succeed.
`DiscardIsEarned` adds that whoever is at `fetch`, `discard`, `complete` or `keep`,
and a row in `cleanupPending`, have a succeeded job behind them, and `KeyKnown`
that whoever sends requests has a key, so that the job it polls exists. Every step
of an actor comes down to `ActorStep`, which says what it owes: its own new point
must be covered, the row must keep its key, and no job may leave `succeeded`.
`RowsOutliveAudio` is an action property: `GoneIsGone` adds that whoever is past
`Discard`, or removes a row, finds the audio gone, and nothing brings it back.

`UploadQueueJobs_proofs`: `OneJobPerRecording`, on top of that invariant. `OneKey`
says that as long as no job failed, all requests, all jobs and (while there is
audio) the row go by one key. It needs that a fresh key is drawn only for a failed
job (`RekeyIsEarned`), that while there is audio nobody is under way before there is
a row (`RowComesFirst`), and that this row is not replaced (`NamesTheRow`). What a
step owes is `Moves`, `SameRow` and `JobsKept`; `KeyStep` does the rest once.

`ChunkSubmission_proofs`: `Invariance`, `ChunksAreKept`, `AnswersAreTrue` and
`AcceptedAudioIsKept`. That a
stored chunk is in `files` and `disk` is not inductive. `InTree` adds the two
directories above it, which a power loss would take it away with; `StoredByPush`
that the row names the candidate of a push that is over, so that no other request
writes or discards that file; `WrittenKept` that a candidate is in `files` once
written and in `disk` once synced, before its row is; and `CleanersWait` that no
cleanup is at work before the job is settled. `SurvivorsKeep` says what a power loss
leaves: what both trees agree on, directories included. `AnswersAreTrue` rests on
the guard of `FinCommit`: the finalize that seals finds no other that was told so.
`AcceptedAudioIsKept` has an invariant of its own (`ComposedInv`): a finalize has
ended in a 500 (`Spoilt`, which lasts), or what a finalize has written is the
composition of a chunk set that no longer changes, so a late rename replaces the
accepted audio by the same bytes, and only the finalize of a settled job discards.
It assumes nothing of storage; `chunks_lost_audio` shows what the 500 excepts.
`ReleaseIsUndoneByPowerLossOnly` holds for any number of cleanups at once, as there
are always two. Only who has unlinked a file marks it (`MarksAreTrue`); a file
unlinked stays gone, in the tree processes see, because a stored chunk is the file of
a push that is over and no other request writes it (`UnlinkedIsGone`, `FilesGo`). It needs that a list holds files
rows name and is not empty while it is worked on (`Lists`). More cannot be proved:
`chunks_released` shows that the marked file may come back with a power loss.
`TypesAreKept` rests on `RowsMatch` and `Lists` too: no push or composition writes
anything but payloads, and no list is longer than the rows are many.
`BoundsAreNumbers` is what it assumes of the bounds.

`HistoryPaging_proofs`: `ListAnswersQuery`, which holds whatever the server
answers, and three theorems that look into its answers. The lemmas below them say
that counting what precedes a note arranges any finite set by a total order
(`Ranks`, `Arrangement`), that `Kept` keeps order and loses nothing (`KeptNotes`),
and that fused scores, compared as fractions and ties broken by age, are a total
order (`NotAbove`, `OrderIsTotal`).

* `TypesAreKept`, from `Typed`: which cursors, answers and requests there are.
* `HistoryHasNoGaps`, from `BrowseInv`: the list, and each answer still in flight,
  is a descending stretch of notes that leaves out none from its top to its cursor
  (`Stretch`, `Full`). New notes are newer than every cursor, so a stretch stays
  one; a further page joins because its request carries the cursor of the list it
  will be appended to, whatever was reloaded or deleted meanwhile.
* `SearchFollowsRanking`, from `PagesInv`: an answer as old as the collection is
  what the server would answer now, and the list is the top of the ranking down to
  its cursor (`TopOf`). What is past a cursor is the rest of the ranking
  (`RestOfRanking`), hence the next page continues it. It assumes `[]CursorsExact`,
  that no cursor sent was changed by its way through JSON: `history_rounding` shows
  that the property fails otherwise. So that rounding is the only way to miss or
  repeat a note while the collection stands still.

`RecordingRecovery_proofs`: `TypeCorrectness`, `RecordingsAreKept` and
`FaultsBoundJobs`, for any number of starts and stops under way. The invariant says that the repair has one whole file at every
point (`RepairIsSafe`), that a file is deleted for an upload only when its recording
was heard (`SentIsHeard`), that the recorder does not run before the launch is over
(`BootBeforeRecording`, or the launch could repair a file that is being written),
and that a short original holds a short recording (`FilesHoldWhatWasSaid`).
`FaultsBoundJobs` counts submissions (`JobsInv`): those that were made and those that
will come without a further fault (`Ahead`: an original that is to be made or can be
submitted, a repaired copy that can be, a repair the launch still has to make) are at
most one more than the faults. It needs that the row says how far the upload is
(`RowFollowsUpload`) and that no original is there before its recording starts
(`StartIsFresh`).

`VoiceNoteSubstrate_proofs`: `TypeCorrectness`, `NoDanglingReferences`,
`SessionsAreKept`, `RetriesAgree`, `TagNamesDistinct`. The invariant says that
what a deferred transaction has read still holds while it may write
(`SnapshotsHold`), that a job's session was its owner's (`JobsKnowSessions`), and
that an answered open would be answered so again (`AnswersStand`). Since every
commit outdates the other snapshots, `SnapshotsHold` is trivial after a commit and
only has to be shown where a transaction reads.

Each step lemma has one case per action. Every safety invariant, action property
and refinement a run checks is a theorem. Model-checked only: the liveness
properties (`AcceptedJobsSettle`, `OpenSubmissionsClose`, `SettledAudioIsReleased`,
`RecordingSettles`, `SearchCatchesUp`, `EveryRecordingSettles`, `LoadingEnds`),
which, like `ENABLED`, are outside the prover's reach.

## 6. What is not modelled, and why

* `client/web/drift_worker.dart.js` and `sqlite3.wasm`: the output of a compiler
  and a build of SQLite, checked in for the web client. `client/README.md:1` calls
  the files "generated or vendored snapshot artifacts"; their sources (the drift
  package, the Dart runtime) are not in the repository, nothing in them is
  Oracy's, and the web client keeps no upload queue.
* Authentication, metrics, configuration and deployment keep no protocol state;
  the Android widget bridge is a buffer of one intent.
* Cosine similarity and vector pooling are floating-point arithmetic; the two
  lists a search fuses are therefore any of a set of rankings. Filters of the note
  list, and the collections of sessions and tags, page like the note list and are
  left out.
* The legacy one-step `accept_job` is used by tests only. `cancelRecording` of
  `recording_service.dart` (156-169, 297-310) and the cancel request of
  `recording_recovery_service.dart` (115-132) have no caller in the app.
* Validation of request bodies, in `settings.rs` and of chunks, happens before any
  state is touched.
* Temporary audio slices of the worker are files nothing else reads. The overflow
  of a date in `transcription_worker.rs:648` (a `retry-after` beyond the calendar)
  is a fact about one expression.
* A regeneration that failed for good is not retried until the next edit:
  `SearchCatchesUp` has it as its exception.
* A search whose collection changes between two pages may repeat or miss notes,
  because every page ranks anew; `PagesFollowRanking` is about pages of one state
  of the collection.

## 7. Plan

1. Done: `TranscriptionJobs`, `ChunkSubmission`, `EmbeddingRegeneration`,
   `UploadQueue`, `RecordingRecovery`, `VoiceNoteSubstrate`, `HistoryPaging`.
2. Proofs: done for all that is checked except liveness. Still worth stating: the
   safety half of the liveness arguments (what keeps the action that a fairness condition is
   about enabled).
3. Models still open: the collections of sessions and tags with their filters, and
   the composition of `RecordingRecovery` with `UploadQueue` in one module, where
   several recordings are recovered and uploaded at once.
