# Verification of go-downloader-bot

The program is a Telegram bot that downloads Instagram posts. It runs as two
processes: `cmd/bot` handles Telegram updates, `cmd/worker` runs the tasks that
the bot and the workers put on Redis queues (asynq). Postgres keeps users,
settings, the media cache and the audit of downloads; Redis keeps the queues, an
"in-flight" lock and a waiters list per cache key.

## Inventory

| Component | State | Operations | Interacts with |
|---|---|---|---|
| Download worker (`internal/workers/download_worker.go`) | none of its own; settings and probe results held across calls | `ProcessTask` (cache lookup, lock, probe, direct flow, download), `processImagePost`, `failWaiters` | locks, queues, media, storage, downloader, Telegram |
| Audio worker (`audio_worker.go`) | files | `ProcessTask` (convert, size check, hand over) | queues, locks, storage |
| Send worker (`send_worker.go`) | files | `ProcessTask` (cached file id, or upload and copies), `handleLocalSendFailure` | locks, queues, media, Telegram |
| Locks (`internal/queue/locks.go`) | Redis: one lock and one list per key | `Acquire`, `Release`, `AddWaiter`, `PopWaiters` | all workers |
| Queues (`internal/queue/asynq_client.go`, `tasks.go`) | Redis (asynq) | `EnqueueDownload`, `EnqueueAudioConvert`, `EnqueueSend` | bot, workers |
| Media (`internal/media/media_service.go`) | `media_files`, `media_variants`, `downloads`, daily counters | upserts, cache lookup, `ClearFileID`, `CreateDownload`, `UpdateDownloadMetrics` | bot, workers |
| Delivery (`delivery_service.go`) | none | upload by URL, by file id, of a local file; local and cloud API | Telegram |
| Storage and cleanup (`internal/storage`) | files under a directory per chat and day | paths, removal, removal by age | workers |
| Handlers (`internal/handlers`) | a rate counter per user in Redis | links, MP3 button, save, statistics | users, media, queues |
| Admin (`internal/handlers/admin`, `users/admin_service.go`, `settings`) | pending inputs, admins, settings | add and remove admins, limits, modes | bot |
| URLs and formats (`internal/instagram`, `selectFormat`) | none (pure) | normalize, parse, choose a format | handlers, workers |
| Downloader (`internal/downloader`) | none | yt-dlp, gallery-dl, ffprobe, ffmpeg and fallbacks | workers |

What is hard here is the download pipeline. A request's work is spread over two
or three tasks on different queues. The lock taken in the first is released in
the last, by a worker that knows only the key's name; the lock has no owner and
expires. Requests for the same media leave their recipient on a list that the
holder reads and deletes in two calls. Every call on Redis, Postgres, the queues
and Telegram may fail, each failure has its own exit, and an error that is
returned makes asynq run the task again from the start. What must be right:

- *locks*: one pipeline per key at a time; a lock without a pipeline is
  released; nobody waits for a pipeline that does not know of it;
- *workers*: every recipient that the holder finds is answered; nobody is served
  twice or failed after having been served;
- *media*: a row says SUCCESS only for what was delivered, and FAILED only for
  what the worker has tried to tell the chat;
- *delivery*: the limit that is checked is the one of the API that is used;
- *files*: a file is there, and is the right one, when it is uploaded;
- *handlers*: limits hold, or are overrun by little, for concurrent updates of one user;
- *admin*: nobody changes administrators or settings without the right to;
- *formats*: the chosen format is the best that the post has and the quality admits.

## Modules

| Module | Models | Extends |
|---|---|---|
| `InFlight` | the three workers, the locks, the waiters lists, the file ids and the downloads rows | |
| `Delivery` | abstract: what chats and rows see of the pipeline; `InFlight` implements it | |
| `TempFiles` | the files of the three workers, their removal, the cleaner | |
| `Updates` | how the bot takes updates: one handler each, overlapping; the rate limit | |
| `Admins` | administrators, the admin panel and its prompts, settings, users' status | `Updates` |
| `Requests` | links and the MP3 button: checks, cached delivery, daily limit, enqueue | `Admins` |
| `Bot` | the bot process: the three above composed, and the starts of both processes | `Requests` |
| `Rights` | abstract: who may change administrators and settings; `Bot` implements it | |
| `Limits` | the upload limits, as operators | |
| `Formats` | `selectFormat`, as operators, and what a selection should be | |
| `Upload` | one download from the probe to the last attempt at an upload, while settings change | `Limits`, `Formats` |
| `MCInFlight`, `MCTempFiles`, `MCBot`, `MCUpload` | values for the constants | |
| `InFlightProofs`, `WaitersProofs`, `DeliveryProofs`, `TempFilesProofs`, `BotProofs`, `RightsProofs`, `FormatsProofs`, `UploadProofs` | theorems | |

The models meet at the boundaries of the processes. `Requests`' `Enqueue` is
`InFlight`'s `Submit`; `InFlight`'s `Store` is `Requests`' `Stored`. `InFlight`
has the queues, retries and waiters and takes what is uploaded as a choice,
`TempFiles` has the paths, `Upload` the sizes, limits and servers. They are checked
apart because their states multiply and touch only there.

### InFlight

A *request* is one `DownloadTask` with its row in `downloads`. `pc[r]` is the
queue its task waits on or the step its worker is at; `task[r]` and `tries[r]`
say which task that is and how often asynq has run it again; `key[r]` is the key
named by the payload (an image post changes it). `lock`, `waiters` and `fileId`
are the shared state in Redis and Postgres; `batch`, `head` and `then` are the
local variables of the loops over the popped recipients. `row`, `sent` and `told`
are what the user sees; `missed` are the requests whose error message Telegram
refused, which the code does not notice: every worker ignores the error of `bot.Send` and
marks the row FAILED all the same (`download_worker.go:507`, `send_worker.go:183`,
`audio_worker.go:66`).

One action is the code between two calls on a shared service, so all interleavings
of those calls are explored. `Acquire`, `Park` and `Register` are the calls at the
top of `DownloadWorker.ProcessTask`; `PopRead` and `PopDel` are the two halves of
`PopWaiters`, shared by the flows that call it; `FailOne` and `SendOne` are one
pass of the loops over recipients. Reads whose result cannot change the shared
state are merged with the next step. `Crash` stops a task at any step and lets
asynq run it again from the start.

`Conditions` is the set of things that a run (or a theorem) lets happen besides
the plain course: photo posts, formats with their own URL, a pipeline slower than
the TTL of its lock, failing calls by kind, messages and file ids that Telegram refuses, copies
whose answer is lost or names no media ("lost"), a dying worker. Naming them makes
each property say on what it depends. Without "slow" a lock or list expires only
when no pipeline works on its key.

Simplifications: a request is carried by one task (an enqueue that succeeds and
still reports an error, a crash after an enqueue, or a handler that outlives the
20 minutes asynq gives it, would double it); the
enqueue of an image post and the release right after it are one step; the update
of a downloads row succeeds; a row is updated together with the call before it;
`sent` is counted up to `SentBound` = 2, which is enough to tell one copy from
several.

### Delivery

The abstract specification of the pipeline keeps four variables of `InFlight`:
the downloads rows, the copies sent, the chats told and those whose message was refused. Queues, lock, list,
retries and recipients in hand are gone. A request is asked
once (`Ask`). Then copies (`Send`), marks (`Mark`) and messages (`Tell`) follow, with these
rules: a copy outside a holder's loop goes only to a request whose row is open, a row
says SUCCESS only behind a copy, an error message goes only to a request that
got no copy, and a row says FAILED only if the worker told its chat or tried to (`Fail`: for this or
another request for the same media). A lost answer breaks the rules: the worker takes the
copy for a failure, and tells the chat so or sends another. `Most` bounds the copies: 1 where no format has a URL of its own, and
`SentBound` with the direct flow, which may serve its holder twice.
`DeliveryKept` says that `InFlight` implements it; the mapping is the identity
on the four variables.

### TempFiles

`InFlight` leaves the files out, and `TempFiles` the locks, the lists and the
recipients: a *job* is one download with a key of its own, from the download task
to the end of its send task. `disk` says whose media each path holds. A path is
the chat's directory, a name and an extension; a name is made of the download's
id, of the post's title, or, for photo posts, of the title behind a warning (a
photo post therefore always has a title). `made` is `LocalPath` in the payload of
the send task (`SourcePath` in the audio task's), which a retry starts from again, and `local` the send worker's
variable after the rename. `returning` are the photo posts whose download task
still has its deferred removals to do, while the send task it enqueued may
already run. `fileId` is the content behind the file id that Telegram returned
and that is stored in `media_variants`.

`Download`, `Image`, `Return` and `Convert` are the download and audio tasks,
`Rename`, `Upload` and `Remove` the steps of the send task between which another
task can touch the directory, `Clean` the cleaner at one file. `Conditions` names
what may happen: photo posts, an unfinished file of yt-dlp, failing enqueues,
conversions, uploads and rows, and files in use older than the cleaner's TTL.

Simplifications: everything happens within one day; the cleaner's test and
removal are one step; a task writes its file in one step; jobs of one key, which
the lock keeps apart, are one job.

### Bot: Updates, Admins, Requests

The bot starts a goroutine for every update (`Bot.Start`), so handlers of one
person overlap in any order. `kind[u]` is what an update is, `pc[u]` the step its
handler is at; one action is one call on Redis or Postgres, with its error exits.
`Receive` lets at most `Parallel` handlers of a person run at a time. The code has
no such bound; it is there because the two bounds that hold, `OvershootBounded` and
`AnswersBounded`, are stated in terms of it: how far a limit is overrun is
how many handlers overlap.

- `rate`, `ttl`: the counter `rate:<id>` and whether it has a TTL; `Incr` and
  `Expire` are `rateLimited`'s two calls.
- `role`: table `admins`; `setting`: the row of `bot_settings`, where limits and
  texts are only "env" or "own", because what matters is whether a start overwrites
  them; `status`: a user's row, "none" without one.
- `pending`: `admin_input:<id>` in Redis; `prompt[u]` is what `TryHandleInput` has
  read of it. `Press` checks the role, `Ask` and the switches act; `CheckInput`,
  `GetPending`, `Apply` and `Clear` are the message that answers.
- `cached`, `today`, `links`, `end`: the file id of the post, a person's rows of
  today, those of them that passed the limit, and what became of an update.
- `BotStarts` ends all handlers; Telegram sends unconfirmed updates again.
  `WorkerStarts` is the same preparation of the tables by `cmd/worker`.

Simplifications: `IsAdmin` and the settings of the gate are read in one step; all
requests are for one post; a link's parser is a choice; commands, menu texts and
buttons that only show something are left out, except that a "text" stands for
any message that may answer a prompt; what a prompt does besides (search, errors,
no number) is "changes nothing".

### Rights

The abstract specification has three variables: the table of administrators, the
settings, and `may`, the rights that a person has in hand. A right is gained by
a person whose role entitles to it (`Gain`), used by `Add`, `Remove` and `Change`, and
kept, even if the role goes, until it is lost. `Bot` implements it with `may`
mapped to `Held`: the rights that a person's prompt in Redis and his handlers between check and
act amount to. That is the guarantee the code gives: not that who
acts is an administrator at that time, which the code does not check, but
that he was when he pressed the button. `Start` says what a start of either process
may overwrite: the mode and the limits in local mode, never the gate or texts.

### Upload, Limits, Formats

`pc` walks through `DownloadWorker.ProcessTask`, `AudioWorker.ProcessTask` and
`DeliveryService.SendLocalTimed`. `held` are the settings that the current process
has read; `setting` is the row, which `Change` may change at any step, and `since`
what it has been. `tried[path]` is the answer on each way to Telegram: by URL,
multipart to the local server, the fallback, the cloud. `endpoint` is the server
that the `tgbotapi` client was made for at the start of the process, which
need not be the one the settings name. `error` and `told` are the delivery
service's error and the message for the chats: its text, the limit it names, and
whether Telegram took it. The code ends in two ways: "done", with a copy or a
message (`Ends`), and "dropped", with an error that the task returns and of which no
chat hears (`Drops`): the send worker's media row (`send_worker.go:45-55`), the
enqueue of the next task (`download_worker.go:365`), and in the audio worker the
conversion and the settings. The conditions "database", "queue" and "block" (Telegram takes
no message for the chat) let this happen.

Sizes are in bytes, limits in megabytes, and the rounding is the code's. `Formats`
has the loops of `selectFormat` as recursive functions on the prefixes of the list that
yt-dlp reports, and `SelectionRight`, which says what a selection should be without an order.

Simplifications: one attempt and one recipient (retries and waiters are
`InFlight`'s); the entries of a carousel are a choice of `Probe`; the variable
`TELEGRAM_API_ENDPOINT` is not set; a repeated probe is left out.

## Runs

All runs of `MCInFlight` have one post: requests for different posts share nothing. Three
requests are a holder, one on its list, and one that comes late or waits
elsewhere; two chats are enough for two requests of one chat and one of another.
`JobAttempts` = 1 gives each task one retry. Deadlock is not checked, because
requests end.

| Run | Requests and conditions | Shows |
|---|---|---|
| `inflight_released` | 3 links; directUrl, setup, telegram | `TypeOK`; `MutualExclusion`: no two pipelines on a key; `LockHasHolder`: every exit releases; `FailureIsTold`: a FAILED row has a message behind it, or one that Telegram refused; `SuccessIsFinal`; `DeliveryKept`: `InFlight` implements `Delivery` |
| `inflight_live` | 3 links; setup; fair | `AtMostOneCopy`; `ListedIsAnswered`: the holder answers all it finds; `LockIsReleased`; `DeliveryKept` with one copy at most |
| `inflight_everything` | 2 links; image, lateImage, directUrl, slow, redis, enqueue, database, store, telegram, lost | `SuccessMeansSent` |
| `inflight_crash` | 2 MP3 requests; crash, convert, store, telegram, lost | `SuccessMeansSent`, wherever the worker process dies |
| `inflight_lost_wakeup` | 3 links; nothing fails | violates `ParkedIsAnswered` |
| `inflight_direct_skip` | 3 links; directUrl | violates `SkippedIsServed` |

`inflight_everything` and `inflight_crash` have a `VIEW` without `told` and `missed`, which no
step and no property of theirs reads. `inflight_everything` looks no further than
lists of `ListBound` = 2 (`ShortLists`): with "database", a request whose refused file id
cannot be cleared is downloaded again and again and may lengthen the list each time. Two
entries are both requests, or one of them twice.

The runs of `MCTempFiles` have two jobs of one chat, because jobs of different
chats share no directory, and two files meet in a collision. One retry lets a
send task find the state its first run has left.

| Run | Jobs and conditions | Shows |
|---|---|---|
| `tempfiles` | a song with a title, a video or photo without; all but slow | `CachedIsOwn`: what is uploaded and cached under a key is that key's; `FileIsThere`; `DeliveredLeavesNothing` |
| `tempfiles_same_title` | 2 videos with one title; nothing fails | violates `CachedIsOwn` |
| `tempfiles_picture` | a photo post; nothing fails | violates `PictureIsThere` |

`bot` (`MCBot`) has two people, the superadmin and one who may become an administrator,
and five mixes of updates: a prompt and three texts (a prompt answered twice, a text
above the rate limit); a removal and an addition that overlap; the maintenance
switch, a mode, a text and an MP3 button; the gate closed under a link while a status changes; three links.
`Parallel` = 2, `RateLimit` = 1, `DailyLimit` = 1 and one restart: a third link
overruns `OvershootBounded`, a third text `AnswersBounded`. "redis" is left
out, because a failing `EXPIRE` breaks `RateKeyHasTTL` and a failing `DEL` breaks
`AnswersBounded`; the theorems say so too.

| Run | Shows |
|---|---|
| `bot` | `RateKeyHasTTL`: nobody is limited for good; `AnswersBounded`: a prompt is answered at most as often as handlers overlap; `OvershootBounded`: so is the daily limit overrun; `RightsKept`: `Bot` implements `Rights` |
| `upload` | `UploadFits`, `SecondCopyExplained`, `FitsIsNotRefused`, `LocalNeverToldCloud`, `LimitToldIsTrue`, `EndsWithAnswer`, `SelectsRight` |
| `upload_fallback` | violates `FallbackGoesToCloud` |

`upload` (`MCUpload`) has three rows of settings (cloud; local with a limit on audio below the
cloud's; local without cloud and video limits and below the cloud's default), three
sizes (small, one byte above 50 MB, above the limit on videos), every
list of at most two formats, all servers' answers and all conditions. Two formats
are enough for each comparison of `selectFormat` and for a tie; three settings for two
changes between the three reads.

What TLC showed while the conditions were chosen, with runs of three and four requests that are
not kept. Each of these conditions alone breaks the property, with the exception named
below the table, so no theorem below excludes one without need:

| Property | Broken by each of |
|---|---|
| `MutualExclusion`, `FailureIsTold` | image, lateImage, slow, store, crash; with songs also convert, setup, enqueue |
| `LockHasHolder` | image, redis, enqueue, database, crash |
| `SuccessIsFinal` | image, lateImage, slow, redis, enqueue, store, crash; with songs also convert, setup |
| `DeliveryKept` | the same, and lost |
| `AtMostOneCopy` | the same, lost, and directUrl |

With songs, setup and enqueue need two retries, which is the code's default. For
`FailureIsTold`, enqueue is excluded because the proof rests on mutual exclusion, which it breaks; three requests
show no counterexample. Some need four requests. `FailureIsTold` is broken by convert when a pipeline whose conversion
failed runs on without the lock, two others run at once, and the second is failed
after the first has served it and a fourth has joined the list. These follow from the code's own exits: an image post releases
before its send task, a task that released and returned an error runs again and
releases again, an enqueue that fails returns without releasing.

The five violations are findings. A request that finds the lock taken appends to
the list even if the holder has just emptied it, and is then forgotten, though
the bot told its chat to wait for the video. The direct flow serves the recipient
of its own payload and then all but the first of the list, though the first may
be another request that came between the holder's `Acquire` and `AddWaiter`. The
send worker renames its file to the post's title, which posts of one account
often share: two sends of one chat then use one path, and the file id of the wrong
post is cached and served from then on. The download task of a photo post removes
the picture as soon as it has enqueued the send task that is to upload it. The
fallback "to the cloud" of the delivery service uses the client that was made at
the start of the process: in local mode that is the local server, which has just failed.

Other things met while modelling, which no document denies. `YTDLP.Download` replaces
every format expression without "audio" by its own, so what `selectFormat` selects
matters only for the direct URL (`ytdlp.go:188`). The size check before a download
uses the size of the default format, not of the selected one (`download_worker.go:169`).
An error that the local server answers to a large file is told as "Local Bot API
server does not work" (`delivery_service.go:440`, `send_worker.go:176`).
`HasVideoFormats` asks for a height above 0 and `selectFormat` does not. A start in
local mode sets the limits back to the environment's (`settings_service.go:58`). The MP3 button asks
for neither the daily limit nor the user's status (`callback_handler.go:79`). A failed
conversion ends without a message to anybody (`audio_worker.go:41`), which is why
`EndsWithAnswer` speaks of videos. A video's download ends in silence when the send worker cannot
write its media row or the send task cannot be put on its queue, in every retry, and
when Telegram refuses the error message, which nobody notices; `EndsWithAnswer` says that
there is no other way, and `NobodyIsLeftWithNothing` that without these three a
chat gets the video or a message. `src/README.md:236` says that every start sets the
limits from the environment; the code does so in local mode only, which is what `Rights` allows a start.

### Fairness

`FairSpec` assumes weak fairness of each request's steps: asynq's queue weights
are not strict priorities (`cmd/worker/main.go`), so every queue is served, a
retry has a bounded delay, and every call on a service has a timeout or returns.
Nothing is assumed about new requests, the expiry of locks, or crashes.

## Proofs

`InFlightProofs` proves, for every set of requests, posts and chats and every
number of retries:

- `TypeCorrect`: `Spec => []TypeOK`, under all conditions. One lemma per group of
  variables (`PcType`, `StoreType`, `OutcomeType`, `LoopType`), one case per action.
- `MutualExclusionHolds`: unless a condition of `Breaking` is admitted: an image post, an expired
  lock, a failing READY row or a crash, and, if somebody asks for a song, a failing conversion,
  setting or enqueue: an audio task that returns any error finds no source in its
  retry, and releases the lock once more. Mutual exclusion
  alone is not inductive: `Release` deletes whatever lock there is. `LockInv` adds
  that who works under the lock of a key has it (so a second `Acquire` fails), that
  payloads name the key that was locked, that audio tasks are first runs, and
  (`TaskInv`) that a task that fails is run again from its own beginning, which
  is not inside the locked part of another task. `LockStep` shows that every step takes, keeps
  or gives back the lock together with the work under it.
- `LockHasHolderHolds`: unless an image post found by the probe, a failing call on the locks, an
  enqueue or media row before the delivery that fails, or a crash is among the conditions
  (failing settings need a retry: without one the audio task is archived with the lock kept).
  Mutual exclusion is not needed and does not hold under these conditions: with lateImage,
  slow, store and convert a pipeline may delete the lock of another. `OwnerInv` says instead that a lock
  that still exists has a request at work that names its key; only the send task of
  a picture names a key other than the request's, and it took no lock under
  that name. `OwnerStep`: a step takes the lock and works under it, or
  removes locks at most, and its own if it ends its work.
- `SuccessMeansSentHolds`: under all conditions. The invariant adds that the two
  steps which mark a row are reached only behind the send that earns it.

`WaitersProofs` proves, on top of `LockInv`, what becomes of those on the lists:

- `FailureIsToldHolds`: under the conditions of `MutualExclusionHolds`, with refused messages and
  lost answers. It speaks of the attempt, because that is all the code makes sure of;
  `FailureArrives` adds that without refused messages the chat has got one. What is needed
  besides is that a holder is on its own list until it reads it (only the holder of
  a key empties the key's list), and that each chat of a list is among those
  that are answered (`EveryChatIsAnswered`, from the well-ordering of the indices), so
  that a holder which fails its own row has told its own chat.
- `SuccessIsFinalHolds` and `AtMostOneCopyHolds`: with directUrl, setup, database,
  telegram and lost as the only conditions (`Settled`; setup if nobody asks for a song), the
  second without directUrl and lost. Both rest on
  `WaitingInv`: who is on a list has left its task or holds the lock; who is in a holder's hands
  after the delete is on no list; and by mutual exclusion no two holders have one
  recipient in hand. `FinalInv` adds that a served request is in no failing holder's
  hands, `OnceInv` that it is in nobody's but as the first recipient of a holder that
  has not stored the file id yet.

`DeliveryProofs` proves `PipelineDelivers`: `Spec => DeliveryKept`, the refinement of
`Delivery`, under the conditions of `SuccessIsFinalHolds` but for lost (`Heard`); each other
condition breaks it on the instances of the runs. The guards of `Delivery` are what has to be
shown. That a request which is marked or told is open comes from `FinalInv`, that a
marked one has its copy from `SentInv`, that the chat of a failed one was told, or its message refused, from `ToldInv`, and
that no second copy is sent without the direct flow from `AtMostOneCopyHolds`.
The part that no earlier invariant gives is that nobody is told after a copy: `GotInv`
adds that who got one is past its send, on no list but as its holder, and
in no failing holder's hands (`GotStep`, by the four kinds of step of `ListStep` and
`MovingStep`). `StepRefinesDelivery` then maps each action to a step of `Delivery` or a stutter.

`TempFilesProofs` proves, for every set of jobs, chats and titles:

- `FilesTypeCorrect`: `Spec => []FilesTypeOK`.
- `CachedIsOwnHolds`: if no two posts of a chat have one title (`DistinctTitles`;
  posts without a title may be several when photo posts are not among the
  conditions), `Spec => []CachedIsOwn`, under all conditions. That the file id is
  right rests on what is on the disk: `OwnInv` says that the paths in a job's
  payload and the paths at which its media lie are named after its download or
  its title. By `DistinctTitles` these sets of paths are disjoint (`PathsApart`),
  so at a job's paths there is nothing of another job (`OwnContent`), and each
  step changes only paths of its own job (`OwnStep`).
- `FileIsThereHolds`: by `DistinctTitles`, and without slow, `Spec => []FileIsThere`. `ThereInv` adds that
  the file is there when its task is put on the queue, and that the removals which
  the download task of a photo post still has to do touch no file in use but the picture.
- `DeliveredLeavesNothingHolds`: by `DistinctTitles`, `Spec => []DeliveredLeavesNothing` under all conditions.
  `SingleInv` follows a job's media from path to path: all copies but those removed by the
  photo post's download task are at the path that the current task works on.

`BotProofs` proves, for every set of people and updates and every limit:

- `BotTypeCorrect`: `Spec => []BotTypeOK`, under all conditions.
- `RateKeysHaveTTL`: without "redis". The invariant adds that only the handler that
  made the key, at most one, is about to set its TTL.
- `OvershootIsBounded`: under all conditions. `OvershootInv` adds that every counted
  link is a row of today, that the links between check and row together with
  the rows stay below the bound, and that no person has more than `Parallel`
  handlers running (`HandlersBounded`, from `Receive`).
- `AnswersAreBounded`: without "redis". `AnswersInv` distinguishes whether the prompt is still
  kept: then the handlers that have read it count against it, later against the
  prompts there have been.

`RightsProofs` proves `BotKeepsRights`: `Spec => RightsKept`, the refinement of
`Rights`, under all conditions. `OneMoves` says that a handler which moves brings
only the rights of its new step; then each action is mapped to a step of
`Rights` (`PressRefines`, `AskRefines`, ..., `StartRefines`) or to a stutter (`StepRefines`). It needs
`BotTypeOK` and no other invariant.

`UploadProofs` proves, for all settings, lists, sizes and answers:

- `RoundingExact`: sizes rounded up to megabytes compare with limits like the bytes.
- `UploadTypeCorrect`, and the seven properties of the run:
  `UploadsFit`, `SecondCopiesExplained`, `FittingIsNotRefused`, `LocalIsNotToldCloud`,
  `LimitsToldAreTrue`, `DownloadEndsWithAnswer` (with its consequence
  `NobodyIsLeftWithNothing`, when Postgres and the queues answer and Telegram takes messages), and `SelectionsAreRight`, which rests on `FormatsProofs`. The invariant has four parts besides the types: `Ordered` (which
  paths were followed before which), `Fitting` (the size has been compared with the limit
  of the path taken), `Reading` (what was read is no older than the download)
  and `Telling` (each text has its reason, `Truthful`, and each end its message). `UploadFits` alone is not inductive: that
  the fallback's file fits the cloud follows from the test made before the local attempt.
  That the worker's limit is never above the delivery service's under the same
  settings (`EffectiveAtMost`) carries `FittingIsNotRefused`.

`FormatsProofs` proves `SelectionIsRight`: for every list of formats and every
quality, `selectFormat` satisfies `SelectionRight`. The installed provers cannot use the
induction theorems of the library, whose parameter is an operator; so what a loop has found
after n entries is shown by least counterexample: if the invariant `LoopInv` failed for some
prefix of the list, it would for a shortest one (`LeastNumber`, from the well-foundedness of < on
the naturals), which is not the empty one, and `LoopStep` contradicts it. `BestIsLoop` shows that `Best` is that
recursive function (`LoopEnds`: it exists and satisfies its equation), `BeatsIsAnOrder`
that what the loop keeps is beaten by nothing it has passed, and `BestIsTop` and `AudioIsTop` that
it therefore is one of the best.

The assumptions are those of the modules (`RequestsAssumption`,
`JobAttemptsAssumption`, `ConditionsAssumption`, `JobsAssumption`, `NamesAssumption`,
`SettingsAssumption`, `UpdatesAssumption`, `ParallelAssumption`, `RateAssumption`,
`BotConditionsAssumption`, `AdminsAssumption`, `DailyAssumption`, `UploadAssumption`);
TLC evaluates each in a run.

Only model-checked: the liveness properties (`ListedIsAnswered`, `LockIsReleased`), which are
out of the prover's reach. Every safety property that a passing run checks is stated by a theorem.

## Plan

1. `InFlight` with its runs and theorems (done).
2. `TempFiles` with its runs and theorems (done).
3. The bot's handlers with the admin panel, `Rights` as their abstract
   specification, and the refinement checked and proved (done).
4. `Limits`, `Formats` and `Upload`, with the theorems about uploads (done).
5. `WaitersProofs`, and the rest of `TempFilesProofs` (done).
6. `Delivery` as the abstract specification of the pipeline, checked and proved;
   `FormatsProofs`; the wider `LockHasHolderHolds` (done).
7. Left: tasks doubled by an enqueue whose answer is lost.

## Not modelled

- *URL parsing and normalization* (`internal/instagram/parser.go`, `normalizer.go`):
  string processing without state; a link is a choice of `Lookup`, a post a model value.
- *Saved media, statistics, logs, donations*: single statements on one table, reporting
  queries and append-only rows; no protocol.
- *Clients of Postgres, Redis and Telegram, the external programs*: I/O; their outcomes
  are choices of the models.
- *Message texts and keyboards*: wording; where a text's kind or limit matters
  (`Upload`), it is modelled.
- Commands, menus, lists and searches of the handlers: they change nothing but a user's row.
- The meaning of format expressions: they are yt-dlp's.
