------------------------------ MODULE InFlight ------------------------------
(***************************************************************************)
(* The download pipeline of the worker process: the tasks of the download, *)
(* audio and send queues, the Redis in-flight lock and waiters list of     *)
(* each cache key, and the cached Telegram file id of each key.            *)
(*                                                                         *)
(* A request is one DownloadTask with its row in the downloads table.  Its *)
(* work moves from task to task (download, audio, send), and the lock it   *)
(* took in the first task is given back in the last, by another worker     *)
(* that knows only the name of the key.  A step of a request is the code   *)
(* between two calls to Redis, Postgres or Telegram, so every interleaving *)
(* of those calls by concurrent workers is a behaviour of this module.     *)
(*                                                                         *)
(* Conditions names what a run lets happen besides video and audio posts   *)
(* met with every service up, so that a property can say what it needs.    *)
(***************************************************************************)
EXTENDS Naturals, Sequences

CONSTANTS Requests,     \* download tasks, each with its downloads row
          Posts,        \* normalized post URLs
          Chats,        \* Telegram chats
          PostOf,       \* the post a request asks for
          TypeOf,       \* "VIDEO" (a link) or "AUDIO" (the MP3 button)
          ChatOf,       \* the chat a request comes from
          JobAttempts,  \* asynq.MaxRetry: retries of a task after its first run
          Conditions    \* what may happen in this run, see AllConditions

\* The three queues; send tasks with a file id ("cached") take another way
\* through the send worker than those with a file ("send").
Queues == {"download", "audio", "send", "cached"}

VariantTypes == {"VIDEO", "AUDIO", "IMAGE"}

AllConditions ==
  { "image",      \* the probe finds a photo post, or no video format at all
    "lateImage",  \* the download, not the probe, reports that there is no video
    "directUrl",  \* the chosen format is a single file with a URL of its own
    "slow",       \* a pipeline outlives the TTL of the lock
    "redis",      \* a call on the locks fails
    "enqueue",    \* a task cannot be put on its queue
    "setup",      \* settings cannot be read or a directory made, in the download
                  \* or the audio task
    "database",   \* a media row cannot be read or written before the delivery
    "store",      \* the READY row cannot be written after the delivery
    "convert",    \* ffmpeg fails
    "crash",      \* the worker process dies in the middle of a task
    "telegram",   \* Telegram refuses a message or a file id
    "lost" }      \* Telegram's answer to a send is lost, or names no media

ASSUME RequestsAssumption ==
  /\ PostOf \in [Requests -> Posts]
  /\ TypeOf \in [Requests -> {"VIDEO", "AUDIO"}]
  /\ ChatOf \in [Requests -> Chats]
ASSUME JobAttemptsAssumption == JobAttempts \in Nat
ASSUME ConditionsAssumption == Conditions \subseteq AllConditions

VARIABLES
  lock,     \* the cache keys whose lock exists in Redis
  waiters,  \* the waiters list of each key, in Redis
  fileId,   \* does the media_variants row of the key hold a Telegram file id
  row,      \* the status of the request's downloads row
  sent,     \* media messages sent to the request's chat on its behalf
  told,     \* the requests whose chat was sent an error message
  missed,   \* those whose error message Telegram refused
  pc,       \* the queue a request's task is on, or the worker step it is at
  task,     \* the queue its current task came from
  tries,    \* how often that task was retried
  key,      \* the key that the payload of the current task names
  batch,    \* the popped recipients the worker still has to answer
  head,     \* the first of the popped recipients, waiters[0]
  then      \* what the worker does after the batch

redis    == <<lock, waiters>>
messages == <<told, missed>>
outcome  == <<row, sent, messages>>
loop     == <<batch, head, then>>
attempt  == <<task, tries>>
job      == <<pc, attempt, key, loop>>
vars     == <<redis, fileId, outcome, job>>

-----------------------------------------------------------------------------
(* Keys, recipients, and what a task may do when a call fails.             *)

\* MP3 requests carry the quality MP3, links the quality AUTO.
QualityOf(type) == IF type = "AUDIO" THEN "MP3" ELSE "AUTO"

CacheKey(r) ==
  [post |-> PostOf[r], type |-> TypeOf[r], quality |-> QualityOf(TypeOf[r])]

Keys == [post : Posts, type : VariantTypes, quality : {"AUTO", "MP3"}]

May(c) == c \in Conditions

\* The recipients of a list without the later ones of a chat already seen.
OnePerChat(list) ==
  {list[i] : i \in {j \in 1..Len(list) :
                      \A k \in 1..(j - 1) : ChatOf[list[k]] # ChatOf[list[j]]}}

\* The steps at which a request's work runs under the lock of its key.
Locked == { "register", "probe", "direct", "directStore", "fetch", "audio",
            "send", "directRead", "failRead", "sendRead", "directDel", "failDel",
            "sendDel", "failEach", "sendFirst", "store", "directRest", "sendRest" }

Works(r) == pc[r] \in Locked \cup {"image"}

Goto(r, step) == pc' = [pc EXCEPT ![r] = step]

\* A task is handed to the next queue, as a new task.
Enqueued(r, queue) ==
  /\ Goto(r, queue)
  /\ task' = [task EXCEPT ![r] = queue]
  /\ tries' = [tries EXCEPT ![r] = 0]

RetriedForever(r) ==
  /\ Goto(r, task[r])
  /\ tries' = [tries EXCEPT ![r] = @ + 1]
  /\ UNCHANGED task

\* The worker returned an error: asynq runs the task again, or archives it.
Retried(r) ==
  IF tries[r] < JobAttempts
    THEN /\ Goto(r, task[r])
         /\ tries' = [tries EXCEPT ![r] = @ + 1]
         /\ UNCHANGED task
    ELSE Goto(r, "archived") /\ UNCHANGED attempt

\* Enqueue, or return the error of the enqueue.
EnqueuedOrRetried(r, queue) ==
  \/ Enqueued(r, queue)
  \/ May("enqueue") /\ Retried(r)

\* Release deletes the lock of a key, whoever holds it, and ignores errors.
Released(k) ==
  \/ lock' = lock \ {k}
  \/ May("redis") /\ UNCHANGED lock

\* One more media message to q's chat, counted up to SentBound.
SentBound == 2

SentTo(q) == sent' = [sent EXCEPT ![q] = IF @ < SentBound THEN @ + 1 ELSE @]

\* An error message to q's chat; bot.Send's error is ignored.
Tells(q) ==
  \/ told' = told \cup {q} /\ UNCHANGED missed
  \/ May("telegram") /\ missed' = missed \cup {q} /\ UNCHANGED told

\* failWaiters starts; after the batch the worker does what `after` says:
\* "finish", "retry" (return the error), "reject" (fail the task's own row).
Failing(r, after) == Goto(r, "failRead") /\ then' = [then EXCEPT ![r] = after]
-----------------------------------------------------------------------------
(* The bot: a link that missed the cache, or a press of the MP3 button.    *)

\* The row is created first, so it stays QUEUED when the enqueue fails.
Submit(r) ==
  /\ pc[r] = "idle"
  /\ row' = [row EXCEPT ![r] = "QUEUED"]
  /\ \/ Enqueued(r, "download") /\ UNCHANGED messages
     \/ /\ May("enqueue")
        /\ Goto(r, "refused")
        /\ Tells(r)
        /\ UNCHANGED attempt
  /\ UNCHANGED <<redis, fileId, sent, key, loop>>

(* The download task, up to the probe.                                     *)

\* A lookup that fails counts as a miss.
LookupCache(r) ==
  /\ pc[r] = "download"
  /\ \/ fileId[CacheKey(r)] /\ EnqueuedOrRetried(r, "cached")
     \/ /\ ~fileId[CacheKey(r)] \/ May("database")
        /\ Goto(r, "acquire")
        /\ UNCHANGED attempt
  /\ UNCHANGED <<redis, fileId, outcome, key, loop>>

AcquireIgnoringTheLock(r) ==
  /\ pc[r] = "acquire"
  /\ Goto(r, "register")
  /\ lock' = lock \cup {CacheKey(r)}
  /\ UNCHANGED <<waiters, fileId, outcome, attempt, key, loop>>

\* SETNX: the lock has no owner and a TTL.
Acquire(r) ==
  /\ pc[r] = "acquire"
  /\ \/ /\ CacheKey(r) \notin lock
        /\ lock' = lock \cup {CacheKey(r)}
        /\ Goto(r, "register")
        /\ UNCHANGED attempt
     \/ /\ CacheKey(r) \in lock
        /\ Goto(r, "park")
        /\ UNCHANGED <<lock, attempt>>
     \/ May("redis") /\ Retried(r) /\ UNCHANGED lock
  /\ UNCHANGED <<waiters, fileId, outcome, key, loop>>

\* The lock was taken: leave the recipient to its holder and finish the task.
Park(r) ==
  /\ pc[r] = "park"
  /\ \/ /\ waiters' = [waiters EXCEPT ![CacheKey(r)] = Append(@, r)]
        /\ Goto(r, "parked")
        /\ UNCHANGED attempt
     \/ May("redis") /\ Retried(r) /\ UNCHANGED waiters
  /\ UNCHANGED <<lock, fileId, outcome, key, loop>>

\* The holder puts its own recipient on the list, or gives the lock back.
Register(r) ==
  /\ pc[r] = "register"
  /\ \/ /\ waiters' = [waiters EXCEPT ![CacheKey(r)] = Append(@, r)]
        /\ Goto(r, "probe")
        /\ UNCHANGED <<lock, attempt>>
     \/ /\ May("redis")
        /\ Released(CacheKey(r))
        /\ Retried(r)
        /\ UNCHANGED waiters
  /\ UNCHANGED <<fileId, outcome, key, loop>>

(* Settings, probe, size check, and the choice of the flow.  The direct    *)
(* flow starts by writing a PENDING row without a file id.                 *)
Probe(r) ==
  /\ pc[r] = "probe"
  /\ \/ May("setup") /\ Failing(r, "retry") /\ UNCHANGED fileId
     \/ May("image") /\ Goto(r, "image") /\ UNCHANGED <<fileId, then>>
     \/ TypeOf[r] = "VIDEO" /\ Failing(r, "reject") /\ UNCHANGED fileId
     \/ /\ May("directUrl")
        /\ TypeOf[r] = "VIDEO"
        /\ fileId' = [fileId EXCEPT ![CacheKey(r)] = FALSE]
        /\ Goto(r, "direct")
        /\ UNCHANGED then
     \/ Goto(r, "fetch") /\ UNCHANGED <<fileId, then>>
  /\ UNCHANGED <<redis, outcome, attempt, key, batch, head>>

-----------------------------------------------------------------------------
(* The direct flow: Telegram is given the URL of the chosen format.        *)

\* A refused URL falls back to the download, and so does a lost answer.
SendDirect(r) ==
  /\ pc[r] = "direct"
  /\ \/ Goto(r, "fetch") /\ UNCHANGED sent
     \/ May("lost") /\ Goto(r, "fetch") /\ SentTo(r)
     \/ Goto(r, "directStore") /\ SentTo(r)
  /\ UNCHANGED <<redis, fileId, row, messages, attempt, key, loop>>

\* When READY cannot be written the variant in hand is empty: the row's
\* update names variant 0 and is refused, and no waiter can be sent a copy.
StoreDirect(r) ==
  /\ pc[r] = "directStore"
  /\ Goto(r, "directRead")
  /\ \/ /\ fileId' = [fileId EXCEPT ![CacheKey(r)] = TRUE]
        /\ row' = [row EXCEPT ![r] = "SUCCESS"]
        /\ then' = [then EXCEPT ![r] = "finish"]
     \/ /\ May("store")
        /\ then' = [then EXCEPT ![r] = "mute"]
        /\ UNCHANGED <<fileId, row>>
  /\ UNCHANGED <<redis, sent, messages, attempt, key, batch, head>>

-----------------------------------------------------------------------------
(* PopWaiters, called by four flows, is two calls: LRANGE, then DEL.       *)

PopOf == [directRead |-> "directDel", failRead |-> "failDel", sendRead |-> "sendDel"]

AfterPop == [directDel |-> "directRest", failDel |-> "failEach", sendDel |-> "sendFirst"]

\* waiters[1:] in the direct flow, the whole list in the others.
Served(r, popped, first) ==
  IF pc[r] \in {"directRead", "directDel"} THEN popped \ {first} ELSE popped

PopReadOfTheFirst(r) ==
  /\ pc[r] \in DOMAIN PopOf
  /\ LET list  == waiters[key[r]]
         first == IF list = <<>> THEN r ELSE Head(list)
     IN /\ batch' = [batch EXCEPT ![r] = {first}]
        /\ head' = [head EXCEPT ![r] = first]
        /\ Goto(r, PopOf[pc[r]])
  /\ UNCHANGED <<redis, fileId, outcome, attempt, key, then>>

\* An empty list, or a failed read (and then no DEL), leaves the recipient
\* of the payload.
PopRead(r) ==
  /\ pc[r] \in DOMAIN PopOf
  /\ \/ LET list   == waiters[key[r]]
            popped == IF list = <<>> THEN {r} ELSE OnePerChat(list)
            first  == IF list = <<>> THEN r ELSE Head(list)
        IN /\ batch' = [batch EXCEPT ![r] = Served(r, popped, first)]
           /\ head' = [head EXCEPT ![r] = first]
           /\ Goto(r, PopOf[pc[r]])
     \/ /\ May("redis")
        /\ batch' = [batch EXCEPT ![r] = Served(r, {r}, r)]
        /\ head' = [head EXCEPT ![r] = r]
        /\ Goto(r, AfterPop[PopOf[pc[r]]])
  /\ UNCHANGED <<redis, fileId, outcome, attempt, key, then>>

PopDelKeepingTheList(r) ==
  /\ pc[r] \in DOMAIN AfterPop
  /\ Goto(r, AfterPop[pc[r]])
  /\ UNCHANGED <<redis, fileId, outcome, attempt, key, loop>>

PopDel(r) ==
  /\ pc[r] \in DOMAIN AfterPop
  /\ Goto(r, AfterPop[pc[r]])
  /\ \/ waiters' = [waiters EXCEPT ![key[r]] = <<>>]
     \/ May("redis") /\ UNCHANGED waiters
  /\ UNCHANGED <<lock, fileId, outcome, attempt, key, loop>>

-----------------------------------------------------------------------------
(* Failure: every popped recipient is told, if Telegram takes the message, *)
(* and its row marked FAILED.                                              *)

FailOneTellingTheHolder(r) ==
  /\ pc[r] = "failEach"
  /\ \E q \in batch[r] :
       /\ Tells(r)
       /\ row' = [row EXCEPT ![q] = "FAILED"]
       /\ batch' = [batch EXCEPT ![r] = @ \ {q}]
  /\ UNCHANGED <<redis, fileId, sent, pc, attempt, key, head, then>>

FailOne(r) ==
  /\ pc[r] = "failEach"
  /\ \E q \in batch[r] :
       /\ Tells(q)
       /\ row' = [row EXCEPT ![q] = "FAILED"]
       /\ batch' = [batch EXCEPT ![r] = @ \ {q}]
  /\ UNCHANGED <<redis, fileId, sent, pc, attempt, key, head, then>>

FailEndKeepingTheLock(r) ==
  /\ pc[r] = "failEach"
  /\ batch[r] = {}
  /\ row' = IF then[r] = "reject" THEN [row EXCEPT ![r] = "FAILED"] ELSE row
  /\ IF then[r] = "retry"
       THEN Retried(r)
       ELSE Goto(r, "done") /\ UNCHANGED attempt
  /\ UNCHANGED <<redis, fileId, sent, messages, key, loop>>

FailEnd(r) ==
  /\ pc[r] = "failEach"
  /\ batch[r] = {}
  /\ row' = IF then[r] = "reject" THEN [row EXCEPT ![r] = "FAILED"] ELSE row
  /\ Released(key[r])
  /\ IF then[r] = "retry"
       THEN Retried(r)
       ELSE Goto(r, "done") /\ UNCHANGED attempt
  /\ UNCHANGED <<waiters, fileId, sent, messages, key, loop>>

-----------------------------------------------------------------------------
(* The download, and the hand-over to the audio or the send queue.  An     *)
(* enqueue that fails returns its error with the lock still held.          *)

Fetch(r) ==
  /\ pc[r] = "fetch"
  /\ \/ May("setup") /\ Failing(r, "retry") /\ UNCHANGED <<lock, attempt>>
     \/ Failing(r, "reject") /\ UNCHANGED <<lock, attempt>>
     \/ /\ May("lateImage")
        /\ Released(CacheKey(r))
        /\ Goto(r, "image")
        /\ UNCHANGED <<attempt, then>>
     \/ /\ EnqueuedOrRetried(r, IF TypeOf[r] = "AUDIO" THEN "audio" ELSE "send")
        /\ UNCHANGED <<lock, then>>
  /\ UNCHANGED <<waiters, fileId, outcome, key, batch, head>>

(* processImagePost: the picture, or a video made of the picture and the   *)
(* sound, goes to the send queue under another type, and the lock of the   *)
(* requested key is released at once.                                      *)
Image(r) ==
  /\ pc[r] = "image"
  /\ \/ /\ \/ May("setup") /\ Failing(r, "retry")
           \/ Failing(r, "reject")
           \/ May("enqueue") /\ Failing(r, "finish")
        /\ UNCHANGED <<lock, attempt, key>>
     \/ /\ \E type \in {"IMAGE", "VIDEO"} :
             key' = [key EXCEPT ![r] = [CacheKey(r) EXCEPT !.type = type]]
        /\ Enqueued(r, "send")
        /\ Released(CacheKey(r))
        /\ UNCHANGED then
  /\ UNCHANGED <<waiters, fileId, outcome, batch, head>>

(* The audio task.  Its first run removes the downloaded file, whatever    *)
(* comes of it, so that a retry finds nothing to convert, unless the       *)
(* process died before the removal.  A failed conversion releases the      *)
(* lock; an error after the conversion returns with the lock held.         *)
Audio(r) ==
  /\ pc[r] = "audio"
  /\ \/ /\ tries[r] = 0 \/ May("crash")
        /\ \/ May("setup") /\ Retried(r) /\ UNCHANGED then
           \/ Failing(r, "finish") /\ UNCHANGED attempt
           \/ EnqueuedOrRetried(r, "send") /\ UNCHANGED then
        /\ UNCHANGED lock
     \/ /\ May("convert") \/ tries[r] > 0
        /\ Released(key[r])
        /\ Retried(r)
        /\ UNCHANGED then
  /\ UNCHANGED <<waiters, fileId, outcome, key, batch, head>>

-----------------------------------------------------------------------------
(* The send task of a downloaded file.                                     *)

\* The media rows: FindVariant's error is taken for a missing row, which is
\* then written READY without a file id.
Send(r) ==
  /\ pc[r] = "send"
  /\ \/ Goto(r, "sendRead") /\ UNCHANGED <<fileId, attempt>>
     \/ /\ May("database")
        /\ \/ Retried(r) /\ UNCHANGED fileId
           \/ /\ Goto(r, "sendRead")
              /\ fileId' = [fileId EXCEPT ![key[r]] = FALSE]
              /\ UNCHANGED attempt
  /\ UNCHANGED <<redis, outcome, key, loop>>

\* SendLocal uploads the file to the first recipient.  The file may be gone: a
\* first run has renamed it, or it is a picture, which the download task
\* removes when it returns.  A lost answer is a failure with a copy sent.
SendFirst(r) ==
  /\ pc[r] = "sendFirst"
  /\ \/ SentTo(head[r]) /\ Goto(r, "store") /\ UNCHANGED then
     \/ /\ \/ /\ May("telegram") \/ tries[r] > 0 \/ key[r].type = "IMAGE"
              /\ UNCHANGED sent
           \/ May("lost") /\ SentTo(head[r])
        /\ Goto(r, "failEach")
        /\ then' = [then EXCEPT ![r] = "finish"]
  /\ UNCHANGED <<redis, fileId, row, messages, attempt, key, batch, head>>

StoreServingTheFirstTwice(r) ==
  /\ pc[r] = "store"
  /\ fileId' = [fileId EXCEPT ![key[r]] = TRUE]
  /\ row' = [row EXCEPT ![head[r]] = "SUCCESS"]
  /\ then' = [then EXCEPT ![r] = "finish"]
  /\ Goto(r, "sendRest")
  /\ UNCHANGED <<redis, sent, messages, attempt, key, batch, head>>

Store(r) ==
  /\ pc[r] = "store"
  /\ \/ /\ fileId' = [fileId EXCEPT ![key[r]] = TRUE]
        /\ row' = [row EXCEPT ![head[r]] = "SUCCESS"]
        /\ batch' = [batch EXCEPT ![r] = @ \ {head[r]}]
        /\ then' = [then EXCEPT ![r] = "finish"]
        /\ Goto(r, "sendRest")
        /\ UNCHANGED <<lock, attempt>>
     \/ /\ May("store")
        /\ Released(key[r])
        /\ Retried(r)
        /\ UNCHANGED <<fileId, row, batch, then>>
  /\ UNCHANGED <<waiters, sent, messages, key, head>>

\* The others get a copy by file id; a copy that fails leaves no trace.
SendOne(r) ==
  /\ pc[r] \in {"sendRest", "directRest"}
  /\ \E q \in batch[r] :
       /\ batch' = [batch EXCEPT ![r] = @ \ {q}]
       /\ \/ /\ then[r] # "mute"
             /\ SentTo(q)
             /\ row' = [row EXCEPT ![q] = "SUCCESS"]
          \/ /\ May("telegram") \/ then[r] = "mute"
             /\ UNCHANGED <<sent, row>>
          \/ /\ May("lost") /\ then[r] # "mute"
             /\ SentTo(q)
             /\ UNCHANGED row
  /\ UNCHANGED <<redis, fileId, messages, pc, attempt, key, head, then>>

SendEnd(r) ==
  /\ pc[r] \in {"sendRest", "directRest"}
  /\ batch[r] = {}
  /\ Released(key[r])
  /\ Goto(r, "done")
  /\ UNCHANGED <<waiters, fileId, outcome, attempt, key, loop>>

-----------------------------------------------------------------------------
(* The send task of a cached file id, which runs without the lock.         *)

SendCachedMarkingAnyway(r) ==
  /\ pc[r] = "cached"
  /\ row' = [row EXCEPT ![r] = "SUCCESS"]
  /\ \/ SentTo(r)
     \/ May("telegram") /\ UNCHANGED sent
  /\ Goto(r, "done")
  /\ UNCHANGED <<redis, fileId, messages, attempt, key, loop>>

\* A read error is taken for a missing row, written with the payload's id.
SendCached(r) ==
  /\ pc[r] = "cached"
  /\ \/ May("database") /\ Retried(r) /\ UNCHANGED <<fileId, row, sent>>
     \/ /\ \/ UNCHANGED fileId
           \/ May("database") /\ fileId' = [fileId EXCEPT ![CacheKey(r)] = TRUE]
        /\ \/ /\ SentTo(r)
              /\ row' = [row EXCEPT ![r] = "SUCCESS"]
              /\ Goto(r, "done")
           \/ /\ \/ May("telegram") /\ UNCHANGED sent
                 \/ May("lost") /\ SentTo(r)
              /\ Goto(r, "clear")
              /\ UNCHANGED row
        /\ UNCHANGED attempt
  /\ UNCHANGED <<redis, messages, key, loop>>

\* A refused file id is cleared, whatever the row holds by now, and the
\* request is downloaded again.
Clear(r) ==
  /\ pc[r] = "clear"
  /\ \/ fileId' = [fileId EXCEPT ![CacheKey(r)] = FALSE]
     \/ May("database") /\ UNCHANGED fileId
  /\ EnqueuedOrRetried(r, "download")
  /\ UNCHANGED <<redis, outcome, key, loop>>

-----------------------------------------------------------------------------
(* The worker process dies in the middle of a task, or after its last step *)
(* but before the task is acknowledged: asynq finds its lease expired and  *)
(* counts a retry, as for an error.  What the task did in Redis, Postgres  *)
(* and Telegram stays done.                                                *)

Crash(r) ==
  /\ May("crash")
  /\ pc[r] \notin {"idle", "refused", "archived"}
  /\ Retried(r)
  /\ UNCHANGED <<redis, fileId, outcome, key, loop>>

-----------------------------------------------------------------------------
(* Redis drops a lock or a list at the end of its TTL.  Unless "slow" may  *)
(* happen, every pipeline ends within the TTL of the lock that it took.    *)

Idle(k) == \A r \in Requests : CacheKey(r) = k => ~Works(r)

ExpireLock(k) ==
  /\ k \in lock
  /\ May("slow") \/ Idle(k)
  /\ lock' = lock \ {k}
  /\ UNCHANGED <<waiters, fileId, outcome, job>>

ExpireWaiters(k) ==
  /\ waiters[k] # <<>>
  /\ May("slow") \/ Idle(k)
  /\ waiters' = [waiters EXCEPT ![k] = <<>>]
  /\ UNCHANGED <<lock, fileId, outcome, job>>

-----------------------------------------------------------------------------
Init ==
  /\ lock = {}
  /\ waiters = [k \in Keys |-> <<>>]
  /\ fileId = [k \in Keys |-> FALSE]
  /\ row = [r \in Requests |-> "none"]
  /\ sent = [r \in Requests |-> 0]
  /\ told = {}
  /\ missed = {}
  /\ pc = [r \in Requests |-> "idle"]
  /\ task = [r \in Requests |-> "download"]
  /\ tries = [r \in Requests |-> 0]
  /\ key = [r \in Requests |-> CacheKey(r)]
  /\ batch = [r \in Requests |-> {}]
  /\ head = [r \in Requests |-> r]
  /\ then = [r \in Requests |-> "finish"]

Task(r) ==
  \/ LookupCache(r) \/ Acquire(r) \/ Park(r) \/ Register(r) \/ Probe(r)
  \/ SendDirect(r) \/ StoreDirect(r) \/ PopRead(r) \/ PopDel(r)
  \/ FailOne(r) \/ FailEnd(r) \/ Fetch(r) \/ Image(r) \/ Audio(r)
  \/ Send(r) \/ SendFirst(r) \/ Store(r) \/ SendOne(r) \/ SendEnd(r)
  \/ SendCached(r) \/ Clear(r)

Next ==
  \/ \E r \in Requests : Submit(r) \/ Task(r) \/ Crash(r)
  \/ \E k \in Keys : ExpireLock(k) \/ ExpireWaiters(k)

Spec == Init /\ [][Next]_vars

\* asynq serves every queue (their weights are not strict priorities) and
\* runs a task again after a bounded delay, so a task that can step does.
FairSpec ==
  /\ Spec
  /\ \A r \in Requests : WF_vars(Task(r))

-----------------------------------------------------------------------------
(* Properties.                                                             *)

Steps == Locked \cup Queues \cup {"idle", "acquire", "park", "parked", "image",
                                   "clear", "done", "refused", "archived"}

\* The types of the variables.
TypeOK ==
  /\ lock \subseteq Keys
  /\ waiters \in [Keys -> Seq(Requests)]
  /\ fileId \in [Keys -> BOOLEAN]
  /\ row \in [Requests -> {"none", "QUEUED", "SUCCESS", "FAILED"}]
  /\ sent \in [Requests -> 0..SentBound]
  /\ told \subseteq Requests
  /\ missed \subseteq Requests
  /\ pc \in [Requests -> Steps]
  /\ task \in [Requests -> Queues]
  /\ tries \in [Requests -> 0..JobAttempts]
  /\ key \in [Requests -> Keys]
  /\ batch \in [Requests -> SUBSET Requests]
  /\ head \in [Requests -> Requests]
  /\ then \in [Requests -> {"finish", "retry", "reject", "mute"}]

\* Two requests for the same cache key are never worked on at once: between
\* Acquire in one task and Release in another, however many queues and
\* workers the work passes through, no second pipeline starts.
MutualExclusion ==
  \A r, q \in Requests :
    /\ pc[r] \in Locked
    /\ pc[q] \in Locked
    /\ CacheKey(r) = CacheKey(q)
    => r = q

\* A lock that exists belongs to a running pipeline, so no request waits for
\* a TTL: every way out of the three workers releases the lock.
LockHasHolder ==
  \A k \in lock : \E r \in Requests : pc[r] \in Locked /\ CacheKey(r) = k

\* A row says SUCCESS only when a media message went to the request's chat.
SuccessMeansSent ==
  \A r \in Requests : row[r] = "SUCCESS" => sent[r] > 0

\* A request that was served is not failed later by a list that still holds
\* it: SUCCESS is a final status of the downloads row.
SuccessIsFinal ==
  [][\A r \in Requests : row[r] = "SUCCESS" => row'[r] = "SUCCESS"]_vars

\* No request is served twice: a recipient that was sent the media is on no
\* list from which another pipeline will serve it again.
AtMostOneCopy == \A r \in Requests : sent[r] <= 1

\* Requests of one chat for the same media, which one message answers.
SameAsked(r, q) == ChatOf[q] = ChatOf[r] /\ CacheKey(q) = CacheKey(r)

\* No row fails unheard: when a row says FAILED the worker tried to tell its
\* chat so, with a message for this request or for another one for the same
\* media, and only Telegram's refusal kept that message away.
FailureIsTold ==
  \A r \in Requests :
    row[r] = "FAILED" =>
      \E q \in Requests : SameAsked(r, q) /\ q \in told \cup missed

\* The chat of the request got the media, or an error message.
Answered(r) ==
  \E q \in Requests : SameAsked(r, q) /\ (sent[q] > 0 \/ q \in told)

\* The list of a key will still be read by the pipeline that runs on it.
WillBePopped(k) ==
  \E h \in Requests :
    /\ CacheKey(h) = k
    /\ pc[h] \in {"probe", "fetch", "image", "audio", "send", "direct", "directStore",
                  "directRead", "failRead", "sendRead"}

\* Whoever is on the list of a running pipeline gets the media or an error
\* message: the holder answers for all whose recipient it finds.
ListedIsAnswered ==
  \A r \in Requests :
    (/\ \E i \in DOMAIN waiters[CacheKey(r)] : waiters[CacheKey(r)][i] = r
     /\ WillBePopped(CacheKey(r))) ~> Answered(r)

\* Every lock is released in the end.
LockIsReleased == \A k \in Keys : k \in lock ~> k \notin lock

\* The bot tells a chat to wait until the video arrives.  A request that was
\* left to the holder of the lock has been answered when no pipeline runs on
\* its key any more.
ParkedIsAnswered ==
  \A r \in Requests :
    pc[r] = "parked" /\ Idle(CacheKey(r)) => Answered(r)

\* The direct flow sends a copy to every popped recipient but the first,
\* which it takes for the recipient it has already served.
SkippedIsServed ==
  \A r \in Requests : pc[r] = "directRest" => head[r] = r

\* The abstract specification of the pipeline, with the same rows, copies and
\* messages.  The direct flow may serve its holder a second time.
D == INSTANCE Delivery WITH
       AskedBy <- [r \in Requests |-> <<ChatOf[r], CacheKey(r)>>],
       Most    <- IF May("directUrl") THEN SentBound ELSE 1

\* Whatever workers, queues, lock and list do behind it, what the chats and the
\* rows see of each request is a run of module Delivery: no SUCCESS without a
\* copy, no second copy but by the direct flow, no error message after a copy, and
\* no FAILED row whose chat nobody tried to tell.  A lost answer to a send breaks
\* it: the worker takes the copy for a failure, tells the chat so or sends another.
DeliveryKept == D!Spec
=============================================================================
