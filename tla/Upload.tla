-------------------------------- MODULE Upload --------------------------------
(***************************************************************************)
(* One download from the probe to the last attempt to hand it to Telegram, *)
(* while administrators change the upload settings.  The download and the  *)
(* audio worker check sizes against the settings they have read, and the   *)
(* delivery service reads them again and picks a server: multipart to the  *)
(* local Bot API server, with a fallback for small files, or bot.Send,     *)
(* which talks to whatever server the process found when it started.       *)
(* Queues, retries and waiters are those of module InFlight.               *)
(***************************************************************************)
EXTENDS Limits, Formats

CONSTANTS
  Presets,          \* the settings that administrators choose from
  ConfigSettings,   \* the settings of the environment
  AllowOversized,   \* ALLOW_OVERSIZED_DOWNLOADS
  Reports,          \* what yt-dlp may report: a list of formats and a size or 0
  Sizes,            \* the sizes of files, in bytes
  Conditions        \* what may go wrong in this run, see AllConditions

AllConditions ==
  { "database",   \* a call on Postgres fails
    "queue",      \* a task cannot be put on its queue
    "block",      \* Telegram takes no error message for the chat
    "fetch",      \* yt-dlp and gallery-dl, a conversion, or a file fails
    "refuse",     \* a server does not take an upload, or is down
    "large",      \* a server answers that the request is too large
    "lose",       \* a server takes an upload and its answer is lost
    "bare" }      \* a server takes an upload and answers without the media

ASSUME UploadAssumption ==
  /\ Presets \subseteq UploadSettings
  /\ ConfigSettings \in UploadSettings
  /\ AllowOversized \in BOOLEAN
  /\ Reports \subseteq [formats : Seq(Format), size : Nat]
  /\ Sizes \subseteq Nat \ {0}
  /\ Conditions \subseteq AllConditions

VARIABLES
  setting,    \* table bot_settings
  since,      \* history: what setting has been since the download began
  endpoint,   \* the server that bot.Send talks to: "cloud" or "local"
  variant,    \* "VIDEO" or "AUDIO"
  pc,         \* where the download is
  held,       \* the settings that the download worker, then the delivery service, read
  formats,    \* the list that the probe reported
  known,      \* the size that the probe reported, 0 if it did not
  size,       \* the size of the file
  tried,      \* the answer to an upload on each path, see Paths
  error,      \* the error of the delivery service
  told        \* the message that was sent to the chats, and whether Telegram took it

vars == <<setting, since, endpoint, variant, pc, held, formats, known, size, tried,
          error, told>>

-----------------------------------------------------------------------------
May(c) == c \in Conditions

\* A file is handed over by its URL, by multipart to the local server, by bot.Send
\* after that failed, or by bot.Send alone.
Paths == {"url", "local", "fallback", "cloud"}

\* The server at the end of a path.
Server(path) == IF path = "local" THEN "local" ELSE endpoint

Answers ==
  {"ok"} \cup {a \in {"refuse", "large", "lose", "bare"} : May(a)}

Untried == "none"

NoMessage == [text |-> "none", limit |-> 0, taken |-> FALSE]

LimitMessage(text, limit) == [text |-> text, limit |-> limit, taken |-> TRUE]

Message(text) == LimitMessage(text, 0)

NotTaken(message) == [text |-> message.text, limit |-> message.limit, taken |-> FALSE]

\* The download worker's locals die with its task.
Forget == formats' = <<>>

\* The error of bot.Send is ignored: the code goes on as if the message was taken.
Ends(message) ==
  /\ pc' = "done"
  /\ \/ told' = message
     \/ May("block") /\ told' = NotTaken(message)

Goes(step) ==
  /\ pc' = step
  /\ UNCHANGED told

\* An error that the task returns: its retries fail too, or find its own lock held
\* and wait for nobody, and no chat hears of it.
Drops == Goes("dropped")

\* A worker's last call, whose error it returns.
Enqueued ==
  \/ Goes("send")
  \/ May("queue") /\ Drops

UploadsUnchanged == UNCHANGED <<tried, error>>

SettingsUnchanged == UNCHANGED <<setting, since, endpoint, variant>>

-----------------------------------------------------------------------------
(* The download worker: ProcessTask and processImagePost.                  *)

ReadSettings ==
  /\ pc = "read"
  /\ \/ held' = setting /\ Goes("probe")
     \/ May("database") /\ Ends(Message("universal")) /\ UNCHANGED held
  /\ UNCHANGED <<formats, known, size>>
  /\ UploadsUnchanged /\ SettingsUnchanged

\* A list without videos is a picture's, if there is a thumbnail; an error is
\* a picture's, or leaves the rest to gallery-dl.
Probe ==
  /\ pc = "probe"
  /\ \/ \E report \in Reports :
          /\ formats' = report.formats
          /\ known' = report.size
          /\ \/ Goes("precheck")
             \/ ~HasVideoFormats(report.formats) /\ Goes("picture")
     \/ /\ May("fetch")
        /\ pc' \in {"picture", "gallery"}
        /\ UNCHANGED <<formats, known, told>>
  /\ UNCHANGED <<held, size>>
  /\ UploadsUnchanged /\ SettingsUnchanged

VideoLimit(st) ==
  EffectiveUploadLimit(st.videoMax, TelegramUploadLimit(st), AllowOversized)

AudioLimit(st) ==
  EffectiveUploadLimit(st.audioMax, TelegramUploadLimit(st), AllowOversized)

TooLargeVideo(st) ==
  LimitMessage(IF st.mode = "cloud" THEN "cloudVideo" ELSE "video", VideoLimit(st))

\* The quality that the bot asks for; the direct URL needs a list, in which the
\* format may still come without a URL.
Quality == IF variant = "AUDIO" THEN "MP3" ELSE "AUTO"

MayHaveDirectURL == variant = "VIDEO" /\ ~NeedsMerge(SelectFormat(formats, Quality))

PreCheck ==
  /\ pc = "precheck"
  /\ IF variant = "VIDEO" /\ TooLarge(known, VideoLimit(held))
       THEN Ends(TooLargeVideo(held)) /\ Forget
       ELSE /\ \/ Goes("fetch")
               \/ MayHaveDirectURL /\ Goes("direct")
            /\ UNCHANGED formats
  /\ UNCHANGED <<held, known, size>>
  /\ UploadsUnchanged /\ SettingsUnchanged

DirectSendOnly ==
  /\ pc = "direct"
  /\ \/ \E a \in Answers :
          /\ tried' = [tried EXCEPT !["url"] = a]
          /\ Ends(NoMessage)
          /\ Forget
     \/ May("database") /\ Goes("fetch") /\ UNCHANGED <<tried, formats>>
  /\ UNCHANGED <<held, known, size, error>>
  /\ SettingsUnchanged

\* Telegram fetches the URL; any error, of a media row as well, ends in a download.
DirectSend ==
  /\ pc = "direct"
  /\ \/ \E a \in Answers :
          /\ tried' = [tried EXCEPT !["url"] = a]
          /\ IF a = "ok" THEN Ends(NoMessage) /\ Forget
                         ELSE Goes("fetch") /\ UNCHANGED formats
     \/ May("database") /\ Goes("fetch") /\ UNCHANGED <<tried, formats>>
  /\ UNCHANGED <<held, known, size, error>>
  /\ SettingsUnchanged

\* yt-dlp, which may find no video format and so a picture, and gallery-dl.
Fetch ==
  /\ pc \in {"fetch", "gallery"}
  /\ Forget
  /\ \/ /\ size' \in Sizes
        /\ \/ Goes(IF variant = "AUDIO" THEN "convert" ELSE "postcheck")
           \/ May("queue") /\ variant = "AUDIO" /\ Drops
     \/ May("fetch") /\ Ends(Message("instagram")) /\ UNCHANGED size
     \/ May("fetch") /\ Ends(Message("universal")) /\ UNCHANGED size
     \/ May("fetch") /\ pc = "fetch" /\ Goes("picture") /\ UNCHANGED size
  /\ UNCHANGED <<held, known>>
  /\ UploadsUnchanged /\ SettingsUnchanged

PostCheck ==
  /\ pc = "postcheck"
  /\ IF TooLarge(size, VideoLimit(held))
       THEN Ends(TooLargeVideo(held))
       ELSE Enqueued
  /\ UNCHANGED <<held, formats, known, size>>
  /\ UploadsUnchanged /\ SettingsUnchanged

\* The picture, or a film of it with the post's sound: no size is checked.
Picture ==
  /\ pc = "picture"
  /\ Forget
  /\ \/ /\ size' \in Sizes
        /\ \/ Goes("send")
           \/ May("queue") /\ Ends(Message("universal"))
     \/ /\ May("fetch")
        /\ \E text \in {"instagram", "universal"} : Ends(Message(text))
        /\ UNCHANGED size
  /\ UNCHANGED <<held, known>>
  /\ UploadsUnchanged /\ SettingsUnchanged

-----------------------------------------------------------------------------
(* The audio worker.                                                       *)

\* An error is the end of it: the source is removed, so that no retry converts.
Convert ==
  /\ pc = "convert"
  /\ \/ size' \in Sizes /\ Goes("audiocheck")
     \/ May("fetch") /\ Drops /\ UNCHANGED size
  /\ UNCHANGED <<held, formats, known>>
  /\ UploadsUnchanged /\ SettingsUnchanged

AudioCheck ==
  /\ pc = "audiocheck"
  /\ \/ IF TooLarge(size, AudioLimit(setting))
          THEN Ends(LimitMessage("audio", AudioLimit(setting)))
          ELSE Enqueued
     \/ May("database") /\ Drops
  /\ UNCHANGED <<held, formats, known, size>>
  /\ UploadsUnchanged /\ SettingsUnchanged

-----------------------------------------------------------------------------
(* The delivery service: SendLocalTimed.                                   *)

\* CurrentSettings: without a database, those of the environment.
CurrentSettings == {setting} \cup {st \in {ConfigSettings} : May("database")}

\* Too large for the cloud, by the column as it is, without a default.
OverCloudLimit(st) == BytesToMB(size) > st.cloudMax

Fails(e) ==
  /\ error' = e
  /\ Goes("failed")

\* The file has gone or cannot be read: no path can send it, and no server is asked.
CannotOpen ==
  /\ May("fetch")
  /\ UNCHANGED tried
  /\ Fails("other")

\* The media row of the request is looked up before the file is touched.
NoMediaRow ==
  /\ May("database")
  /\ Drops
  /\ UNCHANGED <<held, error>>

StartSendByCloudLimit ==
  /\ pc = "send"
  /\ \/ NoMediaRow
     \/ held' \in CurrentSettings /\ CannotOpen
     \/ /\ held' \in CurrentSettings
        /\ BytesToMB(size) > UploadLimitForMode(held', "cloud")
        /\ Fails("limit")
     \/ /\ held' \in CurrentSettings
        /\ BytesToMB(size) <= UploadLimitForMode(held', "cloud")
        /\ Goes(held'.mode)
        /\ UNCHANGED error
  /\ UNCHANGED <<formats, known, size, tried>>
  /\ SettingsUnchanged

StartSend ==
  /\ pc = "send"
  /\ \/ NoMediaRow
     \/ held' \in CurrentSettings /\ CannotOpen
     \/ /\ held' \in CurrentSettings
        /\ BytesToMB(size) > TelegramUploadLimit(held')
        /\ Fails("limit")
     \/ /\ held' \in CurrentSettings
        /\ BytesToMB(size) <= TelegramUploadLimit(held')
        /\ UNCHANGED error
        /\ \/ held'.mode = "cloud" /\ Goes("cloud")
           \/ held'.mode = "local" /\ OverCloudLimit(held') /\ Goes("health")
           \/ held'.mode = "local" /\ ~OverCloudLimit(held') /\ Goes("local")
  /\ UNCHANGED <<formats, known, size, tried>>
  /\ SettingsUnchanged

\* getMe, before a file that the cloud would not take.
HealthCheck ==
  /\ pc = "health"
  /\ \/ Goes("local") /\ UNCHANGED error
     \/ (May("refuse") \/ May("lose")) /\ Fails("down")
  /\ UNCHANGED <<held, formats, known, size, tried>>
  /\ SettingsUnchanged

\* sentFromMessage finds no media in the answer.
Answered(path, a) ==
  /\ tried' = [tried EXCEPT ![path] = a]
  /\ \/ a = "ok" /\ Ends(NoMessage) /\ UNCHANGED error
     \/ a = "bare" /\ Fails("other")

FallBackForAll ==
  /\ pc = "local"
  /\ \E a \in Answers :
       \/ Answered("local", a)
       \/ /\ a \in {"refuse", "large", "lose"}
          /\ tried' = [tried EXCEPT !["local"] = a]
          /\ Goes("fallback")
          /\ UNCHANGED error
  /\ UNCHANGED <<held, formats, known, size>>
  /\ SettingsUnchanged

FallBackOnBare ==
  /\ pc = "local"
  /\ \E a \in Answers :
       /\ tried' = [tried EXCEPT !["local"] = a]
       /\ IF a = "ok" THEN Ends(NoMessage) /\ UNCHANGED error
          ELSE IF OverCloudLimit(held) THEN Fails("down")
          ELSE Goes("fallback") /\ UNCHANGED error
  /\ UNCHANGED <<held, formats, known, size>>
  /\ SettingsUnchanged

\* sendMultipartLocalAPI: an error of the request counts as the server being
\* unavailable, also one that the server answered; an answer whose result makes
\* no sense does not.
SendLocally ==
  /\ pc = "local"
  /\ \/ CannotOpen
     \/ \E a \in Answers :
          \/ Answered("local", a)
          \/ /\ a \in {"refuse", "large", "lose"}
             /\ tried' = [tried EXCEPT !["local"] = a]
             /\ \/ OverCloudLimit(held) /\ Fails("down")
                \/ OverCloudLimit(held) /\ a = "lose" /\ Fails("other")
                \/ ~OverCloudLimit(held) /\ Goes("fallback") /\ UNCHANGED error
  /\ UNCHANGED <<held, formats, known, size>>
  /\ SettingsUnchanged

\* sendCloudUpload, alone or after the local server failed.
SendByBot ==
  /\ pc \in {"cloud", "fallback"}
  /\ \/ CannotOpen
     \/ \E a \in Answers :
          \/ Answered(pc, a)
          \/ /\ a \in {"refuse", "large", "lose"}
             /\ tried' = [tried EXCEPT ![pc] = a]
             /\ Fails(IF a = "large" THEN "large" ELSE "other")
  /\ UNCHANGED <<held, formats, known, size>>
  /\ SettingsUnchanged

-----------------------------------------------------------------------------
TextOfError(st) == Message(error)

TextWithCloudLimit(st) ==
  IF error = "large" THEN LimitMessage("upload", 50) ELSE Message("sendFailed")

TextWithTheLimitNow(st) ==
  IF error = "limit" THEN LimitMessage("video", TelegramUploadLimit(st))
                     ELSE Message("sendFailed")

\* handleLocalSendFailure: it reads the settings again, and takes from them the
\* mode for its text, and the limit too if it was a server that refused.
TextFor(st) ==
  CASE error = "limit" -> LimitMessage(IF st.mode = "local" THEN "video" ELSE "cloudVideo",
                                       TelegramUploadLimit(held))
    [] error = "large" -> LimitMessage("upload", TelegramUploadLimit(st))
    [] error = "down"  -> Message("localDown")
    [] OTHER           -> Message("sendFailed")

HandleFailure ==
  /\ pc = "failed"
  /\ \E st \in CurrentSettings : Ends(TextFor(st))
  /\ UNCHANGED <<held, formats, known, size, tried, error>>
  /\ SettingsUnchanged

Ended == pc \in {"done", "dropped"}

\* An administrator changes a limit or the mode.
Change ==
  /\ setting' \in Presets
  /\ since' = IF Ended THEN since ELSE since \cup {setting'}
  /\ UNCHANGED <<endpoint, variant, pc, held, formats, known, size, tried, error, told>>

-----------------------------------------------------------------------------
Init ==
  /\ setting \in Presets
  /\ since = {setting}
  /\ endpoint \in {"cloud", ConfigSettings.mode}
  /\ variant \in {"VIDEO", "AUDIO"}
  /\ pc = "read"
  /\ held = setting
  /\ formats = <<>>
  /\ known = 0
  /\ size = 0
  /\ tried = [p \in Paths |-> Untried]
  /\ error = "none"
  /\ told = NoMessage

Work ==
  \/ ReadSettings \/ Probe \/ PreCheck \/ DirectSend \/ Fetch \/ PostCheck \/ Picture
  \/ Convert \/ AudioCheck
  \/ StartSend \/ HealthCheck \/ SendLocally \/ SendByBot \/ HandleFailure

Next == Work \/ Change

Spec == Init /\ [][Next]_vars

-----------------------------------------------------------------------------
(* Properties.                                                             *)

Steps == {"read", "probe", "precheck", "direct", "fetch", "gallery", "postcheck",
          "picture", "convert", "audiocheck", "send", "health", "local", "fallback",
          "cloud", "failed", "done", "dropped"}

Texts == {"none", "universal", "instagram", "video", "cloudVideo", "audio", "upload",
          "localDown", "sendFailed"}

\* The types of the variables.
UploadTypeOK ==
  /\ setting \in UploadSettings
  /\ since \subseteq UploadSettings
  /\ endpoint \in {"cloud", "local"}
  /\ variant \in {"VIDEO", "AUDIO"}
  /\ pc \in Steps
  /\ held \in UploadSettings
  /\ formats \in Seq(Format)
  /\ known \in Nat
  /\ size \in Nat
  /\ tried \in [Paths -> {"ok", "refuse", "large", "lose", "bare", Untried}]
  /\ error \in {"none", "limit", "down", "large", "other"}
  /\ told.text \in Texts

Tried(path) == tried[path] # Untried

\* Whatever the workers let through, and whatever is changed meanwhile: the local
\* server is given no file above its limit, and no way that is meant for the cloud
\* a file above the cloud's, under the settings that the delivery service read;
\* so a large file never falls back to the cloud (SendLocalTimed; README.md, "cloud
\* rejimiga noto'g'ri o'tib ketmaydi").
UploadFits ==
  /\ Tried("local") =>
       held.mode = "local" /\ BytesToMB(size) <= UploadLimitForMode(held, "local")
  /\ Tried("cloud") \/ Tried("fallback") => BytesToMB(size) <= UploadLimitForMode(held, "cloud")

Copy(path) == tried[path] \in {"ok", "lose", "bare"}

\* The bot could not know of the copy; an answer without media counts only for a
\* URL, since no other path is followed after one.
Unheard(path) == tried[path] = "lose" \/ (path = "url" /\ tried[path] = "bare")

\* A chat gets a second copy of a file only if the answer to the first was lost, or
\* had no video after a direct send (DirectSend, SendLocalTimed).
SecondCopyExplained ==
  \A p, q \in Paths : p # q /\ Copy(p) /\ Copy(q) => Unheard(p) \/ Unheard(q)

\* The settings that a step of this download may have read.
Read == since \cup {st \in {ConfigSettings} : May("database")}

LimitFor(st) == IF variant = "AUDIO" THEN AudioLimit(st) ELSE VideoLimit(st)

Fits(bytes) ==
  \A st \in Read : \/ LimitFor(st) <= 0
                   \/ BytesToMB(bytes) <= LimitFor(st)

\* A file that fits, by what the probe said and by what it is, under all settings
\* there were during the download is never called too large by the bot, although
\* three processes compare it with limits they read at different times.
FitsIsNotRefused ==
  Fits(known) /\ Fits(size) => told.text \notin {"video", "cloudVideo", "audio"}

\* While the mode is local, nobody hears of the cloud's limit (README.md, "Local
\* rejimda 50MB error ko'rsatmaydi"): limit and text are taken from settings that
\* are read at different times.
LocalNeverToldCloud ==
  (\A st \in Read : st.mode = "local") =>
    /\ told.text # "cloudVideo"
    /\ told.text = "upload" =>
         \E st \in Read : told.limit = UploadLimitForMode(st, "local")

\* A chat that is told of a limit is told one that was in force during its download,
\* and the file does exceed it, although the text is put together from settings that
\* are read once more when the upload has failed (handleLocalSendFailure).
LimitToldIsTrue ==
  /\ told.text \in {"video", "cloudVideo", "audio"} =>
       BytesToMB(known) > told.limit \/ BytesToMB(size) > told.limit
  /\ told.text \in {"video", "cloudVideo", "audio", "upload"} =>
       \E st \in Read : told.limit \in {LimitFor(st), TelegramUploadLimit(st)}

\* A download of a video ends with a copy of it in the chat or with a message that
\* was sent there.  The message arrives unless Telegram takes none for the chat; and
\* nothing is sent only if Postgres or the queues fail between the two workers,
\* which return the error instead (both ProcessTask, handleLocalSendFailure).
EndsWithAnswer ==
  Ended /\ variant = "VIDEO" =>
    \/ \E p \in Paths : Copy(p)
    \/ told.text # "none" /\ (told.taken \/ May("block"))
    \/ pc = "dropped" /\ (May("database") \/ May("queue"))

\* What is selected from the list that the worker holds is right, for each quality.
SelectsRight ==
  pc \in {"precheck", "direct"} =>
    \A quality \in Qualities : SelectionRight(formats, quality)

\* README.md, "Kichik hajmdagi (50MB gacha) fayllarni local API orqali yuklash
\* o'xshamasagina ... cloud API orqali yuklashga fallback qilinadi".
FallbackGoesToCloud == Tried("fallback") => Server("fallback") = "cloud"
=============================================================================
