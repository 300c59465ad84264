---------------------------- MODULE UploadProofs ----------------------------
(***************************************************************************)
(* Theorems about Upload: what holds of one download for all settings,     *)
(* sizes and lists of formats, and whatever the servers answer.            *)
(***************************************************************************)
EXTENDS Upload, FormatsProofs, TLAPS

(* Lemmas about the limits.                                                *)

\* An upload limit is always a positive number.
LEMMA LimitPositive ==
  ASSUME NEW st \in UploadSettings, NEW mode \in {"cloud", "local"}
  PROVE  /\ UploadLimitForMode(st, mode) \in Nat
         /\ UploadLimitForMode(st, mode) > 0
  BY DEF UploadLimitForMode, Default, UploadSettings

\* A worker's limit is positive too, and never above the one that the delivery
\* service applies under the same settings.
LEMMA EffectiveAtMost ==
  ASSUME NEW app \in Int, NEW telegram \in Nat, telegram > 0, NEW all \in BOOLEAN
  PROVE  /\ EffectiveUploadLimit(app, telegram, all) \in Nat
         /\ EffectiveUploadLimit(app, telegram, all) > 0
         /\ EffectiveUploadLimit(app, telegram, all) <= telegram
  BY DEF EffectiveUploadLimit, MinPositive

LEMMA MegabytesAreNat ==
  ASSUME NEW v \in Int
  PROVE  BytesToMB(v) \in Nat
  BY DEF BytesToMB, Megabyte

\* Rounding up loses nothing: megabytes are within a limit exactly if the bytes
\* are (bytesToMB, bytesToMegabytes).
THEOREM RoundingExact ==
  ASSUME NEW v \in Int, NEW l \in Nat
  PROVE  BytesToMB(v) <= l <=> v <= l * Megabyte
  BY DEF BytesToMB, Megabyte
-----------------------------------------------------------------------------
(* Types.                                                                  *)

LEMMA AnswersTyped ==
  /\ Answers \subseteq {"ok", "refuse", "large", "lose", "bare"}
  /\ CurrentSettings \subseteq {setting, ConfigSettings}
  BY DEF Answers, CurrentSettings

LEMMA EmptyTyped == <<>> \in Seq(Format)
  OBVIOUS

\* A message that is not taken says the same.
LEMMA EndsSays ==
  ASSUME NEW message, Ends(message)
  PROVE  /\ pc' = "done"
         /\ told'.text = message.text
         /\ told'.limit = message.limit
         /\ message.taken => told'.taken \/ May("block")
  BY DEF Ends, NotTaken

LEMMA TypeInit == Init => UploadTypeOK
  BY UploadAssumption, EmptyTyped DEF Init, UploadSettings, UploadTypeOK, Steps, Texts, NoMessage, Paths, Untried

LEMMA TypeStep == UploadTypeOK /\ [Next]_vars => UploadTypeOK'
<1> SUFFICES ASSUME UploadTypeOK, [Next]_vars PROVE UploadTypeOK'
  OBVIOUS
<1> USE UploadAssumption, AnswersTyped DEF Drops, Enqueued, NoMediaRow, CannotOpen, NotTaken, LimitMessage
<1>1. CASE UNCHANGED vars
  BY <1>1 DEF vars, UploadTypeOK
<1>2. CASE Change
  BY <1>2 DEF Change, UploadTypeOK
<1>3. CASE ReadSettings
  BY <1>3 DEF ReadSettings, UploadTypeOK, Goes, Ends, Message, UploadsUnchanged,
              SettingsUnchanged, Steps, Texts
<1>4. CASE Probe
  BY <1>4 DEF Probe, UploadTypeOK, Goes, UploadsUnchanged, SettingsUnchanged, Steps
<1>5. CASE PreCheck
  <2>1. formats' = <<>> \/ formats' = formats
    BY <1>5 DEF PreCheck, Forget
  <2>2. formats' \in Seq(Format)
    BY <2>1, EmptyTyped, Zenon DEF UploadTypeOK
  <2>3. QED
    BY <1>5, <2>2 DEF PreCheck, UploadTypeOK, Goes, Ends, TooLargeVideo, LimitMessage,
              UploadsUnchanged, SettingsUnchanged, Steps, Texts
<1>6. CASE DirectSend
  <2>1. formats' = <<>> \/ formats' = formats
    BY <1>6 DEF DirectSend, Forget
  <2>2. formats' \in Seq(Format)
    BY <2>1, EmptyTyped, Zenon DEF UploadTypeOK
  <2>3. QED
    BY <1>6, <2>2 DEF DirectSend, UploadTypeOK, Goes, Ends, NoMessage,
              SettingsUnchanged, Steps, Texts, Paths
<1>7. CASE Fetch
  <2>1. formats' = <<>> \/ formats' = formats
    BY <1>7 DEF Fetch, Forget
  <2>2. formats' \in Seq(Format)
    BY <2>1, EmptyTyped, Zenon DEF UploadTypeOK
  <2>3. size' \in Nat
    BY <1>7 DEF Fetch, UploadTypeOK
  <2>4. pc' \in Steps /\ told'.text \in Texts
    BY <1>7 DEF Fetch, UploadTypeOK, Goes, Ends, Message, Steps, Texts
  <2>5. QED
    BY <1>7, <2>2, <2>3, <2>4
    DEF Fetch, UploadTypeOK, UploadsUnchanged, SettingsUnchanged
<1>8. CASE PostCheck
  BY <1>8 DEF PostCheck, UploadTypeOK, Goes, Ends, TooLargeVideo, LimitMessage,
              UploadsUnchanged, SettingsUnchanged, Steps, Texts
<1>9. CASE Picture
  <2>1. formats' = <<>> \/ formats' = formats
    BY <1>9 DEF Picture, Forget
  <2>2. formats' \in Seq(Format)
    BY <2>1, EmptyTyped, Zenon DEF UploadTypeOK
  <2>3. size' \in Nat
    BY <1>9 DEF Picture, UploadTypeOK
  <2>4. pc' \in Steps /\ told'.text \in Texts
    BY <1>9 DEF Picture, UploadTypeOK, Goes, Ends, Message, Steps, Texts
  <2>5. QED
    BY <1>9, <2>2, <2>3, <2>4
    DEF Picture, UploadTypeOK, UploadsUnchanged, SettingsUnchanged
<1>10. CASE Convert
  BY <1>10 DEF Convert, UploadTypeOK, Goes, UploadsUnchanged, SettingsUnchanged, Steps
<1>11. CASE AudioCheck
  BY <1>11 DEF AudioCheck, UploadTypeOK, Goes, Ends, LimitMessage,
               UploadsUnchanged, SettingsUnchanged, Steps, Texts
<1>12. CASE StartSend
  BY <1>12 DEF StartSend, UploadTypeOK, Goes, Fails, SettingsUnchanged, Steps
<1>13. CASE HealthCheck
  BY <1>13 DEF HealthCheck, UploadTypeOK, Goes, Fails, SettingsUnchanged, Steps
<1>14. CASE SendLocally
  BY <1>14 DEF SendLocally, Answered, UploadTypeOK, Goes, Ends, Fails, NoMessage,
               SettingsUnchanged, Steps, Texts, Paths
<1>15. CASE SendByBot
  BY <1>15 DEF SendByBot, Answered, UploadTypeOK, Goes, Ends, Fails, NoMessage,
               SettingsUnchanged, Steps, Texts, Paths
<1>16. CASE HandleFailure
  BY <1>16 DEF HandleFailure, TextFor, Message, LimitMessage, UploadTypeOK, Ends,
               SettingsUnchanged, Steps, Texts
<1>17. QED
  BY <1>1, <1>2, <1>3, <1>4, <1>5, <1>6, <1>7, <1>8, <1>9, <1>10, <1>11, <1>12, <1>13,
     <1>14, <1>15, <1>16 DEF Next, Work

\* The variables keep their types (UploadTypeOK).
THEOREM UploadTypeCorrect == Spec => []UploadTypeOK
  BY TypeInit, TypeStep, PTL DEF Spec

-----------------------------------------------------------------------------
(* The inductive invariants.                                               *)

Refused(path) == tried[path] \in {"refuse", "large", "lose"}

\* Which paths have been followed when: a URL before the rest, the fallback only
\* after the local server, and nothing after an answer that was understood.
Ordered ==
  /\ tried["url"] = "ok" =>
       pc = "done" /\ ~Tried("local") /\ ~Tried("fallback") /\ ~Tried("cloud")
  /\ Tried("local") \/ Tried("fallback") \/ Tried("cloud") => pc \in {"fallback", "failed", "done"}
  /\ pc = "fallback" => Refused("local") /\ ~Tried("fallback") /\ ~Tried("cloud")
  /\ Tried("fallback") => Refused("local") /\ ~Tried("cloud")
  /\ Tried("cloud") => ~Tried("local")

\* The size has been compared with the limit of the path that is taken.
Fitting ==
  /\ pc \in {"health", "local", "fallback"} =>
       /\ held.mode = "local"
       /\ BytesToMB(size) <= UploadLimitForMode(held, "local")
  /\ pc \in {"fallback", "cloud"} =>
       BytesToMB(size) <= UploadLimitForMode(held, "cloud")
  /\ UploadFits

\* What has been read is no older than the download.
Reading ==
  /\ held \in Read
  /\ ~Ended => setting \in since

\* Where the download is, and why.
Reasons ==
  /\ pc # "done" => told = NoMessage
  /\ pc = "dropped" /\ variant = "VIDEO" => May("database") \/ May("queue")
  /\ pc \in {"convert", "audiocheck"} => variant = "AUDIO"
  /\ pc = "postcheck" => variant = "VIDEO"
  /\ pc = "failed" => error # "none"
  /\ pc = "failed" /\ error = "limit" => BytesToMB(size) > TelegramUploadLimit(held)

\* What a text says of a limit.
Truthful ==
  /\ FitsIsNotRefused
  /\ LocalNeverToldCloud
  /\ LimitToldIsTrue

\* And that it ends with something which is true.
Telling ==
  /\ Reasons
  /\ Truthful
  /\ EndsWithAnswer

-----------------------------------------------------------------------------
(* Ordered and Fitting.                                                    *)

LEMMA OrderedInit == Init => Ordered /\ Fitting /\ Reading /\ Telling
  BY DEF Init, Ordered, Fitting, Reading, Telling, Reasons, UploadFits, Tried, Untried, Paths,
         Read, Truthful, FitsIsNotRefused, LocalNeverToldCloud, LimitToldIsTrue,
         EndsWithAnswer, NoMessage, Ended

\* The actions before the file is sent, which try no path but the URL.
Preparing ==
  \/ ReadSettings \/ Probe \/ PreCheck \/ Fetch \/ PostCheck \/ Picture
  \/ Convert \/ AudioCheck

LEMMA PreparingKeeps ==
  ASSUME Preparing
  PROVE  /\ UNCHANGED tried
         /\ pc \in {"read", "probe", "precheck", "fetch", "gallery", "postcheck",
                    "picture", "convert", "audiocheck"}
         /\ pc' \in {"probe", "precheck", "direct", "fetch", "gallery", "postcheck",
                     "picture", "convert", "audiocheck", "send", "done", "dropped"}
  BY DEF Preparing, ReadSettings, Probe, PreCheck, Fetch, PostCheck, Picture, Convert,
         AudioCheck, UploadsUnchanged, Goes, Ends, Drops, Enqueued

LEMMA OrderedStep == UploadTypeOK /\ Ordered /\ [Next]_vars => Ordered'
<1> SUFFICES ASSUME UploadTypeOK, Ordered, [Next]_vars PROVE Ordered'
  OBVIOUS
<1> USE DEF Ordered, Tried, Refused, Untried, Drops, NoMediaRow, CannotOpen
<1>1. CASE UNCHANGED vars \/ Change
  BY <1>1 DEF vars, Change
<1>2. CASE Preparing
  BY <1>2, PreparingKeeps
<1>3. CASE DirectSend
  BY <1>3 DEF DirectSend, UploadTypeOK, Goes, Ends, Paths
<1>4. CASE StartSend
  BY <1>4 DEF StartSend, Goes, Fails
<1>5. CASE HealthCheck
  BY <1>5 DEF HealthCheck, Goes, Fails
<1>6. CASE SendLocally
  BY <1>6 DEF SendLocally, Answered, UploadTypeOK, Goes, Ends, Fails, Paths
<1>7. CASE SendByBot
  BY <1>7 DEF SendByBot, Answered, UploadTypeOK, Goes, Ends, Fails, Paths
<1>8. CASE HandleFailure
  BY <1>8 DEF HandleFailure, Ends
<1>9. QED
  BY <1>1, <1>2, <1>3, <1>4, <1>5, <1>6, <1>7, <1>8 DEF Next, Work, Preparing

\* Small enough for the column is small enough for the cloud.
LEMMA SmallFitsCloud ==
  ASSUME NEW st \in UploadSettings, NEW megabytes \in Nat, megabytes <= st.cloudMax
  PROVE  megabytes <= UploadLimitForMode(st, "cloud")
  BY DEF UploadLimitForMode, Default, UploadSettings

LEMMA FittingStep == UploadTypeOK /\ Ordered /\ Fitting /\ [Next]_vars => Fitting'
<1> SUFFICES ASSUME UploadTypeOK, Ordered, Fitting, [Next]_vars PROVE Fitting'
  OBVIOUS
<1> USE DEF Fitting, UploadFits, Tried, Untried, Drops, NoMediaRow, CannotOpen
<1>1. CASE UNCHANGED vars \/ Change
  BY <1>1 DEF vars, Change
<1>2. CASE Preparing
  BY <1>2, PreparingKeeps DEF Ordered
<1>3. CASE DirectSend
  BY <1>3 DEF DirectSend, UploadTypeOK, Ordered, Goes, Ends, Paths
<1>4. CASE StartSend
  <2>1. held' \in UploadSettings
    BY <1>4, AnswersTyped, UploadAssumption DEF StartSend, UploadTypeOK
  <2>2. held'.mode \in {"cloud", "local"}
    BY <2>1 DEF UploadSettings
  <2>3. UNCHANGED <<size, tried>> /\ pc = "send"
    BY <1>4 DEF StartSend
  <2>4. ~Tried("local") /\ ~Tried("fallback") /\ ~Tried("cloud")
    BY <2>3 DEF Ordered
  <2>5. pc' \in {"failed", "dropped", "cloud", "health", "local"}
    BY <1>4 DEF StartSend, Goes, Fails
  <2>6. pc' \notin {"failed", "dropped"} => BytesToMB(size) <= UploadLimitForMode(held', held'.mode)
    BY <1>4 DEF StartSend, Fails, Goes, TelegramUploadLimit
  <2>7. (pc' = "cloud") => (held'.mode = "cloud")
    BY <1>4 DEF StartSend, Fails, Goes
  <2>8. (pc' \in {"health", "local"}) => (held'.mode # "cloud")
    BY <1>4 DEF StartSend, Fails, Goes
  <2>9. QED
    BY <2>2, <2>3, <2>4, <2>5, <2>6, <2>7, <2>8
<1>5. CASE HealthCheck
  BY <1>5 DEF HealthCheck, Ordered, Goes, Fails
<1>6. CASE SendLocally
  <2>1. UNCHANGED <<held, size>> /\ pc = "local"
    BY <1>6 DEF SendLocally
  <2>2. pc' \in {"fallback", "failed", "done"}
    BY <1>6 DEF SendLocally, Answered, Goes, Ends, Fails
  <2>3. pc' = "fallback" => BytesToMB(size) <= UploadLimitForMode(held, "cloud")
    <3>1. pc' = "fallback" => ~OverCloudLimit(held)
      <4>1. ASSUME NEW a \in Answers, Answered("local", a) PROVE pc' # "fallback"
        BY <4>1 DEF Answered, Goes, Ends, Fails
      <4>2. \A e : Fails(e) => pc' # "fallback"
        BY DEF Fails, Goes
      <4>3. QED
        BY <1>6, <4>1, <4>2, Zenon DEF SendLocally
    <3>2. size \in Int /\ held \in UploadSettings
      BY DEF UploadTypeOK
    <3>3. BytesToMB(size) \in Nat
      BY <3>2, MegabytesAreNat
    <3>4. held.cloudMax \in Int
      BY <3>2 DEF UploadSettings
    <3>5. ~OverCloudLimit(held) => BytesToMB(size) <= held.cloudMax
      BY <3>3, <3>4 DEF OverCloudLimit
    <3>6. QED
      BY <3>1, <3>2, <3>3, <3>5, SmallFitsCloud
  <2>4. tried'["cloud"] = tried["cloud"] /\ tried'["fallback"] = tried["fallback"]
    BY <1>6 DEF SendLocally, Answered, UploadTypeOK, Paths
  <2>5. QED
    BY <2>1, <2>2, <2>3, <2>4 DEF Ordered
<1>7. CASE SendByBot
  <2>1. UNCHANGED <<held, size>> /\ pc \in {"cloud", "fallback"}
    BY <1>7 DEF SendByBot
  <2>2. pc' \in {"failed", "done"}
    BY <1>7 DEF SendByBot, Answered, Ends, Fails, Goes
  <2>3. tried'["local"] = tried["local"]
    BY <1>7 DEF SendByBot, Answered, UploadTypeOK, Paths
  <2>4. QED
    BY <2>1, <2>2, <2>3 DEF Ordered
<1>8. CASE HandleFailure
  BY <1>8 DEF HandleFailure, Ends
<1>9. QED
  BY <1>1, <1>2, <1>3, <1>4, <1>5, <1>6, <1>7, <1>8 DEF Next, Work, Preparing

-----------------------------------------------------------------------------
(* Reading: what was read was a setting of this download.                  *)

LEMMA ReadingStep == UploadTypeOK /\ Reading /\ [Next]_vars => Reading'
<1> SUFFICES ASSUME UploadTypeOK, Reading, [Next]_vars PROVE Reading'
  OBVIOUS
<1>1. Read \subseteq Read'
  <2>1. since \subseteq since'
    BY DEF Next, Work, vars, Change, ReadSettings, Probe, PreCheck, DirectSend, Fetch,
           PostCheck, Picture, Convert, AudioCheck, StartSend, HealthCheck, SendLocally,
           SendByBot, HandleFailure, SettingsUnchanged
  <2>2. QED
    BY <2>1 DEF Read
<1>2. ~Ended => CurrentSettings \subseteq Read
  BY DEF Reading, Read, CurrentSettings
<1>3. held' \in Read'
  <2>1. CASE UNCHANGED held
    BY <1>1, <2>1 DEF Reading
  <2>2. CASE ReadSettings
    BY <1>1, <1>2, <2>2 DEF ReadSettings, Reading, CurrentSettings, Ended
  <2>3. CASE StartSend
    BY <1>1, <1>2, <2>3 DEF StartSend, NoMediaRow, Reading, Ended
  <2>4. QED
    BY <2>1, <2>2, <2>3
    DEF Next, Work, vars, Change, Probe, PreCheck, DirectSend, Fetch, PostCheck, Picture,
        Convert, AudioCheck, HealthCheck, SendLocally, SendByBot, HandleFailure
<1>4. ~Ended' => setting' \in since'
  <2>1. CASE UNCHANGED vars
    BY <2>1 DEF vars, Reading, Ended
  <2>2. CASE Change
    BY <2>2 DEF Change, Ended
  <2>3. CASE Work
    <3>1. ~Ended /\ SettingsUnchanged
      BY <2>3 DEF Work, ReadSettings, Probe, PreCheck, DirectSend, Fetch, PostCheck,
             Picture, Convert, AudioCheck, StartSend, HealthCheck, SendLocally, SendByBot,
             HandleFailure, Ended
    <3>2. QED
      BY <3>1 DEF SettingsUnchanged, Reading
  <2>4. QED
    BY <2>1, <2>2, <2>3 DEF Next
<1>5. QED
  BY <1>3, <1>4 DEF Reading

-----------------------------------------------------------------------------
(* Telling: what is told, and why.                                         *)

\* A message without a limit contradicts no property.
LEMMA PlainMessage ==
  ASSUME told'.text \in {"none", "universal", "instagram", "localDown", "sendFailed"}
  PROVE  Truthful'
  BY DEF Truthful, FitsIsNotRefused, LocalNeverToldCloud, LimitToldIsTrue

\* The worker's limit is never above the delivery service's.
LEMMA LimitsOrdered ==
  ASSUME NEW st \in UploadSettings
  PROVE  /\ VideoLimit(st) \in Nat /\ VideoLimit(st) > 0
         /\ VideoLimit(st) <= TelegramUploadLimit(st)
         /\ AudioLimit(st) \in Nat /\ AudioLimit(st) > 0
         /\ AudioLimit(st) <= TelegramUploadLimit(st)
         /\ TelegramUploadLimit(st) \in Nat
<1>1. st.mode \in {"cloud", "local"} /\ st.videoMax \in Int /\ st.audioMax \in Int
  BY DEF UploadSettings
<1>2. TelegramUploadLimit(st) \in Nat /\ TelegramUploadLimit(st) > 0
  BY <1>1, LimitPositive DEF TelegramUploadLimit
<1>3. AllowOversized \in BOOLEAN
  BY UploadAssumption
<1>4. QED
  BY <1>1, <1>2, <1>3, EffectiveAtMost DEF VideoLimit, AudioLimit

LEMMA ReadTyped == UploadTypeOK => Read \subseteq UploadSettings
  BY UploadAssumption DEF UploadTypeOK, Read

\* A size above one of the limits does not fit.
LEMMA NotFitting ==
  ASSUME NEW st \in Read, st \in UploadSettings, NEW bytes \in Nat,
         BytesToMB(bytes) > LimitFor(st)
  PROVE  ~Fits(bytes)
<1>1. LimitFor(st) \in Nat /\ LimitFor(st) > 0
  BY LimitsOrdered DEF LimitFor
<1>2. BytesToMB(bytes) \in Nat
  BY MegabytesAreNat
<1>3. QED
  BY <1>1, <1>2 DEF Fits

\* The steps of the download itself, which leave the settings alone.
LEMMA WorkKeeps ==
  ASSUME UploadTypeOK, Reading, Telling, Work
  PROVE  /\ UNCHANGED <<variant, since, setting>>
         /\ ~Ended
         /\ told = NoMessage
         /\ Read' = Read
<1>1. UNCHANGED <<variant, since, setting>> /\ ~Ended
  BY DEF Ended, Work, ReadSettings, Probe, PreCheck, DirectSend, Fetch, PostCheck, Picture,
         Convert, AudioCheck, StartSend, HealthCheck, SendLocally, SendByBot,
         HandleFailure, SettingsUnchanged
<1>2. QED
  BY <1>1 DEF Telling, Reasons, Read, Ended

LEMMA ReasonsStep == UploadTypeOK /\ Reasons /\ Work => Reasons'
<1> SUFFICES ASSUME UploadTypeOK, Reasons, Work PROVE Reasons'
  OBVIOUS
<1> USE DEF Reasons, Goes, Ends, Fails, Drops, Enqueued, NoMediaRow, CannotOpen
<1>1. CASE Preparing
  <2>1. pc' # "failed"
    BY <1>1, PreparingKeeps
  <2>2. UNCHANGED variant /\ pc # "done"
    BY <1>1 DEF Preparing, ReadSettings, Probe, PreCheck, Fetch, PostCheck, Picture,
               Convert, AudioCheck, SettingsUnchanged
  <2>3. pc' # "done" => UNCHANGED told
    BY <1>1 DEF Preparing, ReadSettings, Probe, PreCheck, Fetch, PostCheck, Picture,
               Convert, AudioCheck
  <2>4. /\ pc' \in {"convert", "audiocheck"} => variant = "AUDIO"
        /\ pc' = "postcheck" => variant = "VIDEO"
    BY <1>1 DEF Preparing, ReadSettings, Probe, PreCheck, Fetch, PostCheck, Picture,
               Convert, AudioCheck, UploadTypeOK
  <2>5. pc' = "dropped" /\ variant = "VIDEO" => May("database") \/ May("queue")
    BY <1>1 DEF Preparing, ReadSettings, Probe, PreCheck, Fetch, PostCheck, Picture,
               Convert, AudioCheck
  <2>6. QED
    BY <2>1, <2>2, <2>3, <2>4, <2>5
<1>2. CASE DirectSend
  BY <1>2 DEF DirectSend, SettingsUnchanged
<1>3. CASE StartSend
  <2>1. UNCHANGED <<size, variant>> /\ pc = "send"
    BY <1>3 DEF StartSend, SettingsUnchanged
  <2>2. pc' \in {"failed", "dropped", "cloud", "health", "local"} /\ UNCHANGED told
    BY <1>3 DEF StartSend
  <2>3. pc' = "failed" => error' = "other" \/
                          (error' = "limit" /\ BytesToMB(size) > TelegramUploadLimit(held'))
    BY <1>3 DEF StartSend
  <2>4. pc' = "dropped" => May("database")
    BY <1>3 DEF StartSend
  <2>5. QED
    BY <2>1, <2>2, <2>3, <2>4 DEF TelegramUploadLimit
<1>4. CASE HealthCheck
  BY <1>4 DEF HealthCheck, SettingsUnchanged
<1>5. CASE SendLocally
  BY <1>5 DEF SendLocally, Answered, SettingsUnchanged
<1>6. CASE SendByBot
  BY <1>6 DEF SendByBot, Answered, SettingsUnchanged
<1>7. CASE HandleFailure
  BY <1>7 DEF HandleFailure
<1>8. QED
  BY <1>1, <1>2, <1>3, <1>4, <1>5, <1>6, <1>7 DEF Work, Preparing

\* What the last step of a download says agrees with the settings that were read.
LEMMA EndStep ==
  ASSUME UploadTypeOK, Reading, Telling, Work, pc' = "done"
  PROVE  Truthful' /\ EndsWithAnswer'
<1>1. /\ UNCHANGED <<variant, since, setting>> /\ told = NoMessage /\ Read' = Read
      /\ pc # "done"
  BY WorkKeeps DEF Ended
<1>2. Read \subseteq UploadSettings /\ held \in Read /\ CurrentSettings \subseteq Read
  BY WorkKeeps, ReadTyped DEF Reading, Read, CurrentSettings
<1>3. known \in Nat /\ size \in Nat
  BY DEF UploadTypeOK
\* A worker that finds a video too large.
<1>4. ASSUME NEW bytes \in Nat, TooLarge(bytes, VideoLimit(held)), variant = "VIDEO",
             Ends(TooLargeVideo(held)), (Fits(known) /\ Fits(size))' => Fits(bytes),
             bytes \in {known', size'}
      PROVE  Truthful' /\ EndsWithAnswer'
  <2>1. BytesToMB(bytes) > LimitFor(held)
    BY <1>4 DEF TooLarge, LimitFor
  <2>2. ~Fits(bytes)
    BY <1>2, <2>1, NotFitting
  <2>3. /\ told'.text = IF held.mode = "cloud" THEN "cloudVideo" ELSE "video"
        /\ told'.limit = LimitFor(held)
        /\ told'.taken \/ May("block")
    BY <1>4, EndsSays DEF TooLargeVideo, LimitMessage, LimitFor
  <2>4. FitsIsNotRefused'
    BY <1>4, <2>2 DEF FitsIsNotRefused
  <2>5. LocalNeverToldCloud'
    BY <1>1, <1>2, <2>3 DEF LocalNeverToldCloud
  <2>6. LimitToldIsTrue'
    BY <1>1, <1>2, <1>4, <2>1, <2>3 DEF LimitToldIsTrue, LimitFor
  <2>7. EndsWithAnswer'
    BY <2>3 DEF EndsWithAnswer, May
  <2>8. QED
    BY <2>4, <2>5, <2>6, <2>7 DEF Truthful
\* A message that is about no limit.
<1>5. ASSUME NEW text \in {"universal", "instagram", "localDown", "sendFailed"},
             Ends(Message(text))
      PROVE  Truthful' /\ EndsWithAnswer'
  <2>1. told'.text = text /\ (told'.taken \/ May("block"))
    BY <1>5, EndsSays DEF Message, LimitMessage
  <2>2. QED
    BY <2>1, PlainMessage DEF EndsWithAnswer, May
\* An end without a message.
<1>6. ASSUME Ends(NoMessage), \E p \in Paths : Copy(p)'
      PROVE  Truthful' /\ EndsWithAnswer'
  <2>1. told'.text = "none"
    BY <1>6, EndsSays DEF NoMessage
  <2>2. Truthful'
    BY <2>1, PlainMessage
  <2>3. EndsWithAnswer'
    BY <1>6 DEF EndsWithAnswer
  <2>4. QED
    BY <2>2, <2>3
<1>7. CASE ReadSettings
  BY <1>5, <1>7 DEF ReadSettings, Goes
<1>8. CASE Probe
  BY <1>8 DEF Probe, Goes
<1>9. CASE PreCheck
  <2>1. /\ TooLarge(known, VideoLimit(held)) /\ variant = "VIDEO"
        /\ Ends(TooLargeVideo(held)) /\ known' = known
    BY <1>9 DEF PreCheck, Goes
  <2>2. Fits(known)' => Fits(known)
    BY <1>1, <2>1 DEF Fits, LimitFor
  <2>3. QED
    BY <1>3, <1>4, <2>1, <2>2
<1>10. CASE DirectSend
  <2>1. Ends(NoMessage) /\ tried' = [tried EXCEPT !["url"] = "ok"]
    BY <1>10 DEF DirectSend, Goes
  <2>2. Copy("url")'
    BY <2>1 DEF Copy, UploadTypeOK, Paths
  <2>3. QED
    BY <1>6, <2>1, <2>2 DEF Paths
<1>11. CASE Fetch
  BY <1>5, <1>11 DEF Fetch, Goes, Drops
<1>12. CASE PostCheck
  <2>1. /\ TooLarge(size, VideoLimit(held)) /\ Ends(TooLargeVideo(held)) /\ size' = size
        /\ pc = "postcheck"
    BY <1>12 DEF PostCheck, Enqueued, Drops, Goes
  <2>2. variant = "VIDEO"
    BY <2>1 DEF Telling, Reasons
  <2>3. Fits(size)' => Fits(size)
    BY <1>1, <2>1 DEF Fits, LimitFor
  <2>4. QED
    BY <1>3, <1>4, <2>1, <2>2, <2>3
<1>13. CASE Picture
  BY <1>5, <1>13 DEF Picture, Goes
<1>14. CASE Convert
  BY <1>14 DEF Convert, Goes, Drops
<1>15. CASE AudioCheck
  <2>1. /\ pc = "audiocheck" /\ size' = size
        /\ TooLarge(size, AudioLimit(setting))
        /\ Ends(LimitMessage("audio", AudioLimit(setting)))
    BY <1>15 DEF AudioCheck, Enqueued, Drops, Goes
  <2>2. variant = "AUDIO"
    BY <2>1 DEF Telling, Reasons
  <2>3. setting \in Read /\ setting \in UploadSettings
    BY WorkKeeps DEF Reading, Read, UploadTypeOK
  <2>4. BytesToMB(size) > LimitFor(setting)
    BY <2>1, <2>2 DEF TooLarge, LimitFor
  <2>5. ~Fits(size)
    BY <1>3, <2>3, <2>4, NotFitting
  <2>6. Fits(size)' => Fits(size)
    BY <1>1, <2>1 DEF Fits, LimitFor
  <2>7. told'.text = "audio" /\ told'.limit = LimitFor(setting)
    BY <2>1, <2>2, EndsSays DEF LimitMessage, LimitFor
  <2>8. LimitToldIsTrue'
    BY <1>1, <2>1, <2>3, <2>4, <2>7 DEF LimitToldIsTrue, LimitFor
  <2>9. QED
    BY <1>1, <2>2, <2>5, <2>6, <2>7, <2>8
    DEF Truthful, FitsIsNotRefused, LocalNeverToldCloud, EndsWithAnswer
<1>16. CASE StartSend
  BY <1>16 DEF StartSend, NoMediaRow, CannotOpen, Drops, Goes, Fails
<1>17. CASE HealthCheck
  BY <1>17 DEF HealthCheck, Goes, Fails
\* The answer "ok" on the path that was tried.
<1>18. ASSUME NEW path \in Paths, NEW a, Answered(path, a)
       PROVE  Truthful' /\ EndsWithAnswer'
  <2>1. Ends(NoMessage) /\ tried' = [tried EXCEPT ![path] = "ok"]
    BY <1>18 DEF Answered, Fails, Goes
  <2>2. Copy(path)'
    BY <2>1 DEF Copy, UploadTypeOK
  <2>3. QED
    BY <1>6, <2>1, <2>2
<1>19. CASE SendLocally
  <2>1. PICK a : Answered("local", a)
    BY <1>19 DEF SendLocally, CannotOpen, Goes, Fails
  <2>2. QED
    BY <1>18, <2>1 DEF Paths
<1>20. CASE SendByBot
  <2>1. PICK a : Answered(pc, a)
    BY <1>20 DEF SendByBot, CannotOpen, Goes, Fails
  <2>2. pc \in Paths
    BY <1>20 DEF SendByBot, Paths
  <2>3. QED
    BY <1>18, <2>1, <2>2
<1>21. CASE HandleFailure
  <2>1. PICK st \in CurrentSettings : Ends(TextFor(st))
    BY <1>21 DEF HandleFailure
  <2>2. /\ UNCHANGED <<known, size>> /\ error # "none"
        /\ error = "limit" => BytesToMB(size) > TelegramUploadLimit(held)
    BY <1>21 DEF HandleFailure, Telling, Reasons
  <2>3. st \in Read
    BY <1>2
  <2>4. CASE error = "limit"
    <3>1. /\ told'.text = IF st.mode = "local" THEN "video" ELSE "cloudVideo"
          /\ told'.limit = TelegramUploadLimit(held)
          /\ told'.taken \/ May("block")
      BY <2>1, <2>4, EndsSays DEF TextFor, LimitMessage
    <3>2. BytesToMB(size) > LimitFor(held)
      <4>1. /\ LimitFor(held) <= TelegramUploadLimit(held)
            /\ LimitFor(held) \in Nat /\ TelegramUploadLimit(held) \in Nat
        BY <1>2, LimitsOrdered DEF LimitFor
      <4>2. BytesToMB(size) \in Nat
        BY <1>3, MegabytesAreNat
      <4>3. QED
        BY <2>2, <2>4, <4>1, <4>2
    <3>3. ~Fits(size)
      BY <1>2, <1>3, <3>2, NotFitting
    <3>4. Fits(size)' => Fits(size)
      BY <1>1, <2>2 DEF Fits, LimitFor
    <3>5. LimitToldIsTrue'
      BY <1>1, <1>2, <2>2, <2>4, <3>1 DEF LimitToldIsTrue
    <3>6. QED
      BY <1>1, <2>3, <3>1, <3>3, <3>4, <3>5
      DEF Truthful, FitsIsNotRefused, LocalNeverToldCloud, EndsWithAnswer, May
  <2>5. CASE error = "large"
    <3>1. /\ told'.text = "upload" /\ told'.limit = TelegramUploadLimit(st)
          /\ told'.taken \/ May("block")
      BY <2>1, <2>5, EndsSays DEF TextFor, LimitMessage
    <3>2. st.mode = "local" => told'.limit = UploadLimitForMode(st, "local")
      BY <3>1 DEF TelegramUploadLimit
    <3>3. LimitToldIsTrue'
      BY <1>1, <2>3, <3>1 DEF LimitToldIsTrue
    <3>4. QED
      BY <1>1, <2>3, <3>1, <3>2, <3>3
      DEF Truthful, FitsIsNotRefused, LocalNeverToldCloud, EndsWithAnswer, May
  <2>6. CASE error \notin {"limit", "large"}
    <3>1. \E text \in {"localDown", "sendFailed"} : TextFor(st) = Message(text)
      BY <2>6 DEF TextFor
    <3>2. QED
      BY <1>5, <2>1, <3>1
  <2>7. QED
    BY <2>4, <2>5, <2>6
<1>22. QED
  BY <1>7, <1>8, <1>9, <1>10, <1>11, <1>12, <1>13, <1>14, <1>15, <1>16, <1>17, <1>19,
     <1>20, <1>21 DEF Work

LEMMA TellingStep == UploadTypeOK /\ Reading /\ Telling /\ [Next]_vars => Telling'
<1> SUFFICES ASSUME UploadTypeOK, Reading, Telling, [Next]_vars PROVE Telling'
  OBVIOUS
<1>1. CASE UNCHANGED vars
  BY <1>1 DEF vars, Telling, Reasons, FitsIsNotRefused, Fits, Read, LimitFor,
         Truthful, LocalNeverToldCloud, LimitToldIsTrue, EndsWithAnswer, Copy, Ended
<1>2. CASE Work
  <2>1. Reasons'
    BY <1>2, ReasonsStep DEF Telling
  <2>2. CASE pc' = "done"
    BY <1>2, <2>1, <2>2, EndStep DEF Telling
  <2>3. CASE pc' # "done"
    <3>1. told' = NoMessage
      BY <2>1, <2>3 DEF Reasons
    <3>2. told'.text = "none"
      BY <3>1 DEF NoMessage
    <3>3. EndsWithAnswer'
      BY <2>1, <2>3 DEF Reasons, EndsWithAnswer, Ended, May
    <3>4. QED
      BY <2>1, <3>2, <3>3, PlainMessage DEF Telling
  <2>4. QED
    BY <2>2, <2>3
<1>3. CASE Change
  <2>1. UNCHANGED <<variant, pc, known, size, tried, error, told, held>>
    BY <1>3 DEF Change
  <2>2. Reasons' /\ EndsWithAnswer'
    BY <2>1 DEF Telling, Reasons, EndsWithAnswer, Copy, Ended
  <2>3. CASE Ended
    <3>1. Read' = Read
      BY <1>3, <2>3 DEF Change, Read
    <3>2. Truthful'
      BY <2>1, <3>1 DEF Telling, Truthful, FitsIsNotRefused, Fits, LimitFor,
                        LocalNeverToldCloud, LimitToldIsTrue
    <3>3. QED
      BY <2>2, <3>2 DEF Telling
  <2>4. CASE ~Ended
    <3>1. told'.text = "none"
      BY <2>1, <2>4 DEF Telling, Reasons, NoMessage, Ended
    <3>2. QED
      BY <2>2, <3>1, PlainMessage DEF Telling
  <2>5. QED
    BY <2>3, <2>4
<1>4. QED
  BY <1>1, <1>2, <1>3 DEF Next

-----------------------------------------------------------------------------
(* The theorems.                                                           *)

LEMMA UploadInductive ==
  Spec => [](UploadTypeOK /\ Ordered /\ Fitting /\ Reading /\ Telling)
<1>1. Init => UploadTypeOK /\ Ordered /\ Fitting /\ Reading /\ Telling
  BY TypeInit, OrderedInit
<1>2. UploadTypeOK /\ Ordered /\ Fitting /\ Reading /\ Telling /\ [Next]_vars
        => (UploadTypeOK /\ Ordered /\ Fitting /\ Reading /\ Telling)'
  BY TypeStep, OrderedStep, FittingStep, ReadingStep, TellingStep
<1>3. QED
  BY <1>1, <1>2, PTL DEF Spec

\* No server is given a file above its limit, and no large file falls back to the
\* cloud, for all limits, sizes and changes of settings (SendLocalTimed).
THEOREM UploadsFit == Spec => []UploadFits
<1>1. Fitting => UploadFits
  BY DEF Fitting
<1>2. QED
  BY <1>1, UploadInductive, PTL

\* A chat gets a second copy only after a lost or unreadable answer
\* (ProcessTask, SendLocalTimed).
THEOREM SecondCopiesExplained == Spec => []SecondCopyExplained
<1>1. UploadTypeOK /\ Ordered => SecondCopyExplained
  BY DEF Ordered, SecondCopyExplained, Copy, Unheard, Refused, Tried, Untried, Paths,
         UploadTypeOK
<1>2. QED
  BY <1>1, UploadInductive, PTL

\* What fits under all settings of the download is never refused for its size
\* (ProcessTask of both workers, SendLocalTimed).
THEOREM FittingIsNotRefused == Spec => []FitsIsNotRefused
<1>1. Telling => FitsIsNotRefused
  BY DEF Telling, Truthful
<1>2. QED
  BY <1>1, UploadInductive, PTL

\* In local mode nobody hears of the cloud's limit (handleLocalSendFailure).
THEOREM LocalIsNotToldCloud == Spec => []LocalNeverToldCloud
<1>1. Telling => LocalNeverToldCloud
  BY DEF Telling, Truthful
<1>2. QED
  BY <1>1, UploadInductive, PTL

\* A limit that a chat is told of was in force, and its file exceeds it
\* (ProcessTask of both workers, handleLocalSendFailure).
THEOREM LimitsToldAreTrue == Spec => []LimitToldIsTrue
<1>1. Telling => LimitToldIsTrue
  BY DEF Telling, Truthful
<1>2. QED
  BY <1>1, UploadInductive, PTL

\* A video's download ends with a copy or with a message that was sent, unless a
\* worker returns an error of Postgres or of a queue (ProcessTask).
THEOREM DownloadEndsWithAnswer == Spec => []EndsWithAnswer
<1>1. Telling => EndsWithAnswer
  BY DEF Telling
<1>2. QED
  BY <1>1, UploadInductive, PTL

\* Without those errors, and if Telegram takes messages for the chat, nobody who
\* asked for a video is left with neither.
THEOREM NobodyIsLeftWithNothing ==
  ASSUME Conditions \cap {"database", "queue", "block"} = {}
  PROVE  Spec => [](Ended /\ variant = "VIDEO" => told.taken \/ \E p \in Paths : Copy(p))
<1>1. EndsWithAnswer =>
        (Ended /\ variant = "VIDEO" => told.taken \/ \E p \in Paths : Copy(p))
  BY DEF EndsWithAnswer, May
<1>2. QED
  BY <1>1, DownloadEndsWithAnswer, PTL

\* Whatever yt-dlp lists, the format is the best one of the requested quality
\* (selectFormat).
THEOREM SelectionsAreRight == Spec => []SelectsRight
<1>1. UploadTypeOK => SelectsRight
  BY SelectionIsRight DEF UploadTypeOK, SelectsRight
<1>2. QED
  BY <1>1, UploadTypeCorrect, PTL
=============================================================================
