------------------------------ MODULE TempFiles ------------------------------
(***************************************************************************)
(* The files of the download pipeline: where the tasks of a download put   *)
(* them, how the send worker renames and uploads them, who removes them,   *)
(* and which file id is cached in the end.                                 *)
(*                                                                         *)
(* A job is one download with its cache key and its media; the lock of     *)
(* that key (module InFlight) keeps jobs of one key apart.  Jobs of        *)
(* different keys run concurrently and share the directory of their chat.  *)
(* A path stands for chat directory, base name and extension, all within   *)
(* one day; the content of a file is the job whose media it holds.         *)
(* Names are made of the download's id, of the title, or of the title with *)
(* the warning that a photo post gets in front of it.                      *)
(***************************************************************************)
EXTENDS Naturals

CONSTANTS Jobs, Chats, Titles,
          NoTitle,      \* the probe gave no title
          NoFile,       \* the content of a path without a file
          Partial,      \* the content of a file that yt-dlp left unfinished
          ChatOf,       \* the chat of the job's first recipient
          TitleOf,      \* the sanitized title of the job's post
          TypeOf,       \* "VIDEO" or "AUDIO"
          JobAttempts,  \* retries of a task
          KeepFailed,   \* KEEP_FAILED_DOWNLOADS
          Conditions    \* what may happen in this run, see AllConditions

AllConditions ==
  { "image",     \* the post is a photo, with or without sound
    "partial",   \* yt-dlp is killed in mid-download and gallery-dl steps in
    "enqueue",   \* a task cannot be put on its queue
    "convert",   \* ffmpeg cannot convert
    "telegram",  \* Telegram refuses the upload
    "store",     \* the file id cannot be written
    "slow" }     \* a file in use becomes older than the TTL of the cleaner

ASSUME JobsAssumption ==
  /\ ChatOf \in [Jobs -> Chats]
  /\ TitleOf \in [Jobs -> Titles \cup {NoTitle}]
  /\ TypeOf \in [Jobs -> {"VIDEO", "AUDIO"}]
ASSUME NamesAssumption ==
  /\ NoFile \notin Jobs /\ Partial \notin Jobs /\ NoFile # Partial
  /\ NoTitle \notin Titles
ASSUME SettingsAssumption ==
  /\ JobAttempts \in Nat
  /\ KeepFailed \in BOOLEAN
  /\ Conditions \subseteq AllConditions

VARIABLES
  disk,       \* the content of each path
  pc,         \* the queue or the worker step of a job
  made,       \* LocalPath in the payload of the job's send task
  local,      \* LocalPath in the send worker, after the rename
  tries,      \* retries of the current task
  returning,  \* image posts whose download task has not returned yet
  fileId      \* the content behind the file id that is cached for the job

vars == <<disk, pc, made, local, tries, returning, fileId>>

-----------------------------------------------------------------------------
May(c) == c \in Conditions

\* yt-dlp's unfinished streams carry a format in their name, as in .f1.mp4.
Extensions == {"mp4", "f1.mp4", "mp3", "jpg", "img2vid.mp4", "sound.mp3"}

Names == {"download"} \X Jobs \cup {"title", "warning"} \X (Titles \cup {NoTitle})

Paths == [chat : Chats, name : Names, ext : Extensions]

OwnPathOfTheChat(j, ext) ==
  [chat |-> ChatOf[j],
   name |-> <<"download", CHOOSE i \in Jobs : ChatOf[i] = ChatOf[j]>>, ext |-> ext]

\* DownloadBase and AudioPath: names made of the download's id are the job's.
OwnPath(j, ext) == [chat |-> ChatOf[j], name |-> <<"download", j>>, ext |-> ext]

\* The send task of a photo post: its CustomTitle is never empty.
OfPhoto(j) == made[j].ext \in {"jpg", "img2vid.mp4"}

\* The path in the same directory that is named after CustomTitle.
TitlePath(j) ==
  [chat |-> ChatOf[j],
   name |-> <<IF OfPhoto(j) THEN "warning" ELSE "title", TitleOf[j]>>,
   ext |-> IF made[j].ext \in {"mp3", "jpg"} THEN made[j].ext ELSE "mp4"]

HasTitle(j) == OfPhoto(j) \/ TitleOf[j] # NoTitle

Present(p) == disk[p] # NoFile

Without(files, ps) == [p \in Paths |-> IF p \in ps THEN NoFile ELSE files[p]]

Goto(j, step) == pc' = [pc EXCEPT ![j] = step]

\* The next task gets the path of its file.
HandedOn(j, queue, path) ==
  /\ Goto(j, queue)
  /\ made' = [made EXCEPT ![j] = path]
  /\ tries' = [tries EXCEPT ![j] = 0]

RetriedForever(j, queue) ==
  /\ Goto(j, queue)
  /\ tries' = [tries EXCEPT ![j] = @ + 1]
  /\ UNCHANGED made

\* The task runs again with the payload it has, or is given up.
Retried(j, queue) ==
  /\ IF tries[j] < JobAttempts
       THEN Goto(j, queue) /\ tries' = [tries EXCEPT ![j] = @ + 1]
       ELSE Goto(j, "archived") /\ UNCHANGED tries
  /\ UNCHANGED made

-----------------------------------------------------------------------------
(* The download task.  The file it goes on with is the first match of the  *)
(* base name: what yt-dlp left behind comes before gallery-dl's file.      *)

Download(j) ==
  /\ pc[j] = "download"
  /\ LET file  == OwnPath(j, "mp4")
         piece == OwnPath(j, "f1.mp4")
         queue == IF TypeOf[j] = "AUDIO" THEN "convert" ELSE "send"
     IN \/ /\ HandedOn(j, queue, file)
           /\ disk' = [disk EXCEPT ![file] = j]
        \/ /\ May("partial")
           /\ HandedOn(j, queue, piece)
           /\ disk' = [disk EXCEPT ![file] = j, ![piece] = Partial]
        \/ /\ May("enqueue")
           /\ Goto(j, "archived")   \* the retries find the key locked
           /\ disk' = [disk EXCEPT ![file] = j]
           /\ UNCHANGED <<made, tries>>
        \/ \* not downloaded, or found too large and removed
           /\ Goto(j, "failed")
           /\ \/ UNCHANGED disk
              \/ May("partial") /\ disk' = [disk EXCEPT ![piece] = Partial]
           /\ UNCHANGED <<made, tries>>
        \/ /\ May("image")
           /\ Goto(j, "image")
           /\ UNCHANGED <<disk, made, tries>>
  /\ UNCHANGED <<local, returning, fileId>>

(* processImagePost: the picture, or a video of the picture and the sound. *)
(* Both sources are removed when the task returns, after the enqueue.      *)
Image(j) ==
  /\ pc[j] = "image"
  /\ LET picture == OwnPath(j, "jpg")
         sound   == OwnPath(j, "sound.mp3")
         video   == OwnPath(j, "img2vid.mp4")
         Failed  == Goto(j, "failed") /\ UNCHANGED <<made, tries>>
     IN \/ Failed /\ UNCHANGED <<disk, returning>>
        \/ /\ \/ /\ disk' = [disk EXCEPT ![picture] = j]
                 /\ HandedOn(j, "send", picture) \/ (May("enqueue") /\ Failed)
              \/ /\ disk' = [disk EXCEPT ![picture] = j, ![sound] = j, ![video] = j]
                 /\ HandedOn(j, "send", video) \/ (May("enqueue") /\ Failed)
           /\ returning' = returning \cup {j}
  /\ UNCHANGED <<local, fileId>>

Return(j) ==
  /\ j \in returning
  /\ returning' = returning \ {j}
  /\ disk' = Without(disk, {OwnPath(j, "jpg"), OwnPath(j, "sound.mp3")})
  /\ UNCHANGED <<pc, made, local, tries, fileId>>

(* The audio task.  The source is removed whatever comes of it; an ffmpeg  *)
(* that fails may have written the beginning of a song.                    *)
Convert(j) ==
  /\ pc[j] = "convert"
  /\ LET song == OwnPath(j, "mp3")
     IN \/ /\ Present(made[j])
           /\ \/ /\ HandedOn(j, "send", song) \/ (May("enqueue") /\ Retried(j, "convert"))
                 /\ disk' = Without([disk EXCEPT ![song] = disk[made[j]]], {made[j]})
              \/ \* too large
                 /\ Goto(j, "failed")
                 /\ disk' = Without(disk, {made[j], song})
                 /\ UNCHANGED <<made, tries>>
        \/ /\ May("convert")
           /\ Present(made[j])
           /\ disk' \in { Without(files, {made[j]}) :
                           files \in {disk, [disk EXCEPT ![song] = Partial]} }
           /\ Retried(j, "convert")
        \/ /\ ~Present(made[j])
           /\ Retried(j, "convert")
           /\ UNCHANGED disk
  /\ UNCHANGED <<local, returning, fileId>>

-----------------------------------------------------------------------------
(* The send task.                                                          *)

RenameKeepingThePath(j) ==
  /\ pc[j] = "send"
  /\ local' = [local EXCEPT ![j] = made[j]]
  /\ disk' = IF HasTitle(j) /\ Present(made[j])
               THEN [Without(disk, {made[j]}) EXCEPT ![TitlePath(j)] = disk[made[j]]]
               ELSE disk
  /\ Goto(j, "upload")
  /\ UNCHANGED <<made, tries, returning, fileId>>

\* os.Rename replaces a file that has the new name.  If it fails, for want of
\* the file or because the title is too long for a name, the old path is used.
Rename(j) ==
  /\ pc[j] = "send"
  /\ \/ /\ HasTitle(j)
        /\ Present(made[j])
        /\ local' = [local EXCEPT ![j] = TitlePath(j)]
        /\ disk' = [Without(disk, {made[j]}) EXCEPT ![TitlePath(j)] = disk[made[j]]]
     \/ /\ local' = [local EXCEPT ![j] = made[j]]
        /\ UNCHANGED disk
  /\ Goto(j, "upload")
  /\ UNCHANGED <<made, tries, returning, fileId>>

\* SendLocal, and the file id it returns.
Upload(j) ==
  /\ pc[j] = "upload"
  /\ \/ /\ Present(local[j])
        /\ \/ /\ fileId' = [fileId EXCEPT ![j] = disk[local[j]]]
              /\ Goto(j, "remove")
              /\ UNCHANGED <<made, tries>>
           \/ May("store") /\ Retried(j, "send") /\ UNCHANGED fileId
        /\ UNCHANGED disk
     \/ /\ May("telegram") \/ ~Present(local[j])
        /\ Goto(j, "failed")
        /\ disk' = IF KeepFailed THEN disk ELSE Without(disk, {local[j]})
        /\ UNCHANGED <<made, tries, fileId>>
  /\ UNCHANGED <<local, returning>>

RemoveTheDownload(j) ==
  /\ pc[j] = "remove"
  /\ Goto(j, "done")
  /\ disk' = Without(disk, {made[j]})
  /\ UNCHANGED <<made, local, tries, returning, fileId>>

\* After the copies to the other recipients.
Remove(j) ==
  /\ pc[j] = "remove"
  /\ Goto(j, "done")
  /\ disk' = Without(disk, {local[j]})
  /\ UNCHANGED <<made, local, tries, returning, fileId>>

-----------------------------------------------------------------------------
(* The cleaner removes files older than its TTL.                           *)

InUse(p) ==
  \E j \in Jobs : \/ pc[j] \in {"convert", "send"} /\ made[j] = p
                  \/ pc[j] \in {"upload", "remove"} /\ local[j] = p

Clean(p) ==
  /\ Present(p)
  /\ May("slow") \/ ~InUse(p)
  /\ disk' = Without(disk, {p})
  /\ UNCHANGED <<pc, made, local, tries, returning, fileId>>

-----------------------------------------------------------------------------
Init ==
  /\ disk = [p \in Paths |-> NoFile]
  /\ pc = [j \in Jobs |-> "download"]
  /\ made = [j \in Jobs |-> OwnPath(j, "mp4")]
  /\ local = [j \in Jobs |-> OwnPath(j, "mp4")]
  /\ tries = [j \in Jobs |-> 0]
  /\ returning = {}
  /\ fileId = [j \in Jobs |-> NoFile]

Next ==
  \/ \E j \in Jobs : \/ Download(j) \/ Image(j) \/ Return(j) \/ Convert(j)
                     \/ Rename(j) \/ Upload(j) \/ Remove(j)
  \/ \E p \in Paths : Clean(p)

Spec == Init /\ [][Next]_vars

-----------------------------------------------------------------------------
(* Properties.                                                             *)

\* The types of the variables.
FilesTypeOK ==
  /\ disk \in [Paths -> Jobs \cup {NoFile, Partial}]
  /\ pc \in [Jobs -> {"download", "image", "convert", "send", "upload", "remove",
                      "done", "failed", "archived"}]
  /\ made \in [Jobs -> Paths]
  /\ local \in [Jobs -> Paths]
  /\ tries \in [Jobs -> 0..JobAttempts]
  /\ returning \subseteq Jobs
  /\ fileId \in [Jobs -> Jobs \cup {NoFile, Partial}]

\* The file id cached under a key is of that key's media: no file of another
\* post is uploaded in its place and served to all who ask for the key later.
CachedIsOwn == \A j \in Jobs : fileId[j] \in {j, Partial, NoFile}

\* The first run of a send task finds its file, whoever renames or removes what
\* meanwhile.  (A picture is removed by its own download task: PictureIsThere.)
FileIsThere ==
  \A j \in Jobs :
    /\ pc[j] = "upload"
    /\ tries[j] = 0
    /\ made[j].ext # "jpg"
    => Present(local[j])

\* processImagePost's last step, "If image only -> send as photo": the picture
\* is there when its send task runs.
PictureIsThere ==
  \A j \in Jobs : pc[j] = "upload" /\ made[j].ext = "jpg" => Present(local[j])

\* A job that has delivered its media leaves no copy of it behind.
DeliveredLeavesNothing ==
  \A j \in Jobs \ returning :
    pc[j] = "done" /\ fileId[j] = j => \A p \in Paths : disk[p] # j
=============================================================================
