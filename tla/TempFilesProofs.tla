--------------------------- MODULE TempFilesProofs ---------------------------
(* Proofs about TempFiles, for every set of jobs, chats and titles.        *)
EXTENDS TempFiles, TLAPS

\* A step of a job.
StepOf(j) == Download(j) \/ Image(j) \/ Return(j) \/ Convert(j)
             \/ Rename(j) \/ Upload(j) \/ Remove(j)

\* The contents a path can have.
Contents == Jobs \cup {NoFile, Partial}

\* A path named after a job's download is a path.
LEMMA OwnPathType ==
  ASSUME NEW j \in Jobs, NEW ext \in Extensions
  PROVE  OwnPath(j, ext) \in Paths
BY JobsAssumption DEF OwnPath, Paths, Names

\* A path named after a job's title is a path.
LEMMA TitlePathType ==
  ASSUME NEW j \in Jobs, made[j] \in Paths
  PROVE  /\ TitlePath(j) \in Paths
         /\ TitlePath(j).chat = ChatOf[j]
         /\ TitlePath(j).name = <<IF OfPhoto(j) THEN "warning" ELSE "title", TitleOf[j]>>
<1>1. TitleOf[j] \in Titles \cup {NoTitle} /\ ChatOf[j] \in Chats
  BY JobsAssumption
<1>2. (IF made[j].ext \in {"mp3", "jpg"} THEN made[j].ext ELSE "mp4") \in Extensions
  BY DEF Extensions
<1>3. <<IF OfPhoto(j) THEN "warning" ELSE "title", TitleOf[j]>> \in Names
  BY <1>1 DEF Names
<1> QED BY <1>1, <1>2, <1>3 DEF TitlePath, Paths

\* Removing files leaves the other paths as they are.
LEMMA WithoutType ==
  ASSUME NEW files \in [Paths -> Contents], NEW ps
  PROVE  /\ Without(files, ps) \in [Paths -> Contents]
         /\ \A p \in Paths : Without(files, ps)[p] = IF p \in ps THEN NoFile ELSE files[p]
BY DEF Without, Contents

-----------------------------------------------------------------------------
(* Type correctness.                                                       *)

\* The steps of a job keep the types of its own variables.
LEMMA JobType ==
  ASSUME NEW j \in Jobs, FilesTypeOK, StepOf(j)
  PROVE  /\ pc' \in [Jobs -> {"download", "image", "convert", "send", "upload",
                              "remove", "done", "failed", "archived"}]
         /\ made' \in [Jobs -> Paths]
         /\ local' \in [Jobs -> Paths]
         /\ tries' \in [Jobs -> 0..JobAttempts]
         /\ returning' \subseteq Jobs
         /\ fileId' \in [Jobs -> Contents]
<1>0. /\ pc \in [Jobs -> {"download", "image", "convert", "send", "upload",
                          "remove", "done", "failed", "archived"}]
      /\ made \in [Jobs -> Paths]
      /\ local \in [Jobs -> Paths]
      /\ tries \in [Jobs -> 0..JobAttempts]
      /\ returning \subseteq Jobs
      /\ fileId \in [Jobs -> Contents]
      /\ disk \in [Paths -> Contents]
      /\ 0 \in 0..JobAttempts
      /\ \A n \in 0..JobAttempts : n < JobAttempts => n + 1 \in 0..JobAttempts
  BY SettingsAssumption DEF FilesTypeOK, Contents
<1>p. \A ext \in Extensions : OwnPath(j, ext) \in Paths
  BY OwnPathType
<1>1. CASE Download(j)
  BY <1>0, <1>p, <1>1 DEF Download, HandedOn, Goto, Extensions
<1>2. CASE Image(j)
  BY <1>0, <1>p, <1>2 DEF Image, HandedOn, Goto, Extensions
<1>3. CASE Return(j)
  BY <1>0, <1>3 DEF Return
<1>4. CASE Convert(j)
  BY <1>0, <1>p, <1>4 DEF Convert, HandedOn, Retried, Goto, Extensions
<1>5. CASE Rename(j)
  BY <1>0, <1>5, TitlePathType DEF Rename, Goto
<1>6. CASE Upload(j)
  BY <1>0, <1>6 DEF Upload, Retried, Goto
<1>7. CASE Remove(j)
  BY <1>0, <1>7 DEF Remove, Goto
<1> QED BY <1>1, <1>2, <1>3, <1>4, <1>5, <1>6, <1>7 DEF StepOf

\* The steps of a job keep the type of the disk.
LEMMA DiskType ==
  ASSUME NEW j \in Jobs, FilesTypeOK, StepOf(j)
  PROVE  disk' \in [Paths -> Contents]
<1>0. /\ disk \in [Paths -> Contents]
      /\ made[j] \in Paths
      /\ j \in Contents /\ Partial \in Contents
  BY DEF FilesTypeOK, Contents
<1>d. disk[made[j]] \in Contents
  BY <1>0
<1>1. CASE Download(j)
  BY <1>0, <1>1 DEF Download
<1>2. CASE Image(j)
  BY <1>0, <1>2 DEF Image
<1>3. CASE Return(j)
  BY <1>0, <1>3, WithoutType DEF Return
<1>4. CASE Convert(j)
  <2> DEFINE song == OwnPath(j, "mp3")
  <2>1. /\ [disk EXCEPT ![song] = disk[made[j]]] \in [Paths -> Contents]
        /\ [disk EXCEPT ![song] = Partial] \in [Paths -> Contents]
    BY <1>0, <1>d
  <2>2. \/ disk' = Without([disk EXCEPT ![song] = disk[made[j]]], {made[j]})
        \/ disk' = Without([disk EXCEPT ![song] = Partial], {made[j]})
        \/ disk' = Without(disk, {made[j], song})
        \/ disk' = Without(disk, {made[j]})
        \/ disk' = disk
    BY <1>4 DEF Convert
  <2>3. Without([disk EXCEPT ![song] = disk[made[j]]], {made[j]}) \in [Paths -> Contents]
    BY <2>1, WithoutType
  <2>4. Without(disk, {made[j], song}) \in [Paths -> Contents]
    BY <1>0, WithoutType
  <2>5. Without(disk, {made[j]}) \in [Paths -> Contents]
    BY <1>0, WithoutType
  <2>6. Without([disk EXCEPT ![song] = Partial], {made[j]}) \in [Paths -> Contents]
    BY <2>1, WithoutType
  <2> QED BY <1>0, <2>2, <2>3, <2>4, <2>5, <2>6
<1>5. CASE Rename(j)
  <2>1. Without(disk, {made[j]}) \in [Paths -> Contents]
    BY <1>0, WithoutType
  <2> QED BY <1>0, <1>d, <1>5, <2>1 DEF Rename
<1>6. CASE Upload(j)
  <2>1. disk' = disk \/ disk' = Without(disk, {local[j]})
    BY <1>6 DEF Upload
  <2>2. Without(disk, {local[j]}) \in [Paths -> Contents]
    BY <1>0, WithoutType
  <2> QED BY <1>0, <2>1, <2>2
<1>7. CASE Remove(j)
  BY <1>0, <1>7, WithoutType DEF Remove
<1> QED BY <1>1, <1>2, <1>3, <1>4, <1>5, <1>6, <1>7 DEF StepOf

\* The initial state is well typed.
LEMMA FilesTypeInit == Init => FilesTypeOK
BY OwnPathType, SettingsAssumption DEF Init, FilesTypeOK, Extensions

\* Every step keeps the types.
LEMMA FilesTypeStep == FilesTypeOK /\ [Next]_vars => FilesTypeOK'
<1> SUFFICES ASSUME FilesTypeOK, [Next]_vars PROVE FilesTypeOK'
  OBVIOUS
<1>1. ASSUME NEW j \in Jobs, StepOf(j) PROVE FilesTypeOK'
  BY <1>1, JobType, DiskType DEF FilesTypeOK, Contents
<1>2. ASSUME NEW p \in Paths, Clean(p) PROVE FilesTypeOK'
  <2>1. disk' \in [Paths -> Contents]
    BY <1>2, WithoutType DEF Clean, FilesTypeOK, Contents
  <2> QED BY <1>2, <2>1 DEF Clean, FilesTypeOK, Contents
<1>3. CASE UNCHANGED vars
  BY <1>3 DEF vars, FilesTypeOK
<1> QED BY <1>1, <1>2, <1>3 DEF Next, StepOf

\* Every state of every behaviour is well typed.
THEOREM FilesTypeCorrect == Spec => []FilesTypeOK
BY FilesTypeInit, FilesTypeStep, PTL DEF Spec

-----------------------------------------------------------------------------
(* What is cached is the job's own.  The files of a job have the id of its *)
(* download or its title in their names, so the jobs' paths are apart when *)
(* no two posts of a chat have one title; then a job touches nothing that  *)
(* belongs to another.                                                     *)

DistinctTitles ==
  \A i, j \in Jobs :
    /\ i # j
    /\ ChatOf[i] = ChatOf[j]
    /\ TitleOf[i] = TitleOf[j]
    => TitleOf[i] = NoTitle /\ ~May("image")

\* The names that a job may give to a file.
NamesOf(j) ==
  {<<"download", j>>}
  \cup {n \in {<<"title", TitleOf[j]>>} : TitleOf[j] # NoTitle}
  \cup {n \in {<<"warning", TitleOf[j]>>} : May("image")}

\* The paths at which a job may put a file.
PathsOf(j) == {p \in Paths : p.chat = ChatOf[j] /\ p.name \in NamesOf(j)}

\* The contents a job may put there.
OwnContents(j) == {j, Partial, NoFile}

OwnInv ==
  /\ FilesTypeOK
  /\ CachedIsOwn
  /\ \A j \in Jobs : made[j] \in PathsOf(j) /\ local[j] \in PathsOf(j)
  /\ \A j \in Jobs : pc[j] = "image" \/ OfPhoto(j) => May("image")
  /\ \A j \in Jobs, p \in Paths : disk[p] = j => p \in PathsOf(j)

\* A path is one job's at most.
LEMMA PathsApart ==
  ASSUME DistinctTitles, NEW i \in Jobs, NEW j \in Jobs, i # j
  PROVE  PathsOf(i) \cap PathsOf(j) = {}
<1> SUFFICES ASSUME NEW p \in Paths, p \in PathsOf(i), p \in PathsOf(j) PROVE FALSE
  BY DEF PathsOf
<1>1. ChatOf[i] = ChatOf[j]
  BY DEF PathsOf
<1>2. p.name \in NamesOf(i) /\ p.name \in NamesOf(j)
  BY DEF PathsOf
<1>3. CASE TitleOf[i] # TitleOf[j]
  BY <1>2, <1>3 DEF NamesOf
<1>4. CASE TitleOf[i] = TitleOf[j]
  BY <1>1, <1>2, <1>4 DEF NamesOf, DistinctTitles
<1> QED BY <1>3, <1>4

\* So at the paths of a job there are only files of that job.
LEMMA OwnContent ==
  ASSUME DistinctTitles, OwnInv, NEW j \in Jobs, NEW p \in PathsOf(j)
  PROVE  disk[p] \in OwnContents(j)
<1>1. p \in Paths /\ disk[p] \in Contents
  BY DEF PathsOf, OwnInv, FilesTypeOK, Contents
<1>2. \A i \in Jobs : disk[p] = i => i = j
  BY <1>1, PathsApart DEF OwnInv
<1> QED BY <1>1, <1>2 DEF Contents, OwnContents

\* A path named after the job's download, or after its title, is the job's.
LEMMA OwnPathIsOwn ==
  ASSUME NEW j \in Jobs
  PROVE  /\ \A ext \in Extensions : OwnPath(j, ext) \in PathsOf(j)
         /\ OwnInv /\ HasTitle(j) => TitlePath(j) \in PathsOf(j)
<1>1. \A ext \in Extensions : OwnPath(j, ext) \in PathsOf(j)
  BY OwnPathType DEF OwnPath, PathsOf, NamesOf
<1>2. ASSUME OwnInv, HasTitle(j) PROVE TitlePath(j) \in PathsOf(j)
  <2>1. made[j] \in Paths
    BY <1>2 DEF OwnInv, PathsOf
  <2>2. /\ TitlePath(j) \in Paths
        /\ TitlePath(j).chat = ChatOf[j]
        /\ TitlePath(j).name = <<IF OfPhoto(j) THEN "warning" ELSE "title", TitleOf[j]>>
    BY <2>1, TitlePathType
  <2>3. TitlePath(j).name \in NamesOf(j)
    BY <1>2, <2>2 DEF NamesOf, HasTitle, OwnInv
  <2> QED BY <2>2, <2>3 DEF PathsOf
<1> QED BY <1>1, <1>2

\* A photo's files come from the photo flow.
LEMMA PhotoStep ==
  ASSUME OwnInv, NEW j \in Jobs, StepOf(j), NEW i \in Jobs
  PROVE  pc'[i] = "image" \/ OfPhoto(i)' => May("image")
<1>0. /\ pc \in [Jobs -> {"download", "image", "convert", "send", "upload", "remove",
                           "done", "failed", "archived"}]
      /\ made \in [Jobs -> Paths]
      /\ pc[i] = "image" \/ OfPhoto(i) => May("image")
      /\ pc[j] = "image" => May("image")
      /\ \A ext \in Extensions : OwnPath(j, ext).ext = ext
  BY DEF OwnInv, FilesTypeOK, OwnPath
<1>1. CASE Download(j)
  BY <1>0, <1>1 DEF Download, HandedOn, Goto, OfPhoto, Extensions
<1>2. CASE Image(j)
  BY <1>0, <1>2 DEF Image, Goto, HandedOn, OfPhoto, Extensions
<1>3. CASE Return(j)
  BY <1>0, <1>3 DEF Return, OfPhoto
<1>4. CASE Convert(j)
  BY <1>0, <1>4 DEF Convert, HandedOn, Retried, Goto, OfPhoto, Extensions
<1>5. CASE Rename(j)
  BY <1>0, <1>5 DEF Rename, Goto, OfPhoto
<1>6. CASE Upload(j)
  BY <1>0, <1>6 DEF Upload, Retried, Goto, OfPhoto
<1>7. CASE Remove(j)
  BY <1>0, <1>7 DEF Remove, Goto, OfPhoto
<1> QED BY <1>1, <1>2, <1>3, <1>4, <1>5, <1>6, <1>7 DEF StepOf

\* The files differ from the disk at paths of the job only, and by its contents.
ChangedBy(j, files) ==
  /\ files \in [Paths -> Contents]
  /\ \A p \in Paths : \/ files[p] = disk[p]
                      \/ p \in PathsOf(j) /\ files[p] \in OwnContents(j)

\* Writing and removing a file of one's own are such changes.
LEMMA OwnWrite ==
  ASSUME NEW j \in Jobs, NEW files, ChangedBy(j, files),
         NEW path \in PathsOf(j), NEW c \in OwnContents(j)
  PROVE  ChangedBy(j, [files EXCEPT ![path] = c])
<1>1. path \in Paths /\ c \in Contents /\ files \in [Paths -> Contents]
  BY DEF ChangedBy, PathsOf, OwnContents, Contents
<1>2. \A p \in Paths : [files EXCEPT ![path] = c][p] = IF p = path THEN c ELSE files[p]
  BY <1>1
<1>3. [files EXCEPT ![path] = c] \in [Paths -> Contents]
  BY <1>1
<1> QED BY <1>2, <1>3 DEF ChangedBy

LEMMA OwnRemoval ==
  ASSUME NEW j \in Jobs, NEW files, ChangedBy(j, files), NEW ps \in SUBSET PathsOf(j)
  PROVE  ChangedBy(j, Without(files, ps))
<1>1. files \in [Paths -> Contents]
  BY DEF ChangedBy
<1>2. /\ Without(files, ps) \in [Paths -> Contents]
      /\ \A p \in Paths : Without(files, ps)[p] = IF p \in ps THEN NoFile ELSE files[p]
  BY <1>1, WithoutType
<1> QED BY <1>2 DEF ChangedBy, OwnContents

\* A step of a job changes files at its own paths only, puts only its own
\* contents there, and goes on with a path of its own.
LEMMA OwnStep ==
  ASSUME DistinctTitles, OwnInv, NEW j \in Jobs, StepOf(j)
  PROVE  /\ ChangedBy(j, disk')
         /\ made'[j] \in PathsOf(j) /\ local'[j] \in PathsOf(j)
         /\ fileId'[j] \in OwnContents(j)
         /\ \A i \in Jobs \ {j} : /\ made'[i] = made[i] /\ local'[i] = local[i]
                                 /\ fileId'[i] = fileId[i]
<1>0. /\ made \in [Jobs -> Paths]
      /\ local \in [Jobs -> Paths]
      /\ fileId \in [Jobs -> Contents]
      /\ made[j] \in PathsOf(j) /\ local[j] \in PathsOf(j)
      /\ fileId[j] \in OwnContents(j)
  BY DEF OwnInv, FilesTypeOK, CachedIsOwn, Contents, OwnContents
<1>p. /\ OwnPath(j, "mp4") \in PathsOf(j)
      /\ OwnPath(j, "f1.mp4") \in PathsOf(j)
      /\ OwnPath(j, "mp3") \in PathsOf(j)
      /\ OwnPath(j, "jpg") \in PathsOf(j)
      /\ OwnPath(j, "img2vid.mp4") \in PathsOf(j)
      /\ OwnPath(j, "sound.mp3") \in PathsOf(j)
  BY OwnPathIsOwn DEF Extensions
<1>c. /\ disk[made[j]] \in OwnContents(j) /\ disk[local[j]] \in OwnContents(j)
      /\ j \in OwnContents(j) /\ Partial \in OwnContents(j)
  BY <1>0, OwnContent DEF OwnContents
<1>d. ChangedBy(j, disk)
  BY DEF ChangedBy, OwnInv, FilesTypeOK, Contents
<1>w. \A path \in PathsOf(j) : ChangedBy(j, [disk EXCEPT ![path] = j])
  BY <1>c, <1>d, OwnWrite
<1>1. CASE Download(j)
  <2>1. ChangedBy(j, [disk EXCEPT ![OwnPath(j, "mp4")] = j,
                                  ![OwnPath(j, "f1.mp4")] = Partial])
    BY <1>p, <1>c, <1>w, OwnWrite
  <2>2. ChangedBy(j, [disk EXCEPT ![OwnPath(j, "f1.mp4")] = Partial])
    BY <1>p, <1>c, <1>d, OwnWrite
  <2>3. ChangedBy(j, disk')
    BY <1>1, <1>p, <1>d, <1>w, <2>1, <2>2 DEF Download
  <2> QED BY <1>0, <1>p, <1>1, <2>3 DEF Download, HandedOn
<1>2. CASE Image(j)
  <2>1. ChangedBy(j, [disk EXCEPT ![OwnPath(j, "jpg")] = j,
                                  ![OwnPath(j, "sound.mp3")] = j])
    BY <1>p, <1>c, <1>w, OwnWrite
  <2>2. ChangedBy(j, [disk EXCEPT ![OwnPath(j, "jpg")] = j,
                                  ![OwnPath(j, "sound.mp3")] = j,
                                  ![OwnPath(j, "img2vid.mp4")] = j])
    BY <1>p, <1>c, <2>1, OwnWrite
  <2>3. ChangedBy(j, disk')
    BY <1>2, <1>p, <1>d, <1>w, <2>2 DEF Image
  <2> QED BY <1>0, <1>p, <1>2, <2>3 DEF Image, HandedOn
<1>3. CASE Return(j)
  <2>1. {OwnPath(j, "jpg"), OwnPath(j, "sound.mp3")} \in SUBSET PathsOf(j)
    BY <1>p
  <2>2. ChangedBy(j, disk')
    BY <1>3, <1>d, <2>1, OwnRemoval DEF Return
  <2> QED BY <1>0, <1>3, <2>2 DEF Return
<1>4. CASE Convert(j)
  <2> DEFINE song == OwnPath(j, "mp3")
             converted == [disk EXCEPT ![song] = disk[made[j]]]
             begun == [disk EXCEPT ![song] = Partial]
  <2>1. /\ {made[j]} \in SUBSET PathsOf(j)
        /\ {made[j], song} \in SUBSET PathsOf(j)
    BY <1>0, <1>p
  <2>2. ChangedBy(j, converted) /\ ChangedBy(j, begun)
    BY <1>p, <1>c, <1>d, OwnWrite
  <2>3. /\ ChangedBy(j, Without(converted, {made[j]}))
        /\ ChangedBy(j, Without(begun, {made[j]}))
        /\ ChangedBy(j, Without(disk, {made[j], song}))
        /\ ChangedBy(j, Without(disk, {made[j]}))
    BY <1>d, <2>1, <2>2, OwnRemoval
  <2>4. ChangedBy(j, disk')
    BY <1>4, <1>d, <2>3 DEF Convert
  <2>5. /\ made' = made \/ made' = [made EXCEPT ![j] = song]
        /\ UNCHANGED <<local, fileId>>
    BY <1>4 DEF Convert, HandedOn, Retried
  <2> QED BY <1>0, <1>p, <2>4, <2>5
<1>5. CASE Rename(j)
  <2>1. CASE local' = [local EXCEPT ![j] = made[j]] /\ UNCHANGED disk
    BY <1>0, <1>d, <1>5, <2>1 DEF Rename
  <2>2. CASE /\ HasTitle(j)
             /\ local' = [local EXCEPT ![j] = TitlePath(j)]
             /\ disk' = [Without(disk, {made[j]}) EXCEPT ![TitlePath(j)] = disk[made[j]]]
    <3>1. TitlePath(j) \in PathsOf(j)
      BY <2>2, OwnPathIsOwn
    <3>2. ChangedBy(j, Without(disk, {made[j]}))
      BY <1>0, <1>d, OwnRemoval
    <3>3. ChangedBy(j, disk')
      BY <1>c, <2>2, <3>1, <3>2, OwnWrite
    <3> QED BY <1>0, <1>5, <2>2, <3>1, <3>3 DEF Rename
  <2> QED BY <1>5, <2>1, <2>2 DEF Rename
<1>6. CASE Upload(j)
  <2>1. ChangedBy(j, Without(disk, {local[j]}))
    BY <1>0, <1>d, OwnRemoval
  <2>2. ChangedBy(j, disk')
    BY <1>6, <1>d, <2>1 DEF Upload
  <2>3. /\ UNCHANGED <<made, local>>
        /\ fileId' = fileId \/ fileId' = [fileId EXCEPT ![j] = disk[local[j]]]
    BY <1>6 DEF Upload, Retried
  <2> QED BY <1>0, <1>c, <2>2, <2>3
<1>7. CASE Remove(j)
  <2>1. ChangedBy(j, Without(disk, {local[j]}))
    BY <1>0, <1>d, OwnRemoval
  <2> QED BY <1>0, <1>7, <2>1 DEF Remove
<1> QED BY <1>1, <1>2, <1>3, <1>4, <1>5, <1>6, <1>7 DEF StepOf

\* Every step keeps what is whose.
LEMMA OwnInvStep ==
  ASSUME DistinctTitles, OwnInv, [Next]_vars
  PROVE  OwnInv'
<1>1. FilesTypeOK'
  BY FilesTypeStep DEF OwnInv
<1>2. ASSUME NEW j \in Jobs, StepOf(j) PROVE OwnInv'
  <2>1. CachedIsOwn'
    BY <1>2, OwnStep DEF OwnInv, CachedIsOwn, OwnContents
  <2>2. \A i \in Jobs : made'[i] \in PathsOf(i) /\ local'[i] \in PathsOf(i)
    BY <1>2, OwnStep DEF OwnInv
  <2>3. ASSUME NEW i \in Jobs, NEW p \in Paths, disk'[p] = i PROVE p \in PathsOf(i)
    BY <1>2, <2>3, OwnStep, NamesAssumption DEF OwnInv, OwnContents, ChangedBy
  <2>4. \A i \in Jobs : pc'[i] = "image" \/ OfPhoto(i)' => May("image")
    BY <1>2, PhotoStep
  <2> QED BY <1>1, <2>1, <2>2, <2>3, <2>4 DEF OwnInv, PathsOf, NamesOf, May
<1>3. ASSUME NEW q \in Paths, Clean(q) PROVE OwnInv'
  <2>1. \A p \in Paths : disk'[p] = disk[p] \/ disk'[p] = NoFile
    BY <1>3, WithoutType DEF Clean, OwnInv, FilesTypeOK, Contents
  <2>2. UNCHANGED <<pc, made, local, fileId>>
    BY <1>3 DEF Clean
  <2>3. \A j \in Jobs, p \in Paths : disk'[p] = j => disk[p] = j
    BY <2>1, NamesAssumption
  <2>4. \A j \in Jobs : OfPhoto(j)' = OfPhoto(j)
    BY <2>2 DEF OfPhoto
  <2>5. /\ CachedIsOwn'
        /\ \A j \in Jobs : pc'[j] = "image" \/ OfPhoto(j)' => May("image")
    BY <2>2, <2>4 DEF OwnInv, CachedIsOwn
  <2>6. \A j \in Jobs : PathsOf(j)' = PathsOf(j)
    BY DEF PathsOf, NamesOf, May
  <2> QED BY <1>1, <2>2, <2>3, <2>5, <2>6 DEF OwnInv, May
<1>4. CASE UNCHANGED vars
  BY <1>1, <1>4 DEF vars, OwnInv, CachedIsOwn, PathsOf, NamesOf, May, OfPhoto
<1> QED BY <1>2, <1>3, <1>4 DEF Next, StepOf

\* In the initial state no job has files.
LEMMA OwnInvInit == Init => OwnInv
<1> SUFFICES ASSUME Init PROVE OwnInv
  OBVIOUS
<1>1. \A j \in Jobs : OwnPath(j, "mp4") \in PathsOf(j)
  BY OwnPathIsOwn DEF Extensions
<1>2. \A j \in Jobs : ~OfPhoto(j)
  BY DEF Init, OfPhoto, OwnPath
<1> QED BY <1>1, <1>2, FilesTypeInit, NamesAssumption DEF Init, OwnInv, CachedIsOwn

\* If no two posts of one chat have the same title (or both none, if photo posts
\* are among them, which get a title in any case), the file id cached for a
\* key is of that key's media, however tasks, removals, retries and the cleaner
\* interleave and whatever fails.
THEOREM CachedIsOwnHolds ==
  ASSUME DistinctTitles
  PROVE  Spec => []CachedIsOwn
<1>1. OwnInv /\ [Next]_vars => OwnInv'
  BY OwnInvStep
<1>2. OwnInv => CachedIsOwn
  BY DEF OwnInv
<1> QED BY OwnInvInit, <1>1, <1>2, PTL DEF Spec

\* A step of another job touches neither the variables of a job nor the files
\* at its paths, and makes no copies of its media.
LEMMA OthersStep ==
  ASSUME DistinctTitles, OwnInv, NEW i \in Jobs, StepOf(i), NEW j \in Jobs, i # j
  PROVE  /\ pc'[j] = pc[j] /\ tries'[j] = tries[j]
         /\ made'[j] = made[j] /\ local'[j] = local[j] /\ fileId'[j] = fileId[j]
         /\ j \in returning' <=> j \in returning
         /\ \A p \in PathsOf(j) : disk'[p] = disk[p]
         /\ \A p \in Paths : disk'[p] = j => disk[p] = j
<1>1. /\ ChangedBy(i, disk')
      /\ made'[j] = made[j] /\ local'[j] = local[j] /\ fileId'[j] = fileId[j]
  BY OwnStep
<1>2. /\ pc \in [Jobs -> {"download", "image", "convert", "send", "upload", "remove",
                          "done", "failed", "archived"}]
      /\ tries \in [Jobs -> 0..JobAttempts]
  BY DEF OwnInv, FilesTypeOK
<1>3. pc'[j] = pc[j] /\ tries'[j] = tries[j]
  BY <1>2 DEF StepOf, Download, Image, Return, Convert, Rename, Upload, Remove,
              HandedOn, Retried, Goto
<1>4. j \in returning' <=> j \in returning
  BY DEF StepOf, Download, Image, Return, Convert, Rename, Upload, Remove
<1>5. \A p \in PathsOf(j) : p \in Paths /\ p \notin PathsOf(i)
  BY PathsApart DEF PathsOf
<1>6. j \notin OwnContents(i)
  BY NamesAssumption DEF OwnContents
<1> QED BY <1>1, <1>3, <1>4, <1>5, <1>6 DEF ChangedBy

-----------------------------------------------------------------------------
(* The first run of a send task finds its file.  Behind that: the file is  *)
(* there when the task is put on its queue, and of the files in use the    *)
(* deferred removals of the photo flow touch the picture only.             *)

ThereOf(j) ==
  /\ made[j].ext # "sound.mp3"
  /\ pc[j] = "convert" => made[j].ext \in {"mp4", "f1.mp4"}
  /\ pc[j] = "upload" => local[j] \in {made[j], TitlePath(j)}
  /\ pc[j] = "send" /\ tries[j] = 0 /\ made[j].ext # "jpg" => Present(made[j])
  /\ pc[j] = "upload" /\ tries[j] = 0 /\ made[j].ext # "jpg" => Present(local[j])

ThereInv == OwnInv /\ \A j \in Jobs : ThereOf(j)

\* A job's own step keeps its file where its next task looks for it.
LEMMA ThereOwnStep ==
  ASSUME DistinctTitles, ThereInv, NEW j \in Jobs, StepOf(j)
  PROVE  ThereOf(j)'
<1>0. /\ pc \in [Jobs -> {"download", "image", "convert", "send", "upload", "remove",
                          "done", "failed", "archived"}]
      /\ tries \in [Jobs -> 0..JobAttempts]
      /\ made \in [Jobs -> Paths]
      /\ local \in [Jobs -> Paths]
      /\ disk \in [Paths -> Contents]
      /\ made[j] \in Paths /\ local[j] \in Paths
      /\ tries[j] \in Nat /\ tries[j] + 1 # 0
  BY SettingsAssumption DEF ThereInv, OwnInv, FilesTypeOK, Contents
<1>t. ThereOf(j)
  BY DEF ThereInv
<1>p. \A ext \in Extensions : OwnPath(j, ext) \in Paths /\ OwnPath(j, ext).ext = ext
  BY OwnPathType DEF OwnPath
<1>n. j # NoFile /\ Partial # NoFile
  BY NamesAssumption
<1>1. CASE Download(j)
  <2>1. ~(pc'[j] \in {"convert", "send"}) => pc'[j] # "upload" /\ made' = made
    BY <1>0, <1>1 DEF Download, HandedOn, Goto
  <2>2. pc'[j] \in {"convert", "send"} =>
          /\ made'[j].ext \in {"mp4", "f1.mp4"}
          /\ disk'[made'[j]] # NoFile
    BY <1>0, <1>1, <1>p, <1>n DEF Download, HandedOn, Goto, Extensions
  <2> QED BY <1>t, <2>1, <2>2 DEF ThereOf, Present
<1>2. CASE Image(j)
  <2>1. pc'[j] # "send" => pc'[j] = "failed" /\ made' = made
    BY <1>0, <1>2 DEF Image, HandedOn, Goto
  <2>2. pc'[j] = "send" =>
          \/ made'[j].ext = "jpg"
          \/ made'[j].ext = "img2vid.mp4" /\ disk'[made'[j]] # NoFile
    BY <1>0, <1>2, <1>p, <1>n DEF Image, HandedOn, Goto, Extensions
  <2>3. pc'[j] \in {"send", "failed"}
    BY <1>0, <1>2 DEF Image, HandedOn, Goto
  <2> QED BY <1>t, <2>1, <2>2, <2>3 DEF ThereOf, Present
<1>3. CASE Return(j)
  <2>1. \A p \in Paths : p.ext \notin {"jpg", "sound.mp3"} => disk'[p] = disk[p]
    BY <1>0, <1>3, <1>p, WithoutType DEF Return, Extensions
  <2>2. made[j].ext # "jpg" => TitlePath(j).ext \in {"mp3", "mp4"}
    BY DEF TitlePath
  <2>3. /\ UNCHANGED <<pc, made, local, tries>>
        /\ TitlePath(j)' = TitlePath(j)
    BY <1>3 DEF Return, TitlePath, OfPhoto
  <2> QED BY <1>0, <1>t, <2>1, <2>2, <2>3 DEF ThereOf, Present
<1>4. CASE Convert(j)
  <2> DEFINE song == OwnPath(j, "mp3")
             converted == [disk EXCEPT ![song] = disk[made[j]]]
  <2>1. made[j].ext \in {"mp4", "f1.mp4"} /\ song \in Paths /\ song.ext = "mp3"
    BY <1>4, <1>t, <1>p DEF Convert, ThereOf, Extensions
  <2>2. CASE HandedOn(j, "send", song)
    <3>1. disk' = Without(converted, {made[j]}) /\ Present(made[j])
      BY <1>0, <1>4, <2>2 DEF Convert, HandedOn, Retried, Goto
    <3>2. converted \in [Paths -> Contents] /\ converted[song] = disk[made[j]]
      BY <1>0, <2>1
    <3>n. song \notin {made[j]}
      BY <2>1
    <3> HIDE DEF song, converted
    <3>3. disk'[song] = disk[made[j]]
      BY <2>1, <3>1, <3>2, <3>n, WithoutType
    <3> QED BY <1>0, <2>1, <2>2, <3>1, <3>3 DEF HandedOn, Goto, ThereOf, Present
  <2>3. CASE /\ made' = made
             /\ \/ pc'[j] \in {"failed", "archived"}
                \/ pc'[j] = "convert"
    BY <1>t, <2>1, <2>3 DEF ThereOf
  <2> QED BY <1>0, <1>4, <2>2, <2>3 DEF Convert, Retried, Goto
<1>5. CASE Rename(j)
  <2>1. pc'[j] = "upload" /\ pc[j] = "send" /\ UNCHANGED <<made, tries>>
    BY <1>0, <1>5 DEF Rename, Goto
  <2>2. TitlePath(j)' = TitlePath(j) /\ TitlePath(j) \in Paths
    BY <1>0, <2>1, TitlePathType DEF TitlePath, OfPhoto
  <2>3. Without(disk, {made[j]}) \in [Paths -> Contents]
    BY <1>0, WithoutType
  <2>4. \/ local'[j] = TitlePath(j) /\ Present(made[j]) /\ disk'[TitlePath(j)] = disk[made[j]]
        \/ local'[j] = made[j] /\ disk' = disk
    BY <1>0, <1>5, <2>2, <2>3 DEF Rename
  <2> QED BY <1>t, <2>1, <2>2, <2>4 DEF ThereOf, Present
<1>6. CASE Upload(j)
  <2>1. /\ made' = made
        /\ \/ pc'[j] \in {"remove", "failed", "archived"}
           \/ pc'[j] = "send" /\ tries'[j] = tries[j] + 1
    BY <1>0, <1>6 DEF Upload, Retried, Goto
  <2> QED BY <1>0, <1>t, <2>1 DEF ThereOf
<1>7. CASE Remove(j)
  <2>1. made' = made /\ pc'[j] = "done"
    BY <1>0, <1>7 DEF Remove, Goto
  <2> QED BY <1>t, <2>1 DEF ThereOf
<1> QED BY <1>1, <1>2, <1>3, <1>4, <1>5, <1>6, <1>7 DEF StepOf

\* Nor does a step of another job, or the cleaner, take it away.
LEMMA ThereInvStep ==
  ASSUME DistinctTitles, ~May("slow"), ThereInv, [Next]_vars
  PROVE  ThereInv'
<1>1. OwnInv'
  BY OwnInvStep DEF ThereInv
<1>2. ASSUME NEW i \in Jobs, StepOf(i), NEW j \in Jobs PROVE ThereOf(j)'
  <2>1. CASE i = j
    BY <1>2, <2>1, ThereOwnStep
  <2>2. CASE i # j
    <3>1. /\ pc'[j] = pc[j] /\ tries'[j] = tries[j]
          /\ made'[j] = made[j] /\ local'[j] = local[j]
          /\ \A p \in PathsOf(j) : disk'[p] = disk[p]
      BY <1>2, <2>2, OthersStep DEF ThereInv
    <3>2. made[j] \in PathsOf(j) /\ local[j] \in PathsOf(j) /\ ThereOf(j)
      BY DEF ThereInv, OwnInv
    <3>3. TitlePath(j)' = TitlePath(j)
      BY <3>1 DEF TitlePath, OfPhoto
    <3> QED BY <3>1, <3>2, <3>3 DEF ThereOf, Present
  <2> QED BY <2>1, <2>2
<1>3. ASSUME NEW q \in Paths, Clean(q), NEW j \in Jobs PROVE ThereOf(j)'
  <2>1. UNCHANGED <<pc, made, local, tries>> /\ ~InUse(q)
    BY <1>3 DEF Clean
  <2>2. /\ pc[j] = "send" => made[j] # q
        /\ pc[j] = "upload" => local[j] # q
    BY <2>1 DEF InUse
  <2>3. \A p \in Paths : p # q => disk'[p] = disk[p]
    BY <1>3, WithoutType DEF Clean, ThereInv, OwnInv, FilesTypeOK, Contents
  <2>4. made[j] \in Paths /\ local[j] \in Paths /\ ThereOf(j)
    BY DEF ThereInv, OwnInv, FilesTypeOK
  <2>5. TitlePath(j)' = TitlePath(j)
    BY <2>1 DEF TitlePath, OfPhoto
  <2> QED BY <2>1, <2>2, <2>3, <2>4, <2>5 DEF ThereOf, Present
<1>4. CASE UNCHANGED vars
  BY <1>4 DEF vars, ThereInv, OwnInv, FilesTypeOK, CachedIsOwn, PathsOf, NamesOf, May,
              OfPhoto, ThereOf, TitlePath, Present
<1> QED BY <1>1, <1>2, <1>3, <1>4 DEF Next, StepOf, ThereInv

\* If titles are distinct and the cleaner removes no file in use, the first run of
\* a send task finds its file, however tasks interleave and whatever else fails.
THEOREM FileIsThereHolds ==
  ASSUME DistinctTitles, ~May("slow")
  PROVE  Spec => []FileIsThere
<1>1. Init => ThereInv
  BY OwnInvInit DEF Init, ThereInv, ThereOf, OwnPath
<1>2. ThereInv /\ [Next]_vars => ThereInv'
  BY ThereInvStep
<1>3. ThereInv => FileIsThere
  BY DEF ThereInv, ThereOf, FileIsThere
<1> QED BY <1>1, <1>2, <1>3, PTL DEF Spec

-----------------------------------------------------------------------------
(* A job that has delivered its media leaves no copy behind.  Behind that: *)
(* from the first task to the removal the job's media are at one path, the *)
(* one that the current task works on, besides the picture and the sound   *)
(* that the download task of a photo post has still to remove.             *)

Spare(j) ==
  {p \in {OwnPath(j, "jpg"), OwnPath(j, "sound.mp3")} : j \in returning}

OnlyAt(j, path) ==
  \A p \in Paths : disk[p] = j => p = path \/ p \in Spare(j)

SingleOf(j) ==
  /\ pc[j] \in {"download", "image"} => \A p \in Paths : disk[p] # j
  /\ pc[j] \in {"convert", "send"} /\ disk[made[j]] = j => OnlyAt(j, made[j])
  /\ pc[j] = "upload" =>
       /\ local[j] = made[j] \/ disk[made[j]] = NoFile
       /\ disk[local[j]] = j => OnlyAt(j, local[j])
  /\ pc[j] = "remove" /\ fileId[j] = j => OnlyAt(j, local[j])
  /\ pc[j] = "done" /\ fileId[j] = j => \A p \in Paths : disk[p] = j => p \in Spare(j)
  /\ fileId[j] = j => pc[j] \in {"remove", "done"}

SingleInv == OwnInv /\ \A j \in Jobs : SingleOf(j)

\* Removing files keeps the rest in one place.
LEMMA FewerFiles ==
  ASSUME FilesTypeOK, NEW j \in Jobs, SingleOf(j),
         UNCHANGED <<pc, made, local, fileId>>,
         disk' \in [Paths -> Contents],
         \A p \in Paths : disk'[p] \in {disk[p], NoFile},
         \A p \in Paths : disk'[p] = j /\ p \in Spare(j) => p \in Spare(j)'
  PROVE  SingleOf(j)'
<1>1. made[j] \in Paths /\ local[j] \in Paths /\ j # NoFile
  BY NamesAssumption DEF FilesTypeOK
<1>2. \A p \in Paths : disk'[p] = j => disk[p] = j
  BY <1>1
<1>3. \A path \in Paths : OnlyAt(j, path) => OnlyAt(j, path)'
  BY <1>2 DEF OnlyAt
<1> QED BY <1>1, <1>2, <1>3 DEF SingleOf

\* A job's own step moves its media, or makes the first copy.
LEMMA SingleOwnStep ==
  ASSUME DistinctTitles, SingleInv, NEW j \in Jobs, StepOf(j)
  PROVE  SingleOf(j)'
<1>0. /\ pc \in [Jobs -> {"download", "image", "convert", "send", "upload", "remove",
                          "done", "failed", "archived"}]
      /\ made \in [Jobs -> Paths]
      /\ local \in [Jobs -> Paths]
      /\ fileId \in [Jobs -> Contents]
      /\ disk \in [Paths -> Contents]
      /\ made[j] \in Paths /\ local[j] \in Paths
  BY DEF SingleInv, OwnInv, FilesTypeOK, Contents
<1>s. SingleOf(j)
  BY DEF SingleInv
<1>p. \A ext \in Extensions : OwnPath(j, ext) \in Paths /\ OwnPath(j, ext).ext = ext
  BY OwnPathType DEF OwnPath
<1>n. j # NoFile /\ Partial # NoFile /\ Partial # j
  BY NamesAssumption
<1>d. disk' \in [Paths -> Contents]
  BY DiskType DEF SingleInv, OwnInv
<1>1. CASE Download(j)
  <2> DEFINE file == OwnPath(j, "mp4")
             piece == OwnPath(j, "f1.mp4")
  <2>1. \A p \in Paths : disk[p] # j
    BY <1>1, <1>s DEF Download, SingleOf
  <2>2. file \in Paths /\ piece \in Paths /\ file # piece
    BY <1>p DEF Extensions
  <2>3. fileId' = fileId /\ fileId[j] # j
    BY <1>1, <1>s DEF Download, SingleOf
  <2>4. CASE pc'[j] \in {"convert", "send"}
    <3>1. \/ made'[j] = file /\ disk' = [disk EXCEPT ![file] = j]
          \/ made'[j] = piece /\ disk' = [disk EXCEPT ![file] = j, ![piece] = Partial]
      BY <1>0, <1>1, <2>4 DEF Download, HandedOn, Goto
    <3>2. disk'[made'[j]] = j => \A p \in Paths : disk'[p] = j => p = made'[j]
      BY <1>0, <1>n, <2>1, <2>2, <3>1
    <3> QED BY <2>3, <2>4, <3>2 DEF SingleOf, OnlyAt
  <2>5. CASE pc'[j] = "image" /\ disk' = disk
    BY <2>1, <2>3, <2>5 DEF SingleOf
  <2>6. CASE pc'[j] \in {"failed", "archived"}
    BY <2>3, <2>6 DEF SingleOf
  <2> QED BY <1>0, <1>1, <2>4, <2>5, <2>6 DEF Download, HandedOn, Goto
<1>2. CASE Image(j)
  <2> DEFINE picture == OwnPath(j, "jpg")
             sound == OwnPath(j, "sound.mp3")
             video == OwnPath(j, "img2vid.mp4")
  <2>1. \A p \in Paths : disk[p] # j
    BY <1>2, <1>s DEF Image, SingleOf
  <2>2. picture \in Paths /\ sound \in Paths /\ video \in Paths
    BY <1>p DEF Extensions
  <2>3. fileId' = fileId /\ fileId[j] # j
    BY <1>2, <1>s DEF Image, SingleOf
  <2>4. CASE pc'[j] = "send"
    <3>1. /\ j \in returning'
          /\ \/ made'[j] = picture /\ disk' = [disk EXCEPT ![picture] = j]
             \/ /\ made'[j] = video
                /\ disk' = [disk EXCEPT ![picture] = j, ![sound] = j, ![video] = j]
      BY <1>0, <1>2, <2>4 DEF Image, HandedOn, Goto
    <3>2. \A p \in Paths : disk'[p] = j => p \in {made'[j], picture, sound}
      BY <1>0, <2>1, <2>2, <3>1
    <3>3. OwnPath(j, "jpg")' = picture /\ OwnPath(j, "sound.mp3")' = sound
      BY DEF OwnPath
    <3>4. OnlyAt(j, made[j])'
      BY <3>1, <3>2, <3>3 DEF OnlyAt, Spare
    <3> QED BY <2>3, <2>4, <3>4 DEF SingleOf
  <2>5. CASE pc'[j] = "failed"
    BY <2>3, <2>5 DEF SingleOf
  <2> QED BY <1>0, <1>2, <2>4, <2>5 DEF Image, HandedOn, Goto
<1>3. CASE Return(j)
  <2>1. \A p \in Paths : disk'[p] = IF p \in {OwnPath(j, "jpg"), OwnPath(j, "sound.mp3")}
                                      THEN NoFile ELSE disk[p]
    BY <1>0, <1>3, WithoutType DEF Return
  <2>2. \A p \in Paths : ~(disk'[p] = j /\ p \in Spare(j))
    BY <1>n, <2>1 DEF Spare
  <2>3. UNCHANGED <<pc, made, local, fileId>>
    BY <1>3 DEF Return
  <2> QED BY <1>d, <1>s, <2>1, <2>2, <2>3, FewerFiles DEF SingleInv, OwnInv
<1>4. CASE Convert(j)
  <2> DEFINE song == OwnPath(j, "mp3")
             converted == [disk EXCEPT ![song] = disk[made[j]]]
             begun == [disk EXCEPT ![song] = Partial]
  <2>0. pc[j] = "convert" /\ UNCHANGED <<local, returning, fileId>> /\ fileId[j] # j
    BY <1>4, <1>s DEF Convert, SingleOf
  <2>s. song \in Paths /\ Spare(j)' = Spare(j)
    BY <1>p, <2>0 DEF Extensions, Spare, OwnPath
  <2>1. disk[made[j]] = j => OnlyAt(j, made[j])
    BY <1>s, <2>0 DEF SingleOf
  <2>2. CASE pc'[j] = "send"
    <3>1. disk' = Without(converted, {made[j]}) /\ made'[j] = song
      BY <1>0, <1>4, <2>2 DEF Convert, HandedOn, Retried, Goto
    <3>2. /\ converted \in [Paths -> Contents]
          /\ \A p \in Paths : converted[p] = IF p = song THEN disk[made[j]] ELSE disk[p]
      BY <1>0, <2>s
    <3> HIDE DEF song, converted
    <3>3. \A p \in Paths : disk'[p] = IF p = made[j] THEN NoFile
                                       ELSE IF p = song THEN disk[made[j]] ELSE disk[p]
      BY <3>1, <3>2, WithoutType
    <3>4. disk'[song] = j => disk[made[j]] = j
      BY <1>n, <2>s, <3>3
    <3>5. disk'[song] = j => \A p \in Paths : disk'[p] = j => p = song \/ p \in Spare(j)'
      BY <1>n, <2>1, <2>s, <3>3, <3>4 DEF OnlyAt
    <3> QED BY <2>0, <2>2, <3>1, <3>5 DEF SingleOf, OnlyAt
  <2>3. CASE pc'[j] \in {"failed", "archived"}
    BY <2>0, <2>3 DEF SingleOf
  <2>4. CASE pc'[j] = "convert"
    <3>1. made' = made
      BY <1>0, <1>4, <2>4 DEF Convert, HandedOn, Retried, Goto
    <3>2. \/ disk' = Without(converted, {made[j]})
          \/ disk' = Without(begun, {made[j]})
          \/ disk' = Without(disk, {made[j]})
          \/ disk' = disk /\ ~Present(made[j])
      BY <1>0, <1>4, <2>4 DEF Convert, HandedOn, Retried, Goto
    <3>3. converted \in [Paths -> Contents] /\ begun \in [Paths -> Contents]
      BY <1>0, <2>s DEF Contents
    <3> HIDE DEF converted, begun
    <3>4. disk'[made[j]] = NoFile
      BY <1>0, <3>2, <3>3, WithoutType DEF Present
    <3> QED BY <1>n, <2>0, <2>4, <3>1, <3>4 DEF SingleOf
  <2> QED BY <1>0, <1>4, <2>2, <2>3, <2>4 DEF Convert, HandedOn, Retried, Goto
<1>5. CASE Rename(j)
  <2>0. /\ pc[j] = "send" /\ pc'[j] = "upload"
        /\ UNCHANGED <<made, returning, fileId>> /\ fileId[j] # j
    BY <1>0, <1>5, <1>s DEF Rename, Goto, SingleOf
  <2>1. disk[made[j]] = j => OnlyAt(j, made[j])
    BY <1>s, <2>0 DEF SingleOf
  <2>s. Spare(j)' = Spare(j)
    BY <2>0 DEF Spare, OwnPath
  <2>2. CASE local'[j] = made[j] /\ disk' = disk
    BY <2>0, <2>1, <2>2, <2>s DEF SingleOf, OnlyAt
  <2>3. CASE /\ local'[j] = TitlePath(j)
             /\ disk' = [Without(disk, {made[j]}) EXCEPT ![TitlePath(j)] = disk[made[j]]]
    <3>1. TitlePath(j) \in Paths
      BY <1>0, TitlePathType
    <3>2. \A p \in Paths : disk'[p] = IF p = TitlePath(j) THEN disk[made[j]]
                                       ELSE IF p = made[j] THEN NoFile ELSE disk[p]
      BY <1>0, <2>3, <3>1, WithoutType
    <3>3. local'[j] = made[j] \/ disk'[made[j]] = NoFile
      BY <1>0, <2>3, <3>2
    <3>4. disk'[local'[j]] = j => OnlyAt(j, local[j])'
      BY <1>n, <2>1, <2>3, <2>s, <3>1, <3>2 DEF OnlyAt
    <3> QED BY <2>0, <3>3, <3>4 DEF SingleOf
  <2> QED BY <1>0, <1>5, <2>2, <2>3 DEF Rename
<1>6. CASE Upload(j)
  <2>0. /\ pc[j] = "upload" /\ UNCHANGED <<made, local, returning>> /\ fileId[j] # j
        /\ local[j] = made[j] \/ disk[made[j]] = NoFile
        /\ disk[local[j]] = j => OnlyAt(j, local[j])
    BY <1>6, <1>s DEF Upload, SingleOf, Retried
  <2>s. Spare(j)' = Spare(j)
    BY <2>0 DEF Spare, OwnPath
  <2>1. CASE pc'[j] = "remove"
    <3>1. fileId'[j] = disk[local[j]] /\ disk' = disk
      BY <1>0, <1>6, <2>1 DEF Upload, Retried, Goto
    <3> QED BY <2>0, <2>1, <2>s, <3>1 DEF SingleOf, OnlyAt
  <2>2. CASE pc'[j] = "send"
    <3>1. fileId' = fileId /\ disk' = disk
      BY <1>0, <1>6, <2>2 DEF Upload, Retried, Goto
    <3> QED BY <1>n, <2>0, <2>2, <2>s, <3>1 DEF SingleOf, OnlyAt
  <2>3. CASE pc'[j] \in {"failed", "archived"}
    <3>1. fileId' = fileId
      BY <1>0, <1>6, <2>3 DEF Upload, Retried, Goto
    <3> QED BY <2>0, <2>3, <3>1 DEF SingleOf
  <2> QED BY <1>0, <1>6, <2>1, <2>2, <2>3 DEF Upload, Retried, Goto
<1>7. CASE Remove(j)
  <2>0. /\ pc[j] = "remove" /\ pc'[j] = "done" /\ UNCHANGED <<returning, fileId>>
        /\ fileId[j] = j => OnlyAt(j, local[j])
    BY <1>0, <1>7, <1>s DEF Remove, Goto, SingleOf
  <2>1. \A p \in Paths : disk'[p] = IF p = local[j] THEN NoFile ELSE disk[p]
    BY <1>0, <1>7, WithoutType DEF Remove
  <2>s. Spare(j)' = Spare(j)
    BY <2>0 DEF Spare, OwnPath
  <2> QED BY <1>n, <2>0, <2>1, <2>s DEF SingleOf, OnlyAt
<1> QED BY <1>1, <1>2, <1>3, <1>4, <1>5, <1>6, <1>7 DEF StepOf

\* Steps of other jobs and the cleaner make no copies.
LEMMA SingleInvStep ==
  ASSUME DistinctTitles, SingleInv, [Next]_vars
  PROVE  SingleInv'
<1>1. OwnInv'
  BY OwnInvStep DEF SingleInv
<1>2. ASSUME NEW i \in Jobs, StepOf(i), NEW j \in Jobs PROVE SingleOf(j)'
  <2>1. CASE i = j
    BY <1>2, <2>1, SingleOwnStep
  <2>2. CASE i # j
    <3>1. /\ pc'[j] = pc[j] /\ fileId'[j] = fileId[j]
          /\ made'[j] = made[j] /\ local'[j] = local[j]
          /\ j \in returning' <=> j \in returning
          /\ \A p \in PathsOf(j) : disk'[p] = disk[p]
          /\ \A p \in Paths : disk'[p] = j => disk[p] = j
      BY <1>2, <2>2, OthersStep DEF SingleInv
    <3>2. made[j] \in PathsOf(j) /\ local[j] \in PathsOf(j) /\ SingleOf(j)
      BY DEF SingleInv, OwnInv
    <3>3. Spare(j)' = Spare(j)
      BY <3>1 DEF Spare, OwnPath
    <3>4. \A path \in Paths :
            OnlyAt(j, path) => \A p \in Paths : disk'[p] = j => p = path \/ p \in Spare(j)'
      BY <3>1, <3>3 DEF OnlyAt
    <3> QED BY <3>1, <3>2, <3>3 DEF SingleOf, OnlyAt
  <2> QED BY <2>1, <2>2
<1>3. ASSUME NEW q \in Paths, Clean(q), NEW j \in Jobs PROVE SingleOf(j)'
  <2>1. UNCHANGED <<pc, made, local, fileId, returning>> /\ FilesTypeOK /\ SingleOf(j)
    BY <1>3 DEF Clean, SingleInv, OwnInv
  <2>2. /\ disk' \in [Paths -> Contents]
        /\ \A p \in Paths : disk'[p] \in {disk[p], NoFile}
    BY <1>3, <2>1, WithoutType DEF Clean, FilesTypeOK, Contents
  <2>3. Spare(j)' = Spare(j)
    BY <2>1 DEF Spare, OwnPath
  <2> QED BY <2>1, <2>2, <2>3, FewerFiles
<1>4. CASE UNCHANGED vars
  BY <1>1, <1>4 DEF vars, SingleInv, SingleOf, OnlyAt, Spare, OwnPath
<1> QED BY <1>1, <1>2, <1>3, <1>4 DEF Next, StepOf, SingleInv

\* If titles are distinct, a job that has delivered its media, and whose download
\* task has returned, leaves no copy on the disk, under all conditions.
THEOREM DeliveredLeavesNothingHolds ==
  ASSUME DistinctTitles
  PROVE  Spec => []DeliveredLeavesNothing
<1>1. Init => SingleInv
  <2> SUFFICES ASSUME Init PROVE SingleInv
    OBVIOUS
  <2> QED BY OwnInvInit, NamesAssumption DEF Init, SingleInv, SingleOf
<1>2. SingleInv /\ [Next]_vars => SingleInv'
  BY SingleInvStep
<1>3. SingleInv => DeliveredLeavesNothing
  BY DEF SingleInv, SingleOf, Spare, DeliveredLeavesNothing
<1> QED BY <1>1, <1>2, <1>3, PTL DEF Spec
=============================================================================
