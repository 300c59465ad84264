------------------------------- MODULE Formats -------------------------------
(***************************************************************************)
(* Which format of a post the download worker selects from the list that   *)
(* yt-dlp reports.  A selection that needs no merge is a single file whose *)
(* URL Telegram can fetch by itself (module Upload).                       *)
(***************************************************************************)
EXTENDS Integers, Sequences, SequencesExt

\* An entry of the list: whether it has a picture and a sound (a codec that is
\* neither "" nor "none"), whether it is mp4, its height and its file size, which
\* are 0 when yt-dlp does not know them.
Format == [id : Nat, video : BOOLEAN, audio : BOOLEAN, mp4 : BOOLEAN,
           height : Nat, size : Nat]

NoFormat == [id |-> 0, video |-> FALSE, audio |-> FALSE, mp4 |-> FALSE,
             height |-> 0, size |-> 0]

Qualities == {"AUTO", "ORIGINAL", "P1080", "P720", "P480", "SMALL", "MP3"}

-----------------------------------------------------------------------------
HasVideoFormats(formats) ==
  \E i \in DOMAIN formats : formats[i].video /\ formats[i].height > 0

\* A sound beats another by its size, a video by its height and then its size.
Beats(by, f, best) ==
  \/ by = "height" /\ f.height > best.height
  \/ (by = "height" => f.height = best.height) /\ f.size > best.size

\* A loop over the list: the first suitable format that none after it beats.
Best(formats, suitable, by) ==
  LET best[n \in 0..Len(formats)] ==
        IF n = 0 THEN NoFormat
        ELSE IF /\ formats[n] \in suitable
                /\ best[n - 1] = NoFormat \/ Beats(by, formats[n], best[n - 1])
               THEN formats[n]
               ELSE best[n - 1]
  IN best[Len(formats)]

FindBestAudio(formats) ==
  LET only == Best(formats, {f \in Range(formats) : f.audio /\ ~f.video}, "size") IN
  IF only # NoFormat THEN only
  ELSE Best(formats, {f \in Range(formats) : f.audio}, "size")

\* targetHeight of the qualities that have one.
Cap == [P1080 |-> 1080, P720 |-> 720, P480 |-> 480]

-----------------------------------------------------------------------------
\* What is selected: a video with its own sound, or a video and a sound to be
\* merged, or neither, which stands for the configured format expression.
Selected(video, audio) == [video |-> video, audio |-> audio]

DefaultFormat == Selected(NoFormat, NoFormat)

NeedsMerge(selected) == selected.video = NoFormat \/ selected.audio # NoFormat

\* A video with sound of its own stays alone, but only if FindBestAudio found any.
Pair(video, audio) ==
  IF video = NoFormat \/ audio = NoFormat THEN DefaultFormat
  ELSE IF video.audio THEN Selected(video, NoFormat)
  ELSE Selected(video, audio)

BestBelowCap(formats, quality) ==
  LET videos == {f \in Range(formats) :
                   f.video /\ (quality \in DOMAIN Cap => f.height < Cap[quality])}
  IN Pair(Best(formats, videos, "height"), FindBestAudio(formats))

\* ORIGINAL, the capped qualities, and AUTO without a progressive mp4.
BestUpToCap(formats, quality) ==
  LET videos == {f \in Range(formats) :
                   f.video /\ (quality \in DOMAIN Cap => f.height <= Cap[quality])}
  IN Pair(Best(formats, videos, "height"), FindBestAudio(formats))

SelectFormat(formats, quality) ==
  LET progressive ==
        Best(formats, {f \in Range(formats) : f.video /\ f.audio /\ f.mp4}, "height") IN
  CASE quality = "AUTO" /\ progressive # NoFormat -> Selected(progressive, NoFormat)
    [] quality \in {"SMALL", "MP3"} -> DefaultFormat
    [] OTHER -> BestUpToCap(formats, quality)

-----------------------------------------------------------------------------
(* What a selection should be, said without the order in which lists are read. *)

\* Those among fs that no other beats.
Tops(fs, by) == {f \in fs : ~\E g \in fs : Beats(by, g, f)}

\* A selection is one of the best videos that the quality admits, AUTO preferring
\* one that Telegram can play as it is, with one of the largest sounds unless it
\* has its own; and it is the default only if no such pair exists (selectFormat).
SelectionRight(formats, quality) ==
  LET listed == Range(formats)
      playable == {f \in listed : f.video /\ f.audio /\ f.mp4}
      admitted == {f \in listed :
                     f.video /\ (quality \in DOMAIN Cap => f.height <= Cap[quality])}
      sounds == {f \in listed : f.audio}
      alone == {f \in sounds : ~f.video}
      selected == SelectFormat(formats, quality)
  IN CASE quality = "AUTO" /\ playable # {} ->
            selected.video \in Tops(playable, "height") /\ selected.audio = NoFormat
       [] quality \in {"SMALL", "MP3"} \/ admitted = {} \/ sounds = {} ->
            selected = DefaultFormat
       [] OTHER ->
            /\ selected.video \in Tops(admitted, "height")
            /\ IF selected.video.audio
                 THEN selected.audio = NoFormat
                 ELSE selected.audio \in
                        Tops(IF alone # {} THEN alone ELSE sounds, "size")
=============================================================================
