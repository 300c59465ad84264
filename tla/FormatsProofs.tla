---------------------------- MODULE FormatsProofs ----------------------------
(***************************************************************************)
(* Theorems about Formats: what the loops of selectFormat return, for      *)
(* every list of formats.  The induction over the length of the list is by *)
(* a least counterexample.                                                 *)
(***************************************************************************)
EXTENDS Formats, WellFoundedInduction, TLAPS

\* Every nonempty set of numbers has a least one.
LEMMA LeastNumber ==
  ASSUME NEW S, S \subseteq Nat, S # {}
  PROVE  \E n \in S : \A m \in S : n <= m
<1> DEFINE less == OpToRel(<, Nat)
<1>1. IsWellFoundedOn(less, Nat)
  BY NatLessThanWellFounded
<1>2. PICK n \in S : \A m \in S : ~(<<m, n>> \in less)
  <2> HIDE DEF less
  <2> QED BY <1>1, WFMin
<1>3. \A m \in S : ~(m < n)
  BY <1>2 DEF OpToRel
<1> QED BY <1>3

-----------------------------------------------------------------------------
(* One loop over the list.                                                 *)

\* The best of the first n formats, after one more of them was looked at.
Looked(formats, suitable, by, n, best) ==
  IF /\ formats[n] \in suitable
     /\ best = NoFormat \/ Beats(by, formats[n], best)
    THEN formats[n]
    ELSE best

\* The loop in full: the best so far after each of the first n formats.
Loop(formats, suitable, by, n, g) ==
  /\ DOMAIN g = 0..n
  /\ g[0] = NoFormat
  /\ \A m \in 1..n : g[m] = Looked(formats, suitable, by, m, g[m - 1])

\* The loop ends for every list.
LEMMA LoopEnds ==
  ASSUME NEW formats, NEW suitable, NEW by
  PROVE  \A n \in Nat : \E g : Loop(formats, suitable, by, n, g)
<1> DEFINE Endless == {n \in Nat : ~\E g : Loop(formats, suitable, by, n, g)}
<1> SUFFICES ASSUME Endless # {} PROVE FALSE
  OBVIOUS
<1>1. PICK n \in Endless : \A m \in Endless : n <= m
  <2> HIDE DEF Endless
  <2>1. Endless \subseteq Nat
    BY DEF Endless
  <2> QED BY <2>1, LeastNumber
<1>2. n # 0
  <2>1. Loop(formats, suitable, by, 0, [m \in 0..0 |-> NoFormat])
    BY DEF Loop
  <2> QED BY <1>1, <2>1
<1>3. n - 1 \in Nat /\ n - 1 \notin Endless
  BY <1>1, <1>2
<1>4. PICK g : Loop(formats, suitable, by, n - 1, g)
  BY <1>3
<1> DEFINE last == Looked(formats, suitable, by, n, g[n - 1])
           longer == [m \in 0..n |-> IF m = n THEN last ELSE g[m]]
<1>5. Loop(formats, suitable, by, n, longer)
  <2>1. n \in Nat /\ n > 0
    BY <1>1, <1>2
  <2> HIDE DEF last
  <2>2. DOMAIN longer = 0..n /\ longer[0] = NoFormat /\ longer[n] = last
    BY <1>4, <2>1 DEF Loop
  <2>3. \A m \in 0..(n - 1) : longer[m] = g[m]
    BY <2>1
  <2>4. ASSUME NEW m \in 1..n
        PROVE  longer[m] = Looked(formats, suitable, by, m, longer[m - 1])
    <3>1. m - 1 \in 0..(n - 1) /\ longer[m - 1] = g[m - 1]
      BY <2>1, <2>3
    <3>2. CASE m = n
      BY <2>2, <3>1, <3>2 DEF last
    <3>3. CASE m # n
      <4>1. m \in 1..(n - 1) /\ longer[m] = g[m]
        BY <2>1, <2>3, <3>3
      <4> QED BY <1>4, <3>1, <4>1 DEF Loop
    <3> QED BY <3>2, <3>3
  <2> QED BY <2>2, <2>4 DEF Loop
<1> QED BY <1>1, <1>5

\* What Best returns is what such a loop ends with.
LEMMA BestIsLoop ==
  ASSUME NEW formats \in Seq(Format), NEW suitable, NEW by
  PROVE  \E g : /\ Loop(formats, suitable, by, Len(formats), g)
                /\ Best(formats, suitable, by) = g[Len(formats)]
<1> DEFINE length == Len(formats)
           Turned(g) == [n \in 0..length |->
                           IF n = 0 THEN NoFormat
                           ELSE Looked(formats, suitable, by, n, g[n - 1])]
           best == CHOOSE g : g = Turned(g)
<1>1. length \in Nat
  OBVIOUS
<1>2. PICK g : Loop(formats, suitable, by, length, g)
  BY <1>1, LoopEnds
<1>3. \E h : h = Turned(h)
  <2> DEFINE h == [n \in 0..length |-> g[n]]
  <2>1. ASSUME NEW n \in 0..length PROVE h[n] = Turned(h)[n]
    <3>1. CASE n = 0
      BY <1>1, <1>2, <3>1 DEF Loop
    <3>2. CASE n # 0
      <4>1. n \in 1..length /\ n - 1 \in 0..length
        BY <1>1, <3>2
      <4> QED BY <1>1, <1>2, <3>2, <4>1 DEF Loop
    <3> QED BY <3>1, <3>2
  <2> QED BY <2>1
<1>4. best = Turned(best)
  <2> HIDE DEF Turned
  <2> QED BY <1>3
<1>5. Best(formats, suitable, by) = best[length]
  BY DEF Best, Looked
<1>6. Loop(formats, suitable, by, length, best)
  <2> HIDE DEF best
  <2> QED BY <1>1, <1>4 DEF Loop
<1> QED BY <1>5, <1>6

\* No format beats itself, and one that does not beat a format does not beat
\* what beats that format.
LEMMA BeatsIsAnOrder ==
  ASSUME NEW by \in {"size", "height"}, NEW f \in Format
  PROVE  /\ ~Beats(by, f, f)
         /\ \A g, h \in Format : Beats(by, g, f) /\ ~Beats(by, h, f) => ~Beats(by, h, g)
<1>1. CASE by = "size"
  BY <1>1 DEF Beats, Format
<1>2. CASE by = "height"
  BY <1>2 DEF Beats, Format
<1> QED BY <1>1, <1>2

\* A format among the first n is the best of them.
BestOf(formats, suitable, by, n, best) ==
  /\ \E m \in 1..n : best = formats[m]
  /\ best \in suitable
  /\ \A m \in 1..n : formats[m] \in suitable => ~Beats(by, formats[m], best)

NoneOf(formats, suitable, n) == \A m \in 1..n : formats[m] \notin suitable

\* The invariant of the loop.
LoopInv(formats, suitable, by, n, best) ==
  \/ best = NoFormat /\ NoneOf(formats, suitable, n)
  \/ BestOf(formats, suitable, by, n, best)

\* A turn of the loop keeps it.
LEMMA LoopStep ==
  ASSUME NEW formats \in Seq(Format), NEW suitable, NoFormat \notin suitable,
         NEW by \in {"size", "height"}, NEW n \in 1..Len(formats), NEW best,
         LoopInv(formats, suitable, by, n - 1, best)
  PROVE  LoopInv(formats, suitable, by, n, Looked(formats, suitable, by, n, best))
<1> DEFINE f == formats[n]
<1>1. /\ \A m \in 1..n : formats[m] \in Format
      /\ f \in Format
      /\ \A m \in 1..n : m \in 1..(n - 1) \/ m = n
      /\ 1..(n - 1) \subseteq 1..n
      /\ n \in 1..n
  OBVIOUS
<1>2. CASE best = NoFormat /\ NoneOf(formats, suitable, n - 1)
  <2>1. CASE f \in suitable
    <3>1. Looked(formats, suitable, by, n, best) = f
      BY <1>2, <2>1 DEF Looked
    <3>2. BestOf(formats, suitable, by, n, f)
      BY <1>1, <1>2, <2>1, BeatsIsAnOrder DEF BestOf, NoneOf
    <3> QED BY <3>1, <3>2 DEF LoopInv
  <2>2. CASE f \notin suitable
    BY <1>1, <1>2, <2>2 DEF Looked, LoopInv, NoneOf
  <2> QED BY <2>1, <2>2
<1>3. CASE BestOf(formats, suitable, by, n - 1, best)
  <2>1. best # NoFormat /\ best \in Format
    BY <1>1, <1>3 DEF BestOf
  <2>2. CASE f \in suitable /\ Beats(by, f, best)
    <3>1. Looked(formats, suitable, by, n, best) = f
      BY <2>2 DEF Looked
    <3>2. \A m \in 1..(n - 1) : formats[m] \in suitable => ~Beats(by, formats[m], f)
      BY <1>1, <1>3, <2>1, <2>2, BeatsIsAnOrder DEF BestOf
    <3>3. BestOf(formats, suitable, by, n, f)
      BY <1>1, <2>2, <3>2, BeatsIsAnOrder DEF BestOf
    <3> QED BY <3>1, <3>3 DEF LoopInv
  <2>3. CASE ~(f \in suitable /\ Beats(by, f, best))
    <3>1. Looked(formats, suitable, by, n, best) = best
      BY <2>1, <2>3 DEF Looked
    <3>2. BestOf(formats, suitable, by, n, best)
      BY <1>1, <1>3, <2>3 DEF BestOf
    <3> QED BY <3>1, <3>2 DEF LoopInv
  <2> QED BY <2>2, <2>3
<1> QED BY <1>2, <1>3 DEF LoopInv

\* The loop returns nothing only if no listed format is suitable, and else a
\* suitable one that no other suitable one beats.
LEMMA BestIsTop ==
  ASSUME NEW formats \in Seq(Format), NEW by \in {"size", "height"},
         NEW suitable \in SUBSET Range(formats), NoFormat \notin suitable
  PROVE  IF suitable = {} THEN Best(formats, suitable, by) = NoFormat
         ELSE Best(formats, suitable, by) \in Tops(suitable, by)
<1> DEFINE length == Len(formats)
<1>1. length \in Nat /\ DOMAIN formats = 1..length
  OBVIOUS
<1>2. PICK g : /\ Loop(formats, suitable, by, length, g)
               /\ Best(formats, suitable, by) = g[length]
  BY BestIsLoop
<1> DEFINE Bad == {n \in 0..length : ~LoopInv(formats, suitable, by, n, g[n])}
<1>3. Bad = {}
  <2> SUFFICES ASSUME Bad # {} PROVE FALSE
    OBVIOUS
  <2>1. PICK n \in Bad : \A m \in Bad : n <= m
    <3>1. Bad \subseteq Nat
      BY <1>1
    <3> HIDE DEF Bad
    <3> QED BY <3>1, LeastNumber
  <2>2. n # 0
    <3>1. g[0] = NoFormat /\ 1..0 = {}
      BY <1>2 DEF Loop
    <3>2. LoopInv(formats, suitable, by, 0, g[0])
      BY <3>1 DEF LoopInv, NoneOf
    <3> QED BY <2>1, <3>2
  <2>3. n \in 1..length /\ n - 1 \in 0..length /\ n - 1 \notin Bad
    BY <1>1, <2>1, <2>2
  <2>4. LoopInv(formats, suitable, by, n, Looked(formats, suitable, by, n, g[n - 1]))
    BY <2>3, LoopStep
  <2>5. g[n] = Looked(formats, suitable, by, n, g[n - 1])
    BY <1>2, <2>3 DEF Loop
  <2> QED BY <2>1, <2>4, <2>5
<1>4. LoopInv(formats, suitable, by, length, g[length])
  BY <1>1, <1>3
<1>5. \A f \in suitable : \E m \in 1..length : f = formats[m]
  BY <1>1 DEF Range
<1>6. CASE g[length] = NoFormat /\ NoneOf(formats, suitable, length)
  BY <1>2, <1>5, <1>6 DEF NoneOf
<1>7. CASE BestOf(formats, suitable, by, length, g[length])
  BY <1>2, <1>5, <1>7 DEF BestOf, Tops
<1> QED BY <1>4, <1>6, <1>7 DEF LoopInv

-----------------------------------------------------------------------------
(* The selection.                                                          *)

\* The sound is one of the largest, and alone in its file if any is.
LEMMA AudioIsTop ==
  ASSUME NEW formats \in Seq(Format)
  PROVE  LET sounds == {f \in Range(formats) : f.audio}
             alone == {f \in sounds : ~f.video}
             audio == FindBestAudio(formats)
         IN IF sounds = {} THEN audio = NoFormat
            ELSE /\ audio # NoFormat
                 /\ audio \in Tops(IF alone # {} THEN alone ELSE sounds, "size")
<1> DEFINE listed == Range(formats)
           sounds == {f \in listed : f.audio}
           alone == {f \in listed : f.audio /\ ~f.video}
<1>1. ~NoFormat.audio
  BY DEF NoFormat
<1>2. /\ NoFormat \notin sounds /\ NoFormat \notin alone
      /\ sounds \in SUBSET listed /\ alone \in SUBSET listed
      /\ alone = {f \in sounds : ~f.video}
  BY <1>1
<1> DEFINE only == Best(formats, alone, "size")
           any == Best(formats, sounds, "size")
<1>3. IF alone = {} THEN only = NoFormat ELSE only \in Tops(alone, "size")
  BY <1>2, BestIsTop
<1>4. IF sounds = {} THEN any = NoFormat ELSE any \in Tops(sounds, "size")
  BY <1>2, BestIsTop
<1>5. FindBestAudio(formats) = IF only # NoFormat THEN only ELSE any
  BY DEF FindBestAudio
<1> HIDE DEF only, any, sounds, alone
<1>6. (alone # {} => only # NoFormat) /\ (sounds # {} => any # NoFormat)
  BY <1>2, <1>3, <1>4 DEF Tops
<1>7. CASE alone # {}
  BY <1>2, <1>3, <1>5, <1>6, <1>7 DEF sounds
<1>8. CASE alone = {}
  BY <1>2, <1>3, <1>4, <1>5, <1>6, <1>8 DEF sounds
<1> QED BY <1>7, <1>8

\* The default is never taken for a pair of a video and a sound, or for a video
\* with a sound of its own.
LEMMA PairKinds ==
  ASSUME NEW video, NEW audio, ~NoFormat.video
  PROVE  /\ video = NoFormat \/ audio = NoFormat => Pair(video, audio) = DefaultFormat
         /\ video # NoFormat /\ audio # NoFormat =>
              /\ Pair(video, audio).video = video
              /\ Pair(video, audio).audio = IF video.audio THEN NoFormat ELSE audio
  BY DEF Pair, Selected, DefaultFormat

\* For every list that yt-dlp can report and every quality, the format that the
\* worker selects is the right one (selectFormat).
THEOREM SelectionIsRight ==
  ASSUME NEW formats \in Seq(Format), NEW quality \in Qualities
  PROVE  SelectionRight(formats, quality)
<1> DEFINE listed == Range(formats)
           playable == {f \in listed : f.video /\ f.audio /\ f.mp4}
           admitted == {f \in listed :
                          f.video /\ (quality \in DOMAIN Cap => f.height <= Cap[quality])}
           sounds == {f \in listed : f.audio}
           alone == {f \in sounds : ~f.video}
           progressive == Best(formats, playable, "height")
           video == Best(formats, admitted, "height")
           audio == FindBestAudio(formats)
           selected == SelectFormat(formats, quality)
<1>1. ~NoFormat.audio /\ ~NoFormat.video
  BY DEF NoFormat
<1>2. /\ NoFormat \notin playable /\ NoFormat \notin admitted
      /\ playable \in SUBSET listed /\ admitted \in SUBSET listed
  BY <1>1
<1>3. IF playable = {} THEN progressive = NoFormat
      ELSE progressive \in Tops(playable, "height")
  BY <1>2, BestIsTop
<1>4. IF admitted = {} THEN video = NoFormat ELSE video \in Tops(admitted, "height")
  BY <1>2, BestIsTop
<1>5. IF sounds = {} THEN audio = NoFormat
      ELSE audio # NoFormat /\ audio \in Tops(IF alone # {} THEN alone ELSE sounds, "size")
  BY AudioIsTop
<1>6. selected = IF quality = "AUTO" /\ progressive # NoFormat
                   THEN Selected(progressive, NoFormat)
                 ELSE IF quality \in {"SMALL", "MP3"} THEN DefaultFormat
                 ELSE Pair(video, audio)
  BY DEF SelectFormat, BestUpToCap
<1>7. /\ playable # {} <=> progressive # NoFormat
      /\ admitted # {} <=> video # NoFormat
      /\ sounds # {} <=> audio # NoFormat
  BY <1>2, <1>3, <1>4, <1>5 DEF Tops
<1>8. quality = "AUTO" /\ playable # {} => admitted # {} /\ sounds # {}
  <2>1. "AUTO" \notin DOMAIN Cap
    BY DEF Cap
  <2> QED BY <2>1
<1>9. SelectionRight(formats, quality) <=>
        IF quality = "AUTO" /\ playable # {}
          THEN selected.video \in Tops(playable, "height") /\ selected.audio = NoFormat
        ELSE IF quality \in {"SMALL", "MP3"} \/ admitted = {} \/ sounds = {}
          THEN selected = DefaultFormat
        ELSE /\ selected.video \in Tops(admitted, "height")
             /\ IF selected.video.audio
                  THEN selected.audio = NoFormat
                  ELSE selected.audio \in Tops(IF alone # {} THEN alone ELSE sounds, "size")
  BY <1>8 DEF SelectionRight
<1> HIDE DEF playable, admitted, sounds, alone, progressive, video, audio, selected
<1>10. CASE quality = "AUTO" /\ playable # {}
  BY <1>3, <1>6, <1>7, <1>9, <1>10 DEF Selected
<1>11. CASE ~(quality = "AUTO" /\ playable # {}) /\ quality \in {"SMALL", "MP3"}
  BY <1>6, <1>7, <1>9, <1>11
<1>12. CASE /\ ~(quality = "AUTO" /\ playable # {})
            /\ quality \notin {"SMALL", "MP3"}
  <2>1. selected = Pair(video, audio)
    BY <1>6, <1>7, <1>12
  <2>2. CASE admitted = {} \/ sounds = {}
    BY <1>1, <1>7, <1>9, <1>12, <2>1, <2>2, PairKinds
  <2>3. CASE admitted # {} /\ sounds # {}
    BY <1>1, <1>4, <1>5, <1>7, <1>9, <1>12, <2>1, <2>3, PairKinds
  <2> QED BY <2>2, <2>3
<1> QED BY <1>10, <1>11, <1>12
=============================================================================
