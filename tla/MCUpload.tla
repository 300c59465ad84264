------------------------------- MODULE MCUpload -------------------------------
(* Values for the constants of Upload.                                     *)
EXTENDS Upload

Row(mode, cloudMax, localMax, videoMax, audioMax) ==
  [mode |-> mode, cloudMax |-> cloudMax, localMax |-> localMax,
   videoMax |-> videoMax, audioMax |-> audioMax]

\* Cloud; local with a limit on audio below the cloud's; local with a limit below
\* the cloud's default, and neither a cloud limit nor one on videos.
Some ==
  { Row("cloud", 50, 2000, 500, 100), Row("local", 20, 2000, 500, 10),
    Row("local", 0, 30, 0, 100) }

LocalByDefault == Row("local", 50, 2000, 500, 100)

\* Small, just above the default cloud limit, above the limit on videos.
ThreeSizes == {5000, 50 * Megabyte + 1, 600 * Megabyte}

Streams(ids, heights, bytes) ==
  { f \in [id : ids, video : BOOLEAN, audio : BOOLEAN, mp4 : BOOLEAN,
           height : heights, size : bytes] :
      (f.video \/ f.audio) /\ (~f.video => f.height = 0) }

Choice == Streams({1}, {0, 720}, {0, 9})

\* All lists of at most two formats, numbered as they come; the shorter ones with
\* every size.
UpToTwo ==
  [ formats : {<<>>} \cup {<<f>> : f \in Choice}, size : ThreeSizes \cup {0} ]
    \cup [ formats : {<<f, [g EXCEPT !.id = 2]>> : f \in Choice, g \in Choice}, size : {0} ]
=============================================================================
