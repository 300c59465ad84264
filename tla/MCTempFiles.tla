----------------------------- MODULE MCTempFiles -----------------------------
(* Values for the constants of TempFiles.                                  *)
EXTENDS TempFiles

CONSTANTS j1, j2, c1, t1

\* Two jobs of one chat.
OneChat == [j \in Jobs |-> c1]

OwnTitles == [j \in Jobs |-> IF j = j1 THEN t1 ELSE NoTitle]
OneTitle  == [j \in Jobs |-> t1]

AudioAndVideo == [j \in Jobs |-> IF j = j1 THEN "AUDIO" ELSE "VIDEO"]
TwoVideos     == [j \in Jobs |-> "VIDEO"]
=============================================================================
