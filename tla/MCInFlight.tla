----------------------------- MODULE MCInFlight -----------------------------
(* Values for the constants of InFlight.                                   *)
EXTENDS InFlight

CONSTANTS r1, r2, r3, p1, c1, c2

\* Three requests for one post; the last two come from the same chat.
OnePost == [r \in Requests |-> p1]
Videos  == [r \in Requests |-> "VIDEO"]
Songs   == [r \in Requests |-> "AUDIO"]
TwoOfAChat == [r \in Requests |-> IF r = r1 THEN c1 ELSE c2]

\* The same with the two requests of one chat around the third.
FirstAndLast == [r \in Requests |-> IF r = r2 THEN c1 ELSE c2]

\* The state without the error messages, which no step reads.
ButMessages == <<redis, fileId, row, sent, job>>

\* A task that is downloaded again and again, while the database does not let
\* its refused file id be cleared, lengthens the list each time.  A run under
\* this constraint looks no further than lists with both requests on them, or
\* one of them twice.
ListBound == 2
ShortLists == \A k \in Keys : Len(waiters[k]) <= ListBound
=============================================================================
