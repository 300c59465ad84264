------------------------------ MODULE Delivery ------------------------------
(***************************************************************************)
(* What the chats and the downloads table see of the pipeline, whatever    *)
(* workers, locks, lists and queues do behind it: every request is asked   *)
(* once, and then copies, marks and messages follow each other as if one   *)
(* careful clerk wrote them.                                               *)
(***************************************************************************)
EXTENDS Naturals

CONSTANTS Requests,
          AskedBy,   \* who asked for what: the same for requests with one answer
          Most       \* the most copies that a request's chat gets for it

VARIABLES
  row,       \* the status of the request's downloads row
  sent,      \* the copies sent for the request
  told,      \* the requests whose chat was sent an error message
  missed     \* those whose error message Telegram refused

messages == <<told, missed>>
seen     == <<row, sent, messages>>

\* A request whose row was written and does not say SUCCESS.
Open(r) == row[r] \in {"QUEUED", "FAILED"}

-----------------------------------------------------------------------------
Ask(r) ==
  /\ row[r] = "none"
  /\ row' = [row EXCEPT ![r] = "QUEUED"]
  /\ UNCHANGED <<sent, messages>>

Send(r) ==
  /\ Open(r)
  /\ sent[r] < Most
  /\ sent' = [sent EXCEPT ![r] = @ + 1]
  /\ UNCHANGED <<row, messages>>

Mark(r) ==
  /\ sent[r] > 0
  /\ row' = [row EXCEPT ![r] = "SUCCESS"]
  /\ UNCHANGED <<sent, messages>>

SendAndMark(r) ==
  /\ row[r] # "none"
  /\ sent[r] < Most
  /\ sent' = [sent EXCEPT ![r] = @ + 1]
  /\ row' = [row EXCEPT ![r] = "SUCCESS"]
  /\ UNCHANGED messages

\* Nobody who got a copy is told that there is none.  A message that
\* Telegram refuses is not sent again.
Tell(r) ==
  /\ Open(r)
  /\ sent[r] = 0
  /\ \/ told' = told \cup {r} /\ UNCHANGED missed
     \/ missed' = missed \cup {r} /\ UNCHANGED told
  /\ row' = [row EXCEPT ![r] = "FAILED"]
  /\ UNCHANGED sent

\* A message to the chat for another request for the same media will do.
Fail(r) ==
  /\ Open(r)
  /\ sent[r] = 0
  /\ \E q \in told \cup missed : AskedBy[q] = AskedBy[r]
  /\ row' = [row EXCEPT ![r] = "FAILED"]
  /\ UNCHANGED <<sent, messages>>

-----------------------------------------------------------------------------
Init ==
  /\ row = [r \in Requests |-> "none"]
  /\ sent = [r \in Requests |-> 0]
  /\ told = {}
  /\ missed = {}

Next ==
  \E r \in Requests :
    Ask(r) \/ Send(r) \/ Mark(r) \/ SendAndMark(r) \/ Tell(r) \/ Fail(r)

Spec == Init /\ [][Next]_seen
=============================================================================
