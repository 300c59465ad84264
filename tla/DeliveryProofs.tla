--------------------------- MODULE DeliveryProofs ---------------------------
(***************************************************************************)
(* The pipeline implements module Delivery, for all requests, posts and    *)
(* chats, while Redis, the queues and Telegram answer and no post is an    *)
(* image.  An answer of Telegram may well be a refusal.                    *)
(***************************************************************************)
EXTENDS WaitersProofs

\* The conditions under which the worker hears of every copy that it sent.
Heard == Settled \ {"lost"}

\* Who got a copy is out of the reach of an error message: the request is past
\* its send, on no list but its own as a holder, and in no failing hands.
GotOf(q) ==
  /\ pc[q] \in Left \cup {"directStore", "directRead", "directDel", "directRest",
                           "store", "sendRest", "done"}
  /\ Listed(q) => pc[q] \notin Left
  /\ \A h \in Requests : q \in batch[h] => pc[h] \notin Unserved \ {"store"}

GotInv ==
  /\ FinalInv
  /\ ToldInv
  /\ SentInv
  /\ \A q \in Requests : row[q] = "none" <=> pc[q] = "idle"
  /\ \A q \in Requests : sent[q] # 0 => GotOf(q)

\* How a step sends a copy.
Gets(r, q) ==
  \/ q = r /\ pc[r] = "direct" /\ pc'[r] = "directStore"
  \/ q = r /\ pc[r] = "cached" /\ pc'[r] = "done"
  \/ q = head[r] /\ pc[r] = "sendFirst" /\ pc'[r] = "store"
  \/ q \in batch[r] \ batch'[r] /\ pc[r] \in {"sendRest", "directRest"} /\ pc'[r] = pc[r]

\* No other request's chat gets one, a row that was written stays written, and
\* none is written for a request that nobody has made.
LEMMA GettingStep ==
  ASSUME Conditions \subseteq Heard, WaitingInv, NEW r \in Requests, StepOf(r)
  PROVE  /\ \A q \in Requests : sent'[q] # sent[q] => Gets(r, q)
         /\ \A q \in Requests : row'[q] = "none" => row[q] = "none"
         /\ \A q \in Requests : pc[q] = "idle" => q = r \/ row'[q] = row[q]
         /\ pc'[r] # "idle" /\ (pc[r] = "idle" => row'[r] # "none")
         /\ pc[r] = "directStore" => pc'[r] = "directRead"
<1>0. /\ pc \in [Requests -> Steps]
      /\ task \in [Requests -> Queues]
      /\ row \in [Requests -> {"none", "QUEUED", "SUCCESS", "FAILED"}]
      /\ sent \in [Requests -> 0..SentBound]
      /\ batch \in [Requests -> SUBSET Requests]
      /\ head[r] \in Requests
      /\ \A q \in batch[r] : q = r \/ pc[q] \in Left
      /\ pc[r] = "store" => head[r] \in batch[r]
  BY DEF WaitingInv, LockInv, TaskInv, TypeOK
<1>s. ASSUME NEW p \in Requests, SentTo(p)
      PROVE  \A q \in Requests : sent'[q] # sent[q] => q = p
  BY <1>0, <1>s DEF SentTo
<1>a. ~Crash(r)
  BY DEF Crash, May, Heard, Settled, Answering
<1>l. "lost" \notin Conditions /\ Conditions \subseteq Settled
  BY DEF Heard
<1> USE DEF Gets, Left, Queues, Goto, May, outcome
<1>1. CASE Submit(r)
  BY <1>0, <1>1 DEF Submit, Enqueued
<1>2. CASE LookupCache(r) \/ Acquire(r) \/ Park(r) \/ Register(r)
  BY <1>0, <1>2 DEF LookupCache, Acquire, Park, Register, EnqueuedOrRetried, Enqueued, Retried
<1>3. CASE Probe(r) \/ Fetch(r) \/ Image(r) \/ Audio(r)
  BY <1>0, <1>3 DEF Probe, Fetch, Image, Audio, Failing, EnqueuedOrRetried, Enqueued, Retried
<1>4. CASE SendDirect(r)
  BY <1>0, <1>4, <1>s, <1>l DEF SendDirect
<1>5. CASE StoreDirect(r)
  BY <1>0, <1>5 DEF StoreDirect
<1>6. CASE PopRead(r)
  BY <1>0, <1>6 DEF PopRead, PopOf, AfterPop
<1>7. CASE PopDel(r)
  BY <1>0, <1>7 DEF PopDel, AfterPop
<1>8. CASE FailOne(r)
  BY <1>0, <1>8 DEF FailOne
<1>9. CASE FailEnd(r)
  BY <1>0, <1>9 DEF FailEnd, Retried
<1>10. CASE Send(r) \/ SendEnd(r) \/ Clear(r)
  BY <1>0, <1>10 DEF Send, SendEnd, Clear, EnqueuedOrRetried, Enqueued, Retried
<1>11. CASE SendFirst(r)
  BY <1>0, <1>11, <1>s, <1>l DEF SendFirst
<1>12. CASE Store(r)
  BY <1>0, <1>12 DEF Store, Retried
<1>13. CASE SendOne(r)
  <2>1. /\ pc' = pc /\ pc[r] \in {"sendRest", "directRest"}
        /\ \E q \in batch[r] :
             /\ batch' = [batch EXCEPT ![r] = @ \ {q}]
             /\ \/ SentTo(q) /\ row' = [row EXCEPT ![q] = "SUCCESS"]
                \/ UNCHANGED <<sent, row>>
    BY <1>13, <1>l DEF SendOne
  <2> QED BY <1>0, <1>s, <2>1
<1>14. CASE SendCached(r)
  BY <1>0, <1>14, <1>s, <1>l DEF SendCached, Retried
<1> QED BY <1>1, <1>2, <1>3, <1>4, <1>5, <1>6, <1>7, <1>8, <1>9, <1>10, <1>11, <1>12,
         <1>13, <1>14, <1>a DEF StepOf, Task

\* Every step keeps who got a copy out of reach, and brings there who gets one.
LEMMA GotStep ==
  ASSUME Conditions \subseteq Heard, GotInv, WaitingInv', NEW r \in Requests, StepOf(r)
  PROVE  \A q \in Requests : sent'[q] # 0 => GotOf(q)'
<1>0. /\ TypeOK /\ WaitingInv /\ MutualExclusion
      /\ \A h \in Requests : batch[h] \subseteq Requests /\ batch'[h] \subseteq Requests
      /\ \A q \in Requests : Listed(q) => pc[q] \in Left \cup Before \cup Deleting
      /\ \A q \in Requests : sent[q] # 0 => GotOf(q)
      /\ pc[r] = "sendFirst" => head[r] \in batch[r]
  BY DEF GotInv, FinalInv, WaitingInv, LockInv, TaskInv, TypeOK
<1>w. /\ \A h \in Requests : \A q \in batch[h] :
           /\ pc[h] \in Deleting \cup Serving
           /\ CacheKey(q) = CacheKey(h)
           /\ q = h \/ pc[q] \in Left
           /\ pc[h] \in Serving => ~Listed(q)
      /\ \A h \in Requests : \A q \in batch'[h] :
           /\ pc'[h] \in Deleting \cup Serving
           /\ q = h \/ pc'[q] \in Left
  BY <1>0 DEF WaitingInv
<1>o. \A q \in Requests : q # r => pc'[q] = pc[q] /\ batch'[q] = batch[q]
  BY <1>0, TaskStep, OthersKeep DEF WaitingInv, LockInv
<1> USE DEF Left, Before, Deleting, Serving, Unserved
<1>1. CASE Joins(r)
  <2>1. \A q \in Requests : q # r => (Listed(q)' <=> Listed(q))
    BY <1>0, <1>1, JoinedList DEF Joins
  <2>2. sent' = sent /\ sent[r] = 0
    BY <1>0, <1>1 DEF Joins, GotOf
  <2>3. batch' = batch /\ batch[r] = {}
    BY <1>w, <1>1 DEF Joins
  <2> QED BY <1>0, <1>o, <2>1, <2>2, <2>3 DEF GotOf
<1>2. CASE Reads(r)
  <2>1. \A q \in Requests : Listed(q)' <=> Listed(q)
    BY <1>2, SameLists DEF Reads
  <2>2. sent' = sent
    BY <1>2 DEF Reads
  <2>3. ASSUME NEW q \in Requests, sent[q] # 0 PROVE GotOf(q)'
    <3>1. GotOf(q)
      BY <1>0, <2>3
    <3>2. ASSUME q \in batch'[r] PROVE pc'[r] = "directDel"
      <4>1. CASE q = r
        BY <1>2, <3>1, <4>1 DEF Reads, GotOf
      <4>2. CASE Listed(q) /\ CacheKey(q) = CacheKey(r)
        <5>1. pc[q] \in {"directStore", "directRead", "directDel"}
          BY <1>0, <3>1, <4>2 DEF GotOf
        <5>2. q = r
          BY <1>0, <1>2, <4>2, <5>1 DEF MutualExclusion, Locked, Reads
        <5> QED BY <1>2, <5>1, <5>2 DEF Reads
      <4> QED BY <1>2, <3>2, <4>1, <4>2 DEF Reads
    <3>3. \A h \in Requests : q \in batch'[h] => pc'[h] \notin Unserved \ {"store"}
      BY <1>o, <3>1, <3>2 DEF GotOf
    <3> QED BY <1>2, <1>o, <2>1, <3>1, <3>3 DEF Reads, GotOf
  <2> QED BY <2>2, <2>3
<1>3. CASE Deletes(r)
  <2>1. \A q \in Requests : Listed(q)' => Listed(q)
    BY <1>0, <1>3, EmptiedList, KeyType DEF Deletes
  <2>2. sent' = sent /\ batch' = batch
    BY <1>3 DEF Deletes
  <2>3. ASSUME NEW q \in Requests, sent[q] # 0 PROVE GotOf(q)'
    <3>1. GotOf(q)
      BY <1>0, <2>3
    <3>2. \A h \in Requests : q \in batch'[h] => pc'[h] \notin Unserved \ {"store"}
      BY <1>3, <1>o, <2>2, <3>1 DEF Deletes, GotOf
    <3> QED BY <1>3, <1>o, <2>1, <3>1, <3>2 DEF Deletes, GotOf
  <2> QED BY <2>2, <2>3
<1>4. CASE Moves(r) /\ Shows(r)
  <2>1. \A q \in Requests : Listed(q)' <=> Listed(q)
    BY <1>4, SameLists DEF Moves
  <2>2. ASSUME NEW q \in Requests, sent[q] # 0 PROVE GotOf(q)'
    <3>1. GotOf(q)
      BY <1>0, <2>2
    <3>2. \A h \in Requests : q \in batch'[h] => pc'[h] \notin Unserved \ {"store"}
      BY <1>4, <1>o, <3>1 DEF Moves, Shows, GotOf
    <3>3. q = r => pc'[r] \in {"directRead", "directRest", "sendRest", "done"}
      BY <1>0, <1>4, <3>1, GettingStep DEF Moves, Shows, GotOf
    <3> QED BY <1>o, <2>1, <3>1, <3>2, <3>3 DEF GotOf
  <2>3. ASSUME NEW q \in Requests, sent[q] = 0, Gets(r, q) PROVE GotOf(q)'
    <3>1. CASE q = r /\ pc'[r] \in {"directStore", "done"}
      BY <1>w, <3>1 DEF GotOf
    <3>2. CASE /\ q \in batch[r]
               /\ pc[r] \in {"sendFirst", "sendRest", "directRest"}
               /\ pc'[r] \in {"store", "sendRest", "directRest"}
      <4>1. ~Listed(q) /\ CacheKey(q) = CacheKey(r)
        BY <1>w, <3>2
      <4>2. \A h \in Requests : q \in batch[h] => h = r
        BY <1>0, <3>2, <4>1, OneHolder DEF Locked
      <4>3. pc'[q] \in Left \cup {"store", "sendRest", "directRest"}
        BY <1>w, <1>o, <3>2
      <4> QED BY <1>o, <2>1, <3>2, <4>1, <4>2, <4>3 DEF GotOf
    <3> QED BY <1>0, <1>4, <2>3, <3>1, <3>2 DEF Gets
  <2> QED BY <1>0, <2>2, <2>3, GettingStep
<1>5. Conditions \subseteq Settled
  BY DEF Heard
<1> QED BY <1>0, <1>1, <1>2, <1>3, <1>4, <1>5, ListStep, MovingStep

-----------------------------------------------------------------------------
(* Each step of the pipeline is a step of module Delivery, or it changes   *)
(* nothing that a chat or a row can see.                                   *)

\* A copy that counts is one that Delivery allows; one that does not count only
\* repeats what the chat has got.
LEMMA CopyAllowed ==
  ASSUME Conditions \subseteq Heard, TypeOK, NEW q \in Requests, SentTo(q),
         "directUrl" \notin Conditions => sent'[q] <= 1
  PROVE  \/ /\ sent[q] < IF May("directUrl") THEN SentBound ELSE 1
            /\ sent' = [sent EXCEPT ![q] = @ + 1]
         \/ UNCHANGED sent
<1>1. sent \in [Requests -> 0..SentBound]
  BY DEF TypeOK
<1>2. CASE sent[q] < SentBound
  <2>1. sent' = [sent EXCEPT ![q] = @ + 1] /\ sent'[q] = sent[q] + 1 /\ sent[q] \in Nat
    BY <1>1, <1>2 DEF SentTo, SentBound
  <2> QED BY <1>2, <2>1 DEF May
<1>3. CASE ~(sent[q] < SentBound)
  BY <1>1, <1>3 DEF SentTo
<1> QED BY <1>2, <1>3

\* What is left to do for a request in a holder's hands that it has not served:
\* its row is open, and its chat got nothing.
LEMMA Unanswered ==
  ASSUME GotInv, NEW r \in Requests, NEW q \in Requests,
         \/ q = r /\ pc[r] \in {"direct", "cached", "failEach"}
         \/ q \in batch[r] /\ pc[r] \in {"sendFirst", "failEach"}
  PROVE  D!Open(q) /\ sent[q] = 0
<1>1. row[q] \in {"none", "QUEUED", "SUCCESS", "FAILED"}
  BY DEF GotInv, SentInv, TypeOK
<1>2. row[q] # "none"
  BY DEF GotInv, FinalInv, WaitingInv, Left
<1>3. row[q] # "SUCCESS"
  BY DEF GotInv, FinalInv, ServedOf, Left, Unserved
<1>4. sent[q] = 0
  BY DEF GotInv, GotOf, Left, Unserved
<1> QED BY <1>1, <1>2, <1>3, <1>4 DEF D!Open

\* Every step of a request refines a step of Delivery or a stutter.
LEMMA StepRefinesDelivery ==
  ASSUME Conditions \subseteq Heard, GotInv, GotInv', NEW r \in Requests, StepOf(r),
         "directUrl" \notin Conditions => AtMostOneCopy'
  PROVE  [D!Next]_(D!seen)
<1>0. /\ TypeOK
      /\ batch[r] \subseteq Requests
      /\ head[r] \in Requests
      /\ row \in [Requests -> {"none", "QUEUED", "SUCCESS", "FAILED"}]
      /\ pc[r] \in {"sendFirst", "store"} => head[r] \in batch[r]
      /\ pc[r] = "store" => sent[head[r]] > 0
      /\ pc[r] = "directStore" => sent[r] > 0
      /\ \A q \in Requests : row[q] = "none" => pc[q] = "idle"
      /\ \A q \in batch[r] : q = r \/ pc[q] \in Left
      /\ FailureIsTold'
  BY DEF GotInv, FinalInv, WaitingInv, LockInv, TaskInv, TypeOK, SentInv, ToldInv
<1>a. /\ "enqueue" \notin Conditions /\ "store" \notin Conditions
      /\ "crash" \notin Conditions /\ "lost" \notin Conditions
  BY DEF Heard, Settled, Answering
<1>s. ASSUME NEW q \in Requests, SentTo(q)
      PROVE  \/ /\ sent[q] < IF May("directUrl") THEN SentBound ELSE 1
                /\ sent' = [sent EXCEPT ![q] = @ + 1]
             \/ UNCHANGED sent
  BY <1>0, <1>s, CopyAllowed DEF AtMostOneCopy
<1>n. ASSUME NEW q \in Requests,
             D!Ask(q) \/ D!Send(q) \/ D!Mark(q) \/ D!SendAndMark(q) \/ D!Tell(q) \/ D!Fail(q)
      PROVE  D!Next
  BY <1>n DEF D!Next
<1>1. CASE Submit(r)
  <2>1. row[r] = "none"
    BY <1>1 DEF Submit, GotInv
  <2>2. D!Ask(r)
    BY <1>1, <1>a, <2>1 DEF Submit, May, messages, D!messages, D!Ask
  <2> QED BY <1>n, <2>2
<1>2. CASE SendDirect(r)
  <2>1. CASE UNCHANGED sent
    BY <1>2, <2>1 DEF SendDirect, messages, D!messages, D!seen
  <2>2. CASE SentTo(r)
    <3>1. D!Open(r)
      BY <1>2, Unanswered DEF SendDirect
    <3>2. D!Send(r) \/ UNCHANGED sent
      BY <1>2, <1>s, <2>2, <3>1 DEF SendDirect, messages, D!messages, D!Send
    <3> QED BY <1>n, <2>1, <3>2
  <2> QED BY <1>2, <2>1, <2>2 DEF SendDirect
<1>3. CASE StoreDirect(r)
  <2>1. D!Mark(r)
    BY <1>0, <1>3, <1>a DEF StoreDirect, May, messages, D!messages, D!Mark
  <2> QED BY <1>n, <2>1
<1>4. CASE FailOne(r)
  <2>1. PICK q \in batch[r] :
          /\ \/ told' = told \cup {q} /\ UNCHANGED missed
             \/ missed' = missed \cup {q} /\ UNCHANGED told
          /\ row' = [row EXCEPT ![q] = "FAILED"]
    BY <1>4 DEF FailOne, Tells
  <2>2. D!Open(q) /\ sent[q] = 0
    BY <1>0, <1>4, Unanswered DEF FailOne
  <2>3. D!Tell(q)
    BY <1>4, <2>1, <2>2 DEF FailOne, D!Tell
  <2> QED BY <1>0, <1>n, <2>3
<1>5. CASE FailEnd(r)
  <2>1. CASE row' = row
    BY <1>5, <2>1 DEF FailEnd, messages, D!messages, D!seen
  <2>2. CASE row' = [row EXCEPT ![r] = "FAILED"]
    <3>1. D!Open(r) /\ sent[r] = 0
      BY <1>5, Unanswered DEF FailEnd
    <3>2. row'[r] = "FAILED" /\ UNCHANGED <<sent, told, missed>>
      BY <1>0, <1>5, <2>2 DEF FailEnd, messages
    <3>3. PICK q \in told \cup missed : ChatOf[q] = ChatOf[r] /\ CacheKey(q) = CacheKey(r)
      <4>1. PICK q \in Requests : SameAsked(r, q)' /\ q \in (told \cup missed)'
        BY <1>0, <3>2 DEF FailureIsTold
      <4> QED BY <3>2, <4>1, AskedIsRigid DEF SameAsked
    <3>4. q \in Requests
      BY <1>0 DEF TypeOK
    <3>5. D!Fail(r)
      BY <2>2, <3>1, <3>2, <3>3, <3>4 DEF D!messages, D!Fail
    <3> QED BY <1>n, <3>5
  <2> QED BY <1>5, <2>1, <2>2 DEF FailEnd
<1>6. CASE SendFirst(r)
  <2>1. CASE UNCHANGED sent
    BY <1>6, <2>1 DEF SendFirst, messages, D!messages, D!seen
  <2>2. CASE SentTo(head[r])
    <3>1. D!Open(head[r])
      BY <1>0, <1>6, Unanswered DEF SendFirst
    <3>2. D!Send(head[r]) \/ UNCHANGED sent
      BY <1>0, <1>6, <1>s, <2>2, <3>1 DEF SendFirst, messages, D!messages, D!Send
    <3> QED BY <1>0, <1>n, <2>1, <3>2
  <2> QED BY <1>6, <2>1, <2>2 DEF SendFirst
<1>7. CASE Store(r)
  <2>1. D!Mark(head[r])
    BY <1>0, <1>7, <1>a DEF Store, May, messages, D!messages, D!Mark
  <2> QED BY <1>0, <1>n, <2>1
<1>8. CASE SendOne(r)
  <2>1. PICK q \in batch[r] :
          \/ SentTo(q) /\ row' = [row EXCEPT ![q] = "SUCCESS"]
          \/ UNCHANGED <<sent, row>>
    BY <1>8, <1>a DEF SendOne, May
  <2>2. UNCHANGED <<told, missed>> /\ pc[r] \in {"sendRest", "directRest"} /\ q \in Requests
    BY <1>0, <1>8 DEF SendOne, messages
  <2>3. CASE UNCHANGED <<sent, row>>
    BY <2>2, <2>3 DEF D!messages, D!seen
  <2>4. CASE SentTo(q) /\ row' = [row EXCEPT ![q] = "SUCCESS"]
    <3>1. sent'[q] > 0 /\ row[q] # "none"
      BY <1>0, <2>2, <2>4, SentToCounts DEF Left
    <3>2. D!SendAndMark(q) \/ D!Mark(q)
      BY <1>s, <2>2, <2>4, <3>1 DEF D!messages, D!SendAndMark, D!Mark
    <3> QED BY <1>n, <2>2, <3>2
  <2> QED BY <2>1, <2>3, <2>4
<1>9. CASE SendCached(r)
  <2>1. UNCHANGED <<told, missed>> /\ pc[r] = "cached"
    BY <1>9 DEF SendCached, messages
  <2>2. CASE UNCHANGED <<sent, row>>
    BY <2>1, <2>2 DEF D!messages, D!seen
  <2>3. CASE SentTo(r) /\ row' = [row EXCEPT ![r] = "SUCCESS"]
    <3>1. sent'[r] > 0 /\ row[r] # "none"
      BY <1>0, <2>1, <2>3, SentToCounts
    <3>2. D!SendAndMark(r) \/ D!Mark(r)
      BY <1>s, <2>1, <2>3, <3>1 DEF D!messages, D!SendAndMark, D!Mark
    <3> QED BY <1>n, <3>2
  <2> QED BY <1>9, <1>a, <2>2, <2>3 DEF SendCached, May
<1>10. CASE LookupCache(r) \/ Acquire(r) \/ Park(r) \/ Register(r) \/ Probe(r)
            \/ PopRead(r) \/ PopDel(r) \/ Fetch(r) \/ Image(r) \/ Audio(r) \/ Send(r)
            \/ SendEnd(r) \/ Clear(r)
  <2>1. UNCHANGED outcome
    BY <1>10 DEF LookupCache, Acquire, Park, Register, Probe, PopRead, PopDel, Fetch,
       Image, Audio, Send, SendEnd, Clear
  <2> QED BY <2>1 DEF outcome, messages, D!messages, D!seen
<1>11. ~Crash(r)
  BY <1>a DEF Crash, May
<1> QED BY <1>1, <1>2, <1>3, <1>4, <1>5, <1>6, <1>7, <1>8, <1>9, <1>10, <1>11
        DEF StepOf, Task

\* The invariant holds at first, and every step keeps it.
LEMMA GotInvHolds ==
  ASSUME Conditions \subseteq Heard
  PROVE  /\ Init /\ FinalInv /\ ToldInv /\ SentInv => GotInv
         /\ GotInv /\ [Next]_vars /\ (FinalInv /\ ToldInv /\ SentInv)' => GotInv'
<1>1. Init /\ FinalInv /\ ToldInv /\ SentInv => GotInv
  BY DEF Init, GotInv
<1>2. ASSUME GotInv, [Next]_vars, FinalInv', ToldInv', SentInv' PROVE GotInv'
  <2>1. ASSUME NEW r \in Requests, StepOf(r) PROVE GotInv'
    <3>1. \A q \in Requests : sent'[q] # 0 => GotOf(q)'
      BY <1>2, <2>1, GotStep DEF FinalInv
    <3>2. \A q \in Requests : q # r => pc'[q] = pc[q]
      BY <1>2, <2>1, TaskStep DEF GotInv, FinalInv, WaitingInv, LockInv
    <3>3. \A q \in Requests : row'[q] = "none" <=> pc'[q] = "idle"
      BY <1>2, <2>1, <3>2, GettingStep DEF GotInv, FinalInv
    <3> QED BY <1>2, <3>1, <3>3 DEF GotInv
  <2>2. ASSUME UNCHANGED <<pc, batch, row, sent>>,
               \A q \in Requests : Listed(q)' => Listed(q)
        PROVE  GotInv'
    BY <1>2, <2>2 DEF GotInv, GotOf
  <2>3. ASSUME NEW k \in Keys, ExpireLock(k) \/ ExpireWaiters(k) PROVE GotInv'
    <3>1. UNCHANGED waiters \/ waiters' = [waiters EXCEPT ![k] = <<>>]
      BY <2>3 DEF ExpireLock, ExpireWaiters
    <3>2. \A q \in Requests : Listed(q)' => Listed(q)
      BY <1>2, <3>1, SameLists, EmptiedList DEF GotInv, SentInv
    <3> QED BY <2>2, <2>3, <3>2 DEF ExpireLock, ExpireWaiters, job, loop, outcome
  <2>4. CASE UNCHANGED vars
    <3>1. UNCHANGED <<pc, batch, row, sent, waiters>>
      BY <2>4 DEF vars, redis, job, loop, outcome
    <3> QED BY <2>2, <3>1, SameLists
  <2> QED BY <1>2, <2>1, <2>3, <2>4 DEF Next, StepOf
<1> QED BY <1>1, <1>2

\* Every step refines a step of Delivery, or is a stutter there: the end of a TTL
\* is seen by nobody.
LEMMA NextRefinesDelivery ==
  ASSUME Conditions \subseteq Heard, GotInv, GotInv', [Next]_vars,
         "directUrl" \notin Conditions => AtMostOneCopy'
  PROVE  [D!Next]_(D!seen)
<1>1. ASSUME NEW r \in Requests, StepOf(r) PROVE [D!Next]_(D!seen)
  BY <1>1, StepRefinesDelivery
<1>2. ASSUME NEW k \in Keys, ExpireLock(k) \/ ExpireWaiters(k) PROVE UNCHANGED outcome
  BY <1>2 DEF ExpireLock, ExpireWaiters
<1>3. CASE UNCHANGED outcome
  BY <1>3 DEF outcome, messages, D!messages, D!seen
<1>4. CASE UNCHANGED vars
  BY <1>3, <1>4 DEF vars
<1> QED BY <1>1, <1>2, <1>3, <1>4 DEF Next, StepOf

\* While Redis and the queues answer, no post is an image and Telegram answers every
\* send, however rows before the delivery and, when nobody asks for a song, settings
\* fail, whatever Telegram refuses and however workers interleave, the chats and the
\* downloads table see a run of module Delivery.
THEOREM PipelineDelivers ==
  ASSUME Conditions \subseteq Heard
  PROVE  Spec => DeliveryKept
<1>1. Conditions \cap Breaking = {}
  BY DEF Heard, Settled
<1>h. Conditions \subseteq Settled
  BY DEF Heard
<1>2. /\ Init => FinalInv
      /\ FinalInv /\ [Next]_vars => FinalInv'
  BY <1>h, FinalInvStep
<1>3. Spec => []ToldInv /\ []SentInv
  BY <1>1, ToldAlways, SentAlways, PTL
<1>4. Spec => []GotInv
  <2>1. /\ Init /\ FinalInv /\ ToldInv /\ SentInv => GotInv
        /\ GotInv /\ [Next]_vars /\ (FinalInv /\ ToldInv /\ SentInv)' => GotInv'
    BY GotInvHolds
  <2> QED BY <1>2, <1>3, <2>1, PTL DEF Spec
<1>5. Init => D!Init
  BY DEF Init, D!Init
<1>6. CASE "directUrl" \in Conditions
  <2>1. GotInv /\ GotInv' /\ [Next]_vars => [D!Next]_(D!seen)
    BY <1>6, NextRefinesDelivery
  <2> QED BY <1>4, <1>5, <2>1, PTL DEF Spec, DeliveryKept, D!Spec
<1>7. CASE "directUrl" \notin Conditions
  <2>1. GotInv /\ GotInv' /\ [Next]_vars /\ AtMostOneCopy' => [D!Next]_(D!seen)
    BY NextRefinesDelivery
  <2>2. Spec => []AtMostOneCopy
    <3>1. Conditions \subseteq Settled \ {"directUrl", "lost"}
      BY <1>7 DEF Heard
    <3> QED BY <3>1, AtMostOneCopyHolds
  <2> QED BY <1>4, <1>5, <2>1, <2>2, PTL DEF Spec, DeliveryKept, D!Spec
<1> QED BY <1>6, <1>7
=============================================================================
