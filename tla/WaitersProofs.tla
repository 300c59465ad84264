---------------------------- MODULE WaitersProofs ----------------------------
(* Proofs about the waiters lists of InFlight: who is on a list, who is in *)
(* the hands of a holder, and what that says of rows, copies and messages. *)
EXTENDS InFlightProofs, WellFoundedInduction

\* The steps of a holder before it has read the list, between its read and its
\* delete, and after the delete.
Before == {"probe", "direct", "directStore", "fetch", "audio", "send",
           "directRead", "failRead", "sendRead"}

Deleting == {"directDel", "failDel", "sendDel"}

Serving == {"directRest", "failEach", "sendFirst", "store", "sendRest"}

\* Is the request on the list of its key?
Listed(q) == \E i \in DOMAIN waiters[CacheKey(q)] : waiters[CacheKey(q)][i] = q

\* On the list of a key there are requests for that key only.
ListsOwn == \A k \in Keys : \A i \in DOMAIN waiters[k] : CacheKey(waiters[k][i]) = k

-----------------------------------------------------------------------------
(* What a step does to a list.                                             *)

\* Of a list of requests, each one's chat is among those that are answered.
LEMMA EveryChatIsAnswered ==
  ASSUME NEW list \in Seq(Requests), NEW i \in DOMAIN list
  PROVE  \E q \in OnePerChat(list) : ChatOf[q] = ChatOf[list[i]]
<1> DEFINE Same == {j \in 1..Len(list) : ChatOf[list[j]] = ChatOf[list[i]]}
           less == OpToRel(<, Nat)
<1>1. Same \subseteq Nat /\ i \in Same
  OBVIOUS
<1>2. PICK j \in Same : \A n \in Same : ~(<<n, j>> \in less)
  <2>1. IsWellFoundedOn(less, Nat)
    BY NatLessThanWellFounded
  <2> HIDE DEF less, Same
  <2> QED BY <1>1, <2>1, WFMin
<1>3. \A n \in Same : ~(n < j)
  BY <1>1, <1>2 DEF OpToRel
<1>4. \A n \in 1..(j - 1) : ChatOf[list[n]] # ChatOf[list[j]]
  BY <1>3
<1> QED BY <1>4 DEF OnePerChat

\* The first of a list is answered, and whoever is answered is on the list.
LEMMA AnsweredAreListed ==
  ASSUME NEW list \in Seq(Requests)
  PROVE  /\ list # <<>> => Head(list) \in OnePerChat(list)
         /\ \A q \in OnePerChat(list) : \E i \in DOMAIN list : list[i] = q
<1>1. ASSUME list # <<>> PROVE Head(list) \in OnePerChat(list)
  <2>1. 1 \in 1..Len(list) /\ Head(list) = list[1] /\ 1..(1 - 1) = {}
    BY <1>1
  <2> QED BY <2>1 DEF OnePerChat
<1>2. \A q \in OnePerChat(list) : \E i \in DOMAIN list : list[i] = q
  BY DEF OnePerChat
<1> QED BY <1>1, <1>2

\* A request that joins the list of its key is on it, and nobody else comes or goes.
LEMMA JoinedList ==
  ASSUME TypeOK, NEW r \in Requests,
         waiters' = [waiters EXCEPT ![CacheKey(r)] = Append(@, r)]
  PROVE  /\ ListsOwn => ListsOwn'
         /\ Listed(r)'
         /\ \A q \in Requests : q # r => (Listed(q)' <=> Listed(q))
<1>1. /\ waiters \in [Keys -> Seq(Requests)]
      /\ CacheKey(r) \in Keys
  BY KeyType DEF TypeOK
<1> DEFINE list == waiters[CacheKey(r)]
           longer == Append(list, r)
<1>2. /\ list \in Seq(Requests)
      /\ DOMAIN longer = 1..(Len(list) + 1) /\ DOMAIN list = 1..Len(list)
      /\ Len(list) \in Nat
      /\ \A i \in 1..Len(list) : longer[i] = list[i]
      /\ longer[Len(list) + 1] = r
  BY <1>1
<1>3. \A k \in Keys : waiters'[k] = IF k = CacheKey(r) THEN longer ELSE waiters[k]
  BY <1>1
<1>4. \A q \in Requests : CacheKey(q)' = CacheKey(q)
  BY DEF CacheKey
<1> HIDE DEF longer
<1>5. \A q \in Requests : (\E i \in DOMAIN longer : longer[i] = q)
                            <=> (\E i \in DOMAIN list : list[i] = q) \/ q = r
  BY <1>2
<1>6. \A q \in Requests : q # r => (Listed(q)' <=> Listed(q))
  BY <1>3, <1>4, <1>5, KeyType DEF Listed
<1>7. Listed(r)'
  BY <1>1, <1>3, <1>4, <1>5 DEF Listed
<1>8. ASSUME ListsOwn PROVE ListsOwn'
  <2>1. \A i \in DOMAIN longer : CacheKey(longer[i]) = CacheKey(r)
    BY <1>1, <1>2, <1>8 DEF ListsOwn
  <2> QED BY <1>3, <1>8, <2>1 DEF ListsOwn, CacheKey
<1> QED BY <1>6, <1>7, <1>8

\* From the list of one key, if it is emptied, the requests for that key are gone.
LEMMA EmptiedList ==
  ASSUME TypeOK, NEW k \in Keys, waiters' = [waiters EXCEPT ![k] = <<>>]
  PROVE  /\ ListsOwn => ListsOwn'
         /\ \A q \in Requests : Listed(q)' <=> Listed(q) /\ CacheKey(q) # k
<1>1. \A l \in Keys : waiters'[l] = IF l = k THEN <<>> ELSE waiters[l]
  BY DEF TypeOK
<1>2. DOMAIN <<>> = {}
  OBVIOUS
<1>3. \A q \in Requests : CacheKey(q)' = CacheKey(q)
  BY DEF CacheKey
<1>4. \A q \in Requests : Listed(q)' <=> Listed(q) /\ CacheKey(q) # k
  BY <1>1, <1>2, <1>3, KeyType DEF Listed
<1>5. ListsOwn => ListsOwn'
  BY <1>1, <1>2 DEF ListsOwn, CacheKey
<1> QED BY <1>4, <1>5

\* A list that is not written stays.
LEMMA SameLists ==
  ASSUME UNCHANGED waiters
  PROVE  /\ ListsOwn => ListsOwn'
         /\ \A q \in Requests : Listed(q)' <=> Listed(q)
BY DEF ListsOwn, Listed, CacheKey

\* A step of a request keeps what the others have in hand.
LEMMA OthersKeep ==
  ASSUME TypeOK, NEW r \in Requests, StepOf(r), NEW q \in Requests, q # r
  PROVE  batch'[q] = batch[q] /\ head'[q] = head[q]
<1>0. batch \in [Requests -> SUBSET Requests] /\ head \in [Requests -> Requests]
  BY DEF TypeOK
<1>1. CASE PopRead(r)
  BY <1>0, <1>1 DEF PopRead
<1>2. CASE FailOne(r) \/ SendOne(r) \/ Store(r)
  BY <1>0, <1>2 DEF FailOne, SendOne, Store
<1>3. CASE UNCHANGED <<batch, head>>
  BY <1>3
<1>4. PopRead(r) \/ FailOne(r) \/ SendOne(r) \/ Store(r) \/ UNCHANGED <<batch, head>>
  BY DEF StepOf, Task, Submit, LookupCache, Acquire, Park, Register, Probe, SendDirect,
     StoreDirect, PopDel, FailEnd, Fetch, Image, Audio, Send, SendFirst, SendEnd,
     SendCached, Clear, Crash, loop
<1> QED BY <1>1, <1>2, <1>3, <1>4

-----------------------------------------------------------------------------
(* Nobody is lost to an error message.                                     *)

\* A holder is on its own list until it empties it, and what it will answer with
\* an error message reaches its own chat.
ToldInv ==
  /\ LockInv
  /\ FailureIsTold
  /\ ListsOwn
  /\ \A r \in Requests : pc[r] \in Before => Listed(r)
  /\ \A r \in Requests :
       pc[r] \in {"failDel", "failEach"} /\ then[r] = "reject" =>
         \E q \in batch[r] \cup told \cup missed : SameAsked(r, q)

\* What a step other than Park, Register, PopRead, PopDel and FailOne does.
Unlisted(r) ==
  /\ UNCHANGED waiters
  /\ told \subseteq told' /\ missed \subseteq missed'
  /\ pc'[r] \in Before => pc[r] \in Before
  /\ pc'[r] = "failDel" => pc[r] = "failDel" /\ batch' = batch /\ then' = then
  /\ pc'[r] = "failEach" =>
       then'[r] # "reject" \/ (pc[r] = "failEach" /\ batch' = batch /\ then' = then)
  /\ \A q \in Requests :
       row'[q] = "FAILED" =>
         \/ row[q] = "FAILED"
         \/ q = r /\ pc[r] = "failEach" /\ then[r] = "reject" /\ batch[r] = {}

\* All steps but Park, Register, PopRead, PopDel and FailOne are of that kind.
LEMMA UnlistedStep ==
  ASSUME Conditions \cap Breaking = {}, LockInv, NEW r \in Requests,
         Submit(r) \/ Task(r) \/ Crash(r),
         ~Park(r), ~Register(r), ~PopRead(r), ~PopDel(r), ~FailOne(r)
  PROVE  Unlisted(r)
<1>0. /\ pc \in [Requests -> Steps]
      /\ task \in [Requests -> Queues]
      /\ tries \in [Requests -> 0..JobAttempts]
      /\ row \in [Requests -> {"none", "QUEUED", "SUCCESS", "FAILED"}]
      /\ then \in [Requests -> {"finish", "retry", "reject", "mute"}]
      /\ pc[r] # "image"
      /\ pc[r] = "audio" => tries[r] = 0 /\ TypeOf[r] = "AUDIO"
      /\ Fits(pc[r], task[r], then[r])
  BY DEF LockInv, TaskInv, TypeOK
<1>a. /\ "image" \notin Conditions /\ "lateImage" \notin Conditions
      /\ "slow" \notin Conditions /\ "store" \notin Conditions
      /\ "crash" \notin Conditions
      /\ TypeOf[r] = "AUDIO" =>
           "convert" \notin Conditions /\ "setup" \notin Conditions /\ "enqueue" \notin Conditions
  BY DEF Breaking, SongBreaking
<1> USE DEF Unlisted, Before, Fits, Queues, DownloadSteps, FailSteps, Goto, May,
            attempt, loop, redis, outcome, messages
<1>1. CASE Submit(r)
  BY <1>1, <1>0, <1>a DEF Submit, Enqueued, Tells
<1>2. CASE LookupCache(r)
  BY <1>2, <1>0, <1>a DEF LookupCache, EnqueuedOrRetried, Enqueued, Retried
<1>3. CASE Acquire(r)
  BY <1>3, <1>0, <1>a DEF Acquire, Retried
<1>4. CASE Probe(r)
  BY <1>4, <1>0, <1>a DEF Probe, Failing
<1>5. CASE SendDirect(r)
  BY <1>5, <1>0, <1>a DEF SendDirect
<1>6. CASE StoreDirect(r)
  BY <1>6, <1>0, <1>a DEF StoreDirect
<1>7. CASE FailEnd(r)
  BY <1>7, <1>0, <1>a DEF FailEnd, Retried
<1>8. CASE Fetch(r)
  BY <1>8, <1>0, <1>a DEF Fetch, Failing, EnqueuedOrRetried, Enqueued, Retried
<1>9. CASE Image(r)
  BY <1>9, <1>0, <1>a DEF Image
<1>10. CASE Audio(r)
  BY <1>10, <1>0, <1>a DEF Audio, Failing, EnqueuedOrRetried, Enqueued
<1>11. CASE Send(r)
  BY <1>11, <1>0, <1>a DEF Send, Retried
<1>12. CASE SendFirst(r)
  BY <1>12, <1>0, <1>a DEF SendFirst
<1>13. CASE Store(r)
  BY <1>13, <1>0, <1>a DEF Store
<1>14. CASE SendOne(r)
  BY <1>14, <1>0, <1>a DEF SendOne
<1>15. CASE SendEnd(r)
  BY <1>15, <1>0, <1>a DEF SendEnd
<1>16. CASE SendCached(r)
  BY <1>16, <1>0, <1>a DEF SendCached, Retried
<1>17. CASE Clear(r)
  BY <1>17, <1>0, <1>a DEF Clear, EnqueuedOrRetried, Enqueued, Retried
<1>18. CASE Crash(r)
  BY <1>18, <1>a DEF Crash
<1> QED BY <1>1, <1>2, <1>3, <1>4, <1>5, <1>6, <1>7, <1>8, <1>9, <1>10, <1>11, <1>12,
         <1>13, <1>14, <1>15, <1>16, <1>17, <1>18 DEF Task

\* ToldInv, as far as it is about the steps of one request.
ToldOf(r) ==
  /\ pc[r] \in Before => Listed(r)
  /\ pc[r] \in {"failDel", "failEach"} /\ then[r] = "reject" =>
       \E q \in batch[r] \cup told \cup missed : SameAsked(r, q)

\* What is asked by whom does not change.
LEMMA AskedIsRigid ==
  ASSUME NEW r \in Requests, NEW q \in Requests
  PROVE  /\ SameAsked(r, q)' <=> SameAsked(r, q)
         /\ SameAsked(r, r)
BY DEF SameAsked, CacheKey

\* Another request's step leaves a holder on its list: only the holder of a key
\* empties the list of the key.
LEMMA ToldByOthers ==
  ASSUME Conditions \cap Breaking = {}, ToldInv, NEW r \in Requests, StepOf(r),
         NEW q \in Requests, q # r, told \subseteq told', missed \subseteq missed',
         Listed(q) /\ ~Listed(q)' => pc[r] \in Deleting /\ CacheKey(q) = CacheKey(r)
  PROVE  ToldOf(q)'
<1>1. /\ pc'[q] = pc[q] /\ then'[q] = then[q]
      /\ batch'[q] = batch[q] /\ batch[q] \subseteq Requests
      /\ told \subseteq Requests /\ missed \subseteq Requests
      /\ ToldOf(q)
  BY TaskStep, OthersKeep DEF ToldInv, ToldOf, LockInv, TaskInv, TypeOK
<1>2. pc[q] \in Before => Listed(q)'
  BY <1>1 DEF ToldOf, ToldInv, LockInv, MutualExclusion, Before, Deleting, Locked
<1>3. \A p \in Requests : SameAsked(q, p)' <=> SameAsked(q, p)
  BY AskedIsRigid
<1> QED BY <1>1, <1>2, <1>3 DEF ToldOf

\* Every step keeps it that whose row fails is told.
LEMMA ToldStep ==
  ASSUME Conditions \cap Breaking = {}, ToldInv, NEW r \in Requests, StepOf(r)
  PROVE  FailureIsTold' /\ ListsOwn' /\ \A q \in Requests : ToldOf(q)'
<1>0. /\ pc \in [Requests -> Steps]
      /\ waiters \in [Keys -> Seq(Requests)]
      /\ row \in [Requests -> {"none", "QUEUED", "SUCCESS", "FAILED"}]
      /\ batch \in [Requests -> SUBSET Requests]
      /\ batch[r] \subseteq Requests
      /\ told \subseteq Requests /\ missed \subseteq Requests
      /\ key[r] = CacheKey(r) /\ CacheKey(r) \in Keys
      /\ TypeOK
      /\ ListsOwn
      /\ ToldOf(r)
  BY KeyType DEF ToldInv, ToldOf, LockInv, TaskInv, TypeOK
<1>f. \A q \in Requests :
        row[q] = "FAILED" => \E p \in Requests : SameAsked(q, p) /\ p \in told \cup missed
  BY DEF ToldInv, FailureIsTold
<1>s. \A p, q \in Requests : (SameAsked(p, q)' <=> SameAsked(p, q)) /\ SameAsked(p, p)
  BY AskedIsRigid
<1>1. CASE Park(r) \/ Register(r)
  <2>1. /\ row' = row /\ UNCHANGED messages /\ then' = then /\ batch' = batch
        /\ pc'[r] \notin {"failDel", "failEach"}
        /\ pc'[r] \in Before => waiters' = [waiters EXCEPT ![CacheKey(r)] = Append(@, r)]
        /\ waiters' = [waiters EXCEPT ![CacheKey(r)] = Append(@, r)] \/ UNCHANGED waiters
    <3>1. task[r] = "download"
      BY <1>1 DEF ToldInv, LockInv, TaskInv, Fits, DownloadSteps, Park, Register
    <3> QED BY <1>1, <1>0, <3>1 DEF Park, Register, Retried, Goto, Before, outcome,
           loop
  <2>2. /\ ListsOwn'
        /\ waiters' = [waiters EXCEPT ![CacheKey(r)] = Append(@, r)] => Listed(r)'
        /\ \A q \in Requests : q # r => (Listed(q)' <=> Listed(q))
    BY <1>0, <2>1, JoinedList, SameLists
  <2>3. FailureIsTold'
    BY <1>f, <1>s, <2>1 DEF FailureIsTold, messages
  <2>4. ToldOf(r)'
    BY <2>1, <2>2 DEF ToldOf, messages
  <2>5. \A q \in Requests : q # r => ToldOf(q)'
    BY <2>1, <2>2, ToldByOthers DEF messages
  <2> QED BY <2>2, <2>3, <2>4, <2>5
<1>2. CASE PopRead(r)
  <2> DEFINE list == waiters[CacheKey(r)]
  <2>1. /\ UNCHANGED <<waiters, row, told, missed, then>>
        /\ pc[r] \in {"directRead", "failRead", "sendRead"}
        /\ pc'[r] \notin Before
        /\ pc'[r] \in {"failDel", "failEach"} => pc[r] = "failRead"
    BY <1>2, <1>0 DEF PopRead, PopOf, AfterPop, Goto, Before, redis, outcome, messages
  <2>2. Listed(r)
    BY <1>0, <2>1 DEF ToldOf, Before
  <2>3. ASSUME pc[r] = "failRead"
        PROVE  \E q \in batch'[r] : SameAsked(r, q)
    <3>1. batch'[r] = OnePerChat(list) \/ batch'[r] = {r}
      BY <1>2, <1>0, <2>3 DEF PopRead, Served
    <3>2. CASE batch'[r] = OnePerChat(list)
      <4>1. PICK i \in DOMAIN list : list[i] = r
        BY <2>2 DEF Listed
      <4>2. list \in Seq(Requests)
        BY <1>0
      <4>3. PICK q \in OnePerChat(list) : ChatOf[q] = ChatOf[r]
        BY <4>1, <4>2, EveryChatIsAnswered
      <4>4. PICK n \in DOMAIN list : list[n] = q
        BY <4>2, AnsweredAreListed
      <4>5. CacheKey(q) = CacheKey(r)
        BY <1>0, <4>4 DEF ListsOwn
      <4> QED BY <3>2, <4>3, <4>5 DEF SameAsked
    <3>3. CASE batch'[r] = {r}
      BY <1>s, <3>3
    <3> QED BY <3>1, <3>2, <3>3
  <2>4. batch'[r] \subseteq Requests
    BY TypeStep, <1>0 DEF Next, StepOf, TypeOK
  <2>5. ToldOf(r)'
    BY <1>s, <2>1, <2>3, <2>4 DEF ToldOf
  <2>6. ListsOwn' /\ \A q \in Requests : Listed(q)' <=> Listed(q)
    BY <1>0, <2>1, SameLists
  <2>7. FailureIsTold'
    BY <1>f, <1>s, <2>1 DEF FailureIsTold
  <2> QED BY <2>1, <2>5, <2>6, <2>7, ToldByOthers
<1>3. CASE PopDel(r)
  <2>1. /\ UNCHANGED <<row, told, missed, then, batch>>
        /\ pc[r] \in Deleting
        /\ pc'[r] \notin Before \cup {"failDel"}
        /\ pc'[r] = "failEach" => pc[r] = "failDel"
        /\ waiters' = [waiters EXCEPT ![CacheKey(r)] = <<>>] \/ UNCHANGED waiters
    BY <1>3, <1>0 DEF PopDel, AfterPop, Goto, Before, Deleting, outcome, messages, loop
  <2>2. ToldOf(r)'
    BY <1>0, <1>s, <2>1 DEF ToldOf
  <2>3. ListsOwn' /\ \A q \in Requests : Listed(q) /\ ~Listed(q)' => CacheKey(q) = CacheKey(r)
    BY <1>0, <2>1, EmptiedList, SameLists
  <2>4. FailureIsTold'
    BY <1>f, <1>s, <2>1 DEF FailureIsTold
  <2> QED BY <2>1, <2>2, <2>3, <2>4, ToldByOthers
<1>4. CASE FailOne(r)
  <2>1. PICK q \in batch[r] :
          /\ \/ told' = told \cup {q} /\ UNCHANGED missed
             \/ missed' = missed \cup {q} /\ UNCHANGED told
          /\ row' = [row EXCEPT ![q] = "FAILED"]
          /\ batch' = [batch EXCEPT ![r] = @ \ {q}]
    BY <1>4 DEF FailOne, Tells
  <2>2. UNCHANGED <<waiters, pc, then>> /\ pc[r] = "failEach"
    BY <1>4 DEF FailOne, redis
  <2>3. ToldOf(r)'
    BY <1>0, <1>s, <2>1, <2>2 DEF ToldOf, Before
  <2>4. ListsOwn' /\ \A p \in Requests : Listed(p)' <=> Listed(p)
    BY <1>0, <2>2, SameLists
  <2>5. FailureIsTold'
    BY <1>0, <1>f, <1>s, <2>1 DEF FailureIsTold
  <2> QED BY <2>1, <2>3, <2>4, <2>5, ToldByOthers
<1>5. CASE ~Park(r) /\ ~Register(r) /\ ~PopRead(r) /\ ~PopDel(r) /\ ~FailOne(r)
  <2>1. Unlisted(r)
    BY <1>5, UnlistedStep DEF ToldInv, StepOf
  <2>2. ListsOwn' /\ \A q \in Requests : Listed(q)' <=> Listed(q)
    BY <1>0, <2>1, SameLists DEF Unlisted
  <2>3. ToldOf(r)'
    BY <1>0, <1>s, <2>1, <2>2 DEF ToldOf, Unlisted
  <2>4. FailureIsTold'
    BY <1>0, <1>f, <1>s, <2>1 DEF FailureIsTold, Unlisted, ToldOf
  <2> QED BY <2>1, <2>2, <2>3, <2>4, ToldByOthers DEF Unlisted
<1> QED BY <1>1, <1>2, <1>3, <1>4, <1>5

\* The invariant holds in every state.
LEMMA ToldAlways ==
  ASSUME Conditions \cap Breaking = {}
  PROVE  Spec => []ToldInv
<1>1. Init => ToldInv
  <2> SUFFICES ASSUME Init PROVE ToldInv
    OBVIOUS
  <2>1. DOMAIN <<>> = {}
    OBVIOUS
  <2> QED BY <2>1, LockInit DEF Init, ToldInv, FailureIsTold, ListsOwn, Before
<1>2. ToldInv /\ [Next]_vars => ToldInv'
  <2> SUFFICES ASSUME ToldInv, [Next]_vars PROVE ToldInv'
    OBVIOUS
  <2>1. LockInv'
    BY LockInvStep DEF ToldInv
  <2>2. ASSUME NEW r \in Requests, StepOf(r) PROVE ToldInv'
    BY <2>1, <2>2, ToldStep DEF ToldInv, ToldOf
  <2>3. ASSUME NEW k \in Keys, ExpireLock(k) \/ ExpireWaiters(k) PROVE ToldInv'
    <3>1. /\ ListsOwn'
          /\ \A q \in Requests : pc[q] \in Before /\ Listed(q) => Listed(q)'
      <4>1. CASE ExpireLock(k)
        BY <4>1, SameLists DEF ExpireLock, ToldInv
      <4>2. CASE ExpireWaiters(k)
        <5>1. \A q \in Requests : pc[q] \in Before => CacheKey(q) # k
          BY <4>2 DEF ExpireWaiters, May, Breaking, Idle, Works, Before, Locked
        <5> QED BY <4>2, <5>1, EmptiedList DEF ExpireWaiters, ToldInv, LockInv, TaskInv
      <4> QED BY <2>3, <4>1, <4>2
    <3>2. UNCHANGED <<pc, then, batch, told, missed, row>>
      BY <2>3 DEF ExpireLock, ExpireWaiters, job, loop, outcome, messages
    <3>3. FailureIsTold'
      BY <3>2 DEF ToldInv, FailureIsTold, SameAsked, CacheKey
    <3> QED BY <2>1, <3>1, <3>2, <3>3 DEF ToldInv, SameAsked, CacheKey
  <2>4. CASE UNCHANGED vars
    <3>1. UNCHANGED <<pc, then, batch, told, missed, row, waiters>>
      BY <2>4 DEF vars, redis, job, loop, outcome, messages
    <3> QED BY <2>1, <3>1, SameLists DEF ToldInv, FailureIsTold, SameAsked, CacheKey
  <2> QED BY <2>2, <2>3, <2>4 DEF Next, StepOf
<1> QED BY <1>1, <1>2, PTL DEF Spec

\* A message is missed only if Telegram refuses it.
LEMMA NothingMissed ==
  ASSUME "telegram" \notin Conditions
  PROVE  Spec => [](missed = {})
<1>1. Init => missed = {}
  BY DEF Init
<1>2. missed = {} /\ [Next]_vars => (missed = {})'
  <2> SUFFICES ASSUME missed = {}, [Next]_vars PROVE missed' = missed
    OBVIOUS
  <2>1. ASSUME NEW r \in Requests, Tells(r) PROVE missed' = missed
    BY <2>1 DEF Tells, May
  <2>2. ASSUME NEW r \in Requests, StepOf(r) PROVE missed' = missed
    <3>1. CASE Submit(r)
      BY <2>1, <3>1 DEF Submit, messages
    <3>2. CASE FailOne(r)
      BY <3>2 DEF FailOne, Tells, May
    <3>3. CASE UNCHANGED messages
      BY <3>3 DEF messages
    <3>4. Submit(r) \/ FailOne(r) \/ UNCHANGED messages
      BY <2>2 DEF StepOf, Task, LookupCache, Acquire, Park, Register, Probe, SendDirect,
         StoreDirect, PopRead, PopDel, FailEnd, Fetch, Image, Audio, Send, SendFirst,
         Store, SendOne, SendEnd, SendCached, Clear, Crash, outcome
    <3> QED BY <3>1, <3>2, <3>3, <3>4
  <2>3. ASSUME NEW k \in Keys, ExpireLock(k) \/ ExpireWaiters(k) PROVE missed' = missed
    BY <2>3 DEF ExpireLock, ExpireWaiters, outcome, messages
  <2>4. CASE UNCHANGED vars
    BY <2>4 DEF vars, outcome, messages
  <2> QED BY <2>2, <2>3, <2>4 DEF Next, StepOf
<1> QED BY <1>1, <1>2, PTL DEF Spec

\* Unless an image post, a lost lock, a failing READY row, a crash or, among songs,
\* an audio task's error is among the conditions, no row fails unheard: the worker
\* sent an error message for it, or for a request of the same chat for the same
\* media, which Telegram took or refused.
THEOREM FailureIsToldHolds ==
  ASSUME Conditions \cap Breaking = {}
  PROVE  Spec => []FailureIsTold
<1>1. ToldInv => FailureIsTold
  BY DEF ToldInv
<1> QED BY <1>1, ToldAlways, PTL

\* So when Telegram refuses nothing, a row that says FAILED is that of a chat that
\* has got an error message.
THEOREM FailureArrives ==
  ASSUME Conditions \cap (Breaking \cup {"telegram"}) = {}
  PROVE  Spec => [](\A r \in Requests :
                      row[r] = "FAILED" => \E q \in told : SameAsked(r, q))
<1>1. ToldInv /\ missed = {} =>
        \A r \in Requests : row[r] = "FAILED" => \E q \in told : SameAsked(r, q)
  BY DEF ToldInv, FailureIsTold
<1>2. Conditions \cap Breaking = {} /\ "telegram" \notin Conditions
  OBVIOUS
<1>3. Spec => []ToldInv
  BY <1>2, ToldAlways
<1>4. Spec => [](missed = {})
  BY <1>2, NothingMissed
<1> QED BY <1>1, <1>3, <1>4, PTL

-----------------------------------------------------------------------------
(* Who waits where.  As long as Redis and the queues answer and no post is *)
(* an image, a request is on its list, in the hands of one holder, or on   *)
(* its own way, but never in two of these places when it is served.        *)

Settled == (Answering \cup {"database", "lost"}) \ Breaking

\* The steps after which a request does nothing by itself but may be served.
Left == {"parked", "archived"}

WaitingInv ==
  /\ LockInv
  /\ ListsOwn
  /\ \A q \in Requests : Listed(q) => pc[q] \in Left \cup Before \cup Deleting
  /\ \A h \in Requests : \A q \in batch[h] :
       /\ pc[h] \in Deleting \cup Serving
       /\ CacheKey(q) = CacheKey(h)
       /\ q = h \/ pc[q] \in Left
       /\ pc[h] \in Serving => ~Listed(q)
  /\ \A h \in Requests :
       pc[h] \in {"sendDel", "sendFirst", "store"} => head[h] \in batch[h]

\* The steps of a holder at which those in its hands have not got anything yet.
Unserved == {"failDel", "failEach", "sendDel", "sendFirst", "store"}

\* How a step marks a row SUCCESS.
Marks(r, q) ==
  \/ q = r /\ pc[r] = "directStore" /\ pc'[r] = "directRead"
  \/ q = r /\ pc[r] = "cached" /\ pc'[r] = "done"
  \/ /\ q \in batch[r] \ batch'[r]
     /\ pc[r] \in Serving
     /\ pc'[r] \in {"directRest", "sendRest"}

\* How a step sends a copy, outside the direct flow.
Copies(r, q) ==
  \/ q = r /\ pc[r] = "cached" /\ pc'[r] = "done"
  \/ q = head[r] /\ pc[r] = "sendFirst" /\ pc'[r] = "store"
  \/ q \in batch[r] \ batch'[r] /\ pc[r] = "sendRest" /\ pc'[r] = "sendRest"

DirectSteps == {"direct", "directStore", "directRead", "directDel", "directRest"}

\* What a step other than Park, Register, PopRead and PopDel does to the places,
\* the rows and the chats.
Moves(r) ==
  /\ UNCHANGED <<waiters, head>>
  /\ batch'[r] \subseteq batch[r]
  /\ pc[r] \notin Left \cup Deleting \cup {"directRead", "done"}
  /\ pc'[r] \notin Deleting
  /\ pc[r] \in Before => pc'[r] \in Before \cup {"archived"}
  /\ pc[r] \in Serving => pc'[r] \in Serving \/ batch'[r] = {}

Shows(r) ==
  /\ pc'[r] \in {"sendFirst", "store"} => pc[r] = "sendFirst" /\ batch'[r] = batch[r]
  /\ pc'[r] \in Unserved => pc[r] \in Unserved
  /\ pc[r] \in {"directRest", "sendRest"} => pc'[r] \in {"directRest", "sendRest", "done"}
  /\ pc[r] = "store" => pc'[r] = "sendRest" /\ batch'[r] = batch[r] \ {head[r]}
  /\ \A q \in Requests : row'[q] = "SUCCESS" => row[q] = "SUCCESS" \/ Marks(r, q)
  /\ \A q \in Requests : row[q] = "SUCCESS" /\ row'[q] # "SUCCESS" =>
       \/ q \in batch[r] /\ pc[r] = "failEach"
       \/ q = r /\ pc[r] \in {"failEach", "idle"}

\* All steps but Park, Register, PopRead and PopDel move and show so.
LEMMA MovingStep ==
  ASSUME Conditions \subseteq Settled, WaitingInv, NEW r \in Requests, StepOf(r),
         ~Park(r), ~Register(r), ~PopRead(r), ~PopDel(r)
  PROVE  Moves(r) /\ Shows(r)
<1>0. /\ pc \in [Requests -> Steps]
      /\ task \in [Requests -> Queues]
      /\ tries \in [Requests -> 0..JobAttempts]
      /\ row \in [Requests -> {"none", "QUEUED", "SUCCESS", "FAILED"}]
      /\ batch \in [Requests -> SUBSET Requests]
      /\ head[r] \in Requests
      /\ pc[r] # "image"
      /\ pc[r] = "audio" => tries[r] = 0 /\ TypeOf[r] = "AUDIO"
      /\ Fits(pc[r], task[r], then[r])
      /\ pc[r] = "store" => head[r] \in batch[r]
  BY DEF WaitingInv, LockInv, TaskInv, TypeOK
<1>a. /\ "image" \notin Conditions /\ "lateImage" \notin Conditions
      /\ "slow" \notin Conditions /\ "store" \notin Conditions
      /\ "convert" \notin Conditions /\ "crash" \notin Conditions
      /\ "redis" \notin Conditions /\ "enqueue" \notin Conditions
      /\ TypeOf[r] = "AUDIO" => "setup" \notin Conditions
  BY DEF Settled, Answering, Breaking, SongBreaking
<1> USE DEF Moves, Shows, Marks, Before, Deleting, Serving, Left, Unserved, Fits,
            Queues, DownloadSteps, FailSteps, Goto, May, attempt, loop, redis, outcome
<1>1. CASE Submit(r)
  BY <1>1, <1>0, <1>a DEF Submit, Enqueued
<1>2. CASE LookupCache(r)
  BY <1>2, <1>0, <1>a DEF LookupCache, EnqueuedOrRetried, Enqueued
<1>3. CASE Acquire(r)
  BY <1>3, <1>0, <1>a DEF Acquire
<1>4. CASE Probe(r)
  BY <1>4, <1>0, <1>a DEF Probe, Failing
<1>5. CASE SendDirect(r)
  BY <1>5, <1>0, <1>a DEF SendDirect
<1>6. CASE StoreDirect(r)
  BY <1>6, <1>0, <1>a DEF StoreDirect
<1>7. CASE FailOne(r)
  BY <1>7, <1>0, <1>a DEF FailOne
<1>8. CASE FailEnd(r)
  BY <1>8, <1>0, <1>a DEF FailEnd, Retried
<1>9. CASE Fetch(r)
  BY <1>9, <1>0, <1>a DEF Fetch, Failing, EnqueuedOrRetried, Enqueued
<1>10. CASE Image(r)
  BY <1>10, <1>0, <1>a DEF Image
<1>11. CASE Audio(r)
  BY <1>11, <1>0, <1>a DEF Audio, Failing, EnqueuedOrRetried, Enqueued
<1>12. CASE Send(r)
  BY <1>12, <1>0, <1>a DEF Send, Retried
<1>13. CASE SendFirst(r)
  BY <1>13, <1>0, <1>a DEF SendFirst
<1>14. CASE Store(r)
  BY <1>14, <1>0, <1>a DEF Store
<1>15. CASE SendOne(r)
  BY <1>15, <1>0, <1>a DEF SendOne
<1>16. CASE SendEnd(r)
  BY <1>16, <1>0, <1>a DEF SendEnd
<1>17. CASE SendCached(r)
  BY <1>17, <1>0, <1>a DEF SendCached, Retried
<1>18. CASE Clear(r)
  BY <1>18, <1>0, <1>a DEF Clear, EnqueuedOrRetried, Enqueued
<1>19. CASE Crash(r)
  BY <1>19, <1>a DEF Crash
<1> QED BY <1>1, <1>2, <1>3, <1>4, <1>5, <1>6, <1>7, <1>8, <1>9, <1>10, <1>11, <1>12,
         <1>13, <1>14, <1>15, <1>16, <1>17, <1>18, <1>19 DEF StepOf, Task

\* The four steps that touch a list or read it.
Joins(r) ==
  /\ pc[r] \in {"park", "register"} /\ pc'[r] \in {"parked", "probe"}
  /\ waiters' = [waiters EXCEPT ![CacheKey(r)] = Append(@, r)]
  /\ UNCHANGED <<batch, head, row, sent>>

Reads(r) ==
  /\ \/ pc[r] = "directRead" /\ pc'[r] = "directDel"
     \/ pc[r] = "failRead" /\ pc'[r] = "failDel"
     \/ pc[r] = "sendRead" /\ pc'[r] = "sendDel"
  /\ \A q \in batch'[r] : q = r \/ (Listed(q) /\ CacheKey(q) = CacheKey(r))
  /\ pc'[r] = "sendDel" => head'[r] \in batch'[r]
  /\ UNCHANGED <<waiters, row, sent>>

Deletes(r) ==
  /\ \/ pc[r] = "directDel" /\ pc'[r] = "directRest"
     \/ pc[r] = "failDel" /\ pc'[r] = "failEach"
     \/ pc[r] = "sendDel" /\ pc'[r] = "sendFirst"
  /\ waiters' = [waiters EXCEPT ![CacheKey(r)] = <<>>]
  /\ UNCHANGED <<batch, head, row, sent>>

\* Those four join, read and delete so, while Redis answers.
LEMMA ListStep ==
  ASSUME Conditions \subseteq Settled, WaitingInv, NEW r \in Requests
  PROVE  /\ Park(r) \/ Register(r) => Joins(r)
         /\ PopRead(r) => Reads(r)
         /\ PopDel(r) => Deletes(r)
<1>0. /\ pc \in [Requests -> Steps]
      /\ waiters \in [Keys -> Seq(Requests)]
      /\ batch \in [Requests -> SUBSET Requests]
      /\ head \in [Requests -> Requests]
      /\ key[r] = CacheKey(r) /\ CacheKey(r) \in Keys
      /\ ListsOwn
  BY KeyType DEF WaitingInv, LockInv, TaskInv, TypeOK
<1>a. "redis" \notin Conditions
  BY DEF Settled, Answering
<1>1. ASSUME Park(r) \/ Register(r) PROVE Joins(r)
  BY <1>1, <1>0, <1>a DEF Park, Register, Joins, Goto, May, loop, outcome
<1>2. ASSUME PopDel(r) PROVE Deletes(r)
  BY <1>2, <1>0, <1>a DEF PopDel, AfterPop, Deletes, Goto, May, loop, outcome
<1>3. ASSUME PopRead(r) PROVE Reads(r)
  <2> DEFINE list == waiters[CacheKey(r)]
             popped == IF list = <<>> THEN {r} ELSE OnePerChat(list)
             first == IF list = <<>> THEN r ELSE Head(list)
  <2>1. /\ batch'[r] = Served(r, popped, first)
        /\ head'[r] = first
        /\ pc[r] \in DOMAIN PopOf /\ pc'[r] = PopOf[pc[r]]
        /\ UNCHANGED <<waiters, row, sent>>
    BY <1>3, <1>0, <1>a DEF PopRead, Goto, May, redis, outcome
  <2>2. \A q \in popped : q = r \/ (Listed(q) /\ CacheKey(q) = CacheKey(r))
    <3>1. ASSUME NEW q \in OnePerChat(list) PROVE Listed(q) /\ CacheKey(q) = CacheKey(r)
      <4>1. PICK i \in DOMAIN list : list[i] = q
        BY <1>0, AnsweredAreListed
      <4>2. CacheKey(q) = CacheKey(r)
        BY <1>0, <4>1 DEF ListsOwn
      <4> QED BY <4>1, <4>2 DEF Listed
    <3> QED BY <3>1
  <2>3. first \in popped
    BY <1>0, AnsweredAreListed
  <2> HIDE DEF popped, first
  <2>4. batch'[r] \subseteq popped /\ (pc[r] = "sendRead" => batch'[r] = popped)
    BY <2>1 DEF Served
  <2> QED BY <2>1, <2>2, <2>3, <2>4 DEF Reads, PopOf
<1> QED BY <1>1, <1>2, <1>3

\* Keys are rigid.
LEMMA KeysAreRigid ==
  ASSUME NEW q \in Requests PROVE CacheKey(q)' = CacheKey(q)
BY DEF CacheKey

\* Every step of a request keeps everybody in his place.
LEMMA WaitingStep ==
  ASSUME Conditions \subseteq Settled, WaitingInv, LockInv', NEW r \in Requests, StepOf(r)
  PROVE  WaitingInv'
<1> DEFINE InHands(h, q) == /\ pc'[h] \in Deleting \cup Serving
                            /\ CacheKey(q) = CacheKey(h)
                            /\ q = h \/ pc'[q] \in Left
                            /\ pc'[h] \in Serving => ~Listed(q)'
<1>0. /\ TypeOK /\ ListsOwn /\ MutualExclusion
      /\ batch[r] \subseteq Requests
      /\ \A h \in Requests : batch[h] \subseteq Requests
      /\ \A q \in Requests : Listed(q) => pc[q] \in Left \cup Before \cup Deleting
      /\ \A h \in Requests : \A q \in batch[h] :
           /\ pc[h] \in Deleting \cup Serving
           /\ CacheKey(q) = CacheKey(h)
           /\ q = h \/ pc[q] \in Left
           /\ pc[h] \in Serving => ~Listed(q)
      /\ \A h \in Requests :
           pc[h] \in {"sendDel", "sendFirst", "store"} => head[h] \in batch[h]
  BY DEF WaitingInv, LockInv, TaskInv, TypeOK
<1>o. \A q \in Requests : q # r =>
        pc'[q] = pc[q] /\ batch'[q] = batch[q] /\ head'[q] = head[q]
  BY <1>0, TaskStep, OthersKeep DEF WaitingInv, LockInv
<1>b. \A h \in Requests : batch'[h] \subseteq Requests
  BY DEF LockInv, TaskInv, TypeOK
<1>q. SUFFICES /\ ListsOwn'
               /\ \A q \in Requests : Listed(q)' => pc'[q] \in Left \cup Before \cup Deleting
               /\ \A h \in Requests : \A q \in batch'[h] : InHands(h, q)
               /\ \A h \in Requests :
                    pc'[h] \in {"sendDel", "sendFirst", "store"} => head'[h] \in batch'[h]
  BY <1>b, KeysAreRigid DEF WaitingInv
<1> USE DEF Left, Before, Deleting, Serving
<1>1. CASE Joins(r)
  <2>1. /\ ListsOwn'
        /\ \A q \in Requests : q # r => (Listed(q)' <=> Listed(q))
    BY <1>0, <1>1, JoinedList DEF Joins
  <2>2. \A h \in Requests : r \notin batch[h]
    BY <1>0, <1>1 DEF Joins
  <2>3. \A h \in Requests : batch'[h] = batch[h] /\ head'[h] = head[h]
    BY <1>1 DEF Joins
  <2>4. \A h \in Requests : \A q \in batch'[h] : InHands(h, q)
    <3> SUFFICES ASSUME NEW h \in Requests, NEW q \in batch'[h] PROVE InHands(h, q)
      OBVIOUS
    <3>1. q \in batch[h] /\ q # r /\ q \in Requests
      BY <1>b, <2>2, <2>3
    <3>2. h # r
      BY <1>0, <1>1, <3>1 DEF Joins
    <3> QED BY <1>0, <1>o, <2>1, <3>1, <3>2
  <2> QED BY <1>0, <1>1, <1>o, <2>1, <2>3, <2>4 DEF Joins
<1>2. CASE Reads(r)
  <2>1. ListsOwn' /\ \A q \in Requests : Listed(q)' <=> Listed(q)
    BY <1>0, <1>2, SameLists DEF Reads
  <2>2. ASSUME NEW q \in Requests, Listed(q), CacheKey(q) = CacheKey(r), q # r
        PROVE  pc[q] \in Left
    BY <1>0, <1>2, <2>2 DEF MutualExclusion, Reads, Locked
  <2>3. ASSUME NEW h \in Requests, NEW q \in batch'[h] PROVE InHands(h, q)
    <3>1. q \in Requests
      BY <1>b, <2>3
    <3>2. CASE h = r
      BY <1>2, <1>o, <2>2, <2>3, <3>1, <3>2 DEF Reads
    <3>3. CASE h # r
      <4>1. q \in batch[h] /\ pc'[h] = pc[h]
        BY <1>o, <2>3, <3>3
      <4>2. q # r
        BY <1>0, <1>2, <3>3, <4>1 DEF Reads
      <4> QED BY <1>0, <1>o, <2>1, <3>1, <4>1, <4>2
    <3> QED BY <3>2, <3>3
  <2> QED BY <1>0, <1>2, <1>o, <2>1, <2>3 DEF Reads
<1>3. CASE Deletes(r)
  <2>1. /\ ListsOwn'
        /\ \A q \in Requests : Listed(q)' <=> Listed(q) /\ CacheKey(q) # CacheKey(r)
    BY <1>0, <1>3, EmptiedList, KeyType DEF Deletes
  <2>2. ASSUME NEW h \in Requests, NEW q \in batch'[h] PROVE InHands(h, q)
    <3>1. q \in Requests /\ q \in batch[h]
      BY <1>0, <1>3, <2>2 DEF Deletes
    <3>2. CASE h = r
      BY <1>0, <1>3, <1>o, <2>1, <3>1, <3>2 DEF Deletes
    <3>3. CASE h # r
      <4>1. q # r
        BY <1>0, <1>3, <3>1, <3>3 DEF Deletes
      <4> QED BY <1>0, <1>o, <2>1, <3>1, <3>3, <4>1
    <3> QED BY <3>2, <3>3
  <2> QED BY <1>0, <1>3, <1>o, <2>1, <2>2 DEF Deletes
<1>4. CASE Moves(r) /\ Shows(r)
  <2>1. ListsOwn' /\ \A q \in Requests : Listed(q)' <=> Listed(q)
    BY <1>0, <1>4, SameLists DEF Moves
  <2>2. ASSUME NEW h \in Requests, NEW q \in batch'[h] PROVE InHands(h, q)
    <3>1. q \in Requests /\ q \in batch[h]
      BY <1>0, <1>4, <1>o, <2>2 DEF Moves
    <3>2. CASE h = r
      BY <1>0, <1>4, <1>o, <2>1, <2>2, <3>1, <3>2 DEF Moves
    <3>3. CASE h # r
      <4>1. q # r
        BY <1>0, <1>4, <3>1, <3>3 DEF Moves
      <4> QED BY <1>0, <1>o, <2>1, <3>1, <3>3, <4>1
    <3> QED BY <3>2, <3>3
  <2>3. \A q \in Requests : Listed(q)' => pc'[q] \in Left \cup Before \cup Deleting
    BY <1>0, <1>4, <1>o, <2>1 DEF Moves
  <2>4. ASSUME NEW h \in Requests, pc'[h] \in {"sendDel", "sendFirst", "store"}
        PROVE  head'[h] \in batch'[h]
    BY <1>0, <1>4, <1>o, <2>4 DEF Moves, Shows
  <2> QED BY <2>1, <2>2, <2>3, <2>4
<1> QED BY <1>1, <1>2, <1>3, <1>4, ListStep, MovingStep

\* At first nobody waits, and every step keeps everybody in his place.
LEMMA WaitingInvHolds ==
  ASSUME Conditions \subseteq Settled
  PROVE  /\ Init => WaitingInv
         /\ WaitingInv /\ [Next]_vars => WaitingInv'
<1>0. Conditions \cap Breaking = {}
  BY DEF Settled
<1>1. Init => WaitingInv
  <2>1. DOMAIN <<>> = {}
    OBVIOUS
  <2> QED BY <2>1, LockInit, KeyType DEF Init, WaitingInv, ListsOwn, Listed
<1>2. ASSUME WaitingInv, [Next]_vars PROVE WaitingInv'
  <2>1. LockInv'
    BY <1>0, <1>2, LockInvStep DEF WaitingInv
  <2>2. ASSUME NEW r \in Requests, StepOf(r) PROVE WaitingInv'
    BY <1>2, <2>1, <2>2, WaitingStep
  <2>3. ASSUME UNCHANGED <<pc, batch, head>>, ListsOwn',
               \A q \in Requests : Listed(q)' => Listed(q)
        PROVE  WaitingInv'
    <3>1. \A h \in Requests : batch[h] \subseteq Requests
      BY <1>2 DEF WaitingInv, LockInv, TaskInv, TypeOK
    <3> QED BY <1>2, <2>1, <2>3, <3>1, KeysAreRigid DEF WaitingInv
  <2>4. ASSUME NEW k \in Keys, ExpireLock(k) \/ ExpireWaiters(k) PROVE WaitingInv'
    <3>1. UNCHANGED <<pc, batch, head>>
      BY <2>4 DEF ExpireLock, ExpireWaiters, job, loop
    <3>2. UNCHANGED waiters \/ waiters' = [waiters EXCEPT ![k] = <<>>]
      BY <2>4 DEF ExpireLock, ExpireWaiters
    <3>3. ListsOwn' /\ \A q \in Requests : Listed(q)' => Listed(q)
      BY <1>2, <3>2, SameLists, EmptiedList DEF WaitingInv, LockInv, TaskInv
    <3> QED BY <2>3, <3>1, <3>3
  <2>5. CASE UNCHANGED vars
    <3>1. UNCHANGED <<pc, batch, head, waiters>>
      BY <2>5 DEF vars, redis, job, loop
    <3> QED BY <1>2, <2>3, <3>1, SameLists DEF WaitingInv
  <2> QED BY <1>2, <2>2, <2>4, <2>5 DEF Next, StepOf
<1> QED BY <1>1, <1>2

-----------------------------------------------------------------------------
(* SUCCESS is final.                                                       *)

\* Who was served has no way to a failing row: the task is over or in the last
\* steps of a delivery, and no list or failing holder has the recipient.
ServedOf(q) ==
  /\ pc[q] \in Left \cup {"directRead", "directDel", "directRest", "sendRest", "done"}
  /\ Listed(q) => pc[q] \notin Left
  /\ \A h \in Requests : q \in batch[h] => pc[h] \notin Unserved

FinalInv ==
  /\ WaitingInv
  /\ \A q \in Requests : row[q] = "SUCCESS" => ServedOf(q)

\* A holder of a recipient and another holder do not have the same key.
LEMMA OneHolder ==
  ASSUME WaitingInv, NEW r \in Requests, NEW h \in Requests, NEW q \in Requests,
         q \in batch[h], pc[r] \in Locked, CacheKey(q) = CacheKey(r)
  PROVE  h = r
BY DEF WaitingInv, LockInv, MutualExclusion, Deleting, Serving, Locked

\* No step fails who was served, and who is served is out of reach of failure.
LEMMA FinalStep ==
  ASSUME Conditions \subseteq Settled, FinalInv, WaitingInv', NEW r \in Requests, StepOf(r)
  PROVE  /\ \A q \in Requests : row[q] = "SUCCESS" => row'[q] = "SUCCESS"
         /\ \A q \in Requests : row'[q] = "SUCCESS" => ServedOf(q)'
<1>0. /\ TypeOK /\ WaitingInv /\ MutualExclusion
      /\ \A h \in Requests : batch[h] \subseteq Requests /\ batch'[h] \subseteq Requests
      /\ \A q \in Requests : Listed(q) => pc[q] \in Left \cup Before \cup Deleting
      /\ \A q \in Requests : row[q] = "SUCCESS" => ServedOf(q)
  BY DEF FinalInv, WaitingInv, LockInv, TaskInv, TypeOK
<1>w. /\ \A h \in Requests : \A q \in batch[h] :
           /\ pc[h] \in Deleting \cup Serving
           /\ CacheKey(q) = CacheKey(h)
           /\ q = h \/ pc[q] \in Left
           /\ pc[h] \in Serving => ~Listed(q)
      /\ \A h \in Requests : \A q \in batch'[h] :
           /\ pc'[h] \in Deleting \cup Serving
           /\ q = h \/ pc'[q] \in Left
  BY <1>0 DEF WaitingInv
<1>o. \A q \in Requests : q # r => pc'[q] = pc[q] /\ batch'[q] = batch[q]
  BY <1>0, TaskStep, OthersKeep DEF WaitingInv, LockInv
<1> USE DEF Left, Before, Deleting, Serving, Unserved
<1>1. CASE Joins(r)
  <2>1. \A q \in Requests : q # r => (Listed(q)' <=> Listed(q))
    BY <1>0, <1>1, JoinedList DEF Joins
  <2>2. row' = row /\ row[r] # "SUCCESS"
    BY <1>0, <1>1 DEF Joins, ServedOf
  <2>3. \A h \in Requests : batch'[h] = batch[h]
    BY <1>1 DEF Joins
  <2>4. r \notin batch[r]
    BY <1>w, <1>1 DEF Joins
  <2>5. ASSUME NEW q \in Requests, row[q] = "SUCCESS" PROVE ServedOf(q)'
    <3>1. q # r /\ ServedOf(q)
      BY <1>0, <2>2, <2>5
    <3>2. batch[r] = {}
      BY <1>w, <1>1 DEF Joins
    <3> QED BY <1>o, <2>1, <2>3, <3>1, <3>2 DEF ServedOf
  <2> QED BY <2>2, <2>5
<1>2. CASE Reads(r)
  <2>1. \A q \in Requests : Listed(q)' <=> Listed(q)
    BY <1>2, SameLists DEF Reads
  <2>2. row' = row
    BY <1>2 DEF Reads
  <2>3. ASSUME NEW q \in Requests, row[q] = "SUCCESS" PROVE ServedOf(q)'
    <3>1. ServedOf(q)
      BY <1>0, <2>3
    <3>2. pc'[q] \in Left \cup {"directRead", "directDel", "directRest", "sendRest", "done"}
      BY <1>2, <1>o, <3>1 DEF Reads, ServedOf
    <3>3. Listed(q)' => pc'[q] \notin Left
      BY <1>2, <1>o, <2>1, <3>1 DEF Reads, ServedOf
    <3>4. ASSUME q \in batch'[r] PROVE pc'[r] = "directDel"
      <4>1. CASE q = r
        BY <1>2, <3>1, <4>1 DEF Reads, ServedOf
      <4>2. CASE Listed(q) /\ CacheKey(q) = CacheKey(r)
        <5>1. pc[q] \in {"directRead", "directDel"}
          BY <1>0, <3>1, <4>2 DEF ServedOf
        <5>2. q = r
          BY <1>0, <1>2, <4>2, <5>1 DEF MutualExclusion, Locked, Reads
        <5> QED BY <1>2, <5>1, <5>2 DEF Reads
      <4> QED BY <1>2, <3>4, <4>1, <4>2 DEF Reads
    <3>5. \A h \in Requests : q \in batch'[h] => pc'[h] \notin Unserved
      BY <1>o, <3>1, <3>4 DEF ServedOf
    <3> QED BY <3>2, <3>3, <3>5 DEF ServedOf
  <2> QED BY <2>2, <2>3
<1>3. CASE Deletes(r)
  <2>1. \A q \in Requests : Listed(q)' => Listed(q)
    BY <1>0, <1>3, EmptiedList, KeyType DEF Deletes
  <2>2. row' = row /\ \A h \in Requests : batch'[h] = batch[h]
    BY <1>3 DEF Deletes
  <2>3. ASSUME NEW q \in Requests, row[q] = "SUCCESS" PROVE ServedOf(q)'
    <3>1. ServedOf(q)
      BY <1>0, <2>3
    <3>2. pc'[r] \in Unserved => pc[r] \in Unserved
      BY <1>3 DEF Deletes
    <3> QED BY <1>3, <1>o, <2>1, <2>2, <3>1, <3>2 DEF ServedOf, Deletes
  <2> QED BY <2>2, <2>3
<1>4. CASE Moves(r) /\ Shows(r)
  <2>1. \A q \in Requests : Listed(q)' <=> Listed(q)
    BY <1>4, SameLists DEF Moves
  <2>2. ASSUME NEW q \in Requests, row[q] = "SUCCESS" PROVE row'[q] = "SUCCESS"
    <3>1. ServedOf(q)
      BY <1>0, <2>2
    <3> QED BY <1>4, <2>2, <3>1 DEF Shows, ServedOf
  <2>3. ASSUME NEW q \in Requests, row[q] = "SUCCESS" PROVE ServedOf(q)'
    <3>1. ServedOf(q)
      BY <1>0, <2>3
    <3>2. q = r => pc'[r] \in {"directRest", "sendRest", "done"}
      BY <1>4, <3>1 DEF Moves, Shows, ServedOf
    <3>5. \A h \in Requests : q \in batch'[h] => pc'[h] \notin Unserved
      BY <1>4, <1>o, <3>1 DEF Moves, Shows, ServedOf
    <3> QED BY <1>o, <2>1, <3>1, <3>2, <3>5 DEF ServedOf
  <2>4. ASSUME NEW q \in Requests, Marks(r, q) PROVE ServedOf(q)'
    <3>1. CASE q = r /\ pc'[r] \in {"directRead", "done"}
      BY <1>w, <3>1 DEF ServedOf
    <3>2. CASE /\ q \in batch[r] \ batch'[r]
               /\ pc[r] \in Serving
               /\ pc'[r] \in {"directRest", "sendRest"}
      <4>1. ~Listed(q) /\ CacheKey(q) = CacheKey(r)
        BY <1>w, <3>2
      <4>2. \A h \in Requests : q \in batch[h] => h = r
        BY <1>0, <3>2, <4>1, OneHolder DEF Locked
      <4>3. \A h \in Requests : q \notin batch'[h]
        BY <1>o, <3>2, <4>2
      <4>4. pc'[q] \in Left \cup {"directRest", "sendRest"}
        BY <1>w, <1>o, <3>2
      <4> QED BY <2>1, <4>1, <4>3, <4>4 DEF ServedOf
    <3> QED BY <2>4, <3>1, <3>2 DEF Marks
  <2> QED BY <1>4, <2>2, <2>3, <2>4 DEF Shows
<1> QED BY <1>0, <1>1, <1>2, <1>3, <1>4, ListStep, MovingStep

\* Every step keeps the invariant and no step fails who was served.
LEMMA FinalInvStep ==
  ASSUME Conditions \subseteq Settled
  PROVE  /\ Init => FinalInv
         /\ FinalInv /\ [Next]_vars =>
              /\ FinalInv'
              /\ [\A r \in Requests : row[r] = "SUCCESS" => row'[r] = "SUCCESS"]_vars
<1>1. Init => FinalInv
  BY WaitingInvHolds DEF Init, FinalInv
<1>2. ASSUME FinalInv, [Next]_vars
      PROVE  /\ FinalInv'
             /\ [\A r \in Requests : row[r] = "SUCCESS" => row'[r] = "SUCCESS"]_vars
  <2>1. WaitingInv'
    BY <1>2, WaitingInvHolds DEF FinalInv
  <2>2. ASSUME NEW r \in Requests, StepOf(r)
        PROVE  FinalInv' /\ \A q \in Requests : row[q] = "SUCCESS" => row'[q] = "SUCCESS"
    BY <1>2, <2>1, <2>2, FinalStep DEF FinalInv
  <2>3. ASSUME UNCHANGED <<pc, batch, row>>, \A q \in Requests : Listed(q)' => Listed(q)
        PROVE  FinalInv' /\ \A q \in Requests : row[q] = "SUCCESS" => row'[q] = "SUCCESS"
    BY <1>2, <2>1, <2>3 DEF FinalInv, ServedOf
  <2>4. ASSUME NEW k \in Keys, ExpireLock(k) \/ ExpireWaiters(k)
        PROVE  UNCHANGED <<pc, batch, row>> /\ \A q \in Requests : Listed(q)' => Listed(q)
    <3>1. UNCHANGED waiters \/ waiters' = [waiters EXCEPT ![k] = <<>>]
      BY <2>4 DEF ExpireLock, ExpireWaiters
    <3>2. \A q \in Requests : Listed(q)' => Listed(q)
      BY <1>2, <3>1, SameLists, EmptiedList DEF FinalInv, WaitingInv, LockInv, TaskInv
    <3> QED BY <2>4, <3>2 DEF ExpireLock, ExpireWaiters, job, loop, outcome
  <2>5. CASE UNCHANGED vars
    <3>1. UNCHANGED <<pc, batch, row, waiters>>
      BY <2>5 DEF vars, redis, job, loop, outcome
    <3> QED BY <2>3, <3>1, SameLists
  <2> QED BY <1>2, <2>2, <2>3, <2>4, <2>5 DEF Next, StepOf
<1> QED BY <1>1, <1>2


\* While Redis and the queues answer and no post is an image, no list, holder or
\* retry fails a request that was served, whichever rows before the delivery and
\* Telegram calls fail, and, when nobody asks for a song, whichever settings.
THEOREM SuccessIsFinalHolds ==
  ASSUME Conditions \subseteq Settled
  PROVE  Spec => SuccessIsFinal
<1>1. /\ Init => FinalInv
      /\ FinalInv /\ [Next]_vars => FinalInv'
      /\ FinalInv /\ [Next]_vars =>
           [\A r \in Requests : row[r] = "SUCCESS" => row'[r] = "SUCCESS"]_vars
  BY FinalInvStep
<1> QED BY <1>1, PTL DEF Spec, SuccessIsFinal

-----------------------------------------------------------------------------
(* Nobody is served twice.                                                 *)

\* Who got a copy is off the lists, and in a holder's hands only as the first
\* recipient, until the holder has stored the file id.
CopiedOf(q) ==
  /\ sent[q] = 1
  /\ pc[q] \in Left \cup {"store", "sendRest", "done"}
  /\ ~Listed(q)
  /\ \A h \in Requests : q \in batch[h] => pc[h] = "store" /\ q = head[h]

OnceInv ==
  /\ WaitingInv
  /\ \A r \in Requests : pc[r] \notin DirectSteps
  /\ \A q \in Requests : sent[q] # 0 => CopiedOf(q)

\* Without formats that have a URL of their own there is no direct flow, and a
\* step sends at most one copy.
LEMMA CopyingStep ==
  ASSUME Conditions \subseteq Settled \ {"directUrl", "lost"}, OnceInv,
         NEW r \in Requests, StepOf(r)
  PROVE  /\ pc'[r] \notin DirectSteps
         /\ \A q \in Requests :
              sent'[q] # sent[q] => Copies(r, q) /\ (sent[q] = 0 => sent'[q] = 1)
<1>0. /\ pc \in [Requests -> Steps]
      /\ task \in [Requests -> Queues]
      /\ sent \in [Requests -> 0..SentBound]
      /\ batch \in [Requests -> SUBSET Requests]
      /\ head[r] \in Requests
      /\ pc[r] \notin DirectSteps
  BY DEF OnceInv, WaitingInv, LockInv, TaskInv, TypeOK
<1>a. "directUrl" \notin Conditions /\ "lost" \notin Conditions
  OBVIOUS
<1>s. ASSUME NEW p \in Requests, SentTo(p)
      PROVE  \A q \in Requests : sent'[q] # sent[q] => q = p /\ (sent[q] = 0 => sent'[q] = 1)
  BY <1>0, <1>s DEF SentTo, SentBound
<1> USE DEF DirectSteps, Queues, Goto, May, outcome, Copies
<1>1. CASE Submit(r) \/ LookupCache(r) \/ Acquire(r) \/ Park(r) \/ Register(r)
  BY <1>0, <1>1 DEF Submit, LookupCache, Acquire, Park, Register, EnqueuedOrRetried,
     Enqueued, Retried
<1>2. CASE Probe(r) \/ SendDirect(r) \/ StoreDirect(r)
  BY <1>0, <1>2, <1>a DEF Probe, SendDirect, StoreDirect, Failing
<1>3. CASE PopRead(r)
  BY <1>0, <1>3 DEF PopRead, PopOf, AfterPop
<1>4. CASE PopDel(r)
  BY <1>0, <1>4 DEF PopDel, AfterPop
<1>5. CASE FailOne(r) \/ FailEnd(r) \/ Fetch(r) \/ Image(r) \/ Audio(r)
  BY <1>0, <1>5 DEF FailOne, FailEnd, Fetch, Image, Audio, Failing, EnqueuedOrRetried,
     Enqueued, Retried
<1>6. CASE Send(r) \/ Store(r) \/ SendEnd(r) \/ Clear(r) \/ Crash(r)
  BY <1>0, <1>6 DEF Send, Store, SendEnd, Clear, Crash, EnqueuedOrRetried, Enqueued, Retried
<1>7. CASE SendFirst(r)
  BY <1>0, <1>7, <1>a, <1>s DEF SendFirst
<1>8. CASE SendOne(r)
  <2>1. /\ pc' = pc /\ pc[r] = "sendRest"
        /\ \E q \in batch[r] :
             /\ batch' = [batch EXCEPT ![r] = @ \ {q}]
             /\ SentTo(q) \/ UNCHANGED sent
    BY <1>0, <1>8, <1>a DEF SendOne
  <2> QED BY <1>0, <1>s, <2>1
<1>9. CASE SendCached(r)
  BY <1>0, <1>9, <1>a, <1>s DEF SendCached, Retried
<1> QED BY <1>1, <1>2, <1>3, <1>4, <1>5, <1>6, <1>7, <1>8, <1>9 DEF StepOf, Task

\* No step sends a second copy, and who is sent the first is out of all lists.
LEMMA OnceStep ==
  ASSUME Conditions \subseteq Settled \ {"directUrl", "lost"}, OnceInv, WaitingInv',
         NEW r \in Requests, StepOf(r)
  PROVE  OnceInv'
<1>0. /\ TypeOK /\ WaitingInv
      /\ batch[r] \subseteq Requests /\ head[r] \in Requests
      /\ sent \in [Requests -> 0..SentBound]
      /\ \A q \in Requests : Listed(q) => pc[q] \in Left \cup Before \cup Deleting
      /\ \A q \in Requests : sent[q] # 0 => CopiedOf(q)
      /\ pc[r] \in {"sendFirst", "store"} => head[r] \in batch[r]
      /\ Conditions \subseteq Settled
  BY DEF OnceInv, WaitingInv, LockInv, TaskInv, TypeOK
<1>w. /\ \A h \in Requests : \A q \in batch[h] :
           /\ pc[h] \in Deleting \cup Serving
           /\ CacheKey(q) = CacheKey(h)
           /\ q = h \/ pc[q] \in Left
           /\ pc[h] \in Serving => ~Listed(q)
      /\ \A h \in Requests : \A q \in batch'[h] : pc'[h] \in Deleting \cup Serving
  BY <1>0 DEF WaitingInv
<1>o. \A q \in Requests : q # r =>
        pc'[q] = pc[q] /\ batch'[q] = batch[q] /\ head'[q] = head[q]
  BY <1>0, TaskStep, OthersKeep DEF WaitingInv, LockInv
<1>d. \A q \in Requests : pc'[q] \notin DirectSteps
  BY <1>o, CopyingStep DEF OnceInv
<1>c. \A q \in Requests :
        sent'[q] # sent[q] => Copies(r, q) /\ (sent[q] = 0 => sent'[q] = 1)
  BY CopyingStep
<1>q. SUFFICES \A q \in Requests : sent'[q] # 0 => CopiedOf(q)'
  BY <1>d DEF OnceInv
<1> USE DEF Left, Before, Deleting, Serving
<1>1. CASE Joins(r)
  <2>1. \A q \in Requests : q # r => (Listed(q)' <=> Listed(q))
    BY <1>0, <1>1, JoinedList DEF Joins
  <2>2. sent' = sent /\ sent[r] = 0
    BY <1>0, <1>1 DEF Joins, CopiedOf
  <2>3. batch' = batch /\ batch[r] = {}
    BY <1>w, <1>1 DEF Joins
  <2> QED BY <1>0, <1>o, <2>1, <2>2, <2>3 DEF CopiedOf
<1>2. CASE Reads(r)
  <2>1. \A q \in Requests : Listed(q)' <=> Listed(q)
    BY <1>2, SameLists DEF Reads
  <2>2. sent' = sent /\ sent[r] = 0
    BY <1>0, <1>2 DEF Reads, CopiedOf
  <2>3. \A q \in Requests : q \in batch'[r] => sent[q] = 0
    BY <1>0, <1>2, <2>2 DEF Reads, CopiedOf
  <2> QED BY <1>0, <1>o, <2>1, <2>2, <2>3 DEF CopiedOf
<1>3. CASE Deletes(r)
  <2>1. \A q \in Requests : Listed(q)' => Listed(q)
    BY <1>0, <1>3, EmptiedList, KeyType DEF Deletes
  <2>2. sent' = sent /\ sent[r] = 0 /\ batch' = batch
    BY <1>0, <1>3 DEF Deletes, CopiedOf
  <2>3. \A q \in Requests : q \in batch[r] => sent[q] = 0
    BY <1>0, <1>3 DEF Deletes, CopiedOf
  <2> QED BY <1>0, <1>o, <2>1, <2>2, <2>3 DEF CopiedOf
<1>4. CASE Moves(r) /\ Shows(r)
  <2>1. \A q \in Requests : Listed(q)' <=> Listed(q)
    BY <1>4, SameLists DEF Moves
  <2>2. ASSUME NEW q \in Requests, sent[q] # 0 PROVE CopiedOf(q)'
    <3>1. CopiedOf(q)
      BY <1>0, <2>2
    <3>2. ~Copies(r, q)
      BY <1>0, <3>1 DEF Copies, CopiedOf
    <3>3. sent'[q] = 1
      BY <1>c, <3>1, <3>2 DEF CopiedOf
    <3>4. pc'[q] \in Left \cup {"store", "sendRest", "done"}
      BY <1>4, <1>o, <1>d, <3>1 DEF Moves, Shows, CopiedOf, DirectSteps
    <3>5. q \notin batch'[r]
      BY <1>4, <3>1 DEF Moves, Shows, CopiedOf
    <3> QED BY <1>o, <2>1, <3>1, <3>3, <3>4, <3>5 DEF CopiedOf
  <2>3. ASSUME NEW q \in Requests, sent[q] = 0, Copies(r, q), sent'[q] = 1
        PROVE  CopiedOf(q)'
    <3>1. CASE q = r /\ pc[r] = "cached" /\ pc'[r] = "done"
      <4>1. ~Listed(q)
        BY <1>0, <3>1
      <4>2. \A h \in Requests : q \notin batch[h]
        BY <1>w, <3>1
      <4>3. \A h \in Requests : q \notin batch'[h]
        BY <1>4, <1>o, <4>2 DEF Moves
      <4> QED BY <2>1, <2>3, <3>1, <4>1, <4>3 DEF CopiedOf
    <3>2. CASE q \in batch[r] /\ pc[r] \in {"sendFirst", "sendRest"}
               /\ pc'[r] \in {"store", "sendRest"}
               /\ (q \in batch'[r] => pc'[r] = "store" /\ q = head'[r])
      <4>1. ~Listed(q) /\ CacheKey(q) = CacheKey(r)
        BY <1>w, <3>2
      <4>2. \A h \in Requests : q \in batch[h] => h = r
        BY <1>0, <3>2, <4>1, OneHolder DEF Locked
      <4>3. pc'[q] \in Left \cup {"store", "sendRest"}
        BY <1>w, <1>o, <3>2
      <4> QED BY <1>o, <2>1, <2>3, <3>2, <4>1, <4>2, <4>3 DEF CopiedOf
    <3> QED BY <1>0, <1>4, <2>3, <3>1, <3>2 DEF Copies, Moves
  <2> QED BY <1>0, <1>c, <2>2, <2>3
<1> QED BY <1>0, <1>1, <1>2, <1>3, <1>4, ListStep, MovingStep

\* The invariant holds in every state.
LEMMA OnceAlways ==
  ASSUME Conditions \subseteq Settled \ {"directUrl", "lost"}
  PROVE  Spec => []OnceInv
<1>0. Conditions \subseteq Settled
  OBVIOUS
<1>1. Init => OnceInv
  BY <1>0, WaitingInvHolds DEF Init, OnceInv, DirectSteps
<1>2. OnceInv /\ [Next]_vars => OnceInv'
  <2> SUFFICES ASSUME OnceInv, [Next]_vars PROVE OnceInv'
    OBVIOUS
  <2>1. WaitingInv'
    BY <1>0, WaitingInvHolds DEF OnceInv
  <2>2. ASSUME NEW r \in Requests, StepOf(r) PROVE OnceInv'
    BY <2>1, <2>2, OnceStep
  <2>3. ASSUME UNCHANGED <<pc, batch, head, sent>>,
               \A q \in Requests : Listed(q)' => Listed(q)
        PROVE  OnceInv'
    BY <2>1, <2>3 DEF OnceInv, CopiedOf
  <2>4. ASSUME NEW k \in Keys, ExpireLock(k) \/ ExpireWaiters(k) PROVE OnceInv'
    <3>1. UNCHANGED waiters \/ waiters' = [waiters EXCEPT ![k] = <<>>]
      BY <2>4 DEF ExpireLock, ExpireWaiters
    <3>2. \A q \in Requests : Listed(q)' => Listed(q)
      BY <3>1, SameLists, EmptiedList DEF OnceInv, WaitingInv, LockInv, TaskInv
    <3> QED BY <2>3, <2>4, <3>2 DEF ExpireLock, ExpireWaiters, job, loop, outcome
  <2>5. CASE UNCHANGED vars
    <3>1. UNCHANGED <<pc, batch, head, sent, waiters>>
      BY <2>5 DEF vars, redis, job, loop, outcome
    <3> QED BY <2>3, <3>1, SameLists
  <2> QED BY <2>2, <2>4, <2>5 DEF Next, StepOf
<1> QED BY <1>1, <1>2, PTL DEF Spec

\* While Redis and the queues answer, no post is an image, no format has a URL of
\* its own and no answer to a send is lost, no request's chat is sent a second copy
\* on its behalf.
THEOREM AtMostOneCopyHolds ==
  ASSUME Conditions \subseteq Settled \ {"directUrl", "lost"}
  PROVE  Spec => []AtMostOneCopy
<1>1. OnceInv => AtMostOneCopy
  <2> SUFFICES ASSUME OnceInv, NEW r \in Requests PROVE sent[r] <= 1
    BY DEF AtMostOneCopy
  <2>1. sent[r] = 0 \/ sent[r] = 1
    BY DEF OnceInv, CopiedOf
  <2> QED BY <2>1
<1> QED BY <1>1, OnceAlways, PTL
=============================================================================
