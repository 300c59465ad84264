--------------------------- MODULE InFlightProofs ---------------------------
(* Proofs about InFlight, for every set of requests, posts and chats.      *)
EXTENDS InFlight, TLAPS

\* A step of a request: its submission, a step of its task, or a crash.
StepOf(r) == Submit(r) \/ Task(r) \/ Crash(r)

\* The key of a request is a key of the cache.
LEMMA KeyType ==
  ASSUME NEW r \in Requests
  PROVE  CacheKey(r) \in Keys
BY RequestsAssumption DEF CacheKey, Keys, VariantTypes, QualityOf

-----------------------------------------------------------------------------
(* Type correctness.                                                       *)

\* A step moves the task of its request to a step of the pipeline.
LEMMA GotoType ==
  ASSUME NEW r \in Requests, NEW step \in Steps, TypeOK, Goto(r, step)
  PROVE  pc' \in [Requests -> Steps]
BY DEF TypeOK, Goto

\* An error puts the task back on its own queue, at most JobAttempts times.
LEMMA RetriedType ==
  ASSUME NEW r \in Requests, TypeOK, Retried(r)
  PROVE  /\ pc' \in [Requests -> Steps]
         /\ task' \in [Requests -> Queues]
         /\ tries' \in [Requests -> 0..JobAttempts]
<1>0. /\ pc \in [Requests -> Steps]
      /\ task \in [Requests -> Queues]
      /\ tries \in [Requests -> 0..JobAttempts]
  BY DEF TypeOK
<1>1. task[r] \in Steps /\ "archived" \in Steps
  BY <1>0 DEF Steps
<1>2. CASE tries[r] < JobAttempts
  <2>1. tries[r] + 1 \in 0..JobAttempts
    BY <1>0, <1>2, JobAttemptsAssumption
  <2> QED BY <1>0, <1>1, <1>2, <2>1 DEF Retried, Goto
<1>3. CASE ~(tries[r] < JobAttempts)
  BY <1>0, <1>1, <1>3 DEF Retried, Goto, attempt
<1> QED BY <1>2, <1>3

\* A task that is handed on is on its new queue with no retry behind it.
LEMMA EnqueuedType ==
  ASSUME NEW r \in Requests, NEW queue \in Queues, TypeOK, Enqueued(r, queue)
  PROVE  /\ pc' \in [Requests -> Steps]
         /\ task' \in [Requests -> Queues]
         /\ tries' \in [Requests -> 0..JobAttempts]
<1>1. queue \in Steps
  BY DEF Steps
<1> QED BY <1>1, JobAttemptsAssumption DEF TypeOK, Enqueued, Goto

\* A send adds at most one to what the chat got.
LEMMA SentToType ==
  ASSUME NEW q \in Requests, TypeOK, SentTo(q)
  PROVE  sent' \in [Requests -> 0..SentBound]
<1>1. (IF sent[q] < SentBound THEN sent[q] + 1 ELSE sent[q]) \in 0..SentBound
  BY DEF TypeOK, SentBound
<1> QED BY <1>1 DEF TypeOK, SentTo

\* The recipients of a list of requests are requests.
LEMMA RecipientType ==
  ASSUME NEW list \in Seq(Requests)
  PROVE  /\ OnePerChat(list) \subseteq Requests
         /\ list # <<>> => Head(list) \in Requests
         /\ \A r \in Requests : Append(list, r) \in Seq(Requests)
<1>1. \A i \in 1..Len(list) : list[i] \in Requests
  OBVIOUS
<1>2. OnePerChat(list) \subseteq Requests
  BY <1>1 DEF OnePerChat
<1> QED BY <1>2

\* A list grows by a recipient, or is emptied.
LEMMA ParkType ==
  ASSUME NEW r \in Requests, NEW k \in Keys, TypeOK,
         \/ waiters' = [waiters EXCEPT ![k] = Append(@, r)]
         \/ waiters' = [waiters EXCEPT ![k] = <<>>]
         \/ UNCHANGED waiters
  PROVE  waiters' \in [Keys -> Seq(Requests)]
<1>1. Append(waiters[k], r) \in Seq(Requests) /\ <<>> \in Seq(Requests)
  BY RecipientType DEF TypeOK
<1> QED BY <1>1 DEF TypeOK

\* Where a step leaves a task, on which queue, and how often it was retried.
LEMMA PcType ==
  ASSUME NEW r \in Requests, TypeOK, StepOf(r)
  PROVE  /\ pc' \in [Requests -> Steps]
         /\ task' \in [Requests -> Queues]
         /\ tries' \in [Requests -> 0..JobAttempts]
<1>0. /\ pc \in [Requests -> Steps]
      /\ task \in [Requests -> Queues]
      /\ tries \in [Requests -> 0..JobAttempts]
  BY DEF TypeOK
<1>1. CASE Submit(r)
  <2>1. \/ Enqueued(r, "download")
        \/ Goto(r, "refused") /\ UNCHANGED attempt
    BY <1>1 DEF Submit
  <2> QED BY <1>0, <2>1, EnqueuedType DEF Queues, Goto, attempt, Steps
<1>2. CASE LookupCache(r)
  BY <1>2, <1>0, RetriedType, EnqueuedType DEF LookupCache, EnqueuedOrRetried, Queues,
     Goto, attempt, Steps
<1>3. CASE Acquire(r)
  BY <1>3, <1>0, RetriedType DEF Acquire, Goto, attempt, Steps, Locked
<1>4. CASE Park(r)
  BY <1>4, <1>0, RetriedType DEF Park, Goto, attempt, Steps
<1>5. CASE Register(r)
  BY <1>5, <1>0, RetriedType DEF Register, Goto, attempt, Steps, Locked
<1>6. CASE Probe(r)
  BY <1>6, <1>0 DEF Probe, Failing, Goto, attempt, Steps, Locked
<1>7. CASE SendDirect(r)
  BY <1>7, <1>0 DEF SendDirect, Goto, attempt, Steps, Locked
<1>8. CASE StoreDirect(r)
  BY <1>8, <1>0 DEF StoreDirect, Goto, attempt, Steps, Locked
<1>9. CASE PopRead(r)
  <2>1. /\ UNCHANGED attempt
        /\ Goto(r, PopOf[pc[r]]) \/ Goto(r, AfterPop[PopOf[pc[r]]])
        /\ pc[r] \in {"directRead", "failRead", "sendRead"}
    BY <1>9 DEF PopRead, PopOf
  <2>2. PopOf[pc[r]] \in Steps /\ AfterPop[PopOf[pc[r]]] \in Steps
    BY <2>1 DEF PopOf, AfterPop, Steps, Locked
  <2> QED BY <2>1, <2>2, <1>0, GotoType DEF attempt
<1>10. CASE PopDel(r)
  <2>1. /\ UNCHANGED attempt
        /\ Goto(r, AfterPop[pc[r]])
        /\ pc[r] \in {"directDel", "failDel", "sendDel"}
    BY <1>10 DEF PopDel, AfterPop
  <2>2. AfterPop[pc[r]] \in Steps
    BY <2>1 DEF AfterPop, Steps, Locked
  <2> QED BY <2>1, <2>2, <1>0, GotoType DEF attempt
<1>11. CASE FailOne(r)
  BY <1>11, <1>0 DEF FailOne, attempt
<1>12. CASE FailEnd(r)
  BY <1>12, <1>0, RetriedType DEF FailEnd, Goto, attempt, Steps
<1>13. CASE Fetch(r)
  BY <1>13, <1>0, RetriedType, EnqueuedType DEF Fetch, Failing, EnqueuedOrRetried,
     Queues, Goto, attempt, Steps, Locked
<1>14. CASE Image(r)
  BY <1>14, <1>0, EnqueuedType DEF Image, Failing, Queues, Goto, attempt, Steps, Locked
<1>15. CASE Audio(r)
  BY <1>15, <1>0, RetriedType, EnqueuedType DEF Audio, Failing, EnqueuedOrRetried,
     Queues, Goto, attempt, Steps, Locked
<1>16. CASE Send(r)
  BY <1>16, <1>0, RetriedType DEF Send, Goto, attempt, Steps, Locked
<1>17. CASE SendFirst(r)
  BY <1>17, <1>0 DEF SendFirst, Goto, attempt, Steps, Locked
<1>18. CASE Store(r)
  BY <1>18, <1>0, RetriedType DEF Store, Goto, attempt, Steps, Locked
<1>19. CASE SendOne(r)
  BY <1>19, <1>0 DEF SendOne, attempt
<1>20. CASE SendEnd(r)
  BY <1>20, <1>0 DEF SendEnd, Goto, attempt, Steps
<1>21. CASE SendCached(r)
  BY <1>21, <1>0, RetriedType DEF SendCached, Goto, attempt, Steps
<1>22. CASE Clear(r)
  BY <1>22, <1>0, RetriedType, EnqueuedType DEF Clear, EnqueuedOrRetried, Queues
<1>23. CASE Crash(r)
  BY <1>23, RetriedType DEF Crash
<1> QED BY <1>1, <1>2, <1>3, <1>4, <1>5, <1>6, <1>7, <1>8, <1>9, <1>10, <1>11, <1>12,
         <1>13, <1>14, <1>15, <1>16, <1>17, <1>18, <1>19, <1>20, <1>21, <1>22, <1>23
            DEF StepOf, Task

\* What a step leaves in Redis and in media_variants.
LEMMA StoreType ==
  ASSUME NEW r \in Requests, TypeOK, StepOf(r)
  PROVE  /\ lock' \subseteq Keys
         /\ waiters' \in [Keys -> Seq(Requests)]
         /\ fileId' \in [Keys -> BOOLEAN]
<1>0. /\ lock \subseteq Keys
      /\ waiters \in [Keys -> Seq(Requests)]
      /\ fileId \in [Keys -> BOOLEAN]
  BY DEF TypeOK
<1>1. CASE Acquire(r)
  BY <1>1, <1>0, KeyType DEF Acquire
<1>2. CASE Park(r)
  BY <1>2, <1>0, KeyType, ParkType DEF Park
<1>3. CASE Register(r)
  BY <1>3, <1>0, KeyType, ParkType DEF Register, Released
<1>4. CASE PopDel(r)
  <2>1. key[r] \in Keys
    BY DEF TypeOK
  <2> QED BY <1>4, <1>0, <2>1, ParkType DEF PopDel
<1>5. CASE Probe(r)
  BY <1>5, <1>0, KeyType DEF Probe, redis
<1>6. CASE StoreDirect(r)
  BY <1>6, <1>0, KeyType DEF StoreDirect, redis
<1>7. CASE FailEnd(r)
  BY <1>7, <1>0 DEF FailEnd, Released
<1>8. CASE Fetch(r)
  BY <1>8, <1>0 DEF Fetch, Released
<1>9. CASE Image(r)
  BY <1>9, <1>0 DEF Image, Released
<1>10. CASE Audio(r)
  BY <1>10, <1>0 DEF Audio, Released
<1>11. CASE Send(r)
  BY <1>11, <1>0, KeyType DEF Send, redis
<1>12. CASE Store(r)
  BY <1>12, <1>0 DEF Store, Released
<1>13. CASE SendEnd(r)
  BY <1>13, <1>0 DEF SendEnd, Released
<1>14. CASE SendCached(r)
  BY <1>14, <1>0, KeyType DEF SendCached, redis
<1>15. CASE Clear(r)
  BY <1>15, <1>0, KeyType DEF Clear, redis
<1>16. CASE Submit(r) \/ LookupCache(r) \/ SendDirect(r) \/ PopRead(r)
          \/ FailOne(r) \/ SendFirst(r) \/ SendOne(r) \/ Crash(r)
  BY <1>16, <1>0 DEF Crash, Submit, LookupCache, SendDirect, PopRead, FailOne,
     SendFirst, SendOne, redis
<1> QED BY <1>1, <1>2, <1>3, <1>4, <1>5, <1>6, <1>7, <1>8, <1>9, <1>10, <1>11, <1>12,
         <1>13, <1>14, <1>15, <1>16 DEF StepOf, Task

\* What a step leaves in the downloads rows and in the chats.
LEMMA OutcomeType ==
  ASSUME NEW r \in Requests, TypeOK, StepOf(r)
  PROVE  /\ row' \in [Requests -> {"none", "QUEUED", "SUCCESS", "FAILED"}]
         /\ sent' \in [Requests -> 0..SentBound]
         /\ told' \subseteq Requests /\ missed' \subseteq Requests
<1>0. /\ row \in [Requests -> {"none", "QUEUED", "SUCCESS", "FAILED"}]
      /\ sent \in [Requests -> 0..SentBound]
      /\ told \subseteq Requests /\ missed \subseteq Requests
  BY DEF TypeOK
<1>1. CASE SendDirect(r)
  BY <1>1, <1>0, SentToType DEF SendDirect, messages
<1>2. CASE SendCached(r)
  BY <1>2, <1>0, SentToType DEF SendCached, messages
<1>3. CASE SendFirst(r)
  <2>1. head[r] \in Requests /\ batch[r] \subseteq Requests
    BY DEF TypeOK
  <2> QED BY <1>3, <1>0, <2>1, SentToType DEF SendFirst, messages
<1>4. CASE SendOne(r)
  <2>1. head[r] \in Requests /\ batch[r] \subseteq Requests
    BY DEF TypeOK
  <2> QED BY <1>4, <1>0, <2>1, SentToType DEF SendOne, messages
<1>5. CASE FailOne(r)
  <2>1. head[r] \in Requests /\ batch[r] \subseteq Requests
    BY DEF TypeOK
  <2> QED BY <1>5, <1>0, <2>1 DEF FailOne, Tells
<1>6. CASE Submit(r)
  BY <1>6, <1>0 DEF Submit, Tells, messages
<1>7. CASE StoreDirect(r)
  BY <1>7, <1>0 DEF StoreDirect, messages
<1>8. CASE FailEnd(r)
  BY <1>8, <1>0 DEF FailEnd, messages
<1>9. CASE Store(r)
  BY <1>9, <1>0 DEF Store, messages
<1>10. CASE LookupCache(r) \/ Acquire(r) \/ Park(r) \/ Register(r)
          \/ Probe(r) \/ PopRead(r) \/ PopDel(r) \/ Fetch(r) \/ Image(r)
          \/ Audio(r) \/ Send(r) \/ SendEnd(r) \/ Clear(r) \/ Crash(r)
  BY <1>10, <1>0 DEF Crash, LookupCache, Acquire, Park, Register, Probe, PopRead,
     PopDel, Fetch, Image, Audio, Send, SendEnd, Clear, outcome, messages
<1> QED BY <1>1, <1>2, <1>3, <1>4, <1>5, <1>6, <1>7, <1>8, <1>9, <1>10 DEF StepOf, Task

\* The payload of the task, and the recipients still to be answered.
LEMMA LoopType ==
  ASSUME NEW r \in Requests, TypeOK, StepOf(r)
  PROVE  /\ key' \in [Requests -> Keys]
         /\ batch' \in [Requests -> SUBSET Requests]
         /\ head' \in [Requests -> Requests]
         /\ then' \in [Requests -> {"finish", "retry", "reject", "mute"}]
<1>0. /\ key \in [Requests -> Keys]
      /\ batch \in [Requests -> SUBSET Requests]
      /\ head \in [Requests -> Requests]
      /\ then \in [Requests -> {"finish", "retry", "reject", "mute"}]
  BY DEF TypeOK
<1>1. CASE PopRead(r)
  <2>1. /\ key' = key /\ then' = then
        /\ \E popped \in SUBSET Requests, first \in Requests :
              /\ batch' = [batch EXCEPT ![r] = Served(r, popped, first)]
              /\ head' = [head EXCEPT ![r] = first]
    <3>1. waiters[key[r]] \in Seq(Requests)
      BY DEF TypeOK
    <3>2. PICK popped \in SUBSET Requests, first \in Requests :
            /\ batch' = [batch EXCEPT ![r] = Served(r, popped, first)]
            /\ head' = [head EXCEPT ![r] = first]
      BY <1>1, <1>0, <3>1, RecipientType, Zenon DEF PopRead
    <3> QED BY <1>1, <1>0, <3>2 DEF PopRead
  <2> QED BY <2>1, <1>0 DEF Served
<1>2. CASE Image(r)
  <2>1. \A type \in {"IMAGE", "VIDEO"} : [CacheKey(r) EXCEPT !.type = type] \in Keys
    BY KeyType DEF Keys, VariantTypes
  <2>2. key' \in [Requests -> Keys]
    BY <1>2, <1>0, <2>1 DEF Image
  <2>3. then' \in [Requests -> {"finish", "retry", "reject", "mute"}]
    BY <1>2, <1>0 DEF Image, Failing
  <2> QED BY <1>2, <1>0, <2>2, <2>3 DEF Image
<1>3. CASE Probe(r)
  BY <1>3, <1>0 DEF Probe, Failing
<1>4. CASE StoreDirect(r)
  BY <1>4, <1>0 DEF StoreDirect
<1>5. CASE FailOne(r)
  BY <1>5, <1>0 DEF FailOne
<1>6. CASE Fetch(r)
  BY <1>6, <1>0 DEF Fetch, Failing
<1>7. CASE Audio(r)
  BY <1>7, <1>0 DEF Audio, Failing
<1>8. CASE SendFirst(r)
  BY <1>8, <1>0 DEF SendFirst
<1>9. CASE Store(r)
  BY <1>9, <1>0 DEF Store
<1>10. CASE SendOne(r)
  BY <1>10, <1>0 DEF SendOne
<1>11. CASE Submit(r) \/ LookupCache(r) \/ Acquire(r) \/ Park(r)
          \/ Register(r) \/ SendDirect(r) \/ PopDel(r) \/ FailEnd(r)
          \/ Send(r) \/ SendEnd(r) \/ SendCached(r) \/ Clear(r)
          \/ Crash(r)
  BY <1>11, <1>0 DEF Crash, Submit, LookupCache, Acquire, Park, Register, SendDirect,
     PopDel, FailEnd, Send, SendEnd, SendCached, Clear, loop
<1> QED BY <1>1, <1>2, <1>3, <1>4, <1>5, <1>6, <1>7, <1>8, <1>9, <1>10, <1>11 DEF
           StepOf, Task

\* The initial state is well typed.
LEMMA TypeInit == Init => TypeOK
<1>1. <<>> \in Seq(Requests)
  OBVIOUS
<1> QED BY <1>1, KeyType, JobAttemptsAssumption DEF Init, TypeOK, Steps, Queues,
           SentBound

\* Every step keeps the types.
LEMMA TypeStep == TypeOK /\ [Next]_vars => TypeOK'
<1> SUFFICES ASSUME TypeOK, [Next]_vars PROVE TypeOK'
  OBVIOUS
<1>1. ASSUME NEW r \in Requests, StepOf(r) PROVE TypeOK'
  BY <1>1, PcType, StoreType, OutcomeType, LoopType DEF TypeOK
<1>2. ASSUME NEW k \in Keys, ExpireLock(k) \/ ExpireWaiters(k) PROVE TypeOK'
  <2>1. waiters' \in [Keys -> Seq(Requests)]
    <3>1. <<>> \in Seq(Requests)
      OBVIOUS
    <3> QED BY <1>2, <3>1 DEF TypeOK, ExpireLock, ExpireWaiters
  <2> QED BY <1>2, <2>1 DEF TypeOK, ExpireLock, ExpireWaiters, outcome, messages, job,
             attempt, loop
<1>3. CASE UNCHANGED vars
  BY <1>3 DEF TypeOK, vars, redis, outcome, messages, job, attempt, loop
<1> QED BY <1>1, <1>2, <1>3 DEF Next, StepOf

\* Every state of every behaviour is well typed, whatever may happen in it.
THEOREM TypeCorrect == Spec => []TypeOK
BY TypeInit, TypeStep, PTL DEF Spec

-----------------------------------------------------------------------------
(* A task that ends in an error runs again from its own beginning.  In the *)
(* model that is the queue in the variable task, which must therefore name *)
(* the task that the step of a request belongs to.                         *)

DownloadSteps == {"acquire", "park", "register", "probe", "direct", "fetch", "image"}

FailSteps == {"failRead", "failDel", "failEach"}

\* What is known of the current task from the step of a request.
Fits(p, t, after) ==
  /\ p \in Queues => t = p
  /\ p \in DownloadSteps => t = "download"
  /\ p = "clear" => t = "cached"
  /\ p \in FailSteps /\ after = "retry" => t = "download"

TaskInv ==
  /\ TypeOK
  /\ \A r \in Requests : Fits(pc[r], task[r], then[r])

\* A step keeps the tasks of the other requests, and leaves its own at a step
\* of the task that task names.
LEMMA TaskStep ==
  ASSUME TaskInv, NEW r \in Requests, StepOf(r)
  PROVE  /\ \A q \in Requests \ {r} :
              /\ pc'[q] = pc[q] /\ then'[q] = then[q]
              /\ task'[q] = task[q] /\ tries'[q] = tries[q]
         /\ Fits(pc'[r], task'[r], then'[r])
<1>0. /\ pc \in [Requests -> Steps]
      /\ task \in [Requests -> Queues]
      /\ tries \in [Requests -> 0..JobAttempts]
      /\ then \in [Requests -> {"finish", "retry", "reject", "mute"}]
      /\ Fits(pc[r], task[r], then[r])
  BY DEF TaskInv, TypeOK
<1> USE DEF Fits, Queues, DownloadSteps, FailSteps, Goto, attempt, loop
<1>1. CASE Submit(r)
  BY <1>1, <1>0 DEF Submit, Enqueued
<1>2. CASE LookupCache(r)
  BY <1>2, <1>0 DEF LookupCache, EnqueuedOrRetried, Enqueued, Retried
<1>3. CASE Acquire(r)
  BY <1>3, <1>0 DEF Acquire, Retried
<1>4. CASE Park(r)
  BY <1>4, <1>0 DEF Park, Retried
<1>5. CASE Register(r)
  BY <1>5, <1>0 DEF Register, Retried
<1>6. CASE Probe(r)
  BY <1>6, <1>0 DEF Probe, Failing
<1>7. CASE SendDirect(r)
  BY <1>7, <1>0 DEF SendDirect
<1>8. CASE StoreDirect(r)
  BY <1>8, <1>0 DEF StoreDirect
<1>9. CASE PopRead(r)
  BY <1>9, <1>0 DEF PopRead, PopOf, AfterPop
<1>10. CASE PopDel(r)
  BY <1>10, <1>0 DEF PopDel, AfterPop
<1>11. CASE FailOne(r)
  BY <1>11, <1>0 DEF FailOne
<1>12. CASE FailEnd(r)
  BY <1>12, <1>0 DEF FailEnd, Retried
<1>13. CASE Fetch(r)
  BY <1>13, <1>0 DEF Fetch, Failing, EnqueuedOrRetried, Enqueued, Retried
<1>14. CASE Image(r)
  BY <1>14, <1>0 DEF Image, Failing, Enqueued
<1>15. CASE Audio(r)
  BY <1>15, <1>0 DEF Audio, Failing, EnqueuedOrRetried, Enqueued, Retried
<1>16. CASE Send(r)
  BY <1>16, <1>0 DEF Send, Retried
<1>17. CASE SendFirst(r)
  BY <1>17, <1>0 DEF SendFirst
<1>18. CASE Store(r)
  BY <1>18, <1>0 DEF Store, Retried
<1>19. CASE SendOne(r)
  BY <1>19, <1>0 DEF SendOne
<1>20. CASE SendEnd(r)
  BY <1>20, <1>0 DEF SendEnd
<1>21. CASE SendCached(r)
  BY <1>21, <1>0 DEF SendCached, Retried
<1>22. CASE Clear(r)
  BY <1>22, <1>0 DEF Clear, EnqueuedOrRetried, Enqueued, Retried
<1>23. CASE Crash(r)
  BY <1>23, <1>0 DEF Crash, Retried
<1> QED BY <1>1, <1>2, <1>3, <1>4, <1>5, <1>6, <1>7, <1>8, <1>9, <1>10, <1>11, <1>12,
         <1>13, <1>14, <1>15, <1>16, <1>17, <1>18, <1>19, <1>20, <1>21, <1>22, <1>23
            DEF StepOf, Task

\* The two facts TLC cannot give for every set of requests: the invariant
\* holds at first, and every step keeps it.
LEMMA TaskInvHolds ==
  /\ Init => TaskInv
  /\ TaskInv /\ [Next]_vars => TaskInv'
<1>1. Init => TaskInv
  BY TypeInit DEF Init, TaskInv, Fits, Queues, DownloadSteps, FailSteps
<1>2. ASSUME TaskInv, [Next]_vars PROVE TaskInv'
  <2>1. TypeOK'
    BY <1>2, TypeStep DEF TaskInv
  <2>2. ASSUME NEW r \in Requests, StepOf(r) PROVE TaskInv'
    BY <1>2, <2>1, <2>2, TaskStep DEF TaskInv
  <2>3. ASSUME NEW k \in Keys, ExpireLock(k) \/ ExpireWaiters(k) PROVE TaskInv'
    BY <1>2, <2>1, <2>3 DEF TaskInv, ExpireLock, ExpireWaiters, job, attempt, loop
  <2>4. CASE UNCHANGED vars
    BY <1>2, <2>1, <2>4 DEF TaskInv, vars, job, attempt, loop
  <2> QED BY <1>2, <2>2, <2>3, <2>4 DEF Next, StepOf
<1> QED BY <1>1, <1>2

-----------------------------------------------------------------------------
(* Mutual exclusion.  The lock has no owner: Release deletes whatever lock *)
(* there is.  It is enough that a request which releases is the holder and *)
(* that the holder releases once, at the step that ends its locked work.   *)

\* What breaks that: an image post goes on to the send queue after it has
\* released, a pipeline loses its lock to the TTL, and a task that released
\* and then returned an error, or died, runs and releases again.  An audio task
\* comes to that by any error: its retry has nothing left to convert.
SongBreaking == {"setup", "enqueue", "convert"}

Breaking ==
  {"image", "lateImage", "slow", "store", "crash"} \cup
  (IF \E r \in Requests : TypeOf[r] = "AUDIO" THEN SongBreaking ELSE {})

LockInv ==
  /\ TaskInv
  /\ MutualExclusion
  /\ \A r \in Requests : pc[r] \in Locked => CacheKey(r) \in lock
  /\ \A r \in Requests : key[r] = CacheKey(r)
  /\ \A r \in Requests :
       pc[r] # "image" /\ (pc[r] = "audio" => tries[r] = 0 /\ TypeOf[r] = "AUDIO")

\* The three things a step of a request does to the lock of its key.
Takes(r) == /\ CacheKey(r) \notin lock
            /\ lock' = lock \cup {CacheKey(r)}

Keeps(r) == /\ lock' = lock
            /\ pc'[r] \in Locked => pc[r] \in Locked

Gives(r) == /\ pc[r] \in Locked /\ pc'[r] \notin Locked
            /\ lock' = lock \ {CacheKey(r)}

\* A step keeps the payload's key, never comes to the image flow, and puts the
\* request on the audio queue only as a new task of an MP3 request.
Stays(r) == /\ pc'[r] # "image"
            /\ pc'[r] = "audio" => tries'[r] = 0 /\ TypeOf[r] = "AUDIO"
            /\ key' = key

\* Every step of a request takes, keeps or gives back the lock of its key, and
\* works under the lock exactly as long as it has it.
LEMMA LockStep ==
  ASSUME Conditions \cap Breaking = {}, LockInv, NEW r \in Requests, StepOf(r)
  PROVE  Stays(r) /\ (Takes(r) \/ Keeps(r) \/ Gives(r))
<1>0. /\ pc \in [Requests -> Steps]
      /\ task \in [Requests -> Queues]
      /\ tries \in [Requests -> 0..JobAttempts]
      /\ key[r] = CacheKey(r)
      /\ pc[r] # "image" /\ (pc[r] = "audio" => tries[r] = 0 /\ TypeOf[r] = "AUDIO")
      /\ Fits(pc[r], task[r], then[r])
  BY DEF LockInv, TaskInv, TypeOK
<1>a. /\ "image" \notin Conditions /\ "lateImage" \notin Conditions
      /\ "slow" \notin Conditions /\ "store" \notin Conditions
      /\ "crash" \notin Conditions
      /\ TypeOf[r] = "AUDIO" =>
           "convert" \notin Conditions /\ "setup" \notin Conditions /\ "enqueue" \notin Conditions
  BY DEF Breaking, SongBreaking
<1> USE DEF Stays, Takes, Keeps, Gives, Locked, Fits, Queues, DownloadSteps, FailSteps,
            Goto, May, attempt, loop
<1>1. CASE Submit(r)
  BY <1>1, <1>0, <1>a DEF Submit, Enqueued, redis
<1>2. CASE LookupCache(r)
  BY <1>2, <1>0, <1>a DEF LookupCache, EnqueuedOrRetried, Enqueued, Retried, redis
<1>3. CASE Acquire(r)
  BY <1>3, <1>0, <1>a DEF Acquire, Retried
<1>4. CASE Park(r)
  BY <1>4, <1>0, <1>a DEF Park, Retried
<1>5. CASE Register(r)
  BY <1>5, <1>0, <1>a DEF Register, Retried, Released
<1>6. CASE Probe(r)
  BY <1>6, <1>0, <1>a DEF Probe, Failing, redis
<1>7. CASE SendDirect(r)
  BY <1>7, <1>0, <1>a DEF SendDirect, redis
<1>8. CASE StoreDirect(r)
  BY <1>8, <1>0, <1>a DEF StoreDirect, redis
<1>9. CASE PopRead(r)
  BY <1>9, <1>0, <1>a DEF PopRead, PopOf, AfterPop, redis
<1>10. CASE PopDel(r)
  BY <1>10, <1>0, <1>a DEF PopDel, AfterPop
<1>11. CASE FailOne(r)
  BY <1>11, <1>0, <1>a DEF FailOne, redis
<1>12. CASE FailEnd(r)
  BY <1>12, <1>0, <1>a DEF FailEnd, Retried, Released
<1>13. CASE Fetch(r)
  BY <1>13, <1>0, <1>a DEF Fetch, Failing, EnqueuedOrRetried, Enqueued, Retried
<1>14. CASE Image(r)
  BY <1>14, <1>0, <1>a DEF Image
<1>15. CASE Audio(r)
  BY <1>15, <1>0, <1>a DEF Audio, Failing, EnqueuedOrRetried, Enqueued
<1>16. CASE Send(r)
  BY <1>16, <1>0, <1>a DEF Send, Retried, redis
<1>17. CASE SendFirst(r)
  BY <1>17, <1>0, <1>a DEF SendFirst, redis
<1>18. CASE Store(r)
  BY <1>18, <1>0, <1>a DEF Store
<1>19. CASE SendOne(r)
  BY <1>19, <1>0, <1>a DEF SendOne, redis
<1>20. CASE SendEnd(r)
  BY <1>20, <1>0, <1>a DEF SendEnd, Released
<1>21. CASE SendCached(r)
  BY <1>21, <1>0, <1>a DEF SendCached, Retried, redis
<1>22. CASE Clear(r)
  BY <1>22, <1>0, <1>a DEF Clear, EnqueuedOrRetried, Enqueued, Retried, redis
<1>23. CASE Crash(r)
  BY <1>23, <1>0, <1>a DEF Crash
<1> QED BY <1>1, <1>2, <1>3, <1>4, <1>5, <1>6, <1>7, <1>8, <1>9, <1>10, <1>11, <1>12,
         <1>13, <1>14, <1>15, <1>16, <1>17, <1>18, <1>19, <1>20, <1>21, <1>22, <1>23
            DEF StepOf, Task

\* Every step keeps the invariant: the lock of a key and the one request that
\* works on the key come and go together.
LEMMA LockInvStep ==
  ASSUME Conditions \cap Breaking = {}, LockInv, [Next]_vars
  PROVE  LockInv'
<1>1. TaskInv'
  BY TaskInvHolds DEF LockInv
<1>2. ASSUME NEW r \in Requests, StepOf(r)
      PROVE  LockInv'
  <2>1. /\ Stays(r) /\ (Takes(r) \/ Keeps(r) \/ Gives(r))
        /\ \A q \in Requests \ {r} : pc'[q] = pc[q] /\ tries'[q] = tries[q]
    BY <1>2, LockStep, TaskStep DEF LockInv
  <2>2. ASSUME NEW q \in Requests, pc'[q] \in Locked
        PROVE  CacheKey(q) \in lock'
    BY <2>1, <2>2 DEF LockInv, MutualExclusion, Takes, Keeps, Gives
  <2>3. MutualExclusion'
    BY <2>1 DEF LockInv, MutualExclusion, Takes, Keeps, Gives
  <2> QED BY <1>1, <2>1, <2>2, <2>3 DEF LockInv, Stays
<1>3. ASSUME NEW k \in Keys, ExpireLock(k) \/ ExpireWaiters(k)
      PROVE  LockInv'
  <2>1. /\ UNCHANGED job
        /\ \A q \in Requests : pc[q] \in Locked => CacheKey(q) \in lock'
    BY <1>3 DEF LockInv, ExpireLock, ExpireWaiters, Idle, Works, May, Breaking
  <2> QED BY <1>1, <2>1 DEF LockInv, MutualExclusion, job, attempt
<1>4. CASE UNCHANGED vars
  BY <1>1, <1>4 DEF LockInv, MutualExclusion, vars, redis, job, attempt
<1> QED BY <1>2, <1>3, <1>4 DEF Next, StepOf

\* At first there is no lock and no work.
LEMMA LockInit == Init => LockInv
<1>1. Init => TaskInv
  BY TaskInvHolds
<1> QED BY <1>1 DEF Init, LockInv, MutualExclusion, Locked

\* Whatever fails among the Locks calls, the media rows before the delivery and
\* Telegram, and, when nobody asks for a song, among the enqueues and the settings,
\* at most one request at a time works on a cache key.
THEOREM MutualExclusionHolds ==
  ASSUME Conditions \cap Breaking = {}
  PROVE  Spec => []MutualExclusion
<1>1. LockInv /\ [Next]_vars => LockInv'
  BY LockInvStep
<1>2. LockInv => MutualExclusion
  BY DEF LockInv
<1> QED BY LockInit, <1>1, <1>2, PTL DEF Spec

-----------------------------------------------------------------------------
(* No lock is left behind.  Other pipelines may delete a lock too early,   *)
(* and then two requests work on one key; yet whoever took a lock that     *)
(* still exists has not ended its work.                                    *)

\* The conditions under which every service answers that a pipeline needs before
\* its delivery.
Answering == {"directUrl", "setup", "telegram"}

\* What leaves a lock to its TTL: the picture flow works without being counted as
\* a holder, a release fails, or a task is given up with the lock kept.
Leaking == {"image", "redis", "enqueue", "database", "crash"}

\* At work under its own key: a picture's send task has another one.
Owns(r) == pc[r] \in Locked /\ key[r] = CacheKey(r)

\* Before its first task, and in the steps of the send task until its last retry.
AtTask(p, t) ==
  /\ p = "idle" => t = "download"
  /\ p \in {"sendRead", "sendDel", "sendFirst", "store"} => t = "send"

OwnerInv ==
  /\ TaskInv
  /\ \A r \in Requests : task[r] # "send" => key[r] = CacheKey(r)
  /\ \A r \in Requests : AtTask(pc[r], task[r])
  /\ \A k \in lock : \E r \in Requests : Owns(r) /\ CacheKey(r) = k

\* Only the send task of a picture names another key than the request's.
KeepsKey(r) ==
  /\ \A q \in Requests : q # r => key'[q] = key[q]
  /\ task'[r] # "send" => key'[r] = CacheKey(r)
  /\ AtTask(pc'[r], task'[r])

\* A step takes the lock and works under it, or removes locks at most, and its own
\* if it ends its work.
KeepsLock(r) ==
  \/ lock' = lock \cup {CacheKey(r)} /\ Owns(r)'
  \/ lock' \subseteq lock /\ (Owns(r) => Owns(r)' \/ CacheKey(r) \notin lock')

\* While Redis, the rows before the delivery and the queues answer, no step drops
\* the work and keeps the lock.
LEMMA OwnerStep ==
  ASSUME Conditions \cap Leaking = {}, "setup" \in Conditions => JobAttempts > 0,
         OwnerInv, NEW r \in Requests, StepOf(r)
  PROVE  KeepsKey(r) /\ KeepsLock(r)
<1>0. /\ pc \in [Requests -> Steps]
      /\ task \in [Requests -> Queues]
      /\ tries \in [Requests -> 0..JobAttempts]
      /\ key \in [Requests -> Keys]
      /\ task[r] # "send" => key[r] = CacheKey(r)
      /\ AtTask(pc[r], task[r])
      /\ CacheKey(r)' = CacheKey(r)
      /\ Fits(pc[r], task[r], then[r])
  BY DEF OwnerInv, TaskInv, TypeOK, CacheKey
<1>a. /\ "redis" \notin Conditions /\ "enqueue" \notin Conditions
      /\ "database" \notin Conditions /\ "image" \notin Conditions
      /\ "crash" \notin Conditions
  BY DEF Leaking
<1> USE DEF KeepsKey, KeepsLock, Owns, AtTask, Locked, Fits, Queues, DownloadSteps, FailSteps,
            Goto, May, attempt
<1>1. CASE Submit(r)
  BY <1>1, <1>0, <1>a DEF Submit, Enqueued, redis
<1>2. CASE LookupCache(r)
  BY <1>2, <1>0, <1>a DEF LookupCache, EnqueuedOrRetried, Enqueued, redis
<1>3. CASE Acquire(r)
  BY <1>3, <1>0, <1>a DEF Acquire
<1>4. CASE Park(r)
  BY <1>4, <1>0, <1>a DEF Park
<1>5. CASE Register(r)
  BY <1>5, <1>0, <1>a DEF Register
<1>6. CASE Probe(r)
  BY <1>6, <1>0, <1>a DEF Probe, Failing, redis
<1>7. CASE SendDirect(r)
  BY <1>7, <1>0, <1>a DEF SendDirect, redis
<1>8. CASE StoreDirect(r)
  BY <1>8, <1>0, <1>a DEF StoreDirect, redis
<1>9. CASE PopRead(r)
  BY <1>9, <1>0, <1>a DEF PopRead, PopOf, AfterPop, redis
<1>10. CASE PopDel(r)
  BY <1>10, <1>0, <1>a DEF PopDel, AfterPop
<1>11. CASE FailOne(r)
  BY <1>11, <1>0, <1>a DEF FailOne, redis
<1>12. CASE FailEnd(r)
  BY <1>12, <1>0, <1>a DEF FailEnd, Retried, Released
<1>13. CASE Fetch(r)
  BY <1>13, <1>0, <1>a DEF Fetch, Failing, EnqueuedOrRetried, Enqueued, Released
<1>14. CASE Image(r)
  BY <1>14, <1>0, <1>a DEF Image, Failing, Enqueued, Released
<1>15. CASE Audio(r)
  BY <1>15, <1>0, <1>a DEF Audio, Failing, EnqueuedOrRetried, Enqueued, Retried, Released
<1>16. CASE Send(r)
  BY <1>16, <1>0, <1>a DEF Send, redis
<1>17. CASE SendFirst(r)
  BY <1>17, <1>0, <1>a DEF SendFirst, redis
<1>18. CASE Store(r)
  BY <1>18, <1>0, <1>a DEF Store, Retried, Released
<1>19. CASE SendOne(r)
  BY <1>19, <1>0, <1>a DEF SendOne, redis
<1>20. CASE SendEnd(r)
  BY <1>20, <1>0, <1>a DEF SendEnd, Released
<1>21. CASE SendCached(r)
  BY <1>21, <1>0, <1>a DEF SendCached, redis
<1>22. CASE Clear(r)
  BY <1>22, <1>0, <1>a DEF Clear, EnqueuedOrRetried, Enqueued, redis
<1>23. CASE Crash(r)
  BY <1>23, <1>0, <1>a DEF Crash
<1> QED BY <1>1, <1>2, <1>3, <1>4, <1>5, <1>6, <1>7, <1>8, <1>9, <1>10, <1>11, <1>12,
         <1>13, <1>14, <1>15, <1>16, <1>17, <1>18, <1>19, <1>20, <1>21, <1>22, <1>23
            DEF StepOf, Task

\* So every lock keeps its owner.
LEMMA OwnerInvStep ==
  ASSUME Conditions \cap Leaking = {}, "setup" \in Conditions => JobAttempts > 0,
         OwnerInv, [Next]_vars
  PROVE  OwnerInv'
<1>0. TaskInv'
  BY TaskInvHolds DEF OwnerInv
<1>k. \A q \in Requests : CacheKey(q)' = CacheKey(q)
  BY DEF CacheKey
<1>1. ASSUME NEW r \in Requests, StepOf(r)
      PROVE  OwnerInv'
  <2>1. /\ KeepsKey(r) /\ KeepsLock(r)
        /\ \A q \in Requests \ {r} :
             pc'[q] = pc[q] /\ task'[q] = task[q]
    BY <1>1, OwnerStep, TaskStep DEF OwnerInv
  <2>2. \A q \in Requests : q # r => (Owns(q)' <=> Owns(q))
    BY <1>k, <2>1 DEF Owns, KeepsKey
  <2>3. \A k \in lock' : \E q \in Requests : Owns(q)' /\ CacheKey(q) = k
    BY <2>1, <2>2 DEF OwnerInv, KeepsLock
  <2> QED BY <1>0, <1>k, <2>1, <2>3 DEF OwnerInv, KeepsKey
<1>2. ASSUME UNCHANGED <<pc, task, key>>, lock' \subseteq lock
      PROVE  OwnerInv'
  BY <1>0, <1>k, <1>2 DEF OwnerInv, Owns
<1>3. ASSUME NEW k \in Keys, ExpireLock(k) \/ ExpireWaiters(k)
      PROVE  OwnerInv'
  BY <1>2, <1>3 DEF ExpireLock, ExpireWaiters, job, attempt
<1>4. CASE UNCHANGED vars
  BY <1>2, <1>4 DEF vars, redis, job, attempt
<1> QED BY <1>1, <1>3, <1>4 DEF Next, StepOf

\* While Redis, the media rows before the delivery and the queues answer, a lock
\* that exists is the lock of a running pipeline, however settings (if a task is
\* retried at all), directories, downloads, Telegram calls, READY rows and
\* conversions fail, whenever the
\* download finds out that a post is a picture, and although a pipeline that
\* outlived its lock may have deleted that of another.
THEOREM LockHasHolderHolds ==
  ASSUME Conditions \cap Leaking = {}, "setup" \in Conditions => JobAttempts > 0
  PROVE  Spec => []LockHasHolder
<1>1. Init => OwnerInv
  <2>1. Init => TaskInv
    BY TaskInvHolds
  <2> QED BY <2>1 DEF Init, OwnerInv, AtTask
<1>2. OwnerInv /\ [Next]_vars => OwnerInv'
  BY OwnerInvStep
<1>3. OwnerInv => LockHasHolder
  BY DEF OwnerInv, LockHasHolder, Owns
<1> QED BY <1>1, <1>2, <1>3, PTL DEF Spec

-----------------------------------------------------------------------------
(* A row says SUCCESS only after a send, whatever may happen.              *)

\* The two steps that mark a row are reached by the send that earns it.
SentInv ==
  /\ TypeOK
  /\ SuccessMeansSent
  /\ \A r \in Requests : /\ pc[r] = "store" => sent[head[r]] > 0
                         /\ pc[r] = "directStore" => sent[r] > 0

\* After a send to a chat the chat has got something, and nobody has less.
LEMMA SentToCounts ==
  ASSUME NEW q \in Requests, TypeOK, SentTo(q)
  PROVE  sent'[q] > 0 /\ \A p \in Requests : sent[p] > 0 => sent'[p] > 0
<1>1. sent \in [Requests -> 0..SentBound]
  BY DEF TypeOK
<1>2. (IF sent[q] < SentBound THEN sent[q] + 1 ELSE sent[q]) > 0
  BY <1>1 DEF SentBound
<1> QED BY <1>1, <1>2 DEF SentTo

\* A media message is never taken back, a row becomes SUCCESS only behind one,
\* and a task comes to a marking step only behind one.
LEMMA SentStep ==
  ASSUME SentInv, NEW r \in Requests, StepOf(r)
  PROVE  /\ \A q \in Requests : sent[q] > 0 => sent'[q] > 0
         /\ \A q \in Requests : row'[q] = "SUCCESS" => row[q] = "SUCCESS" \/ sent'[q] > 0
         /\ \A q \in Requests \ {r} : pc'[q] = pc[q] /\ head'[q] = head[q]
         /\ pc'[r] = "store" => sent'[head'[r]] > 0
         /\ pc'[r] = "directStore" => sent'[r] > 0
<1>0. /\ row \in [Requests -> {"none", "QUEUED", "SUCCESS", "FAILED"}]
      /\ pc \in [Requests -> Steps]
      /\ task \in [Requests -> Queues]
      /\ head \in [Requests -> Requests]
      /\ batch[r] \subseteq Requests
      /\ TypeOK
      /\ pc[r] = "store" => sent[head[r]] > 0
      /\ pc[r] = "directStore" => sent[r] > 0
  BY DEF SentInv, TypeOK
<1> USE DEF Goto, Queues, loop
<1>1. CASE Submit(r)
  BY <1>1, <1>0 DEF Submit, Enqueued
<1>2. CASE LookupCache(r)
  BY <1>2, <1>0 DEF LookupCache, EnqueuedOrRetried, Enqueued, Retried, outcome
<1>3. CASE Acquire(r)
  BY <1>3, <1>0 DEF Acquire, Retried, outcome
<1>4. CASE Park(r)
  BY <1>4, <1>0 DEF Park, Retried, outcome
<1>5. CASE Register(r)
  BY <1>5, <1>0 DEF Register, Retried, outcome
<1>6. CASE Probe(r)
  BY <1>6, <1>0 DEF Probe, Failing, outcome
<1>7. CASE SendDirect(r)
  BY <1>7, <1>0, SentToCounts DEF SendDirect
<1>8. CASE StoreDirect(r)
  BY <1>8, <1>0 DEF StoreDirect
<1>9. CASE PopRead(r)
  BY <1>9, <1>0 DEF PopRead, PopOf, AfterPop, outcome
<1>10. CASE PopDel(r)
  BY <1>10, <1>0 DEF PopDel, AfterPop, outcome
<1>11. CASE FailOne(r)
  BY <1>11, <1>0 DEF FailOne
<1>12. CASE FailEnd(r)
  BY <1>12, <1>0 DEF FailEnd, Retried
<1>13. CASE Fetch(r)
  BY <1>13, <1>0 DEF Fetch, Failing, EnqueuedOrRetried, Enqueued, Retried, outcome
<1>14. CASE Image(r)
  BY <1>14, <1>0 DEF Image, Failing, Enqueued, outcome
<1>15. CASE Audio(r)
  BY <1>15, <1>0 DEF Audio, Failing, EnqueuedOrRetried, Enqueued, Retried, outcome
<1>16. CASE Send(r)
  BY <1>16, <1>0 DEF Send, Retried, outcome
<1>17. CASE SendFirst(r)
  BY <1>17, <1>0, SentToCounts DEF SendFirst
<1>18. CASE Store(r)
  BY <1>18, <1>0 DEF Store, Retried
<1>19. CASE SendOne(r)
  BY <1>19, <1>0, SentToCounts DEF SendOne
<1>20. CASE SendEnd(r)
  BY <1>20, <1>0 DEF SendEnd, outcome
<1>21. CASE SendCached(r)
  BY <1>21, <1>0, SentToCounts DEF SendCached, Retried
<1>22. CASE Clear(r)
  BY <1>22, <1>0 DEF Clear, EnqueuedOrRetried, Enqueued, Retried, outcome
<1>23. CASE Crash(r)
  BY <1>23, <1>0 DEF Crash, Retried, outcome
<1> QED BY <1>1, <1>2, <1>3, <1>4, <1>5, <1>6, <1>7, <1>8, <1>9, <1>10, <1>11, <1>12,
         <1>13, <1>14, <1>15, <1>16, <1>17, <1>18, <1>19, <1>20, <1>21, <1>22, <1>23
            DEF StepOf, Task

\* The invariant holds in every state.
LEMMA SentAlways == Spec => []SentInv
<1>1. Init => SentInv
  BY TypeInit DEF Init, SentInv, SuccessMeansSent
<1>2. SentInv /\ [Next]_vars => SentInv'
  <2> SUFFICES ASSUME SentInv, [Next]_vars PROVE SentInv'
    OBVIOUS
  <2>1. TypeOK'
    BY TypeStep DEF SentInv
  <2>2. ASSUME NEW r \in Requests, StepOf(r) PROVE SentInv'
    <3>1. head \in [Requests -> Requests]
      BY DEF SentInv, TypeOK
    <3> QED BY <2>1, <2>2, <3>1, SentStep DEF SentInv, SuccessMeansSent
  <2>3. ASSUME NEW k \in Keys, ExpireLock(k) \/ ExpireWaiters(k) PROVE SentInv'
    BY <2>1, <2>3 DEF SentInv, SuccessMeansSent, ExpireLock, ExpireWaiters, outcome,
       job, attempt, loop
  <2>4. CASE UNCHANGED vars
    BY <2>1, <2>4 DEF SentInv, SuccessMeansSent, vars, outcome, job, attempt, loop
  <2> QED BY <2>2, <2>3, <2>4 DEF Next, StepOf
<1> QED BY <1>1, <1>2, PTL DEF Spec

\* No failure, lost lock, image post or retry makes a row say SUCCESS for a
\* request whose chat was sent nothing on its behalf.
THEOREM SuccessMeansSentHolds == Spec => []SuccessMeansSent
<1>1. SentInv => SuccessMeansSent
  BY DEF SentInv
<1> QED BY <1>1, SentAlways, PTL
=============================================================================
