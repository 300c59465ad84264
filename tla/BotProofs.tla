------------------------------ MODULE BotProofs ------------------------------
(***************************************************************************)
(* Theorems about Bot: what holds of the bot process for all people and    *)
(* updates, however many handlers run at the same time.                    *)
(***************************************************************************)
EXTENDS Bot, TLAPS, FiniteSetTheorems

(* Types.                                                                  *)

LEMMA SetTyped ==
  ASSUME setting \in Settings,
         NEW button \in {"online", "offline", "cloud", "local", "preset"},
         NEW st \in Set(button)
  PROVE  st \in Settings
<1>1. CASE button \in {"online", "offline"}
  BY <1>1 DEF Set, Settings
<1>2. CASE button \in {"cloud", "local"}
  BY <1>2 DEF Set, Settings
<1>3. CASE button = "preset"
  BY <1>3 DEF Set, Settings
<1>4. QED
  BY <1>1, <1>2, <1>3

LEMMA PrepareTyped ==
  ASSUME BotTypeOK, Prepare
  PROVE  /\ setting' \in Settings
         /\ role' \in [People -> Roles]
         /\ UNCHANGED <<status, pending, asked, applied>>
<1>1. setting' \in Settings
  BY DEF BotTypeOK, Prepare, EnsureDefaults, Settings
<1>2. role' \in [People -> Roles]
  BY DEF BotTypeOK, Prepare, EnsureSuperAdmin, Roles
<1>3. QED
  BY <1>1, <1>2 DEF Prepare

LEMMA BotTypeInit == Init => BotTypeOK
<1> SUFFICES ASSUME Init PROVE BotTypeOK
  OBVIOUS
<1>1. setting \in Settings
  BY AdminsAssumption DEF Init, AdminsInit, Settings
<1>2. kind \in [Updates -> Kinds] /\ pc \in [Updates -> Steps]
  BY UpdatesAssumption DEF Init, Steps
<1>3. starts \in 0..MaxStarts
  BY AdminsAssumption DEF Init, AdminsInit
<1>4. QED
  BY <1>1, <1>2, <1>3
  DEF Init, RateInit, AdminsInit, RequestsInit, BotTypeOK, NoPrompt, Roles

\* A handler only moves to one of the steps, and only one handler moves.
LEMMA GotoTyped ==
  ASSUME BotTypeOK, NEW u \in Updates, NEW step \in Steps, Goto(u, step)
  PROVE  pc' \in [Updates -> Steps]
  BY DEF BotTypeOK, Goto

LEMMA RateTyped ==
  ASSUME BotTypeOK, RateStep
  PROVE  pc' \in [Updates -> Steps] /\ rate' \in [People -> Nat] /\ ttl' \subseteq People
<1> USE UpdatesAssumption DEF BotTypeOK, Goto, Steps, rateVars
<1>1. ASSUME NEW u \in Updates, Receive(u)
      PROVE  pc' \in [Updates -> Steps] /\ rate' \in [People -> Nat] /\ ttl' \subseteq People
  BY <1>1 DEF Receive, FirstStep
<1>2. ASSUME NEW u \in Updates, Incr(u)
      PROVE  pc' \in [Updates -> Steps] /\ rate' \in [People -> Nat] /\ ttl' \subseteq People
  BY <1>2 DEF Incr, AfterRate
<1>3. ASSUME NEW u \in Updates, Expire(u)
      PROVE  pc' \in [Updates -> Steps] /\ rate' \in [People -> Nat] /\ ttl' \subseteq People
  BY <1>3 DEF Expire, AfterRate
<1>4. ASSUME NEW p \in People, RateExpires(p)
      PROVE  pc' \in [Updates -> Steps] /\ rate' \in [People -> Nat] /\ ttl' \subseteq People
  BY <1>4 DEF RateExpires
<1>5. QED
  BY <1>1, <1>2, <1>3, <1>4 DEF RateStep

\* What a step of module Admins leaves typed.
AdminsTyped ==
  /\ pc \in [Updates -> Steps]
  /\ role \in [People -> Roles]
  /\ setting \in Settings
  /\ status \in [People -> {"ACTIVE", "BLOCKED", "none"}]
  /\ pending \in [People -> Prompts \cup {NoPrompt}]
  /\ prompt \in [Updates -> Prompts \cup {NoPrompt}]
  /\ starts \in 0..MaxStarts
  /\ asked \in [People -> Nat]
  /\ applied \in [People -> Nat]

LEMMA AdminsTypedStep ==
  ASSUME AdminsTyped, kind \in [Updates -> Kinds], AdminsStep
  PROVE  AdminsTyped'
<1> USE UpdatesAssumption DEF AdminsTyped, Goto, Steps
<1>1. ASSUME NEW u \in Updates, Press(u) PROVE AdminsTyped'
  BY <1>1 DEF Press, adminVars
<1>2. ASSUME NEW u \in Updates, Ask(u) PROVE AdminsTyped'
  BY <1>2 DEF Ask
<1>3. ASSUME NEW u \in Updates, Switch(u) PROVE AdminsTyped'
  <2>1. kind[u] \in {"online", "offline", "cloud", "local", "preset"}
    BY <1>3 DEF Switch, Switches
  <2>2. setting' \in Settings
    BY <1>3, <2>1, SetTyped DEF Switch
  <2>3. QED
    BY <1>3, <2>2 DEF Switch
<1>4. ASSUME NEW u \in Updates, ReadMaintenance(u) PROVE AdminsTyped'
  BY <1>4 DEF ReadMaintenance, adminVars
<1>5. ASSUME NEW u \in Updates, WriteMaintenance(u) PROVE AdminsTyped'
  <2>1. setting' \in Settings
    BY <1>5 DEF WriteMaintenance, Settings
  <2>2. QED
    BY <1>5, <2>1 DEF WriteMaintenance
<1>6. ASSUME NEW u \in Updates, SetStatus(u) PROVE AdminsTyped'
  BY <1>6 DEF SetStatus
<1>7. ASSUME NEW u \in Updates, CheckInput(u) PROVE AdminsTyped'
  BY <1>7 DEF CheckInput, adminVars
<1>8. ASSUME NEW u \in Updates, GetPending(u) PROVE AdminsTyped'
  BY <1>8 DEF GetPending
<1>9. ASSUME NEW u \in Updates, Apply(u) PROVE AdminsTyped'
  <2>1. role' \in [People -> Roles]
    BY <1>9 DEF Apply, AddAdmin, RemoveAdmin, Roles
  <2>2. setting' \in Settings
    <3>1. CASE setting' \in Set("preset")
      BY <3>1, SetTyped
    <3>2. CASE setting' = [setting EXCEPT !.rest = "own"]
      BY <3>2 DEF Settings
    <3>3. QED
      BY <1>9, <3>1, <3>2 DEF Apply
  <2>3. /\ applied' = [applied EXCEPT ![From[u]] = @ + 1]
        /\ pc' = [pc EXCEPT ![u] = "clear"]
        /\ UNCHANGED <<status, pending, prompt, starts, asked>>
    BY <1>9 DEF Apply
  <2>4. QED
    BY <2>1, <2>2, <2>3
<1>10. ASSUME NEW u \in Updates, Clear(u) PROVE AdminsTyped'
  BY <1>10 DEF Clear
<1>11. ASSUME NEW p \in People, PendingExpires(p) PROVE AdminsTyped'
  BY <1>11 DEF PendingExpires
<1>12. QED
  BY <1>1, <1>2, <1>3, <1>4, <1>5, <1>6, <1>7, <1>8, <1>9, <1>10, <1>11 DEF AdminsStep

\* What a step of module Requests leaves typed.
RequestsTyped ==
  /\ pc \in [Updates -> Steps]
  /\ status \in [People -> {"ACTIVE", "BLOCKED", "none"}]
  /\ cached \in BOOLEAN
  /\ today \in [People -> Nat]
  /\ links \in [People -> Nat]
  /\ end \in [Updates -> {"open", "refused", "told", "media", "queued"}]

LEMMA RequestsTypedStep ==
  ASSUME RequestsTyped, RequestsStep
  PROVE  RequestsTyped'
<1> USE UpdatesAssumption DEF RequestsTyped, Goto, Steps, Ends
<1>1. ASSUME NEW u \in Updates, Upsert(u) PROVE RequestsTyped'
  BY <1>1 DEF Upsert
<1>2. ASSUME NEW u \in Updates, CheckBlocked(u) PROVE RequestsTyped'
  BY <1>2 DEF CheckBlocked, adminVars
<1>3. ASSUME NEW u \in Updates, Gate(u) PROVE RequestsTyped'
  BY <1>3 DEF Gate, adminVars
<1>4. ASSUME NEW u \in Updates, Lookup(u) PROVE RequestsTyped'
  BY <1>4 DEF Lookup, adminVars
<1>5. ASSUME NEW u \in Updates, CachedRow(u) PROVE RequestsTyped'
  BY <1>5 DEF CachedRow, adminVars
<1>6. ASSUME NEW u \in Updates, SendCached(u) PROVE RequestsTyped'
  BY <1>6 DEF SendCached, adminVars
<1>7. ASSUME NEW u \in Updates, ClearId(u) PROVE RequestsTyped'
  BY <1>7 DEF ClearId, adminVars
<1>8. ASSUME NEW u \in Updates, CheckLimit(u) PROVE RequestsTyped'
  BY <1>8 DEF CheckLimit, adminVars
<1>9. ASSUME NEW u \in Updates, CheckVariant(u) PROVE RequestsTyped'
  BY <1>9 DEF CheckVariant, adminVars
<1>10. ASSUME NEW u \in Updates, Insert(u) PROVE RequestsTyped'
  BY <1>10 DEF Insert, adminVars
<1>11. ASSUME NEW u \in Updates, Enqueue(u) PROVE RequestsTyped'
  BY <1>11 DEF Enqueue, adminVars
<1>12. CASE Stored
  BY <1>12 DEF Stored, adminVars
<1>13. CASE NewDay
  BY <1>13 DEF NewDay, adminVars
<1>14. QED
  BY <1>1, <1>2, <1>3, <1>4, <1>5, <1>6, <1>7, <1>8, <1>9, <1>10, <1>11, <1>12, <1>13
  DEF RequestsStep

\* A step of Requests changes nothing of the administrators but the status.
LEMMA RequestsKeep ==
  ASSUME RequestsStep
  PROVE  UNCHANGED <<role, setting, pending, prompt, starts, asked, applied>>
  BY DEF RequestsStep, Upsert, CheckBlocked, Gate, Lookup, CachedRow, SendCached, ClearId,
         CheckLimit, CheckVariant, Insert, Enqueue, Stored, NewDay, adminVars

LEMMA BotTypeStep == BotTypeOK /\ [Next]_vars => BotTypeOK'
<1> SUFFICES ASSUME BotTypeOK, [Next]_vars PROVE BotTypeOK'
  OBVIOUS
<1>1. CASE UNCHANGED vars
  BY <1>1 DEF vars, rateVars, adminVars, requestVars, BotTypeOK
<1>2. CASE RateStep /\ UNCHANGED <<kind, adminVars, requestVars>>
  BY <1>2, RateTyped DEF adminVars, requestVars, BotTypeOK
<1>3. CASE AdminsStep /\ UNCHANGED <<kind, rateVars, requestVars>>
  <2>1. AdminsTyped /\ kind \in [Updates -> Kinds]
    BY DEF BotTypeOK, AdminsTyped
  <2>2. AdminsTyped'
    BY <1>3, <2>1, AdminsTypedStep
  <2>3. QED
    BY <1>3, <2>2 DEF rateVars, requestVars, BotTypeOK, AdminsTyped
<1>4. CASE RequestsStep /\ UNCHANGED <<kind, rateVars>>
  <2>1. RequestsTyped
    BY DEF BotTypeOK, RequestsTyped
  <2>2. RequestsTyped'
    BY <1>4, <2>1, RequestsTypedStep
  <2>3. QED
    BY <1>4, <2>2, RequestsKeep DEF rateVars, BotTypeOK, RequestsTyped
<1>5. CASE BotStarts
  <2>1. /\ setting' \in Settings /\ role' \in [People -> Roles]
        /\ UNCHANGED <<status, pending, asked, applied>>
    BY <1>5, PrepareTyped DEF BotStarts
  <2>2. pc' \in [Updates -> Steps]
    BY <1>5 DEF BotStarts, BotTypeOK, Steps
  <2>3. starts' \in 0..MaxStarts
    BY <1>5, AdminsAssumption DEF BotStarts, BotTypeOK
  <2>4. prompt' \in [Updates -> Prompts \cup {NoPrompt}]
    BY <1>5 DEF BotStarts
  <2>5. end' \in [Updates -> {"open", "refused", "told", "media", "queued"}]
    BY <1>5 DEF BotStarts, BotTypeOK
  <2>6. QED
    BY <1>5, <2>1, <2>2, <2>3, <2>4, <2>5 DEF BotStarts, rateVars, BotTypeOK
<1>6. CASE WorkerStarts
  <2>1. /\ setting' \in Settings /\ role' \in [People -> Roles]
        /\ UNCHANGED <<status, pending, asked, applied>>
    BY <1>6, PrepareTyped DEF WorkerStarts
  <2>2. QED
    BY <1>6, <2>1 DEF WorkerStarts, rateVars, requestVars, BotTypeOK
<1>7. QED
  BY <1>1, <1>2, <1>3, <1>4, <1>5, <1>6 DEF Next

\* The variables keep their types (BotTypeOK).
THEOREM BotTypeCorrect == Spec => []BotTypeOK
  BY BotTypeInit, BotTypeStep, PTL DEF Spec

-----------------------------------------------------------------------------
(* How handlers move.                                                      *)

\* One handler moves, or none does.
Moves(from, to) ==
  \E u \in Updates, step \in to : pc[u] \in from /\ Goto(u, step)

LEMMA RequestsMove ==
  ASSUME RequestsStep
  PROVE  \/ UNCHANGED pc
         \/ Moves({"upsert", "blocked", "gate", "lookup", "cachedRow", "sendCached", "clearId",
                   "limit", "variant", "insert", "enqueue"},
                  {"blocked", "gate", "lookup", "cachedRow", "sendCached", "clearId", "limit",
                   "insert", "enqueue", "done"})
  BY DEF RequestsStep, Moves, Ends, Upsert, CheckBlocked, Gate, Lookup, CachedRow, SendCached,
         ClearId, CheckLimit, CheckVariant, Insert, Enqueue, Stored, NewDay

LEMMA AdminsMove ==
  ASSUME AdminsStep
  PROVE  \/ UNCHANGED pc
         \/ Moves({"press", "act", "switchOn", "switchOff", "input", "pending", "apply", "clear"},
                  {"act", "switchOn", "switchOff", "pending", "apply", "clear", "upsert", "done"})
  BY DEF AdminsStep, Moves, Press, Ask, Switch, ReadMaintenance, WriteMaintenance, SetStatus,
         CheckInput, GetPending, Apply, Clear, PendingExpires

LEMMA RateMove ==
  ASSUME RateStep
  PROVE  \/ UNCHANGED pc
         \/ Moves({"new", "incr", "expire"},
                  {"incr", "variant", "press", "expire", "input", "done"})
  BY DEF RateStep, Moves, Receive, FirstStep, Incr, Expire, AfterRate, RateExpires

\* Where the handlers at some steps are after one has moved.
LEMMA AtAfter ==
  ASSUME BotTypeOK, NEW u \in Updates, NEW step, Goto(u, step), NEW p \in People, NEW steps
  PROVE  At(p, steps)' =
           IF From[u] # p THEN At(p, steps)
           ELSE IF step \in steps THEN At(p, steps) \cup {u}
           ELSE At(p, steps) \ {u}
  BY DEF BotTypeOK, Goto, At, Of

\* Who moves between other steps leaves them as they are.
LEMMA AtUntouched ==
  ASSUME BotTypeOK, NEW p \in People, NEW steps, NEW from, NEW to,
         from \cap steps = {}, to \cap steps = {}, UNCHANGED pc \/ Moves(from, to)
  PROVE  At(p, steps)' = At(p, steps)
<1>1. CASE UNCHANGED pc
  BY <1>1 DEF At, Of
<1>2. CASE Moves(from, to)
  <2>1. PICK u \in Updates, step \in to : pc[u] \in from /\ Goto(u, step)
    BY <1>2 DEF Moves
  <2>2. step \notin steps /\ u \notin At(p, steps)
    BY <2>1 DEF At
  <2>3. QED
    BY <2>1, <2>2, AtAfter
<1>3. QED
  BY <1>1, <1>2

-----------------------------------------------------------------------------
(* The TTL of the rate key.                                                *)

LEMMA RateStepKeepsTTL ==
  ASSUME BotTypeOK, RateKeyHasTTL, RateStep, UNCHANGED starts, "redis" \notin Conditions
  PROVE  RateKeyHasTTL'
<1> SUFFICES ASSUME starts = 0, NEW p \in People, rate'[p] > 0
             PROVE  p \in ttl' \/ At(p, {"expire"})' # {}
  BY DEF RateKeyHasTTL
<1>1. rate[p] > 0 => p \in ttl \/ At(p, {"expire"}) # {}
  BY DEF RateKeyHasTTL
<1>2. ASSUME NEW u \in Updates, Receive(u) PROVE p \in ttl' \/ At(p, {"expire"})' # {}
  <2>1. Goto(u, FirstStep(u)) /\ pc[u] = "new" /\ UNCHANGED <<rate, ttl>>
    BY <1>2 DEF Receive, rateVars
  <2>2. FirstStep(u) # "expire" /\ u \notin At(p, {"expire"})
    BY <2>1 DEF FirstStep, At
  <2>3. At(p, {"expire"})' = At(p, {"expire"})
    BY <2>1, <2>2, AtAfter
  <2>4. QED
    BY <1>1, <2>1, <2>3
<1>3. ASSUME NEW u \in Updates, Incr(u) PROVE p \in ttl' \/ At(p, {"expire"})' # {}
  <2>1. /\ UNCHANGED ttl /\ pc[u] = "incr"
        /\ rate' = [rate EXCEPT ![From[u]] = rate[From[u]] + 1]
        /\ Goto(u, IF rate[From[u]] + 1 = 1 THEN "expire" ELSE AfterRate(rate[From[u]] + 1))
    BY <1>3 DEF Incr, May
  <2>2. CASE From[u] = p /\ rate[p] = 0
    <3>1. Goto(u, "expire")
      BY <2>1, <2>2
    <3>2. At(p, {"expire"})' = At(p, {"expire"}) \cup {u}
      BY <2>2, <3>1, AtAfter
    <3>3. QED
      BY <3>2
  <2>3. CASE From[u] # p \/ rate[p] # 0
    <3>1. rate[p] > 0
      BY <2>1, <2>3 DEF BotTypeOK
    <3>2. u \notin At(p, {"expire"})
      BY <2>1 DEF At
    <3>3. At(p, {"expire"}) \subseteq At(p, {"expire"})'
      BY <2>1, <3>2, AtAfter
    <3>4. QED
      BY <1>1, <2>1, <3>1, <3>3
  <2>4. QED
    BY <2>2, <2>3
<1>4. ASSUME NEW u \in Updates, Expire(u) PROVE p \in ttl' \/ At(p, {"expire"})' # {}
  <2>1. /\ ttl' = ttl \cup {From[u]} /\ UNCHANGED rate
        /\ Goto(u, AfterRate(1))
    BY <1>4 DEF Expire, May
  <2>2. CASE From[u] = p
    BY <2>1, <2>2
  <2>3. CASE From[u] # p
    <3>1. At(p, {"expire"})' = At(p, {"expire"})
      BY <2>1, <2>3, AtAfter
    <3>2. QED
      BY <1>1, <2>1, <3>1
  <2>4. QED
    BY <2>2, <2>3
<1>5. ASSUME NEW q \in People, RateExpires(q) PROVE p \in ttl' \/ At(p, {"expire"})' # {}
  <2>1. /\ rate' = [rate EXCEPT ![q] = 0] /\ ttl' = ttl \ {q} /\ UNCHANGED pc
    BY <1>5 DEF RateExpires
  <2>2. p # q /\ rate[p] > 0
    BY <2>1 DEF BotTypeOK
  <2>3. At(p, {"expire"})' = At(p, {"expire"})
    BY <2>1 DEF At, Of
  <2>4. QED
    BY <1>1, <2>1, <2>2, <2>3
<1>6. QED
  BY <1>2, <1>3, <1>4, <1>5 DEF RateStep

\* Redis permitting, nobody is limited for good while the bot lives: who made the
\* key sets its TTL, whatever runs meanwhile (rateLimited).
THEOREM RateKeysHaveTTL ==
  ASSUME "redis" \notin Conditions
  PROVE  Spec => []RateKeyHasTTL
<1>1. Init => RateKeyHasTTL
  BY DEF Init, RateInit, RateKeyHasTTL
<1>2. BotTypeOK /\ RateKeyHasTTL /\ [Next]_vars => RateKeyHasTTL'
  <2> SUFFICES ASSUME BotTypeOK, RateKeyHasTTL, [Next]_vars PROVE RateKeyHasTTL'
    OBVIOUS
  <2>1. CASE RateStep /\ UNCHANGED <<kind, adminVars, requestVars>>
    BY <2>1, RateStepKeepsTTL DEF adminVars
  <2>2. ASSUME UNCHANGED <<rate, ttl, starts>>,
               \A p \in People : At(p, {"expire"})' = At(p, {"expire"})
        PROVE  RateKeyHasTTL'
    BY <2>2 DEF RateKeyHasTTL
  <2>3. CASE AdminsStep /\ UNCHANGED <<kind, rateVars, requestVars>>
    <3>1. UNCHANGED <<rate, ttl, starts>>
      BY <2>3 DEF rateVars, AdminsStep, Press, Ask, Switch, ReadMaintenance, WriteMaintenance,
                  SetStatus, CheckInput, GetPending, Apply, Clear, PendingExpires, adminVars
    <3>2. \A p \in People : At(p, {"expire"})' = At(p, {"expire"})
      BY <2>3, AdminsMove, AtUntouched
    <3>3. QED
      BY <2>2, <3>1, <3>2
  <2>4. CASE RequestsStep /\ UNCHANGED <<kind, rateVars>>
    <3>1. \A p \in People : At(p, {"expire"})' = At(p, {"expire"})
      BY <2>4, RequestsMove, AtUntouched
    <3>2. QED
      BY <2>2, <2>4, <3>1, RequestsKeep DEF rateVars
  <2>5. CASE BotStarts
    <3>1. starts' # 0
      BY <2>5 DEF BotStarts, BotTypeOK
    <3>2. QED
      BY <3>1 DEF RateKeyHasTTL
  <2>6. CASE WorkerStarts \/ UNCHANGED vars
    <3>1. UNCHANGED <<rate, ttl, starts, pc>>
      BY <2>6 DEF WorkerStarts, rateVars, vars, adminVars
    <3>2. QED
      BY <2>2, <3>1 DEF At, Of
  <2>7. QED
    BY <2>1, <2>3, <2>4, <2>5, <2>6 DEF Next
<1>3. QED
  BY <1>1, <1>2, BotTypeCorrect, PTL DEF Spec

-----------------------------------------------------------------------------
(* Counting handlers.                                                      *)

LEMMA Counted ==
  ASSUME NEW p \in People, NEW steps
  PROVE  /\ IsFiniteSet(At(p, steps)) /\ Cardinality(At(p, steps)) \in Nat
         /\ IsFiniteSet(Handled(p)) /\ Cardinality(Handled(p)) \in Nat
<1>1. At(p, steps) \subseteq Updates /\ Handled(p) \subseteq Updates
  BY DEF At, Handled, Of
<1>2. QED
  BY <1>1, UpdatesAssumption, FS_Subset, FS_CardinalityType

\* No person has more than Parallel handlers running.
HandlersBounded == \A p \in People : Cardinality(Handled(p)) <= Parallel

LEMMA HandledShrinks ==
  ASSUME HandlersBounded, NEW p \in People, Handled(p)' \subseteq Handled(p)
  PROVE  Cardinality(Handled(p)') <= Parallel
<1>1. IsFiniteSet(Handled(p)) /\ Cardinality(Handled(p)) \in Nat
  BY Counted
<1>2. Cardinality(Handled(p)') <= Cardinality(Handled(p)) /\ Cardinality(Handled(p)') \in Nat
  BY <1>1, FS_Subset, FS_CardinalityType
<1>3. QED
  BY <1>1, <1>2, ParallelAssumption DEF HandlersBounded

\* Who was running before a move is who runs after it, unless he ends.
LEMMA MoveShrinks ==
  ASSUME BotTypeOK, NEW p \in People, NEW from, NEW to,
         "new" \notin from, UNCHANGED pc \/ Moves(from, to), "done" \notin from
  PROVE  Handled(p)' \subseteq Handled(p)
  BY DEF Moves, Goto, Handled, Active, Of, BotTypeOK

LEMMA HandlersBoundedStep ==
  BotTypeOK /\ HandlersBounded /\ [Next]_vars => HandlersBounded'
<1> SUFFICES ASSUME BotTypeOK, HandlersBounded, [Next]_vars, NEW p \in People
             PROVE  Cardinality(Handled(p)') <= Parallel
  BY DEF HandlersBounded
<1>1. CASE UNCHANGED pc
  <2>1. Handled(p)' = Handled(p)
    BY <1>1 DEF Handled, Active, Of
  <2>2. QED
    BY <2>1 DEF HandlersBounded
<1>2. CASE AdminsStep
  <2>1. Handled(p)' \subseteq Handled(p)
    BY <1>2, AdminsMove, MoveShrinks
  <2>2. QED
    BY <2>1, HandledShrinks
<1>3. CASE RequestsStep
  <2>1. Handled(p)' \subseteq Handled(p)
    BY <1>3, RequestsMove, MoveShrinks
  <2>2. QED
    BY <2>1, HandledShrinks
<1>4. CASE BotStarts
  <2>1. Handled(p)' = {}
    BY <1>4 DEF BotStarts, Handled, Active, Of, BotTypeOK
  <2>2. QED
    BY <2>1, FS_EmptySet, ParallelAssumption
<1>5. CASE RateStep
  <2>1. ASSUME NEW u \in Updates, Receive(u) PROVE Cardinality(Handled(p)') <= Parallel
    <3>1. CASE From[u] # p
      <4>1. Handled(p)' \subseteq Handled(p)
        BY <2>1, <3>1 DEF Receive, Goto, Handled, Active, Of, BotTypeOK
      <4>2. QED
        BY <4>1, HandledShrinks
    <3>2. CASE From[u] = p
      <4>1. Handled(p)' \subseteq Handled(p) \cup {u}
        BY <2>1, <3>2 DEF Receive, Goto, Handled, Active, Of, BotTypeOK
      <4>2. Cardinality(Handled(p)) < Parallel
        BY <2>1, <3>2 DEF Receive
      <4>3. IsFiniteSet(Handled(p)) /\ Cardinality(Handled(p)) \in Nat
        BY Counted
      <4>4. /\ IsFiniteSet(Handled(p) \cup {u})
            /\ Cardinality(Handled(p) \cup {u}) \in {Cardinality(Handled(p)), Cardinality(Handled(p)) + 1}
        BY <4>3, FS_AddElement
      <4>5. /\ Cardinality(Handled(p)') <= Cardinality(Handled(p) \cup {u})
            /\ Cardinality(Handled(p)') \in Nat
        BY <4>1, <4>4, FS_Subset, FS_CardinalityType
      <4>6. QED
        BY <4>2, <4>3, <4>4, <4>5, ParallelAssumption
    <3>3. QED
      BY <3>1, <3>2
  <2>2. ASSUME NEW u \in Updates, Incr(u) \/ Expire(u)
        PROVE  Cardinality(Handled(p)') <= Parallel
    <3>1. Handled(p)' \subseteq Handled(p)
      BY <2>2 DEF Incr, Expire, Goto, Handled, Active, Of, BotTypeOK
    <3>2. QED
      BY <3>1, HandledShrinks
  <2>3. ASSUME NEW q \in People, RateExpires(q) PROVE UNCHANGED pc
    BY <2>3 DEF RateExpires
  <2>4. QED
    BY <1>1, <1>5, <2>1, <2>2, <2>3 DEF RateStep
<1>6. QED
  BY <1>1, <1>2, <1>3, <1>4, <1>5 DEF Next, vars, WorkerStarts

\* The bound on handlers is what Receive makes it.
LEMMA HandlersAreBounded == Spec => []HandlersBounded
<1>1. Init => HandlersBounded
  <2> SUFFICES ASSUME Init, NEW p \in People PROVE Cardinality(Handled(p)) <= Parallel
    BY DEF HandlersBounded
  <2>1. Handled(p) = {}
    BY DEF Init, Handled, Active, Of
  <2>2. QED
    BY <2>1, FS_EmptySet, ParallelAssumption
<1>2. QED
  BY <1>1, HandlersBoundedStep, BotTypeCorrect, PTL DEF Spec

-----------------------------------------------------------------------------
(* The daily limit.                                                        *)

\* The links of a person that are past the check and have no row yet.
Inserting(p) == {u \in At(p, {"insert"}) : kind[u] = "link"}

\* Every row for a link is one of today's, and with those to come there are few.
LimitHeld(p) ==
  /\ links[p] <= today[p]
  /\ links[p] + Cardinality(Inserting(p)) <= DailyLimit + Parallel - 1
  /\ Inserting(p) # {} => DailyLimit > 0

OvershootInv ==
  /\ \A u \in Updates : pc[u] = "variant" => kind[u] = "mp3"
  /\ \A p \in People : LimitHeld(p)

LEMMA InsertingCounted ==
  ASSUME NEW p \in People
  PROVE  /\ IsFiniteSet(Inserting(p)) /\ Cardinality(Inserting(p)) \in Nat
         /\ Cardinality(Inserting(p)) <= Cardinality(Handled(p))
         /\ Inserting(p) = {} => Cardinality(Inserting(p)) = 0
<1>1. Inserting(p) \subseteq Handled(p)
  BY DEF Inserting, Handled, Active, At, Of
<1>2. IsFiniteSet(Handled(p))
  BY Counted
<1>3. QED
  BY <1>1, <1>2, FS_Subset, FS_CardinalityType, FS_EmptySet

LEMMA LimitKept ==
  ASSUME OvershootInv, NEW p \in People, UNCHANGED links, today'[p] >= today[p],
         Inserting(p)' = Inserting(p), links[p] \in Nat, today[p] \in Nat, today'[p] \in Nat
  PROVE  LimitHeld(p)'
<1>1. LimitHeld(p)
  BY DEF OvershootInv
<1>2. links[p] <= today'[p]
  BY <1>1 DEF LimitHeld
<1>3. QED
  BY <1>1, <1>2 DEF LimitHeld

\* One handler moves, and not to or from the insertion of a link.
LEMMA InsertingUntouched ==
  ASSUME BotTypeOK, UNCHANGED kind, NEW u \in Updates, NEW step, Goto(u, step),
         pc[u] # "insert", step # "insert" \/ kind[u] # "link", NEW p \in People
  PROVE  Inserting(p)' = Inserting(p)
<1>1. At(p, {"insert"})' = IF From[u] # p THEN At(p, {"insert"})
                           ELSE IF step \in {"insert"} THEN At(p, {"insert"}) \cup {u}
                           ELSE At(p, {"insert"}) \ {u}
  BY AtAfter
<1>2. u \notin At(p, {"insert"})
  BY DEF At
<1>3. QED
  BY <1>1, <1>2 DEF Inserting

LEMMA LimitStep ==
  ASSUME BotTypeOK, HandlersBounded', OvershootInv, RequestsStep, UNCHANGED kind,
         NEW p \in People
  PROVE  LimitHeld(p)'
<1>1. /\ links[p] \in Nat /\ today[p] \in Nat /\ LimitHeld(p)
      /\ DailyLimit \in Nat /\ Parallel \in Nat \ {0}
      /\ IsFiniteSet(Inserting(p)) /\ Cardinality(Inserting(p)) \in Nat
  BY DailyAssumption, ParallelAssumption, InsertingCounted DEF BotTypeOK, OvershootInv
<1>2. ASSUME NEW u \in Updates,
             \/ Upsert(u) \/ CheckBlocked(u) \/ Gate(u) \/ Lookup(u) \/ SendCached(u)
             \/ ClearId(u) \/ CheckVariant(u) \/ Enqueue(u)
      PROVE  LimitHeld(p)'
  <2>1. UNCHANGED <<links, today>>
    BY <1>2 DEF Upsert, CheckBlocked, Gate, Lookup, SendCached, ClearId, CheckVariant, Enqueue
  <2>2. PICK step : Goto(u, step) /\ (step = "insert" => pc[u] = "variant")
    BY <1>2 DEF Upsert, CheckBlocked, Gate, Lookup, SendCached, ClearId, CheckVariant, Enqueue, Ends
  <2>3. pc[u] # "insert"
    BY <1>2 DEF Upsert, CheckBlocked, Gate, Lookup, SendCached, ClearId, CheckVariant, Enqueue
  <2>4. step # "insert" \/ kind[u] # "link"
    BY <2>2 DEF OvershootInv
  <2>5. Inserting(p)' = Inserting(p)
    BY <2>2, <2>3, <2>4, InsertingUntouched
  <2>6. QED
    BY <1>1, <2>1, <2>5, LimitKept
<1>3. ASSUME NEW u \in Updates, CachedRow(u) PROVE LimitHeld(p)'
  <2>1. Inserting(p)' = Inserting(p)
    BY <1>3, InsertingUntouched DEF CachedRow
  <2>2. UNCHANGED links /\ today'[p] >= today[p] /\ today'[p] \in Nat
    BY <1>3, UpdatesAssumption DEF CachedRow, BotTypeOK
  <2>3. QED
    BY <1>1, <2>1, <2>2, LimitKept
<1>4. ASSUME NEW u \in Updates, CheckLimit(u) PROVE LimitHeld(p)'
  <2>1. UNCHANGED <<links, today>> /\ pc[u] = "limit"
    BY <1>4 DEF CheckLimit
  <2>2. CASE Goto(u, "done") \/ From[u] # p
    <3>1. PICK step : Goto(u, step)
      BY <1>4 DEF CheckLimit, Ends
    <3>2. u \notin At(p, {"insert"}) /\ (From[u] # p \/ Goto(u, "done"))
      BY <2>1, <2>2 DEF At
    <3>3. At(p, {"insert"})' = At(p, {"insert"})
      BY <3>1, <3>2, AtAfter
    <3>4. Inserting(p)' = Inserting(p)
      BY <3>3 DEF Inserting
    <3>5. QED
      BY <1>1, <2>1, <3>4, LimitKept
  <2>3. CASE today[From[u]] < DailyLimit /\ From[u] = p
    <3>1. links[p] <= DailyLimit - 1 /\ DailyLimit > 0
      BY <1>1, <2>3 DEF LimitHeld
    <3>2. Cardinality(Inserting(p))' <= Parallel /\ Cardinality(Inserting(p))' \in Nat
      <4>1. /\ Cardinality(Inserting(p)') \in Nat
            /\ Cardinality(Inserting(p)') <= Cardinality(Handled(p)')
        <5>1. Inserting(p)' \subseteq Handled(p)'
          BY DEF Inserting, Handled, Active, At, Of
        <5>2. Handled(p)' \subseteq Updates
          BY DEF Handled, Of
        <5>3. QED
          BY <5>1, <5>2, UpdatesAssumption, FS_Subset, FS_CardinalityType
      <4>2. Cardinality(Handled(p)') <= Parallel /\ Cardinality(Handled(p)') \in Nat
        <5>1. Handled(p)' \subseteq Updates
          BY DEF Handled, Of
        <5>2. QED
          BY <5>1, UpdatesAssumption, FS_Subset, FS_CardinalityType DEF HandlersBounded
      <4>3. QED
        BY <1>1, <4>1, <4>2
    <3>3. QED
      BY <1>1, <2>1, <3>1, <3>2 DEF LimitHeld
  <2>4. QED
    BY <1>4, <2>2, <2>3 DEF CheckLimit, Ends
<1>5. ASSUME NEW u \in Updates, Insert(u) PROVE LimitHeld(p)'
  <2>1. PICK step : Goto(u, step) /\ step # "insert" /\ pc[u] = "insert"
    BY <1>5 DEF Insert, Ends
  <2>2. At(p, {"insert"})' = IF From[u] = p THEN At(p, {"insert"}) \ {u} ELSE At(p, {"insert"})
    BY <2>1, AtAfter
  <2>3. Inserting(p)' = IF From[u] = p THEN Inserting(p) \ {u} ELSE Inserting(p)
    BY <2>2 DEF Inserting
  <2>4. CASE UNCHANGED <<links, today>>
    <3>1. /\ Cardinality(Inserting(p)') \in Nat
          /\ Cardinality(Inserting(p)') <= Cardinality(Inserting(p))
      BY <1>1, <2>3, FS_RemoveElement, FS_Subset, FS_CardinalityType
    <3>2. QED
      BY <1>1, <2>3, <2>4, <3>1 DEF LimitHeld
  <2>5. CASE /\ today' = [today EXCEPT ![From[u]] = @ + 1]
             /\ links' = [links EXCEPT ![From[u]] = IF kind[u] = "link" THEN @ + 1 ELSE @]
    <3>1. CASE From[u] # p
      BY <1>1, <2>3, <2>5, <3>1 DEF LimitHeld, BotTypeOK
    <3>2. CASE From[u] = p /\ kind[u] = "link"
      <4>1. u \in Inserting(p)
        BY <2>1, <3>2 DEF Inserting, At, Of
      <4>2. Cardinality(Inserting(p)') = Cardinality(Inserting(p)) - 1
        BY <1>1, <2>3, <3>2, <4>1, FS_RemoveElement
      <4>3. today'[p] = today[p] + 1 /\ links'[p] = links[p] + 1
        BY <2>5, <3>2 DEF BotTypeOK
      <4>4. QED
        BY <1>1, <2>3, <4>2, <4>3 DEF LimitHeld
    <3>3. CASE From[u] = p /\ kind[u] # "link"
      <4>1. u \notin Inserting(p)
        BY <3>3 DEF Inserting
      <4>2. Inserting(p)' = Inserting(p)
        BY <2>3, <4>1
      <4>3. today'[p] = today[p] + 1 /\ links'[p] = links[p]
        BY <2>5, <3>3 DEF BotTypeOK
      <4>4. QED
        BY <1>1, <4>2, <4>3 DEF LimitHeld
    <3>4. QED
      BY <3>1, <3>2, <3>3
  <2>6. QED
    BY <1>5, <2>4, <2>5 DEF Insert
<1>6. CASE Stored
  <2>1. UNCHANGED <<links, today, pc>>
    BY <1>6 DEF Stored
  <2>2. Inserting(p)' = Inserting(p)
    BY <2>1 DEF Inserting, At, Of
  <2>3. QED
    BY <1>1, <2>1, <2>2, LimitKept
<1>7. CASE NewDay
  <2>1. UNCHANGED pc /\ today'[p] = 0 /\ links'[p] = 0
    BY <1>7 DEF NewDay
  <2>2. Inserting(p)' = Inserting(p) /\ Handled(p)' = Handled(p)
    BY <2>1 DEF Inserting, At, Of, Handled, Active
  <2>3. /\ Cardinality(Inserting(p)) <= Cardinality(Handled(p))
        /\ Inserting(p) = {} => Cardinality(Inserting(p)) = 0
    BY InsertingCounted
  <2>4. Cardinality(Handled(p)) <= Parallel /\ Cardinality(Handled(p)) \in Nat
    BY <2>2, Counted DEF HandlersBounded
  <2>5. Cardinality(Inserting(p)) <= DailyLimit + Parallel - 1
    BY <1>1, <2>3, <2>4 DEF LimitHeld
  <2>6. QED
    BY <1>1, <2>1, <2>2, <2>5 DEF LimitHeld
<1>8. QED
  BY <1>2, <1>3, <1>4, <1>5, <1>6, <1>7 DEF RequestsStep

LEMMA VariantIsMp3 ==
  ASSUME BotTypeOK, OvershootInv, [Next]_vars, NEW u \in Updates, pc'[u] = "variant"
  PROVE  kind'[u] = "mp3"
<1>1. UNCHANGED kind
  BY DEF Next, vars, RateStep, AdminsStep, RequestsStep, BotStarts, WorkerStarts
<1>2. CASE pc[u] = "variant"
  BY <1>1, <1>2 DEF OvershootInv
<1>3. CASE pc[u] # "variant"
  <2>1. pc'[u] # pc[u]
    BY <1>3
  <2>2. ~AdminsStep /\ ~RequestsStep
    BY <2>1, AdminsMove, RequestsMove DEF Moves, Goto, BotTypeOK
  <2>3. ~BotStarts /\ ~WorkerStarts /\ ~UNCHANGED vars
    BY <2>1 DEF BotStarts, WorkerStarts, vars, BotTypeOK
  <2>4. RateStep
    BY <2>2, <2>3 DEF Next
  <2>5. Receive(u) /\ FirstStep(u) = "variant"
    BY <2>1, <2>4 DEF RateStep, Receive, Incr, Expire, RateExpires, AfterRate, Goto, BotTypeOK
  <2>6. kind[u] = "mp3"
    BY <2>5 DEF FirstStep
  <2>7. QED
    BY <1>1, <2>6
<1>4. QED
  BY <1>2, <1>3

LEMMA OvershootStep ==
  BotTypeOK /\ HandlersBounded' /\ OvershootInv /\ [Next]_vars => OvershootInv'
<1> SUFFICES ASSUME BotTypeOK, HandlersBounded', OvershootInv, [Next]_vars, NEW p \in People
             PROVE  LimitHeld(p)'
  BY VariantIsMp3 DEF OvershootInv
<1>1. links[p] \in Nat /\ today[p] \in Nat
  BY DEF BotTypeOK
<1>2. ASSUME UNCHANGED <<kind, links, today>>, At(p, {"insert"})' = At(p, {"insert"})
      PROVE  LimitHeld(p)'
  BY <1>1, <1>2, LimitKept DEF Inserting
<1>3. CASE RateStep /\ UNCHANGED <<kind, adminVars, requestVars>>
  BY <1>2, <1>3, RateMove, AtUntouched DEF requestVars
<1>4. CASE AdminsStep /\ UNCHANGED <<kind, rateVars, requestVars>>
  BY <1>2, <1>4, AdminsMove, AtUntouched DEF requestVars
<1>5. CASE RequestsStep /\ UNCHANGED <<kind, rateVars>>
  BY <1>5, LimitStep
<1>6. CASE BotStarts
  <2>1. Inserting(p)' = {} /\ UNCHANGED <<links, today>>
    BY <1>6 DEF BotStarts, Inserting, At, Of, Active, BotTypeOK
  <2>2. Cardinality(Inserting(p)') = 0
    BY <2>1, FS_EmptySet
  <2>3. Cardinality(Inserting(p)) \in Nat
    BY InsertingCounted
  <2>4. QED
    BY <1>1, <2>1, <2>2, <2>3, DailyAssumption, ParallelAssumption DEF LimitHeld, OvershootInv
<1>7. CASE WorkerStarts \/ UNCHANGED vars
  <2>1. UNCHANGED <<kind, links, today, pc>>
    BY <1>7 DEF WorkerStarts, requestVars, vars
  <2>2. QED
    BY <1>2, <2>1 DEF At, Of
<1>8. QED
  BY <1>3, <1>4, <1>5, <1>6, <1>7 DEF Next

\* A person gets at most as many downloads above the daily limit as he has
\* handlers running besides the last, for any number of updates and people
\* (handleInstagramLink).
THEOREM OvershootIsBounded == Spec => []OvershootBounded
<1>1. Init => OvershootInv
  <2> SUFFICES ASSUME Init PROVE OvershootInv
    OBVIOUS
  <2>1. \A p \in People : Inserting(p) = {}
    BY DEF Init, Inserting, At, Of
  <2>2. \A u \in Updates : pc[u] # "variant"
    BY DEF Init
  <2>3. \A p \in People : links[p] = 0 /\ today[p] = 0
    BY DEF Init, RequestsInit
  <2>4. QED
    BY <2>1, <2>2, <2>3, FS_EmptySet, DailyAssumption, ParallelAssumption
    DEF OvershootInv, LimitHeld
<1>2. BotTypeOK /\ OvershootInv => OvershootBounded
  <2> SUFFICES ASSUME BotTypeOK, OvershootInv, NEW p \in People
               PROVE  links[p] <= DailyLimit + Parallel - 1
    BY DEF OvershootBounded
  <2>1. links[p] \in Nat /\ Cardinality(Inserting(p)) \in Nat /\ LimitHeld(p)
    BY InsertingCounted DEF BotTypeOK, OvershootInv
  <2>2. QED
    BY <2>1, DailyAssumption, ParallelAssumption DEF LimitHeld
<1>3. QED
  BY <1>1, <1>2, OvershootStep, BotTypeCorrect, HandlersAreBounded, PTL DEF Spec

-----------------------------------------------------------------------------
(* Texts taken for answers.                                                *)

Taking(p) == At(p, {"apply"})

Answering(p) == At(p, {"apply", "clear"})

\* While a prompt is kept, the handlers that read it count against it; after it is
\* gone, they count against the prompts that there have been.
AnswersHeld(p) ==
  applied[p] + Cardinality(Taking(p)) <=
    IF pending[p] = NoPrompt
      THEN Parallel * asked[p]
      ELSE Parallel * (asked[p] - 1) + Cardinality(Answering(p))

AnswersInv == starts = 0 => \A p \in People : AnswersHeld(p)

LEMMA AnsweringCounted ==
  ASSUME NEW p \in People, HandlersBounded
  PROVE  /\ IsFiniteSet(Taking(p)) /\ Cardinality(Taking(p)) \in Nat
         /\ IsFiniteSet(Answering(p)) /\ Cardinality(Answering(p)) \in Nat
         /\ Cardinality(Answering(p)) <= Parallel
<1>1. /\ IsFiniteSet(Taking(p)) /\ Cardinality(Taking(p)) \in Nat
      /\ IsFiniteSet(Answering(p)) /\ Cardinality(Answering(p)) \in Nat
      /\ IsFiniteSet(Handled(p)) /\ Cardinality(Handled(p)) \in Nat
  BY Counted DEF Taking, Answering
<1>2. Answering(p) \subseteq Handled(p)
  BY DEF Answering, Handled, Active, At, Of
<1>3. QED
  BY <1>1, <1>2, FS_Subset, ParallelAssumption DEF HandlersBounded

\* Nothing but a prompt may go while no handler comes or goes.
LEMMA AnswersKept ==
  ASSUME BotTypeOK, HandlersBounded, NEW p \in People, AnswersHeld(p),
         applied'[p] = applied[p], asked'[p] = asked[p],
         pending'[p] \in {pending[p], NoPrompt},
         At(p, {"apply"})' = At(p, {"apply"}),
         At(p, {"apply", "clear"})' = At(p, {"apply", "clear"})
  PROVE  AnswersHeld(p)'
<1>1. /\ applied[p] \in Nat /\ asked[p] \in Nat /\ Parallel \in Nat
      /\ Cardinality(Taking(p)) \in Nat /\ Cardinality(Answering(p)) \in Nat
      /\ Cardinality(Answering(p)) <= Parallel
  BY AnsweringCounted, ParallelAssumption DEF BotTypeOK
<1>2. Parallel * (asked[p] - 1) + Parallel = Parallel * asked[p]
  BY <1>1
<1>3. Parallel * (asked[p] - 1) \in Int /\ Parallel * asked[p] \in Int
  BY <1>1
<1>4. Taking(p)' = Taking(p) /\ Answering(p)' = Answering(p)
  BY DEF Taking, Answering
<1>5. CASE pending'[p] = pending[p]
  BY <1>4, <1>5 DEF AnswersHeld
<1>6. CASE pending'[p] = NoPrompt
  BY <1>1, <1>2, <1>3, <1>4, <1>6 DEF AnswersHeld
<1>7. QED
  BY <1>5, <1>6

LEMMA AnswersAdminsStep ==
  ASSUME BotTypeOK, HandlersBounded, AdminsStep, "redis" \notin Conditions,
         NEW p \in People, AnswersHeld(p)
  PROVE  AnswersHeld(p)'
<1> DEFINE k == Parallel * asked[p]
           l == Parallel * (asked[p] - 1)
<1>1. /\ applied[p] \in Nat /\ asked[p] \in Nat /\ Parallel \in Nat
      /\ IsFiniteSet(Taking(p)) /\ Cardinality(Taking(p)) \in Nat
      /\ IsFiniteSet(Answering(p)) /\ Cardinality(Answering(p)) \in Nat
      /\ Cardinality(Answering(p)) <= Parallel
  BY AnsweringCounted, ParallelAssumption DEF BotTypeOK
<1>2. k \in Int /\ l \in Int /\ l + Parallel = k /\ Parallel * (asked[p] + 1 - 1) = k
  BY <1>1
<1>3. applied[p] + Cardinality(Taking(p)) <=
        IF pending[p] = NoPrompt THEN k ELSE l + Cardinality(Answering(p))
  BY DEF AnswersHeld
<1>4. ASSUME NEW u \in Updates, Ask(u) PROVE AnswersHeld(p)'
  <2>1. /\ pending' = [pending EXCEPT ![From[u]] = kind[u]]
        /\ asked' = [asked EXCEPT ![From[u]] = @ + 1]
        /\ UNCHANGED applied /\ Goto(u, "done") /\ pc[u] = "act" /\ kind[u] \in Prompts
    BY <1>4 DEF Ask, May
  <2>2. u \notin At(p, {"apply"}) /\ u \notin At(p, {"apply", "clear"})
    BY <2>1 DEF At
  <2>3. Taking(p)' = Taking(p) /\ Answering(p)' = Answering(p)
    BY <2>1, <2>2, AtAfter DEF Taking, Answering
  <2>4. CASE From[u] # p
    <3>1. UNCHANGED <<pending[p], asked[p], applied[p]>>
      BY <2>1, <2>4 DEF BotTypeOK
    <3>2. QED
      BY <2>3, <3>1 DEF AnswersHeld
  <2>5. CASE From[u] = p
    <3>1. pending'[p] # NoPrompt /\ asked'[p] = asked[p] + 1
      BY <2>1, <2>5 DEF BotTypeOK, NoPrompt, Prompts
    <3>2. Parallel * (asked'[p] - 1) = k
      <4>1. asked'[p] - 1 = asked[p]
        BY <1>1, <3>1
      <4>2. QED
        BY <4>1, Zenon
    <3>3. applied[p] + Cardinality(Taking(p)) <= k
      BY <1>1, <1>2, <1>3
    <3>4. QED
      BY <1>1, <1>2, <2>1, <2>3, <3>1, <3>2, <3>3 DEF AnswersHeld
  <2>6. QED
    BY <2>4, <2>5
<1>5. ASSUME NEW u \in Updates, GetPending(u) PROVE AnswersHeld(p)'
  <2>1. UNCHANGED <<pending, asked, applied>> /\ pc[u] = "pending"
    BY <1>5 DEF GetPending
  <2>2. u \notin At(p, {"apply"}) /\ u \notin At(p, {"apply", "clear"})
    BY <2>1 DEF At
  <2>3. CASE Goto(u, "upsert") \/ From[u] # p
    <3>1. Goto(u, "upsert") \/ Goto(u, "apply")
      BY <1>5 DEF GetPending
    <3>2. /\ At(p, {"apply"})' = At(p, {"apply"})
          /\ At(p, {"apply", "clear"})' = At(p, {"apply", "clear"})
      BY <2>2, <2>3, <3>1, AtAfter
    <3>3. QED
      BY <2>1, <3>2, AnswersKept
  <2>4. CASE Goto(u, "apply") /\ pending[p] # NoPrompt /\ From[u] = p
    <3>1. Taking(p)' = Taking(p) \cup {u} /\ Answering(p)' = Answering(p) \cup {u}
      BY <2>4, AtAfter DEF Taking, Answering
    <3>2. /\ Cardinality(Taking(p)') = Cardinality(Taking(p)) + 1
          /\ Cardinality(Answering(p)') = Cardinality(Answering(p)) + 1
      BY <1>1, <2>2, <3>1, FS_AddElement DEF Taking, Answering
    <3>3. QED
      BY <1>1, <1>2, <1>3, <2>1, <2>4, <3>2 DEF AnswersHeld
  <2>5. QED
    BY <1>5, <2>3, <2>4 DEF GetPending
<1>6. ASSUME NEW u \in Updates, Apply(u) PROVE AnswersHeld(p)'
  <2>1. /\ UNCHANGED <<pending, asked>> /\ pc[u] = "apply" /\ Goto(u, "clear")
        /\ applied' = [applied EXCEPT ![From[u]] = @ + 1]
    BY <1>6 DEF Apply
  <2>2. CASE From[u] # p
    <3>1. /\ At(p, {"apply"})' = At(p, {"apply"})
          /\ At(p, {"apply", "clear"})' = At(p, {"apply", "clear"})
      BY <2>1, <2>2, AtAfter
    <3>2. applied'[p] = applied[p]
      BY <2>1, <2>2 DEF BotTypeOK
    <3>3. QED
      BY <2>1, <3>1, <3>2, AnswersKept
  <2>3. CASE From[u] = p
    <3>1. u \in At(p, {"apply"}) /\ u \in At(p, {"apply", "clear"})
      BY <2>1, <2>3 DEF At, Of
    <3>2. Taking(p)' = Taking(p) \ {u} /\ Answering(p)' = Answering(p)
      BY <2>1, <2>3, <3>1, AtAfter DEF Taking, Answering
    <3>3. Cardinality(Taking(p)') = Cardinality(Taking(p)) - 1
      BY <1>1, <3>1, <3>2, FS_RemoveElement DEF Taking
    <3>4. applied'[p] = applied[p] + 1
      BY <2>1, <2>3 DEF BotTypeOK
    <3>5. applied'[p] + Cardinality(Taking(p)') = applied[p] + Cardinality(Taking(p))
      BY <1>1, <3>3, <3>4
    <3>6. QED
      BY <2>1, <3>2, <3>5 DEF AnswersHeld
  <2>4. QED
    BY <2>2, <2>3
<1>7. ASSUME NEW u \in Updates, Clear(u) PROVE AnswersHeld(p)'
  <2>1. /\ UNCHANGED <<asked, applied>> /\ pc[u] = "clear" /\ Goto(u, "done")
        /\ pending' = [pending EXCEPT ![From[u]] = NoPrompt]
    BY <1>7 DEF Clear, May
  <2>2. u \notin At(p, {"apply"})
    BY <2>1 DEF At
  <2>3. Taking(p)' = Taking(p)
    BY <2>1, <2>2, AtAfter DEF Taking
  <2>4. CASE From[u] # p
    <3>1. At(p, {"apply", "clear"})' = At(p, {"apply", "clear"})
      BY <2>1, <2>4, AtAfter
    <3>2. pending'[p] = pending[p]
      BY <2>1, <2>4 DEF BotTypeOK
    <3>3. QED
      BY <2>1, <2>3, <3>1, <3>2, AnswersKept DEF Taking
  <2>5. CASE From[u] = p
    <3>1. pending'[p] = NoPrompt
      BY <2>1, <2>5 DEF BotTypeOK
    <3>2. applied[p] + Cardinality(Taking(p)) <= k
      BY <1>1, <1>2, <1>3
    <3>3. QED
      BY <2>1, <2>3, <3>1, <3>2 DEF AnswersHeld
  <2>6. QED
    BY <2>4, <2>5
<1>8. ASSUME NEW u \in Updates,
             \/ Press(u) \/ Switch(u) \/ ReadMaintenance(u) \/ WriteMaintenance(u)
             \/ SetStatus(u) \/ CheckInput(u)
      PROVE  AnswersHeld(p)'
  <2>1. UNCHANGED <<pending, asked, applied>>
    BY <1>8 DEF Press, Switch, ReadMaintenance, WriteMaintenance, SetStatus, CheckInput, adminVars
  <2>2. Moves({"press", "act", "switchOn", "switchOff", "input"},
              {"act", "switchOn", "switchOff", "pending", "upsert", "done"})
    BY <1>8 DEF Moves, Press, Switch, ReadMaintenance, WriteMaintenance, SetStatus, CheckInput
  <2>3. /\ At(p, {"apply"})' = At(p, {"apply"})
        /\ At(p, {"apply", "clear"})' = At(p, {"apply", "clear"})
    BY <2>2, AtUntouched
  <2>4. QED
    BY <2>1, <2>3, AnswersKept
<1>9. ASSUME NEW q \in People, PendingExpires(q) PROVE AnswersHeld(p)'
  <2>1. UNCHANGED <<pc, asked, applied>> /\ pending' = [pending EXCEPT ![q] = NoPrompt]
    BY <1>9 DEF PendingExpires
  <2>2. pending'[p] \in {pending[p], NoPrompt}
    BY <2>1 DEF BotTypeOK
  <2>3. /\ At(p, {"apply"})' = At(p, {"apply"})
        /\ At(p, {"apply", "clear"})' = At(p, {"apply", "clear"})
    BY <2>1 DEF At, Of
  <2>4. QED
    BY <2>1, <2>2, <2>3, AnswersKept
<1>10. QED
  BY <1>4, <1>5, <1>6, <1>7, <1>8, <1>9 DEF AdminsStep

LEMMA AnswersStep ==
  ASSUME BotTypeOK, HandlersBounded, AnswersInv, [Next]_vars, "redis" \notin Conditions
  PROVE  AnswersInv'
<1> SUFFICES ASSUME starts' = 0, NEW p \in People PROVE AnswersHeld(p)'
  BY DEF AnswersInv
<1>1. ~BotStarts
  BY DEF BotStarts, BotTypeOK
<1>2. starts = 0
  <2>1. AdminsStep => UNCHANGED starts
    BY DEF AdminsStep, Press, Ask, Switch, ReadMaintenance, WriteMaintenance, SetStatus,
           CheckInput, GetPending, Apply, Clear, PendingExpires, adminVars
  <2>2. RequestsStep => UNCHANGED starts
    BY RequestsKeep
  <2>3. QED
    BY <1>1, <2>1, <2>2 DEF Next, adminVars, WorkerStarts, vars
<1>3. AnswersHeld(p)
  BY <1>2 DEF AnswersInv
<1>4. CASE AdminsStep
  BY <1>3, <1>4, AnswersAdminsStep
<1>5. ASSUME UNCHANGED <<pending, asked, applied>>,
             /\ At(p, {"apply"})' = At(p, {"apply"})
             /\ At(p, {"apply", "clear"})' = At(p, {"apply", "clear"})
      PROVE  AnswersHeld(p)'
  BY <1>3, <1>5, AnswersKept
<1>6. CASE RateStep /\ UNCHANGED <<kind, adminVars, requestVars>>
  BY <1>5, <1>6, RateMove, AtUntouched DEF adminVars
<1>7. CASE RequestsStep
  BY <1>5, <1>7, RequestsMove, RequestsKeep, AtUntouched
<1>8. CASE WorkerStarts \/ UNCHANGED vars
  <2>1. UNCHANGED <<pending, asked, applied, pc>>
    BY <1>8 DEF WorkerStarts, Prepare, vars, adminVars
  <2>2. QED
    BY <1>5, <2>1 DEF At, Of
<1>9. QED
  BY <1>1, <1>4, <1>6, <1>7, <1>8 DEF Next

\* Redis permitting, no prompt is answered by more texts than a person has
\* handlers, for any number of updates (TryHandleInput).
THEOREM AnswersAreBounded ==
  ASSUME "redis" \notin Conditions
  PROVE  Spec => []AnswersBounded
<1>1. Init => AnswersInv
  <2> SUFFICES ASSUME Init, NEW p \in People PROVE AnswersHeld(p)
    BY DEF AnswersInv
  <2>1. Taking(p) = {}
    BY DEF Init, Taking, At, Of
  <2>2. applied[p] = 0 /\ asked[p] = 0 /\ pending[p] = NoPrompt
    BY DEF Init, AdminsInit
  <2>3. QED
    BY <2>1, <2>2, FS_EmptySet, ParallelAssumption DEF AnswersHeld
<1>2. BotTypeOK /\ HandlersBounded /\ AnswersInv => AnswersBounded
  <2> SUFFICES ASSUME BotTypeOK, HandlersBounded, AnswersInv, starts = 0, NEW p \in People
               PROVE  applied[p] <= Parallel * asked[p]
    BY DEF AnswersBounded
  <2>1. /\ applied[p] \in Nat /\ asked[p] \in Nat /\ Parallel \in Nat
        /\ Cardinality(Taking(p)) \in Nat /\ Cardinality(Answering(p)) \in Nat
        /\ Cardinality(Answering(p)) <= Parallel /\ AnswersHeld(p)
    BY AnsweringCounted, ParallelAssumption DEF BotTypeOK, AnswersInv
  <2>2. /\ Parallel * (asked[p] - 1) + Parallel = Parallel * asked[p]
        /\ Parallel * (asked[p] - 1) \in Int /\ Parallel * asked[p] \in Int
    BY <2>1
  <2>3. QED
    BY <2>1, <2>2 DEF AnswersHeld
<1>3. QED
  BY <1>1, <1>2, AnswersStep, BotTypeCorrect, HandlersAreBounded, PTL DEF Spec
=============================================================================
