----------------------------- MODULE RightsProofs -----------------------------
(***************************************************************************)
(* The bot implements module Rights, for all people, updates and orders in *)
(* which their handlers run.                                               *)
(***************************************************************************)
EXTENDS BotProofs

\* The steps at which a handler has a right.
Entitled == {"apply", "act", "switchOn", "switchOff"}

HeldThere ==
  \A p \in People : \A r \in {"roles", "settings"} :
    r \in Held(p) <=> r \in RightOf(pending[p]) \/ \E u \in Of(p) : r \in RightsOfHandler(u)

LEMMA HeldHere == HeldThere
<1> SUFFICES ASSUME NEW p \in People, NEW r \in {"roles", "settings"}
             PROVE  r \in Held(p)
                      <=> r \in RightOf(pending[p]) \/ \E u \in Of(p) : r \in RightsOfHandler(u)
  BY DEF HeldThere
<1>1. QED
  BY DEF Held

\* And in the next state as well.
LEMMA HeldNext == HeldThere'
  BY HeldHere, PTL

\* A handler that moves on brings no right, except what it has at its new step.
LEMMA OneMoves ==
  ASSUME BotTypeOK, NEW u \in Updates, NEW step, Goto(u, step), UNCHANGED kind,
         \A v \in Updates \ {u} : prompt'[v] = prompt[v],
         NEW gained, RightsOfHandler(u)' \subseteq gained,
         NEW p \in People, pending'[p] \in {pending[p], NoPrompt}
  PROVE  Held(p)' \subseteq Held(p) \cup (IF From[u] = p THEN gained ELSE {})
<1>1. \A v \in Updates \ {u} : pc'[v] = pc[v]
  BY DEF Goto, BotTypeOK
<1>2. \A v \in Updates \ {u} : RightsOfHandler(v)' = RightsOfHandler(v)
  BY <1>1 DEF RightsOfHandler, Asks
<1>3. RightOf(pending[p])' \subseteq RightOf(pending[p])
  BY DEF RightOf, NoPrompt, ToRoles
<1>4. QED
  BY <1>2, <1>3, HeldHere, HeldNext DEF HeldThere, Of, Held

\* Most handlers bring none.
LEMMA MovesOn ==
  ASSUME BotTypeOK, NEW u \in Updates, NEW step, Goto(u, step), UNCHANGED kind,
         step \notin Entitled, \A v \in Updates \ {u} : prompt'[v] = prompt[v],
         NEW p \in People, pending'[p] \in {pending[p], NoPrompt}
  PROVE  Held(p)' \subseteq Held(p)
<1>1. RightsOfHandler(u)' \subseteq {}
  BY DEF RightsOfHandler, Goto, BotTypeOK, Entitled
<1>2. Held(p)' \subseteq Held(p) \cup (IF From[u] = p THEN {} ELSE {})
  BY <1>1, OneMoves
<1>3. QED
  BY <1>2

\* No handler moves.
LEMMA NoneMoves ==
  ASSUME UNCHANGED <<pc, kind, prompt>>, NEW p \in People,
         pending'[p] \in {pending[p], NoPrompt}
  PROVE  Held(p)' \subseteq Held(p)
<1>1. \A v \in Updates : RightsOfHandler(v)' = RightsOfHandler(v)
  BY DEF RightsOfHandler, Asks
<1>2. RightOf(pending[p])' \subseteq RightOf(pending[p])
  BY DEF RightOf, NoPrompt, ToRoles
<1>3. QED
  BY <1>1, <1>2, HeldHere, HeldNext DEF HeldThere, Of, Held

NothingGained == \A p \in People : Held(p)' \subseteq Held(p)

\* What a step means for Rights, once it is known what is held.
LEMMA Lost ==
  ASSUME NothingGained, UNCHANGED <<role, setting>>
  PROVE  R!Next
  BY DEF NothingGained, R!Next, R!Lose, R!NothingGained

LEMMA RateLoses ==
  ASSUME BotTypeOK, RateStep, UNCHANGED <<kind, adminVars, requestVars>>
  PROVE  NothingGained
<1> SUFFICES ASSUME NEW p \in People PROVE Held(p)' \subseteq Held(p)
  BY DEF NothingGained
<1>1. CASE UNCHANGED pc
  BY <1>1, NoneMoves DEF adminVars
<1>2. ASSUME NEW u \in Updates, NEW step, Goto(u, step), step \notin Entitled
      PROVE  Held(p)' \subseteq Held(p)
  BY <1>2, MovesOn DEF adminVars
<1>3. QED
  BY <1>1, <1>2, RateMove DEF Moves, Entitled

LEMMA RequestsLose ==
  ASSUME BotTypeOK, RequestsStep, UNCHANGED kind
  PROVE  NothingGained
<1> SUFFICES ASSUME NEW p \in People PROVE Held(p)' \subseteq Held(p)
  BY DEF NothingGained
<1>1. CASE UNCHANGED pc
  BY <1>1, NoneMoves, RequestsKeep
<1>2. ASSUME NEW u \in Updates, NEW step, Goto(u, step), step \notin Entitled
      PROVE  Held(p)' \subseteq Held(p)
  BY <1>2, MovesOn, RequestsKeep
<1>3. QED
  BY <1>1, <1>2, RequestsMove DEF Moves, Entitled

-----------------------------------------------------------------------------
(* The actions of Admins.                                                  *)

\* A handler's rights are its sender's.
LEMMA RightsOfHandlerHeld ==
  ASSUME NEW u \in Updates
  PROVE  From[u] \in People /\ RightsOfHandler(u) \subseteq Held(From[u])
<1>1. From[u] \in People /\ u \in Of(From[u])
  BY UpdatesAssumption DEF Of
<1>2. RightsOfHandler(u) \subseteq {"roles", "settings"}
  BY DEF RightsOfHandler, RightOf, Asks
<1>3. QED
  BY <1>1, <1>2, HeldHere DEF HeldThere

\* The button was pressed in a role that entitles to what it asks.
LEMMA PressRefines ==
  ASSUME BotTypeOK, UNCHANGED kind, NEW u \in Updates, Press(u)
  PROVE  R!Next
<1> DEFINE p == From[u]
<1>1. p \in People /\ UNCHANGED <<role, setting, pending, prompt>>
  BY UpdatesAssumption DEF Press, adminVars
<1>2. CASE Goto(u, "done")
  <2>1. NothingGained
    BY <1>1, <1>2, MovesOn DEF NothingGained, Entitled
  <2>2. QED
    BY <1>1, <2>1, Lost
<1>3. CASE MayPress(u) /\ Goto(u, "act")
  <2>1. RightsOfHandler(u)' \subseteq R!Rights(p)
    <3>1. RightsOfHandler(u)' = Asks(u)
      BY <1>3 DEF RightsOfHandler, Asks, Goto, BotTypeOK
    <3>2. role[p] \in {"ADMIN", "SUPERADMIN"}
      BY <1>1, <1>3 DEF MayPress, BotTypeOK, Roles
    <3>3. kind[u] \in {"add_admin", "remove_admin"} => role[p] = "SUPERADMIN"
      BY <1>3 DEF MayPress
    <3>4. QED
      BY <3>1, <3>2, <3>3 DEF Asks, RightOf, ToRoles, R!Rights
  <2>2. \A q \in People : Held(q)' \subseteq Held(q) \cup (IF p = q THEN R!Rights(p) ELSE {})
    BY <1>1, <1>3, <2>1, OneMoves
  <2>3. R!Gain(p)
    BY <1>1, <2>2 DEF R!Gain
  <2>4. QED
    BY <1>1, <2>3 DEF R!Next
<1>4. QED
  BY <1>2, <1>3 DEF Press

\* Who asks for a text keeps the right with which he pressed the button.
LEMMA AskRefines ==
  ASSUME BotTypeOK, UNCHANGED kind, NEW u \in Updates, Ask(u)
  PROVE  R!Next
<1> DEFINE p == From[u]
<1>1. /\ p \in People /\ UNCHANGED <<role, setting, prompt>>
      /\ pc[u] = "act" /\ kind[u] \in Prompts /\ Goto(u, "done")
  BY UpdatesAssumption DEF Ask
<1>2. CASE UNCHANGED pending
  BY <1>1, <1>2, MovesOn, Lost DEF NothingGained, Entitled
<1>3. CASE pending' = [pending EXCEPT ![p] = kind[u]]
  <2>1. \A q \in People \ {p} : Held(q)' \subseteq Held(q)
    BY <1>1, <1>3, MovesOn DEF Entitled, BotTypeOK
  <2>2. Held(p)' \subseteq Held(p)
    <3>1. pending'[p] = kind[u]
      BY <1>1, <1>3 DEF BotTypeOK
    <3>2. RightOf(pending'[p]) = RightsOfHandler(u)
      BY <1>1, <3>1 DEF RightsOfHandler, Asks
    <3>3. RightOf(pending'[p]) \subseteq Held(p)
      BY <3>2, RightsOfHandlerHeld
    <3>4. \A v \in Updates \ {u} : RightsOfHandler(v)' = RightsOfHandler(v)
      BY <1>1 DEF RightsOfHandler, Asks, Goto, BotTypeOK
    <3>5. RightsOfHandler(u)' = {}
      BY <1>1 DEF RightsOfHandler, Goto, BotTypeOK
    <3>6. RightOf(pending[p])' = RightOf(pending'[p])
      BY DEF RightOf
    <3>7. QED
      BY <1>1, <3>3, <3>4, <3>5, <3>6, HeldHere, HeldNext DEF HeldThere, Of, Held
  <2>3. NothingGained
    BY <2>1, <2>2 DEF NothingGained
  <2>4. QED
    BY <1>1, <2>3, Lost
<1>4. QED
  BY <1>2, <1>3 DEF Ask

\* A setting is only changed with the right to do so.
LEMMA ChangeRefines ==
  ASSUME NEW p \in People, "settings" \in Held(p), NothingGained, UNCHANGED role,
         setting' \in Settings
  PROVE  R!Next
  BY DEF NothingGained, R!Next, R!Change, R!NothingGained

LEMMA SwitchRefines ==
  ASSUME BotTypeOK, UNCHANGED kind, NEW u \in Updates,
         Switch(u) \/ ReadMaintenance(u) \/ WriteMaintenance(u) \/ SetStatus(u)
  PROVE  R!Next
<1> DEFINE p == From[u]
<1>1. p \in People /\ UNCHANGED <<role, pending, prompt>> /\ RightsOfHandler(u) \subseteq Held(p)
  BY UpdatesAssumption, RightsOfHandlerHeld
  DEF Switch, ReadMaintenance, WriteMaintenance, SetStatus, adminVars
<1>2. CASE Switch(u)
  <2>1. NothingGained
    BY <1>1, <1>2, MovesOn DEF Switch, NothingGained, Entitled
  <2>2. CASE UNCHANGED setting
    BY <1>1, <2>1, <2>2, Lost
  <2>3. CASE setting' \in Set(kind[u])
    <3>1. kind[u] \in {"online", "offline", "cloud", "local", "preset"} /\ pc[u] = "act"
      BY <1>2 DEF Switch, Switches
    <3>2. setting' \in Settings
      BY <2>3, <3>1, SetTyped DEF BotTypeOK
    <3>3. "settings" \in Held(p)
      BY <1>1, <3>1 DEF RightsOfHandler, Asks, Prompts
    <3>4. QED
      BY <1>1, <2>1, <3>2, <3>3, ChangeRefines
  <2>4. QED
    BY <1>2, <2>2, <2>3 DEF Switch
<1>3. CASE ReadMaintenance(u)
  <2>1. /\ pc[u] = "act" /\ kind[u] = "maintenance" /\ UNCHANGED <<role, setting>>
        /\ Goto(u, "switchOn") \/ Goto(u, "switchOff")
    BY <1>3 DEF ReadMaintenance, adminVars
  <2>2. "settings" \in Held(p)
    BY <1>1, <2>1 DEF RightsOfHandler, Asks, Prompts
  <2>3. RightsOfHandler(u)' \subseteq {"settings"}
    BY <2>1 DEF RightsOfHandler, Goto, BotTypeOK
  <2>4. \A q \in People : Held(q)' \subseteq Held(q) \cup (IF p = q THEN {"settings"} ELSE {})
    BY <1>1, <2>1, <2>3, OneMoves
  <2>5. NothingGained
    BY <2>2, <2>4 DEF NothingGained
  <2>6. QED
    BY <2>1, <2>5, Lost
<1>4. CASE WriteMaintenance(u)
  <2>1. NothingGained
    BY <1>1, <1>4, MovesOn DEF WriteMaintenance, NothingGained, Entitled
  <2>2. setting' \in Settings
    BY <1>4 DEF WriteMaintenance, BotTypeOK, Settings
  <2>3. "settings" \in Held(p)
    BY <1>1, <1>4 DEF WriteMaintenance, RightsOfHandler
  <2>4. QED
    BY <1>1, <2>1, <2>2, <2>3, ChangeRefines
<1>5. CASE SetStatus(u)
  <2>1. UNCHANGED setting /\ Goto(u, "done")
    BY <1>5 DEF SetStatus
  <2>2. NothingGained
    BY <1>1, <2>1, MovesOn DEF NothingGained, Entitled
  <2>3. QED
    BY <1>1, <2>1, <2>2, Lost
<1>6. QED
  BY <1>2, <1>3, <1>4, <1>5

\* Who reads a prompt takes its right over; who has answered it has it no more.
LEMMA InputRefines ==
  ASSUME BotTypeOK, UNCHANGED kind, NEW u \in Updates,
         CheckInput(u) \/ GetPending(u) \/ Clear(u)
  PROVE  R!Next
<1> DEFINE p == From[u]
<1>1. p \in People /\ UNCHANGED <<role, setting>>
  BY UpdatesAssumption DEF CheckInput, GetPending, Clear, adminVars
<1>2. \A v \in Updates \ {u} : prompt'[v] = prompt[v]
  BY DEF CheckInput, GetPending, Clear, adminVars, BotTypeOK
<1>3. \A q \in People : pending'[q] \in {pending[q], NoPrompt}
  BY DEF CheckInput, GetPending, Clear, adminVars, BotTypeOK
<1>4. CASE \E step : Goto(u, step) /\ step \notin Entitled
  BY <1>1, <1>2, <1>3, <1>4, MovesOn, Lost DEF NothingGained
<1>5. CASE GetPending(u) /\ Goto(u, "apply") /\ prompt' = [prompt EXCEPT ![u] = pending[p]]
  <2>1. RightsOfHandler(u)' \subseteq RightOf(pending[p])
    <3>1. pc'[u] = "apply" /\ prompt'[u] = pending[p]
      BY <1>5 DEF Goto, BotTypeOK
    <3>2. QED
      BY <3>1 DEF RightsOfHandler, RightOf
  <2>2. RightOf(pending[p]) \subseteq Held(p)
    BY <1>1 DEF Held, RightOf
  <2>3. \A q \in People :
          Held(q)' \subseteq Held(q) \cup (IF p = q THEN RightOf(pending[p]) ELSE {})
    BY <1>2, <1>3, <1>5, <2>1, OneMoves
  <2>4. NothingGained
    BY <2>2, <2>3 DEF NothingGained
  <2>5. QED
    BY <1>1, <2>4, Lost
<1>6. CheckInput(u) => Goto(u, "pending") \/ Goto(u, "upsert")
  BY DEF CheckInput
<1>7. Clear(u) => Goto(u, "done")
  BY DEF Clear
<1>8. QED
  BY <1>4, <1>5, <1>6, <1>7 DEF GetPending, Entitled

\* The answer is acted on with the prompt's right, whatever the role is by now.
LEMMA ApplyRefines ==
  ASSUME BotTypeOK, UNCHANGED kind, NEW u \in Updates, Apply(u)
  PROVE  R!Next
<1> DEFINE p == From[u]
<1>1. p \in People /\ RightsOfHandler(u) \subseteq Held(p)
  BY RightsOfHandlerHeld
<1>2. RightsOfHandler(u) = RightOf(prompt[u])
  BY DEF Apply, RightsOfHandler
<1>3. NothingGained
  BY MovesOn DEF Apply, NothingGained, Entitled
<1>4. CASE prompt[u] = "add_admin" /\ AddAdmin /\ UNCHANGED setting
  <2>1. "roles" \in Held(p)
    BY <1>1, <1>2, <1>4 DEF RightOf, ToRoles
  <2>2. PICK t \in People : role' = [role EXCEPT ![t] = "ADMIN"]
    BY <1>4 DEF AddAdmin
  <2>3. R!Add(p, t)
    BY <1>1, <1>3, <1>4, <2>1, <2>2 DEF NothingGained, R!Add, R!NothingGained
  <2>4. QED
    BY <1>1, <2>3 DEF R!Next
<1>5. CASE prompt[u] = "remove_admin" /\ RemoveAdmin(p) /\ UNCHANGED setting
  <2>1. "roles" \in Held(p)
    BY <1>1, <1>2, <1>5 DEF RightOf, ToRoles
  <2>2. PICK t \in People \ {p} : role[t] # "SUPERADMIN" /\ role' = [role EXCEPT ![t] = "none"]
    BY <1>5 DEF RemoveAdmin
  <2>3. R!Remove(p, t)
    BY <1>1, <1>3, <1>5, <2>1, <2>2 DEF NothingGained, R!Remove, R!NothingGained
  <2>4. QED
    BY <1>1, <2>3 DEF R!Next
<1>6. CASE prompt[u] \in {"limit", "wording"} /\ setting' \in Settings /\ UNCHANGED role
  <2>1. "settings" \in Held(p)
    BY <1>1, <1>2, <1>6 DEF RightOf, ToRoles
  <2>2. QED
    BY <1>1, <1>3, <1>6, <2>1, ChangeRefines
<1>7. CASE UNCHANGED <<role, setting>>
  BY <1>3, <1>7, Lost
<1>8. setting' \in Set("preset") => setting' \in Settings
  BY SetTyped DEF BotTypeOK
<1>9. setting' = [setting EXCEPT !.rest = "own"] => setting' \in Settings
  BY DEF BotTypeOK, Settings
<1>10. QED
  BY <1>4, <1>5, <1>6, <1>7, <1>8, <1>9 DEF Apply

-----------------------------------------------------------------------------
(* The starts, and all steps.                                              *)

\* A start changes no more than Rights allows it.
LEMMA StartRefines ==
  ASSUME BotTypeOK, BotStarts \/ WorkerStarts
  PROVE  R!Next
<1>1. Prepare /\ UNCHANGED kind
  BY DEF BotStarts, WorkerStarts
<1>2. NothingGained
  <2>1. CASE BotStarts
    <3>1. \A u \in Updates : RightsOfHandler(u)' = {}
      BY <2>1 DEF BotStarts, RightsOfHandler, Active, BotTypeOK
    <3>2. UNCHANGED pending
      BY <1>1 DEF Prepare
    <3>3. \A p \in People : RightOf(pending[p])' = RightOf(pending[p])
      BY <3>2 DEF RightOf
    <3>4. QED
      BY <3>1, <3>3, HeldHere, HeldNext DEF NothingGained, HeldThere, Of, Held
  <2>2. CASE WorkerStarts
    BY <1>1, <2>2, NoneMoves DEF WorkerStarts, NothingGained, Prepare
  <2>3. QED
    BY <2>1, <2>2
<1>3. R!Start
  BY <1>1, <1>2
  DEF Prepare, EnsureDefaults, EnsureSuperAdmin, NothingGained, R!Start, R!NothingGained
<1>4. QED
  BY <1>3 DEF R!Next

LEMMA StepRefines == BotTypeOK /\ [Next]_vars => [R!Next]_(R!rightsVars)
<1> SUFFICES ASSUME BotTypeOK, [Next]_vars PROVE [R!Next]_(R!rightsVars)
  OBVIOUS
<1>1. CASE UNCHANGED vars
  <2>1. UNCHANGED <<kind, pc, pending, prompt, role, setting>>
    BY <1>1 DEF vars, adminVars
  <2>2. NothingGained
    BY <2>1, NoneMoves DEF NothingGained
  <2>3. QED
    BY <2>1, <2>2, Lost
<1>2. CASE RateStep /\ UNCHANGED <<kind, adminVars, requestVars>>
  BY <1>2, RateLoses, Lost DEF adminVars
<1>3. CASE AdminsStep /\ UNCHANGED <<kind, rateVars, requestVars>>
  <2>1. ASSUME NEW p \in People, PendingExpires(p) PROVE R!Next
    <3>1. UNCHANGED <<pc, role, setting, prompt>> /\ \A q \in People : pending'[q] \in {pending[q], NoPrompt}
      BY <2>1 DEF PendingExpires, BotTypeOK
    <3>2. NothingGained
      BY <1>3, <3>1, NoneMoves DEF NothingGained
    <3>3. QED
      BY <3>1, <3>2, Lost
  <2>2. QED
    BY <1>3, <2>1, PressRefines, AskRefines, SwitchRefines, InputRefines, ApplyRefines
    DEF AdminsStep
<1>4. CASE RequestsStep /\ UNCHANGED <<kind, rateVars>>
  BY <1>4, RequestsLose, RequestsKeep, Lost
<1>5. CASE BotStarts \/ WorkerStarts
  BY <1>5, StartRefines
<1>6. QED
  BY <1>1, <1>2, <1>3, <1>4, <1>5 DEF Next

\* The bot keeps to module Rights: who changes the administrators was a superadmin
\* when he pressed the button, and who changes the settings an administrator, for
\* any number of people, updates and handlers, with any call failing
\* (HandleCallback, TryHandleInput).
THEOREM BotKeepsRights == Spec => RightsKept
<1>1. Init => R!Init
  <2> SUFFICES ASSUME Init PROVE R!Init
    OBVIOUS
  <2>1. \A p \in People : Held(p) = {}
    <3>1. \A u \in Updates : RightsOfHandler(u) = {}
      BY DEF Init, RightsOfHandler
    <3>2. \A p \in People : RightOf(pending[p]) = {}
      BY DEF Init, AdminsInit, RightOf, NoPrompt, ToRoles
    <3>3. QED
      BY <3>1, <3>2 DEF Held, Of
  <2>2. setting \in Settings
    BY BotTypeInit DEF BotTypeOK
  <2>3. role \in [People -> {"SUPERADMIN", "ADMIN", "none"}]
    BY DEF Init, AdminsInit, Roles
  <2>4. QED
    BY <2>1, <2>2, <2>3 DEF R!Init
<1>2. QED
  BY <1>1, StepRefines, BotTypeCorrect, PTL DEF Spec, RightsKept, R!Spec
=============================================================================
