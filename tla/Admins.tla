-------------------------------- MODULE Admins --------------------------------
(***************************************************************************)
(* Administrators, the admin panel, the settings and the status of users.  *)
(* A button either changes a setting or a status at once, or asks for a    *)
(* text: the bot keeps a prompt for the administrator in Redis, and his    *)
(* next message is taken for the answer.  Every handler reads who is an    *)
(* administrator in one call and acts in later ones.                       *)
(***************************************************************************)
EXTENDS Updates

CONSTANTS
  Super,        \* SUPERADMIN_TELEGRAM_ID
  ConfigMode,   \* TELEGRAM_API_MODE: "cloud" or "local"
  MaxStarts     \* bound: starts of the bot after the first

ASSUME AdminsAssumption ==
  /\ Super \in People
  /\ ConfigMode \in {"cloud", "local"}
  /\ MaxStarts \in Nat

VARIABLES
  role,      \* table admins: "SUPERADMIN", "ADMIN" or "none"
  setting,   \* table bot_settings
  status,    \* table users: "ACTIVE", "BLOCKED", or "none" without a row
  pending,   \* the prompt kept in Redis for a person, see admin_input:
  prompt,    \* the prompt that a handler has read
  starts,    \* starts of the bot after the first
  asked,     \* history: prompts kept for a person
  applied    \* history: texts of a person taken for an answer

adminVars == <<role, setting, status, pending, prompt, starts, asked, applied>>

\* An admin's setting and the one from the environment are told apart only
\* where a start makes a difference: limit are the four columns that a start in
\* local mode writes, rest the cloud upload limit and the texts.
Settings == [online : BOOLEAN, maintenance : BOOLEAN, mode : {"cloud", "local"},
             limit : {"env", "own"}, rest : {"env", "own"}]

NoPrompt == "none"

Roles == {"SUPERADMIN", "ADMIN", "none"}

-----------------------------------------------------------------------------
(* What a start does.                                                      *)

\* INSERT ... ON CONFLICT DO NOTHING, and in local mode an UPDATE.
EnsureDefaults ==
  IF ConfigMode = "local"
    THEN [setting EXCEPT !.mode = "local", !.limit = "env"]
    ELSE setting

EnsureSuperAdmin == [role EXCEPT ![Super] = "SUPERADMIN"]

Prepare ==
  /\ setting' = EnsureDefaults
  /\ role' = EnsureSuperAdmin
  /\ UNCHANGED <<status, pending, asked, applied>>

-----------------------------------------------------------------------------
(* HandleCallback.                                                         *)

MayPressAnyway(u) == role[From[u]] # "none"

\* IsAdmin, and SUPERADMIN for the two prompts about administrators.
MayPress(u) ==
  /\ role[From[u]] # "none"
  /\ kind[u] \in {"add_admin", "remove_admin"} => role[From[u]] = "SUPERADMIN"

Press(u) ==
  /\ pc[u] = "press"
  /\ \/ MayPress(u) /\ Goto(u, "act")
     \/ /\ ~MayPress(u) \/ May("database")
        /\ Goto(u, "done")
  /\ UNCHANGED adminVars

\* setPending: an error of Redis is ignored.
Ask(u) ==
  /\ pc[u] = "act"
  /\ kind[u] \in Prompts
  /\ \/ /\ pending' = [pending EXCEPT ![From[u]] = kind[u]]
        /\ asked' = [asked EXCEPT ![From[u]] = @ + 1]
     \/ May("redis") /\ UNCHANGED <<pending, asked>>
  /\ Goto(u, "done")
  /\ UNCHANGED <<role, setting, status, prompt, starts, applied>>

\* What a button sets: SetBool, SetText, and SetInt64 of handleLimit.
Set(button) ==
  CASE button = "online"  -> {[setting EXCEPT !.online = TRUE]}
    [] button = "offline" -> {[setting EXCEPT !.online = FALSE]}
    [] button \in {"cloud", "local"} -> {[setting EXCEPT !.mode = button]}
    [] button = "preset"  -> {[setting EXCEPT !.limit = "own"], [setting EXCEPT !.rest = "own"]}

Switch(u) ==
  /\ pc[u] = "act"
  /\ kind[u] \in Switches \ {"maintenance", "status"}
  /\ \/ setting' \in Set(kind[u])
     \/ May("database") /\ UNCHANGED setting
  /\ Goto(u, "done")
  /\ UNCHANGED <<role, status, pending, prompt, starts, asked, applied>>

\* The maintenance switch reads the settings and then writes the opposite; an
\* error reads as off.
ReadMaintenance(u) ==
  /\ pc[u] = "act"
  /\ kind[u] = "maintenance"
  /\ \/ Goto(u, IF setting.maintenance THEN "switchOff" ELSE "switchOn")
     \/ May("database") /\ Goto(u, "switchOn")
  /\ UNCHANGED adminVars

WriteMaintenance(u) ==
  /\ pc[u] \in {"switchOn", "switchOff"}
  /\ \/ setting' = [setting EXCEPT !.maintenance = (pc[u] = "switchOn")]
     \/ May("database") /\ UNCHANGED setting
  /\ Goto(u, "done")
  /\ UNCHANGED <<role, status, pending, prompt, starts, asked, applied>>

\* The button of a user's profile, for a user who has a row.
SetStatus(u) ==
  /\ pc[u] = "act"
  /\ kind[u] = "status"
  /\ \/ \E t \in People, s \in {"ACTIVE", "BLOCKED"} :
          status[t] # "none" /\ status' = [status EXCEPT ![t] = s]
     \/ May("database") /\ UNCHANGED status
  /\ Goto(u, "done")
  /\ UNCHANGED <<role, setting, pending, prompt, starts, asked, applied>>

-----------------------------------------------------------------------------
(* TryHandleInput.                                                         *)

CheckInput(u) ==
  /\ pc[u] = "input"
  /\ \/ role[From[u]] # "none" /\ Goto(u, "pending")
     \/ /\ role[From[u]] = "none" \/ May("database")
        /\ Goto(u, "upsert")
  /\ UNCHANGED adminVars

GetPending(u) ==
  /\ pc[u] = "pending"
  /\ \/ /\ pending[From[u]] # NoPrompt
        /\ prompt' = [prompt EXCEPT ![u] = pending[From[u]]]
        /\ Goto(u, "apply")
     \/ /\ pending[From[u]] = NoPrompt \/ May("redis")
        /\ Goto(u, "upsert")
        /\ UNCHANGED prompt
  /\ UNCHANGED <<role, setting, status, pending, starts, asked, applied>>

\* Add overwrites the role of whoever has one; Remove spares superadmins.
AddAdmin == \E t \in People : role' = [role EXCEPT ![t] = "ADMIN"]

RemoveAdminOrSelf(p) ==
  \E t \in People : role[t] # "SUPERADMIN" /\ role' = [role EXCEPT ![t] = "none"]

RemoveAdmin(p) ==
  \E t \in People \ {p} :
    role[t] # "SUPERADMIN" /\ role' = [role EXCEPT ![t] = "none"]

\* A search, and a text that is no number, names nobody or the sender, or meets an
\* error, change nothing.
Apply(u) ==
  /\ pc[u] = "apply"
  /\ \/ prompt[u] = "add_admin" /\ AddAdmin /\ UNCHANGED setting
     \/ prompt[u] = "remove_admin" /\ RemoveAdmin(From[u]) /\ UNCHANGED setting
     \/ /\ prompt[u] = "limit"
        /\ setting' \in Set("preset")
        /\ UNCHANGED role
     \/ /\ prompt[u] = "wording"
        /\ setting' = [setting EXCEPT !.rest = "own"]
        /\ UNCHANGED role
     \/ UNCHANGED <<role, setting>>
  /\ applied' = [applied EXCEPT ![From[u]] = @ + 1]
  /\ Goto(u, "clear")
  /\ UNCHANGED <<status, pending, prompt, starts, asked>>

ClearNothing(u) ==
  /\ pc[u] = "clear"
  /\ prompt' = [prompt EXCEPT ![u] = NoPrompt]
  /\ Goto(u, "done")
  /\ UNCHANGED <<role, setting, status, pending, starts, asked, applied>>

\* The deferred DEL: it deletes whatever prompt there is by now.
Clear(u) ==
  /\ pc[u] = "clear"
  /\ \/ pending' = [pending EXCEPT ![From[u]] = NoPrompt]
     \/ May("redis") /\ UNCHANGED pending
  /\ prompt' = [prompt EXCEPT ![u] = NoPrompt]
  /\ Goto(u, "done")
  /\ UNCHANGED <<role, setting, status, starts, asked, applied>>

PendingExpires(p) ==
  /\ pending[p] # NoPrompt
  /\ pending' = [pending EXCEPT ![p] = NoPrompt]
  /\ UNCHANGED <<pc, role, setting, status, prompt, starts, asked, applied>>

-----------------------------------------------------------------------------
AdminsInit ==
  /\ role \in {r \in [People -> Roles] : r[Super] = "SUPERADMIN"}
  /\ setting = [online |-> TRUE, maintenance |-> FALSE, mode |-> ConfigMode,
                limit |-> "env", rest |-> "env"]
  /\ status = [p \in People |-> "none"]
  /\ pending = [p \in People |-> NoPrompt]
  /\ prompt = [u \in Updates |-> NoPrompt]
  /\ starts = 0
  /\ asked = [p \in People |-> 0]
  /\ applied = [p \in People |-> 0]

AdminsStep ==
  \/ \E u \in Updates :
       \/ Press(u) \/ Ask(u) \/ Switch(u) \/ ReadMaintenance(u) \/ WriteMaintenance(u)
       \/ SetStatus(u) \/ CheckInput(u) \/ GetPending(u) \/ Apply(u) \/ Clear(u)
  \/ \E p \in People : PendingExpires(p)

-----------------------------------------------------------------------------
\* One prompt is answered by at most as many texts as the person has handlers
\* running: who reads the prompt before the first deferred DEL takes his text for
\* the answer, and after it nobody does.  Handled one at a time, each prompt is
\* answered at most once (TryHandleInput).
AnswersBounded ==
  starts = 0 => \A p \in People : applied[p] <= Parallel * asked[p]
=============================================================================
