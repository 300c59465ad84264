-------------------------------- MODULE Rights --------------------------------
(***************************************************************************)
(* Who may change the table of administrators and the settings, whatever   *)
(* handlers do in which order.  A right is gained by pressing a button in  *)
(* a role that entitles to it, is kept while the answer is awaited or      *)
(* worked on, even if the role is lost meanwhile, and may vanish any time. *)
(***************************************************************************)
CONSTANTS People, Super, ConfigMode, Settings

VARIABLES
  role,      \* "SUPERADMIN", "ADMIN" or "none"
  setting,   \* the settings, a record in Settings
  may        \* the rights of a person, some of {"roles", "settings"}

rightsVars == <<role, setting, may>>

Rights(p) ==
  CASE role[p] = "SUPERADMIN" -> {"roles", "settings"}
    [] role[p] = "ADMIN"      -> {"settings"}
    [] OTHER                  -> {}

NothingGained == \A p \in People : may'[p] \subseteq may[p]

-----------------------------------------------------------------------------
Gain(p) ==
  /\ may'[p] \subseteq may[p] \cup Rights(p)
  /\ \A q \in People \ {p} : may'[q] \subseteq may[q]
  /\ UNCHANGED <<role, setting>>

Lose == UNCHANGED <<role, setting>> /\ NothingGained

\* An addition overwrites whatever role the person has.
Add(p, q) ==
  /\ "roles" \in may[p]
  /\ role' = [role EXCEPT ![q] = "ADMIN"]
  /\ NothingGained
  /\ UNCHANGED setting

\* Nobody removes a superadmin or himself.
Remove(p, q) ==
  /\ "roles" \in may[p]
  /\ p # q
  /\ role[q] # "SUPERADMIN"
  /\ role' = [role EXCEPT ![q] = "none"]
  /\ NothingGained
  /\ UNCHANGED setting

Change(p) ==
  /\ "settings" \in may[p]
  /\ setting' \in Settings
  /\ NothingGained
  /\ UNCHANGED role

\* A start makes the configured person superadmin.  It touches the settings only
\* in local mode, and then neither the gate nor the texts.
Start ==
  /\ role' = [role EXCEPT ![Super] = "SUPERADMIN"]
  /\ \/ UNCHANGED setting
     \/ /\ ConfigMode = "local"
        /\ setting' = [setting EXCEPT !.mode = "local", !.limit = "env"]
  /\ NothingGained

-----------------------------------------------------------------------------
Init ==
  /\ role \in [People -> {"SUPERADMIN", "ADMIN", "none"}]
  /\ setting \in Settings
  /\ may = [p \in People |-> {}]

Next ==
  \/ Lose \/ Start
  \/ \E p \in People : Gain(p) \/ Change(p)
  \/ \E p, q \in People : Add(p, q) \/ Remove(p, q)

Spec == Init /\ [][Next]_rightsVars
=============================================================================
