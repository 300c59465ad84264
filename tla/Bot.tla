--------------------------------- MODULE Bot ---------------------------------
(***************************************************************************)
(* The bot process: the handlers of Updates, Admins and Requests together, *)
(* and the starts of the two processes.                                    *)
(***************************************************************************)
EXTENDS Requests

vars == <<kind, pc, rateVars, adminVars, requestVars>>

-----------------------------------------------------------------------------
\* The bot starts again.  Its handlers are gone; Telegram sends an update again
\* if it was not confirmed by a later getUpdates.
BotStarts ==
  /\ May("restart")
  /\ starts < MaxStarts
  /\ starts' = starts + 1
  /\ Prepare
  /\ \E again \in SUBSET {u \in Updates : Active(u)} :
       pc' = [u \in Updates |->
                IF u \in again THEN "new" ELSE IF Active(u) THEN "done" ELSE pc[u]]
  /\ prompt' = [u \in Updates |-> NoPrompt]
  /\ end' = [u \in Updates |-> IF Active(u) THEN "open" ELSE end[u]]
  /\ UNCHANGED <<kind, rateVars, cached, today, links>>

\* cmd/worker does the same to the tables while the bot runs.
WorkerStarts ==
  /\ Prepare
  /\ UNCHANGED <<kind, pc, prompt, starts, rateVars, requestVars>>

-----------------------------------------------------------------------------
Init ==
  /\ kind \in Mixes
  /\ pc = [u \in Updates |-> IF kind[u] = "other" THEN "done" ELSE "new"]
  /\ RateInit
  /\ AdminsInit
  /\ RequestsInit

Next ==
  \/ RateStep /\ UNCHANGED <<kind, adminVars, requestVars>>
  \/ AdminsStep /\ UNCHANGED <<kind, rateVars, requestVars>>
  \/ RequestsStep /\ UNCHANGED <<kind, rateVars>>
  \/ BotStarts
  \/ WorkerStarts

Spec == Init /\ [][Next]_vars

-----------------------------------------------------------------------------
Steps == {"new", "incr", "expire", "press", "act", "switchOn", "switchOff", "input",
          "pending", "apply", "clear", "upsert", "blocked", "gate", "lookup",
          "cachedRow", "sendCached", "clearId", "limit", "variant", "insert",
          "enqueue", "done"}

\* The types of the variables.
BotTypeOK ==
  /\ kind \in [Updates -> Kinds]
  /\ pc \in [Updates -> Steps]
  /\ rate \in [People -> Nat]
  /\ ttl \subseteq People
  /\ role \in [People -> Roles]
  /\ setting \in Settings
  /\ status \in [People -> {"ACTIVE", "BLOCKED", "none"}]
  /\ pending \in [People -> Prompts \cup {NoPrompt}]
  /\ prompt \in [Updates -> Prompts \cup {NoPrompt}]
  /\ starts \in 0..MaxStarts
  /\ asked \in [People -> Nat]
  /\ applied \in [People -> Nat]
  /\ cached \in BOOLEAN
  /\ today \in [People -> Nat]
  /\ links \in [People -> Nat]
  /\ end \in [Updates -> {"open", "refused", "told", "media", "queued"}]

-----------------------------------------------------------------------------
(* Properties.                                                             *)

\* While the bot lives, a rate key gets its TTL: nobody is limited for good.  The
\* handler that finds the counter at 1 sets the TTL, in a call of its own
\* (rateLimited).
RateKeyHasTTL ==
  starts = 0 => \A p \in People : rate[p] > 0 => p \in ttl \/ At(p, {"expire"}) # {}

(* The rights that the pending prompts and the running handlers amount to. *)

ToRoles == {"add_admin", "remove_admin"}

RightOf(mode) ==
  CASE mode \in ToRoles              -> {"roles"}
    [] mode \in {"limit", "wording"} -> {"settings"}
    [] OTHER                          -> {}

Asks(u) == IF kind[u] \in Prompts THEN RightOf(kind[u]) ELSE {"settings"}

RightsOfHandler(u) ==
  CASE pc[u] = "apply" -> RightOf(prompt[u])
    [] pc[u] = "act"   -> Asks(u)
    [] pc[u] \in {"switchOn", "switchOff"} -> {"settings"}
    [] OTHER -> {}

Held(p) == RightOf(pending[p]) \cup UNION {RightsOfHandler(u) : u \in Of(p)}

R == INSTANCE Rights WITH may <- [p \in People |-> Held(p)]

\* Only who was a superadmin when he pressed the button changes the table of
\* administrators, only an administrator the settings, whatever overlaps; nobody
\* removes himself or a superadmin; a start changes no more than module Rights
\* says (HandleCallback checks the role, TryHandleInput acts on the prompt).
RightsKept == R!Spec
=============================================================================
