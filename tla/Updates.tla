------------------------------- MODULE Updates -------------------------------
(***************************************************************************)
(* How the bot process takes updates from Telegram.  Each update is        *)
(* handled in a goroutine of its own, so the updates of one person overlap *)
(* in any order; messages are counted per person against a rate limit.     *)
(* This module has the life of a handler, from the update's arrival to its *)
(* answer, and the rate limit; Admins and Requests add what handlers do.   *)
(***************************************************************************)
EXTENDS Naturals, FiniteSets

CONSTANTS
  People,
  Updates,
  From,        \* the sender of an update
  Mixes,       \* the kinds of updates that a run may have together, see Kinds
  Parallel,    \* bound: handlers of one person that run at the same time
  RateLimit,   \* RATE_LIMIT_LIMIT
  Conditions   \* what may go wrong in this run, see AllConditions

AllConditions ==
  { "redis",      \* a call on Redis fails
    "database",   \* a call on Postgres fails
    "enqueue",    \* a task cannot be put on its queue
    "telegram",   \* Telegram refuses a file id
    "restart" }   \* the bot process ends, its handlers with it, and starts again

\* A button that makes the bot ask an administrator for a text, and the mode
\* that is then kept for him.
Prompts == {"add_admin", "remove_admin", "limit", "wording", "search"}

\* The other buttons of the admin panel that change something.
Switches == {"preset", "cloud", "local", "online", "offline", "maintenance", "status"}

Messages == {"link", "text"}

\* The others, such as a picture or a sticker, are dropped at once.
Kinds == Messages \cup {"mp3", "other"} \cup Prompts \cup Switches

ASSUME UpdatesAssumption ==
  /\ IsFiniteSet(Updates)
  /\ From \in [Updates -> People]
  /\ Mixes \subseteq [Updates -> Kinds]
ASSUME ParallelAssumption == Parallel \in Nat \ {0}
ASSUME RateAssumption == RateLimit \in Nat
ASSUME BotConditionsAssumption == Conditions \subseteq AllConditions

VARIABLES
  kind,   \* what each update is
  pc,     \* the step a handler is at
  rate,   \* the rate counter of a person in Redis, 0 without the key
  ttl     \* the people whose rate key has a TTL

rateVars == <<rate, ttl>>

-----------------------------------------------------------------------------
May(c) == c \in Conditions

Goto(u, step) == pc' = [pc EXCEPT ![u] = step]

Active(u) == pc[u] \notin {"new", "done"}

Of(p) == {u \in Updates : From[u] = p}

\* The handlers of a person that are at one of the given steps.
At(p, steps) == {u \in Of(p) : pc[u] \in steps}

Handled(p) == {u \in Of(p) : Active(u)}

FirstStep(u) ==
  CASE kind[u] \in Messages -> "incr"
    [] kind[u] = "mp3"      -> "variant"
    [] OTHER                  -> "press"

-----------------------------------------------------------------------------
(* Bot.Start and HandleUpdate: go handler.HandleUpdate(ctx, update).       *)
Receive(u) ==
  /\ pc[u] = "new"
  /\ Cardinality(Handled(From[u])) < Parallel
  /\ Goto(u, FirstStep(u))
  /\ UNCHANGED rateVars

(* rateLimited: INCR, and EXPIRE by the handler that made the key.  A limited *)
(* message is answered and done with; no error limits anyone.                 *)
AfterRate(n) == IF n > RateLimit THEN "done" ELSE "input"

IncrExpiringWhenLimited(u) ==
  LET p == From[u]  n == rate[p] + 1 IN
  /\ pc[u] = "incr"
  /\ rate' = [rate EXCEPT ![p] = n]
  /\ Goto(u, IF n > RateLimit THEN "expire" ELSE "input")
  /\ UNCHANGED ttl

Incr(u) ==
  LET p == From[u]  n == rate[p] + 1 IN
  /\ pc[u] = "incr"
  /\ \/ /\ rate' = [rate EXCEPT ![p] = n]
        /\ Goto(u, IF n = 1 THEN "expire" ELSE AfterRate(n))
     \/ /\ May("redis")
        /\ rate' \in {rate, [rate EXCEPT ![p] = n]}
        /\ Goto(u, "input")
  /\ UNCHANGED ttl

Expire(u) ==
  /\ pc[u] = "expire"
  /\ \/ ttl' = ttl \cup {From[u]}
     \/ May("redis") /\ UNCHANGED ttl
  /\ Goto(u, AfterRate(1))
  /\ UNCHANGED rate

RateExpires(p) ==
  /\ p \in ttl
  /\ rate' = [rate EXCEPT ![p] = 0]
  /\ ttl' = ttl \ {p}
  /\ UNCHANGED pc

-----------------------------------------------------------------------------
RateInit ==
  /\ rate = [p \in People |-> 0]
  /\ ttl = {}

RateStep ==
  \/ \E u \in Updates : Receive(u) \/ Incr(u) \/ Expire(u)
  \/ \E p \in People : RateExpires(p)

=============================================================================
