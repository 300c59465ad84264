--------------------------------- MODULE MCBot ---------------------------------
(* Values for the constants of Bot.                                        *)
EXTENDS Bot

CONSTANTS boss, ann, u1, u2, u3, u4, u5, u6

\* Two updates of the superadmin, four of someone he may make an administrator.
BossAndAnn == [u \in Updates |-> IF u \in {u1, u2} THEN boss ELSE ann]

Mix(a, b, c, d, e, f) ==
  [u \in Updates |-> CASE u = u1 -> a [] u = u2 -> b [] u = u3 -> c
                       [] u = u4 -> d [] u = u5 -> e [] u = u6 -> f]

\* Several prompts of one administrator, prompts of two, the gate, the limits.
Panel ==
  { Mix("other", "other", "limit", "text", "text", "text"),
    Mix("remove_admin", "text", "add_admin", "text", "other", "other"),
    Mix("maintenance", "cloud", "text", "mp3", "other", "other"),
    Mix("offline", "status", "other", "other", "link", "other") }

Links == { Mix("other", "other", "other", "link", "link", "link") }

PanelAndLinks == Panel \cup Links
=============================================================================
