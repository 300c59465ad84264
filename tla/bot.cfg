\* Two people, the panel, prompts and links; the database may fail, processes restart.
CONSTANTS
  boss = boss
  ann = ann
  u1 = u1
  u2 = u2
  u3 = u3
  u4 = u4
  u5 = u5
  u6 = u6
  People = {boss, ann}
  Updates = {u1, u2, u3, u4, u5, u6}
  From <- BossAndAnn
  Mixes <- PanelAndLinks
  Parallel = 2
  RateLimit = 1
  Conditions = {"enqueue", "telegram", "restart", "database"}
  Super = boss
  ConfigMode = "local"
  MaxStarts = 1
  DailyLimit = 1
SPECIFICATION Spec
INVARIANT BotTypeOK
INVARIANT RateKeyHasTTL
INVARIANT AnswersBounded
INVARIANT OvershootBounded
PROPERTY RightsKept
\* The updates run out.
CHECK_DEADLOCK FALSE
