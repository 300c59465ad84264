\* Two links to one post, with everything but crashes.
CONSTANTS
  r1 = r1
  r2 = r2
  r3 = r3
  p1 = p1
  c1 = c1
  c2 = c2
  Requests = {r1, r2}
  Posts = {p1}
  Chats = {c1, c2}
  PostOf <- OnePost
  TypeOf <- Videos
  ChatOf <- TwoOfAChat
  JobAttempts = 1
  Conditions = {"image", "lateImage", "directUrl", "slow", "enqueue", "database", "store",
                "telegram", "redis", "lost"}
SPECIFICATION Spec
VIEW ButMessages
CONSTRAINT ShortLists
INVARIANT SuccessMeansSent
\* Every request ends in a final step.
CHECK_DEADLOCK FALSE
