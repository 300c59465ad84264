\* Two MP3 requests for one post; the worker process may die at any step.
CONSTANTS
  r1 = r1
  r2 = r2
  r3 = r3
  p1 = p1
  c1 = c1
  c2 = c2
  Requests = {r1, r2}
  Posts = {p1}
  Chats = {c1, c2}
  PostOf <- OnePost
  TypeOf <- Songs
  ChatOf <- TwoOfAChat
  JobAttempts = 1
  Conditions = {"crash", "convert", "store", "telegram", "lost"}
SPECIFICATION Spec
VIEW ButMessages
INVARIANT SuccessMeansSent
\* Every request ends in a final step.
CHECK_DEADLOCK FALSE
