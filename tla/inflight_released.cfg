\* Three links to one post; Redis, the queues and the database answer.
CONSTANTS
  r1 = r1
  r2 = r2
  r3 = r3
  p1 = p1
  c1 = c1
  c2 = c2
  Requests = {r1, r2, r3}
  Posts = {p1}
  Chats = {c1, c2}
  PostOf <- OnePost
  TypeOf <- Videos
  ChatOf <- TwoOfAChat
  JobAttempts = 1
  Conditions = {"directUrl", "setup", "telegram"}
SPECIFICATION Spec
INVARIANT TypeOK
INVARIANT MutualExclusion
INVARIANT LockHasHolder
INVARIANT FailureIsTold
PROPERTY SuccessIsFinal
PROPERTY DeliveryKept
\* Every request ends in a final step.
CHECK_DEADLOCK FALSE
