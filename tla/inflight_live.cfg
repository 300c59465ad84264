\* Three links to one post, with fairness.
CONSTANTS
  r1 = r1
  r2 = r2
  r3 = r3
  p1 = p1
  c1 = c1
  c2 = c2
  Requests = {r1, r2, r3}
  Posts = {p1}
  Chats = {c1, c2}
  PostOf <- OnePost
  TypeOf <- Videos
  ChatOf <- FirstAndLast
  JobAttempts = 1
  Conditions = {"setup"}
SPECIFICATION FairSpec
INVARIANT AtMostOneCopy
PROPERTY ListedIsAnswered
PROPERTY LockIsReleased
PROPERTY DeliveryKept
\* Every request ends in a final step.
CHECK_DEADLOCK FALSE
