\* Two videos of one chat whose posts have one title.
CONSTANTS
  j1 = j1
  j2 = j2
  c1 = c1
  t1 = t1
  NoTitle = NoTitle
  NoFile = NoFile
  Partial = Partial
  Jobs = {j1, j2}
  Chats = {c1}
  Titles = {t1}
  ChatOf <- OneChat
  TitleOf <- OneTitle
  TypeOf <- TwoVideos
  JobAttempts = 1
  KeepFailed = FALSE
  Conditions = {}
SPECIFICATION Spec
INVARIANT CachedIsOwn
\* Every job ends in a final step.
CHECK_DEADLOCK FALSE
