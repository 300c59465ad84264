\* Two jobs of one chat, of which one has a title.
CONSTANTS
  j1 = j1
  j2 = j2
  c1 = c1
  t1 = t1
  NoTitle = NoTitle
  NoFile = NoFile
  Partial = Partial
  Jobs = {j1, j2}
  Chats = {c1}
  Titles = {t1}
  ChatOf <- OneChat
  TitleOf <- OwnTitles
  TypeOf <- AudioAndVideo
  JobAttempts = 1
  KeepFailed = FALSE
  Conditions = {"image", "partial", "enqueue", "convert", "telegram", "store"}
SPECIFICATION Spec
INVARIANT FilesTypeOK
INVARIANT CachedIsOwn
INVARIANT FileIsThere
INVARIANT DeliveredLeavesNothing
\* Every job ends in a final step.
CHECK_DEADLOCK FALSE
