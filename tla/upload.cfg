\* Sizes, settings that change, servers that answer in any way, and selection.
CONSTANTS
  Presets <- Some
  ConfigSettings <- LocalByDefault
  AllowOversized = FALSE
  Reports <- UpToTwo
  Sizes <- ThreeSizes
  Conditions = {"database", "queue", "block", "fetch", "refuse", "large", "lose", "bare"}
SPECIFICATION Spec
INVARIANT UploadTypeOK
INVARIANT UploadFits
INVARIANT SecondCopyExplained
INVARIANT FitsIsNotRefused
INVARIANT LocalNeverToldCloud
 
INVARIANT EndsWithAnswer
INVARIANT SelectsRight
\* The download ends.
CHECK_DEADLOCK FALSE
