\* The fallback to the cloud, in a process that started with the local server.
CONSTANTS
  Presets <- Some
  ConfigSettings <- LocalByDefault
  AllowOversized = FALSE
  Reports <- UpToTwo
  Sizes <- ThreeSizes
  Conditions = {"refuse"}
SPECIFICATION Spec
INVARIANT FallbackGoesToCloud
\* The download ends.
CHECK_DEADLOCK FALSE
