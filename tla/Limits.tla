-------------------------------- MODULE Limits --------------------------------
(***************************************************************************)
(* The upload limits.  The download and the audio worker compare the size  *)
(* of a file with a limit of their own, and the delivery service compares  *)
(* it again with the limit of the Bot API server that the settings name.   *)
(* Limits are in megabytes, and one that is not positive means none.       *)
(***************************************************************************)
EXTENDS Integers

\* A row of bot_settings, as far as uploads depend on it; mode is what
\* telegramMode makes of the text in the row.
UploadSettings ==
  [mode : {"cloud", "local"}, cloudMax : Int, localMax : Int,
   videoMax : Int, audioMax : Int]

Megabyte == 1048576

-----------------------------------------------------------------------------
\* Rounded up, so that a byte too many counts.
BytesToMB(v) == IF v <= 0 THEN 0 ELSE (v + Megabyte - 1) \div Megabyte

Default(limit, default) == IF limit > 0 THEN limit ELSE default

\* The delivery service's limit.
UploadLimitForMode(st, mode) ==
  IF mode = "local" THEN Default(st.localMax, 2000) ELSE Default(st.cloudMax, 50)

\* The workers' copy of it.
TelegramUploadLimit(st) == UploadLimitForMode(st, st.mode)

MinPositive(a, b) ==
  IF a <= 0 THEN b ELSE IF b <= 0 THEN a ELSE IF a < b THEN a ELSE b

EffectiveUploadLimit(app, telegram, allowOversized) ==
  IF allowOversized THEN telegram ELSE MinPositive(app, telegram)

-----------------------------------------------------------------------------
TooLarge(size, limit) == limit > 0 /\ size > 0 /\ BytesToMB(size) > limit
=============================================================================
