------------------------------- MODULE Requests -------------------------------
(***************************************************************************)
(* What the bot does with a link, and with the MP3 button under a video:   *)
(* checks, the delivery of a cached file id, the daily limit, the row in   *)
(* downloads and the task for the workers (module InFlight).  All requests *)
(* are for one post, so that they meet in its file id.                     *)
(***************************************************************************)
EXTENDS Admins

CONSTANT DailyLimit   \* DAILY_USER_DOWNLOAD_LIMIT

ASSUME DailyAssumption == DailyLimit \in Nat

VARIABLES
  cached,   \* whether the video has a telegram_file_id
  today,    \* rows of a person in downloads with today's date
  links,    \* history: those among them made for a link that was let through
  end       \* what a request came to, see Ends

requestVars == <<cached, today, links, end>>

-----------------------------------------------------------------------------
\* The handler ends: the chat is told something, has its media, or waits for a
\* task.  Until then a request is "open", or "refused" with its cached file id.
Ends(u, what) ==
  /\ Goto(u, "done")
  /\ end' = [end EXCEPT ![u] = what]

\* A row for the sender, with status ACTIVE if it is new.
Upsert(u) ==
  /\ pc[u] = "upsert"
  /\ \/ /\ status' = [status EXCEPT ![From[u]] = IF @ = "none" THEN "ACTIVE" ELSE @]
        /\ Goto(u, "blocked")
        /\ UNCHANGED end
     \/ May("database") /\ Ends(u, "told") /\ UNCHANGED status
  /\ UNCHANGED <<role, setting, pending, prompt, starts, asked, applied,
                 cached, today, links>>

\* IsBlocked: an error reads as not blocked.  Other texts than links are answered.
CheckBlocked(u) ==
  /\ pc[u] = "blocked"
  /\ \/ status[From[u]] = "BLOCKED" /\ Ends(u, "told")
     \/ /\ status[From[u]] # "BLOCKED" \/ May("database")
        /\ IF kind[u] = "link" THEN Goto(u, "gate") /\ UNCHANGED end
                                 ELSE Ends(u, "told")
  /\ UNCHANGED <<adminVars, cached, today, links>>

Open == setting.online /\ ~setting.maintenance

\* Administrators pass at any time, and everyone if the settings cannot be read.
Gate(u) ==
  /\ pc[u] = "gate"
  /\ \/ /\ role[From[u]] # "none" \/ Open \/ May("database")
        /\ Goto(u, "lookup")
        /\ UNCHANGED end
     \/ /\ role[From[u]] = "none" \/ May("database")
        /\ ~Open
        /\ Ends(u, "told")
  /\ UNCHANGED <<adminVars, cached, today, links>>

\* Parse, GetOrCreateMediaFile and FileIDCache.Lookup.
Lookup(u) ==
  /\ pc[u] = "lookup"
  /\ \/ Ends(u, "told")   \* not a link to a post
     \/ cached /\ Goto(u, "cachedRow") /\ UNCHANGED end
     \/ /\ ~cached \/ May("database")
        /\ Goto(u, "limit")
        /\ UNCHANGED end
  /\ UNCHANGED <<adminVars, cached, today, links>>

\* The row of a cached delivery says SUCCESS before anything is sent.
CachedRow(u) ==
  /\ pc[u] = "cachedRow"
  /\ \/ today' = [today EXCEPT ![From[u]] = @ + 1]
     \/ May("database") /\ UNCHANGED today
  /\ Goto(u, "sendCached")
  /\ UNCHANGED <<adminVars, cached, links, end>>

SendCached(u) ==
  /\ pc[u] = "sendCached"
  /\ \/ Ends(u, "media")
     \/ /\ May("telegram")
        /\ Goto(u, "clearId")
        /\ end' = [end EXCEPT ![u] = "refused"]
  /\ UNCHANGED <<adminVars, cached, today, links>>

\* ClearFileID: by the row's id, so it clears whatever file id is there by now.
ClearId(u) ==
  /\ pc[u] = "clearId"
  /\ \/ cached' = FALSE
     \/ May("database") /\ UNCHANGED cached
  /\ Goto(u, "limit")
  /\ UNCHANGED <<adminVars, today, links, end>>

CheckLimitAfterIt(u) ==
  /\ pc[u] = "limit"
  /\ \/ today[From[u]] <= DailyLimit /\ Goto(u, "insert") /\ UNCHANGED end
     \/ /\ today[From[u]] > DailyLimit \/ May("database")
        /\ Ends(u, "told")
  /\ UNCHANGED <<adminVars, cached, today, links>>

\* DailyLimitReached counts; the row that is counted comes later.
CheckLimit(u) ==
  /\ pc[u] = "limit"
  /\ \/ today[From[u]] < DailyLimit /\ Goto(u, "insert") /\ UNCHANGED end
     \/ /\ today[From[u]] >= DailyLimit \/ May("database")
        /\ Ends(u, "told")
  /\ UNCHANGED <<adminVars, cached, today, links>>

\* The MP3 button asks for no limit and no status, only for a user's row.
CheckVariant(u) ==
  /\ pc[u] = "variant"
  /\ \/ status[From[u]] # "none" /\ Goto(u, "insert") /\ UNCHANGED end
     \/ /\ status[From[u]] = "none" \/ May("database")
        /\ Ends(u, "told")
  /\ UNCHANGED <<adminVars, cached, today, links>>

\* CreateDownload with status QUEUED.
Insert(u) ==
  /\ pc[u] = "insert"
  /\ \/ /\ today' = [today EXCEPT ![From[u]] = @ + 1]
        /\ links' = [links EXCEPT ![From[u]] = IF kind[u] = "link" THEN @ + 1 ELSE @]
        /\ Goto(u, "enqueue")
        /\ UNCHANGED end
     \/ May("database") /\ Ends(u, "told") /\ UNCHANGED <<today, links>>
  /\ UNCHANGED <<adminVars, cached>>

EnqueueGivingBack(u) ==
  /\ pc[u] = "enqueue"
  /\ \/ Ends(u, "queued") /\ UNCHANGED today
     \/ /\ May("enqueue")
        /\ today' = [today EXCEPT ![From[u]] = @ - 1]
        /\ Ends(u, "told")
  /\ UNCHANGED <<adminVars, cached, links>>

\* EnqueueDownload: if it fails, the row stays.
Enqueue(u) ==
  /\ pc[u] = "enqueue"
  /\ \/ Ends(u, "queued")
     \/ May("enqueue") /\ Ends(u, "told")
  /\ UNCHANGED <<adminVars, cached, today, links>>

-----------------------------------------------------------------------------
(* The workers and the clock.                                              *)

\* A worker stores the file id of what it delivered.
Stored ==
  /\ ~cached
  /\ \E u \in Updates : end[u] = "queued" /\ kind[u] = "link"
  /\ cached' = TRUE
  /\ UNCHANGED <<pc, adminVars, today, links, end>>

NewDay ==
  /\ \E p \in People : today[p] > 0
  /\ today' = [p \in People |-> 0]
  /\ links' = [p \in People |-> 0]
  /\ UNCHANGED <<pc, adminVars, cached, end>>

-----------------------------------------------------------------------------
RequestsInit ==
  /\ cached = FALSE
  /\ today = [p \in People |-> 0]
  /\ links = [p \in People |-> 0]
  /\ end = [u \in Updates |-> "open"]

RequestsStep ==
  \/ \E u \in Updates :
       \/ Upsert(u) \/ CheckBlocked(u) \/ Gate(u) \/ Lookup(u) \/ CachedRow(u)
       \/ SendCached(u) \/ ClearId(u) \/ CheckLimit(u) \/ CheckVariant(u)
       \/ Insert(u) \/ Enqueue(u)
  \/ Stored
  \/ NewDay

-----------------------------------------------------------------------------
\* The daily limit is overshot by no more than the handlers that run at the same
\* time: each of them may count before any of the others has made its row
\* (handleInstagramLink, "Kunlik limit tekshirish").
OvershootBounded == \A p \in People : links[p] <= DailyLimit + Parallel - 1
=============================================================================
