------------------------------- MODULE Matching ------------------------------
(***************************************************************************)
(* One new post from the handler Telethon starts for it to the events of   *)
(* the watches it matches: Collector._handle / _ingest_message             *)
(* (ingest/collector.py), the on_ingest callback (__main__.py) and         *)
(* evaluate_message (match/matcher.py).  Every await is a step, so the     *)
(* handlers of different posts interleave between any two statements.      *)
(***************************************************************************)
EXTENDS Storage

CONSTANTS
  Hits,       \* <<w, m>>: the query of w matches the text of m
  Malformed,  \* watches whose query FTS5 refuses to parse
  Wordless    \* posts whose normalised text is empty

ASSUME MatchingAssumption ==
  /\ Hits \subseteq Watches \X Messages
  /\ Malformed \subseteq Watches
  /\ Wordless \subseteq Messages

VARIABLE ing   \* ing[m]: where m's handler is, and the watches it has left

IngestPc == {"idle", "insert", "commit", "load", "consider", "create",
             "close", "done", "failed"}

Handler == [pc : IngestPc, queue : SUBSET WatchRow]

IdleHandler == [pc |-> "idle", queue |-> {}]

Ended == {"idle", "done", "failed"}

Ingesting(m) == ing[m].pc \notin Ended

IngestInit == ing = [m \in Messages |-> IdleHandler]

\* The event handler, or the backfill loop, takes up m.
BeginIngest(m) == ing' = [ing EXCEPT ![m] = [pc |-> "insert", queue |-> {}]]

GoTo(m, pc) == ing' = [ing EXCEPT ![m].pc = pc]

\* The loop is done with r, the first row it had left.
NextWatch(m, r) ==
  ing' = [ing EXCEPT ![m] = [pc |-> "consider", queue |-> @.queue \ {r}]]

\* INSERT INTO messages; UNIQUE(chat_id, message_id) ends the handler when
\* the post is stored already.
StoreMessage(m) ==
  /\ ing[m].pc = "insert"
  /\ \/ /\ m \in db.messages
        /\ GoTo(m, "done")
        /\ UNCHANGED db
     \/ /\ m \notin db.messages
        /\ InsertMessage(m)
        /\ GoTo(m, "commit")
  /\ UNCHANGED disk

\* Mutant: the post is evaluated before it is committed.
EvaluateUncommitted(m) ==
  /\ ing[m].pc = "commit"
  /\ UNCHANGED storeVars
  /\ GoTo(m, IF m \in Wordless THEN "done" ELSE "load")

\* Only posts with a normalised text are handed to on_ingest.
CommitMessage(m) ==
  /\ ing[m].pc = "commit"
  /\ Commit
  /\ GoTo(m, IF m \in Wordless THEN "done" ELSE "load")

\* list_enabled: the snapshot the loop runs over.
LoadWatches(m) ==
  /\ ing[m].pc = "load"
  /\ ing' = [ing EXCEPT ![m] = [pc |-> "consider", queue |-> EnabledWatches]]
  /\ UNCHANGED storeVars

\* Mutant: the query is not asked whether it matches.
ConsiderUnmatched(m) ==
  /\ ing[m].pc = "consider"
  /\ \E r \in First(ing[m].queue) :
       IF HasRecentDuplicate(r.id, m) THEN NextWatch(m, r) ELSE GoTo(m, "create")
  /\ UNCHANGED storeVars

\* One turn of the loop up to the decision: the MATCH query, then the search
\* for a recent duplicate.  A query that does not parse raises out of it.
ConsiderWatch(m) ==
  /\ ing[m].pc = "consider"
  /\ \E r \in First(ing[m].queue) :
       \/ /\ r.watch \in Malformed
          /\ GoTo(m, "failed")
       \/ /\ r.watch \notin Malformed
          /\ <<r.watch, m>> \notin Hits \/ HasRecentDuplicate(r.id, m)
          /\ NextWatch(m, r)
       \/ /\ r.watch \notin Malformed
          /\ <<r.watch, m>> \in Hits
          /\ ~HasRecentDuplicate(r.id, m)
          /\ GoTo(m, "create")
  /\ UNCHANGED storeVars

\* INSERT INTO match_events; an IntegrityError means no event.
CreateEvent(m) ==
  /\ ing[m].pc = "create"
  /\ \E r \in First(ing[m].queue) :
       \/ /\ EventRejected(r.id, m)
          /\ NextWatch(m, r)
          /\ UNCHANGED db
       \/ /\ ~EventRejected(r.id, m)
          /\ InsertEvent(r.id, m)
          /\ GoTo(m, "close")
  /\ UNCHANGED disk

CommitEvent(m) ==
  /\ ing[m].pc = "close"
  /\ Commit
  /\ \E r \in First(ing[m].queue) : NextWatch(m, r)

EndIngest(m) ==
  /\ ing[m].pc = "consider"
  /\ ing[m].queue = {}
  /\ GoTo(m, "done")
  /\ UNCHANGED storeVars

IngestStep(m) ==
  \/ StoreMessage(m)
  \/ CommitMessage(m)
  \/ LoadWatches(m)
  \/ ConsiderWatch(m)
  \/ CreateEvent(m)
  \/ CommitEvent(m)
  \/ EndIngest(m)
=============================================================================
