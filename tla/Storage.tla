------------------------------- MODULE Storage -------------------------------
(***************************************************************************)
(* The rows behind an alert, as storage/schema.py declares them and        *)
(* storage/repo.py writes them, on the ONE aiosqlite connection that every *)
(* task of the runtime shares.  aiosqlite runs one statement at a time;    *)
(* the transaction a statement opens belongs to the connection, not to the *)
(* task, so tasks read each other's uncommitted rows (db) and any task's   *)
(* COMMIT makes all of them durable (disk).                                *)
(*                                                                         *)
(* A watch row's contents (owner, name, query) never change, so they are   *)
(* one constant of Watches: one INSERT INTO watches.  Messages is a chat   *)
(* post with its text, author and dedupe key, identified by the key        *)
(* UNIQUE(chat_id, message_id).                                            *)
(***************************************************************************)
EXTENDS Naturals, FiniteSets

CONSTANTS
  Messages,    \* posts of the allowlisted source chats
  Watches,     \* watches users may ask for, one constant per INSERT
  Users,       \* chats that talk to the bot
  Owner,       \* Owner[w]: the user who asks for watch w
  DedupeKeys,  \* values of messages.dedupe_key
  DedupeKey,   \* DedupeKey[m]: the key of m, or NoKey when it is NULL
  NoKey,
  MaxWatchId,  \* bound: the largest id the watches table gives out
  MaxEventId   \* bound: the largest id the match_events table gives out

ASSUME StorageAssumption ==
  /\ MaxWatchId \in Nat
  /\ MaxEventId \in Nat
  /\ Owner \in [Watches -> Users]
  /\ NoKey \notin DedupeKeys
  /\ DedupeKey \in [Messages -> DedupeKeys \cup {NoKey}]

WatchIds == 1..MaxWatchId

EventIds == 1..MaxEventId

WatchRow == [id : WatchIds, watch : Watches, enabled : BOOLEAN]

\* notified: notified_at IS NOT NULL.  recent: created_at lies within the
\* duplicate suppression window.
EventRow == [id : EventIds, watch_id : WatchIds, message : Messages,
             notified : BOOLEAN, recent : BOOLEAN]

Store == [messages : SUBSET Messages,
          watches  : SUBSET WatchRow,
          events   : SUBSET EventRow]

EmptyStore == [messages |-> {}, watches |-> {}, events |-> {}]

VARIABLES
  db,    \* what a statement on the connection sees
  disk   \* what the last COMMIT left in the file

storeVars == <<db, disk>>

\* Mutant: ids count from zero.
NextIdFromZero(rows, ids) ==
  {i \in ids \cup {0} : /\ \A r \in rows : r.id < i
                        /\ i = 0 \/ \E r \in rows : r.id = i - 1}

\* INTEGER PRIMARY KEY without AUTOINCREMENT: one more than the largest id
\* present, so the id of a deleted last row is given out again.
NextId(rows, ids) ==
  {i \in ids : /\ \A r \in rows : r.id < i
               /\ i = 1 \/ \E r \in rows : r.id = i - 1}

\* The row a loop over a snapshot ordered by id meets first.
First(rows) == {r \in rows : \A q \in rows : r.id <= q.id}

-----------------------------------------------------------------------------
(* Reads *)

EnabledWatches == {r \in db.watches : r.enabled}

WatchRowsOf(id, u) == {r \in db.watches : r.id = id /\ Owner[r.watch] = u}

\* Mutant: an alert that is still pending does not count as a duplicate.
HasNotifiedDuplicate(id, m) ==
  /\ DedupeKey[m] # NoKey
  /\ \E e \in db.events : /\ e.watch_id = id
                          /\ DedupeKey[e.message] = DedupeKey[m]
                          /\ e.recent
                          /\ e.notified

\* Mutant: duplicates are looked for among the stored posts.
HasStoredDuplicate(id, m) ==
  /\ DedupeKey[m] # NoKey
  /\ \E n \in db.messages : DedupeKey[n] = DedupeKey[m]

HasRecentDuplicate(id, m) ==
  /\ DedupeKey[m] # NoKey
  /\ \E e \in db.events : /\ e.watch_id = id
                          /\ DedupeKey[e.message] = DedupeKey[m]
                          /\ e.recent

\* What list_pending returns: the JOIN resolves the watch at this moment.
PendingRows ==
  {[id |-> p[1].id, watch |-> p[2].watch, message |-> p[1].message] :
     p \in {q \in db.events \X db.watches :
              ~q[1].notified /\ q[1].watch_id = q[2].id}}

-----------------------------------------------------------------------------
(* Statements: each changes the connection's view only *)

InsertMessage(m) == db' = [db EXCEPT !.messages = @ \cup {m}]

InsertWatch(w) ==
  \E i \in NextId(db.watches, WatchIds) :
     db' = [db EXCEPT !.watches =
              @ \cup {[id |-> i, watch |-> w, enabled |-> TRUE]}]

\* UNIQUE(watch_id, message_rowid) or the foreign key on watch_id fails.
EventRejected(id, m) ==
  \/ \E e \in db.events : e.watch_id = id /\ e.message = m
  \/ \A r \in db.watches : r.id # id

InsertEvent(id, m) ==
  \E i \in NextId(db.events, EventIds) :
     db' = [db EXCEPT !.events =
              @ \cup {[id |-> i, watch_id |-> id, message |-> m,
                       notified |-> FALSE, recent |-> TRUE]}]

\* Mutant: the statement of WatchRepo.remove, which does not ask for the owner.
DeleteAnyEvents(id, u) ==
  db' = [db EXCEPT !.events = {e \in @ : e.watch_id # id}]

DeleteEvents(id, u) ==
  db' = [db EXCEPT !.events =
           IF WatchRowsOf(id, u) = {} THEN @ ELSE {e \in @ : e.watch_id # id}]

\* Mutant: PRAGMA foreign_keys stays at its default, OFF.
DeleteNeverRejected(id, u) == FALSE

\* The foreign key of match_events refuses to orphan an event.
DeleteRejected(id, u) ==
  /\ WatchRowsOf(id, u) # {}
  /\ \E e \in db.events : e.watch_id = id

DeleteWatch(id, u) == db' = [db EXCEPT !.watches = @ \ WatchRowsOf(id, u)]

SetEnabled(id, b) ==
  db' = [db EXCEPT !.watches =
           {IF r.id = id THEN [r EXCEPT !.enabled = b] ELSE r : r \in @}]

\* Mutant: the UPDATE matches no row.
MarkNothing(id) == UNCHANGED db

MarkNotified(id) ==
  db' = [db EXCEPT !.events =
           {IF e.id = id THEN [e EXCEPT !.notified = TRUE] ELSE e : e \in @}]

\* COMMIT: everything any task has written becomes durable.
Commit == disk' = db /\ UNCHANGED db

\* The connection closes, or the process dies, with a transaction open.
LoseUncommitted == db' = disk /\ UNCHANGED disk

\* The suppression window of the events written so far runs out.
Expired(s) == [s EXCEPT !.events = {[e EXCEPT !.recent = FALSE] : e \in @}]

-----------------------------------------------------------------------------
(* What every reader of the tables relies on *)

\* Primary keys are unique, no event lost its watch, and there is one event
\* per watch and message.
Consistent(s) ==
  /\ \A r, q \in s.watches : r.id = q.id => r = q
  /\ \A e, f \in s.events : e.id = f.id => e = f
  /\ \A e, f \in s.events :
       (e.watch_id = f.watch_id /\ e.message = f.message) => e = f
  /\ \A e \in s.events : \E r \in s.watches : r.id = e.watch_id
=============================================================================
