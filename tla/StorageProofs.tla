---------------------------- MODULE StorageProofs ----------------------------
(***************************************************************************)
(* Every statement of storage/repo.py, the COMMIT and the loss of a        *)
(* transaction keep the two views of the database sound.                   *)
(***************************************************************************)
EXTENDS Storage, TLAPS

\* Rows are well formed, keys and references hold, and events are about
\* stored posts.
Sound(s) ==
  /\ s \in Store
  /\ Consistent(s)
  /\ \A e \in s.events : e.message \in s.messages

\* Posts are never deleted, so the connection sees all the durable ones, and
\* events are only ever written about durable ones.
ViewsSound ==
  /\ Sound(db)
  /\ Sound(disk)
  /\ disk.messages \subseteq db.messages
  /\ \A e \in db.events : e.message \in disk.messages

\* A new key differs from every key in use.
LEMMA NextIdIsNew ==
  ASSUME NEW rows, NEW ids, ids \subseteq Nat, NEW i \in NextId(rows, ids),
         \A r \in rows : r.id \in Nat
  PROVE  i \in ids /\ \A r \in rows : r.id # i
  BY DEF NextId

\* A COMMIT, whoever issues it, makes the connection's view the durable one.
LEMMA CommitKeepsSound ==
  ASSUME ViewsSound, Commit
  PROVE  ViewsSound'
  BY DEF ViewsSound, Sound, Commit, Consistent

\* A lost transaction leaves the durable view alone.
LEMMA LossKeepsSound ==
  ASSUME ViewsSound, LoseUncommitted
  PROVE  ViewsSound'
  BY DEF ViewsSound, Sound, LoseUncommitted, Consistent

\* INSERT INTO messages.
LEMMA InsertMessageKeepsSound ==
  ASSUME ViewsSound, NEW m \in Messages, InsertMessage(m), UNCHANGED disk
  PROVE  ViewsSound'
  BY DEF ViewsSound, Sound, InsertMessage, Consistent, Store

\* INSERT INTO watches: the key is new.
LEMMA InsertWatchKeepsSound ==
  ASSUME StorageAssumption,
         ViewsSound, NEW w \in Watches, InsertWatch(w), UNCHANGED disk
  PROVE  ViewsSound'
<1> DEFINE row(i) == [id |-> i, watch |-> w, enabled |-> TRUE]
<1>1. PICK i \in NextId(db.watches, WatchIds) :
        db' = [db EXCEPT !.watches = @ \cup {row(i)}]
  BY DEF InsertWatch
<1>2. WatchIds \subseteq Nat /\ \A r \in db.watches : r.id \in Nat
  BY DEF ViewsSound, Sound, Store, WatchRow, WatchIds, StorageAssumption
<1>3. i \in WatchIds /\ \A r \in db.watches : r.id # i
  BY <1>2, NextIdIsNew
<1>4. row(i) \in WatchRow /\ row(i).id = i
  BY <1>3 DEF WatchRow
<1> HIDE DEF row
<1>5. /\ db'.watches = db.watches \cup {row(i)}
      /\ db'.messages = db.messages
      /\ db'.events = db.events
      /\ db' \in Store
  BY <1>1, <1>4 DEF ViewsSound, Sound, Store
<1>6. Consistent(db')
  <2>1. \A r, q \in db'.watches : r.id = q.id => r = q
    BY <1>3, <1>4, <1>5 DEF ViewsSound, Sound, Consistent
  <2>2. \A e \in db'.events : \E r \in db'.watches : r.id = e.watch_id
    BY <1>5 DEF ViewsSound, Sound, Consistent
  <2>3. QED
    BY <1>5, <2>1, <2>2 DEF ViewsSound, Sound, Consistent
<1>7. QED
  BY <1>5, <1>6 DEF ViewsSound, Sound

\* INSERT INTO match_events, when neither constraint rejects it.
LEMMA InsertEventKeepsSound ==
  ASSUME StorageAssumption,
         ViewsSound, NEW id \in WatchIds, NEW m \in disk.messages,
         ~EventRejected(id, m), InsertEvent(id, m), UNCHANGED disk
  PROVE  ViewsSound'
<1> DEFINE row(i) == [id |-> i, watch_id |-> id, message |-> m,
                      notified |-> FALSE, recent |-> TRUE]
<1>1. PICK i \in NextId(db.events, EventIds) :
        db' = [db EXCEPT !.events = @ \cup {row(i)}]
  BY DEF InsertEvent
<1>2. EventIds \subseteq Nat /\ \A e \in db.events : e.id \in Nat
  BY DEF ViewsSound, Sound, Store, EventRow, EventIds, StorageAssumption
<1>3. i \in EventIds /\ \A e \in db.events : e.id # i
  BY <1>2, NextIdIsNew
<1>4. m \in Messages /\ m \in db.messages
  BY DEF ViewsSound, Sound, Store
<1>5. /\ row(i) \in EventRow
      /\ row(i).id = i
      /\ row(i).watch_id = id
      /\ row(i).message = m
  BY <1>3, <1>4 DEF EventRow
<1> HIDE DEF row
<1>6. /\ db'.events = db.events \cup {row(i)}
      /\ db'.messages = db.messages
      /\ db'.watches = db.watches
      /\ db' \in Store
  BY <1>1, <1>5 DEF ViewsSound, Sound, Store
<1>7. Consistent(db')
  <2>1. /\ \A e \in db.events : e.watch_id # id \/ e.message # m
        /\ \E r \in db.watches : r.id = id
    BY DEF EventRejected
  <2>2. \A e, f \in db'.events : e.id = f.id => e = f
    BY <1>3, <1>5, <1>6 DEF ViewsSound, Sound, Consistent
  <2>3. \A e, f \in db'.events :
          (e.watch_id = f.watch_id /\ e.message = f.message) => e = f
    BY <1>5, <1>6, <2>1 DEF ViewsSound, Sound, Consistent
  <2>4. \A e \in db'.events : \E r \in db'.watches : r.id = e.watch_id
    BY <1>5, <1>6, <2>1 DEF ViewsSound, Sound, Consistent
  <2>5. QED
    BY <1>6, <2>2, <2>3, <2>4 DEF ViewsSound, Sound, Consistent
<1>8. QED
  BY <1>4, <1>5, <1>6, <1>7 DEF ViewsSound, Sound

\* DELETE FROM match_events, for the watch's owner.
LEMMA DeleteEventsKeepsSound ==
  ASSUME ViewsSound, NEW id, NEW u, DeleteEvents(id, u), UNCHANGED disk
  PROVE  ViewsSound'
<1>1. /\ db' \in Store
      /\ db'.events \subseteq db.events
      /\ db'.messages = db.messages
      /\ db'.watches = db.watches
  BY DEF ViewsSound, Sound, Store, DeleteEvents
<1>2. QED
  BY <1>1 DEF ViewsSound, Sound, Consistent

\* DELETE FROM watches, when no event refers to the row.
LEMMA DeleteWatchKeepsSound ==
  ASSUME ViewsSound, NEW id, NEW u, ~DeleteRejected(id, u),
         DeleteWatch(id, u), UNCHANGED disk
  PROVE  ViewsSound'
<1>1. /\ db' \in Store
      /\ db'.events = db.events
      /\ db'.messages = db.messages
      /\ db'.watches = db.watches \ WatchRowsOf(id, u)
  BY DEF ViewsSound, Sound, Store, DeleteWatch
<1>2. Consistent(db')
  BY <1>1 DEF ViewsSound, Sound, Consistent, WatchRowsOf, DeleteRejected
<1>3. QED
  BY <1>1, <1>2 DEF ViewsSound, Sound

\* UPDATE watches SET enabled.
LEMMA SetEnabledKeepsSound ==
  ASSUME ViewsSound, NEW id, NEW b \in BOOLEAN, SetEnabled(id, b), UNCHANGED disk
  PROVE  ViewsSound'
<1> DEFINE Set(r) == IF r.id = id THEN [r EXCEPT !.enabled = b] ELSE r
<1>1. /\ db'.watches = {Set(r) : r \in db.watches}
      /\ db'.events = db.events
      /\ db'.messages = db.messages
  BY DEF ViewsSound, Sound, Store, SetEnabled
<1>2. \A r \in db.watches : Set(r) \in WatchRow /\ Set(r).id = r.id
  BY DEF ViewsSound, Sound, Store, WatchRow
<1>3. db' \in Store
  BY <1>1, <1>2 DEF ViewsSound, Sound, Store, SetEnabled
<1>4. Consistent(db')
  <2> HIDE DEF Set
  <2>1. \A r, q \in db'.watches : r.id = q.id => r = q
    BY <1>1, <1>2 DEF ViewsSound, Sound, Consistent
  <2>2. \A e \in db'.events : \E r \in db'.watches : r.id = e.watch_id
    BY <1>1, <1>2 DEF ViewsSound, Sound, Consistent
  <2>3. QED
    BY <1>1, <2>1, <2>2 DEF ViewsSound, Sound, Consistent
<1>5. QED
  BY <1>1, <1>3, <1>4 DEF ViewsSound, Sound

\* UPDATE match_events SET notified_at.
LEMMA MarkNotifiedKeepsSound ==
  ASSUME ViewsSound, NEW id, MarkNotified(id), UNCHANGED disk
  PROVE  ViewsSound'
<1> DEFINE Set(e) == IF e.id = id THEN [e EXCEPT !.notified = TRUE] ELSE e
<1>1. /\ db'.events = {Set(e) : e \in db.events}
      /\ db'.watches = db.watches
      /\ db'.messages = db.messages
  BY DEF ViewsSound, Sound, Store, MarkNotified
<1>2. \A e \in db.events : /\ Set(e) \in EventRow
                           /\ Set(e).id = e.id
                           /\ Set(e).watch_id = e.watch_id
                           /\ Set(e).message = e.message
  BY DEF ViewsSound, Sound, Store, EventRow
<1>3. db' \in Store
  BY <1>1, <1>2 DEF ViewsSound, Sound, Store, MarkNotified
<1> HIDE DEF Set
<1>4. Consistent(db')
  <2>1. /\ \A e, f \in db'.events : e.id = f.id => e = f
        /\ \A e, f \in db'.events :
             (e.watch_id = f.watch_id /\ e.message = f.message) => e = f
    BY <1>1, <1>2 DEF ViewsSound, Sound, Consistent
  <2>2. \A e \in db'.events : \E r \in db'.watches : r.id = e.watch_id
    BY <1>1, <1>2 DEF ViewsSound, Sound, Consistent
  <2>3. QED
    BY <1>1, <2>1, <2>2 DEF ViewsSound, Sound, Consistent
<1>5. QED
  BY <1>1, <1>2, <1>3, <1>4 DEF ViewsSound, Sound

\* The passing of the suppression window changes no key and no reference.
LEMMA ExpiredIsSound ==
  ASSUME NEW s, Sound(s)
  PROVE  /\ Sound(Expired(s))
         /\ Expired(s).messages = s.messages
         /\ \A e \in Expired(s).events : \E f \in s.events : e.message = f.message
<1> DEFINE Set(e) == [e EXCEPT !.recent = FALSE]
<1>1. /\ Expired(s).events = {Set(e) : e \in s.events}
      /\ Expired(s).watches = s.watches
      /\ Expired(s).messages = s.messages
  BY DEF Sound, Store, Expired
<1>2. \A e \in s.events : /\ Set(e) \in EventRow
                          /\ Set(e).id = e.id
                          /\ Set(e).watch_id = e.watch_id
                          /\ Set(e).message = e.message
  BY DEF Sound, Store, EventRow
<1>3. Expired(s) \in Store
  BY <1>1, <1>2 DEF Sound, Store, Expired
<1> HIDE DEF Set
<1>4. Consistent(Expired(s))
  <2>1. /\ \A e, f \in Expired(s).events : e.id = f.id => e = f
        /\ \A e, f \in Expired(s).events :
             (e.watch_id = f.watch_id /\ e.message = f.message) => e = f
    BY <1>1, <1>2 DEF Sound, Consistent
  <2>2. \A e \in Expired(s).events : \E r \in Expired(s).watches : r.id = e.watch_id
    BY <1>1, <1>2 DEF Sound, Consistent
  <2>3. QED
    BY <1>1, <2>1, <2>2 DEF Sound, Consistent
<1>5. QED
  BY <1>1, <1>2, <1>3, <1>4 DEF Sound

-----------------------------------------------------------------------------
(* What the connection sees after a statement, next to what it saw before *)

\* Every alert was there before, was not unmarked, and is in the window only
\* if it was.
NoNewEvents ==
  \A e \in db'.events : \E f \in db.events :
    /\ f.id = e.id
    /\ f.watch_id = e.watch_id
    /\ f.message = e.message
    /\ f.notified => e.notified
    /\ e.recent => f.recent

\* Every watch was there before.
NoNewWatches ==
  \A r \in db'.watches : \E q \in db.watches : q.id = r.id /\ q.watch = r.watch

\* Every alert is still there, and marked if it was.
NoEventsLost ==
  \A e \in db.events : \E f \in db'.events :
    /\ f.id = e.id
    /\ f.watch_id = e.watch_id
    /\ f.message = e.message
    /\ e.notified => f.notified

\* Every watch is still there.
NoWatchesLost ==
  \A r \in db.watches : \E q \in db'.watches : q.id = r.id /\ q.watch = r.watch

\* A step that leaves the rows alone.
LEMMA SameRows ==
  /\ db'.events = db.events => NoNewEvents /\ NoEventsLost
  /\ db'.watches = db.watches => NoNewWatches /\ NoWatchesLost
  BY DEF NoNewEvents, NoEventsLost, NoNewWatches, NoWatchesLost

\* INSERT INTO messages.
LEMMA InsertMessageRows ==
  ASSUME db \in Store, NEW m, InsertMessage(m)
  PROVE  db'.events = db.events /\ db'.watches = db.watches
  BY DEF InsertMessage, Store

\* DELETE FROM match_events.
LEMMA DeleteEventsRows ==
  ASSUME db \in Store, NEW id, NEW u, DeleteEvents(id, u)
  PROVE  /\ db'.watches = db.watches
         /\ db'.events \subseteq db.events
         /\ WatchRowsOf(id, u) = {} => db'.events = db.events
         /\ \A e \in db.events : e.watch_id # id => e \in db'.events
         /\ NoNewEvents
<1>1. /\ db'.watches = db.watches
      /\ db'.events = IF WatchRowsOf(id, u) = {}
                        THEN db.events ELSE {e \in db.events : e.watch_id # id}
  BY DEF DeleteEvents, Store
<1>2. QED
  BY <1>1 DEF NoNewEvents

\* DELETE FROM watches.
LEMMA DeleteWatchRows ==
  ASSUME db \in Store, NEW id, NEW u, DeleteWatch(id, u)
  PROVE  /\ db'.events = db.events
         /\ db'.watches = db.watches \ WatchRowsOf(id, u)
         /\ NoNewWatches
<1>1. db'.events = db.events /\ db'.watches = db.watches \ WatchRowsOf(id, u)
  BY DEF DeleteWatch, Store
<1>2. QED
  BY <1>1 DEF NoNewWatches

\* UPDATE watches SET enabled.
LEMMA SetEnabledRows ==
  ASSUME db \in Store, NEW id, NEW b, SetEnabled(id, b)
  PROVE  /\ db'.events = db.events
         /\ NoNewWatches
         /\ NoWatchesLost
         /\ \A r \in db'.watches : r.id = id => r.enabled = b
         /\ \A r \in db'.watches : r.id # id => r \in db.watches
<1> DEFINE Set(r) == IF r.id = id THEN [r EXCEPT !.enabled = b] ELSE r
<1>1. /\ db'.watches = {Set(r) : r \in db.watches}
      /\ db'.events = db.events
  BY DEF Store, SetEnabled
<1>2. \A r \in db.watches : /\ Set(r).id = r.id
                            /\ Set(r).watch = r.watch
                            /\ r.id = id => Set(r).enabled = b
                            /\ r.id # id => Set(r) = r
  BY DEF Store, WatchRow
<1> HIDE DEF Set
<1>3. QED
  BY <1>1, <1>2 DEF NoNewWatches, NoWatchesLost

\* UPDATE match_events SET notified_at.
LEMMA MarkNotifiedRows ==
  ASSUME db \in Store, NEW id, MarkNotified(id)
  PROVE  /\ db'.watches = db.watches
         /\ NoNewEvents
         /\ NoEventsLost
         /\ \A e \in db'.events : e.id = id => e.notified
         /\ \A e \in db'.events : e.id # id => e \in db.events
<1> DEFINE Set(e) == IF e.id = id THEN [e EXCEPT !.notified = TRUE] ELSE e
<1>1. /\ db'.events = {Set(e) : e \in db.events}
      /\ db'.watches = db.watches
  BY DEF Store, MarkNotified
<1>2. \A e \in db.events : /\ Set(e).id = e.id
                           /\ Set(e).watch_id = e.watch_id
                           /\ Set(e).message = e.message
                           /\ e.notified => Set(e).notified
                           /\ Set(e).recent = e.recent
                           /\ e.id = id => Set(e).notified
                           /\ e.id # id => Set(e) = e
  BY DEF Store, EventRow
<1> HIDE DEF Set
<1>3. QED
  BY <1>1, <1>2 DEF NoNewEvents, NoEventsLost

\* The suppression window passes: only recent changes.
LEMMA ExpiredRows ==
  ASSUME NEW s \in Store
  PROVE  /\ Expired(s).messages = s.messages
         /\ Expired(s).watches = s.watches
         /\ \A e \in Expired(s).events : \E f \in s.events :
              /\ f.id = e.id
              /\ f.watch_id = e.watch_id
              /\ f.message = e.message
              /\ f.notified = e.notified
              /\ ~e.recent
         /\ \A f \in s.events : \E e \in Expired(s).events :
              /\ f.id = e.id
              /\ f.watch_id = e.watch_id
              /\ f.message = e.message
              /\ f.notified = e.notified
<1> DEFINE Set(e) == [e EXCEPT !.recent = FALSE]
<1>1. /\ Expired(s).events = {Set(e) : e \in s.events}
      /\ Expired(s).watches = s.watches
      /\ Expired(s).messages = s.messages
  BY DEF Store, Expired
<1>2. \A e \in s.events : /\ Set(e).id = e.id
                          /\ Set(e).watch_id = e.watch_id
                          /\ Set(e).message = e.message
                          /\ Set(e).notified = e.notified
                          /\ ~Set(e).recent
  BY DEF Store, EventRow
<1> HIDE DEF Set
<1>3. QED
  BY <1>1, <1>2

\* INSERT INTO watches: one row more, with a new key.
LEMMA InsertWatchRows ==
  ASSUME StorageAssumption, db \in Store, NEW w \in Watches, InsertWatch(w)
  PROVE  /\ db'.events = db.events
         /\ NoWatchesLost
         /\ \E row \in WatchRow :
              /\ row.watch = w
              /\ row.enabled
              /\ \A r \in db.watches : r.id # row.id
              /\ db'.watches = db.watches \cup {row}
<1> DEFINE row(i) == [id |-> i, watch |-> w, enabled |-> TRUE]
<1>1. PICK i \in NextId(db.watches, WatchIds) :
        db' = [db EXCEPT !.watches = @ \cup {row(i)}]
  BY DEF InsertWatch
<1>2. WatchIds \subseteq Nat /\ \A r \in db.watches : r.id \in Nat
  BY DEF Store, WatchRow, WatchIds, StorageAssumption
<1>3. i \in WatchIds /\ \A r \in db.watches : r.id # i
  BY <1>2, NextIdIsNew
<1>4. row(i) \in WatchRow /\ row(i).id = i /\ row(i).watch = w /\ row(i).enabled
  BY <1>3 DEF WatchRow
<1> HIDE DEF row
<1>5. /\ db'.watches = db.watches \cup {row(i)}
      /\ db'.events = db.events
  BY <1>1 DEF Store
<1>6. QED
  BY <1>3, <1>4, <1>5 DEF NoWatchesLost

\* INSERT INTO match_events: one row more, with a new key.
LEMMA InsertEventRows ==
  ASSUME StorageAssumption, db \in Store, NEW id \in WatchIds, NEW m \in Messages,
         InsertEvent(id, m)
  PROVE  /\ db'.watches = db.watches
         /\ db'.messages = db.messages
         /\ NoEventsLost
         /\ \E row \in EventRow :
              /\ row.watch_id = id
              /\ row.message = m
              /\ ~row.notified
              /\ \A e \in db.events : e.id # row.id
              /\ db'.events = db.events \cup {row}
<1> DEFINE row(i) == [id |-> i, watch_id |-> id, message |-> m,
                      notified |-> FALSE, recent |-> TRUE]
<1>1. PICK i \in NextId(db.events, EventIds) :
        db' = [db EXCEPT !.events = @ \cup {row(i)}]
  BY DEF InsertEvent
<1>2. EventIds \subseteq Nat /\ \A e \in db.events : e.id \in Nat
  BY DEF Store, EventRow, EventIds, StorageAssumption
<1>3. i \in EventIds /\ \A e \in db.events : e.id # i
  BY <1>2, NextIdIsNew
<1>4. /\ row(i) \in EventRow
      /\ row(i).id = i
      /\ row(i).watch_id = id
      /\ row(i).message = m
      /\ ~row(i).notified
  BY <1>3 DEF EventRow
<1> HIDE DEF row
<1>5. /\ db'.events = db.events \cup {row(i)}
      /\ db'.watches = db.watches
      /\ db'.messages = db.messages
  BY <1>1 DEF Store
<1>6. QED
  BY <1>3, <1>4, <1>5 DEF NoEventsLost
=============================================================================
