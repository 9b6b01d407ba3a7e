------------------------- MODULE AlertDeliveryProofs -------------------------
(***************************************************************************)
(* Who is told of what, and how often: for every set of posts, watches,    *)
(* users and requests, and any number of crashes and lost answers.  First  *)
(* what holds of every instance: duplicates need an overlap, deliveries    *)
(* are bounded, and alerts are dropped, and watches switched, only because *)
(* users asked.  Then what holds where no request removes a watch: marks   *)
(* follow attempts, alerts are matches, and the tables implement           *)
(* AlertLedger.                                                            *)
(***************************************************************************)
EXTENDS AlertPipelineProofs

\* A COMMIT, the loss of a transaction or the passing of the window.
DiskFollows == disk' = disk \/ disk' = db \/ disk' = Expired(disk)

-----------------------------------------------------------------------------
(* What the steps do to the rows *)

\* A post's handler inserts at most one alert, and no watch.
LEMMA IngestRows ==
  ASSUME Assumptions, IInv, NEW m \in Messages, IngestStep(m)
  PROVE  /\ disk' = disk \/ (disk' = db /\ UNCHANGED db)
         /\ db'.watches = db.watches
         /\ NoEventsLost
         /\ \/ db'.events = db.events
            \/ CreateEvent(m) /\ ~UNCHANGED db
<1>0. db \in Store
  BY DEF IInv, ViewsSound, Sound
<1>1. CASE StoreMessage(m)
  BY <1>0, <1>1, SameRows, InsertMessageRows DEF StoreMessage
<1>2. CASE CommitMessage(m) \/ CommitEvent(m)
  BY <1>2, SameRows DEF CommitMessage, CommitEvent, Commit
<1>3. CASE LoadWatches(m) \/ ConsiderWatch(m) \/ EndIngest(m)
  BY <1>3, SameRows DEF LoadWatches, ConsiderWatch, EndIngest, storeVars
<1>4. CASE CreateEvent(m)
  <2>1. PICK r \in First(ing[m].queue) :
          UNCHANGED db \/ InsertEvent(r.id, m)
    BY <1>4 DEF CreateEvent
  <2>2. r.id \in WatchIds
    BY DEF First, IInv, IngOK, Handler, WatchRow
  <2>3. CASE UNCHANGED db
    BY <1>4, <2>3, SameRows DEF CreateEvent
  <2>4. CASE ~UNCHANGED db /\ InsertEvent(r.id, m)
    BY <1>0, <1>4, <2>2, <2>4, InsertEventRows DEF CreateEvent, Assumptions
  <2>5. QED
    BY <2>1, <2>3, <2>4
<1>5. QED
  BY <1>1, <1>2, <1>3, <1>4 DEF IngestStep

\* A command inserts no alert, and at most one watch.
LEMMA CommandRows ==
  ASSUME Assumptions, IInv, NEW r \in Requests, CommandStep(r)
  PROVE  /\ disk' = disk \/ (disk' = db /\ UNCHANGED db)
         /\ NoNewEvents
         /\ \/ created' = created /\ NoNewWatches
            \/ \E w \in Watches \ created :
                 /\ created' = created \cup {w}
                 /\ InsertWatch(w)
                 /\ disk' = disk
<1>0. db \in Store
  BY DEF IInv, ViewsSound, Sound
<1>1. CASE EnsureUser(r) \/ CommitCommand(r)
  BY <1>1, SameRows DEF EnsureUser, CommitCommand, Commit, Continue
<1>2. CASE AddWatch(r)
  BY <1>0, <1>2, SameRows, InsertWatchRows DEF AddWatch, Assumptions
<1>3. CASE RemoveEvents(r)
  BY <1>0, <1>3, SameRows, DeleteEventsRows DEF RemoveEvents, Continue
<1>4. CASE RemoveWatch(r)
  BY <1>0, <1>4, SameRows, DeleteWatchRows DEF RemoveWatch, Continue
<1>5. CASE FindWatch(r)
  BY <1>5, SameRows DEF FindWatch, Continue, storeVars
<1>6. CASE UpdateEnabled(r)
  BY <1>0, <1>6, SameRows, SetEnabledRows DEF UpdateEnabled, Continue
<1>7. QED
  BY <1>1, <1>2, <1>3, <1>4, <1>5, <1>6 DEF CommandStep

\* The notifier inserts and deletes nothing.
LEMMA NotifierRows ==
  ASSUME IInv, NotifierStep
  PROVE  /\ disk' = disk \/ (disk' = db /\ UNCHANGED db)
         /\ db'.watches = db.watches
         /\ NoNewEvents
         /\ NoEventsLost
<1>0. db \in Store
  BY DEF IInv, ViewsSound, Sound
<1>1. \/ UNCHANGED storeVars
      \/ Commit
      \/ (\E e : MarkNotified(e.id)) /\ UNCHANGED disk
  BY DEF NotifierStep, Poll, SendSettled, SendOk, SendForbidden, SendFails,
         SendLostAck, Mark, CommitMark
<1>2. QED
  BY <1>0, <1>1, SameRows, MarkNotifiedRows DEF storeVars, Commit

\* The passing of the window.
LEMMA WindowRows ==
  ASSUME IInv, WindowPasses
  PROVE  /\ disk' = Expired(disk)
         /\ db'.watches = db.watches
         /\ disk'.watches = disk.watches
         /\ NoNewEvents
         /\ NoEventsLost
<1>1. db \in Store /\ disk \in Store
  BY DEF IInv, ViewsSound, Sound
<1>2. db' = Expired(db) /\ disk' = Expired(disk)
  BY DEF WindowPasses
<1>3. QED
  BY <1>1, <1>2, ExpiredRows DEF NoNewEvents, NoEventsLost

\* Of two rows with the same key there is one.
LEMMA SameKeySameRow ==
  ASSUME IInv
  PROVE  /\ \A r, q \in db.watches : r.id = q.id => r = q
         /\ \A e, f \in db.events : e.id = f.id => e = f
         /\ \A e, f \in db.events :
              (e.watch_id = f.watch_id /\ e.message = f.message) => e = f
         /\ \A e \in db.events : \E r \in db.watches : r.id = e.watch_id
         /\ \A r, q \in disk.watches : r.id = q.id => r = q
         /\ \A e, f \in disk.events :
              (e.watch_id = f.watch_id /\ e.message = f.message) => e = f
         /\ \A e \in disk.events : \E r \in disk.watches : r.id = e.watch_id
  BY DEF IInv, ViewsSound, Sound, Consistent

-----------------------------------------------------------------------------
(* Where the steps of a handler lead *)

\* GoTo moves the handler's counter and leaves its snapshot of the watches.
LEMMA GoToPlace ==
  ASSUME IngOK, NEW m \in Messages, NEW pc, GoTo(m, pc)
  PROVE  ing'[m].pc = pc /\ ing'[m].queue = ing[m].queue
  BY DEF IngOK, Handler, GoTo

\* A watch that was dealt with leaves the queue of the post's handler.
LEMMA NextWatchPlace ==
  ASSUME IngOK, NEW m \in Messages, NEW r, NextWatch(m, r)
  PROVE  ing'[m].pc = "consider" /\ ing'[m].queue = ing[m].queue \ {r}
  BY DEF IngOK, NextWatch

\* The queue only shrinks after it was loaded, and only ConsiderWatch decides
\* on an alert.
LEMMA IngestPlaces ==
  ASSUME IngOK, NEW m \in Messages, IngestStep(m)
  PROVE  /\ \A n \in Messages : n # m => ing'[n] = ing[n]
         /\ ing'[m].pc = "create" => ConsiderWatch(m)
         /\ ing'[m].queue \subseteq ing[m].queue \/ LoadWatches(m)
<1>1. \A n \in Messages : n # m => ing'[n] = ing[n]
  BY DEF IngOK, IngestStep, StoreMessage, CommitMessage, LoadWatches, ConsiderWatch,
         CreateEvent, CommitEvent, EndIngest, GoTo, NextWatch
<1>2. \/ LoadWatches(m)
      \/ ConsiderWatch(m)
      \/ \E r : NextWatch(m, r)
      \/ \E pc \in IngestPc \ {"create"} : GoTo(m, pc)
  BY DEF IngestStep, StoreMessage, CommitMessage, CreateEvent, CommitEvent, EndIngest,
         IngestPc
<1>3. ConsiderWatch(m) => \/ \E r : NextWatch(m, r)
                          \/ \E pc : GoTo(m, pc)
  BY DEF ConsiderWatch
<1>4. LoadWatches(m) => ing'[m].pc = "consider"
  BY DEF LoadWatches, IngOK
<1> QED  BY <1>1, <1>2, <1>3, <1>4, GoToPlace, NextWatchPlace

-----------------------------------------------------------------------------
(* Two alerts for one text *)

Overlapped(m, n) == {<<m, n>>, <<n, m>>} \cap overlap # {}

\* Handlers that run at the same time are on record.
BusyOverlap == \A m, n \in Busy : m # n => Overlapped(m, n)

\* m's handler has decided to insert an alert for the watch row r: an alert of
\* r for the same text comes from a handler that runs, or ran, beside m's.
NoneAlike ==
  \A m \in Messages : ing[m].pc = "create" =>
    \A r \in First(ing[m].queue), e \in db.events :
      (/\ e.watch_id = r.id
       /\ e.recent
       /\ e.message # m
       /\ DedupeKey[m] # NoKey
       /\ DedupeKey[m] = DedupeKey[e.message])
      => Overlapped(m, e.message)

Apart(s) ==
  \A e, f \in s.events : Duplicates(e, f) => Overlapped(e.message, f.message)

OInv == BusyOverlap /\ NoneAlike /\ Apart(db) /\ Apart(disk)

\* Without new alerts the old ones stay apart.
LEMMA ApartFollows ==
  ASSUME IInv, OInv, overlap \subseteq overlap', NoNewEvents, DiskFollows
  PROVE  Apart(db)' /\ Apart(disk)'
<1>1. \A m, n : Overlapped(m, n) => Overlapped(m, n)'
  BY DEF Overlapped
<1>2. Apart(db)'
  <2> SUFFICES ASSUME NEW e \in db'.events, NEW f \in db'.events, Duplicates(e, f)
               PROVE  Overlapped(e.message, f.message)'
    BY DEF Apart, Duplicates
  <2>1. PICK d \in db.events : /\ d.watch_id = e.watch_id
                               /\ d.message = e.message
                               /\ e.recent => d.recent
    BY DEF NoNewEvents
  <2>2. PICK g \in db.events : /\ g.watch_id = f.watch_id
                               /\ g.message = f.message
                               /\ f.recent => g.recent
    BY DEF NoNewEvents
  <2>3. Duplicates(d, g)
    BY <2>1, <2>2 DEF Duplicates
  <2> QED  BY <1>1, <2>1, <2>2, <2>3 DEF OInv, Apart
<1>3. Apart(disk)'
  <2>1. CASE disk' = disk \/ disk' = db
    BY <1>1, <2>1 DEF OInv, Apart, Duplicates
  <2>2. CASE disk' = Expired(disk)
    <3>1. \A e \in disk'.events : ~e.recent
      BY <2>2, ExpiredRows DEF IInv, ViewsSound, Sound
    <3> QED  BY <3>1 DEF Apart, Duplicates
  <2> QED  BY <2>1, <2>2 DEF DiskFollows
<1> QED  BY <1>2, <1>3

\* Nor does a decision meet a new alert, unless the decision itself is new.
LEMMA DecisionsFollow ==
  ASSUME NoneAlike, NoNewEvents, overlap \subseteq overlap',
         \A m \in Messages : ing'[m].pc = "create" => ing'[m] = ing[m]
  PROVE  NoneAlike'
<1>1. \A m, n : Overlapped(m, n) => Overlapped(m, n)'
  BY DEF Overlapped
<1> SUFFICES ASSUME NEW m \in Messages, ing[m]'.pc = "create",
                    NEW r \in First(ing[m]'.queue), NEW e \in db'.events,
                    e.watch_id = r.id, e.recent, e.message # m,
                    DedupeKey[m] # NoKey, DedupeKey[m] = DedupeKey[e.message]
             PROVE  Overlapped(m, e.message)'
  BY DEF NoneAlike, First
<1>2. PICK f \in db.events : /\ f.watch_id = e.watch_id
                             /\ f.message = e.message
                             /\ e.recent => f.recent
  BY DEF NoNewEvents
<1> QED  BY <1>1, <1>2 DEF NoneAlike

\* Taking a post up puts it on record with all that run.
LEMMA TakeUpRecords ==
  ASSUME IngOK, BusyOverlap, NEW m \in Messages, TakeUp(m)
  PROVE  /\ BusyOverlap'
         /\ overlap \subseteq overlap'
         /\ \A n \in Messages : ing'[n].pc = "create" => ing'[n] = ing[n]
<1>1. /\ ing' = [ing EXCEPT ![m] = [pc |-> "insert", queue |-> {}]]
      /\ overlap' = overlap \cup ({m} \X Busy)
  BY DEF TakeUp, BeginIngest
<1>2. \A n \in Messages : n # m => ing'[n] = ing[n]
  BY <1>1 DEF IngOK
<1>3. ing'[m].pc = "insert"
  BY <1>1 DEF IngOK
<1>4. ASSUME NEW a \in Busy', NEW b \in Busy', a # b
      PROVE  Overlapped(a, b)'
  <2>1. a \in Messages /\ b \in Messages
    BY DEF Busy
  <2>2. (a # m => a \in Busy) /\ (b # m => b \in Busy)
    BY <1>2, <2>1 DEF Busy, Ingesting, Ended
  <2>3. CASE a = m
    <3>1. <<m, b>> \in overlap'
      BY <1>1, <1>4, <2>2, <2>3
    <3> QED  BY <2>3, <3>1 DEF Overlapped
  <2>4. CASE b = m
    <3>1. <<m, a>> \in overlap'
      BY <1>1, <1>4, <2>2, <2>4
    <3> QED  BY <2>4, <3>1 DEF Overlapped
  <2>5. CASE a # m /\ b # m
    BY <1>1, <1>4, <2>2, <2>5 DEF Overlapped, BusyOverlap
  <2> QED  BY <2>3, <2>4, <2>5
<1>5. BusyOverlap'
  BY <1>4 DEF BusyOverlap
<1> QED  BY <1>1, <1>2, <1>3, <1>5

\* The steps of one post's handler.
LEMMA IngestStaysApart ==
  ASSUME Assumptions, IInv, OInv, NEW m \in Messages, IngestStep(m), UNCHANGED overlap
  PROVE  OInv'
<1>0. /\ IngOK
      /\ overlap \subseteq overlap'
      /\ \A n \in Messages : n # m => ing'[n] = ing[n]
      /\ Ingesting(m)
  BY IngestPlaces
  DEF IInv, Ingesting, Ended, IngestStep, StoreMessage, CommitMessage,
      LoadWatches, ConsiderWatch, CreateEvent, CommitEvent, EndIngest
<1>1. BusyOverlap'
  <2>1. Busy' \subseteq Busy
    BY <1>0 DEF Busy, Ingesting
  <2> QED  BY <2>1 DEF OInv, BusyOverlap, Overlapped
<1>2. CASE db'.events = db.events /\ ing'[m].pc # "create"
  <2>1. Apart(db)' /\ Apart(disk)'
    BY <1>0, <1>2, SameRows, IngestRows, ApartFollows DEF DiskFollows
  <2>2. NoneAlike'
    BY <1>0, <1>2, SameRows, DecisionsFollow DEF OInv
  <2> QED  BY <1>1, <2>1, <2>2 DEF OInv
<1>3. CASE ConsiderWatch(m) /\ ing'[m].pc = "create"
  <2>1. UNCHANGED storeVars
    BY <1>3 DEF ConsiderWatch
  <2>2. Apart(db)' /\ Apart(disk)'
    BY <1>0, <2>1, SameRows, ApartFollows DEF DiskFollows, storeVars
  <2>3. PICK r \in First(ing[m].queue) : ~HasRecentDuplicate(r.id, m) /\ GoTo(m, "create")
    BY <1>0, <1>3, GoToPlace, NextWatchPlace DEF ConsiderWatch
  <2>4. ing'[m].queue = ing[m].queue
    BY <1>0, <2>3, GoToPlace
  <2>5. \A q \in First(ing'[m].queue) : q.id = r.id
    BY <1>0, <2>3, <2>4 DEF First, IngOK, Handler, WatchRow, WatchIds
  <2>6. \A e \in db.events :
          (e.watch_id = r.id /\ e.recent) => ~(/\ DedupeKey[m] # NoKey
                                               /\ DedupeKey[m] = DedupeKey[e.message])
    BY <2>3 DEF HasRecentDuplicate
  <2>7. NoneAlike'
    <3> SUFFICES ASSUME NEW n \in Messages, ing[n]'.pc = "create",
                        NEW q \in First(ing[n]'.queue), NEW e \in db'.events,
                        e.watch_id = q.id, e.recent, e.message # n,
                        DedupeKey[n] # NoKey, DedupeKey[n] = DedupeKey[e.message]
                 PROVE  Overlapped(n, e.message)'
      BY DEF NoneAlike, First
    <3>1. CASE n = m
      BY <2>1, <2>5, <2>6, <3>1 DEF storeVars
    <3>2. CASE n # m
      BY <1>0, <2>1, <3>2 DEF storeVars, OInv, NoneAlike, Overlapped
    <3> QED  BY <3>1, <3>2
  <2> QED  BY <1>1, <2>2, <2>7 DEF OInv
<1>4. CASE CreateEvent(m) /\ ~UNCHANGED db
  <2>1. PICK r \in First(ing[m].queue) : InsertEvent(r.id, m) /\ GoTo(m, "close")
    BY <1>4 DEF CreateEvent
  <2>2. r.id \in WatchIds /\ db \in Store
    BY <1>0 DEF First, IngOK, Handler, WatchRow, IInv, ViewsSound, Sound
  <2>3. PICK row \in EventRow : /\ row.watch_id = r.id
                                /\ row.message = m
                                /\ db'.events = db.events \cup {row}
    BY <2>1, <2>2, InsertEventRows DEF Assumptions
  <2>4. ing'[m].pc = "close" /\ UNCHANGED disk /\ ing[m].pc = "create"
    BY <1>0, <1>4, <2>1, GoToPlace DEF CreateEvent
  <2>5. ASSUME NEW e \in db.events, Duplicates(row, e) \/ Duplicates(e, row)
        PROVE  Overlapped(m, e.message)
    BY <2>1, <2>3, <2>4, <2>5 DEF Duplicates, OInv, NoneAlike
  <2>6. ~Duplicates(row, row)
    BY DEF Duplicates
  <2>7. Apart(db)' /\ Apart(disk)'
    <3>1. \A a, b : Overlapped(a, b)' <=> Overlapped(b, a)
      BY DEF Overlapped
    <3>2. ASSUME NEW e \in db'.events, NEW f \in db'.events, Duplicates(e, f)
          PROVE  Overlapped(e.message, f.message)'
      <4>1. CASE e \in db.events /\ f \in db.events
        BY <3>1, <3>2, <4>1 DEF OInv, Apart, Overlapped
      <4>2. CASE e = row /\ f \in db.events
        BY <2>3, <2>5, <3>1, <3>2, <4>2 DEF Overlapped
      <4>3. CASE e \in db.events /\ f = row
        BY <2>3, <2>5, <3>1, <3>2, <4>3 DEF Overlapped
      <4> QED  BY <2>3, <2>6, <3>2, <4>1, <4>2, <4>3
    <3>3. Apart(disk)'
      BY <2>4 DEF OInv, Apart, Overlapped, Duplicates
    <3> QED  BY <3>2, <3>3 DEF Apart, Duplicates
  <2>8. NoneAlike'
    <3> SUFFICES ASSUME NEW n \in Messages, ing[n]'.pc = "create",
                        NEW q \in First(ing[n]'.queue), NEW e \in db'.events,
                        e.watch_id = q.id, e.recent, e.message # n,
                        DedupeKey[n] # NoKey, DedupeKey[n] = DedupeKey[e.message]
                 PROVE  Overlapped(n, e.message)'
      BY DEF NoneAlike, First
    <3>1. n # m /\ ing'[n] = ing[n]
      BY <1>0, <2>4
    <3>2. CASE e \in db.events
      BY <3>1, <3>2 DEF OInv, NoneAlike, Overlapped
    <3>3. CASE e = row
      <4>1. n \in Busy /\ m \in Busy
        BY <1>0, <3>1 DEF Busy, Ingesting, Ended
      <4> QED  BY <2>3, <3>1, <3>3, <4>1 DEF OInv, BusyOverlap, Overlapped
    <3> QED  BY <2>3, <3>2, <3>3
  <2> QED  BY <1>1, <2>7, <2>8 DEF OInv
<1>5. ing'[m].pc = "create" => ConsiderWatch(m)
  BY <1>0, IngestPlaces
<1>6. ConsiderWatch(m) => UNCHANGED db
  BY DEF ConsiderWatch, storeVars
<1> QED  BY <1>2, <1>3, <1>4, <1>5, <1>6, IngestRows

\* Every step.
LEMMA StepStaysApart ==
  ASSUME Assumptions, IInv, OInv, [Next]_vars
  PROVE  OInv'
<1>0. IngOK
  BY DEF IInv
<1>1. ASSUME UNCHANGED <<ing, overlap>>, NoNewEvents, DiskFollows
      PROVE  OInv'
  <2>1. Apart(db)' /\ Apart(disk)'
    BY <1>1, ApartFollows
  <2>2. NoneAlike'
    BY <1>1, DecisionsFollow DEF OInv
  <2>3. BusyOverlap'
    BY <1>1 DEF OInv, BusyOverlap, Busy, Ingesting, Overlapped
  <2> QED  BY <2>1, <2>2, <2>3 DEF OInv
<1>2. ASSUME NEW m \in Messages, TakeUp(m), UNCHANGED storeVars
      PROVE  OInv'
  <2>1. BusyOverlap' /\ NoneAlike' /\ overlap \subseteq overlap'
    BY <1>0, <1>2, TakeUpRecords, DecisionsFollow, SameRows DEF OInv, storeVars
  <2> QED  BY <1>2, <2>1, ApartFollows, SameRows DEF OInv, storeVars, DiskFollows
<1>3. UNCHANGED storeVars => NoNewEvents /\ DiskFollows
  BY SameRows DEF storeVars, DiskFollows
<1>4. ASSUME NEW m \in Messages, Post(m) \/ BackfillNext(m)
      PROVE  OInv'
  BY <1>1, <1>2, <1>3, <1>4 DEF Post, BackfillNext
<1>5. ASSUME NEW m \in Messages, Ingest(m)
      PROVE  OInv'
  BY <1>5, IngestStaysApart DEF Ingest, runtimeVars
<1>6. ASSUME NEW r \in Requests, Arrive(r)
      PROVE  OInv'
  BY <1>1, <1>3, <1>6 DEF Arrive, BeginCommand, runtimeVars, storeVars
<1>7. ASSUME NEW r \in Requests, Handle(r)
      PROVE  OInv'
  BY <1>1, <1>7, CommandRows DEF Handle, runtimeVars, DiskFollows
<1>8. CASE Notify
  BY <1>1, <1>8, NotifierRows DEF Notify, runtimeVars, DiskFollows
<1>9. CASE GoLive
  BY <1>1, <1>3, <1>9 DEF GoLive
<1>10. CASE Crash \/ BackfillFails
  <2>1. Restart
    BY <1>10 DEF Crash, BackfillFails
  <2>2. \A m \in Messages : ing'[m].pc = "idle"
    BY <2>1 DEF Restart, IdleHandler
  <2>3. BusyOverlap' /\ NoneAlike'
    BY <2>2 DEF BusyOverlap, Busy, Ingesting, Ended, NoneAlike
  <2>4. Apart(db)' /\ Apart(disk)'
    BY <2>1 DEF Restart, LoseUncommitted, OInv, Apart, Overlapped, Duplicates
  <2> QED  BY <2>3, <2>4 DEF OInv
<1>11. CASE WindowPasses
  BY <1>1, <1>11, WindowRows DEF WindowPasses, runtimeVars, DiskFollows
<1>12. CASE UNCHANGED vars
  BY <1>1, <1>3, <1>12 DEF vars, runtimeVars
<1> QED
  BY <1>4, <1>5, <1>6, <1>7, <1>8, <1>9, <1>10, <1>11, <1>12 DEF Next

\* The first iteration opens a file without posts and alerts.
LEMMA NothingAtFirst ==
  ASSUME Init
  PROVE  /\ disk = db
         /\ db.messages = {} /\ db.events = {}
         /\ \A r \in db.watches : r.watch \in created
         /\ \A r, q \in db.watches : r.watch = q.watch => r = q
BY AssumptionsHold DEF Assumptions, PipelineAssumption, Init, CommandsInit

\* Two alerts of a watch for one text, in the suppression window, come from
\* posts whose handlers ran at the same time, however many there are.
THEOREM DuplicatesComeFromOverlap == Spec => []DuplicatesOverlap
<1>1. Init => OInv
  BY NothingAtFirst
  DEF Init, OInv, BusyOverlap, Busy, Ingesting, Ended, IngestInit, IdleHandler,
      NoneAlike, Apart
<1>2. IInv /\ OInv /\ [Next]_vars => OInv'
  BY AssumptionsHold, StepStaysApart
<1>3. OInv => DuplicatesOverlap
  BY DEF OInv, Apart, DuplicatesOverlap, Overlapped
<1> QED  BY <1>1, <1>2, <1>3, Invariance, PTL DEF Spec

-----------------------------------------------------------------------------
(* How often an owner is told *)

\* A watch is inserted once, and only a request's handler inserts it.
KnownIn(s) ==
  /\ \A r \in s.watches : r.watch \in created
  /\ \A r, q \in s.watches : r.watch = q.watch => r = q

WatchesKnown == KnownIn(db) /\ KnownIn(disk)

\* Nobody is told of a watch that was never inserted.
NothingAhead ==
  \A w \in Watches \ created :
    /\ \A m \in Messages : inbox[w][m] = 0
    /\ \A q \in ntf.queue : q.watch # w

\* A handler's snapshot has each watch once.
SnapshotKeys == \A m \in Messages : \A r, q \in ing[m].queue : r.id = q.id => r = q

\* m's handler may still insert an alert of the watch i.
Untried(i, m) ==
  \/ m \notin db.messages
  \/ ing[m].pc \in {"commit", "load"}
  \/ ing[m].pc \in {"consider", "create"} /\ \E r \in ing[m].queue : r.id = i
  \/ ing[m].pc = "close" /\ \E r \in ing[m].queue \ First(ing[m].queue) : r.id = i

\* Then there is no such alert yet, in the tables or in the notifier's hands,
\* and whoever has the id now was not told more often than crashes explain.
UntriedUntold ==
  \A i \in WatchIds, m \in Messages : Untried(i, m) =>
    /\ \A e \in db.events : e.watch_id # i \/ e.message # m
    /\ \A v \in db.watches : v.id = i =>
         /\ inbox[v.watch][m] <= crashes + lostAcks
         /\ \A q \in ntf.queue : q.watch # v.watch \/ q.message # m

\* The notifier's snapshot has each alert once, under the id it still has if
\* it still is in the tables.
OneRowEach ==
  \A p, q \in ntf.queue :
    (p.id = q.id \/ (p.watch = q.watch /\ p.message = q.message)) => p = q

SameAlert ==
  \A q \in ntf.queue : \A e \in EventsOf(db, q.watch, q.message) : e.id = q.id

AtHand(w, m) == \E q \in First(ntf.queue) : q.watch = w /\ q.message = m

\* One more telling than crashes and lost answers explain, and the notifier is
\* about to mark that alert or has done so.
TellingMarked ==
  \A w \in Watches, m \in Messages : inbox[w][m] > crashes + lostAcks =>
    /\ phase = "live"
    /\ \A q \in ntf.queue : (q.watch = w /\ q.message = m) =>
         ntf.pc \in {"mark", "close"} /\ q \in First(ntf.queue)
    /\ \A e \in EventsOf(db, w, m) : e.notified \/ (ntf.pc = "mark" /\ AtHand(w, m))

Bookkeeping == WatchesKnown /\ NothingAhead /\ SnapshotKeys

BInv == Bookkeeping /\ UntriedUntold /\ OneRowEach /\ SameAlert /\ TellingMarked
          /\ DeliveryBound

\* Handlers whose decisions are behind them do not get them back.
NothingUntriedAgain ==
  \A i \in WatchIds, m \in Messages : Untried(i, m)' => Untried(i, m)

\* The alerts of a watch after a step that brings no new row.
LEMMA AlertsWereThere ==
  ASSUME NoNewEvents, NoNewWatches,
         NEW w, NEW m, NEW e \in EventsOf(db, w, m)'
  PROVE  \E f \in EventsOf(db, w, m) :
           f.id = e.id /\ f.watch_id = e.watch_id /\ (f.notified => e.notified)
<1>1. e \in db'.events /\ e.message = m
  BY DEF EventsOf
<1>2. PICK r \in db'.watches : r.id = e.watch_id /\ r.watch = w
  BY DEF EventsOf
<1>3. PICK q \in db.watches : q.id = r.id /\ q.watch = r.watch
  BY DEF NoNewWatches
<1>4. PICK f \in db.events : /\ f.id = e.id
                             /\ f.watch_id = e.watch_id
                             /\ f.message = e.message
                             /\ f.notified => e.notified
  BY <1>1 DEF NoNewEvents
<1> QED  BY <1>1, <1>2, <1>3, <1>4 DEF EventsOf

\* Rows that are known stay known.
LEMMA KnownFollows ==
  ASSUME IInv, IInv', WatchesKnown, created \subseteq created', NoNewWatches,
         DiskFollows
  PROVE  WatchesKnown'
<1>1. KnownIn(db)'
  <2>1. \A r \in db'.watches : r.watch \in created'
    BY DEF WatchesKnown, KnownIn, NoNewWatches
  <2>2. ASSUME NEW r \in db'.watches, NEW q \in db'.watches, r.watch = q.watch
        PROVE  r = q
    <3>1. PICK a \in db.watches : a.id = r.id /\ a.watch = r.watch
      BY DEF NoNewWatches
    <3>2. PICK b \in db.watches : b.id = q.id /\ b.watch = q.watch
      BY DEF NoNewWatches
    <3>3. a = b
      BY <2>2, <3>1, <3>2 DEF WatchesKnown, KnownIn
    <3> QED  BY <3>1, <3>2, <3>3 DEF IInv, ViewsSound, Sound, Consistent
  <2> QED  BY <2>1, <2>2 DEF KnownIn
<1>2. KnownIn(disk)'
  <2>1. disk' = Expired(disk) => disk'.watches = disk.watches
    BY ExpiredRows DEF IInv, ViewsSound, Sound
  <2> QED  BY <2>1 DEF DiskFollows, WatchesKnown, KnownIn
<1> QED  BY <1>1, <1>2 DEF WatchesKnown

\* A step that brings no new row and leaves the notifier alone.
LEMMA QuietStepKeeps ==
  ASSUME IInv, IInv', BInv, NoNewEvents, NoNewWatches, DiskFollows,
         UNCHANGED <<created, notifierVars, crashes>>,
         phase = "live" => phase' = "live",
         NothingUntriedAgain, SnapshotKeys'
  PROVE  BInv'
<1> USE DEF notifierVars
<1>1. WatchesKnown'
  BY KnownFollows DEF BInv, Bookkeeping
<1>2. NothingAhead'
  BY DEF BInv, Bookkeeping, NothingAhead
<1>3. UntriedUntold'
  <2> SUFFICES ASSUME NEW i \in WatchIds, NEW m \in Messages, Untried(i, m)'
               PROVE  /\ \A e \in db'.events : e.watch_id # i \/ e.message # m
                      /\ \A v \in db'.watches : v.id = i =>
                           /\ inbox[v.watch][m] <= crashes + lostAcks
                           /\ \A q \in ntf.queue : q.watch # v.watch \/ q.message # m
    BY DEF UntriedUntold
  <2>1. Untried(i, m)
    BY DEF NothingUntriedAgain
  <2> QED  BY <2>1 DEF BInv, UntriedUntold, NoNewEvents, NoNewWatches
<1>4. OneRowEach'
  BY DEF BInv, OneRowEach
<1>5. SameAlert'
  BY AlertsWereThere DEF BInv, SameAlert
<1>6. TellingMarked'
  BY AlertsWereThere DEF BInv, TellingMarked, AtHand
<1>7. DeliveryBound'
  BY DEF BInv, DeliveryBound
<1> QED  BY <1>1, <1>2, <1>3, <1>4, <1>5, <1>6, <1>7 DEF BInv, Bookkeeping

\* A request inserts a watch.
LEMMA NewWatchKeeps ==
  ASSUME Assumptions, IInv, BInv, NEW w \in Watches \ created, InsertWatch(w),
         created' = created \cup {w}, disk' = disk,
         UNCHANGED <<ing, notifierVars, crashes, phase>>
  PROVE  BInv'
<1> USE DEF notifierVars
<1>1. PICK row \in WatchRow : /\ row.watch = w
                              /\ \A r \in db.watches : r.id # row.id
                              /\ db'.watches = db.watches \cup {row}
                              /\ db'.events = db.events
  BY InsertWatchRows DEF IInv, ViewsSound, Sound, Assumptions
<1>2. db'.messages = db.messages
  BY DEF InsertWatch, IInv, ViewsSound, Sound, Store
<1>3. WatchesKnown'
  BY <1>1 DEF BInv, Bookkeeping, WatchesKnown, KnownIn
<1>4. NothingAhead' /\ SnapshotKeys'
  BY DEF BInv, Bookkeeping, NothingAhead, SnapshotKeys
<1>5. \A a, m : EventsOf(db, a, m)' = EventsOf(db, a, m)
  <2>1. \A e \in db.events : row.id # e.watch_id
    BY <1>1, SameKeySameRow
  <2> QED  BY <1>1, <2>1 DEF EventsOf
<1>6. UntriedUntold'
  <2> SUFFICES ASSUME NEW i \in WatchIds, NEW m \in Messages, Untried(i, m)'
               PROVE  /\ \A e \in db'.events : e.watch_id # i \/ e.message # m
                      /\ \A v \in db'.watches : v.id = i =>
                           /\ inbox[v.watch][m] <= crashes + lostAcks
                           /\ \A q \in ntf.queue : q.watch # v.watch \/ q.message # m
    BY DEF UntriedUntold
  <2>1. Untried(i, m)
    BY <1>2 DEF Untried
  <2>2. /\ inbox[w][m] = 0
        /\ \A q \in ntf.queue : q.watch # w
    BY DEF BInv, Bookkeeping, NothingAhead
  <2>3. 0 <= crashes + lostAcks
    BY DEF IInv, RunOK, NtfOK, Assumptions, NotifierAssumption, PipelineAssumption
  <2> QED  BY <1>1, <2>1, <2>2, <2>3 DEF BInv, UntriedUntold
<1>7. OneRowEach' /\ DeliveryBound'
  BY DEF BInv, OneRowEach, DeliveryBound
<1>8. SameAlert' /\ TellingMarked'
  BY <1>5 DEF BInv, SameAlert, TellingMarked, AtHand
<1> QED  BY <1>3, <1>4, <1>6, <1>7, <1>8 DEF BInv, Bookkeeping

\* The handler of m inserts an alert.
LEMMA NewAlertKeeps ==
  ASSUME Assumptions, IInv, IInv', BInv, NEW m \in Messages, CreateEvent(m),
         ~UNCHANGED db,
         UNCHANGED <<created, notifierVars, crashes, phase>>
  PROVE  BInv'
<1> USE DEF notifierVars
<1>0. IngOK /\ db \in Store
  BY DEF IInv, ViewsSound, Sound
<1>1. PICK r \in First(ing[m].queue) : InsertEvent(r.id, m) /\ GoTo(m, "close")
  BY DEF CreateEvent
<1>2. /\ r \in ing[m].queue
      /\ r.id \in WatchIds
      /\ UNCHANGED disk
      /\ ing[m].pc = "create"
  BY <1>0 DEF First, IngOK, Handler, WatchRow, CreateEvent
<1>3. PICK row \in EventRow : /\ row.watch_id = r.id
                              /\ row.message = m
                              /\ db'.events = db.events \cup {row}
                              /\ db'.watches = db.watches
                              /\ db'.messages = db.messages
  BY <1>0, <1>1, <1>2, InsertEventRows DEF Assumptions
<1>4. /\ ing'[m].pc = "close"
      /\ ing'[m].queue = ing[m].queue
      /\ \A n \in Messages : n # m => ing'[n] = ing[n]
  BY <1>0, <1>1, GoToPlace, IngestPlaces DEF IngestStep
<1>5. Untried(r.id, m)
  BY <1>2 DEF Untried
<1>6. NothingUntriedAgain /\ ~Untried(r.id, m)'
  <2>1. m \in db.messages
    BY <1>2 DEF IInv, ViewsSound, StagesStored, AfterCommit
  <2>2. \A q \in ing[m].queue \ First(ing[m].queue) : q.id # r.id
    BY <1>0, <1>2 DEF First, IngOK, Handler, WatchRow, WatchIds
  <2> QED  BY <1>2, <1>3, <1>4, <2>1, <2>2 DEF Untried, NothingUntriedAgain
<1>7. WatchesKnown' /\ NothingAhead'
  BY <1>2, <1>3 DEF BInv, Bookkeeping, WatchesKnown, KnownIn, NothingAhead
<1>8. SnapshotKeys'
  BY <1>4 DEF BInv, Bookkeeping, SnapshotKeys
<1>9. UntriedUntold'
  <2> SUFFICES ASSUME NEW i \in WatchIds, NEW n \in Messages, Untried(i, n)'
               PROVE  /\ \A e \in db'.events : e.watch_id # i \/ e.message # n
                      /\ \A v \in db'.watches : v.id = i =>
                           /\ inbox[v.watch][n] <= crashes + lostAcks
                           /\ \A q \in ntf.queue : q.watch # v.watch \/ q.message # n
    BY DEF UntriedUntold
  <2>1. Untried(i, n) /\ (i # r.id \/ n # m)
    BY <1>6 DEF NothingUntriedAgain
  <2> QED  BY <1>3, <2>1 DEF BInv, UntriedUntold
<1>10. ASSUME NEW w, NEW n, NEW e \in EventsOf(db, w, n)'
       PROVE  \/ e \in EventsOf(db, w, n)
              \/ /\ n = m
                 /\ \E v \in db.watches : v.id = r.id /\ v.watch = w
  BY <1>3 DEF EventsOf
<1>11. OneRowEach' /\ DeliveryBound'
  BY DEF BInv, OneRowEach, DeliveryBound
<1>12. SameAlert'
  <2> SUFFICES ASSUME NEW q \in ntf.queue, NEW e \in EventsOf(db, q.watch, q.message)'
               PROVE  e.id = q.id
    BY DEF SameAlert
  <2>1. \A v \in db.watches : v.id = r.id => q.watch # v.watch \/ q.message # m
    BY <1>2, <1>5 DEF BInv, UntriedUntold
  <2> QED  BY <1>10, <2>1 DEF BInv, SameAlert
<1>13. TellingMarked'
  <2> SUFFICES ASSUME NEW w \in Watches, NEW n \in Messages,
                      inbox[w][n] > crashes + lostAcks
               PROVE  /\ phase = "live"
                      /\ \A q \in ntf.queue : (q.watch = w /\ q.message = n) =>
                           ntf.pc \in {"mark", "close"} /\ q \in First(ntf.queue)
                      /\ \A e \in EventsOf(db, w, n)' :
                           e.notified \/ (ntf.pc = "mark" /\ AtHand(w, n))
    BY DEF TellingMarked, AtHand
  <2>1. \A v \in db.watches : v.id = r.id => inbox[v.watch][m] <= crashes + lostAcks
    BY <1>2, <1>5 DEF BInv, UntriedUntold
  <2>2. \A a, b \in Nat : ~(a > b /\ a <= b)
    OBVIOUS
  <2>3. crashes + lostAcks \in Nat /\ inbox[w][n] \in Nat
    BY DEF IInv, RunOK, NtfOK, Assumptions, NotifierAssumption, PipelineAssumption
  <2>4. ~(n = m /\ \E v \in db.watches : v.id = r.id /\ v.watch = w)
    BY <2>1, <2>2, <2>3
  <2> QED  BY <1>10, <2>4 DEF BInv, TellingMarked
<1> QED  BY <1>7, <1>8, <1>9, <1>11, <1>12, <1>13 DEF BInv, Bookkeeping

\* A handler goes through its snapshot once.
LEMMA IngestTriesOnce ==
  ASSUME IInv, SnapshotKeys, NEW m \in Messages, IngestStep(m),
         ~(CreateEvent(m) /\ ~UNCHANGED db), db.messages \subseteq db'.messages
  PROVE  NothingUntriedAgain
<1>0. IngOK
  BY DEF IInv
<1>1. \A n \in Messages : n # m => ing'[n] = ing[n]
  BY <1>0, IngestPlaces
<1>2. ASSUME NEW i \in WatchIds, NEW n \in Messages, n # m, Untried(i, n)'
      PROVE  Untried(i, n)
  BY <1>1, <1>2 DEF Untried
<1>3. ASSUME NEW i \in WatchIds, Untried(i, m)'
      PROVE  Untried(i, m)
  <2>1. CASE StoreMessage(m)
    <3>1. CASE m \in db.messages /\ GoTo(m, "done")
      BY <1>0, <1>3, <3>1, GoToPlace DEF Untried
    <3>2. CASE m \notin db.messages
      BY <3>2 DEF Untried
    <3> QED  BY <2>1, <3>1, <3>2 DEF StoreMessage
  <2>2. CASE CommitMessage(m) \/ LoadWatches(m)
    BY <2>2 DEF CommitMessage, LoadWatches, Untried
  <2>3. CASE ConsiderWatch(m)
    <3>1. \/ GoTo(m, "failed")
          \/ GoTo(m, "create")
          \/ \E r : NextWatch(m, r)
      BY <2>3 DEF ConsiderWatch
    <3>2. ing[m].pc = "consider"
      BY <2>3 DEF ConsiderWatch
    <3>3. CASE GoTo(m, "failed")
      BY <1>0, <1>3, <3>3, GoToPlace DEF Untried
    <3>4. CASE GoTo(m, "create")
      BY <1>0, <1>3, <3>2, <3>4, GoToPlace DEF Untried
    <3>5. CASE \E r : NextWatch(m, r)
      BY <1>0, <1>3, <3>2, <3>5, NextWatchPlace DEF Untried
    <3> QED  BY <3>1, <3>3, <3>4, <3>5
  <2>4. CASE CreateEvent(m)
    <3>1. ing[m].pc = "create"
      BY <2>4 DEF CreateEvent
    <3>2. CASE \E r : NextWatch(m, r)
      BY <1>0, <1>3, <3>1, <3>2, NextWatchPlace DEF Untried
    <3>3. CASE \E r \in First(ing[m].queue) : InsertEvent(r.id, m) /\ GoTo(m, "close")
      <4>1. PICK r \in ing[m].queue : InsertEvent(r.id, m)
        BY <3>3 DEF First
      <4> QED  BY <1>0, <1>3, <3>1, <3>3, GoToPlace DEF Untried
    <3> QED  BY <2>4, <3>2, <3>3 DEF CreateEvent
  <2>5. CASE CommitEvent(m)
    <3>1. PICK r \in First(ing[m].queue) : NextWatch(m, r)
      BY <2>5 DEF CommitEvent
    <3>2. ing[m].pc = "close"
      BY <2>5 DEF CommitEvent
    <3>3. \A q \in First(ing[m].queue) : q = r
      BY <1>0, <3>1 DEF SnapshotKeys, First, IngOK, Handler, WatchRow, WatchIds
    <3> QED  BY <1>0, <1>3, <3>1, <3>2, <3>3, NextWatchPlace DEF Untried
  <2>6. CASE EndIngest(m)
    BY <1>0, <1>3, <2>6, GoToPlace DEF EndIngest, Untried
  <2> QED  BY <2>1, <2>2, <2>3, <2>4, <2>5, <2>6 DEF IngestStep
<1> QED  BY <1>2, <1>3 DEF NothingUntriedAgain

\* Every step of a post's handler.
LEMMA IngestBooks ==
  ASSUME Assumptions, IInv, IInv', BInv, NEW m \in Messages, Ingest(m)
  PROVE  BInv'
<1>1. IngestStep(m) /\ UNCHANGED <<created, notifierVars, crashes, phase>>
  BY DEF Ingest, commandVars, runtimeVars
<1>2. CASE CreateEvent(m) /\ ~UNCHANGED db
  BY <1>1, <1>2, NewAlertKeeps
<1>3. CASE ~(CreateEvent(m) /\ ~UNCHANGED db)
  <2>1. NoNewEvents /\ NoNewWatches /\ DiskFollows
    BY <1>1, <1>3, IngestRows, SameRows DEF DiskFollows
  <2>2. db.messages \subseteq db'.messages
    BY <1>1, <1>3 DEF IngestStep, StoreMessage, InsertMessage, CommitMessage, LoadWatches,
         ConsiderWatch, CreateEvent, CommitEvent, EndIngest, Commit, storeVars,
         IInv, ViewsSound, Sound, Store
  <2>3. NothingUntriedAgain
    BY <1>1, <1>3, <2>2, IngestTriesOnce DEF BInv, Bookkeeping
  <2>4. SnapshotKeys'
    <3>1. CASE LoadWatches(m)
      <4>1. ing'[m].queue = EnabledWatches
        BY <3>1 DEF LoadWatches, IInv, IngOK
      <4> QED  BY <1>1, <4>1, IngestPlaces, SameKeySameRow
               DEF EnabledWatches, SnapshotKeys, BInv, Bookkeeping, IInv
    <3>2. CASE ing'[m].queue \subseteq ing[m].queue
      BY <1>1, <3>2, IngestPlaces DEF SnapshotKeys, BInv, Bookkeeping, IInv
    <3> QED  BY <1>1, <3>1, <3>2, IngestPlaces DEF IInv
  <2> QED  BY <1>1, <2>1, <2>3, <2>4, QuietStepKeeps
<1> QED  BY <1>2, <1>3

\* A snapshot row of the notifier is a pending alert and its watch.
LEMMA PendingRowsAre ==
  ASSUME NEW q \in PendingRows
  PROVE  \E f \in db.events, u \in db.watches :
           /\ q.id = f.id
           /\ q.watch = u.watch
           /\ q.message = f.message
           /\ q = [id |-> f.id, watch |-> u.watch, message |-> f.message]
           /\ ~f.notified
           /\ f.watch_id = u.id
  BY DEF PendingRows

\* What list_pending returns.
LEMMA PollKeeps ==
  ASSUME Assumptions, IInv, BInv, Poll, UNCHANGED <<ing, commandVars, runtimeVars>>
  PROVE  BInv'
<1> USE DEF commandVars, runtimeVars, storeVars
<1>1. /\ ntf.pc = "poll"
      /\ ntf' = [pc |-> "send", queue |-> PendingRows]
      /\ UNCHANGED <<db, disk, inbox, lostAcks>>
  BY DEF Poll
<1>2. ntf'.queue = PendingRows /\ ntf'.pc = "send"
  BY <1>1
<1>3. \A r, q \in db.watches : r.watch = q.watch => r = q
  BY DEF BInv, Bookkeeping, WatchesKnown, KnownIn
<1>4. WatchesKnown' /\ SnapshotKeys'
  BY <1>1 DEF BInv, Bookkeeping, WatchesKnown, KnownIn, SnapshotKeys
<1>5. NothingAhead'
  <2>1. \A q \in PendingRows : q.watch \in created
    BY PendingRowsAre DEF BInv, Bookkeeping, WatchesKnown, KnownIn
  <2> QED  BY <1>1, <1>2, <2>1 DEF BInv, Bookkeeping, NothingAhead
<1>6. UntriedUntold'
  <2> SUFFICES ASSUME NEW i \in WatchIds, NEW m \in Messages, Untried(i, m)
               PROVE  /\ \A e \in db.events : e.watch_id # i \/ e.message # m
                      /\ \A v \in db.watches : v.id = i =>
                           /\ inbox[v.watch][m] <= crashes + lostAcks
                           /\ \A q \in PendingRows : q.watch # v.watch \/ q.message # m
    BY <1>1, <1>2 DEF UntriedUntold, Untried
  <2> QED  BY <1>3, PendingRowsAre DEF BInv, UntriedUntold
<1>7. OneRowEach'
  <2> SUFFICES ASSUME NEW p \in PendingRows, NEW q \in PendingRows,
                      p.id = q.id \/ (p.watch = q.watch /\ p.message = q.message)
               PROVE  p = q
    BY <1>2 DEF OneRowEach
  <2>1. PICK e \in db.events, v \in db.watches :
          /\ p = [id |-> e.id, watch |-> v.watch, message |-> e.message]
          /\ e.watch_id = v.id
    BY PendingRowsAre
  <2>2. PICK f \in db.events, u \in db.watches :
          /\ q = [id |-> f.id, watch |-> u.watch, message |-> f.message]
          /\ f.watch_id = u.id
    BY PendingRowsAre
  <2>3. e = f /\ v = u
    BY <1>3, <2>1, <2>2, SameKeySameRow
  <2> QED  BY <2>1, <2>2, <2>3
<1>8. SameAlert'
  <2> SUFFICES ASSUME NEW q \in PendingRows, NEW e \in EventsOf(db, q.watch, q.message)
               PROVE  e.id = q.id
    BY <1>1, <1>2 DEF SameAlert
  <2>1. PICK f \in db.events, u \in db.watches :
          /\ q.id = f.id
          /\ q.watch = u.watch
          /\ q.message = f.message
          /\ f.watch_id = u.id
    BY PendingRowsAre
  <2>2. e \in db.events /\ e.message = q.message
    BY DEF EventsOf
  <2>3. PICK r \in db.watches : r.id = e.watch_id /\ r.watch = q.watch
    BY DEF EventsOf
  <2>4. e = f
    BY <1>3, <2>1, <2>2, <2>3, SameKeySameRow
  <2> QED  BY <2>1, <2>4
<1>9. TellingMarked'
  <2> SUFFICES ASSUME NEW w \in Watches, NEW m \in Messages,
                      inbox[w][m] > crashes + lostAcks
               PROVE  /\ phase = "live"
                      /\ \A q \in PendingRows : ~(q.watch = w /\ q.message = m)
                      /\ \A e \in EventsOf(db, w, m) : e.notified
    BY <1>1, <1>2 DEF TellingMarked
  <2>1. phase = "live" /\ \A e \in EventsOf(db, w, m) : e.notified
    BY <1>1 DEF BInv, TellingMarked
  <2> QED  BY <2>1, PendingRowsAre DEF EventsOf
<1>10. DeliveryBound'
  BY <1>1 DEF BInv, DeliveryBound
<1> QED  BY <1>4, <1>5, <1>6, <1>7, <1>8, <1>9, <1>10 DEF BInv, Bookkeeping

\* One telling more, for the alert in hand.
LEMMA DeliverCounts ==
  ASSUME NtfOK, NEW e \in PendingRow, Deliver(e)
  PROVE  \A w \in Watches, m \in Messages :
           inbox'[w][m] = IF w = e.watch /\ m = e.message THEN inbox[w][m] + 1
                                                         ELSE inbox[w][m]
  BY DEF NtfOK, PendingRow, Deliver

\* Without a telling, a step that brings no row and leaves the notifier with
\* no more alerts than it had.
LEMMA NotifierStepKeeps ==
  ASSUME Assumptions, IInv, IInv', BInv, NoNewEvents, NoNewWatches, DiskFollows, PostsKept,
         UNCHANGED <<ing, commandVars, runtimeVars, inbox, lostAcks>>,
         ntf'.queue \subseteq ntf.queue, TellingMarked'
  PROVE  BInv'
<1> USE DEF commandVars, runtimeVars
<1>1. WatchesKnown'
  BY KnownFollows DEF BInv, Bookkeeping
<1>2. NothingAhead' /\ SnapshotKeys'
  BY DEF BInv, Bookkeeping, NothingAhead, SnapshotKeys
<1>3. UntriedUntold'
  <2> SUFFICES ASSUME NEW i \in WatchIds, NEW m \in Messages, Untried(i, m)'
               PROVE  /\ \A e \in db'.events : e.watch_id # i \/ e.message # m
                      /\ \A v \in db'.watches : v.id = i =>
                           /\ inbox[v.watch][m] <= crashes + lostAcks
                           /\ \A q \in ntf'.queue : q.watch # v.watch \/ q.message # m
    BY DEF UntriedUntold
  <2>1. Untried(i, m)
    BY DEF Untried, PostsKept
  <2> QED  BY <2>1 DEF BInv, UntriedUntold, NoNewEvents, NoNewWatches
<1>4. OneRowEach' /\ DeliveryBound'
  BY DEF BInv, OneRowEach, DeliveryBound
<1>5. SameAlert'
  BY AlertsWereThere DEF BInv, SameAlert
<1> QED  BY <1>1, <1>2, <1>3, <1>4, <1>5 DEF BInv, Bookkeeping

\* The alert is sent, and Telegram says so.
LEMMA SendOkKeeps ==
  ASSUME Assumptions, IInv, BInv, NEW e \in First(ntf.queue), SendOk(e),
         phase = "live", UNCHANGED <<ing, commandVars, runtimeVars>>
  PROVE  BInv'
<1> USE DEF commandVars, runtimeVars, storeVars
<1>0. /\ NtfOK
      /\ e \in ntf.queue
      /\ e \in PendingRow
      /\ e.watch \in Watches
      /\ e.message \in Messages
      /\ crashes + lostAcks \in Nat
      /\ \A w \in Watches, m \in Messages : inbox[w][m] \in Nat
  BY DEF IInv, NtfOK, RunOK, First, PendingRow, Assumptions, NotifierAssumption,
         PipelineAssumption
<1>1. /\ ntf.pc = "send"
      /\ ntf'.pc = "mark"
      /\ ntf'.queue = ntf.queue
      /\ UNCHANGED <<db, disk, lostAcks, refused>>
      /\ Deliver(e)
  BY <1>0 DEF SendOk, NtfOK
<1>2. \A w \in Watches, m \in Messages :
        inbox'[w][m] = IF w = e.watch /\ m = e.message THEN inbox[w][m] + 1
                                                      ELSE inbox[w][m]
  BY <1>0, <1>1, DeliverCounts
<1>3. inbox[e.watch][e.message] <= crashes + lostAcks
  BY <1>0, <1>1 DEF BInv, TellingMarked
<1>4. WatchesKnown' /\ SnapshotKeys' /\ OneRowEach' /\ SameAlert'
  BY <1>1 DEF BInv, Bookkeeping, WatchesKnown, KnownIn, SnapshotKeys, OneRowEach,
              SameAlert, EventsOf
<1>5. NothingAhead'
  BY <1>0, <1>1, <1>2 DEF BInv, Bookkeeping, NothingAhead
<1>6. UntriedUntold'
  <2> SUFFICES ASSUME NEW i \in WatchIds, NEW m \in Messages, Untried(i, m)
               PROVE  /\ \A f \in db.events : f.watch_id # i \/ f.message # m
                      /\ \A v \in db.watches : v.id = i =>
                           /\ inbox'[v.watch][m] <= crashes + lostAcks
                           /\ \A q \in ntf.queue : q.watch # v.watch \/ q.message # m
    BY <1>1 DEF UntriedUntold, Untried
  <2>1. \A v \in db.watches : v.id = i => e.watch # v.watch \/ e.message # m
    BY <1>0 DEF BInv, UntriedUntold
  <2>2. \A v \in db.watches : v.watch \in Watches
    BY DEF IInv, ViewsSound, Sound, Store, WatchRow
  <2> QED  BY <1>2, <2>1, <2>2 DEF BInv, UntriedUntold
<1>7. TellingMarked'
  <2> SUFFICES ASSUME NEW w \in Watches, NEW m \in Messages,
                      inbox'[w][m] > crashes + lostAcks
               PROVE  /\ \A q \in ntf.queue : (q.watch = w /\ q.message = m) =>
                           q \in First(ntf.queue)
                      /\ \A f \in EventsOf(db, w, m) : f.notified \/ AtHand(w, m)
    BY <1>1 DEF TellingMarked, AtHand, EventsOf
  <2>1. CASE w = e.watch /\ m = e.message
    BY <1>0, <2>1 DEF BInv, OneRowEach, AtHand
  <2>2. CASE ~(w = e.watch /\ m = e.message)
    BY <1>1, <1>2, <2>2 DEF BInv, TellingMarked
  <2> QED  BY <2>1, <2>2
<1>8. DeliveryBound'
  <2> SUFFICES ASSUME NEW w \in Watches, NEW m \in Messages
               PROVE  inbox'[w][m] <= 1 + crashes + lostAcks
    BY <1>1 DEF DeliveryBound
  <2>1. inbox[w][m] <= 1 + crashes + lostAcks /\ inbox[w][m] \in Nat
    BY <1>0 DEF BInv, DeliveryBound
  <2>2. crashes \in Nat /\ lostAcks \in Nat
    BY DEF IInv, NtfOK, RunOK, Assumptions, NotifierAssumption, PipelineAssumption
  <2>3. CASE w = e.watch /\ m = e.message
    BY <1>2, <1>3, <2>1, <2>2, <2>3
  <2>4. CASE ~(w = e.watch /\ m = e.message)
    BY <1>2, <2>1, <2>4
  <2> QED  BY <2>3, <2>4
<1> QED  BY <1>4, <1>5, <1>6, <1>7, <1>8 DEF BInv, Bookkeeping

\* The alert is sent, and the answer is lost: one more telling is explained.
LEMMA SendLostAckKeeps ==
  ASSUME Assumptions, IInv, BInv, NEW e \in First(ntf.queue), SendLostAck(e),
         phase = "live", UNCHANGED <<ing, commandVars, runtimeVars>>
  PROVE  BInv'
<1> USE DEF commandVars, runtimeVars, storeVars
<1>0. /\ NtfOK
      /\ e \in ntf.queue
      /\ e \in PendingRow
      /\ crashes \in Nat
      /\ lostAcks \in Nat
      /\ \A w \in Watches, m \in Messages : inbox[w][m] \in Nat
      /\ \A v \in db.watches : v.watch \in Watches
  BY DEF IInv, NtfOK, RunOK, First, PendingRow, Assumptions, NotifierAssumption,
         PipelineAssumption, ViewsSound, Sound, Store, WatchRow
<1>1. /\ ntf.pc = "send"
      /\ ntf'.queue = {}
      /\ UNCHANGED <<db, disk>>
      /\ lostAcks' = lostAcks + 1
      /\ Deliver(e)
  BY DEF SendLostAck, BackOff, IdleNotifier
<1>2. \A w \in Watches, m \in Messages :
        inbox'[w][m] = IF w = e.watch /\ m = e.message THEN inbox[w][m] + 1
                                                      ELSE inbox[w][m]
  BY <1>0, <1>1, DeliverCounts
<1>3. \A w \in Watches, m \in Messages :
        /\ inbox[w][m] <= crashes + lostAcks => inbox'[w][m] <= crashes + lostAcks'
        /\ inbox'[w][m] > crashes + lostAcks' => inbox[w][m] > crashes + lostAcks
        /\ inbox[w][m] <= 1 + crashes + lostAcks => inbox'[w][m] <= 1 + crashes + lostAcks'
  BY <1>0, <1>1, <1>2
<1>4. WatchesKnown' /\ SnapshotKeys' /\ OneRowEach' /\ SameAlert'
  BY <1>1 DEF BInv, Bookkeeping, WatchesKnown, KnownIn, SnapshotKeys, OneRowEach,
              SameAlert, EventsOf
<1>5. NothingAhead'
  BY <1>0, <1>1, <1>2 DEF BInv, Bookkeeping, NothingAhead, PendingRow
<1>6. UntriedUntold'
  BY <1>0, <1>1, <1>3 DEF BInv, UntriedUntold, Untried
<1>7. TellingMarked'
  <2> SUFFICES ASSUME NEW w \in Watches, NEW m \in Messages,
                      inbox'[w][m] > crashes + lostAcks'
               PROVE  \A f \in EventsOf(db, w, m) : f.notified
    BY <1>1 DEF TellingMarked, EventsOf
  <2> QED  BY <1>1, <1>3 DEF BInv, TellingMarked
<1>8. DeliveryBound'
  BY <1>3 DEF BInv, DeliveryBound
<1> QED  BY <1>4, <1>5, <1>6, <1>7, <1>8 DEF BInv, Bookkeeping

\* All that come first have one id.
LEMMA FirstHasOneId ==
  ASSUME NEW rows, \A r \in rows : r.id \in Nat, NEW p \in First(rows), NEW q \in First(rows)
  PROVE  p.id = q.id
<1>1. p.id <= q.id /\ q.id <= p.id /\ p.id \in Nat /\ q.id \in Nat
  BY DEF First
<1> QED  BY <1>1

\* The notifier's batch is ordered by numbers.
LEMMA QueueIdsAreNumbers ==
  ASSUME NtfOK
  PROVE  \A q \in ntf.queue : q.id \in Nat
  BY StorageAssumption DEF NtfOK, PendingRow, EventIds

\* Every step of the notifier.
LEMMA NotifyBooks ==
  ASSUME Assumptions, IInv, IInv', BInv, Notify
  PROVE  BInv'
<1>0. /\ phase = "live"
      /\ NotifierStep
      /\ UNCHANGED <<ing, commandVars, runtimeVars>>
      /\ NtfOK
  BY DEF Notify, IInv
<1>1. NoNewEvents /\ NoNewWatches /\ DiskFollows /\ PostsKept
  BY <1>0, NotifierRows, NotifierKeeps, SameRows DEF IInv, DiskFollows
<1>2. CASE Poll
  BY <1>0, <1>2, PollKeeps
<1>3. ASSUME NEW e \in First(ntf.queue), SendForbidden(e) \/ SendFails(e)
      PROVE  BInv'
  <2>1. /\ ntf.pc = "send"
        /\ ntf'.queue \subseteq ntf.queue
        /\ UNCHANGED <<db, inbox, lostAcks>>
    BY <1>0, <1>3 DEF SendForbidden, SendFails, BackOff, IdleNotifier, storeVars, NtfOK
  <2>2. TellingMarked'
    <3> SUFFICES ASSUME NEW w \in Watches, NEW m \in Messages,
                        inbox[w][m] > crashes + lostAcks
                 PROVE  /\ \A q \in ntf.queue : ~(q.watch = w /\ q.message = m)
                        /\ \A f \in EventsOf(db, w, m) : f.notified
      BY <1>0, <2>1 DEF TellingMarked, EventsOf, runtimeVars
    <3> QED  BY <2>1 DEF BInv, TellingMarked
  <2> QED  BY <1>0, <1>1, <2>1, <2>2, NotifierStepKeeps
<1>4. ASSUME NEW e \in First(ntf.queue), Mark(e)
      PROVE  BInv'
  <2>1. /\ ntf.pc = "mark"
        /\ ntf'.pc = "close"
        /\ ntf'.queue = ntf.queue
        /\ UNCHANGED <<inbox, lostAcks>>
        /\ MarkNotified(e.id)
    BY <1>0, <1>4 DEF Mark, NtfOK
  <2>2. \A q \in First(ntf.queue) : q.id = e.id
    BY <1>0, QueueIdsAreNumbers, FirstHasOneId
  <2>3. \A f \in db'.events : f.id = e.id => f.notified
    BY <2>1, MarkNotifiedRows DEF IInv, ViewsSound, Sound
  <2>4. TellingMarked'
    <3> SUFFICES ASSUME NEW w \in Watches, NEW m \in Messages,
                        inbox[w][m] > crashes + lostAcks
                 PROVE  /\ \A q \in ntf.queue : (q.watch = w /\ q.message = m) =>
                             q \in First(ntf.queue)
                        /\ \A f \in EventsOf(db, w, m)' : f.notified
      BY <1>0, <2>1 DEF TellingMarked, runtimeVars
    <3>1. /\ \A q \in ntf.queue : (q.watch = w /\ q.message = m) => q \in First(ntf.queue)
          /\ \A f \in EventsOf(db, w, m) : f.notified \/ AtHand(w, m)
      BY DEF BInv, TellingMarked
    <3>2. ASSUME NEW f \in EventsOf(db, w, m)', ~f.notified
          PROVE  FALSE
      <4>1. PICK g \in EventsOf(db, w, m) : g.id = f.id /\ (g.notified => f.notified)
        BY <1>1, AlertsWereThere
      <4>2. PICK q \in First(ntf.queue) : q.watch = w /\ q.message = m
        BY <3>1, <3>2, <4>1 DEF AtHand
      <4>3. g.id = q.id
        BY <4>1, <4>2 DEF First, BInv, SameAlert
      <4> QED  BY <2>2, <2>3, <3>2, <4>1, <4>2, <4>3 DEF EventsOf
    <3> QED  BY <3>1, <3>2
  <2> QED  BY <1>0, <1>1, <2>1, <2>4, NotifierStepKeeps
<1>5. ASSUME NEW e \in First(ntf.queue), CommitMark(e)
      PROVE  BInv'
  <2>1. /\ ntf.pc = "close"
        /\ ntf'.pc \in {"poll", "send"}
        /\ ntf'.queue = ntf.queue \ {e}
        /\ UNCHANGED <<db, inbox, lostAcks>>
    BY <1>0, <1>5 DEF CommitMark, Commit
  <2>2. \A q \in First(ntf.queue) : q = e
    BY <1>0 DEF First, NtfOK, PendingRow, EventIds, BInv, OneRowEach
  <2>3. TellingMarked'
    <3> SUFFICES ASSUME NEW w \in Watches, NEW m \in Messages,
                        inbox[w][m] > crashes + lostAcks
                 PROVE  /\ \A q \in ntf.queue \ {e} : ~(q.watch = w /\ q.message = m)
                        /\ \A f \in EventsOf(db, w, m) : f.notified
      BY <1>0, <2>1 DEF TellingMarked, EventsOf, runtimeVars
    <3> QED  BY <2>1, <2>2 DEF BInv, TellingMarked
  <2> QED  BY <1>0, <1>1, <2>1, <2>3, NotifierStepKeeps
<1> QED
  BY <1>0, <1>2, <1>3, <1>4, <1>5, SendOkKeeps, SendLostAckKeeps
  DEF NotifierStep, SendSettled

\* After a restart every telling so far is explained.
LEMMA RestartBooks ==
  ASSUME Assumptions, IInv, IInv', BInv, Crash \/ BackfillFails
  PROVE  BInv'
<1>0. /\ Restart
      /\ db' = disk
      /\ disk' = disk
      /\ UNCHANGED <<created, inbox, lostAcks>>
      /\ ntf'.queue = {}
      /\ \A m \in Messages : ing'[m] = IdleHandler
  BY DEF Crash, BackfillFails, Restart, LoseUncommitted, IdleNotifier
<1>1. /\ crashes \in Nat
      /\ lostAcks \in Nat
      /\ \A w \in Watches, m \in Messages : inbox[w][m] \in Nat
      /\ \A v \in disk.watches : v.watch \in Watches
  BY DEF IInv, NtfOK, RunOK, Assumptions, NotifierAssumption,
         PipelineAssumption, ViewsSound, Sound, Store, WatchRow
<1>2. /\ crashes' + lostAcks' \in Nat
      /\ \A w \in Watches, m \in Messages : inbox'[w][m] <= crashes' + lostAcks'
  <2>1. CASE Crash
    <3>1. crashes' = crashes + 1
      BY <2>1 DEF Crash
    <3>2. \A w \in Watches, m \in Messages : inbox[w][m] <= 1 + crashes + lostAcks
      BY DEF BInv, DeliveryBound
    <3> QED  BY <1>0, <1>1, <3>1, <3>2
  <2>2. CASE BackfillFails
    <3>1. crashes' = crashes /\ phase = "backfill"
      BY <2>2 DEF BackfillFails
    <3>2. \A w \in Watches, m \in Messages : ~(inbox[w][m] > crashes + lostAcks)
      BY <3>1 DEF BInv, TellingMarked
    <3> QED  BY <1>0, <1>1, <3>1, <3>2
  <2> QED  BY <2>1, <2>2
<1>3. WatchesKnown' /\ NothingAhead'
  BY <1>0 DEF BInv, Bookkeeping, WatchesKnown, KnownIn, NothingAhead
<1>4. SnapshotKeys' /\ OneRowEach' /\ SameAlert'
  BY <1>0 DEF SnapshotKeys, IdleHandler, OneRowEach, SameAlert
<1>5. UntriedUntold'
  <2> SUFFICES ASSUME NEW i \in WatchIds, NEW m \in Messages, Untried(i, m)'
               PROVE  \A e \in disk.events : e.message # m
    BY <1>0, <1>1, <1>2 DEF UntriedUntold
  <2>1. m \notin disk.messages
    BY <1>0 DEF Untried, IdleHandler
  <2> QED  BY <2>1 DEF IInv, ViewsSound, Sound
<1>6. TellingMarked'
  <2>1. \A w \in Watches, m \in Messages : inbox'[w][m] \in Nat
    BY <1>0, <1>1
  <2> QED  BY <1>2, <2>1 DEF TellingMarked
<1>7. DeliveryBound'
  <2>1. \A w \in Watches, m \in Messages : inbox'[w][m] \in Nat
    BY <1>0, <1>1
  <2>2. crashes' \in Nat /\ lostAcks' \in Nat
    BY <1>0, <1>1 DEF IInv, RunOK, Assumptions, PipelineAssumption
  <2> QED  BY <1>2, <2>1, <2>2 DEF DeliveryBound
<1> QED  BY <1>3, <1>4, <1>5, <1>6, <1>7 DEF BInv, Bookkeeping

\* Every step.
LEMMA StepBooks ==
  ASSUME Assumptions, IInv, IInv', BInv, [Next]_vars
  PROVE  BInv'
<1>0. IngOK /\ SnapshotKeys
  BY DEF IInv, BInv, Bookkeeping
<1>1. UNCHANGED storeVars => NoNewEvents /\ NoNewWatches /\ DiskFollows
  BY SameRows DEF storeVars, DiskFollows
<1>2. ASSUME UNCHANGED ing, db.messages \subseteq db'.messages
      PROVE  NothingUntriedAgain /\ SnapshotKeys'
  BY <1>0, <1>2 DEF NothingUntriedAgain, Untried, SnapshotKeys
<1>3. ASSUME NEW m \in Messages, TakeUp(m), UNCHANGED db
      PROVE  NothingUntriedAgain /\ SnapshotKeys'
  <2>1. /\ ing'[m] = [pc |-> "insert", queue |-> {}]
        /\ \A n \in Messages : n # m => ing'[n] = ing[n]
    BY <1>0, <1>3 DEF TakeUp, BeginIngest, IngOK
  <2>2. ing'[m].pc = "insert" /\ ing'[m].queue = {}
    BY <2>1
  <2>3. NothingUntriedAgain
    BY <1>3, <2>1, <2>2 DEF NothingUntriedAgain, Untried
  <2>4. SnapshotKeys'
    BY <1>0, <2>1, <2>2 DEF SnapshotKeys
  <2> QED  BY <2>3, <2>4
<1>4. ASSUME NEW m \in Messages, Post(m) \/ BackfillNext(m)
      PROVE  BInv'
  <2>1. /\ UNCHANGED <<storeVars, created, notifierVars, crashes>>
        /\ phase' = phase
        /\ TakeUp(m) \/ UNCHANGED ing
    BY <1>4 DEF Post, BackfillNext, commandVars
  <2> QED  BY <1>1, <1>2, <1>3, <2>1, QuietStepKeeps DEF storeVars
<1>5. ASSUME NEW m \in Messages, Ingest(m)
      PROVE  BInv'
  BY <1>5, IngestBooks
<1>6. ASSUME NEW r \in Requests, Arrive(r)
      PROVE  BInv'
  BY <1>1, <1>2, <1>6, QuietStepKeeps
  DEF Arrive, BeginCommand, runtimeVars, storeVars
<1>7. ASSUME NEW r \in Requests, Handle(r)
      PROVE  BInv'
  <2>1. CommandStep(r) /\ UNCHANGED <<ing, notifierVars, crashes, phase>>
    BY <1>7 DEF Handle, runtimeVars
  <2>2. NoNewEvents /\ DiskFollows /\ db.messages \subseteq db'.messages
    BY <2>1, CommandRows, CommandKeeps DEF DiskFollows, IInv, PostsKept
  <2>3. CASE created' = created /\ NoNewWatches
    BY <1>2, <2>1, <2>2, <2>3, QuietStepKeeps
  <2>4. CASE \E w \in Watches \ created :
               created' = created \cup {w} /\ InsertWatch(w) /\ disk' = disk
    BY <2>1, <2>4, NewWatchKeeps
  <2> QED  BY <2>1, <2>3, <2>4, CommandRows
<1>8. CASE Notify
  BY <1>8, NotifyBooks
<1>9. CASE GoLive
  BY <1>1, <1>2, <1>9, QuietStepKeeps DEF GoLive, storeVars, commandVars
<1>10. CASE Crash \/ BackfillFails
  BY <1>10, RestartBooks
<1>11. CASE WindowPasses
  <2>1. NoNewEvents /\ NoNewWatches /\ DiskFollows
    BY <1>11, WindowRows, SameRows DEF DiskFollows
  <2>2. db'.messages = db.messages
    BY <1>11, ExpiredRows DEF WindowPasses, IInv, ViewsSound, Sound
  <2> QED  BY <1>2, <1>11, <2>1, <2>2, QuietStepKeeps
           DEF WindowPasses, commandVars, runtimeVars
<1>12. CASE UNCHANGED vars
  BY <1>1, <1>2, <1>12, QuietStepKeeps DEF vars, runtimeVars, commandVars, storeVars
<1> QED
  BY <1>4, <1>5, <1>6, <1>7, <1>8, <1>9, <1>10, <1>11, <1>12 DEF Next

\* The books balance at first.
LEMMA InitBooks ==
  ASSUME Assumptions, IInv, Init
  PROVE  BInv
<1>1. Bookkeeping /\ OneRowEach /\ SameAlert
  BY NothingAtFirst
  DEF Init, Bookkeeping, WatchesKnown, KnownIn, NothingAhead, SnapshotKeys, OneRowEach,
      SameAlert, NotifierInit, IdleNotifier, IngestInit, IdleHandler
<1>2. \A w \in Watches, m \in Messages : inbox[w][m] = 0
  BY DEF Init, NotifierInit
<1>3. crashes = 0 /\ lostAcks = 0 /\ db.events = {} /\ ntf.queue = {}
  BY NothingAtFirst DEF Init, NotifierInit, IdleNotifier
<1>4. \A v \in db.watches : v.watch \in Watches
  BY DEF IInv, ViewsSound, Sound, Store, WatchRow
<1>5. UntriedUntold /\ TellingMarked /\ DeliveryBound
  BY <1>2, <1>3, <1>4 DEF UntriedUntold, TellingMarked, DeliveryBound
<1> QED  BY <1>1, <1>5 DEF BInv

\* The books are kept in every reachable state.
THEOREM BooksKept == Spec => []BInv
<1>1. Init => BInv
  BY AssumptionsHold, InitIInv, InitBooks
<1>2. IInv /\ IInv' /\ BInv /\ [Next]_vars => BInv'
  BY AssumptionsHold, StepBooks
<1> QED  BY <1>1, <1>2, Invariance, PTL DEF Spec

\* Nobody is told of a post more than once per watch, and once more for each
\* death of the process and each answer that was lost: removals, reused ids,
\* failed startups and foreign COMMITs add nothing.
THEOREM DeliveriesAreBounded == Spec => []DeliveryBound
<1>1. BInv => DeliveryBound
  BY DEF BInv
<1> QED  BY <1>1, BooksKept, PTL

-----------------------------------------------------------------------------
(* What users ask for *)

Asked(op, v) ==
  \E r \in Requests : cmd[r].op = op /\ cmd[r].id = v.id /\ cmd[r].user = Owner[v.watch]

\* A request is at a step of the command it is.
StepsFitCommand ==
  \A r \in Requests :
    /\ cmd[r].pc = "idle" => cmd[r].op = "add"
    /\ cmd[r].pc \in {"delete_events", "delete_watch"} => cmd[r].op = "remove"
    /\ cmd[r].pc \in {"check", "update"} => cmd[r].op \in {"pause", "resume"}

\* A request that asks for a change of a watch stays as it is.
RequestsKept ==
  \A r \in Requests : cmd[r].op # "add" =>
    /\ cmd'[r].op = cmd[r].op
    /\ cmd'[r].id = cmd[r].id
    /\ cmd'[r].user = cmd[r].user

\* What has been asked for stays so.
LEMMA RequestsStay ==
  ASSUME Assumptions, IInv, StepsFitCommand, [Next]_vars
  PROVE  /\ StepsFitCommand'
         /\ RequestsKept
         /\ \A op \in {"remove", "pause", "resume"} : \A v : Asked(op, v) => Asked(op, v)'
<1> SUFFICES StepsFitCommand' /\ RequestsKept
  BY DEF RequestsKept, Asked
<1>0. CmdOK
  BY DEF IInv
<1>1. ASSUME \A r \in Requests : cmd[r].pc # "idle" =>
                /\ cmd'[r].op = cmd[r].op
                /\ cmd'[r].id = cmd[r].id
                /\ cmd'[r].user = cmd[r].user
      PROVE  RequestsKept
  BY <1>1 DEF RequestsKept, StepsFitCommand
<1>2. CASE UNCHANGED cmd
  BY <1>1, <1>2 DEF StepsFitCommand
<1>3. ASSUME NEW r \in Requests, Arrive(r)
      PROVE  /\ StepsFitCommand'
             /\ RequestsKept
  <2>1. cmd[r].pc = "idle" /\ cmd'[r].pc = "user"
    BY <1>0, <1>3 DEF Arrive, BeginCommand, CmdOK
  <2>2. \A q \in Requests : q # r => cmd'[q] = cmd[q]
    BY <1>0, <1>3 DEF Arrive, BeginCommand, CmdOK
  <2> QED  BY <1>1, <2>1, <2>2 DEF StepsFitCommand
<1>4. ASSUME NEW r \in Requests, Handle(r)
      PROVE  /\ StepsFitCommand'
             /\ RequestsKept
  <2>1. PICK pc \in CommandPc : /\ cmd' = [cmd EXCEPT ![r].pc = pc]
                                /\ pc # "idle"
                                /\ pc \in {"delete_events", "delete_watch"} => cmd[r].op = "remove"
                                /\ pc \in {"check", "update"} => cmd[r].op \in {"pause", "resume"}
    <3>1. CASE EnsureUser(r)
      <4>1. cmd[r].op \in {"add", "remove", "pause", "resume"}
        BY <1>0 DEF CmdOK, Command
      <4>2. CASE cmd[r].op = "add"
        BY <3>1, <4>2 DEF EnsureUser, Continue, CommandPc
      <4>3. CASE cmd[r].op = "remove"
        BY <3>1, <4>3 DEF EnsureUser, Continue, CommandPc
      <4>4. CASE cmd[r].op \in {"pause", "resume"}
        BY <3>1, <4>4 DEF EnsureUser, Continue, CommandPc
      <4> QED  BY <4>1, <4>2, <4>3, <4>4
    <3>2. CASE AddWatch(r)
      BY <3>2 DEF AddWatch, CommandPc
    <3>3. CASE RemoveEvents(r)
      BY <3>3 DEF RemoveEvents, Continue, CommandPc, StepsFitCommand
    <3>4. CASE RemoveWatch(r) \/ CommitCommand(r)
      BY <3>4 DEF RemoveWatch, CommitCommand, Continue, CommandPc
    <3>5. CASE FindWatch(r)
      BY <3>5 DEF FindWatch, Continue, CommandPc, StepsFitCommand
    <3>6. CASE UpdateEnabled(r)
      BY <3>6 DEF UpdateEnabled, Continue, CommandPc
    <3> QED  BY <1>4, <3>1, <3>2, <3>3, <3>4, <3>5, <3>6 DEF Handle, CommandStep
  <2>2. /\ cmd'[r].pc = pc
        /\ \A q \in Requests : q # r => cmd'[q].pc = cmd[q].pc
        /\ \A q \in Requests : /\ cmd'[q].op = cmd[q].op
                               /\ cmd'[q].id = cmd[q].id
                               /\ cmd'[q].user = cmd[q].user
    BY <1>0, <2>1 DEF CmdOK, Command
  <2> QED  BY <1>1, <2>1, <2>2 DEF StepsFitCommand
<1>5. CASE Crash \/ BackfillFails
  <2>1. cmd' = [r \in Requests |->
                  IF Handling(r) THEN [cmd[r] EXCEPT !.pc = "done"] ELSE cmd[r]]
    BY <1>5 DEF Crash, BackfillFails, Restart
  <2>2. \A r \in Requests : /\ cmd'[r].pc \in {cmd[r].pc, "done"}
                            /\ cmd[r].pc # "idle" => cmd'[r].pc = "done"
                            /\ cmd'[r].op = cmd[r].op
                            /\ cmd'[r].id = cmd[r].id
                            /\ cmd'[r].user = cmd[r].user
    BY <1>0, <2>1 DEF CmdOK, Command, Handling
  <2> QED  BY <1>1, <2>2 DEF StepsFitCommand
<1>6. \/ UNCHANGED cmd
      \/ \E r \in Requests : Arrive(r) \/ Handle(r)
      \/ Crash
      \/ BackfillFails
  BY DEF Next, vars, Post, BackfillNext, Ingest, Notify, GoLive, WindowPasses, commandVars
<1> QED  BY <1>2, <1>3, <1>4, <1>5, <1>6

-----------------------------------------------------------------------------
(* Which alerts are dropped *)

SameKey(e, f) == f.watch_id = e.watch_id /\ f.message = e.message

\* A durable alert that the connection does not see any more, or whose watch
\* it does not see, is one its owner has asked to be removed.
DropsAsked ==
  \A e \in disk.events, v \in disk.watches : v.id = e.watch_id =>
    \/ Asked("remove", v)
    \/ /\ \E f \in db.events : SameKey(e, f)
       /\ \E u \in db.watches : u.id = v.id /\ u.watch = v.watch

\* Every step keeps that, and what it takes off the disk was asked for.
LEMMA StepDropsAsked ==
  ASSUME Assumptions, IInv, StepsFitCommand, DropsAsked, [Next]_vars
  PROVE  /\ DropsAsked'
         /\ \A e \in disk.events, v \in disk.watches :
              (v.id = e.watch_id /\ \A f \in disk'.events : ~SameKey(e, f))
                => Asked("remove", v)
<1> DEFINE Conclusion ==
      /\ DropsAsked'
      /\ \A e \in disk.events, v \in disk.watches :
           (v.id = e.watch_id /\ \A f \in disk'.events : ~SameKey(e, f))
             => Asked("remove", v)
<1>0. \A v : Asked("remove", v) => Asked("remove", v)'
  BY RequestsStay
<1>1. ASSUME UNCHANGED disk, NoEventsLost, NoWatchesLost
      PROVE  Conclusion
  BY <1>0, <1>1 DEF DropsAsked, NoEventsLost, NoWatchesLost, SameKey
<1>2. ASSUME disk' = db, UNCHANGED db
      PROVE  Conclusion
  BY <1>2 DEF DropsAsked, SameKey
<1>3. ASSUME NEW m \in Messages, Post(m) \/ BackfillNext(m)
      PROVE  Conclusion
  BY <1>1, <1>3, SameRows DEF Post, BackfillNext, storeVars
<1>4. ASSUME NEW m \in Messages, Ingest(m)
      PROVE  Conclusion
  BY <1>1, <1>2, <1>4, IngestRows, SameRows DEF Ingest
<1>5. ASSUME NEW r \in Requests, Arrive(r)
      PROVE  Conclusion
  BY <1>1, <1>5, SameRows DEF Arrive, BeginCommand, storeVars
<1>6. ASSUME NEW r \in Requests, Handle(r)
      PROVE  Conclusion
  <2>0. CommandStep(r) /\ db \in Store
    BY <1>6 DEF Handle, IInv, ViewsSound, Sound
  <2>1. CASE EnsureUser(r) \/ CommitCommand(r)
    BY <1>2, <2>1 DEF EnsureUser, CommitCommand, Commit
  <2>2. CASE AddWatch(r)
    BY <1>1, <2>0, <2>2, InsertWatchRows, SameRows DEF AddWatch, Assumptions
  <2>3. CASE FindWatch(r)
    BY <1>1, <2>3, SameRows DEF FindWatch, storeVars
  <2>4. CASE UpdateEnabled(r)
    BY <1>1, <2>0, <2>4, SetEnabledRows, SameRows DEF UpdateEnabled
  <2>5. ASSUME cmd[r].op = "remove", NEW u \in WatchRowsOf(cmd[r].id, cmd[r].user),
               NEW v, v.id = u.id, v.watch = u.watch
        PROVE  Asked("remove", v)
    BY <2>5 DEF Asked, WatchRowsOf
  <2>6. CASE RemoveEvents(r)
    <3>1. /\ cmd[r].op = "remove"
          /\ DeleteEvents(cmd[r].id, cmd[r].user)
          /\ UNCHANGED disk
      BY <2>6 DEF RemoveEvents, StepsFitCommand
    <3>2. /\ db'.watches = db.watches
          /\ WatchRowsOf(cmd[r].id, cmd[r].user) = {} => db'.events = db.events
          /\ \A e \in db.events : e.watch_id # cmd[r].id => e \in db'.events
      BY <2>0, <3>1, DeleteEventsRows
    <3>3. ASSUME NEW e \in disk.events, NEW v \in disk.watches, v.id = e.watch_id,
                 ~Asked("remove", v)
          PROVE  /\ \E f \in db'.events : SameKey(e, f)
                 /\ \E u \in db'.watches : u.id = v.id /\ u.watch = v.watch
      <4>1. PICK f \in db.events : SameKey(e, f)
        BY <3>3 DEF DropsAsked
      <4>2. PICK u \in db.watches : u.id = v.id /\ u.watch = v.watch
        BY <3>3 DEF DropsAsked
      <4>3. f \in db'.events
        <5>1. SUFFICES ASSUME f.watch_id = cmd[r].id,
                              NEW x \in WatchRowsOf(cmd[r].id, cmd[r].user)
                       PROVE  FALSE
          BY <3>2
        <5>2. x = u
          BY <3>3, <4>1, <4>2, <5>1, SameKeySameRow DEF WatchRowsOf, SameKey
        <5> QED  BY <2>5, <3>1, <3>3, <4>2, <5>2
      <4> QED  BY <3>2, <4>1, <4>2, <4>3
    <3> QED  BY <1>0, <3>1, <3>3 DEF DropsAsked, SameKey
  <2>7. CASE RemoveWatch(r)
    <3>1. CASE UNCHANGED db
      BY <1>1, <2>7, <3>1, SameRows DEF RemoveWatch
    <3>2. CASE DeleteWatch(cmd[r].id, cmd[r].user)
      <4>1. cmd[r].op = "remove" /\ UNCHANGED disk
        BY <2>7 DEF RemoveWatch, StepsFitCommand
      <4>2. /\ db'.events = db.events
            /\ db'.watches = db.watches \ WatchRowsOf(cmd[r].id, cmd[r].user)
        BY <2>0, <3>2, DeleteWatchRows
      <4>3. ASSUME NEW e \in disk.events, NEW v \in disk.watches, v.id = e.watch_id,
                   ~Asked("remove", v)
            PROVE  /\ \E f \in db'.events : SameKey(e, f)
                   /\ \E u \in db'.watches : u.id = v.id /\ u.watch = v.watch
        <5>1. PICK u \in db.watches : u.id = v.id /\ u.watch = v.watch
          BY <4>3 DEF DropsAsked
        <5>2. u \notin WatchRowsOf(cmd[r].id, cmd[r].user)
          BY <2>5, <4>1, <4>3, <5>1
        <5> QED  BY <4>2, <4>3, <5>1, <5>2 DEF DropsAsked
      <4> QED  BY <1>0, <4>1, <4>3 DEF DropsAsked, SameKey
    <3> QED  BY <2>7, <3>1, <3>2 DEF RemoveWatch
  <2> QED  BY <2>0, <2>1, <2>2, <2>3, <2>4, <2>6, <2>7 DEF CommandStep
<1>7. CASE Notify
  BY <1>1, <1>2, <1>7, NotifierRows, SameRows DEF Notify
<1>8. CASE GoLive \/ UNCHANGED vars
  BY <1>1, <1>8, SameRows DEF GoLive, vars, storeVars
<1>9. CASE Crash \/ BackfillFails
  <2>1. db' = disk /\ UNCHANGED disk
    BY <1>9 DEF Crash, BackfillFails, Restart, LoseUncommitted
  <2> QED  BY <2>1 DEF DropsAsked, SameKey
<1>10. CASE WindowPasses
  <2>1. /\ \A e \in disk.events : \E f \in disk'.events : SameKey(e, f)
        /\ \A e \in disk'.events : \E f \in disk.events : SameKey(e, f)
        /\ disk'.watches = disk.watches
    BY <1>10, ExpiredRows DEF WindowPasses, IInv, ViewsSound, Sound, SameKey
  <2>2. NoEventsLost /\ db'.watches = db.watches
    BY <1>10, WindowRows
  <2>3. ASSUME NEW e \in disk'.events, NEW v \in disk'.watches, v.id = e.watch_id,
               ~Asked("remove", v)
        PROVE  /\ \E f \in db'.events : SameKey(e, f)
               /\ \E u \in db'.watches : u.id = v.id /\ u.watch = v.watch
    <3>1. PICK d \in disk.events : SameKey(e, d)
      BY <2>1
    <3>2. /\ \E f \in db.events : SameKey(d, f)
          /\ \E u \in db.watches : u.id = v.id /\ u.watch = v.watch
      BY <2>1, <2>3, <3>1 DEF DropsAsked, SameKey
    <3> QED  BY <2>2, <3>1, <3>2 DEF NoEventsLost, SameKey
  <2> QED  BY <1>0, <2>1, <2>3 DEF DropsAsked, SameKey
<1> QED
  BY <1>3, <1>4, <1>5, <1>6, <1>7, <1>8, <1>9, <1>10 DEF Next

\* Nobody but its owner makes a durable alert disappear: the DELETE of a
\* removal asks for the owner, and whatever COMMIT flushes it, and whichever
\* watch has had the id since, the owner of the alert's watch has asked.
THEOREM DropsWereAskedFor == Spec => OnlyOwnersDropAlerts
<1>1. Init => StepsFitCommand /\ DropsAsked
  BY NothingAtFirst DEF Init, CommandsInit, StepsFitCommand, DropsAsked
<1>2. IInv /\ StepsFitCommand /\ DropsAsked /\ [Next]_vars
        => StepsFitCommand' /\ DropsAsked'
  BY AssumptionsHold, RequestsStay, StepDropsAsked
<1> DEFINE Step == \A e \in disk.events, v \in disk.watches :
       (/\ v.id = e.watch_id
        /\ \A f \in disk'.events :
             f.watch_id # e.watch_id \/ f.message # e.message)
       => \E r \in Requests : /\ cmd[r].op = "remove"
                              /\ cmd[r].id = v.id
                              /\ cmd[r].user = Owner[v.watch]
<1>3. IInv /\ StepsFitCommand /\ DropsAsked /\ [Next]_vars => Step
  BY AssumptionsHold, StepDropsAsked DEF SameKey, Asked
<1>4. OnlyOwnersDropAlerts <=> [][Step]_vars
  BY DEF OnlyOwnersDropAlerts
<1> HIDE DEF Step
<1> QED  BY <1>1, <1>2, <1>3, <1>4, Invariance, PTL DEF Spec

-----------------------------------------------------------------------------
(* Which watches are switched *)

SwitchOf(w) == IF w.enabled THEN "resume" ELSE "pause"

DropAsked(i, u) ==
  \E q \in Requests : cmd[q].op = "remove" /\ cmd[q].id = i /\ cmd[q].user = u

\* The owner has asked for it, or somebody who has asked for the removal of a
\* watch of that id too.
SwitchAsked(op, v) ==
  \E r \in Requests :
    /\ cmd[r].op = op
    /\ cmd[r].id = v.id
    /\ cmd[r].user = Owner[v.watch] \/ DropAsked(v.id, cmd[r].user)

\* A watch that the file and the connection both have is one row.
SameIds == \A v \in disk.watches, w \in db.watches : v.watch = w.watch => v.id = w.id

\* The row a command has looked up is its user's still, or that user has asked
\* for its removal meanwhile.
UpdateChecked ==
  \A r \in Requests : cmd[r].pc = "update" =>
    \/ WatchRowsOf(cmd[r].id, cmd[r].user) # {}
    \/ DropAsked(cmd[r].id, cmd[r].user)

\* Whatever the connection sees switched that the file has the other way was
\* asked for.
SwitchesAsked ==
  \A v \in disk.watches, w \in db.watches :
    (v.watch = w.watch /\ v.enabled # w.enabled) => SwitchAsked(SwitchOf(w), v)

\* Both kinds of requests stay.
LEMMA SwitchRequestsStay ==
  ASSUME RequestsKept
  PROVE  /\ \A i, u : DropAsked(i, u) => DropAsked(i, u)'
         /\ \A v, w : SwitchAsked(SwitchOf(w), v) => SwitchAsked(SwitchOf(w), v)'
<1>1. \A i, u : DropAsked(i, u) => DropAsked(i, u)'
  BY DEF RequestsKept, DropAsked
<1>2. ASSUME NEW v, NEW op \in {"pause", "resume"}, SwitchAsked(op, v)
      PROVE  SwitchAsked(op, v)'
  BY <1>1, <1>2 DEF RequestsKept, SwitchAsked
<1> QED  BY <1>1, <1>2 DEF SwitchOf

\* The rows that a step other than a restart takes away are a request's.
LEMMA StepDropsWatches ==
  ASSUME Assumptions, IInv, StepsFitCommand, [Next]_vars
  PROVE  \/ Restart
         \/ \A v \in db.watches :
              \/ \E w \in db'.watches : w.id = v.id /\ w.watch = v.watch
              \/ DropAsked(v.id, Owner[v.watch])
<1>0. db \in Store
  BY DEF IInv, ViewsSound, Sound
<1>1. ASSUME NEW r \in Requests, Handle(r)
      PROVE  NoWatchesLost \/ \A v \in db.watches \ db'.watches : DropAsked(v.id, Owner[v.watch])
  <2>1. CASE EnsureUser(r) \/ CommitCommand(r) \/ FindWatch(r)
    BY <2>1, SameRows DEF EnsureUser, CommitCommand, Commit, FindWatch, storeVars
  <2>2. CASE AddWatch(r)
    BY <1>0, <2>2, InsertWatchRows DEF AddWatch, Assumptions
  <2>3. CASE RemoveEvents(r)
    BY <1>0, <2>3, SameRows, DeleteEventsRows DEF RemoveEvents
  <2>4. CASE RemoveWatch(r)
    <3>1. cmd[r].op = "remove"
      BY <2>4 DEF RemoveWatch, StepsFitCommand
    <3>2. CASE UNCHANGED db
      BY <3>2, SameRows
    <3>3. CASE DeleteWatch(cmd[r].id, cmd[r].user)
      <4>1. db'.watches = db.watches \ WatchRowsOf(cmd[r].id, cmd[r].user)
        BY <1>0, <3>3, DeleteWatchRows
      <4> QED  BY <3>1, <4>1 DEF WatchRowsOf, DropAsked
    <3> QED  BY <2>4, <3>2, <3>3 DEF RemoveWatch
  <2>5. CASE UpdateEnabled(r)
    BY <1>0, <2>5, SetEnabledRows DEF UpdateEnabled
  <2> QED  BY <1>1, <2>1, <2>2, <2>3, <2>4, <2>5 DEF Handle, CommandStep
<1>2. \/ db'.watches = db.watches
      \/ \E r \in Requests : Handle(r)
      \/ Restart
  <2>1. \A m \in Messages : Ingest(m) => db'.watches = db.watches
    BY IngestRows DEF Ingest
  <2>2. Notify \/ WindowPasses => db'.watches = db.watches
    BY NotifierRows, WindowRows DEF Notify
  <2> QED  BY <2>1, <2>2
           DEF Next, vars, Post, BackfillNext, Arrive, BeginCommand, GoLive, Crash,
               BackfillFails, storeVars
<1> QED  BY <1>1, <1>2, SameRows DEF NoWatchesLost

\* A command comes to its UPDATE by looking the row up.
LEMMA UpdateComesFromCheck ==
  ASSUME Assumptions, IInv, [Next]_vars, NEW r \in Requests, cmd'[r].pc = "update"
  PROVE  /\ ~Restart
         /\ cmd'[r].id = cmd[r].id
         /\ cmd'[r].user = cmd[r].user
         /\ \/ cmd[r].pc = "update"
            \/ WatchRowsOf(cmd[r].id, cmd[r].user) # {}
<1>0. CmdOK
  BY DEF IInv
<1>1. ~Restart
  BY <1>0 DEF Restart, CmdOK, Command, Handling
<1>2. ASSUME NEW q \in Requests, Arrive(q)
      PROVE  cmd'[r] = cmd[r]
  BY <1>0, <1>2 DEF Arrive, BeginCommand, CmdOK
<1>3. ASSUME NEW q \in Requests, Handle(q), q # r
      PROVE  cmd'[r] = cmd[r]
  <2>1. PICK pc \in CommandPc : cmd' = [cmd EXCEPT ![q].pc = pc]
    BY <1>3 DEF Handle, CommandStep, EnsureUser, AddWatch, RemoveEvents, RemoveWatch,
                FindWatch, UpdateEnabled, CommitCommand, Continue, CommandPc
  <2> QED  BY <1>0, <1>3, <2>1 DEF CmdOK
<1>4. ASSUME Handle(r)
      PROVE  /\ cmd'[r].id = cmd[r].id
             /\ cmd'[r].user = cmd[r].user
             /\ WatchRowsOf(cmd[r].id, cmd[r].user) # {}
  <2>1. CASE FindWatch(r)
    <3>1. PICK pc \in {"done", "update"} :
            /\ cmd' = [cmd EXCEPT ![r].pc = pc]
            /\ pc = "update" => WatchRowsOf(cmd[r].id, cmd[r].user) # {}
      BY <2>1 DEF FindWatch, Continue
    <3> QED  BY <1>0, <3>1 DEF CmdOK, Command
  <2>2. CASE ~FindWatch(r)
    <3>1. cmd[r].op \in {"add", "remove", "pause", "resume"}
      BY <1>0 DEF CmdOK, Command
    <3>2. PICK x \in CommandPc \ {"update"} : cmd' = [cmd EXCEPT ![r].pc = x]
      BY <1>4, <2>2, <3>1
      DEF Handle, CommandStep, EnsureUser, AddWatch, RemoveEvents, RemoveWatch,
          UpdateEnabled, CommitCommand, Continue, CommandPc
    <3>3. cmd'[r].pc = x
      BY <1>0, <3>2 DEF CmdOK, Command
    <3> QED  BY <3>2, <3>3
  <2> QED  BY <2>1, <2>2
<1>5. \/ UNCHANGED cmd
      \/ \E q \in Requests : Arrive(q) \/ Handle(q)
      \/ Restart
  BY DEF Next, vars, Post, BackfillNext, Ingest, Notify, GoLive, WindowPasses, Crash,
         BackfillFails, commandVars
<1> QED  BY <1>1, <1>2, <1>3, <1>4, <1>5

\* Between its SELECT and its UPDATE a command's row goes only by its own
\* user's removal.
LEMMA UpdateStaysChecked ==
  ASSUME Assumptions, IInv, StepsFitCommand, UpdateChecked, [Next]_vars
  PROVE  UpdateChecked'
<1>1. SUFFICES ASSUME NEW r \in Requests, cmd'[r].pc = "update"
               PROVE  \/ WatchRowsOf(cmd[r].id, cmd[r].user)' # {}
                      \/ DropAsked(cmd[r].id, cmd[r].user)'
  BY DEF UpdateChecked
<1>2. /\ ~Restart
      /\ cmd'[r].id = cmd[r].id
      /\ cmd'[r].user = cmd[r].user
      /\ \/ WatchRowsOf(cmd[r].id, cmd[r].user) # {}
         \/ DropAsked(cmd[r].id, cmd[r].user)
  BY <1>1, UpdateComesFromCheck DEF UpdateChecked
<1>3. DropAsked(cmd[r].id, cmd[r].user) => DropAsked(cmd[r].id, cmd[r].user)'
  <2>1. RequestsKept
    BY RequestsStay
  <2> QED  BY <1>2, <2>1 DEF RequestsKept, DropAsked
<1>4. ASSUME NEW v \in db.watches, v.id = cmd[r].id, Owner[v.watch] = cmd[r].user,
             ~DropAsked(cmd[r].id, cmd[r].user)
      PROVE  WatchRowsOf(cmd[r].id, cmd[r].user)' # {}
  <2>1. PICK w \in db'.watches : w.id = v.id /\ w.watch = v.watch
    BY <1>2, <1>4, StepDropsWatches
  <2> QED  BY <1>2, <1>4, <2>1 DEF WatchRowsOf
<1> QED  BY <1>2, <1>3, <1>4 DEF WatchRowsOf

\* Every step keeps the rows' ids and the requests behind the switches, and
\* what it switches in the file was asked for.
LEMMA StepSwitchesAsked ==
  ASSUME Assumptions, IInv, StepsFitCommand, WatchesKnown, SameIds, UpdateChecked,
         SwitchesAsked, [Next]_vars
  PROVE  /\ SameIds'
         /\ SwitchesAsked'
         /\ \A v \in disk.watches, w \in disk'.watches :
              (v.watch = w.watch /\ v.enabled # w.enabled) =>
                v.id = w.id /\ SwitchAsked(SwitchOf(w), v)
<1> DEFINE Conclusion ==
      /\ SameIds'
      /\ SwitchesAsked'
      /\ \A v \in disk.watches, w \in disk'.watches :
           (v.watch = w.watch /\ v.enabled # w.enabled) =>
             v.id = w.id /\ SwitchAsked(SwitchOf(w), v)
<1>0. /\ \A v, w : SwitchAsked(SwitchOf(w), v) => SwitchAsked(SwitchOf(w), v)'
      /\ db \in Store
      /\ disk \in Store
      /\ KnownIn(db)
      /\ KnownIn(disk)
  BY RequestsStay, SwitchRequestsStay DEF IInv, ViewsSound, Sound, WatchesKnown
<1>1. CASE db'.watches \subseteq db.watches /\ disk'.watches = disk.watches
  BY <1>0, <1>1 DEF SwitchesAsked, SameIds, KnownIn
<1>2. CASE disk' = db /\ UNCHANGED db
  BY <1>0, <1>2 DEF SwitchesAsked, SameIds, KnownIn
<1>3. CASE Restart
  BY <1>0, <1>3 DEF Restart, LoseUncommitted, SwitchesAsked, SameIds, KnownIn
<1>4. ASSUME NEW r \in Requests, AddWatch(r)
      PROVE  Conclusion
  <2>1. PICK x \in Watches \ created : InsertWatch(x)
    BY <1>4 DEF AddWatch
  <2>2. PICK row : row.watch = x /\ db'.watches = db.watches \cup {row}
    BY <1>0, <2>1, InsertWatchRows DEF Assumptions
  <2>3. disk' = disk
    BY <1>4 DEF AddWatch
  <2>4. \A v \in disk.watches : v.watch # row.watch
    BY <1>0, <2>1, <2>2 DEF KnownIn
  <2> QED  BY <1>0, <2>2, <2>3, <2>4 DEF SwitchesAsked, SameIds, KnownIn
<1>5. ASSUME NEW r \in Requests, UpdateEnabled(r)
      PROVE  Conclusion
  <2>1. /\ SetEnabled(cmd[r].id, cmd[r].op = "resume")
        /\ disk' = disk
        /\ cmd[r].pc = "update"
    BY <1>5 DEF UpdateEnabled
  <2>2. cmd[r].op \in {"pause", "resume"}
    BY <2>1 DEF StepsFitCommand
  <2>3. /\ NoNewWatches
        /\ \A w \in db'.watches : w.id = cmd[r].id => w.enabled = (cmd[r].op = "resume")
        /\ \A w \in db'.watches : w.id # cmd[r].id => w \in db.watches
    BY <1>0, <2>1, SetEnabledRows
  <2>4. SameIds'
    BY <2>1, <2>3 DEF SameIds, NoNewWatches
  <2>5. ASSUME NEW v \in disk.watches, NEW w \in db'.watches,
               v.watch = w.watch, v.enabled # w.enabled
        PROVE  SwitchAsked(SwitchOf(w), v)
    <3>1. CASE w.id # cmd[r].id
      BY <2>3, <2>5, <3>1 DEF SwitchesAsked
    <3>2. CASE w.id = cmd[r].id
      <4>1. PICK o \in db.watches : o.id = w.id /\ o.watch = w.watch
        BY <2>3 DEF NoNewWatches
      <4>2. v.id = cmd[r].id
        BY <2>5, <3>2, <4>1 DEF SameIds
      <4>3. cmd[r].user = Owner[v.watch] \/ DropAsked(v.id, cmd[r].user)
        <5>1. ASSUME NEW u \in db.watches, u.id = cmd[r].id, Owner[u.watch] = cmd[r].user
              PROVE  cmd[r].user = Owner[v.watch]
          BY <2>5, <3>2, <4>1, <5>1, SameKeySameRow
        <5> QED  BY <2>1, <4>2, <5>1 DEF UpdateChecked, WatchRowsOf
      <4>4. cmd[r].op = SwitchOf(w)
        BY <2>2, <2>3, <3>2 DEF SwitchOf
      <4> QED  BY <4>2, <4>3, <4>4 DEF SwitchAsked
    <3> QED  BY <3>1, <3>2
  <2>6. \A v \in disk.watches, w \in disk'.watches : v.watch = w.watch => v = w
    BY <1>0, <2>1 DEF KnownIn
  <2>7. SwitchesAsked'
    BY <1>0, <2>1, <2>5 DEF SwitchesAsked
  <2> QED  BY <2>4, <2>6, <2>7
<1>6. ASSUME NEW r \in Requests, Handle(r)
      PROVE  Conclusion
  <2>0. CommandStep(r)
    BY <1>6 DEF Handle
  <2>1. CASE RemoveEvents(r)
    BY <1>0, <1>1, <2>1, DeleteEventsRows DEF RemoveEvents
  <2>2. CASE RemoveWatch(r)
    BY <1>0, <1>1, <2>2, DeleteWatchRows DEF RemoveWatch
  <2>3. \/ AddWatch(r)
        \/ UpdateEnabled(r)
        \/ UNCHANGED storeVars
        \/ Commit
        \/ RemoveEvents(r)
        \/ RemoveWatch(r)
    BY <2>0 DEF CommandStep, EnsureUser, FindWatch, CommitCommand
  <2> QED  BY <1>1, <1>2, <1>4, <1>5, <2>1, <2>2, <2>3 DEF storeVars, Commit
<1>7. ASSUME NEW m \in Messages, Ingest(m)
      PROVE  Conclusion
  BY <1>1, <1>2, <1>7, IngestRows DEF Ingest
<1>8. CASE Notify
  BY <1>1, <1>2, <1>8, NotifierRows DEF Notify
<1>9. CASE WindowPasses
  BY <1>1, <1>9, WindowRows
<1>10. \/ UNCHANGED storeVars
       \/ \E m \in Messages : Ingest(m)
       \/ \E r \in Requests : Handle(r)
       \/ Notify
       \/ WindowPasses
       \/ Restart
  BY DEF Next, vars, Post, BackfillNext, Arrive, BeginCommand, GoLive, Crash,
         BackfillFails, storeVars
<1> QED  BY <1>1, <1>3, <1>6, <1>7, <1>8, <1>9, <1>10 DEF storeVars

\* A watch is switched on disk only because its owner asked for it, or somebody
\* who had a watch of its id and asked for the removal of that too: the UPDATE
\* of a command goes by the id alone, its SELECT is an await away, and whatever
\* users remove, add, commit or lose in between, that is the only way around it.
THEOREM SwitchesWereAskedFor == Spec => OnlyOwnersSwitch
<1> DEFINE Inv == StepsFitCommand /\ SameIds /\ UpdateChecked /\ SwitchesAsked
<1>1. Init => Inv
  <2> SUFFICES ASSUME Init PROVE Inv
    OBVIOUS
  <2>1. /\ disk = db
        /\ \A r, q \in db.watches : r.watch = q.watch => r = q
        /\ \A r \in Requests : cmd[r].pc = "idle" /\ cmd[r].op = "add"
    BY NothingAtFirst DEF Init, CommandsInit
  <2> QED  BY <2>1 DEF StepsFitCommand, SameIds, UpdateChecked, SwitchesAsked
<1>2. IInv /\ BInv /\ Inv /\ [Next]_vars => Inv'
  BY AssumptionsHold, RequestsStay, UpdateStaysChecked, StepSwitchesAsked
  DEF BInv, Bookkeeping
<1> DEFINE Step == \A v \in disk.watches, w \in disk'.watches :
       (v.watch = w.watch /\ v.enabled # w.enabled) =>
         \E r \in Requests :
           /\ cmd[r].op = IF w.enabled THEN "resume" ELSE "pause"
           /\ cmd[r].id = v.id
           /\ \/ cmd[r].user = Owner[v.watch]
              \/ \E q \in Requests : /\ cmd[q].op = "remove"
                                     /\ cmd[q].id = v.id
                                     /\ cmd[q].user = cmd[r].user
<1>3. IInv /\ BInv /\ Inv /\ [Next]_vars => Step
  BY AssumptionsHold, StepSwitchesAsked
  DEF BInv, Bookkeeping, SwitchAsked, DropAsked, SwitchOf
<1>4. OnlyOwnersSwitch <=> [][Step]_vars
  BY DEF OnlyOwnersSwitch
<1> HIDE DEF Inv, Step
<1> QED  BY <1>1, <1>2, <1>3, <1>4, Invariance, BooksKept, PTL DEF Spec

-----------------------------------------------------------------------------
(* While nobody removes a watch *)

\* The users of an instance without /watch_remove and without the delete
\* button.
NoRemovals == "remove" \notin Ops

NobodyRemoves == \A r \in Requests : cmd[r].op # "remove"

\* Nobody starts to.
LEMMA NobodyStartsRemoving ==
  ASSUME NoRemovals, IInv, NobodyRemoves, [Next]_vars
  PROVE  NobodyRemoves'
<1>0. CmdOK
  BY DEF IInv
<1>1. ASSUME NEW r \in Requests, Arrive(r)
      PROVE  NobodyRemoves'
  <2>1. PICK op \in Ops, u \in Users, i \in 0..MaxWatchId :
          cmd' = [cmd EXCEPT ![r] = [pc |-> "user", op |-> op, user |-> u, id |-> i]]
    BY <1>1 DEF Arrive, BeginCommand
  <2> QED  BY <1>0, <2>1 DEF CmdOK, NobodyRemoves, NoRemovals
<1>2. ASSUME NEW r \in Requests, Handle(r)
      PROVE  NobodyRemoves'
  <2>1. \E pc : cmd' = [cmd EXCEPT ![r].pc = pc]
    BY <1>2 DEF Handle, CommandStep, EnsureUser, AddWatch, RemoveEvents, RemoveWatch,
                FindWatch, UpdateEnabled, CommitCommand, Continue
  <2> QED  BY <1>0, <2>1 DEF CmdOK, Command, NobodyRemoves
<1>3. CASE Crash \/ BackfillFails
  BY <1>0, <1>3 DEF Crash, BackfillFails, Restart, CmdOK, Command, NobodyRemoves
<1>4. CASE UNCHANGED cmd
  BY <1>4 DEF NobodyRemoves
<1>5. \/ UNCHANGED cmd
      \/ \E r \in Requests : Arrive(r) \/ Handle(r)
      \/ Crash
      \/ BackfillFails
  BY DEF Next, vars, Post, BackfillNext, Ingest, Notify, GoLive, WindowPasses, commandVars
<1> QED  BY <1>1, <1>2, <1>3, <1>4, <1>5

\* Then a step keeps every row, and what it writes to the file is what the
\* connection sees.
RowsKept ==
  /\ NoEventsLost
  /\ NoWatchesLost
  /\ \/ disk' = disk
     \/ disk' = db /\ UNCHANGED db
     \/ disk' = Expired(disk)

\* A command then inserts or updates a watch, at most.
LEMMA CommandsKeepRows ==
  ASSUME Assumptions, IInv, StepsFitCommand, NobodyRemoves,
         NEW r \in Requests, CommandStep(r)
  PROVE  db'.events = db.events /\ RowsKept
<1>0. db \in Store
  BY DEF IInv, ViewsSound, Sound
<1>1. cmd[r].pc \notin {"delete_events", "delete_watch"}
  BY DEF StepsFitCommand, NobodyRemoves
<1>2. CASE EnsureUser(r) \/ CommitCommand(r)
  BY <1>2, SameRows DEF EnsureUser, CommitCommand, Commit, RowsKept
<1>3. CASE AddWatch(r)
  BY <1>0, <1>3, SameRows, InsertWatchRows DEF AddWatch, Assumptions, RowsKept
<1>4. CASE FindWatch(r)
  BY <1>4, SameRows DEF FindWatch, storeVars, RowsKept
<1>5. CASE UpdateEnabled(r)
  BY <1>0, <1>5, SameRows, SetEnabledRows DEF UpdateEnabled, RowsKept
<1> QED
  BY <1>1, <1>2, <1>3, <1>4, <1>5 DEF CommandStep, RemoveEvents, RemoveWatch

\* Every step but a restart, which goes back to the file, keeps the rows.
LEMMA StepKeepsRows ==
  ASSUME Assumptions, IInv, StepsFitCommand, NobodyRemoves, [Next]_vars
  PROVE  RowsKept \/ Restart
<1>1. ASSUME UNCHANGED storeVars
      PROVE  RowsKept
  BY <1>1, SameRows DEF RowsKept, storeVars
<1>2. ASSUME NEW m \in Messages, Ingest(m)
      PROVE  RowsKept
  BY <1>2, IngestRows, SameRows DEF Ingest, RowsKept
<1>3. ASSUME NEW r \in Requests, Handle(r)
      PROVE  RowsKept
  BY <1>3, CommandsKeepRows DEF Handle
<1>4. CASE Notify
  BY <1>4, NotifierRows, SameRows DEF Notify, RowsKept
<1>5. CASE WindowPasses
  BY <1>5, WindowRows, SameRows DEF RowsKept
<1>6. \/ UNCHANGED storeVars
      \/ \E m \in Messages : Ingest(m)
      \/ \E r \in Requests : Handle(r)
      \/ Notify
      \/ WindowPasses
      \/ Restart
  BY DEF Next, vars, Post, BackfillNext, Arrive, BeginCommand, GoLive, Crash,
         BackfillFails, storeVars
<1> QED  BY <1>1, <1>2, <1>3, <1>4, <1>5, <1>6

\* The connection sees all that is in the file.
DiskInDb ==
  /\ \A e \in disk.events : \E f \in db.events :
       /\ f.id = e.id
       /\ f.watch_id = e.watch_id
       /\ f.message = e.message
       /\ e.notified => f.notified
  /\ \A v \in disk.watches : \E u \in db.watches : u.id = v.id /\ u.watch = v.watch

\* A rollback brings back what was committed, so no view runs ahead of db.
LEMMA DiskStaysInDb ==
  ASSUME IInv, DiskInDb, RowsKept \/ Restart
  PROVE  DiskInDb'
<1>1. CASE Restart \/ (disk' = db /\ UNCHANGED db)
  BY <1>1 DEF Restart, LoseUncommitted, DiskInDb
<1>2. CASE RowsKept /\ disk' = disk
  BY <1>2 DEF RowsKept, DiskInDb, NoEventsLost, NoWatchesLost
<1>3. CASE RowsKept /\ disk' = Expired(disk)
  <2>1. /\ disk'.watches = disk.watches
        /\ \A e \in disk'.events : \E f \in disk.events :
             /\ f.id = e.id
             /\ f.watch_id = e.watch_id
             /\ f.message = e.message
             /\ f.notified = e.notified
    BY <1>3, ExpiredRows DEF IInv, ViewsSound, Sound
  <2>2. ASSUME NEW e \in disk'.events
        PROVE  \E f \in db'.events : /\ f.id = e.id
                                     /\ f.watch_id = e.watch_id
                                     /\ f.message = e.message
                                     /\ e.notified => f.notified
    <3>1. PICK d \in disk.events : /\ d.id = e.id
                                   /\ d.watch_id = e.watch_id
                                   /\ d.message = e.message
                                   /\ d.notified = e.notified
      BY <2>1
    <3>2. PICK g \in db.events : /\ g.id = d.id
                                 /\ g.watch_id = d.watch_id
                                 /\ g.message = d.message
                                 /\ d.notified => g.notified
      BY DEF DiskInDb
    <3> QED  BY <1>3, <3>1, <3>2 DEF RowsKept, NoEventsLost
  <2>3. \A v \in disk'.watches : \E u \in db'.watches : u.id = v.id /\ u.watch = v.watch
    BY <1>3, <2>1 DEF RowsKept, NoWatchesLost, DiskInDb
  <2> QED  BY <2>2, <2>3 DEF DiskInDb
<1> QED  BY <1>1, <1>2, <1>3 DEF RowsKept

\* What tasks hold on to is still in the tables: a handler's snapshot rows,
\* the watch a request has looked up, the alerts the notifier goes through.
QueueLive ==
  \A m \in Messages : \A r \in ing[m].queue :
    \E u \in db.watches : u.id = r.id /\ u.watch = r.watch

NtfLive ==
  \A q \in ntf.queue : \E e \in EventsOf(db, q.watch, q.message) : e.id = q.id

\* The alerts of a watch stay.
LEMMA AlertsStay ==
  ASSUME RowsKept, NEW w, NEW m, NEW e \in EventsOf(db, w, m)
  PROVE  \E f \in EventsOf(db, w, m)' :
           f.id = e.id /\ f.watch_id = e.watch_id /\ (e.notified => f.notified)
<1>1. e \in db.events /\ e.message = m
  BY DEF EventsOf
<1>2. PICK r \in db.watches : r.id = e.watch_id /\ r.watch = w
  BY DEF EventsOf
<1>3. PICK q \in db'.watches : q.id = r.id /\ q.watch = r.watch
  BY DEF RowsKept, NoWatchesLost
<1>4. PICK f \in db'.events : /\ f.id = e.id
                              /\ f.watch_id = e.watch_id
                              /\ f.message = e.message
                              /\ e.notified => f.notified
  BY <1>1 DEF RowsKept, NoEventsLost
<1> QED  BY <1>1, <1>2, <1>3, <1>4 DEF EventsOf

\* Without removals the watches a post's handler loaded keep their rows.
LEMMA QueueStaysLive ==
  ASSUME Assumptions, IInv, QueueLive, RowsKept \/ Restart, [Next]_vars
  PROVE  QueueLive'
<1>0. IngOK
  BY DEF IInv
<1>1. CASE Restart
  BY <1>1 DEF Restart, IdleHandler, QueueLive
<1>2. ASSUME RowsKept,
             \A m \in Messages : \A r \in ing'[m].queue :
               r \in ing[m].queue \/ (r \in db.watches /\ UNCHANGED db)
      PROVE  QueueLive'
  BY <1>2 DEF QueueLive, RowsKept, NoWatchesLost
<1>3. CASE RowsKept /\ UNCHANGED ing
  BY <1>2, <1>3
<1>4. ASSUME RowsKept, NEW m \in Messages, TakeUp(m)
      PROVE  QueueLive'
  <2>1. \A n \in Messages : ing'[n].queue \subseteq ing[n].queue
    BY <1>0, <1>4 DEF TakeUp, BeginIngest, IngOK
  <2> QED  BY <1>2, <1>4, <2>1
<1>5. ASSUME RowsKept, NEW m \in Messages, IngestStep(m)
      PROVE  QueueLive'
  <2>1. CASE LoadWatches(m)
    <3>1. ing'[m].queue \subseteq db.watches /\ UNCHANGED db
      BY <1>0, <2>1 DEF LoadWatches, IngOK, EnabledWatches, storeVars
    <3> QED  BY <1>0, <1>2, <1>5, <3>1, IngestPlaces
  <2>2. CASE ~LoadWatches(m)
    BY <1>0, <1>2, <1>5, <2>2, IngestPlaces
  <2> QED  BY <2>1, <2>2
<1>6. \/ UNCHANGED ing
      \/ \E m \in Messages : TakeUp(m) \/ IngestStep(m)
      \/ Restart
  BY DEF Next, vars, Post, BackfillNext, Ingest, Arrive, Handle, Notify, GoLive, Crash,
         BackfillFails, WindowPasses
<1> QED  BY <1>1, <1>3, <1>4, <1>5, <1>6

\* Without removals the alerts the notifier fetched keep their rows.
LEMMA NtfStaysLive ==
  ASSUME Assumptions, IInv, NtfLive, RowsKept \/ Restart, [Next]_vars
  PROVE  NtfLive'
<1>0. NtfOK
  BY DEF IInv
<1>1. CASE Restart
  BY <1>1 DEF Restart, IdleNotifier, NtfLive
<1>2. CASE RowsKept /\ ntf'.queue \subseteq ntf.queue
  BY <1>2, AlertsStay DEF NtfLive
<1>3. CASE Poll
  <2>1. ntf'.queue = PendingRows /\ UNCHANGED db
    BY <1>3 DEF Poll, storeVars
  <2>2. ASSUME NEW q \in PendingRows
        PROVE  \E e \in EventsOf(db, q.watch, q.message) : e.id = q.id
    BY PendingRowsAre DEF EventsOf
  <2> QED  BY <2>1, <2>2 DEF NtfLive, EventsOf
<1>4. \/ ntf'.queue \subseteq ntf.queue
      \/ Poll
      \/ Restart
  BY <1>0
  DEF Next, vars, Post, BackfillNext, Ingest, Arrive, Handle, Notify, GoLive, Crash,
      BackfillFails, WindowPasses, notifierVars, NotifierStep, SendSettled, SendOk,
      SendForbidden, SendFails, SendLostAck, BackOff, IdleNotifier, Mark, CommitMark, NtfOK
<1> QED  BY <1>1, <1>2, <1>3, <1>4

SnapshotsLive == QueueLive /\ NtfLive

\* The alert e is marked by this step.
MarkedNow(e) == \E q \in First(ntf.queue) : Mark(q) /\ q.id = e.id

\* Where the alerts of a watch come from: they were there, and if they are
\* marked they were or the notifier does it, or the handler of their post
\* has decided on them.
LEMMA AlertsFrom ==
  ASSUME Assumptions, IInv, StepsFitCommand, NobodyRemoves, DiskInDb, SnapshotsLive,
         [Next]_vars, NEW w \in Watches, NEW m \in Messages, NEW e \in EventsOf(db, w, m)'
  PROVE  \/ \E f \in EventsOf(db, w, m) :
              /\ f.id = e.id
              /\ e.notified => f.notified \/ MarkedNow(f)
         \/ /\ ~e.notified
            /\ ing[m].pc = "create"
            /\ \E r \in First(ing[m].queue) : r.watch = w
<1> DEFINE Old == \E f \in EventsOf(db, w, m) :
                    /\ f.id = e.id
                    /\ e.notified => f.notified \/ MarkedNow(f)
<1>0. /\ e \in db'.events
      /\ e.message = m
      /\ db \in Store
      /\ disk \in Store
  BY DEF EventsOf, IInv, ViewsSound, Sound
<1>1. PICK v \in db'.watches : v.id = e.watch_id /\ v.watch = w
  BY DEF EventsOf
<1>2. ASSUME db'.events = db.events, NoNewWatches
      PROVE  Old
  BY <1>0, <1>1, <1>2 DEF NoNewWatches, EventsOf
<1>3. ASSUME NEW n \in Messages, Ingest(n)
      PROVE  \/ Old
             \/ /\ ~e.notified
                /\ ing[m].pc = "create"
                /\ \E r \in First(ing[m].queue) : r.watch = w
  <2>1. IngestStep(n) /\ db'.watches = db.watches
    BY <1>3, IngestRows DEF Ingest
  <2>2. CASE e \in db.events
    BY <1>0, <1>1, <2>1, <2>2 DEF EventsOf
  <2>3. CASE e \notin db.events
    <3>1. CreateEvent(n) /\ ~UNCHANGED db
      BY <1>0, <1>3, <2>3, IngestRows DEF Ingest
    <3>2. PICK r \in First(ing[n].queue) : InsertEvent(r.id, n)
      BY <3>1 DEF CreateEvent
    <3>3. r.id \in WatchIds /\ r \in ing[n].queue /\ ing[n].pc = "create"
      BY <3>1 DEF First, IInv, IngOK, Handler, WatchRow, CreateEvent
    <3>4. e.watch_id = r.id /\ e.message = n /\ ~e.notified
      BY <1>0, <2>3, <3>2, <3>3, InsertEventRows DEF Assumptions
    <3>5. r.watch = w
      <4>1. PICK u \in db.watches : u.id = r.id /\ u.watch = r.watch
        BY <3>3 DEF SnapshotsLive, QueueLive
      <4> QED  BY <1>1, <2>1, <3>4, <4>1, SameKeySameRow
    <3> QED  BY <1>0, <3>2, <3>3, <3>4, <3>5
  <2> QED  BY <2>2, <2>3
<1>4. ASSUME NEW r \in Requests, Handle(r)
      PROVE  Old
  <2>1. CommandStep(r) /\ db'.events = db.events
    BY <1>4, CommandsKeepRows DEF Handle
  <2>2. CASE NoNewWatches
    BY <1>2, <2>1, <2>2
  <2>3. CASE \E x \in Watches : InsertWatch(x)
    <3>1. PICK row : /\ \A q \in db.watches : q.id # row.id
                     /\ db'.watches = db.watches \cup {row}
      BY <1>0, <2>3, InsertWatchRows DEF Assumptions
    <3>2. v \in db.watches
      BY <1>0, <1>1, <2>1, <3>1, SameKeySameRow
    <3> QED  BY <1>0, <1>1, <2>1, <3>2 DEF EventsOf
  <2> QED  BY <2>1, <2>2, <2>3, CommandRows
<1>5. CASE Notify
  <2>1. NotifierStep /\ db'.watches = db.watches
    BY <1>5, NotifierRows DEF Notify
  <2>2. CASE db'.events = db.events
    BY <1>2, <2>1, <2>2, SameRows
  <2>3. CASE \E q \in First(ntf.queue) : Mark(q)
    <3>1. PICK q \in First(ntf.queue) : Mark(q)
      BY <2>3
    <3>2. PICK f \in db.events : f.id = e.id /\ f.watch_id = e.watch_id /\ f.message = e.message
      BY <1>0, <1>5, NotifierRows DEF Notify, NoNewEvents
    <3>3. f \in EventsOf(db, w, m)
      BY <1>0, <1>1, <2>1, <3>2 DEF EventsOf
    <3>4. e.id # q.id => e \in db.events
      BY <1>0, <3>1, MarkNotifiedRows DEF Mark
    <3>5. e.id # q.id => e = f
      BY <3>2, <3>4, SameKeySameRow
    <3> QED  BY <3>1, <3>2, <3>3, <3>5 DEF MarkedNow
  <2>4. db'.events = db.events \/ \E q \in First(ntf.queue) : Mark(q)
    BY <2>1 DEF NotifierStep, Poll, SendSettled, SendOk, SendForbidden, SendFails,
                SendLostAck, CommitMark, Commit, storeVars
  <2> QED  BY <2>2, <2>3, <2>4
<1>6. CASE WindowPasses
  <2>1. PICK f \in db.events : /\ f.id = e.id
                               /\ f.watch_id = e.watch_id
                               /\ f.message = e.message
                               /\ f.notified = e.notified
    BY <1>0, <1>6, ExpiredRows DEF WindowPasses
  <2> QED  BY <1>0, <1>1, <1>6, <2>1, WindowRows DEF EventsOf
<1>7. CASE Restart
  <2>1. db' = disk
    BY <1>7 DEF Restart, LoseUncommitted
  <2>2. PICK f \in db.events : /\ f.id = e.id
                               /\ f.watch_id = e.watch_id
                               /\ f.message = e.message
                               /\ e.notified => f.notified
    BY <1>0, <2>1 DEF DiskInDb
  <2>3. \E u \in db.watches : u.id = v.id /\ u.watch = v.watch
    BY <1>1, <2>1 DEF DiskInDb
  <2> QED  BY <1>0, <1>1, <2>2, <2>3 DEF EventsOf
<1>8. CASE UNCHANGED db
  BY <1>2, <1>8, SameRows
<1>9. \/ UNCHANGED db
      \/ \E n \in Messages : Ingest(n)
      \/ \E r \in Requests : Handle(r)
      \/ Notify
      \/ WindowPasses
      \/ Restart
  BY DEF Next, vars, Post, BackfillNext, Arrive, BeginCommand, GoLive, Crash,
         BackfillFails, storeVars
<1> QED  BY <1>3, <1>4, <1>5, <1>6, <1>7, <1>8, <1>9

\* Who has been told, after a step: nobody new, unless the notifier sends.
LEMMA ToldBy ==
  ASSUME Assumptions, IInv, [Next]_vars, NEW w \in Watches, NEW m \in Messages
  PROVE  /\ Told(w, m) => Told(w, m)'
         /\ Told(w, m)' => \/ Told(w, m)
                           \/ /\ UNCHANGED storeVars
                              /\ \E q \in First(ntf.queue) : q.watch = w /\ q.message = m
<1>0. NtfOK
  BY DEF IInv
<1>1. CASE UNCHANGED <<inbox, refused>>
  BY <1>1 DEF Told
<1>2. ASSUME NEW q \in First(ntf.queue), SendOk(q) \/ SendLostAck(q)
      PROVE  /\ Told(w, m) => Told(w, m)'
             /\ Told(w, m)' => \/ Told(w, m)
                               \/ q.watch = w /\ q.message = m
  <2>1. q \in PendingRow /\ Deliver(q) /\ UNCHANGED refused
    BY <1>0, <1>2 DEF First, NtfOK, SendOk, SendLostAck
  <2>2. inbox'[w][m] = IF w = q.watch /\ m = q.message THEN inbox[w][m] + 1
                                                       ELSE inbox[w][m]
    BY <1>0, <2>1, DeliverCounts
  <2>3. inbox[w][m] \in Nat
    BY <1>0 DEF NtfOK
  <2> QED  BY <2>1, <2>2, <2>3 DEF Told
<1>3. ASSUME NEW q \in First(ntf.queue), SendForbidden(q)
      PROVE  /\ Told(w, m) => Told(w, m)'
             /\ Told(w, m)' => \/ Told(w, m)
                               \/ q.watch = w /\ q.message = m
  BY <1>3 DEF SendForbidden, Told
<1>4. \/ UNCHANGED <<inbox, refused>>
      \/ \E q \in First(ntf.queue) : SendOk(q) \/ SendLostAck(q) \/ SendForbidden(q)
  BY DEF Next, vars, Post, BackfillNext, Ingest, Arrive, Handle, Notify, GoLive, Crash,
         BackfillFails, Restart, WindowPasses, notifierVars, NotifierStep, SendSettled,
         Poll, SendFails, Mark, CommitMark
<1>5. \A q : SendOk(q) \/ SendLostAck(q) \/ SendForbidden(q) => UNCHANGED storeVars
  BY DEF SendOk, SendLostAck, SendForbidden
<1> QED  BY <1>1, <1>2, <1>3, <1>4, <1>5

\* Alerts are about matches, from the decision to the owner's inbox.
AboutHits ==
  /\ \A w \in Watches, m \in Messages : EventsOf(db, w, m) # {} => <<w, m>> \in Hits
  /\ \A m \in Messages : ing[m].pc = "create" =>
       \A r \in First(ing[m].queue) : <<r.watch, m>> \in Hits
  /\ \A w \in Watches, m \in Messages : Told(w, m) => <<w, m>> \in Hits

\* What is marked, or is about to be, was told.
MarkedWereTold ==
  /\ \A w \in Watches, m \in Messages :
       \A e \in EventsOf(db, w, m) : e.notified => Told(w, m)
  /\ ntf.pc \in {"mark", "close"} =>
       \A q \in First(ntf.queue) : Told(q.watch, q.message)

\* The notifier's queue is about watches and posts, and its alerts still exist.
LEMMA HeadIsAlert ==
  ASSUME IInv, NtfLive, NEW q \in First(ntf.queue)
  PROVE  /\ q \in ntf.queue
         /\ q.watch \in Watches
         /\ q.message \in Messages
         /\ \E e \in EventsOf(db, q.watch, q.message) : e.id = q.id
  BY DEF First, IInv, NtfOK, PendingRow, NtfLive

\* It has one head.
LEMMA OneHead ==
  ASSUME Assumptions, IInv, OneRowEach,
         NEW p \in First(ntf.queue), NEW q \in First(ntf.queue)
  PROVE  p = q
<1>1. p \in PendingRow /\ q \in PendingRow /\ p.id <= q.id /\ q.id <= p.id
  BY DEF First, IInv, NtfOK
<1>2. p.id \in Nat /\ q.id \in Nat
  BY <1>1 DEF PendingRow, EventIds, Assumptions, StorageAssumption
<1>3. p.id = q.id
  BY <1>1, <1>2
<1> QED  BY <1>3 DEF First, OneRowEach

\* Alerts, fetched batches and sent copies stay about posts their watch hits.
LEMMA StaysAboutHits ==
  ASSUME Assumptions, IInv, StepsFitCommand, NobodyRemoves, SnapshotKeys, DiskInDb,
         SnapshotsLive, AboutHits, [Next]_vars
  PROVE  AboutHits'
<1>0. IngOK
  BY DEF IInv
<1>1. ASSUME NEW w \in Watches, NEW m \in Messages, EventsOf(db, w, m)' # {}
      PROVE  <<w, m>> \in Hits
  <2>1. PICK e : e \in EventsOf(db, w, m)'
    BY <1>1
  <2>2. \/ EventsOf(db, w, m) # {}
        \/ ing[m].pc = "create" /\ \E r \in First(ing[m].queue) : r.watch = w
    BY <2>1, AlertsFrom
  <2> QED  BY <2>2 DEF AboutHits
<1>2. ASSUME NEW m \in Messages, ing'[m].pc = "create", NEW r \in First(ing'[m].queue)
      PROVE  <<r.watch, m>> \in Hits
  <2>1. CASE ing'[m] = ing[m]
    BY <1>2, <2>1 DEF AboutHits
  <2>2. CASE ing'[m] # ing[m]
    <3>1. ConsiderWatch(m)
      <4>1. ASSUME NEW n \in Messages, TakeUp(n)
            PROVE  FALSE
        <5>1. ing'[n].pc = "insert" /\ \A k \in Messages : k # n => ing'[k] = ing[k]
          BY <1>0, <4>1 DEF TakeUp, BeginIngest, IngOK
        <5> QED  BY <1>2, <2>2, <5>1
      <4>2. CASE Restart
        BY <1>2, <4>2 DEF Restart, IdleHandler
      <4>3. CASE \E n \in Messages : Ingest(n)
        BY <1>0, <1>2, <2>2, <4>3, IngestPlaces DEF Ingest
      <4>4. \/ UNCHANGED ing
            \/ \E n \in Messages : TakeUp(n) \/ Ingest(n)
            \/ Restart
        BY DEF Next, vars, Post, BackfillNext, Arrive, Handle, Notify, GoLive, Crash,
               BackfillFails, WindowPasses
      <4> QED  BY <2>2, <4>1, <4>2, <4>3, <4>4
    <3>2. PICK q \in First(ing[m].queue) : <<q.watch, m>> \in Hits /\ GoTo(m, "create")
      BY <1>0, <1>2, <3>1, GoToPlace, NextWatchPlace DEF ConsiderWatch
    <3>3. r \in First(ing[m].queue)
      BY <1>0, <1>2, <3>2, GoToPlace
    <3>4. r = q
      BY <1>0, <3>2, <3>3 DEF SnapshotKeys, First, IngOK, Handler, WatchRow, WatchIds
    <3> QED  BY <3>2, <3>4
  <2> QED  BY <2>1, <2>2
<1>3. ASSUME NEW w \in Watches, NEW m \in Messages, Told(w, m)'
      PROVE  <<w, m>> \in Hits
  <2>1. CASE Told(w, m)
    BY <2>1 DEF AboutHits
  <2>2. CASE \E q \in First(ntf.queue) : q.watch = w /\ q.message = m
    BY <2>2, HeadIsAlert DEF AboutHits, SnapshotsLive
  <2> QED  BY <1>3, <2>1, <2>2, ToldBy
<1> QED  BY <1>1, <1>2, <1>3 DEF AboutHits

\* A mark is set on an alert whose owner was sent it or refused it.
LEMMA MarkedStayTold ==
  ASSUME Assumptions, IInv, StepsFitCommand, NobodyRemoves, OneRowEach, DiskInDb,
         SnapshotsLive, MarkedWereTold, [Next]_vars
  PROVE  MarkedWereTold'
<1>0. NtfOK
  BY DEF IInv
<1>1. ASSUME NEW w \in Watches, NEW m \in Messages, NEW e \in EventsOf(db, w, m)',
             e.notified
      PROVE  Told(w, m)'
  <2>1. PICK f \in EventsOf(db, w, m) : f.id = e.id /\ (f.notified \/ MarkedNow(f))
    BY <1>1, AlertsFrom
  <2>2. CASE f.notified
    BY <2>2, ToldBy DEF MarkedWereTold
  <2>3. CASE MarkedNow(f)
    <3>1. PICK q \in First(ntf.queue) : Mark(q) /\ q.id = f.id
      BY <2>3 DEF MarkedNow
    <3>2. Told(q.watch, q.message)
      BY <3>1 DEF Mark, MarkedWereTold
    <3>3. PICK g \in EventsOf(db, q.watch, q.message) : g.id = q.id
      BY HeadIsAlert DEF SnapshotsLive
    <3>4. f = g
      BY <3>1, <3>3, SameKeySameRow DEF EventsOf
    <3>5. q.watch = w /\ q.message = m
      BY <3>3, <3>4, SameKeySameRow DEF EventsOf
    <3> QED  BY <3>2, <3>5, ToldBy
  <2> QED  BY <2>1, <2>2, <2>3
<1>2. ASSUME ntf'.pc \in {"mark", "close"}, NEW p \in First(ntf'.queue)
      PROVE  Told(p.watch, p.message)'
  <2>1. CASE ntf' = ntf \/ \E q \in First(ntf.queue) : Mark(q)
    <3>1. ntf.pc \in {"mark", "close"} /\ p \in First(ntf.queue)
      BY <1>0, <1>2, <2>1 DEF Mark, NtfOK
    <3> QED  BY <3>1, HeadIsAlert, ToldBy DEF MarkedWereTold, SnapshotsLive
  <2>2. CASE SendSettled
    <3>1. PICK q \in First(ntf.queue) : SendOk(q) \/ SendForbidden(q)
      BY <2>2 DEF SendSettled
    <3>2. ntf'.queue = ntf.queue
      BY <1>0, <3>1 DEF SendOk, SendForbidden, NtfOK
    <3>3. p = q
      <4>1. p \in First(ntf.queue)
        BY <1>2, <3>2
      <4> QED  BY <3>1, <4>1, OneHead
    <3>4. q \in PendingRow
      BY <1>0 DEF First, NtfOK
    <3>5. CASE SendOk(q)
      <4>1. Deliver(q)
        BY <3>5 DEF SendOk
      <4>2. inbox'[q.watch][q.message] = inbox[q.watch][q.message] + 1
        BY <1>0, <3>4, <4>1, DeliverCounts DEF PendingRow
      <4>3. inbox[q.watch][q.message] \in Nat
        BY <1>0, <3>4 DEF NtfOK, PendingRow
      <4> QED  BY <3>3, <4>2, <4>3 DEF Told
    <3>6. CASE SendForbidden(q)
      BY <3>3, <3>6 DEF SendForbidden, Told
    <3> QED  BY <3>1, <3>5, <3>6
  <2>3. CASE Restart \/ Poll \/ \E q \in First(ntf.queue) :
                                  SendFails(q) \/ SendLostAck(q) \/ CommitMark(q)
    BY <1>2, <2>3 DEF Restart, Poll, SendFails, SendLostAck, CommitMark, BackOff,
                      IdleNotifier
  <2>4. \/ ntf' = ntf
        \/ NotifierStep
        \/ Restart
    BY DEF Next, vars, Post, BackfillNext, Ingest, Arrive, Handle, Notify, GoLive, Crash,
           BackfillFails, WindowPasses, notifierVars
  <2> QED  BY <2>1, <2>2, <2>3, <2>4 DEF NotifierStep
<1> QED  BY <1>1, <1>2 DEF MarkedWereTold

\* The invariant of an instance without removals.
LInv ==
  /\ StepsFitCommand
  /\ NobodyRemoves
  /\ DiskInDb
  /\ SnapshotsLive
  /\ AboutHits
  /\ MarkedWereTold

\* The invariant is inductive on top of those of every instance.
LEMMA StepKeepsLInv ==
  ASSUME NoRemovals, Assumptions, IInv, BInv, LInv, [Next]_vars
  PROVE  LInv'
<1> USE DEF LInv, SnapshotsLive
<1>1. StepsFitCommand' /\ NobodyRemoves'
  BY RequestsStay, NobodyStartsRemoving
<1>2. RowsKept \/ Restart
  BY StepKeepsRows
<1>3. DiskInDb'
  BY <1>2, DiskStaysInDb
<1>4. SnapshotsLive'
  BY <1>2, QueueStaysLive, NtfStaysLive
<1>5. AboutHits'
  BY StaysAboutHits DEF BInv, Bookkeeping
<1>6. MarkedWereTold'
  BY MarkedStayTold DEF BInv
<1> QED  BY <1>1, <1>3, <1>4, <1>5, <1>6

\* It holds of the first file.
LEMMA InitLInv ==
  ASSUME Assumptions, Init
  PROVE  LInv
<1>1. /\ disk = db
      /\ db.messages = {} /\ db.events = {}
      /\ KnownIn(db)
      /\ ntf = IdleNotifier
      /\ \A w \in Watches, m \in Messages : inbox[w][m] = 0
      /\ refused = {}
      /\ \A m \in Messages : ing[m] = IdleHandler
      /\ \A r \in Requests : cmd[r].pc = "idle" /\ cmd[r].op = "add"
  BY NothingAtFirst DEF Init, NotifierInit, IngestInit, CommandsInit, KnownIn
<1>2. StepsFitCommand /\ NobodyRemoves /\ DiskInDb
  BY <1>1 DEF StepsFitCommand, NobodyRemoves, DiskInDb
<1>3. SnapshotsLive
  BY <1>1 DEF SnapshotsLive, QueueLive, NtfLive, IdleHandler, IdleNotifier
<1>4. \A w \in Watches, m \in Messages : ~Told(w, m)
  BY <1>1 DEF Told
<1>5. AboutHits /\ MarkedWereTold
  BY <1>1, <1>4 DEF AboutHits, MarkedWereTold, EventsOf, IdleHandler, IdleNotifier
<1> QED  BY <1>2, <1>3, <1>5 DEF LInv

\* Where no request removes a watch (repo.py's DELETE never runs), the rows that
\* the tasks hold snapshots of keep their ids and meanings through every await.
THEOREM LiveBooksKept ==
  ASSUME NoRemovals
  PROVE  Spec => []LInv
<1>1. Init => LInv
  BY AssumptionsHold, InitLInv
<1>2. IInv /\ BInv /\ LInv /\ [Next]_vars => LInv'
  BY AssumptionsHold, StepKeepsLInv
<1> QED  BY <1>1, <1>2, Invariance, BooksKept, PTL DEF Spec

\* Without removals, an alert is marked only after its owner was sent it or
\* refused it.
THEOREM MarksFollowAttempts ==
  ASSUME NoRemovals
  PROVE  Spec => []MarkedOnlyAfterAttempt
<1>1. IInv /\ LInv => MarkedOnlyAfterAttempt
  <2> SUFFICES ASSUME IInv, LInv, NEW e \in db.events, NEW r \in db.watches,
                      e.notified, r.id = e.watch_id
               PROVE  Told(r.watch, e.message)
    BY DEF MarkedOnlyAfterAttempt
  <2>1. r.watch \in Watches /\ e.message \in Messages
    BY DEF IInv, ViewsSound, Sound, Store, WatchRow, EventRow
  <2>2. e \in EventsOf(db, r.watch, e.message)
    BY DEF EventsOf
  <2> QED  BY <2>1, <2>2 DEF LInv, MarkedWereTold
<1> QED  BY <1>1, Invariance, LiveBooksKept, PTL

\* Without removals, owners are alerted to matches of their own watches only.
THEOREM AlertsAreMatches ==
  ASSUME NoRemovals
  PROVE  Spec => []AlertsMatch
<1>1. LInv => AlertsMatch
  BY DEF LInv, AboutHits, AlertsMatch, Told
<1> QED  BY <1>1, LiveBooksKept, PTL

-----------------------------------------------------------------------------
(* The refinement of the ledger, without removals *)

\* A pair of a watch and a post has one alert at most.
LEMMA OneAlertEach ==
  ASSUME IInv, WatchesKnown, NEW w, NEW m
  PROVE  /\ \A e, f \in EventsOf(db, w, m) : e = f
         /\ \A e, f \in EventsOf(disk, w, m) : e = f
  BY SameKeySameRow DEF EventsOf, WatchesKnown, KnownIn

\* What a COMMIT does to an entry of the ledger.
LEMMA CommitRecords ==
  ASSUME IInv, WatchesKnown, LInv, disk' = db, UNCHANGED db,
         NEW w \in Watches, NEW m \in Messages
  PROVE  \/ LedgerEntry(w, m)' = LedgerEntry(w, m)
         \/ /\ LedgerEntry(w, m) = "none"
            /\ LedgerEntry(w, m)' = "due"
            /\ <<w, m>> \in Hits
         \/ /\ LedgerEntry(w, m) # "done"
            /\ LedgerEntry(w, m)' = "done"
            /\ Told(w, m)
<1>1. EventsOf(disk, w, m)' = EventsOf(db, w, m)
  BY DEF EventsOf
<1>2. ASSUME NEW e \in EventsOf(disk, w, m)
      PROVE  \E f \in EventsOf(db, w, m) : e.notified => f.notified
  <2>1. e \in disk.events /\ e.message = m
    BY DEF EventsOf
  <2>2. PICK v \in disk.watches : v.id = e.watch_id /\ v.watch = w
    BY DEF EventsOf
  <2>3. PICK f \in db.events : /\ f.id = e.id
                               /\ f.watch_id = e.watch_id
                               /\ f.message = e.message
                               /\ e.notified => f.notified
    BY <2>1 DEF LInv, DiskInDb
  <2>4. PICK u \in db.watches : u.id = v.id /\ u.watch = v.watch
    BY DEF LInv, DiskInDb
  <2> QED  BY <2>1, <2>2, <2>3, <2>4 DEF EventsOf
<1>3. /\ EventsOf(db, w, m) # {} => <<w, m>> \in Hits
      /\ \A e \in EventsOf(db, w, m) : e.notified => Told(w, m)
  BY DEF LInv, AboutHits, MarkedWereTold
<1>4. CASE EventsOf(db, w, m) = {}
  BY <1>1, <1>2, <1>4 DEF LedgerEntry
<1>5. ASSUME NEW f \in EventsOf(db, w, m)
      PROVE  \/ LedgerEntry(w, m)' = LedgerEntry(w, m)
             \/ /\ LedgerEntry(w, m) = "none"
                /\ LedgerEntry(w, m)' = "due"
                /\ <<w, m>> \in Hits
             \/ /\ LedgerEntry(w, m) # "done"
                /\ LedgerEntry(w, m)' = "done"
                /\ Told(w, m)
  <2>1. LedgerEntry(w, m)' = IF f.notified THEN "done" ELSE "due"
    BY <1>1, <1>5, OneAlertEach DEF LedgerEntry
  <2>2. LedgerEntry(w, m) = "done" => f.notified
    BY <1>2, <1>5, OneAlertEach DEF LedgerEntry
  <2>3. LedgerEntry(w, m) \in {"none", "due", "done"}
    BY DEF LedgerEntry
  <2> QED  BY <1>3, <1>5, <2>1, <2>2, <2>3
<1> QED  BY <1>4, <1>5

\* The passing of the window leaves the ledger alone.
LEMMA WindowRecordsNothing ==
  ASSUME IInv, disk' = Expired(disk), NEW w, NEW m
  PROVE  LedgerEntry(w, m)' = LedgerEntry(w, m)
<1>1. /\ disk'.watches = disk.watches
      /\ \A e \in disk'.events : \E f \in disk.events :
           f.watch_id = e.watch_id /\ f.message = e.message /\ f.notified = e.notified
      /\ \A f \in disk.events : \E e \in disk'.events :
           f.watch_id = e.watch_id /\ f.message = e.message /\ f.notified = e.notified
  BY ExpiredRows DEF IInv, ViewsSound, Sound
<1>2. /\ \A e \in EventsOf(disk, w, m)' : \E f \in EventsOf(disk, w, m) :
           f.notified = e.notified
      /\ \A f \in EventsOf(disk, w, m) : \E e \in EventsOf(disk, w, m)' :
           f.notified = e.notified
  BY <1>1 DEF EventsOf
<1> QED  BY <1>2 DEF LedgerEntry

ToldPairs == {p \in Watches \X Messages : Told(p[1], p[2])}

\* Every step maps to a step of the ledger or to none: a send that arrives
\* tells, a COMMIT records.
LEMMA StepRecords ==
  ASSUME Assumptions, IInv, BInv, LInv, [Next]_vars
  PROVE  [Ledger!Tell \/ Ledger!Record]_Ledger!ledgerVars
<1> DEFINE entries == [w \in Watches |-> [m \in Messages |-> LedgerEntry(w, m)]]
<1>0. WatchesKnown /\ OneRowEach /\ NtfLive
  BY DEF BInv, Bookkeeping, LInv, SnapshotsLive
<1>1. ASSUME \A w \in Watches, m \in Messages : LedgerEntry(w, m)' = LedgerEntry(w, m)
      PROVE  entries' = entries
  BY <1>1
<1>2. ASSUME disk' = disk
      PROVE  entries' = entries
  BY <1>1, <1>2 DEF LedgerEntry, EventsOf
<1>3. CASE ToldPairs' = ToldPairs
  <2>1. CASE entries' = entries
    BY <1>3, <2>1 DEF Ledger!ledgerVars, ToldPairs
  <2>2. CASE disk' = db /\ UNCHANGED db
    <3>1. entries' \in [Watches -> [Messages -> {"none", "due", "done"}]]
      BY DEF LedgerEntry
    <3>2. \A w \in Watches, m \in Messages :
            /\ entries[w][m] = LedgerEntry(w, m)
            /\ entries'[w][m] = LedgerEntry(w, m)'
            /\ Told(w, m) => <<w, m>> \in ToldPairs
      BY DEF ToldPairs
    <3>3. \A w \in Watches, m \in Messages :
            \/ entries'[w][m] = entries[w][m]
            \/ /\ entries[w][m] = "none"
               /\ entries'[w][m] = "due"
               /\ <<w, m>> \in Hits
            \/ /\ entries[w][m] # "done"
               /\ entries'[w][m] = "done"
               /\ <<w, m>> \in ToldPairs
      BY <1>0, <2>2, <3>2, CommitRecords
    <3> QED  BY <1>3, <3>1, <3>3 DEF Ledger!Record, ToldPairs
  <2>3. CASE disk' = Expired(disk)
    BY <1>1, <2>1, <2>3, WindowRecordsNothing
  <2>4. RowsKept \/ disk' = disk
    BY StepKeepsRows DEF LInv, Restart, LoseUncommitted
  <2> QED  BY <1>2, <2>1, <2>2, <2>3, <2>4 DEF RowsKept
<1>4. CASE ToldPairs' # ToldPairs
  <2>1. \A w \in Watches, m \in Messages :
          Told(w, m)' /\ ~Told(w, m) =>
            /\ UNCHANGED disk
            /\ \E q \in First(ntf.queue) : q.watch = w /\ q.message = m
    BY ToldBy DEF storeVars
  <2>2. PICK w \in Watches, m \in Messages : Told(w, m)' /\ ~Told(w, m)
    BY <1>4, ToldBy DEF ToldPairs
  <2>3. \A v \in Watches, n \in Messages :
          Told(v, n)' /\ ~Told(v, n) => v = w /\ n = m
    BY <1>0, <2>1, <2>2, OneHead
  <2>4. ToldPairs' = ToldPairs \cup {<<w, m>>}
    BY <2>2, <2>3, ToldBy DEF ToldPairs
  <2>5. <<w, m>> \in Hits
    BY <1>0, <2>1, <2>2, HeadIsAlert DEF LInv, AboutHits
  <2>6. entries' = entries
    BY <1>2, <2>1, <2>2
  <2>7. Ledger!Tell
    BY <2>4, <2>5, <2>6 DEF Ledger!Tell, ToldPairs
  <2> QED  BY <2>7
<1> QED  BY <1>3, <1>4

\* Without removals, the file and the owners' inboxes implement the ledger:
\* alerts become due for matches only, are done only once their owner was
\* told, and are never lost once they are durable.
THEOREM EventsImplementLedger ==
  ASSUME NoRemovals
  PROVE  Spec => LedgerSpec
<1>1. Init => Ledger!Init
  <2> SUFFICES ASSUME Init PROVE Ledger!Init
    OBVIOUS
  <2>1. \A w, m : EventsOf(disk, w, m) = {}
    BY NothingAtFirst DEF EventsOf
  <2>2. \A w \in Watches, m \in Messages : ~Told(w, m)
    BY DEF Init, NotifierInit, Told
  <2> QED  BY <2>1, <2>2 DEF Ledger!Init, LedgerEntry
<1>2. IInv /\ BInv /\ LInv /\ [Next]_vars
        => [Ledger!Tell \/ Ledger!Record]_Ledger!ledgerVars
  BY AssumptionsHold, StepRecords
<1> QED
  BY <1>1, <1>2, Invariance, BooksKept, LiveBooksKept, PTL DEF Spec, LedgerSpec, Ledger!Spec
=============================================================================
