---------------------------- MODULE AlertPipeline ----------------------------
(***************************************************************************)
(* One runtime iteration after another (_run_once in __main__.py): backfill*)
(* first, then live posts, bot commands and the notifier side by side on   *)
(* one connection, until the process dies or the iteration fails, and      *)
(* backfill again.  The runtime lock keeps every other process away from   *)
(* the file, so no statement meets a lock here; SharedConnection has the   *)
(* retries.                                                                *)
(***************************************************************************)
EXTENDS Matching, WatchCommands, Notifier

CONSTANTS
  Files,       \* files that earlier runtimes may have left
  MaxCrashes   \* bound: process deaths and forced restarts

\* Their posts and alerts are left out; each constant of Watches is one INSERT.
ASSUME PipelineAssumption ==
  /\ \A f \in Files :
       /\ f \in Store
       /\ Consistent(f)
       /\ \A r, q \in f.watches : r.watch = q.watch => r = q
       /\ f.messages = {}
       /\ f.events = {}
  /\ MaxCrashes \in Nat

VARIABLES
  phase,    \* "backfill": inside Collector.start; "live": handlers registered
  todo,     \* posts the backfill has still to take up
  posted,   \* posts that exist in the source chats
  crashes,
  overlap   \* history: <<m, n>>: m was taken up while n's handler ran

runtimeVars == <<phase, todo, posted, crashes, overlap>>

vars == <<storeVars, ing, commandVars, notifierVars, runtimeVars>>

Busy == {m \in Messages : Ingesting(m)}

Init ==
  /\ db \in Files
  /\ disk = db
  /\ IngestInit
  /\ CommandsInit
  /\ NotifierInit
  /\ phase = "backfill"
  /\ todo = {}
  /\ posted = {}
  /\ crashes = 0
  /\ overlap = {}

TakeUp(m) ==
  /\ BeginIngest(m)
  /\ overlap' = overlap \cup ({m} \X Busy)

\* A post appears.  A registered handler sees it now; the backfill does if it
\* has still to read the post's chat.
Post(m) ==
  /\ m \notin posted
  /\ posted' = posted \cup {m}
  /\ \/ phase = "live" /\ TakeUp(m) /\ UNCHANGED todo
     \/ /\ phase = "backfill"
        /\ todo' \in {todo, todo \cup {m}}
        /\ UNCHANGED <<ing, overlap>>
  /\ UNCHANGED <<storeVars, commandVars, notifierVars, phase, crashes>>

\* backfill_sources takes the posts one after the other.
BackfillNext(m) ==
  /\ phase = "backfill"
  /\ Busy = {}
  /\ \A n \in Messages : ing[n].pc # "failed"
  /\ m \in todo
  /\ todo' = todo \ {m}
  /\ TakeUp(m)
  /\ UNCHANGED <<storeVars, commandVars, notifierVars, phase, posted, crashes>>

\* add_event_handler, and the notifier and polling tasks are created.
GoLive ==
  /\ phase = "backfill"
  /\ Busy = {}
  /\ \A n \in Messages : ing[n].pc # "failed"
  /\ todo = {}
  /\ phase' = "live"
  /\ UNCHANGED <<storeVars, ing, commandVars, notifierVars, todo, posted,
                 crashes, overlap>>

\* The next iteration opens the file again and reads each chat's history as
\* far as the limit and get_entity let it.
Restart ==
  /\ LoseUncommitted
  /\ ing' = [m \in Messages |-> IdleHandler]
  /\ cmd' = [r \in Requests |->
               IF Handling(r) THEN [cmd[r] EXCEPT !.pc = "done"] ELSE cmd[r]]
  /\ ntf' = IdleNotifier
  /\ phase' = "backfill"
  /\ todo' \in SUBSET posted
  /\ UNCHANGED <<created, inbox, refused, lostAcks, posted, overlap>>

\* A crash, a failed critical task or a shutdown: tasks are cancelled and
\* the connection is closed without a COMMIT.
Crash ==
  /\ crashes < MaxCrashes
  /\ crashes' = crashes + 1
  /\ Restart

\* An exception in the backfill leaves Collector.start and _run_once.
BackfillFails ==
  /\ phase = "backfill"
  /\ \E m \in Messages : ing[m].pc = "failed"
  /\ UNCHANGED crashes
  /\ Restart

\* More than DUPLICATE_SUPPRESSION_DAYS go by.
WindowPasses ==
  /\ \E e \in db.events : e.recent
  /\ db' = Expired(db)
  /\ disk' = Expired(disk)
  /\ UNCHANGED <<ing, commandVars, notifierVars, runtimeVars>>

Ingest(m) ==
  /\ IngestStep(m)
  /\ UNCHANGED <<commandVars, notifierVars, runtimeVars>>

Arrive(r) ==
  /\ phase = "live"
  /\ BeginCommand(r)
  /\ UNCHANGED <<ing, notifierVars, runtimeVars>>

Handle(r) ==
  /\ CommandStep(r)
  /\ UNCHANGED <<ing, notifierVars, runtimeVars>>

Notify ==
  /\ phase = "live"
  /\ NotifierStep
  /\ UNCHANGED <<ing, commandVars, runtimeVars>>

Next ==
  \/ \E m \in Messages : Post(m) \/ BackfillNext(m) \/ Ingest(m)
  \/ \E r \in Requests : Arrive(r) \/ Handle(r)
  \/ Notify
  \/ GoLive
  \/ Crash
  \/ BackfillFails
  \/ WindowPasses

Spec == Init /\ [][Next]_vars

\* Python's event loop runs every ready task, and the supervisor starts the
\* next iteration; nothing makes a post, a command or a crash happen.  A send
\* that is tried again and again is answered in the end (SF), unless its
\* recipient is one of those whom no send ever reaches: for them SendSettled
\* is not enabled, and nothing is assumed.
Fairness ==
  /\ \A m \in Messages : WF_vars(Ingest(m)) /\ WF_vars(BackfillNext(m))
  /\ \A r \in Requests : WF_vars(Handle(r))
  /\ WF_vars(GoLive)
  /\ WF_vars(BackfillFails)
  /\ WF_vars(Notify)
  /\ SF_vars(Notify /\ SendSettled)

FairSpec == Spec /\ Fairness

-----------------------------------------------------------------------------
(* Safety *)

TypeOK ==
  /\ db \in Store
  /\ disk \in Store
  /\ ing \in [Messages -> Handler]
  /\ cmd \in [Requests -> Command]
  /\ created \subseteq Watches
  /\ ntf \in [pc : {"poll", "send", "mark", "close"}, queue : SUBSET PendingRow]
  /\ inbox \in [Watches -> [Messages -> Nat]]
  /\ refused \subseteq Watches \X Messages
  /\ lostAcks \in 0..MaxLostAcks
  /\ phase \in {"backfill", "live"}
  /\ todo \subseteq Messages
  /\ posted \subseteq Messages
  /\ crashes \in 0..MaxCrashes
  /\ overlap \subseteq Messages \X Messages

\* Whatever the tasks of one connection interleave, and wherever the process
\* dies, keys stay unique and no event is left without its watch.
StoresConsistent == Consistent(db) /\ Consistent(disk)

\* An event, committed or not, is about a post that is already durable: the
\* notifier always finds the message it has to quote, also after a crash.
EventMessagesStored == \A e \in db.events : e.message \in disk.messages

Duplicates(e, f) ==
  /\ e.watch_id = f.watch_id
  /\ e.message # f.message
  /\ DedupeKey[e.message] # NoKey
  /\ DedupeKey[e.message] = DedupeKey[f.message]
  /\ e.recent
  /\ f.recent

\* A watch gets two alerts for one text inside the window only when the two
\* posts' handlers ran at the same time: the check-then-insert of
\* evaluate_message is the only way around has_recent_duplicate.
DuplicatesOverlap ==
  \A e, f \in db.events :
    Duplicates(e, f) => {<<e.message, f.message>>, <<f.message, e.message>>}
                          \cap overlap # {}

\* An owner hears of a post once per watch, and once more at most for each
\* crash and each send whose answer was lost: mark_notified after the send.
DeliveryBound ==
  \A w \in Watches, m \in Messages : inbox[w][m] <= 1 + crashes + lostAcks

Told(w, m) == inbox[w][m] > 0 \/ <<w, m>> \in refused

\* notified_at is set only on an event whose owner was sent the alert, or
\* whom Telegram forbids to write to.
MarkedOnlyAfterAttempt ==
  \A e \in db.events, r \in db.watches :
    (e.notified /\ r.id = e.watch_id) => Told(r.watch, e.message)

\* An owner is only alerted to posts that match the query of the watch the
\* alert names.
AlertsMatch ==
  \A w \in Watches, m \in Messages : inbox[w][m] > 0 => <<w, m>> \in Hits

\* No watch gets two alerts for the same text inside the window.
NoDuplicateAlerts == \A e, f \in db.events : ~Duplicates(e, f)

\* A message's handler ends only when every watch it listed was evaluated.
EveryWatchEvaluated ==
  \A m \in Messages : ~Ingesting(m) => ing[m].queue = {}

-----------------------------------------------------------------------------
(* What a step may never do *)

\* A durable alert leaves the file only when the watch's own owner has asked
\* for that watch to be removed, whichever task's COMMIT takes it out.
OnlyOwnersDropAlerts ==
  [][\A e \in disk.events, v \in disk.watches :
       (/\ v.id = e.watch_id
        /\ \A f \in disk'.events :
             f.watch_id # e.watch_id \/ f.message # e.message)
       => \E r \in Requests : /\ cmd[r].op = "remove"
                              /\ cmd[r].id = v.id
                              /\ cmd[r].user = Owner[v.watch]]_vars

\* A watch is paused or resumed on disk only because its owner asked for it, or
\* somebody who had a watch of that id and has asked for its removal as well:
\* the UPDATE goes by an id that was checked before, and may be another user's
\* by then.
OnlyOwnersSwitch ==
  [][\A v \in disk.watches, w \in disk'.watches :
       (v.watch = w.watch /\ v.enabled # w.enabled) =>
         \E r \in Requests :
           /\ cmd[r].op = IF w.enabled THEN "resume" ELSE "pause"
           /\ cmd[r].id = v.id
           /\ \/ cmd[r].user = Owner[v.watch]
              \/ \E q \in Requests : /\ cmd[q].op = "remove"
                                     /\ cmd[q].id = v.id
                                     /\ cmd[q].user = cmd[r].user]_vars

-----------------------------------------------------------------------------
(* Liveness *)

Pending(w, m) == \E r \in PendingRows : r.watch = w /\ r.message = m

\* An alert to a recipient whom no send ever reaches is in the queue, and none
\* of w's about m comes before it.
HeldBack(w, m) ==
  \E q \in PendingRows :
    /\ Owner[q.watch] \in Unreachable
    /\ \A r \in PendingRows : (r.watch = w /\ r.message = m) => q.id <= r.id

\* An alert stays pending for ever only if it is, or stands behind, an alert
\* to a recipient whom no send ever reaches: each pass breaks off there.  A
\* blocked owner, failures that pass, lost answers and restarts hold nobody
\* back.
AlertsSettle ==
  \A w \in Watches, m \in Messages :
    <>[]Pending(w, m) => <>[]HeldBack(w, m)

\* The evaluation of a post comes to the watch r if no query before it raises.
Evaluated(r) ==
  \A q \in EnabledWatches : q.id <= r.id => q.watch \notin Malformed

\* A post whose handler lists a matching watch ends in its owner being told
\* of it, or of another post with the same text, if the process lives on: a
\* malformed query before the watch, or an unreachable recipient before the
\* alert, is the only thing that can keep it from the owner.
MatchReachesOwner ==
  \A h \in Hits :
    (/\ crashes = MaxCrashes
     /\ ing[h[2]].pc = "load"
     /\ \E r \in EnabledWatches : r.watch = h[1] /\ Evaluated(r))
    ~> \E n \in Messages :
         /\ n = h[2] \/ DedupeKey[n] = DedupeKey[h[2]]
         /\ Told(h[1], n) \/ (Pending(h[1], n) /\ HeldBack(h[1], n))

\* A query that raises during the backfill costs one restart for each post it
\* meets, never the startup itself: the post was committed before it was
\* evaluated, so the next backfill passes over it.
StartupCompletes == []<>(phase = "live")

-----------------------------------------------------------------------------
(* The file's events implement the ledger of AlertLedger, and what the Bot *)
(* API answered is what it has told.                                       *)

EventsOf(s, w, m) ==
  {e \in s.events : /\ e.message = m
                    /\ \E r \in s.watches : r.id = e.watch_id /\ r.watch = w}

LedgerEntry(w, m) ==
  IF EventsOf(disk, w, m) = {} THEN "none"
  ELSE IF \A e \in EventsOf(disk, w, m) : e.notified THEN "done" ELSE "due"

Ledger == INSTANCE AlertLedger WITH
  ledger <- [w \in Watches |-> [m \in Messages |-> LedgerEntry(w, m)]],
  told   <- {p \in Watches \X Messages : Told(p[1], p[2])}

\* Without removals, alerts become due for matches only, are done only after
\* their owner was told, and are never lost once they are in the file.
LedgerSpec == Ledger!Spec
=============================================================================
