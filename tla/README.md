# DealGoblin in TLA+

DealGoblin reads the posts of allowlisted Telegram chats with a user session
(Telethon), stores them in one SQLite file, matches each new post against the
watches its users have created through a bot (aiogram), and sends the owners an
alert. This directory holds TLA+ models of that program, their TLC
configurations, and proofs about them. Paths below are relative to
`src/src/dealgoblin/` unless they start with `src/`.

## 1. Inventory

| Part | State | Operations | Talks to |
|---|---|---|---|
| Collector (`ingest/collector.py`) | none of its own | `start`: backfill, then register `_handle`; `_ingest_message` | Telethon calls it; writes `messages`; awaits `on_ingest` |
| Matcher (`match/matcher.py`) | a snapshot of the enabled watches | `evaluate_message` | called by `on_ingest` (`__main__.py`); reads `watches`, FTS index; writes `match_events` |
| Repositories (`storage/repo.py`, `schema.py`) | the tables | single statements, each operation ending in COMMIT | every task, on ONE aiosqlite connection |
| Retry loop (`storage/sqlite_retry.py`) | attempt number | run, ROLLBACK, back off, run again | wraps every write |
| Watch commands (`bot/handlers_menu.py`, `handlers_keywords.py`) | none | add, remove, pause, resume; each starts with `ensure_user` | aiogram, one task per update; repositories |
| Notifier (`bot/notifier.py`) | a snapshot of the pending events | poll, send, mark, back off | Bot API; repositories |
| Supervisor (`__main__.py`, `runtime_lock.py`) | flock, stop event, restart delay; per iteration: db, session, bot, five tasks | startup, wait for the first task to end, shutdown, restart or exit | operating system, Telegram, all of the above |
| Database opening (`storage/db.py`) | schema, trigger, FTS index, recorded normalisation version | upgrade, sync, check, reindex in batches, quarantine | called at the start of every iteration |
| History search (`search/service.py`, `bot/handlers_search.py`) | `search_sessions` | start (read the largest rowid, prune, create), page | repositories; cuts pages out of `messages` and its FTS index |
| Dialogues and screens (`bot/handlers_search.py`, `handlers_keywords.py`, `ui.py`, `states.py`, `callbacks.py`, `helpers.py`) | one FSM state per chat, in the Dispatcher's memory | open a prompt, take a text as its answer, open and delete a keyword by button | aiogram; repositories |
| Text functions (`ingest/normalize.py`, `dedupe.py`, `match/fts_query.py`, `price.py`) | none | pure | collector, matcher, commands |
| Sources (`ingest/source_sync.py`, `SourceRepo.sync_authoritative`) | `sources` | replaced from the configuration at startup | Telethon's `get_entity` for titles |

**What is hard.** All tasks of one process run on one event loop and share one
connection. Every `await` is a point at which another task may run, and a
transaction belongs to the connection: a task sees the uncommitted rows of the
others, any COMMIT makes all of them durable, and any ROLLBACK undoes all of
them. Ids come from `INTEGER PRIMARY KEY` without `AUTOINCREMENT`, so the id of
a deleted last row is given out again while another task still holds it in a
snapshot. The process may die between any two statements. Sends may fail, be
refused, or succeed without an answer. Startup consists of steps that each may
fail, and shutdown has to end whatever had been started. The bot's screens stay
in the chats for ever: a button carries an id or a page number and is pressed
after the rows it was made from have changed, and the state of a chat outlives
the iteration whose handlers set it. `PROJECT.json` lists
each of these places at its line under `hazards`.

**What makes each part correct.** Tables: unique keys, no event without its watch, and only
events about durable posts. Matching: alerts for matches only, no duplicates
apart from a known race. Delivery: marked only after an attempt, every alert
settled in the end, a bounded number of repetitions. Retry: atomic when alone,
never twice, always ending. Supervisor: one runtime per host, ordered shutdown,
nothing left running, an end after a stop or a revoked session. Opening: the
recorded version is true, the index follows the text, and the service comes back.
Search: a search keeps its result, its pages are disjoint and complete, nobody
gets another user's, and the result is what the help texts promise, but for what a
starred minus word takes away. Dialogues: a
prompt waits for one answer and no longer. Keywords: a delete button never hits
another name. Sources: one configured list as a whole, wherever the process dies.

## 2. Modules

```
Storage <- Matching      \
        <- WatchCommands  > AlertPipeline <- MCAlertPipeline        (TLC)
        <- Notifier      /       |      \--- AlertLedger            (abstract specification)
        <- StorageProofs ------- AlertPipelineProofs
                                     <- AlertDeliveryProofs         (TLAPS)
SharedConnection <- MCSharedConnection                              (TLC)
                 <- SharedConnectionProofs                          (TLAPS)
Supervisor       <- SupervisorProofs                                (TLAPS)
InitDb           <- InitDbProofs (with Extrema)                     (TLAPS)
PhraseQuery <- BotStore <- HistorySearch <- Dialogues <- BotScreens
                                            BotScreens <- MCBotScreens      (TLC)
                                                       <- BotScreensProofs  (TLAPS, with Extrema)
```

A definition whose comment begins with `Mutant:` is a deliberately wrong variant
of the definition that follows it. Nothing uses it; put in place of the right one,
it breaks the property `PROJECT.json` names, which shows that the property
depends on that piece of code.

### Storage
`db` is what a statement on the connection sees, `disk` what the last COMMIT left
in the file. Each SQL statement is one operator on `db`; `Commit` copies `db` to
`disk`; `LoseUncommitted` does the opposite. `NextId` is SQLite's allocation
rule (largest id present, plus one). A foreign key or UNIQUE constraint that
fails is `EventRejected` or `DeleteRejected`. A watch's owner, name and query
never change after the INSERT, so `Watches` holds one constant per INSERT, and
`Owner`, `Hits`, `Malformed` say what is in it. The time window of duplicate
suppression is the flag `recent` of an event, cleared by `Expired`. All events
leave the window at once.

### Matching
`ing[m]` is the handler of post `m`: program counter, and the rows of the
snapshot it has still to look at. Actions follow the awaits of
`_ingest_message` and `evaluate_message`: `StoreMessage`, `CommitMessage`,
`LoadWatches`, then per watch `ConsiderWatch`, `CreateEvent`, `CommitEvent`.
`ConsiderWatch` takes the MATCH query and the search for a recent duplicate as
one step; nothing another task does between the two can change the outcome of
the first, and the window that matters, between that search and the INSERT, is
kept. Posts without any text are skipped before anything is written, and are not
in `Messages`; posts whose normalised text is empty are `Wordless`.

### WatchCommands
`cmd[r]` is the handler of update `r`. `EnsureUser` is there for its COMMIT,
which flushes what other tasks have written. The delete button of the keyword
screen looks the watch up before it removes it; as the removal repeats the
owner's check, that changes nothing that is stored, and both are `RemoveEvents`
followed by `RemoveWatch`.

### Notifier
`ntf` is the loop and the rest of its snapshot. A send is answered
(`SendOk`), refused (`SendForbidden`), fails (`SendFails`), or arrives and is
reported as failed (`SendLostAck`). `Blocked` users refuse every send; to
`Unreachable` ones every send ends in another error (chat not found), which ends the
pass. `inbox` counts what arrived and is not part of the program's state.

### AlertPipeline
Composes the four on one connection and adds the iterations of `_run_once`:
`phase = "backfill"` inside `Collector.start`, `"live"` from the registration
of the handlers on. `Crash` stands for the death of the process and for every end
of an iteration: both lose what is uncommitted and end all tasks. The next
backfill sees any subset of the posts (limit, `get_entity` failures), and of the posts that
appear while it runs those whose chat it has still to read. The file may be new or
hold watches that earlier runtimes left (`Files`). `overlap`
is a history variable: which handlers ran at the same time. The runtime lock
keeps other runtimes away from the file, so no statement meets a lock here; what
locks do is the subject of SharedConnection.

### AlertLedger
What alerting promises with no process in sight: per watch and post an entry
`none`, `due` or `done`. It becomes due for a match only, and done for ever, once
the owner was told or has refused. `LedgerSpec` in AlertPipeline is this
specification under the mapping `LedgerEntry`, computed from the file alone.

### SharedConnection
The retry loop of `sqlite_retry.py` for several operations on one connection
while another process takes and frees the file's write lock. A row is one
execution of one statement. In WAL mode a COMMIT does not meet that lock, so
only statements do. `shared` and `dropped` are history variables.

### Supervisor
`run[p]` is a process: where it is, which tasks and resources are alive, which
tasks are over and how, the error under way, the stop event and the delay. An
error is the sequence its `__cause__` and `__context__` chain. `Started` is one
await of the startup, `CleanUp` one of the finally clause. The healthcheck's failure counter is
abstracted to the task ending at some time; the text inside the lock file, and
an exception of `db.close()`, are left out.

### InitDb
One file, opened by one release after another. A row is the version of the
normal form its text is in, with rows (`Stable`) whose text every version writes
alike. DDL outside a transaction is durable at once (`Durably`), DML waits for a
COMMIT. Quarantined files are never read again, so moving them away is a new
empty file; the three renames are one step. Releases only get newer.

### PhraseQuery
What `build_phrase_fts_query` makes of a typed text, what FTS5 finds with it, and
the rule of the help texts beside it (`Obeys`). A post is the sequence of its
normalised words, a typed token the words in it: none (`---`), one, or several
(`wi-fi`). `Bare` says what a minus word matches in the query, where the words of three
letters or more are starred: all words that begin with it (`Begins`). The help texts
speak of the word itself, and so does `Obeys`. `Overshot` is the difference.

### BotStore
The tables behind the screens on the shared connection: `messages`,
`search_sessions`, the keywords among `watches`, `sources`. Rows of `messages` are
never deleted, so the rowid of a post is its place in a sequence. `Page` is
`ORDER BY rank, rowid DESC LIMIT .. OFFSET ..`; `Rank` depends on the set of all
stored posts, because bm25 does. Each text a user sends is a value of its own, which
is what lets a property say which search a button belongs to.

### HistorySearch
`req[r]` is the handler of update `r`. A search reads the largest rowid, prunes the
old sessions of everybody, inserts its own, commits, and then goes on as a page button
does: look the session up for its owner, count, clamp the page, cut it out, answer. Each
`await` on the database ends an action. `shown` and `expired` are history
variables. More than `retention_days` pass only while no handler runs
(`WeekPasses`): a handler takes seconds.

### Dialogues
`fsm` is the state of each chat. aiogram reads it when an update comes in and runs the
handler as a task, so a text is bound to its handler by `SendText`, and
`ClearState` clears whatever state there is by then. A keyword is saved, committed,
and the state cleared; its details screen and its delete button carry the id alone.
`prompt` and `details` are history variables: what became of the last prompt, and
which delete buttons are in the chats, each under the keyword its screen names.
The buttons of the menu's router leave the state alone and only read; they are left
out.

### BotScreens
Composes these with the startup of an iteration, which replaces the sources, with
posts being stored by other tasks, and with the two ends. `Die` is the death of the
process: everything in memory is gone and the configuration may have changed.
`Restart` is the end of an iteration within the process: the Dispatcher and its
states stay, and as `stop_polling` does not wait for the handlers' tasks, one that has
only to clear its state still does so, in the next iteration; all others fail on
the closed connection.

## 3. Runs

| Run | Instance | Shows |
|---|---|---|
| `alerts_safety` | 1 post, 2 watches of 2 users, 3 requests (add, remove), 1 crash, 1 lost acknowledgement; 986,684 states | `TypeOK`, `StoresConsistent`, `EventMessagesStored`, `DeliveryBound`, `OnlyOwnersDropAlerts` |
| `alerts_ledger` | 2 posts (one without words), 2 watches, 2 requests (add, pause, resume), 1 crash; 312,349 states | `MarkedOnlyAfterAttempt`, `AlertsMatch`, `OnlyOwnersSwitch`, and that the file implements AlertLedger |
| `alerts_delivery` | 2 posts of one text, 1 crash, and files with two watches: the second behind that of a user who blocked the bot or of one nobody can reach, or before a malformed one; 84,340 states | `DuplicatesOverlap`, `StartupCompletes`, `MatchReachesOwner`, `AlertsSettle` (the last three liveness) |
| `shared_connection` | 3 operations (two statements, one, one rejected), 2 attempts, 1 crash; 30,309 states | `AloneIsAtomic`, `AcknowledgedIsDurable`, `InsertedOnce`, `OperationsEnd` (liveness) |
| `supervisor` | 2 processes, 3 launches, 3 failures, delays 3..5; 34,414 states | `OneRuntime`, `NothingLeftRunning`, `UsedPartsAreOpen`, `NoUselessRestart`, `StopEnds` and `DuplicatedSessionEnds` (liveness) |
| `init_db` | 4 rows, batches of 2, 3 releases, 2 crashes, 2 corruptions; 10,211 states | `VersionIsTruthful`, `IndexFollowsText`, `AlwaysServesAgain` (liveness) |
| `bot_screens` | 2 users, 5 texts, 4 posts (3 stored before), pages of 2, 2 updates at a time, 3 updates, 1 crash, 2 configurations; 375,593 states | `PageButtonsHold`, `PagesAreDurable`, `PagesPartition`, `ResultsFollowHelp`, `AnsweredPromptsClose`, `LostPromptsOverlap`, `SnapshotsStayFrozen`, `DeleteHitsItsName`, `SourcesStayWhole` |
| `duplicate_alerts` | 2 posts, 1 watch | violated: see finding 1 |
| `reused_event_id` | 1 post, 2 watches, 3 requests | violated: see finding 2 |
| `malformed_query` | 1 post, 2 watches, one malformed | violated: see finding 3 |
| `legacy_index` | 3 rows written before there was an index | violated: see finding 4 |
| `starred_minus_word` | the instance of `bot_screens` with one update and no crash | violated: see finding 5 |

**Why these bounds are enough.** Every hazard needs at most two actors of a kind.
A race on a duplicate takes two posts. In `alerts_delivery` the queue and the loop over
the watches need a second watch only to stand before the first or behind it, so its
watches are in the file from the start and no command is handled; which of the
three kinds the other one is differs from file to file. Reuse of an id takes a removal and a
second add, so three requests; half a removal takes one request and any other
COMMIT. A crash leaves what is on disk and what has arrived, which is also where
a second one would start; it would repeat one more delivery, and `DeliveryBound`
counts crashes. A reindex takes a full batch,
a second batch and its end (4 rows, batches of 2), a release that interrupts
another's reindex (3 releases), and two deaths. One retry shows what a retry does to
the neighbours, and the last attempt differs from the others (2 attempts).
`OnlyOwnersSwitch` is checked without removals: an instance in which an id changes hands
under a pause has too many states. Its theorem covers them.
In `bot_screens` the posts that match make a second page of two and a clamped one, and the
oldest ranks first once the fourth is stored. One post has a word that begins with a
minus word, and one minus word is too short for a star; a search, its page button and a second search
in between make three updates, and so do a keyword's screen, its removal and the keyword
that reuses its id (one keyword is there from an earlier process, its row perhaps gone). The
five texts are a phrase, `/search` with two minus words, `/search` of the other
user, a query of minus words alone, and a saved keyword. Only one user opens prompts, as
chats do not share a state.
Requests are interchangeable, and in `bot_screens` the chats too; the runs of safety
properties use that symmetry, no run with a liveness property does. `CHECK_DEADLOCK FALSE` stands in every configuration,
because each of these systems may come to rest: all posts handled and nothing
pending, all operations done, all processes ended, a database that serves.

**Fairness, and what justifies it.** asyncio runs every ready task, and the
statements of the one connection are executed in order, so each handler, each
operation and each step of a startup or shutdown gets weak fairness. No post,
command, signal, crash, corruption or foreign lock is ever forced. Strong
fairness is used once: a send that the notifier keeps retrying is answered at
some time, with success or Forbidden. Without it nothing can be delivered while the Bot
API is down. It does not extend to `Unreachable` users, whose sends always fail in another
way: no answer of theirs is enabled, and the two delivery properties say what such a
recipient does to the others (`HeldBack`). `StopEnds` and
`DuplicatedSessionEnds` assume in addition that the awaits of a startup return
or raise: with `telethon_connection_retries = -1` (`config.py:21`), a network that
never comes back keeps `telethon.start()`, and so the process, waiting.
`AlwaysServesAgain` assumes that somebody launches the process again
(`restart: unless-stopped` in `src/docker-compose.yml`). Liveness after crashes is bounded by `MaxCrashes`, as
a process that always dies makes no progress.

### Findings

1. **Two alerts for one text** (`match/matcher.py:34`). The search for a recent
   duplicate and the INSERT are separate awaits; two handlers pass the search
   together. `DuplicatesOverlap` shows that this is the only way.
   `src/README.md:41` promises suppression without that exception.
2. **An alert marked but never sent** (`bot/notifier.py:58`). The watch is
   removed while its alert is being sent; the event's id goes to a new event;
   `mark_notified(id)` marks that one. `src/docs/deployment-vps.md:169` gives
   `notified_at` the meaning sent or skipped for a blocked owner.
   `MarkedOnlyAfterAttempt` holds while nobody removes a watch (`alerts_ledger`,
   `MarksFollowAttempts`).
3. **One malformed query silences the watches behind it**
   (`match/matcher.py:24`). `/watch_add_fts` stores any text, and MATCH raises out of
   the loop. During the backfill it also ends the startup, once per post;
   `StartupCompletes` shows that the startup still gets through.
4. **The row-count check never fires** (`storage/db.py:188`). `COUNT(*)` on an
   external-content FTS5 table counts the content table. Rows older than the
   index are indexed only when the reindex happens to change their text. The
   behaviour of FTS5 was confirmed with SQLite 3.40.
5. **A minus word drops more than itself** (`match/fts_query.py:50`). A minus word of
   three letters or more becomes a prefix (`NOT red*`), so a post with `redwood` is not
   found although `red` is not in it. The help text (`bot/ui.py:111-112`) promises the
   posts in which the minus words are not. `ResultsFollowHelp` and `HelpIsTrue` say that
   this is the only difference. `src/tests/test_match.py:35` expects the starred query, so
   the help text may be what is to be changed.

Further limits follow from the models and contradict no document:

- A process that dies between committing a post and evaluating its watches never
  creates its alerts, as the next backfill passes over the post
  (`MatchReachesOwner` starts behind that point).
- A post that arrives between its chat's backfill and the registration of the
  handler waits for the next restart.
- An alert to a recipient whose sends fail for good with an error other than Forbidden stays
  at the head of the queue and ends every pass (`bot/notifier.py:64-66`): nobody's later
  alerts are sent. `AlertsSettle` and `MatchReachesOwner` say that only this, or an alert of
  one's own to such a chat, keeps an alert pending for ever. `src/docs/deployment-vps.md:172-176`
  knows stalled queues and leaves them to the operator.
- `/watch_pause` and `/watch_resume` look a watch up for its owner and then update by
  id alone. A removal and a new watch in between make it another user's. `OnlyOwnersSwitch`
  allows for just that: whoever switches another user's watch has asked for the removal
  of a watch with that id.
- Of a typed token of several words (`wi-fi`) only the first is searched for;
  `ResultsFollowHelp` is about queries without such tokens (`Plain`).
- `search_submit` is registered before `cmd_search`, so `/search lamp` typed into a
  prompt is searched for as a whole.
- A page button whose session has expired may name a later search of the same user,
  whose id is the same, and even one that is not committed yet. A screen such a button
  brings up shows the later search before its COMMIT (`Early`), and if the process dies
  then, the buttons under that screen lead nowhere, or to a third search. These two are
  the exceptions, `Lapsed`, of `PageButtonsHold` and `PagesAreDurable`; the second is the
  one of `ResultsFollowHelp`. A button never names another user's search.
- bm25 weighs a post against all posts, so a post stored between two pages may move
  others across them; `PagesPartition` compares pages read with the same posts.
- A prompt opened while an earlier text of the chat is handled is cleared with that
  text's (`LostPromptsOverlap` says that this is the only way to lose one).

## 4. Proofs

`tlapm` checks these for all values of the constants, under the `ASSUME`s of the
modules: types of the constants; `BaseDelay <= MaxDelay`, which `config.py:83-90`
validates; no post stored twice, which a UNIQUE key sees to (`storage/schema.py:24`).
Of the files an earlier runtime left it is assumed that they are consistent; of words, that
each begins with itself.
Four of the results have one hypothesis more, discussed below: three of AlertDeliveryProofs
(`NoRemovals`), and `IndexFollows` (`~Legacy`).

**AlertPipelineProofs** (with lemmas on the tables in StorageProofs).
`TypeCorrect`, `StoresStayConsistent` and `EventsQuoteStoredPosts` follow from
`Invariance`: `Spec => []IInv`. `StoresConsistent` alone is not inductive,
because a COMMIT copies `db` to `disk` and a crash copies `disk` to `db`; both views
have to satisfy the same condition, `Sound` (typed, `Consistent`, events about
stored posts). `EventMessagesStored` speaks of events in `db` and posts on
`disk`; it survives `CreateEvent` only because a handler that got past its COMMIT
works on a durable post, which is `StagesStored`. The typing of the handlers'
snapshots is what makes the ids they write legal. The argument has one lemma per statement on the
tables (`Sound` is kept), and then one step per action. StorageProofs also says of each
statement which rows are there afterwards (`...Rows`); most invariants below
are about rows, and none of their proofs opens a statement again.

**AlertDeliveryProofs.** First what holds of every instance.
`DuplicatesComeFromOverlap` needs a fact about the moment between the search for a
duplicate and the INSERT (`NoneAlike` in `OInv`): whatever alert of the same text is
there by then comes from a handler on record as having run beside this one. It is kept
because the handler that inserts such an alert meanwhile is running beside this one too.
`DeliveriesAreBounded` rests on `BInv`. A post is told once more than crashes and lost answers
explain only when the notifier has its alert in hand and is about to mark it, or it
is marked (`TellingMarked`). For that to last, nothing may insert a second alert of the
same watch and post: whoever still could has none in the tables (`UntriedUntold`). Removals
do not spoil it, though a new watch may have the id: the new one has not been
told of anything (`NothingAhead`), and a row of the notifier's snapshot names the watch
that its JOIN found, not the id.
`DropsWereAskedFor` is an action property whose cause and effect lie apart: a removal
deletes in `db`, and any task's COMMIT takes it to the file. In between, what `db` lacks
and the file still has is what an owner asked to remove (`DropsAsked`).
`SwitchesWereAskedFor` is of the same kind and the harder one, as the UPDATE names an id that
was checked an await earlier. The row a command looked up is its user's still, or that user
has asked for its removal since (`UpdateChecked`), because only a removal frees an id. What
`db` has switched and the file not was asked for (`SwitchesAsked`); that the two compare the
same row needs that a watch keeps its id from one view to the other (`SameIds`).

Then the results with the hypothesis `NoRemovals`, that users never remove a watch. It
restricts what users do and not the program, and it is needed: with removals an id may
pass to another row while a task still holds it, and the properties are false (finding 2
shows it of the first). What it gives is `LInv`: the rows behind the
snapshots of handlers and the notifier are still there and still mean the
same (`SnapshotsLive`), and what is on disk is in `db` (`DiskInDb`). From it,
`MarksFollowAttempts`, `AlertsAreMatches` and
`EventsImplementLedger`: a send that arrives or is refused is the ledger's `Tell`, a
COMMIT that takes new or marked alerts to the file its `Record`, and every other step
stutters. This theorem is the one to read first for what the pipeline promises.

**SupervisorProofs.** `RuntimeIsExclusive` needs that every live process is the
one holder of the flock (`AliveHolds`), and that a process outside an iteration
has nothing open (`NothingLeftRunning`); with `TypeOK` the three are inductive
(`SInv`). `SupervisorTyped` includes the bound on the restart delay, by the
minimum in `NextDelay`. `RestartsAreUseful` is an action property from the same
invariant: only `Conclude` leads to the pause, and its test reads the same stop
flag and error chain that the property does. `UsedPartsStayOpen` adds `PartsInv`: while a
startup is at some step, what it has opened so far is what that step's tasks
need, and a shutdown ends the first part that is alive in `CleanupOrder`
(`NextPart`), in which every task stands before the parts it uses.

**SharedConnectionProofs.** `AloneAtomic`, `AcknowledgedDurable` and
`InsertedOnceAtMost` follow from one inductive invariant, `CInv`. Its parts: uncommitted rows
need the write lock, which is then not another process's (`Locks`); a row belongs
to an attempt that has begun and a statement that was executed, and one of the last
statement to the last attempt (`RowsKnown`); what an operation wrote in
this attempt is there unless it was dropped (`Kept`); operations that overlap are
`shared`, and so are dropped ones (`Together`); uncommitted rows have an owner that
is under way or was rejected, and one that runs alone has none in the file before
its COMMIT (`Owners`). `InsertedOnce` follows from `RowsKnown`: two rows of one
last statement agree in their attempt.

**InitDbProofs.** `VersionTruthful` needs what holds in the middle of a reindex
(`LoopKept`): all rows up to `last_rowid` are in the release's form and the batch in
hand is what follows, without gaps; so the batch that comes back empty leaves no row
behind. And it needs what the recorded version says at all other times (`VersionKept`):
it is never newer than the release, and when it names the release, every row is in the
release's form. That a LIMIT takes the first rows (`BatchIsInitial`) and that the
largest of a batch is its last rests on Extrema. `IndexFollows` assumes `~Legacy`, a
file that had the index from its first row on. The run `legacy_index` shows what happens
without it. Its invariant (`IndexKept`) says that in the file and in the open
transaction the index equals the text, and that from the sync of the trigger to the end
of the reindex some trigger is there, so that the batch's UPDATE reaches the index too.

**BotScreensProofs.** `BotScreensTyped` includes that every page shown has a number from
1 up, which the clamping gives, and that a new id is larger than all in use
(`NextIdIsNew`). The theorems about prompts rest on `PromptsInv`: a handler that has
only to clear the state was submitted by the chat's user, so a prompt shown meanwhile
is contested and never open; and an answered prompt has left the state cleared, or
a handler that will. `StepsAreQuiet` says that all steps but a few leave the
handlers at that point alone; those few have a lemma each. `SourcesReplacedWhole`
rests on `SourcesInv`: until the startup's COMMIT nobody else writes, the rows are a part of
the old list and the new one, and what is still to do makes up the difference.
`DeleteNamesItsRow` and `SearchesFrozen` share `RowsInv`. As each text is sent once, one that is
being handled names nothing yet (`NewcomersInv`); hence a name has one id in both views
and on all screens, though an id may have had several names (`NamesInv`), and a
search has one query and one snapshot, of rows that are durable when it is
(`SnapshotsInv`). All steps but three are `Tame`: they bring no new
name and only copy, drop or age rows.

`ButtonsHold` and `PagesLast` add `PagesInv`. An id is one session's in each view, and a
name has one id in both (`SessionsInv`). Each button on a screen leads to a session that is
durable, with that many pages, or its search has lapsed (`ButtonsInv`). And a
handler is on course (`OnCourse`): what it is to show is what its button named, before and
after each of its awaits. The steps are sorted by what they do to the tables (`StoreStep`:
rows come, a COMMIT, a week passes, or a rollback that leaves no handler in the
middle), so the argument has four cases and not one per action. The
proof would not go through for the properties as they were first stated, without `Early`. The
case left over was a real one: it takes four updates and a crash, which
is one update more than the run `bot_screens` has. The theorems are about any number.

`PagesArePartitions` rests on `ReadInv`: all readings of one search have its query and
snapshot (`KnownInv`), and each was cut from one order of the rows it found (`CutsInv`),
which after the session is gone is that of a former table. A row stands on the page
that the number of rows before it selects, so pages are disjoint; with all numbers from
1 to `Pages(total)` read, each row is on one of them, and so the pages together have
`total` posts. That posts are as many as rows needs that no post has two rows, which
is a UNIQUE key (`storage/schema.py:24`); the proof is where this became a condition on
`Stored`.

`HelpIsTrue` joins two things. `QueryFollowsHelp` is about data: for a query without tokens of
several words, what `build_phrase_fts_query` builds matches a text exactly when the text
obeys the rule of the help texts and is not `Overshot`. The help's rule is stated with the
minus words and the query with what their stars make of them; `BareAbsent` says for one
word what lies between the two. It is proved for all queries and texts. The
theorems on induction in the library cannot be used (they take an operator); instead
`Upwards` argues by the least counterexample in a set of numbers, and `Rounds` says
of a loop, given as a function from round to round, that what each round keeps holds at the
end. For this `Kept` is the loop of `parse_search_input`, word by word. `HelpInv` is about the
program: nothing without a phrase is ever searched for (`UsableInv`), and the
count on a screen is still true of the file (`LastingInv`), because a search counts rows
that its own COMMIT has made durable (`Holds`, `Owns`).

**Extrema** proves of `Max` and `Min` of the community modules what their names say.
Induction over finite sets is out of the prover's reach, so the argument goes by a minimal element
of the strict subset ordering: of the sets of larger members, take one that includes no
other; its element has none above it.

**Only model-checked.** The seven liveness properties: `MatchReachesOwner`,
`StartupCompletes`, `AlertsSettle`, `OperationsEnd`, `StopEnds`, `DuplicatedSessionEnds`
and `AlwaysServesAgain`. They depend on fairness, and ENABLED is outside the prover's
reach. Every invariant, action property and refinement of the passing runs is a theorem.
The findings are counterexamples of TLC, and need no proof.

## 5. Not modelled

- Normal forms of words, price extraction, dedupe keys and links: pure string
  functions with table-driven tests (`src/tests`). The models take their results as
  constants (`Begins`, `Hits`, the texts of posts).
- What only reads and prints: menus, settings, statistics, paging through the keywords,
  snippets, keyboards, `/watch_list`, and `forward_all_ingested`, which sends a copy of each
  post and changes nothing.
- Updates that Telegram delivers again because the process died before it
  confirmed them: each text is sent once.
- `SourceRepo.add`, `remove` and `WatchRepo.remove`: nothing in the program calls them.
- The text that `build_fts_query` makes of the terms of `/watch_add`
  (`bot/handlers_menu.py:183`): what it matches is in `Hits`, and where it makes none the
  handler answers before it touches the database (184-186), so there is no request.
- `tools/resolve_source.py` and `telethon_auth.py` (input and output without state of
  the program), the parsing of the configuration (what it guarantees is an `ASSUME`
  where it is needed), logging, deployment scripts and CI.
- What SQLite does with a new database and an old write-ahead log, if the process dies
  between the renames of a quarantine.

## 6. Plan

Done, in this order, the most important behaviour first: Storage, Matching,
WatchCommands, Notifier, AlertPipeline with AlertLedger; SharedConnection;
Supervisor; InitDb; PhraseQuery to BotScreens; the proofs of section 4.

Next, models:
1. SharedConnection with the statements of Storage in place of anonymous rows,
   so that a rollback can undo another task's event between INSERT and COMMIT.
2. The dedupe key across an upgrade: InitDb composed with the duplicate check.
3. `bot_screens` with two users' prompts and a crash more, on a machine with more time.

Next, proofs: those of the models above as they come; and, for the liveness properties,
the safety part of each argument (what stays enabled until it is taken, and which
measure every other step leaves alone or lowers).
