------------------------------ MODULE BotScreens ------------------------------
(***************************************************************************)
(* The bot's screens over the iterations and processes of the runtime: each*)
(* replaces the sources by the configured ones (ingest/source_sync.py,     *)
(* SourceRepo.sync_authoritative), then takes updates while posts are      *)
(* stored, until the iteration fails or the process dies.  The Dispatcher, *)
(* and in it the state of every chat, lives as long as the process.        *)
(***************************************************************************)
EXTENDS Dialogues

CONSTANTS
  Chatters,     \* bound: users who open prompts
  Allowlists,   \* values that SOURCE_CHAT_IDS has had
  MaxUpdates,   \* bound: texts sent and buttons pressed
  MaxCrashes    \* bound: process deaths and restarts of the iteration

ASSUME ScreensAssumption ==
  /\ Chatters \subseteq Users
  /\ Allowlists \subseteq SUBSET Chats
  /\ MaxUpdates \in Nat
  /\ MaxCrashes \in Nat

VARIABLES
  phase,    \* how far the startup is
  allow,    \* the configured source chats
  named,    \* those of them that get_entity gave a title for
  todo,     \* chats still to be upserted
  storing,  \* posts that are inserted and not committed by their own handler
  updates,
  crashes

runtimeVars == <<phase, allow, named, todo, storing, updates, crashes>>

vars == <<db, disk, searchVars, dialogueVars, runtimeVars>>

\* An earlier process has stored posts and keywords and synced its sources; its
\* screens are still in the chats, those of removed keywords too.  This one has
\* just come up with the same configuration.
Init ==
  /\ allow \in Allowlists
  /\ \E kept \in SUBSET DOMAIN Saved :
       db = [posts    |-> Stored,
             sessions |-> {},
             keywords |-> {[id |-> i, text |-> Saved[i]] : i \in kept},
             sources  |-> allow,
             titled   |-> allow]
  /\ disk = db
  /\ req = [r \in Requests |-> NoRequest]
  /\ shown = {}
  /\ expired = {}
  /\ fsm = [u \in Users |-> "none"]
  /\ prompt = [u \in Users |-> "closed"]
  /\ sent = ToSet(Saved)
  /\ details = {[user |-> Sender[Saved[i]], id |-> i, text |-> Saved[i]] : i \in DOMAIN Saved}
  /\ phase = "live"
  /\ named = {}
  /\ todo = {}
  /\ storing = {}
  /\ updates = 0
  /\ crashes = 0

-----------------------------------------------------------------------------
(* Startup: nothing else uses the connection yet. *)

\* get_entity for each chat; the one that cannot be read keeps its title.
ResolveTitles ==
  /\ phase = "resolve"
  /\ named' \in SUBSET allow
  /\ todo' = allow
  /\ phase' = "delete"
  /\ UNCHANGED <<db, disk, searchVars, dialogueVars, allow, storing, updates, crashes>>

\* Mutant: the DELETEs are committed before the new rows are written.
DeleteAndCommit ==
  /\ phase = "delete"
  /\ db' = [db EXCEPT !.sources = @ \cap allow, !.titled = @ \cap allow]
  /\ disk' = db'
  /\ phase' = "upsert"
  /\ UNCHANGED <<searchVars, dialogueVars, allow, named, todo, storing, updates, crashes>>

DeleteStale ==
  /\ phase = "delete"
  /\ IF db.sources \subseteq allow
     THEN phase' = "upsert" /\ UNCHANGED db
     ELSE /\ \E c \in db.sources \ allow :
               db' = [db EXCEPT !.sources = @ \ {c}, !.titled = @ \ {c}]
          /\ UNCHANGED phase
  /\ UNCHANGED <<disk, searchVars, dialogueVars, allow, named, todo, storing, updates, crashes>>

\* ON CONFLICT: COALESCE keeps a title that get_entity did not give this time.
Upsert ==
  /\ phase = "upsert"
  /\ \E c \in todo :
       /\ db' = [db EXCEPT !.sources = @ \cup {c}, !.titled = @ \cup ({c} \cap named)]
       /\ todo' = todo \ {c}
  /\ UNCHANGED <<disk, searchVars, dialogueVars, phase, allow, named, storing, updates, crashes>>

CommitSources ==
  /\ phase = "upsert"
  /\ todo = {}
  /\ Commit
  /\ phase' = "live"
  /\ named' = {}
  /\ UNCHANGED <<searchVars, dialogueVars, allow, todo, storing, updates, crashes>>

-----------------------------------------------------------------------------
(* Posts (_ingest_message): an INSERT, and a COMMIT of the handler's own. *)

InsertPost(p) ==
  /\ phase = "live"
  /\ p \notin ToSet(db.posts)
  /\ db' = [db EXCEPT !.posts = Append(@, p)]
  /\ storing' = storing \cup {p}
  /\ UNCHANGED <<disk, searchVars, dialogueVars, phase, allow, named, todo, updates, crashes>>

CommitPost(p) ==
  /\ p \in storing
  /\ Commit
  /\ storing' = storing \ {p}
  /\ UNCHANGED <<searchVars, dialogueVars, phase, allow, named, todo, updates, crashes>>

-----------------------------------------------------------------------------
(* Ends *)

\* The process dies; the next one may find another configuration.  What the
\* Dispatcher knew of the chats is gone.
Die ==
  /\ crashes < MaxCrashes
  /\ crashes' = crashes + 1
  /\ LoseUncommitted
  /\ req' = [r \in Requests |-> NoRequest]
  /\ fsm' = [u \in Users |-> "none"]
  /\ prompt' = [u \in Users |-> "closed"]
  /\ allow' \in Allowlists
  /\ phase' = "resolve"
  /\ storing' = {}
  /\ UNCHANGED <<shown, expired, sent, details, named, todo, updates>>

\* Mutant: the handlers that still run are taken for answered.
RestartClearing ==
  /\ crashes < MaxCrashes
  /\ phase = "live"
  /\ crashes' = crashes + 1
  /\ LoseUncommitted
  /\ req' = [r \in Requests |-> NoRequest]
  /\ fsm' = [u \in Users |-> IF Submitting(u) THEN "none" ELSE fsm[u]]
  /\ phase' = "resolve"
  /\ storing' = {}
  /\ UNCHANGED <<shown, expired, prompt, sent, details, allow, named, todo, updates>>

\* The iteration ends and the supervisor starts another one.  stop_polling
\* does not wait for the handlers' tasks: those that still need the closed
\* connection raise, those that have only to clear their state do it later.
Restart ==
  /\ crashes < MaxCrashes
  /\ phase = "live"
  /\ crashes' = crashes + 1
  /\ LoseUncommitted
  /\ req' = [r \in Requests |-> IF req[r].pc = "clear" THEN req[r] ELSE NoRequest]
  /\ phase' = "resolve"
  /\ storing' = {}
  /\ UNCHANGED <<shown, expired, dialogueVars, allow, named, todo, updates>>

-----------------------------------------------------------------------------
Startup ==
  \/ ResolveTitles
  \/ DeleteStale
  \/ Upsert
  \/ CommitSources

Counted ==
  /\ updates < MaxUpdates
  /\ updates' = updates + 1
  /\ UNCHANGED <<phase, allow, named, todo, storing, crashes>>

Update(r) ==
  /\ phase = "live"
  /\ \/ PressPage(r) /\ UNCHANGED dialogueVars
     \/ \E t \in Texts : SendText(r, t)
     \/ PressOpen(r)
     \/ PressDelete(r)
  /\ Counted

Handle(r) ==
  /\ \/ (EnsureUser(r) \/ SearchStep(r)) /\ UNCHANGED dialogueVars
     \/ Answer(r)
     \/ KeywordStep(r)
     \/ ClearState(r)
  /\ UNCHANGED runtimeVars

Press(u) ==
  /\ phase = "live"
  /\ PressBack(u) \/ \E state \in {"query", "text"} : ShowPrompt(u, state)
  /\ Counted

Next ==
  \/ \E r \in Requests : Update(r) \/ Handle(r)
  \/ \E u \in Chatters : Press(u)
  \/ \E p \in Posts : InsertPost(p) \/ CommitPost(p)
  \/ WeekPasses /\ UNCHANGED <<dialogueVars, runtimeVars>>
  \/ Startup
  \/ Die
  \/ Restart

Spec == Init /\ [][Next]_vars

-----------------------------------------------------------------------------
(* Safety *)

TypeOK ==
  /\ db \in Tables
  /\ disk \in Tables
  /\ req \in [Requests -> Request]
  /\ shown \subseteq ResultPage
  /\ expired \subseteq Texts
  /\ fsm \in [Users -> {"none", "query", "text"}]
  /\ prompt \in [Users -> PromptStates]
  /\ sent \subseteq Texts
  /\ details \subseteq [user : Users, id : Nat, text : Texts]
  /\ phase \in {"resolve", "delete", "upsert", "live"}
  /\ allow \in Allowlists
  /\ named \subseteq Chats
  /\ todo \subseteq Chats
  /\ storing \subseteq Posts
  /\ updates \in 0..MaxUpdates
  /\ crashes \in 0..MaxCrashes

\* A button of an expired search, whose id the search t was given, showed t
\* before its own COMMIT, so that a crash could still take it back.
Early(t) == \E s \in shown : s.text = t /\ s.early

\* The buttons of the search t may lead elsewhere.
Lapsed(t) == t \in expired \/ Early(t)

\* A page button shows the page it names of the search it stands under, also
\* after crashes, unless that search has lapsed; and whatever session has its
\* id by then, it is one of the user's own.
PageButtonsHold ==
  \A r \in Requests :
    /\ req[r].pc \in {"count", "rows"} => Sender[req[r].text] = req[r].user
    /\ req[r].pc = "rows" => \/ req[r].text = req[r].named /\ req[r].page = req[r].target
                             \/ Lapsed(req[r].named)
    /\ req[r].pc = "denied" => Lapsed(req[r].named)

\* The posts a results page is cut from are durable, though the search reads
\* what ingestion has not committed: the session's own COMMIT comes in between,
\* unless the button stands under a search that has lapsed.
PagesAreDurable ==
  \A r \in Requests : req[r].pc = "rows" =>
    \/ \A i \in Found(db, req[r].raw, req[r].snapshot) : db.posts[i] \in ToSet(disk.posts)
    \/ Lapsed(req[r].named)

\* The pages of one search that are read while no post is stored are
\* disjoint, and all of them together are all it found.
PagesPartition ==
  \A s \in shown :
    LET read == {v \in shown : v.text = s.text /\ v.corpus = s.corpus} IN
      /\ \A v \in read : v.page # s.page => v.items \cap s.items = {}
      /\ Cardinality({v.page : v \in read}) = Pages(s.total)
           => Cardinality(UNION {v.items : v \in read}) = s.total

\* The rowids in a results page's snapshot whose posts the help texts promise.
Promised(s) ==
  {i \in DOMAIN disk.posts : i <= s.snapshot /\ Obeys(s.raw, PostText[disk.posts[i]])}

\* Every post on a results page is one the help texts promise, and it counts
\* all of those in its snapshot but the ones with a longer word that begins
\* with a minus word; tokens of several words excepted.  The posts in the
\* snapshot of an early page may still be taken back.
ResultsFollowHelp ==
  \A s \in shown : Plain(s.raw) =>
    /\ \A p \in s.items : Obeys(s.raw, PostText[p])
    /\ \/ s.total = Cardinality({i \in Promised(s) :
                                   ~Overshot(s.raw, PostText[disk.posts[i]])})
       \/ Early(s.text)

\* A results page counts all the posts of its snapshot that the help texts
\* promise: the phrase is there and no minus word is (help_text in bot/ui.py).
PromisedPostsAreFound ==
  \A s \in shown : Plain(s.raw) => s.total = Cardinality(Promised(s)) \/ Early(s.text)

\* Once a text was accepted as the answer to a prompt and all is handled, the
\* next text of the chat is not taken for another answer.
AnsweredPromptsClose ==
  \A u \in Users : prompt[u] = "answered" /\ ~Submitting(u) => fsm[u] = "none"

\* A prompt on the screen waits for its answer, however many unusable texts,
\* failed answers and restarts of the iteration there are, unless it was shown
\* while an earlier text of the chat was still being handled.
LostPromptsOverlap ==
  \A u \in Users : prompt[u] = "open" => fsm[u] # "none"

-----------------------------------------------------------------------------
(* What a step may never do *)

\* What a durable search finds never changes: no post that is stored later,
\* by this process or the next, gets a rowid inside its snapshot.
SnapshotsStayFrozen ==
  [][\A s \in disk.sessions, v \in disk'.sessions :
       s.text = v.text =>
         {disk'.posts[i] : i \in Found(disk', v.raw, v.snapshot)}
           = {disk.posts[i] : i \in Found(disk, s.raw, s.snapshot)}]_vars

\* A delete button removes the keyword its screen names, and another one of
\* the same user only when that one is gone already (its id was reused).
DeleteHitsItsName ==
  [][\A r \in Requests :
       (req[r].pc = "remove" /\ req'[r].pc = "commit_remove") =>
         \A k \in db.keywords \ db'.keywords :
           /\ Sender[k.text] = req[r].user
           /\ \/ k.text = req[r].named
              \/ \A v \in db.keywords : v.text # req[r].named]_vars

\* The source rows on disk are always one configured list as a whole, those
\* that are live the current one, and a chat that stays on the list keeps its
\* title whatever get_entity says.
SourcesStayWhole ==
  [][/\ disk'.sources \in Allowlists
     /\ phase' = "live" => disk'.sources = allow'
     /\ disk.titled \cap disk'.sources \subseteq disk'.titled]_vars
=============================================================================
