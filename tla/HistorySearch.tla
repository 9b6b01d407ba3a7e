----------------------------- MODULE HistorySearch ----------------------------
(***************************************************************************)
(* Searching the stored posts (search/service.py, SearchSessionRepo, and   *)
(* _run_search and search_page of bot/handlers_search.py).  A search is a  *)
(* row of search_sessions: the query and the largest rowid when it began.  *)
(* Each page is cut out of the tables when its button is pressed.          *)
(***************************************************************************)
EXTENDS BotStore

CONSTANT Requests   \* bound: updates that are handled at the same time

VARIABLES
  req,      \* req[r]: where the handler of update r is
  shown,    \* history: the result pages that were sent
  expired   \* history: searches whose session has been old

searchVars == <<req, shown, expired>>

Pc == {"idle", "user", "max", "prune", "create", "keep", "lookup", "count",
       "rows", "denied", "clear", "save", "commit_save", "details", "find",
       "remove", "commit_remove"}

\* named, target: the search and the page that the pressed button stands for,
\* or the keyword that the screen with the button names.
Request == [pc : Pc, kind : {"search", "page", "keyword", "open", "delete"},
            prompted : BOOLEAN, user : Users, text : Texts, raw : Seq(Token),
            id : Nat, page : Nat, snapshot : Nat, total : Nat,
            named : Texts, target : Nat]

\* early: reached through a button of another search, whose row is gone, before
\* its own row was committed.
ResultPage == [user : Users, text : Texts, raw : Seq(Token), id : Nat,
               page : Nat \ {0}, snapshot : Nat, total : Nat, items : SUBSET Posts,
               corpus : SUBSET Posts, early : BOOLEAN]

NoRequest == [pc |-> "idle", kind |-> "search", prompted |-> FALSE,
              user |-> CHOOSE u \in Users : TRUE, text |-> CHOOSE t \in Texts : TRUE,
              raw |-> <<>>, id |-> 0, page |-> 0, snapshot |-> 0, total |-> 0,
              named |-> CHOOSE t \in Texts : TRUE, target |-> 0]

Free(r) == req[r].pc = "idle"

Finish(r) == req' = [req EXCEPT ![r] = NoRequest]

Goto(r, pc) == req' = [req EXCEPT ![r].pc = pc]

Begin(r, kind, prompted, u, t, raw, id, page) ==
  req' = [req EXCEPT ![r] =
            [NoRequest EXCEPT !.pc = "user", !.kind = kind, !.prompted = prompted,
                              !.user = u, !.text = t, !.raw = raw, !.id = id,
                              !.page = page, !.named = t, !.target = page]]

\* The page buttons under a result page (search_results_markup).
Buttons(s) == {n \in {s.page - 1, s.page + 1} :
                 1 <= n /\ (n < s.page \/ s.page * PageSize < s.total)}

PressPage(r) ==
  /\ Free(r)
  /\ \E s \in shown : \E n \in Buttons(s) :
       Begin(r, "page", FALSE, s.user, s.text, <<>>, s.id, n)
  /\ UNCHANGED <<shown, expired, db, disk>>

\* Every handler first runs ensure_user and so COMMITs.  start_search raises
\* InvalidSearchQueryError before it writes anything.
EnsureUser(r) ==
  /\ req[r].pc = "user"
  /\ Commit
  /\ CASE req[r].kind = "search"  -> IF Usable(req[r].raw) THEN Goto(r, "max")
                                                           ELSE Finish(r)
       [] req[r].kind = "page"    -> Goto(r, "lookup")
       [] req[r].kind = "keyword" -> Goto(r, "save")
       [] req[r].kind = "open"    -> Goto(r, "details")
       [] req[r].kind = "delete"  -> Goto(r, "find")
  /\ UNCHANGED <<shown, expired>>

ReadMax(r) ==
  /\ req[r].pc = "max"
  /\ req' = [req EXCEPT ![r].pc = "prune", ![r].snapshot = MaxRowid]
  /\ UNCHANGED <<shown, expired, db, disk>>

Prune(r) ==
  /\ req[r].pc = "prune"
  /\ db' = [db EXCEPT !.sessions = {s \in @ : ~s.old}]
  /\ Goto(r, "create")
  /\ UNCHANGED <<shown, expired, disk>>

CreateSession(r) ==
  /\ req[r].pc = "create"
  /\ LET id == NextId(db.sessions) IN
       /\ db' = [db EXCEPT !.sessions = @ \cup
                  {[id |-> id, text |-> req[r].text, raw |-> req[r].raw,
                    snapshot |-> req[r].snapshot, old |-> FALSE]}]
       /\ req' = [req EXCEPT ![r].pc = "keep", ![r].id = id]
  /\ UNCHANGED <<shown, expired, disk>>

\* Mutant: the session is not committed.
KeepNothing(r) ==
  /\ req[r].pc = "keep"
  /\ Goto(r, "lookup")
  /\ UNCHANGED <<shown, expired, db, disk>>

CommitSession(r) ==
  /\ req[r].pc = "keep"
  /\ Commit
  /\ Goto(r, "lookup")
  /\ UNCHANGED <<shown, expired>>

\* Mutant: the session is looked up by its id alone.
LookupAnyones(r) ==
  /\ req[r].pc = "lookup"
  /\ \/ /\ \A s \in db.sessions : s.id # req[r].id
        /\ Goto(r, "denied")
     \/ \E s \in db.sessions :
          /\ s.id = req[r].id
          /\ req' = [req EXCEPT ![r].pc = "count", ![r].text = s.text,
                                ![r].raw = s.raw, ![r].snapshot = s.snapshot]
  /\ UNCHANGED <<shown, expired, db, disk>>

\* get_for_user, and SearchAccessError when there is no such row.
Lookup(r) ==
  /\ req[r].pc = "lookup"
  /\ LET rows == RowOf(db.sessions, req[r].id, req[r].user) IN
       \/ /\ rows = {}
          /\ Goto(r, "denied")
       \/ \E s \in rows :
            req' = [req EXCEPT ![r].pc = "count", ![r].text = s.text,
                               ![r].raw = s.raw, ![r].snapshot = s.snapshot]
  /\ UNCHANGED <<shown, expired, db, disk>>

\* Mutant: the page is clamped to 0 when nothing is found.
CountFromZero(r) ==
  /\ req[r].pc = "count"
  /\ LET total == Cardinality(Found(db, req[r].raw, req[r].snapshot)) IN
       req' = [req EXCEPT ![r].pc = "rows", ![r].total = total,
                          ![r].page = Min({@, Pages(total)})]
  /\ UNCHANGED <<shown, expired, db, disk>>

\* The page is clamped to the pages there are.
Count(r) ==
  /\ req[r].pc = "count"
  /\ LET total == Cardinality(Found(db, req[r].raw, req[r].snapshot)) IN
       req' = [req EXCEPT ![r].pc = "rows", ![r].total = total,
                          ![r].page = Min({@, Max({1, Pages(total)})})]
  /\ UNCHANGED <<shown, expired, db, disk>>

\* search_history, and the answer with the page.  A search that a prompt asked
\* for has still to close the prompt.
ShowRows(r) ==
  /\ req[r].pc = "rows"
  /\ shown' = shown \cup
       {[user |-> req[r].user, text |-> req[r].text, raw |-> req[r].raw,
         id |-> req[r].id, page |-> req[r].page, snapshot |-> req[r].snapshot,
         total |-> req[r].total, corpus |-> ToSet(db.posts),
         early |-> /\ req[r].text # req[r].named
                   /\ \A s \in disk.sessions : s.text # req[r].text,
         items |-> {db.posts[i] : i \in Page(Found(db, req[r].raw, req[r].snapshot),
                                             req[r].page)}]}
  /\ IF req[r].prompted THEN Goto(r, "clear") ELSE Finish(r)
  /\ UNCHANGED <<expired, db, disk>>

\* Telegram does not take the answer: the handler raises.
ShowFails(r) ==
  /\ req[r].pc = "rows"
  /\ Finish(r)
  /\ UNCHANGED <<shown, expired, db, disk>>

\* search_page answers with an alert.
Deny(r) ==
  /\ req[r].pc = "denied"
  /\ Finish(r)
  /\ UNCHANGED <<shown, expired, db, disk>>

\* More than retention_days pass for the sessions there are; a handler takes
\* seconds.
Age(d) == [d EXCEPT !.sessions = {[s EXCEPT !.old = TRUE] : s \in @}]

WeekPasses ==
  /\ \A r \in Requests : Free(r)
  /\ \E s \in db.sessions : ~s.old
  /\ db' = Age(db)
  /\ disk' = Age(disk)
  /\ expired' = expired \cup {s.text : s \in db.sessions \cup disk.sessions}
  /\ UNCHANGED <<req, shown>>

SearchStep(r) ==
  \/ ReadMax(r)
  \/ Prune(r)
  \/ CreateSession(r)
  \/ CommitSession(r)
  \/ Lookup(r)
  \/ Count(r)
  \/ ShowFails(r)
  \/ Deny(r)
=============================================================================
