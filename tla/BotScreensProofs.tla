--------------------------- MODULE BotScreensProofs ---------------------------
(***************************************************************************)
(* Types, prompts, sources, names, snapshots, page buttons, pages and help *)
(* texts of the bot's screens, for every set of users, texts, posts and    *)
(* simultaneous updates, and any number of updates, process deaths and     *)
(* restarts.                                                               *)
(***************************************************************************)
EXTENDS BotScreens, Extrema, SequenceTheorems

Finite(d) == IsFiniteSet(d.sessions) /\ IsFiniteSet(d.keywords)

\* Both views of the database.
StoreTyped == db \in Tables /\ disk \in Tables /\ Finite(db) /\ Finite(disk)

\* Whoever is to show a page of results knows a number that is at least 1.
Paging == {"max", "prune", "create", "keep", "lookup", "count", "rows"}

Paged(q) == q.pc \in Paging \/ (q.pc = "user" /\ q.kind \in {"search", "page"}) => q.page >= 1

RequestsTyped == req \in [Requests -> Request] /\ \A r \in Requests : Paged(req[r])

ScreensTyped == TypeOK /\ StoreTyped /\ RequestsTyped

\* The next key is one past the largest in use.
LEMMA NextIdIsNew ==
  ASSUME NEW rows, IsFiniteSet(rows), \A r \in rows : r.id \in Nat
  PROVE  NextId(rows) \in Nat /\ \A r \in rows : r.id < NextId(rows)
<1> DEFINE ids == {0} \cup {r.id : r \in rows}
           id == [r \in rows |-> r.id]
<1>1. id \in Surjection(rows, {r.id : r \in rows})
  BY DEF Surjection
<1>2. IsFiniteSet({r.id : r \in rows})
  BY <1>1, FS_Surjection
<1>3. IsFiniteSet({0})
  BY FS_Singleton
<1>4. IsFiniteSet(ids)
  BY <1>2, <1>3, FS_Union
<1>5. /\ \A i \in ids : i \in Nat
      /\ \A r \in rows : r.id \in ids
      /\ 0 \in ids
  OBVIOUS
<1>6. NextId(rows) = Max(ids) + 1
  BY DEF NextId
<1> HIDE DEF ids
<1>7. ids \in SUBSET Int /\ ids # {}
  BY <1>5
<1>8. Max(ids) \in ids /\ \A i \in ids : Max(ids) >= i
  BY <1>4, <1>7, MaxIsMember
<1> QED  BY <1>5, <1>6, <1>8

\* A free slot is typed.
LEMMA NoRequestTyped == NoRequest \in Request
<1>1. Texts # {} /\ Users # {}
  BY BotStoreAssumption
<1>2. (CHOOSE t \in Texts : TRUE) \in Texts /\ (CHOOSE u \in Users : TRUE) \in Users
  BY <1>1
<1> QED  BY <1>2 DEF NoRequest, Request, Pc

\* A handler that changes only its own request, to a typed one.
LEMMA ReplaceTyped ==
  ASSUME RequestsTyped, NEW r \in Requests, NEW new \in Request, Paged(new),
         req' = [req EXCEPT ![r] = new]
  PROVE  RequestsTyped'
BY DEF RequestsTyped

\* A handler that ends.
LEMMA FinishTyped ==
  ASSUME RequestsTyped, NEW r \in Requests, Finish(r)
  PROVE  RequestsTyped'
<1>1. Paged(NoRequest)
  BY DEF Paged, NoRequest, Paging
<1> QED  BY <1>1, NoRequestTyped, ReplaceTyped DEF Finish

\* A handler that only moves on.
LEMMA GotoTyped ==
  ASSUME RequestsTyped, NEW r \in Requests, NEW pc \in Pc, Goto(r, pc), pc # "user",
         pc \in Paging => req[r].page >= 1
  PROVE  RequestsTyped'
<1> DEFINE new == [req[r] EXCEPT !.pc = pc]
<1>1. req \in [Requests -> Request]
  BY DEF RequestsTyped
<1>2. new \in Request /\ Paged(new)
  BY <1>1 DEF Request, Paged
<1>3. req' = [req EXCEPT ![r] = new]
  BY <1>1 DEF Goto, Request
<1> HIDE DEF new
<1> QED  BY <1>2, <1>3, ReplaceTyped

\* An update that is taken up.
LEMMA BeginTyped ==
  ASSUME RequestsTyped, NEW r \in Requests,
         NEW kind \in {"search", "page", "keyword", "open", "delete"},
         NEW prompted \in BOOLEAN, NEW u \in Users, NEW t \in Texts,
         NEW raw \in Seq(Token), NEW id \in Nat, NEW page \in Nat,
         kind \in {"search", "page"} => page >= 1,
         Begin(r, kind, prompted, u, t, raw, id, page)
  PROVE  RequestsTyped'
<1> DEFINE new == [NoRequest EXCEPT !.pc = "user", !.kind = kind, !.prompted = prompted,
                                    !.user = u, !.text = t, !.raw = raw, !.id = id,
                                    !.page = page, !.named = t, !.target = page]
<1>1. new \in Request
  BY NoRequestTyped DEF Request, Pc
<1>2. Paged(new)
  BY NoRequestTyped DEF Request, Paged, Paging
<1> HIDE DEF new
<1>3. req' = [req EXCEPT ![r] = new]
  BY DEF Begin, new
<1> QED  BY <1>1, <1>2, <1>3, ReplaceTyped

\* What is found is a finite set of places.
LEMMA FoundIsFinite ==
  ASSUME NEW d \in Tables, NEW raw, NEW snapshot
  PROVE  IsFiniteSet(Found(d, raw, snapshot)) /\ Found(d, raw, snapshot) \subseteq DOMAIN d.posts
<1>1. DOMAIN d.posts = 1..Len(d.posts) /\ Len(d.posts) \in Nat
  BY DEF Tables
<1>2. IsFiniteSet(1..Len(d.posts))
  BY <1>1, FS_Interval
<1>3. Found(d, raw, snapshot) \in SUBSET (1..Len(d.posts))
  BY <1>1 DEF Found
<1> QED  BY <1>1, <1>2, <1>3, FS_Subset

-----------------------------------------------------------------------------
(* The tables *)

\* A COMMIT, a rollback or neither.
LEMMA CommitTyped ==
  ASSUME StoreTyped, Commit \/ LoseUncommitted \/ UNCHANGED <<db, disk>>
  PROVE  StoreTyped'
BY DEF StoreTyped, Commit, LoseUncommitted, Finite

\* The writes of a search.
LEMMA SessionsTyped ==
  ASSUME ScreensTyped, NEW r \in Requests, Prune(r) \/ CreateSession(r)
  PROVE  StoreTyped'
<1>1. /\ req[r] \in Request
      /\ db \in Tables /\ disk \in Tables /\ Finite(db) /\ Finite(disk)
  BY DEF ScreensTyped, StoreTyped, TypeOK
<1>2. disk' = disk
  BY DEF Prune, CreateSession
<1>3. db' \in Tables /\ Finite(db')
  <2>1. CASE Prune(r)
    <3>1. db' = [db EXCEPT !.sessions = {s \in @ : ~s.old}]
      BY <2>1 DEF Prune
    <3>2. {s \in db.sessions : ~s.old} \in SUBSET db.sessions
      OBVIOUS
    <3>3. IsFiniteSet({s \in db.sessions : ~s.old})
      BY <1>1, <3>2, FS_Subset DEF Finite
    <3> QED  BY <1>1, <3>1, <3>3 DEF Tables, Finite
  <2>2. CASE CreateSession(r)
    <3> DEFINE new == [id |-> NextId(db.sessions), text |-> req[r].text, raw |-> req[r].raw,
                       snapshot |-> req[r].snapshot, old |-> FALSE]
    <3>1. db' = [db EXCEPT !.sessions = @ \cup {new}]
      BY <2>2 DEF CreateSession
    <3>2. \A s \in db.sessions : s.id \in Nat
      BY <1>1 DEF Tables, Session
    <3>3. NextId(db.sessions) \in Nat
      BY <1>1, <3>2, NextIdIsNew DEF Finite
    <3>4. new \in Session
      BY <1>1, <3>3 DEF Session, Request
    <3> HIDE DEF new
    <3>5. IsFiniteSet(db.sessions \cup {new})
      BY <1>1, FS_AddElement DEF Finite
    <3> QED  BY <1>1, <3>1, <3>4, <3>5 DEF Tables, Finite
  <2> QED  BY <2>1, <2>2
<1> QED  BY <1>1, <1>2, <1>3 DEF StoreTyped

\* The writes of the keyword dialogue.
LEMMA KeywordsTyped ==
  ASSUME ScreensTyped, NEW r \in Requests, SaveKeyword(r) \/ RemoveKeyword(r)
  PROVE  StoreTyped'
<1>1. /\ req[r] \in Request
      /\ db \in Tables /\ disk \in Tables /\ Finite(db) /\ Finite(disk)
  BY DEF ScreensTyped, StoreTyped, TypeOK
<1>2. disk' = disk
  BY DEF SaveKeyword, RemoveKeyword
<1>3. db' \in Tables /\ Finite(db')
  <2>1. CASE RemoveKeyword(r)
    <3> DEFINE gone == RowOf(db.keywords, req[r].id, req[r].user)
    <3>1. db' = [db EXCEPT !.keywords = @ \ gone]
      BY <2>1 DEF RemoveKeyword
    <3> HIDE DEF gone
    <3>2. IsFiniteSet(db.keywords \ gone)
      BY <1>1, FS_Subset DEF Finite
    <3> QED  BY <1>1, <3>1, <3>2 DEF Tables, Finite
  <2>2. CASE SaveKeyword(r)
    <3> DEFINE new == [id |-> NextId(db.keywords), text |-> req[r].text]
    <3>1. db' = [db EXCEPT !.keywords = @ \cup {new}]
      BY <2>2 DEF SaveKeyword
    <3>2. \A k \in db.keywords : k.id \in Nat
      BY <1>1 DEF Tables, Keyword
    <3>3. NextId(db.keywords) \in Nat
      BY <1>1, <3>2, NextIdIsNew DEF Finite
    <3>4. new \in Keyword
      BY <1>1, <3>3 DEF Keyword, Request
    <3> HIDE DEF new
    <3>5. IsFiniteSet(db.keywords \cup {new})
      BY <1>1, FS_AddElement DEF Finite
    <3> QED  BY <1>1, <3>1, <3>4, <3>5 DEF Tables, Finite
  <2> QED  BY <2>1, <2>2
<1> QED  BY <1>1, <1>2, <1>3 DEF StoreTyped

\* Sessions that have become old.
LEMMA AgeTyped ==
  ASSUME NEW d \in Tables, Finite(d)
  PROVE  Age(d) \in Tables /\ Finite(Age(d))
<1> DEFINE aged == [s \in d.sessions |-> [s EXCEPT !.old = TRUE]]
           olds == {[s EXCEPT !.old = TRUE] : s \in d.sessions}
<1>1. Age(d) = [d EXCEPT !.sessions = olds]
  BY DEF Age
<1>2. olds \subseteq Session
  BY DEF Tables, Session
<1>3. aged \in Surjection(d.sessions, olds)
  BY DEF Surjection
<1> HIDE DEF aged, olds
<1>4. IsFiniteSet(olds)
  BY <1>3, FS_Surjection DEF Finite
<1> QED  BY <1>1, <1>2, <1>4 DEF Tables, Finite

\* The writes of ingestion and of the sync of the sources.
LEMMA PostsAndSourcesTyped ==
  ASSUME ScreensTyped,
         (\E p \in Posts : InsertPost(p)) \/ DeleteStale \/ Upsert
  PROVE  StoreTyped'
<1>1. /\ db \in Tables /\ disk \in Tables /\ Finite(db) /\ Finite(disk)
      /\ allow \subseteq Chats /\ todo \subseteq Chats
  BY ScreensAssumption DEF ScreensTyped, StoreTyped, TypeOK
<1>2. disk' = disk
  BY DEF InsertPost, DeleteStale, Upsert
<1>3. CASE \E p \in Posts : InsertPost(p)
  <2>1. PICK p \in Posts : db' = [db EXCEPT !.posts = Append(@, p)]
    BY <1>3 DEF InsertPost
  <2>2. Append(db.posts, p) \in Seq(Posts)
    BY <1>1 DEF Tables
  <2> QED  BY <1>1, <1>2, <2>1, <2>2 DEF StoreTyped, Tables, Finite
<1>4. CASE DeleteStale
  <2>1. db' = db \/ \E c \in Chats : db' = [db EXCEPT !.sources = @ \ {c}, !.titled = @ \ {c}]
    BY <1>1, <1>4 DEF DeleteStale, Tables
  <2> QED  BY <1>1, <1>2, <2>1 DEF StoreTyped, Tables, Finite
<1>5. CASE Upsert
  <2>1. PICK c \in Chats :
          db' = [db EXCEPT !.sources = @ \cup {c}, !.titled = @ \cup ({c} \cap named)]
    BY <1>1, <1>5 DEF Upsert
  <2> QED  BY <1>1, <1>2, <2>1 DEF StoreTyped, Tables, Finite
<1> QED  BY <1>3, <1>4, <1>5

-----------------------------------------------------------------------------
(* The requests *)

\* Two integers are a finite set.
LEMMA PairIsFinite ==
  ASSUME NEW a, NEW b
  PROVE  IsFiniteSet({a, b})
<1>1. IsFiniteSet({a})
  BY FS_Singleton
<1>2. IsFiniteSet({a} \cup {b})
  BY <1>1, FS_AddElement
<1>3. {a, b} = {a} \cup {b}
  OBVIOUS
<1> QED  BY <1>2, <1>3

\* The number of the page that is clamped to those there are.
LEMMA CountTyped ==
  ASSUME ScreensTyped, NEW r \in Requests, Count(r)
  PROVE  RequestsTyped'
<1> DEFINE total == Cardinality(Found(db, req[r].raw, req[r].snapshot))
           most == Max({1, Pages(total)})
           page == Min({req[r].page, most})
           new == [req[r] EXCEPT !.pc = "rows", !.total = total, !.page = page]
<1>1. req[r] \in Request /\ req[r].page >= 1 /\ db \in Tables
  BY DEF ScreensTyped, StoreTyped, RequestsTyped, Count, Paged, Paging
<1>2. total \in Nat
  <2>1. IsFiniteSet(Found(db, req[r].raw, req[r].snapshot))
    BY <1>1, FoundIsFinite
  <2> QED  BY <2>1, FS_CardinalityType
<1> HIDE DEF total
<1>3. Pages(total) \in Int
  BY <1>2, BotStoreAssumption DEF Pages
<1>4. most \in Int /\ most >= 1
  <2> DEFINE S == {1, Pages(total)}
  <2>1. IsFiniteSet(S)
    BY PairIsFinite
  <2>2. S \in SUBSET Int /\ S # {} /\ 1 \in S
    BY <1>3
  <2> HIDE DEF S
  <2>3. Max(S) \in S /\ Max(S) >= 1
    BY <2>1, <2>2, MaxIsMember
  <2> QED  BY <1>3, <2>2, <2>3 DEF S
<1> HIDE DEF most
<1>5. page \in Nat /\ page >= 1
  <2> DEFINE S == {req[r].page, most}
  <2>1. IsFiniteSet(S)
    BY PairIsFinite
  <2>2. S \in SUBSET Int /\ S # {} /\ \A i \in S : i >= 1
    BY <1>1, <1>4 DEF Request
  <2> HIDE DEF S
  <2>3. Min(S) \in S
    BY <2>1, <2>2, MinIsMember
  <2> QED  BY <2>2, <2>3 DEF S
<1> HIDE DEF page
<1>6. new \in Request /\ Paged(new)
  BY <1>1, <1>2, <1>5 DEF Request, Pc, Paged
<1>7. req' = [req EXCEPT ![r] = new]
  BY <1>1 DEF Count, total, most, page, RequestsTyped, ScreensTyped, Request
<1> HIDE DEF new
<1> QED  BY <1>6, <1>7, ReplaceTyped DEF ScreensTyped

\* The steps of a search but Count.
LEMMA SearchStepTyped ==
  ASSUME ScreensTyped, NEW r \in Requests, EnsureUser(r) \/ SearchStep(r) \/ ShowRows(r)
  PROVE  RequestsTyped'
<1> USE DEF ScreensTyped
<1>1. /\ req \in [Requests -> Request] /\ req[r] \in Request /\ Paged(req[r])
      /\ db \in Tables
  BY DEF RequestsTyped, StoreTyped
<1>2. CASE EnsureUser(r)
  BY <1>1, <1>2, FinishTyped, GotoTyped DEF EnsureUser, Paged, Paging, Pc, Request
<1>3. CASE ReadMax(r)
  <2> DEFINE new == [req[r] EXCEPT !.pc = "prune", !.snapshot = MaxRowid]
  <2>1. MaxRowid \in Nat
    BY <1>1 DEF MaxRowid, Tables
  <2>2. new \in Request /\ Paged(new)
    BY <1>1, <1>3, <2>1 DEF ReadMax, Request, Pc, Paged, Paging
  <2>3. req' = [req EXCEPT ![r] = new]
    BY <1>1, <1>3 DEF ReadMax, Request
  <2> HIDE DEF new
  <2> QED  BY <2>2, <2>3, ReplaceTyped
<1>4. CASE Prune(r)
  BY <1>1, <1>4, GotoTyped DEF Prune, Paged, Paging, Pc
<1>5. CASE CreateSession(r)
  <2> DEFINE new == [req[r] EXCEPT !.pc = "keep", !.id = NextId(db.sessions)]
  <2>1. NextId(db.sessions) \in Nat
    <3>1. \A s \in db.sessions : s.id \in Nat
      BY <1>1 DEF Tables, Session
    <3> QED  BY <3>1, NextIdIsNew DEF StoreTyped, Finite
  <2>2. new \in Request /\ Paged(new)
    BY <1>1, <1>5, <2>1 DEF CreateSession, Request, Pc, Paged, Paging
  <2>3. req' = [req EXCEPT ![r] = new]
    BY <1>1, <1>5 DEF CreateSession, Request
  <2> HIDE DEF new
  <2> QED  BY <2>2, <2>3, ReplaceTyped
<1>6. CASE CommitSession(r)
  BY <1>1, <1>6, GotoTyped, SMTT(30) DEF CommitSession, Paged, Paging, Pc
<1>7. CASE Lookup(r)
  <2>1. CASE Goto(r, "denied")
    BY <2>1, GotoTyped DEF Paging, Pc
  <2>2. ASSUME NEW s \in db.sessions,
               req' = [req EXCEPT ![r].pc = "count", ![r].text = s.text,
                                  ![r].raw = s.raw, ![r].snapshot = s.snapshot]
        PROVE  RequestsTyped'
    <3> DEFINE new == [req[r] EXCEPT !.pc = "count", !.text = s.text,
                                     !.raw = s.raw, !.snapshot = s.snapshot]
    <3>1. new \in Request /\ Paged(new)
      BY <1>1, <1>7 DEF Lookup, Tables, Session, Request, Pc, Paged, Paging
    <3>2. req' = [req EXCEPT ![r] = new]
      BY <1>1, <2>2 DEF Request
    <3> HIDE DEF new
    <3> QED  BY <3>1, <3>2, ReplaceTyped
  <2> QED  BY <1>7, <2>1, <2>2 DEF Lookup, RowOf
<1>8. CASE Count(r)
  BY <1>8, CountTyped
<1>9. CASE ShowFails(r) \/ Deny(r) \/ ShowRows(r)
  <2>1. Finish(r) \/ Goto(r, "clear")
    BY <1>9 DEF ShowFails, Deny, ShowRows
  <2> QED  BY <2>1, FinishTyped, GotoTyped DEF Paging, Pc
<1> QED
  BY <1>2, <1>3, <1>4, <1>5, <1>6, <1>7, <1>8, <1>9 DEF SearchStep

\* The requests of the keyword dialogue.
LEMMA KeywordStepTyped ==
  ASSUME ScreensTyped, NEW r \in Requests, KeywordStep(r) \/ ClearState(r)
  PROVE  RequestsTyped'
<1>1. \/ Finish(r)
      \/ \E pc \in Pc \ (Paging \cup {"user"}) : Goto(r, pc)
  BY DEF KeywordStep, SaveKeyword, CommitKeyword, ShowDetails, FindKeyword, RemoveKeyword,
         CommitRemoval, ClearState, Pc, Paging
<1> QED  BY <1>1, FinishTyped, GotoTyped DEF ScreensTyped

\* The requests that texts and buttons begin.
LEMMA UpdateTyped ==
  ASSUME ScreensTyped, NEW r \in Requests, Update(r)
  PROVE  RequestsTyped'
<1> USE DEF ScreensTyped
<1>1. CASE PressPage(r)
  <2>0. PICK s \in shown : \E n \in Buttons(s) :
          Begin(r, "page", FALSE, s.user, s.text, <<>>, s.id, n)
    BY <1>1 DEF PressPage
  <2>1. PICK n \in Buttons(s) : Begin(r, "page", FALSE, s.user, s.text, <<>>, s.id, n)
    BY <2>0
  <2>2. s \in ResultPage
    BY DEF TypeOK
  <2>3. n \in Nat /\ n >= 1
    BY <2>2 DEF Buttons, ResultPage
  <2>4. s.user \in Users /\ s.text \in Texts /\ s.id \in Nat /\ <<>> \in Seq(Token)
    BY <2>2 DEF ResultPage
  <2> QED  BY <2>1, <2>3, <2>4, BeginTyped
<1>2. ASSUME NEW t \in Texts, SendText(r, t) PROVE RequestsTyped'
  <2>1. Sender[t] \in Users /\ Tokens[t] \in Seq(Token) /\ 0 \in Nat /\ 1 \in Nat /\ 1 >= 1
    <3>1. Sender \in [Texts -> Users] /\ Tokens \in [Texts -> Seq(Token)]
      BY BotStoreAssumption
    <3> QED  BY <3>1
  <2>2. CASE Begin(r, "search", TRUE, Sender[t], t, Tokens[t], 0, 1)
    BY <2>1, <2>2, BeginTyped
  <2>3. CASE Begin(r, "keyword", FALSE, Sender[t], t, Tokens[t], 0, 0)
    BY <2>1, <2>3, BeginTyped
  <2>4. CASE t \in Slash /\ Begin(r, "search", FALSE, Sender[t], t, Tail(Tokens[t]), 0, 1)
    <3>1. Len(Tokens[t]) > 1
      BY <2>4, DialoguesAssumption
    <3>2. Tail(Tokens[t]) \in Seq(Token)
      BY <2>1, <3>1
    <3> QED  BY <2>1, <2>4, <3>2, BeginTyped
  <2> QED  BY <1>2, <2>2, <2>3, <2>4 DEF SendText
<1>3. CASE PressOpen(r)
  <2>1. PICK k \in db.keywords \cup disk.keywords, u \in Users :
          Begin(r, "open", FALSE, u, k.text, <<>>, k.id, 0)
    BY <1>3 DEF PressOpen
  <2>2. k \in Keyword
    BY DEF StoreTyped, Tables
  <2>3. k.text \in Texts /\ k.id \in Nat /\ <<>> \in Seq(Token)
    BY <2>2 DEF Keyword
  <2> QED  BY <2>1, <2>3, BeginTyped
<1>4. CASE PressDelete(r)
  <2>1. PICK d \in details : Begin(r, "delete", FALSE, d.user, d.text, <<>>, d.id, 0)
    BY <1>4 DEF PressDelete
  <2>2. d \in [user : Users, id : Nat, text : Texts]
    BY DEF TypeOK
  <2>3. d.user \in Users /\ d.text \in Texts /\ d.id \in Nat /\ <<>> \in Seq(Token)
    BY <2>2
  <2> QED  BY <2>1, <2>3, BeginTyped
<1> QED  BY <1>1, <1>2, <1>3, <1>4 DEF Update

\* Ends of processes and iterations.
LEMMA EndTyped ==
  ASSUME ScreensTyped, Die \/ Restart
  PROVE  RequestsTyped'
<1>1. Paged(NoRequest)
  BY DEF Paged, NoRequest, Paging
<1>2. \A r \in Requests : req'[r] \in {NoRequest, req[r]}
  BY DEF Die, Restart
<1>3. req' = [r \in Requests |-> req'[r]]
  BY DEF Die, Restart
<1>4. \A r \in Requests : req[r] \in Request /\ Paged(req[r])
  BY DEF ScreensTyped, RequestsTyped
<1>5. \A r \in Requests : req'[r] \in Request /\ Paged(req'[r])
  BY <1>1, <1>2, <1>4, NoRequestTyped
<1> HIDE DEF Paged
<1> QED  BY <1>3, <1>5 DEF RequestsTyped

-----------------------------------------------------------------------------
(* What remains of the state *)

\* The page that is shown.
LEMMA ShownTyped ==
  ASSUME ScreensTyped, NEW r \in Requests, ShowRows(r)
  PROVE  shown' \subseteq ResultPage
<1> DEFINE items == {db.posts[i] : i \in Page(Found(db, req[r].raw, req[r].snapshot), req[r].page)}
           new == [user |-> req[r].user, text |-> req[r].text, raw |-> req[r].raw,
                   id |-> req[r].id, page |-> req[r].page, snapshot |-> req[r].snapshot,
                   total |-> req[r].total, corpus |-> ToSet(db.posts),
                   early |-> /\ req[r].text # req[r].named
                             /\ \A s \in disk.sessions : s.text # req[r].text,
                   items |-> items]
<1>1. req[r] \in Request /\ req[r].page >= 1 /\ db \in Tables /\ shown \subseteq ResultPage
  BY DEF ScreensTyped, StoreTyped, RequestsTyped, TypeOK, ShowRows, Paged, Paging
<1>2. \A i \in DOMAIN db.posts : db.posts[i] \in Posts
  BY <1>1 DEF Tables
<1>3. ToSet(db.posts) \subseteq Posts
  BY <1>2 DEF ToSet
<1>4. Page(Found(db, req[r].raw, req[r].snapshot), req[r].page) \subseteq DOMAIN db.posts
  <2>1. Found(db, req[r].raw, req[r].snapshot) \subseteq DOMAIN db.posts
    BY <1>1, FoundIsFinite
  <2> QED  BY <2>1 DEF Page
<1>5. items \subseteq Posts
  BY <1>2, <1>4
<1>6. shown' = shown \cup {new}
  BY DEF ShowRows
<1> HIDE DEF items
<1>7. new \in ResultPage
  BY <1>1, <1>3, <1>5 DEF Request, ResultPage
<1> HIDE DEF new
<1> QED  BY <1>1, <1>6, <1>7

\* The dialogues' part of the state.
DialoguesTyped ==
  /\ fsm \in [Users -> {"none", "query", "text"}]
  /\ prompt \in [Users -> PromptStates]
  /\ sent \subseteq Texts
  /\ details \subseteq [user : Users, id : Nat, text : Texts]

\* The dialogues when a prompt is opened or left.
LEMMA PressTyped ==
  ASSUME ScreensTyped, NEW u \in Chatters, Press(u)
  PROVE  DialoguesTyped'
<1>1. DialoguesTyped /\ u \in Users
  BY ScreensAssumption DEF ScreensTyped, TypeOK, DialoguesTyped
<1>2. CASE PressBack(u)
  BY <1>1, <1>2 DEF DialoguesTyped, PressBack, PromptStates
<1>3. ASSUME NEW state \in {"query", "text"}, ShowPrompt(u, state) PROVE DialoguesTyped'
  <2> DEFINE became == IF Submitting(u) THEN "contested" ELSE "open"
  <2>1. became \in PromptStates
    BY DEF PromptStates
  <2>2. prompt' = [prompt EXCEPT ![u] = became]
    BY <1>3 DEF ShowPrompt
  <2> HIDE DEF became
  <2> QED  BY <1>1, <1>3, <2>1, <2>2 DEF DialoguesTyped, ShowPrompt
<1> QED  BY <1>2, <1>3 DEF Press

\* The dialogues when a handler steps.
LEMMA HandleDialoguesTyped ==
  ASSUME ScreensTyped, NEW r \in Requests,
         Answer(r) \/ KeywordStep(r) \/ ClearState(r) \/ (\E t \in Texts : SendText(r, t))
  PROVE  DialoguesTyped'
<1>1. DialoguesTyped
  BY DEF ScreensTyped, TypeOK, DialoguesTyped
<1>2. req[r] \in Request
  BY DEF ScreensTyped, RequestsTyped
<1>3. req[r].user \in Users /\ req[r].prompted \in BOOLEAN
  BY <1>2 DEF Request
<1>4. CASE Answer(r)
  BY <1>1, <1>3, <1>4 DEF DialoguesTyped, Answer, PromptStates
<1>5. CASE ShowDetails(r)
  <2>1. \A k \in db.keywords : k.id \in Nat /\ k.text \in Texts
    BY DEF ScreensTyped, StoreTyped, Tables, Keyword
  <2>2. details' \subseteq [user : Users, id : Nat, text : Texts]
    BY <1>1, <1>3, <1>5, <2>1 DEF DialoguesTyped, ShowDetails, RowOf
  <2> QED  BY <1>1, <1>5, <2>2 DEF DialoguesTyped, ShowDetails
<1>6. CASE CommitKeyword(r)
  BY <1>1, <1>3, <1>6 DEF DialoguesTyped, CommitKeyword, PromptStates
<1>7. CASE SaveKeyword(r) \/ FindKeyword(r) \/ RemoveKeyword(r) \/ CommitRemoval(r)
  BY <1>1, <1>7
     DEF DialoguesTyped, SaveKeyword, FindKeyword, RemoveKeyword, CommitRemoval, dialogueVars
<1>8. CASE ClearState(r)
  BY <1>1, <1>3, <1>8 DEF DialoguesTyped, ClearState
<1>9. CASE \E t \in Texts : SendText(r, t)
  BY <1>1, <1>9 DEF DialoguesTyped, SendText
<1> QED
  BY <1>4, <1>5, <1>6, <1>7, <1>8, <1>9 DEF KeywordStep

\* The runtime's part of the state.
RuntimeTyped ==
  /\ phase \in {"resolve", "delete", "upsert", "live"}
  /\ allow \in Allowlists
  /\ named \subseteq Chats
  /\ todo \subseteq Chats
  /\ storing \subseteq Posts
  /\ updates \in 0..MaxUpdates
  /\ crashes \in 0..MaxCrashes

\* The bounds when an update is counted.
LEMMA CountedTyped ==
  ASSUME ScreensTyped, Counted
  PROVE  RuntimeTyped'
<1>1. updates' \in 0..MaxUpdates
  BY ScreensAssumption DEF ScreensTyped, TypeOK, Counted
<1> QED  BY <1>1 DEF ScreensTyped, TypeOK, RuntimeTyped, Counted

\* The runtime's own variables.
LEMMA RuntimeStepTyped ==
  ASSUME ScreensTyped,
         (\E p \in Posts : InsertPost(p) \/ CommitPost(p)) \/ Startup \/ Die \/ Restart
  PROVE  RuntimeTyped'
<1>1. RuntimeTyped /\ allow \subseteq Chats
  BY ScreensAssumption DEF ScreensTyped, TypeOK, RuntimeTyped
<1>2. CASE \E p \in Posts : InsertPost(p) \/ CommitPost(p)
  BY <1>1, <1>2, SMTT(30) DEF RuntimeTyped, InsertPost, CommitPost
<1>3. CASE Startup
  BY <1>1, <1>3 DEF RuntimeTyped, Startup, ResolveTitles, DeleteStale, Upsert, CommitSources
<1>4. CASE Die \/ Restart
  <2>1. crashes' \in 0..MaxCrashes
    BY <1>1, <1>4, ScreensAssumption DEF RuntimeTyped, Die, Restart
  <2> QED  BY <1>1, <1>4, <2>1 DEF RuntimeTyped, Die, Restart
<1> QED  BY <1>2, <1>3, <1>4

PartsTyped ==
  /\ StoreTyped
  /\ RequestsTyped
  /\ shown \subseteq ResultPage
  /\ expired \subseteq Texts
  /\ DialoguesTyped
  /\ RuntimeTyped

\* The parts, each proved by itself, are the whole.
LEMMA PartsAreAll == PartsTyped <=> ScreensTyped
BY DEF PartsTyped, ScreensTyped, TypeOK, StoreTyped, RequestsTyped, DialoguesTyped, RuntimeTyped

\* Types at the start.
LEMMA InitTyped == Init => ScreensTyped
<1> SUFFICES ASSUME Init PROVE PartsTyped
  BY PartsAreAll
<1>1. StoreTyped
  <2>1. PICK kept \in SUBSET DOMAIN Saved :
          db = [posts |-> Stored, sessions |-> {},
                keywords |-> {[id |-> i, text |-> Saved[i]] : i \in kept},
                sources |-> allow, titled |-> allow]
    BY DEF Init
  <2> DEFINE keywords == {[id |-> i, text |-> Saved[i]] : i \in kept}
             row == [i \in kept |-> [id |-> i, text |-> Saved[i]]]
  <2>2. /\ DOMAIN Saved = 1..Len(Saved) /\ Len(Saved) \in Nat
        /\ \A i \in DOMAIN Saved : Saved[i] \in Texts
        /\ Stored \in Seq(Posts)
    BY BotStoreAssumption
  <2>3. IsFiniteSet(1..Len(Saved))
    BY <2>2, FS_Interval
  <2>4. IsFiniteSet(kept)
    BY <2>2, <2>3, FS_Subset
  <2>5. row \in Surjection(kept, keywords)
    BY DEF Surjection
  <2>6. keywords \subseteq Keyword
    BY <2>2 DEF Keyword
  <2> HIDE DEF row, keywords
  <2>7. IsFiniteSet(keywords)
    BY <2>4, <2>5, FS_Surjection
  <2>8. IsFiniteSet({})
    BY FS_EmptySet
  <2>9. allow \subseteq Chats
    BY ScreensAssumption DEF Init
  <2>10. db = [posts |-> Stored, sessions |-> {}, keywords |-> keywords,
               sources |-> allow, titled |-> allow]
    BY <2>1 DEF keywords
  <2>11. db \in Tables /\ Finite(db)
    BY <2>2, <2>6, <2>7, <2>8, <2>9, <2>10 DEF Tables, Finite
  <2> QED  BY <2>11 DEF Init, StoreTyped
<1>2. RequestsTyped
  <2>1. Paged(NoRequest)
    BY DEF Paged, NoRequest, Paging
  <2> QED  BY <2>1, NoRequestTyped DEF Init, RequestsTyped
<1>3. DialoguesTyped
  <2>1. Saved \in Seq(Texts) /\ Sender \in [Texts -> Users]
    BY BotStoreAssumption
  <2>2. \A i \in DOMAIN Saved : i \in Nat /\ Saved[i] \in Texts
    BY <2>1
  <2>3. ToSet(Saved) \subseteq Texts
    BY <2>2 DEF ToSet
  <2> QED  BY <2>1, <2>2, <2>3 DEF Init, DialoguesTyped, PromptStates
<1>4. RuntimeTyped
  <2>1. 0 \in 0..MaxUpdates /\ 0 \in 0..MaxCrashes
    BY ScreensAssumption
  <2> QED  BY <2>1 DEF Init, RuntimeTyped
<1> QED  BY <1>1, <1>2, <1>3, <1>4 DEF Init, PartsTyped

\* Types after each step.
LEMMA NextTyped == ScreensTyped /\ [Next]_vars => ScreensTyped'
<1> SUFFICES ASSUME ScreensTyped, [Next]_vars PROVE PartsTyped'
  BY DEF PartsTyped, ScreensTyped, TypeOK, StoreTyped, RequestsTyped, DialoguesTyped,
         RuntimeTyped
<1>1. PartsTyped
  BY PartsAreAll
<1>2. ASSUME NEW r \in Requests, Update(r) PROVE PartsTyped'
  <2>1. UNCHANGED <<db, disk, shown, expired>>
    BY <1>2 DEF Update, PressPage, SendText, PressOpen, PressDelete
  <2>2. DialoguesTyped'
    <3>1. CASE \E t \in Texts : SendText(r, t)
      BY <3>1, HandleDialoguesTyped
    <3>2. CASE UNCHANGED dialogueVars
      BY <1>1, <3>2 DEF PartsTyped, DialoguesTyped, dialogueVars
    <3> QED  BY <1>2, <3>1, <3>2 DEF Update, PressOpen, PressDelete
  <2>3. StoreTyped'
    BY <1>1, <2>1 DEF PartsTyped, StoreTyped, Finite
  <2>4. RuntimeTyped'
    BY <1>2, CountedTyped DEF Update
  <2> QED  BY <1>1, <1>2, <2>1, <2>2, <2>3, <2>4, UpdateTyped DEF PartsTyped
<1>3. ASSUME NEW r \in Requests, Handle(r) PROVE PartsTyped'
  <2>0. UNCHANGED runtimeVars
    BY <1>3 DEF Handle
  <2>1. RuntimeTyped'
    BY <1>1, <2>0, Zenon DEF PartsTyped, RuntimeTyped, runtimeVars
  <2>2. expired' = expired
    BY <1>3 DEF Handle, EnsureUser, SearchStep, ReadMax, Prune, CreateSession,
                CommitSession, Lookup, Count, ShowFails, Deny, Answer, ShowRows,
                KeywordStep, SaveKeyword, CommitKeyword, ShowDetails, FindKeyword,
                RemoveKeyword, CommitRemoval, ClearState
  <2>3. CASE (EnsureUser(r) \/ SearchStep(r)) /\ UNCHANGED dialogueVars
    <3>1. DialoguesTyped' /\ shown' = shown
      BY <1>1, <2>3
         DEF PartsTyped, DialoguesTyped, dialogueVars, EnsureUser, SearchStep, ReadMax,
             Prune, CreateSession, CommitSession, Lookup, Count, ShowFails, Deny
    <3>2. StoreTyped'
      <4>1. CASE Prune(r) \/ CreateSession(r)
        BY <4>1, SessionsTyped
      <4>2. CASE Commit \/ UNCHANGED <<db, disk>>
        BY <1>1, <4>2, CommitTyped DEF PartsTyped
      <4> QED
        BY <2>3, <4>1, <4>2 DEF EnsureUser, SearchStep, ReadMax, CommitSession, Lookup,
                                Count, ShowFails, Deny
    <3> QED
      BY <1>1, <2>1, <2>2, <2>3, <3>1, <3>2, SearchStepTyped, SMTT(30) DEF PartsTyped
  <2>4. CASE Answer(r)
    <3>1. ShowRows(r) /\ UNCHANGED <<db, disk>>
      BY <2>4 DEF Answer, ShowRows
    <3>2. StoreTyped'
      BY <1>1, <3>1, CommitTyped DEF PartsTyped
    <3> QED
      BY <1>1, <2>1, <2>2, <2>4, <3>1, <3>2, SearchStepTyped, ShownTyped, HandleDialoguesTyped
         DEF PartsTyped
  <2>5. CASE KeywordStep(r) \/ ClearState(r)
    <3>1. shown' = shown
      BY <2>5 DEF KeywordStep, SaveKeyword, CommitKeyword, ShowDetails, FindKeyword,
                  RemoveKeyword, CommitRemoval, ClearState
    <3>2. StoreTyped'
      <4>1. CASE SaveKeyword(r) \/ RemoveKeyword(r)
        BY <4>1, KeywordsTyped
      <4>2. CASE Commit \/ UNCHANGED <<db, disk>>
        BY <1>1, <4>2, CommitTyped DEF PartsTyped
      <4> QED
        BY <2>5, <4>1, <4>2 DEF KeywordStep, CommitKeyword, ShowDetails, FindKeyword,
                                CommitRemoval, ClearState
    <3> QED
      BY <1>1, <2>1, <2>2, <2>5, <3>1, <3>2, KeywordStepTyped, HandleDialoguesTyped
         DEF PartsTyped
  <2> QED  BY <1>3, <2>3, <2>4, <2>5 DEF Handle
<1>4. ASSUME NEW u \in Chatters, Press(u) PROVE PartsTyped'
  <2>1. UNCHANGED <<searchVars, db, disk>> /\ Counted
    BY <1>4 DEF Press, PressBack, ShowPrompt
  <2>2. StoreTyped' /\ RequestsTyped'
    BY <1>1, <2>1, CommitTyped DEF PartsTyped, RequestsTyped, searchVars
  <2> QED
    BY <1>1, <1>4, <2>1, <2>2, PressTyped, CountedTyped DEF PartsTyped, searchVars
<1>5. CASE (\E p \in Posts : InsertPost(p) \/ CommitPost(p)) \/ Startup \/ Die \/ Restart
  <2>1. UNCHANGED <<shown, expired>>
    BY <1>5 DEF InsertPost, CommitPost, Startup, ResolveTitles, DeleteStale, Upsert,
                CommitSources, Die, Restart, searchVars
  <2>2. StoreTyped'
    <3>1. CASE (\E p \in Posts : InsertPost(p)) \/ DeleteStale \/ Upsert
      BY <3>1, PostsAndSourcesTyped
    <3>2. CASE Commit \/ LoseUncommitted \/ UNCHANGED <<db, disk>>
      BY <1>1, <3>2, CommitTyped DEF PartsTyped
    <3> QED
      BY <1>5, <3>1, <3>2 DEF CommitPost, Startup, ResolveTitles, CommitSources, Die, Restart
  <2>3. RequestsTyped'
    <3>1. CASE Die \/ Restart
      BY <3>1, EndTyped
    <3>2. CASE req' = req
      BY <1>1, <3>2 DEF PartsTyped, RequestsTyped
    <3> QED
      BY <1>5, <3>1, <3>2 DEF InsertPost, CommitPost, Startup, ResolveTitles, DeleteStale,
                              Upsert, CommitSources, searchVars
  <2>4. DialoguesTyped'
    <3>1. CASE Die
      BY <1>1, <3>1 DEF PartsTyped, DialoguesTyped, Die, PromptStates
    <3>2. CASE UNCHANGED dialogueVars
      BY <1>1, <3>2 DEF PartsTyped, DialoguesTyped, dialogueVars
    <3> QED
      BY <1>5, <3>1, <3>2 DEF InsertPost, CommitPost, Startup, ResolveTitles, DeleteStale,
                              Upsert, CommitSources, Restart
  <2> QED
    BY <1>1, <1>5, <2>1, <2>2, <2>3, <2>4, RuntimeStepTyped DEF PartsTyped
<1>6. CASE WeekPasses /\ UNCHANGED <<dialogueVars, runtimeVars>>
  <2>1. StoreTyped'
    BY <1>1, <1>6, AgeTyped DEF WeekPasses, PartsTyped, StoreTyped
  <2>2. expired' \subseteq Texts
    <3>1. \A s \in db.sessions \cup disk.sessions : s.text \in Texts
      BY <1>1 DEF PartsTyped, StoreTyped, Tables, Session
    <3> QED  BY <1>1, <1>6, <3>1 DEF WeekPasses, PartsTyped
  <2> QED
    BY <1>1, <1>6, <2>1, <2>2
       DEF WeekPasses, PartsTyped, RequestsTyped, DialoguesTyped, RuntimeTyped,
           dialogueVars, runtimeVars
<1>7. CASE UNCHANGED vars
  <2>1. UNCHANGED <<db, disk>> /\ UNCHANGED <<searchVars, dialogueVars, runtimeVars>>
    BY <1>7 DEF vars
  <2>2. StoreTyped'
    BY <1>1, <2>1, CommitTyped DEF PartsTyped
  <2> QED
    BY <1>1, <2>1, <2>2 DEF PartsTyped, RequestsTyped, DialoguesTyped, RuntimeTyped,
                            searchVars, dialogueVars, runtimeVars
<1> QED
  BY <1>2, <1>3, <1>4, <1>5, <1>6, <1>7 DEF Next

\* Sessions, keywords, requests, screens and states keep their types: every
\* page that is shown has a number from 1 up.
THEOREM BotScreensTyped == Spec => []TypeOK
<1>1. Spec => []ScreensTyped
  BY InitTyped, NextTyped, PTL DEF Spec
<1> QED  BY <1>1, PTL DEF ScreensTyped

-----------------------------------------------------------------------------
(* Prompts *)

\* A handler that has only to clear the state is still submitting, and no
\* prompt that was shown meanwhile counts as open; an answered prompt has left
\* the state cleared, or a handler that will clear it.
PromptsInv ==
  /\ \A r \in Requests : req[r].pc \in {"save", "commit_save"} => req[r].kind = "keyword"
  /\ \A r \in Requests : req[r].pc = "clear" =>
       /\ req[r].prompted \/ req[r].kind = "keyword"
       /\ prompt[req[r].user] # "open"
  /\ \A u \in Users : prompt[u] = "open" => fsm[u] # "none"
  /\ \A u \in Users : prompt[u] = "answered" =>
       \/ fsm[u] = "none"
       \/ \E r \in Requests : req[r].pc = "clear" /\ req[r].user = u

\* A handler that is to clear the state stays as it is, no other gets there,
\* and only keywords get saved.
Quiet ==
  \A r \in Requests :
    \/ req'[r] = req[r]
    \/ /\ req[r].pc # "clear"
       /\ req'[r].pc # "clear"
       /\ req'[r].pc \in {"save", "commit_save"} => req'[r].kind = "keyword"

\* Steps that submit nothing and keep the states leave the prompts as they were.
LEMMA QuietIsEnough ==
  ASSUME PromptsInv, Quiet, UNCHANGED <<fsm, prompt>>
  PROVE  PromptsInv'
<1>1. \A r \in Requests : req'[r].pc \in {"save", "commit_save"} => req'[r].kind = "keyword"
  BY DEF PromptsInv, Quiet
<1>2. \A r \in Requests : req'[r].pc = "clear" => req'[r] = req[r]
  BY DEF Quiet
<1>3. \A r \in Requests : req[r].pc = "clear" => req'[r] = req[r]
  BY DEF Quiet
<1> QED  BY <1>1, <1>2, <1>3 DEF PromptsInv

\* Which steps those are.
LEMMA StepsAreQuiet ==
  ASSUME ScreensTyped, PromptsInv, NEW r \in Requests,
         \/ Update(r) \/ EnsureUser(r) \/ SearchStep(r)
         \/ ShowRows(r) /\ ~req[r].prompted
         \/ KeywordStep(r) /\ ~CommitKeyword(r)
  PROVE  Quiet
<1>1. req \in [Requests -> Request] /\ req[r] \in Request
  BY DEF ScreensTyped, RequestsTyped
<1>2. NoRequest.pc = "idle"
  BY DEF NoRequest
<1>3. ASSUME Finish(r), req[r].pc # "clear" PROVE Quiet
  BY <1>1, <1>2, <1>3 DEF Finish, Quiet
<1>4. ASSUME NEW pc, Goto(r, pc), req[r].pc # "clear", pc # "clear",
             pc \in {"save", "commit_save"} => req[r].kind = "keyword"
      PROVE  Quiet
  BY <1>1, <1>4 DEF Goto, Quiet, Request
<1>5. CASE Update(r)
  <2>1. ASSUME NEW kind, NEW prompted, NEW u, NEW t, NEW raw, NEW id, NEW page, Free(r),
               Begin(r, kind, prompted, u, t, raw, id, page)
        PROVE  Quiet
    <3> DEFINE new == [NoRequest EXCEPT !.pc = "user", !.kind = kind, !.prompted = prompted,
                                        !.user = u, !.text = t, !.raw = raw, !.id = id,
                                        !.page = page, !.named = t, !.target = page]
    <3>1. req' = [req EXCEPT ![r] = new] /\ new.pc = "user"
      BY <2>1 DEF Begin, NoRequest
    <3> HIDE DEF new
    <3> QED  BY <1>1, <2>1, <3>1 DEF Free, Quiet
  <2>2. CASE PressPage(r) \/ PressOpen(r) \/ PressDelete(r)
    BY <2>1, <2>2 DEF PressPage, PressOpen, PressDelete
  <2>3. CASE \E t \in Texts : SendText(r, t)
    BY <2>1, <2>3 DEF SendText
  <2> QED  BY <1>5, <2>2, <2>3 DEF Update
<1>6. CASE EnsureUser(r)
  <2>1. req[r].pc # "clear" /\ req[r].kind \in {"search", "page", "keyword", "open", "delete"}
    BY <1>1, <1>6 DEF EnsureUser, Request
  <2>2. CASE Finish(r)
    BY <1>3, <2>1, <2>2
  <2>3. CASE \E pc \in {"max", "lookup", "details", "find"} : Goto(r, pc)
    BY <1>4, <2>1, <2>3
  <2>4. CASE Goto(r, "save") /\ req[r].kind = "keyword"
    BY <1>4, <2>1, <2>4
  <2> QED  BY <1>6, <2>1, <2>2, <2>3, <2>4 DEF EnsureUser
<1>7. CASE ReadMax(r) \/ CreateSession(r)
  BY <1>1, <1>7, SMTT(30) DEF ReadMax, CreateSession, Quiet, Request
<1>8. CASE Prune(r) \/ CommitSession(r)
  BY <1>4, <1>8 DEF Prune, CommitSession
<1>9. CASE Lookup(r)
  <2>1. CASE Goto(r, "denied")
    BY <1>4, <1>9, <2>1 DEF Lookup
  <2>2. CASE \E s \in db.sessions :
               req' = [req EXCEPT ![r].pc = "count", ![r].text = s.text,
                                  ![r].raw = s.raw, ![r].snapshot = s.snapshot]
    <3>1. PICK s \in db.sessions :
                 req' = [req EXCEPT ![r].pc = "count", ![r].text = s.text,
                                    ![r].raw = s.raw, ![r].snapshot = s.snapshot]
      BY <2>2
    <3>2. req[r].pc # "clear"
      BY <1>9 DEF Lookup
    <3>3. \A q \in Requests : q # r => req'[q] = req[q]
      BY <1>1, <3>1
    <3>4. req'[r].pc = "count"
      BY <1>1, <3>1 DEF Request
    <3> QED  BY <3>2, <3>3, <3>4 DEF Quiet
  <2> QED  BY <1>9, <2>1, <2>2 DEF Lookup, RowOf
<1>10. CASE Count(r)
  BY <1>1, <1>10 DEF Count, Quiet, Request
<1>11. CASE ShowFails(r) \/ Deny(r) \/ (ShowRows(r) /\ ~req[r].prompted)
  BY <1>3, <1>11 DEF ShowFails, Deny, ShowRows
<1>12. CASE SaveKeyword(r)
  BY <1>4, <1>12 DEF SaveKeyword, PromptsInv
<1>13. CASE ShowDetails(r) \/ FindKeyword(r) \/ RemoveKeyword(r) \/ CommitRemoval(r)
  BY <1>3, <1>4, <1>13
     DEF ShowDetails, FindKeyword, RemoveKeyword, CommitRemoval
<1> QED
  BY <1>5, <1>6, <1>7, <1>8, <1>9, <1>10, <1>11, <1>12, <1>13 DEF SearchStep, KeywordStep

\* The answer is out; the handler has still to clear the state.
LEMMA AnsweredKeeps ==
  ASSUME ScreensTyped, PromptsInv, NEW r \in Requests,
         req[r].prompted \/ req[r].kind = "keyword", Goto(r, "clear"),
         prompt' = [prompt EXCEPT ![req[r].user] = "answered"], UNCHANGED fsm
  PROVE  PromptsInv'
<1>1. /\ req \in [Requests -> Request] /\ req[r] \in Request
      /\ prompt \in [Users -> PromptStates]
  BY DEF ScreensTyped, RequestsTyped, TypeOK
<1>2. /\ req'[r] = [req[r] EXCEPT !.pc = "clear"]
      /\ \A q \in Requests : q # r => req'[q] = req[q]
  BY <1>1 DEF Goto, Request
<1>3. /\ req'[r].pc = "clear" /\ req'[r].user = req[r].user /\ req[r].user \in Users
      /\ req'[r].prompted = req[r].prompted /\ req'[r].kind = req[r].kind
  BY <1>1, <1>2 DEF Request
<1>4. /\ prompt'[req[r].user] = "answered"
      /\ \A u \in Users : u # req[r].user => prompt'[u] = prompt[u]
  BY <1>1, <1>3
<1>5. \A q \in Requests : req'[q].pc = "clear" =>
        /\ req'[q].prompted \/ req'[q].kind = "keyword"
        /\ prompt'[req'[q].user] # "open"
  <2> SUFFICES ASSUME NEW q \in Requests, req'[q].pc = "clear"
               PROVE  /\ req'[q].prompted \/ req'[q].kind = "keyword"
                      /\ prompt'[req'[q].user] # "open"
    OBVIOUS
  <2>1. CASE q = r
    BY <1>3, <1>4, <2>1
  <2>2. CASE q # r
    <3>1. req[q].user \in Users
      BY <1>1 DEF Request
    <3> QED  BY <1>2, <1>4, <2>2, <3>1 DEF PromptsInv
  <2> QED  BY <2>1, <2>2
<1>6. \A u \in Users : prompt'[u] = "open" => fsm'[u] # "none"
  BY <1>3, <1>4 DEF PromptsInv
<1>7. ASSUME NEW u \in Users, prompt'[u] = "answered", fsm'[u] # "none"
      PROVE  \E q \in Requests : req'[q].pc = "clear" /\ req'[q].user = u
  <2>1. CASE u = req[r].user
    BY <1>3, <2>1
  <2>2. CASE u # req[r].user
    <3>1. PICK q \in Requests : req[q].pc = "clear" /\ req[q].user = u
      BY <1>4, <1>7, <2>2 DEF PromptsInv
    <3> QED  BY <1>2, <2>2, <3>1
  <2> QED  BY <2>1, <2>2
<1>8. ASSUME NEW q \in Requests, req'[q].pc \in {"save", "commit_save"}
      PROVE  req'[q].kind = "keyword"
  <2>1. q # r
    BY <1>3, <1>8
  <2> QED  BY <1>2, <1>8, <2>1 DEF PromptsInv
<1> QED  BY <1>5, <1>6, <1>7, <1>8 DEF PromptsInv

\* The state is cleared behind an answer.
LEMMA ClearKeeps ==
  ASSUME ScreensTyped, PromptsInv, NEW r \in Requests, ClearState(r)
  PROVE  PromptsInv'
<1>1. /\ req \in [Requests -> Request] /\ req[r].user \in Users /\ req[r].pc = "clear"
      /\ fsm \in [Users -> {"none", "query", "text"}]
  BY DEF ScreensTyped, RequestsTyped, TypeOK, ClearState, Request
<1>2. /\ req'[r].pc = "idle"
      /\ \A q \in Requests : q # r => req'[q] = req[q]
  BY <1>1 DEF ClearState, Finish, NoRequest
<1>3. /\ prompt' = prompt
      /\ fsm'[req[r].user] = "none"
      /\ \A u \in Users : u # req[r].user => fsm'[u] = fsm[u]
  BY <1>1 DEF ClearState
<1>4. \A u \in Users : prompt'[u] = "open" => fsm'[u] # "none"
  BY <1>1, <1>3 DEF PromptsInv
<1>5. ASSUME NEW u \in Users, prompt'[u] = "answered", fsm'[u] # "none"
      PROVE  \E q \in Requests : req'[q].pc = "clear" /\ req'[q].user = u
  <2>1. u # req[r].user /\ fsm[u] # "none"
    BY <1>3, <1>5
  <2>2. PICK q \in Requests : req[q].pc = "clear" /\ req[q].user = u
    BY <1>3, <1>5, <2>1 DEF PromptsInv
  <2> QED  BY <1>2, <2>1, <2>2
<1>6. \A q \in Requests : req'[q].pc # "idle" => req'[q] = req[q]
  BY <1>2
<1> QED  BY <1>3, <1>4, <1>5, <1>6 DEF PromptsInv

\* A prompt that is shown while a text is handled is contested, so a handler
\* that clears the state never takes an open one.
LEMMA PressKeeps ==
  ASSUME ScreensTyped, PromptsInv, NEW u \in Chatters, Press(u)
  PROVE  PromptsInv'
<1>1. /\ req \in [Requests -> Request] /\ req' = req
      /\ fsm \in [Users -> {"none", "query", "text"}]
      /\ prompt \in [Users -> PromptStates]
      /\ u \in Users
  BY ScreensAssumption DEF ScreensTyped, RequestsTyped, TypeOK, Press, PressBack,
                           ShowPrompt, searchVars
<1>2. \A v \in Users : v # u => fsm'[v] = fsm[v] /\ prompt'[v] = prompt[v]
  BY <1>1 DEF Press, PressBack, ShowPrompt
<1>3. \/ prompt'[u] \in {"closed", "contested"}
      \/ prompt'[u] = "open" /\ fsm'[u] # "none" /\ ~Submitting(u)
  <2>1. CASE PressBack(u)
    BY <1>1, <2>1 DEF PressBack
  <2>2. CASE \E state \in {"query", "text"} : ShowPrompt(u, state)
    BY <1>1, <2>2 DEF ShowPrompt
  <2> QED  BY <2>1, <2>2 DEF Press
<1>4. ASSUME NEW r \in Requests, req[r].pc = "clear", req[r].user = u
      PROVE  Submitting(u)
  BY <1>4 DEF Submitting, Free, PromptsInv
<1>5. \A r \in Requests : req[r].user \in Users
  BY <1>1 DEF Request
<1>6. \A r \in Requests : req[r].pc = "clear" => prompt'[req[r].user] # "open"
  BY <1>2, <1>3, <1>4, <1>5 DEF PromptsInv
<1>7. \A v \in Users : prompt'[v] = "open" => fsm'[v] # "none"
  BY <1>2, <1>3 DEF PromptsInv
<1>8. \A v \in Users : prompt'[v] = "answered" => v # u
  BY <1>3
<1> QED  BY <1>1, <1>2, <1>6, <1>7, <1>8 DEF PromptsInv

\* No prompt is open at the start.
LEMMA InitPrompts == Init => PromptsInv
BY DEF Init, PromptsInv, NoRequest

\* Each step keeps what is known of the prompts.
LEMMA NextPrompts == ScreensTyped /\ PromptsInv /\ [Next]_vars => PromptsInv'
<1> SUFFICES ASSUME ScreensTyped, PromptsInv, [Next]_vars PROVE PromptsInv'
  OBVIOUS
<1>1. ASSUME NEW r \in Requests, Update(r) PROVE PromptsInv'
  <2>1. UNCHANGED <<fsm, prompt>>
    BY <1>1 DEF Update, PressPage, SendText, PressOpen, PressDelete, dialogueVars
  <2> QED  BY <1>1, <2>1, StepsAreQuiet, QuietIsEnough
<1>2. ASSUME NEW r \in Requests, Handle(r) PROVE PromptsInv'
  <2>1. CASE (EnsureUser(r) \/ SearchStep(r)) /\ UNCHANGED dialogueVars
    BY <2>1, StepsAreQuiet, QuietIsEnough DEF dialogueVars
  <2>2. CASE Answer(r)
    <3>1. CASE req[r].prompted
      BY <2>2, <3>1, AnsweredKeeps DEF Answer, ShowRows
    <3>2. CASE ~req[r].prompted
      BY <2>2, <3>2, StepsAreQuiet, QuietIsEnough DEF Answer
    <3> QED  BY <3>1, <3>2
  <2>3. CASE CommitKeyword(r)
    BY <2>3, AnsweredKeeps DEF CommitKeyword, PromptsInv
  <2>4. CASE KeywordStep(r) /\ ~CommitKeyword(r)
    <3>1. UNCHANGED <<fsm, prompt>>
      BY <2>4 DEF KeywordStep, SaveKeyword, ShowDetails, FindKeyword, RemoveKeyword,
                  CommitRemoval, dialogueVars
    <3> QED  BY <2>4, <3>1, StepsAreQuiet, QuietIsEnough
  <2>5. CASE ClearState(r)
    BY <2>5, ClearKeeps
  <2> QED  BY <1>2, <2>1, <2>2, <2>3, <2>4, <2>5 DEF Handle
<1>3. ASSUME NEW u \in Chatters, Press(u) PROVE PromptsInv'
  BY <1>3, PressKeeps
<1>4. CASE Die
  BY <1>4 DEF Die, PromptsInv, NoRequest
<1>5. CASE Restart
  <2>1. UNCHANGED <<fsm, prompt>>
    BY <1>5 DEF Restart, dialogueVars
  <2>2. \A r \in Requests : req'[r] = IF req[r].pc = "clear" THEN req[r] ELSE NoRequest
    BY <1>5 DEF Restart
  <2>3. NoRequest.pc = "idle"
    BY DEF NoRequest
  <2>4. \A r \in Requests : req'[r] = req[r] \/ (req[r].pc # "clear" /\ req'[r].pc = "idle")
    BY <2>2, <2>3
  <2>5. Quiet
    BY <2>4 DEF Quiet
  <2> QED  BY <2>1, <2>5, QuietIsEnough
<1>6. CASE UNCHANGED <<req, fsm, prompt>>
  BY <1>6 DEF PromptsInv
<1> QED
  BY <1>1, <1>2, <1>3, <1>4, <1>5, <1>6
     DEF Next, Startup, ResolveTitles, DeleteStale, Upsert, CommitSources, InsertPost,
         CommitPost, WeekPasses, vars, searchVars, dialogueVars

\* What is known of the prompts holds in every reachable state.
LEMMA PromptsAlways == Spec => []PromptsInv
<1>1. Spec => []ScreensTyped
  BY InitTyped, NextTyped, PTL DEF Spec
<1> QED  BY <1>1, InitPrompts, NextPrompts, PTL DEF Spec

\* A prompt that waits for its answer is lost to no handler, failure or restart,
\* unless it was shown while an earlier text was handled.
THEOREM OpenPromptsWait == Spec => []LostPromptsOverlap
<1>1. PromptsInv => LostPromptsOverlap
  BY DEF PromptsInv, LostPromptsOverlap
<1> QED  BY <1>1, PromptsAlways, PTL

\* When the handler that answered a prompt has ended, the chat's next text is
\* not taken for another answer, whatever ran or failed in between.
THEOREM PromptsCloseOnce == Spec => []AnsweredPromptsClose
<1>1. PromptsInv => AnsweredPromptsClose
  BY DEF PromptsInv, AnsweredPromptsClose, Submitting, Free
<1> QED  BY <1>1, PromptsAlways, PTL

-----------------------------------------------------------------------------
(* Sources *)

SameSources(d, e) == d.sources = e.sources /\ d.titled = e.titled

\* Until the sources are committed no handler has anything to write, and the
\* rows are on their way from what is on disk to the configured list; from
\* then on nobody changes them.
SourcesInv ==
  /\ phase # "live" => storing = {} /\ \A r \in Requests : req[r].pc \in {"idle", "clear"}
  /\ disk.sources \in Allowlists
  /\ phase \in {"resolve", "live"} => SameSources(db, disk)
  /\ phase = "live" => disk.sources = allow
  /\ phase \in {"delete", "upsert"} => /\ todo \subseteq allow
                                       /\ allow \subseteq db.sources \cup todo
                                       /\ disk.titled \cap allow \subseteq db.titled
  /\ phase = "upsert" => db.sources \subseteq allow

\* What a step that is neither a startup's nor an end leaves alone.
SourcesKept ==
  /\ UNCHANGED <<phase, allow, todo>>
  /\ SameSources(db', db)
  /\ SameSources(disk', disk) \/ (phase = "live" /\ disk' = db)
  /\ phase # "live" => /\ storing' = storing
                       /\ \A r \in Requests : req'[r].pc \in {req[r].pc, "idle"}

SourcesStep ==
  /\ disk'.sources \in Allowlists
  /\ phase' = "live" => disk'.sources = allow'
  /\ disk.titled \cap disk'.sources \subseteq disk'.titled

\* Steps that leave the sources and their phase alone.
LEMMA KeptIsEnough ==
  ASSUME SourcesInv, SourcesKept
  PROVE  SourcesInv' /\ SourcesStep
<1>1. SameSources(disk', disk)
  BY DEF SourcesInv, SourcesKept, SameSources
<1>2. phase' # "live" =>
        storing' = {} /\ \A r \in Requests : req'[r].pc \in {"idle", "clear"}
  BY DEF SourcesInv, SourcesKept
<1> QED  BY <1>1, <1>2 DEF SourcesInv, SourcesKept, SourcesStep, SameSources

\* No handler touches the sources; it may commit them.
LEMMA HandleSources ==
  ASSUME ScreensTyped, SourcesInv, NEW r \in Requests, Handle(r)
  PROVE  SourcesKept
<1>1. /\ db \in Tables /\ req \in [Requests -> Request]
  BY DEF ScreensTyped, StoreTyped, RequestsTyped
<1>2. UNCHANGED <<phase, allow, todo, storing>>
  BY DEF Handle, runtimeVars
<1>3. CASE ClearState(r)
  <2>1. NoRequest.pc = "idle"
    BY DEF NoRequest
  <2>2. \A q \in Requests : req'[q] = req[q] \/ req'[q].pc = "idle"
    BY <1>1, <1>3, <2>1 DEF ClearState, Finish
  <2> QED  BY <1>2, <1>3, <2>2 DEF ClearState, SourcesKept, SameSources
<1>4. CASE ~ClearState(r)
  <2>1. phase = "live"
    BY <1>4
       DEF SourcesInv, Handle, EnsureUser, SearchStep, ReadMax, Prune, CreateSession,
           CommitSession, Lookup, Count, ShowFails, Deny, Answer, ShowRows, KeywordStep,
           SaveKeyword, CommitKeyword, ShowDetails, FindKeyword, RemoveKeyword, CommitRemoval
  <2>2. SameSources(db', db) /\ (disk' = disk \/ disk' = db)
    <3>1. CASE UNCHANGED <<db, disk>> \/ Commit
      BY <3>1 DEF Commit, SameSources
    <3>2. CASE Prune(r) \/ CreateSession(r) \/ SaveKeyword(r) \/ RemoveKeyword(r)
      <4>1. \/ \E rows : db' = [db EXCEPT !.sessions = rows]
            \/ \E rows : db' = [db EXCEPT !.keywords = rows]
        BY <3>2 DEF Prune, CreateSession, SaveKeyword, RemoveKeyword
      <4>2. disk' = disk
        BY <3>2 DEF Prune, CreateSession, SaveKeyword, RemoveKeyword
      <4>3. SameSources(db', db)
        BY <1>1, <4>1, SMTT(30) DEF Tables, SameSources
      <4> QED  BY <4>2, <4>3
    <3>3. \/ UNCHANGED <<db, disk>> \/ Commit
          \/ Prune(r) \/ CreateSession(r) \/ SaveKeyword(r) \/ RemoveKeyword(r)
      BY <1>4
         DEF Handle, EnsureUser, SearchStep, ReadMax, CommitSession, Lookup, Count,
             ShowFails, Deny, Answer, ShowRows, KeywordStep, CommitKeyword, ShowDetails,
             FindKeyword, CommitRemoval
    <3> QED  BY <3>1, <3>2, <3>3, Zenon
  <2> QED  BY <1>2, <2>1, <2>2, Zenon DEF SourcesKept, SameSources
<1> QED  BY <1>3, <1>4

\* Each step keeps the sources whole.
LEMMA SourcesNext ==
  ASSUME ScreensTyped, SourcesInv, [Next]_vars
  PROVE  SourcesInv' /\ SourcesStep
<1>1. /\ db \in Tables /\ disk \in Tables /\ allow \in Allowlists
  BY DEF ScreensTyped, StoreTyped, TypeOK
<1>2. ASSUME NEW r \in Requests, Handle(r) PROVE SourcesInv' /\ SourcesStep
  BY <1>2, HandleSources, KeptIsEnough
<1>3. CASE \/ \E r \in Requests : Update(r)
           \/ \E u \in Chatters : Press(u)
           \/ UNCHANGED vars
  <2>1. UNCHANGED <<db, disk, phase, allow, todo, storing>>
    BY <1>3
       DEF Update, PressPage, SendText, PressOpen, PressDelete, Press, PressBack, ShowPrompt,
           Counted, vars, runtimeVars
  <2>2. phase = "live" \/ req' = req
    BY <1>3 DEF Update, Press, vars, searchVars
  <2> QED  BY <2>1, <2>2, KeptIsEnough DEF SourcesKept, SameSources
<1>4. ASSUME NEW p \in Posts, InsertPost(p) PROVE SourcesInv' /\ SourcesStep
  <2>1. SameSources(db', db)
    BY <1>1, <1>4 DEF InsertPost, Tables, SameSources
  <2> QED  BY <1>4, <2>1, KeptIsEnough DEF SourcesKept, InsertPost, SameSources, searchVars
<1>5. ASSUME NEW p \in Posts, CommitPost(p) PROVE SourcesInv' /\ SourcesStep
  <2>1. phase = "live"
    BY <1>5 DEF CommitPost, SourcesInv
  <2> QED
    BY <1>5, <2>1, KeptIsEnough DEF SourcesKept, CommitPost, Commit, SameSources
<1>6. CASE WeekPasses /\ UNCHANGED <<dialogueVars, runtimeVars>>
  <2>1. SameSources(db', db) /\ SameSources(disk', disk)
    BY <1>1, <1>6 DEF WeekPasses, Age, Tables, SameSources
  <2> QED
    BY <1>6, <2>1, KeptIsEnough DEF SourcesKept, WeekPasses, runtimeVars
<1>7. CASE ResolveTitles
  BY <1>7 DEF ResolveTitles, SourcesInv, SourcesStep, SameSources, searchVars
<1>8. CASE DeleteStale
  <2>1. CASE db.sources \subseteq allow
    BY <1>8, <2>1 DEF DeleteStale, SourcesInv, SourcesStep, SameSources, searchVars
  <2>2. CASE ~(db.sources \subseteq allow)
    <3>1. PICK c \in db.sources \ allow :
                 db' = [db EXCEPT !.sources = @ \ {c}, !.titled = @ \ {c}]
      BY <1>8, <2>2 DEF DeleteStale
    <3>2. db'.sources = db.sources \ {c} /\ db'.titled = db.titled \ {c} /\ c \notin allow
      BY <1>1, <3>1 DEF Tables
    <3> QED
      BY <1>8, <2>2, <3>2 DEF DeleteStale, SourcesInv, SourcesStep, SameSources, searchVars
  <2> QED  BY <2>1, <2>2
<1>9. CASE Upsert
  <2>1. PICK c \in todo :
               /\ db' = [db EXCEPT !.sources = @ \cup {c}, !.titled = @ \cup ({c} \cap named)]
               /\ todo' = todo \ {c}
    BY <1>9 DEF Upsert
  <2>2. /\ db'.sources = db.sources \cup {c}
        /\ db.titled \subseteq db'.titled
    BY <1>1, <2>1 DEF Tables
  <2> QED
    BY <1>9, <2>1, <2>2 DEF Upsert, SourcesInv, SourcesStep, SameSources, searchVars
<1>10. CASE CommitSources
  BY <1>1, <1>10 DEF CommitSources, Commit, SourcesInv, SourcesStep, SameSources, searchVars
<1>11. CASE Die
  BY <1>11 DEF Die, LoseUncommitted, NoRequest, SourcesInv, SourcesStep, SameSources
<1>12. CASE Restart
  <2>1. NoRequest.pc = "idle"
    BY DEF NoRequest
  <2>2. \A r \in Requests : req'[r].pc \in {"idle", "clear"}
    BY <1>12, <2>1 DEF Restart
  <2> QED
    BY <1>12, <2>2 DEF Restart, LoseUncommitted, SourcesInv, SourcesStep, SameSources
<1> QED
  BY <1>2, <1>3, <1>4, <1>5, <1>6, <1>7, <1>8, <1>9, <1>10, <1>11, <1>12 DEF Next, Startup

\* Whenever the process dies in the middle of replacing the sources, the rows on
\* disk are one configured list as a whole, and titles outlive a failing
\* get_entity.
THEOREM SourcesReplacedWhole == Spec => SourcesStayWhole
<1>1. Init => SourcesInv
  BY DEF Init, SourcesInv, SameSources, NoRequest
<1>2. ScreensTyped /\ SourcesInv /\ [Next]_vars => SourcesInv' /\ SourcesStep
  BY SourcesNext
<1>3. SourcesStep =>
        /\ disk'.sources \in Allowlists
        /\ phase' = "live" => disk'.sources = allow'
        /\ disk.titled \cap disk'.sources \subseteq disk'.titled
  BY DEF SourcesStep
<1>4. Spec => []ScreensTyped
  BY InitTyped, NextTyped, PTL DEF Spec
<1> QED  BY <1>1, <1>2, <1>3, <1>4, PTL DEF Spec, SourcesStayWhole

-----------------------------------------------------------------------------
(* Names and snapshots *)

\* Handlers of texts that no row was written for yet.
Newcomer(q) == \/ q.pc \in {"max", "prune", "create", "save"}
               \/ q.pc = "user" /\ q.kind \in {"search", "keyword"}

\* Every text is sent once, so a text that is being handled names no row, no
\* screen and no other handler's text.
NewcomersInv ==
  /\ \A r \in Requests : Newcomer(req[r]) =>
       /\ req[r].text \in sent
       /\ req[r].kind # "delete"
       /\ \A q \in Requests : q # r /\ Newcomer(req[q]) => req[q].text # req[r].text
       /\ \A k \in db.keywords \cup disk.keywords : k.text # req[r].text
       /\ \A d \in details : d.text # req[r].text
       /\ \A s \in db.sessions \cup disk.sessions : s.text # req[r].text
  /\ \A k \in db.keywords \cup disk.keywords : k.text \in sent
  /\ \A d \in details : d.text \in sent
  /\ \A s \in db.sessions \cup disk.sessions : s.text \in sent

\* A name has one id, in the tables and on the screens; an id has one row, but
\* in time may have several.
NamesInv ==
  /\ \A k, v \in db.keywords \cup disk.keywords : k.text = v.text => k.id = v.id
  /\ \A k \in db.keywords \cup disk.keywords, d \in details : k.text = d.text => k.id = d.id
  /\ \A d, e \in details : d.text = e.text => d.id = e.id
  /\ \A k, v \in db.keywords : k.id = v.id => k = v
  /\ \A k, v \in disk.keywords : k.id = v.id => k = v
  /\ \A r \in Requests : req[r].pc \in {"find", "remove"} => req[r].kind = "delete"
  /\ \A r \in Requests : req[r].kind = "delete" =>
       \E d \in details : d.id = req[r].id /\ d.text = req[r].named

Longer(d, e) == /\ Len(e.posts) <= Len(d.posts)
                /\ \A i \in 1..Len(e.posts) : d.posts[i] = e.posts[i]

SameSearch(s, v) == s.text = v.text /\ s.raw = v.raw /\ s.snapshot = v.snapshot

\* A search has one query and one snapshot, and the tables that hold it hold
\* all the rows of the snapshot too.
SnapshotsInv ==
  /\ Longer(db, disk)
  /\ \A s, v \in db.sessions \cup disk.sessions : s.text = v.text => SameSearch(s, v)
  /\ \A s \in db.sessions : s.snapshot <= Len(db.posts)
  /\ \A s \in disk.sessions : s.snapshot <= Len(disk.posts)
  /\ \A r \in Requests : req[r].pc \in {"prune", "create"} => req[r].snapshot <= Len(db.posts)

RowsInv == NewcomersInv /\ NamesInv /\ SnapshotsInv

From(d, e) == /\ d.keywords \subseteq e.keywords
              /\ \A s \in d.sessions : \E v \in e.sessions : SameSearch(s, v)

TableStep == \/ /\ From(db', db) /\ Longer(db', db)
                /\ From(disk', disk) /\ disk'.posts = disk.posts
             \/ Commit
             \/ LoseUncommitted

ScreenStep == /\ details \subseteq details'
              /\ \A d \in details' : \/ d \in details
                                     \/ \E k \in db.keywords : k.id = d.id /\ k.text = d.text

RequestStep(r) ==
  /\ Newcomer(req'[r]) => /\ Newcomer(req[r])
                          /\ req'[r].text = req[r].text
                          /\ req'[r].kind = req[r].kind
  /\ req'[r].kind = "delete" => \E d \in details : d.id = req'[r].id /\ d.text = req'[r].named
  /\ req'[r].pc \in {"find", "remove"} => req'[r].kind = "delete"
  /\ req'[r].pc \in {"prune", "create"} => req'[r].snapshot <= Len(db'.posts)

\* Steps that bring no new name.
Tame == TableStep /\ ScreenStep /\ sent' = sent /\ \A r \in Requests : RequestStep(r)

\* Names and snapshots stay true where no new name comes.
LEMMA TameRows ==
  ASSUME ScreensTyped, RowsInv, Tame
  PROVE  RowsInv'
<1>1. /\ \A k \in db'.keywords \cup disk'.keywords : k \in db.keywords \cup disk.keywords
      /\ \A s \in db'.sessions \cup disk'.sessions :
           \E v \in db.sessions \cup disk.sessions : SameSearch(s, v)
  BY DEF Tame, TableStep, From, Commit, LoseUncommitted, SameSearch
<1>2. \A d \in details' : \/ d \in details
                          \/ \E k \in db.keywords : k.id = d.id /\ k.text = d.text
  BY DEF Tame, ScreenStep
<1>3. NewcomersInv'
  <2>1. ASSUME NEW r \in Requests, Newcomer(req'[r])
        PROVE  /\ req'[r].text \in sent
               /\ req'[r].kind # "delete"
               /\ \A q \in Requests : q # r /\ Newcomer(req'[q]) => req'[q].text # req'[r].text
               /\ \A k \in db'.keywords \cup disk'.keywords : k.text # req'[r].text
               /\ \A d \in details' : d.text # req'[r].text
               /\ \A s \in db'.sessions \cup disk'.sessions : s.text # req'[r].text
    <3>1. Newcomer(req[r]) /\ req'[r].text = req[r].text /\ req'[r].kind = req[r].kind
      BY <2>1 DEF Tame, RequestStep
    <3>2. \A q \in Requests : Newcomer(req'[q]) => Newcomer(req[q]) /\ req'[q].text = req[q].text
      BY DEF Tame, RequestStep
    <3>3. /\ \A q \in Requests : q # r /\ Newcomer(req[q]) => req[q].text # req[r].text
          /\ \A k \in db.keywords \cup disk.keywords : k.text # req[r].text
          /\ \A d \in details : d.text # req[r].text
          /\ \A s \in db.sessions \cup disk.sessions : s.text # req[r].text
          /\ req[r].text \in sent /\ req[r].kind # "delete"
      BY <3>1 DEF RowsInv, NewcomersInv
    <3> QED  BY <1>1, <1>2, <3>1, <3>2, <3>3 DEF SameSearch
  <2>2. /\ \A k \in db'.keywords \cup disk'.keywords : k.text \in sent
        /\ \A d \in details' : d.text \in sent
        /\ \A s \in db'.sessions \cup disk'.sessions : s.text \in sent
    BY <1>1, <1>2 DEF RowsInv, NewcomersInv, SameSearch
  <2>3. sent' = sent
    BY DEF Tame
  <2> QED  BY <2>1, <2>2, <2>3 DEF NewcomersInv
<1>4. NamesInv'
  <2>1. /\ \A k, v \in db'.keywords \cup disk'.keywords : k.text = v.text => k.id = v.id
        /\ \A k \in db'.keywords \cup disk'.keywords, d \in details' : k.text = d.text => k.id = d.id
        /\ \A d, e \in details' : d.text = e.text => d.id = e.id
    BY <1>1, <1>2 DEF RowsInv, NamesInv
  <2>2. /\ \A k, v \in db'.keywords : k.id = v.id => k = v
        /\ \A k, v \in disk'.keywords : k.id = v.id => k = v
    BY DEF RowsInv, NamesInv, Tame, TableStep, From, Commit, LoseUncommitted
  <2>3. \A r \in Requests : req'[r].pc \in {"find", "remove"} => req'[r].kind = "delete"
    BY DEF Tame, RequestStep
  <2>4. \A r \in Requests : req'[r].kind = "delete" =>
          \E d \in details' : d.id = req'[r].id /\ d.text = req'[r].named
    BY DEF Tame, RequestStep, ScreenStep
  <2> QED  BY <2>1, <2>2, <2>3, <2>4 DEF NamesInv
<1>5. SnapshotsInv'
  <2>1. \A s, v \in db'.sessions \cup disk'.sessions : s.text = v.text => SameSearch(s, v)
    BY <1>1 DEF RowsInv, SnapshotsInv, SameSearch
  <2>2. \A r \in Requests : req'[r].pc \in {"prune", "create"} => req'[r].snapshot <= Len(db'.posts)
    BY DEF Tame, RequestStep
  <2>3. /\ Longer(db', disk')
        /\ \A s \in db'.sessions : s.snapshot <= Len(db'.posts)
        /\ \A s \in disk'.sessions : s.snapshot <= Len(disk'.posts)
    <3>1. CASE Commit
      BY <3>1 DEF ScreensTyped, StoreTyped, Tables, RowsInv, SnapshotsInv, Commit, Longer
    <3>2. CASE LoseUncommitted
      BY <3>2 DEF ScreensTyped, StoreTyped, Tables, RowsInv, SnapshotsInv, LoseUncommitted, Longer
    <3>3. CASE /\ From(db', db) /\ Longer(db', db)
               /\ From(disk', disk) /\ disk'.posts = disk.posts
      <4>1. Len(db.posts) \in Nat /\ Len(disk.posts) \in Nat
        BY DEF ScreensTyped, StoreTyped, Tables
      <4>2. Len(db.posts) <= Len(db'.posts) /\ Len(disk.posts) <= Len(db.posts)
        BY <3>3 DEF RowsInv, SnapshotsInv, Longer
      <4> DEFINE n == Len(db.posts)
                 m == Len(disk.posts)
                 l == Len(db'.posts)
      <4>3. \A s \in db'.sessions : s.snapshot <= l
        <5> SUFFICES ASSUME NEW s \in db'.sessions PROVE s.snapshot <= l
          OBVIOUS
        <5>1. PICK v \in db.sessions : SameSearch(s, v)
          BY <3>3 DEF From
        <5>2. s.snapshot = v.snapshot /\ v.snapshot <= n /\ v.snapshot \in Nat
          BY <5>1 DEF SameSearch, RowsInv, SnapshotsInv, ScreensTyped, StoreTyped, Tables, Session
        <5>3. l \in Nat
          OBVIOUS
        <5> QED  BY <4>1, <4>2, <5>2, <5>3
      <4>4. \A s \in disk'.sessions : s.snapshot <= Len(disk'.posts)
        <5> SUFFICES ASSUME NEW s \in disk'.sessions PROVE s.snapshot <= m
          BY <3>3
        <5>1. PICK v \in disk.sessions : SameSearch(s, v)
          BY <3>3 DEF From
        <5> QED  BY <5>1 DEF SameSearch, RowsInv, SnapshotsInv
      <4>5. Longer(db', disk')
        <5>1. \A i \in 1..m : i \in 1..n /\ disk.posts[i] = db.posts[i]
          BY <4>1, <4>2 DEF RowsInv, SnapshotsInv, Longer
        <5>2. \A i \in 1..n : db'.posts[i] = db.posts[i]
          BY <3>3 DEF Longer
        <5>3. l \in Nat
          OBVIOUS
        <5>4. m <= l
          BY <4>1, <4>2, <5>3
        <5> HIDE DEF n, m, l
        <5>5. \A i \in 1..m : db'.posts[i] = disk.posts[i]
          BY <5>1, <5>2
        <5> QED  BY <3>3, <5>4, <5>5 DEF Longer, m, l
      <4> QED  BY <4>3, <4>4, <4>5
    <3> QED  BY <3>1, <3>2, <3>3 DEF Tame, TableStep
  <2> QED  BY <2>1, <2>2, <2>3 DEF SnapshotsInv
<1> QED  BY <1>3, <1>4, <1>5 DEF RowsInv

\* A new text names nothing yet.
LEMMA SendRows ==
  ASSUME ScreensTyped, RowsInv, NEW r \in Requests, NEW t \in Texts, SendText(r, t)
  PROVE  RowsInv'
<1>1. /\ req \in [Requests -> Request]
      /\ t \notin sent /\ sent' = sent \cup {t}
      /\ UNCHANGED <<db, disk, details>>
  BY DEF ScreensTyped, RequestsTyped, SendText
<1>2. /\ req'[r].pc = "user" /\ req'[r].kind \in {"search", "keyword"} /\ req'[r].text = t
      /\ \A q \in Requests : q # r => req'[q] = req[q]
  <2>1. ASSUME NEW kind \in {"search", "keyword"}, NEW prompted, NEW u, NEW raw, NEW page,
               Begin(r, kind, prompted, u, t, raw, 0, page)
        PROVE  /\ req'[r].pc = "user" /\ req'[r].kind \in {"search", "keyword"} /\ req'[r].text = t
               /\ \A q \in Requests : q # r => req'[q] = req[q]
    <3> DEFINE new == [NoRequest EXCEPT !.pc = "user", !.kind = kind, !.prompted = prompted,
                                        !.user = u, !.text = t, !.raw = raw, !.id = 0,
                                        !.page = page, !.named = t, !.target = page]
    <3>1. new.pc = "user" /\ new.kind = kind /\ new.text = t
      BY DEF NoRequest
    <3>2. req' = [req EXCEPT ![r] = new]
      BY <2>1 DEF Begin
    <3> HIDE DEF new
    <3> QED  BY <1>1, <3>1, <3>2
  <2>2. PICK u \in {Sender[t]} : TRUE
    OBVIOUS
  <2>3. \/ Begin(r, "search", TRUE, Sender[t], t, Tokens[t], 0, 1)
        \/ Begin(r, "keyword", FALSE, Sender[t], t, Tokens[t], 0, 0)
        \/ Begin(r, "search", FALSE, Sender[t], t, Tail(Tokens[t]), 0, 1)
    BY DEF SendText
  <2> QED  BY <2>1, <2>3
<1>3. NewcomersInv'
  <2>1. ASSUME NEW q \in Requests, Newcomer(req'[q])
        PROVE  /\ req'[q].text \in sent'
               /\ req'[q].kind # "delete"
               /\ \A p \in Requests : p # q /\ Newcomer(req'[p]) => req'[p].text # req'[q].text
               /\ \A k \in db.keywords \cup disk.keywords : k.text # req'[q].text
               /\ \A d \in details : d.text # req'[q].text
               /\ \A s \in db.sessions \cup disk.sessions : s.text # req'[q].text
    BY <1>1, <1>2, <2>1 DEF RowsInv, NewcomersInv
  <2> QED  BY <1>1, <2>1 DEF RowsInv, NewcomersInv
<1>4. NamesInv'
  <2>1. \A q \in Requests : \/ req'[q] = req[q]
                            \/ req'[q].pc = "user" /\ req'[q].kind \in {"search", "keyword"}
    BY <1>2
  <2> QED  BY <1>1, <2>1 DEF RowsInv, NamesInv
<1>5. SnapshotsInv'
  <2>1. \A q \in Requests : req'[q] = req[q] \/ req'[q].pc = "user"
    BY <1>2
  <2> QED  BY <1>1, <2>1 DEF RowsInv, SnapshotsInv, Longer
<1> QED  BY <1>3, <1>4, <1>5 DEF RowsInv

\* A row for a name that had none; its id is free.
LEMMA SaveRows ==
  ASSUME ScreensTyped, RowsInv, NEW r \in Requests, SaveKeyword(r)
  PROVE  RowsInv'
<1> DEFINE new == [id |-> NextId(db.keywords), text |-> req[r].text]
<1>1. /\ req \in [Requests -> Request] /\ db \in Tables /\ Finite(db)
      /\ Newcomer(req[r])
  BY DEF ScreensTyped, StoreTyped, RequestsTyped, SaveKeyword, Newcomer
<1>2. /\ req'[r] = [req[r] EXCEPT !.pc = "commit_save"]
      /\ \A q \in Requests : q # r => req'[q] = req[q]
      /\ UNCHANGED <<sent, details, disk>>
  BY <1>1 DEF SaveKeyword, Goto, dialogueVars
<1>3. /\ db'.keywords = db.keywords \cup {new}
      /\ db'.sessions = db.sessions /\ db'.posts = db.posts
  BY <1>1 DEF SaveKeyword, Tables
<1>4. /\ \A k \in db.keywords \cup disk.keywords : k.text # new.text
      /\ \A d \in details : d.text # new.text
      /\ new.text \in sent
  BY <1>1 DEF RowsInv, NewcomersInv
<1>5. \A k \in db.keywords : k.id # new.id
  <2>1. \A k \in db.keywords : k.id \in Nat
    BY <1>1 DEF Tables, Keyword
  <2>2. NextId(db.keywords) \in Nat /\ \A k \in db.keywords : k.id < NextId(db.keywords)
    BY <1>1, <2>1, NextIdIsNew DEF Finite
  <2> QED  BY <2>1, <2>2
<1>6. /\ req'[r].pc = "commit_save" /\ ~Newcomer(req'[r])
      /\ req'[r].kind = req[r].kind /\ req'[r].id = req[r].id /\ req'[r].named = req[r].named
  BY <1>1, <1>2 DEF Request, Newcomer
<1>7. \A q \in Requests : Newcomer(req'[q]) =>
        q # r /\ req'[q] = req[q] /\ req[q].text # new.text
  BY <1>1, <1>2, <1>6 DEF RowsInv, NewcomersInv
<1> HIDE DEF new
<1>8. NewcomersInv'
  BY <1>2, <1>3, <1>4, <1>7 DEF RowsInv, NewcomersInv
<1>9. NamesInv'
  <2>1. /\ \A k, v \in db'.keywords \cup disk'.keywords : k.text = v.text => k.id = v.id
        /\ \A k \in db'.keywords \cup disk'.keywords, d \in details' : k.text = d.text => k.id = d.id
    BY <1>2, <1>3, <1>4 DEF RowsInv, NamesInv
  <2>2. \A k, v \in db'.keywords : k.id = v.id => k = v
    BY <1>3, <1>5 DEF RowsInv, NamesInv
  <2>3. \A q \in Requests : req'[q].pc \in {"find", "remove"} => req'[q].kind = "delete"
    BY <1>2, <1>6 DEF RowsInv, NamesInv
  <2>4. \A q \in Requests : req'[q].kind = "delete" =>
          \E d \in details : d.id = req'[q].id /\ d.text = req'[q].named
    <3>1. \A q \in Requests : req'[q] = req[q] \/ req'[q].kind # "delete"
      BY <1>1, <1>2, <1>6 DEF RowsInv, NewcomersInv
    <3> QED  BY <3>1 DEF RowsInv, NamesInv
  <2> QED  BY <1>2, <2>1, <2>2, <2>3, <2>4 DEF RowsInv, NamesInv
<1>10. SnapshotsInv'
  <2>1. \A q \in Requests : req'[q] = req[q] \/ req'[q].pc = "commit_save"
    BY <1>2, <1>6
  <2> QED  BY <1>2, <1>3, <2>1 DEF RowsInv, SnapshotsInv, Longer
<1> QED  BY <1>8, <1>9, <1>10 DEF RowsInv

\* A session for a search that had none; its snapshot was read from rows that
\* are still there.
LEMMA CreateRows ==
  ASSUME ScreensTyped, RowsInv, NEW r \in Requests, CreateSession(r), dialogueVars' = dialogueVars
  PROVE  RowsInv'
<1> DEFINE new == [id |-> NextId(db.sessions), text |-> req[r].text, raw |-> req[r].raw,
                   snapshot |-> req[r].snapshot, old |-> FALSE]
<1>1. /\ req \in [Requests -> Request] /\ db \in Tables /\ disk \in Tables
      /\ Newcomer(req[r])
  BY DEF ScreensTyped, StoreTyped, RequestsTyped, CreateSession, Newcomer
<1>2. /\ req'[r] = [req[r] EXCEPT !.pc = "keep", !.id = NextId(db.sessions)]
      /\ \A q \in Requests : q # r => req'[q] = req[q]
      /\ UNCHANGED <<sent, details, disk>>
  BY <1>1 DEF CreateSession, dialogueVars
<1>3. /\ db'.sessions = db.sessions \cup {new}
      /\ db'.keywords = db.keywords /\ db'.posts = db.posts
  BY <1>1 DEF CreateSession, Tables
<1>4. /\ \A s \in db.sessions \cup disk.sessions : s.text # new.text
      /\ new.text \in sent
      /\ new.snapshot <= Len(db.posts)
  BY <1>1 DEF RowsInv, NewcomersInv, SnapshotsInv, CreateSession
<1>5. /\ req'[r].pc = "keep" /\ ~Newcomer(req'[r]) /\ req'[r].kind = req[r].kind
  BY <1>1, <1>2 DEF Request, Newcomer
<1>6. \A q \in Requests : Newcomer(req'[q]) =>
        q # r /\ req'[q] = req[q] /\ req[q].text # new.text
  BY <1>1, <1>2, <1>5 DEF RowsInv, NewcomersInv
<1> HIDE DEF new
<1>7. NewcomersInv'
  BY <1>2, <1>3, <1>4, <1>6 DEF RowsInv, NewcomersInv
<1>8. NamesInv'
  <2>1. req[r].kind # "delete"
    BY <1>1 DEF RowsInv, NewcomersInv
  <2>2. \A q \in Requests : \/ req'[q] = req[q]
                            \/ req'[q].pc = "keep" /\ req'[q].kind # "delete"
    BY <1>2, <1>5, <2>1
  <2> QED  BY <1>2, <1>3, <2>2 DEF RowsInv, NamesInv
<1>9. SnapshotsInv'
  <2>1. \A s, v \in db'.sessions \cup disk'.sessions : s.text = v.text => SameSearch(s, v)
    BY <1>2, <1>3, <1>4 DEF RowsInv, SnapshotsInv, SameSearch
  <2>2. \A q \in Requests : req'[q] = req[q] \/ req'[q].pc = "keep"
    BY <1>2, <1>5
  <2> QED  BY <1>2, <1>3, <1>4, <2>1, <2>2 DEF RowsInv, SnapshotsInv, Longer
<1> QED  BY <1>7, <1>8, <1>9 DEF RowsInv

\* All other steps.
LEMMA StillRequest ==
  ASSUME ScreensTyped, RowsInv, NEW r \in Requests, req'[r] = req[r],
         db' = db \/ Longer(db', db)
  PROVE  RequestStep(r)
<1>1. Newcomer(req'[r]) = Newcomer(req[r])
  BY DEF Newcomer
<1>2. req'[r].pc \in {"prune", "create"} => req'[r].snapshot <= Len(db'.posts)
  <2>1. req[r].snapshot \in Nat /\ Len(db.posts) \in Nat /\ Len(db'.posts) \in Int
    BY DEF ScreensTyped, StoreTyped, RequestsTyped, Tables, Request
  <2>2. Len(db.posts) <= Len(db'.posts)
    BY <2>1 DEF Longer
  <2>3. req[r].pc \in {"prune", "create"} => req[r].snapshot <= Len(db.posts)
    BY DEF RowsInv, SnapshotsInv
  <2> QED  BY <2>1, <2>2, <2>3
<1> QED  BY <1>1, <1>2 DEF RowsInv, NamesInv, RequestStep

\* A request that is over.
LEMMA IdleRequest ==
  ASSUME NEW r \in Requests, req'[r] = NoRequest
  PROVE  RequestStep(r)
BY DEF RequestStep, NoRequest, Newcomer

\* Without a new post the table is as long as it was.
LEMMA SameIsLonger ==
  ASSUME db \in Tables, db'.posts = db.posts
  PROVE  Longer(db', db)
BY DEF Tables, Longer

\* A handler that only moves on brings no name.
LEMMA GotoStep ==
  ASSUME ScreensTyped, RowsInv, NEW r \in Requests, NEW pc, Goto(r, pc), pc # "user",
         db'.posts = db.posts,
         pc \in {"max", "prune", "create", "save"} => Newcomer(req[r]),
         pc \in {"find", "remove"} => req[r].kind = "delete",
         pc \in {"prune", "create"} => req[r].pc = "prune"
  PROVE  \A q \in Requests : RequestStep(q)
<1>1. req \in [Requests -> Request] /\ db \in Tables
  BY DEF ScreensTyped, RequestsTyped, StoreTyped
<1>2. Longer(db', db)
  BY <1>1, SameIsLonger
<1>3. \A q \in Requests : q # r => RequestStep(q)
  BY <1>1, <1>2, StillRequest DEF Goto
<1>4. /\ req'[r].pc = pc /\ req'[r].kind = req[r].kind /\ req'[r].text = req[r].text
      /\ req'[r].id = req[r].id /\ req'[r].named = req[r].named
      /\ req'[r].snapshot = req[r].snapshot
  BY <1>1 DEF Goto, Request
<1>5. Newcomer(req'[r]) => Newcomer(req[r])
  BY <1>4 DEF Newcomer
<1>6. pc \in {"prune", "create"} => req[r].snapshot <= Len(db.posts)
  BY DEF RowsInv, SnapshotsInv
<1>7. req[r].kind = "delete" => \E d \in details : d.id = req[r].id /\ d.text = req[r].named
  BY DEF RowsInv, NamesInv
<1>8. RequestStep(r)
  BY <1>4, <1>5, <1>6, <1>7 DEF RequestStep
<1> QED  BY <1>3, <1>8

\* Nor does one that ends.
LEMMA FinishStep ==
  ASSUME ScreensTyped, RowsInv, NEW r \in Requests, Finish(r), db'.posts = db.posts
  PROVE  \A q \in Requests : RequestStep(q)
<1>1. req \in [Requests -> Request] /\ db \in Tables
  BY DEF ScreensTyped, RequestsTyped, StoreTyped
<1>2. Longer(db', db)
  BY <1>1, SameIsLonger
<1>3. \A q \in Requests : q # r => RequestStep(q)
  BY <1>1, <1>2, StillRequest DEF Finish
<1>4. RequestStep(r)
  BY <1>1, IdleRequest DEF Finish
<1> QED  BY <1>3, <1>4

\* Only the row's own search or keyword gets a new place in a request here.
LEMMA HandleTame ==
  ASSUME ScreensTyped, RowsInv, NEW r \in Requests, Handle(r), ~SaveKeyword(r), ~CreateSession(r)
  PROVE  Tame
<1>1. /\ req \in [Requests -> Request] /\ db \in Tables /\ disk \in Tables
      /\ req[r].kind \in {"search", "page", "keyword", "open", "delete"}
  BY DEF ScreensTyped, RequestsTyped, StoreTyped, Request
<1>2. /\ From(db, db) /\ From(disk, disk) /\ Longer(db, db)
  BY <1>1 DEF From, Longer, SameSearch, Tables
<1>3. sent' = sent
  BY DEF Handle, dialogueVars, Answer, KeywordStep, SaveKeyword, CommitKeyword, ShowDetails,
         FindKeyword, RemoveKeyword, CommitRemoval, ClearState
<1>4. ScreenStep
  <2>1. CASE ShowDetails(r)
    BY <2>1 DEF ShowDetails, ScreenStep, RowOf
  <2>2. CASE ~ShowDetails(r)
    <3>1. details' = details
      BY <2>2 DEF Handle, dialogueVars, Answer, KeywordStep, SaveKeyword, CommitKeyword,
                  FindKeyword, RemoveKeyword, CommitRemoval, ClearState
    <3> QED  BY <3>1 DEF ScreenStep
  <2> QED  BY <2>1, <2>2
<1>5. CASE EnsureUser(r)
  <2>1. TableStep /\ db'.posts = db.posts
    BY <1>5 DEF EnsureUser, Commit, TableStep
  <2>2. Newcomer(req[r]) <=> req[r].kind \in {"search", "keyword"}
    BY <1>5 DEF EnsureUser, Newcomer
  <2>3. \A q \in Requests : RequestStep(q)
    <3>1. CASE Finish(r)
      BY <2>1, <3>1, FinishStep
    <3>2. CASE Goto(r, "max") /\ Newcomer(req[r])
      BY <2>1, <3>2, GotoStep
    <3>3. CASE Goto(r, "lookup") \/ Goto(r, "details")
      BY <2>1, <3>3, GotoStep
    <3>4. CASE Goto(r, "save") /\ Newcomer(req[r])
      BY <2>1, <3>4, GotoStep
    <3>5. CASE Goto(r, "find") /\ req[r].kind = "delete"
      BY <2>1, <3>5, GotoStep
    <3> QED
      BY <1>1, <1>5, <2>2, <3>1, <3>2, <3>3, <3>4, <3>5 DEF EnsureUser
  <2> QED  BY <1>3, <1>4, <2>1, <2>3 DEF Tame
<1>6. CASE ReadMax(r)
  <2>1. TableStep /\ db' = db
    BY <1>2, <1>6 DEF ReadMax, TableStep
  <2>2. /\ req'[r] = [req[r] EXCEPT !.pc = "prune", !.snapshot = Len(db.posts)]
        /\ \A q \in Requests : q # r => req'[q] = req[q]
        /\ req[r].pc = "max"
    BY <1>1, <1>6 DEF ReadMax, MaxRowid
  <2>3. /\ req'[r].pc = "prune" /\ req'[r].snapshot = Len(db.posts)
        /\ req'[r].kind = req[r].kind /\ req'[r].text = req[r].text
    BY <1>1, <2>2 DEF Request
  <2>4. Newcomer(req[r]) /\ req[r].kind # "delete"
    BY <2>2 DEF Newcomer, RowsInv, NewcomersInv
  <2>5. RequestStep(r)
    BY <1>1, <2>1, <2>3, <2>4 DEF RequestStep, Tables
  <2> QED  BY <1>3, <1>4, <2>1, <2>2, <2>5, StillRequest DEF Tame
<1>7. CASE Prune(r)
  <2>1. /\ db'.keywords = db.keywords /\ db'.sessions \subseteq db.sessions
        /\ db'.posts = db.posts /\ disk' = disk
    BY <1>1, <1>7 DEF Prune, Tables
  <2>2. TableStep
    BY <1>1, <1>2, <2>1, SameIsLonger DEF TableStep, From, SameSearch
  <2>3. \A q \in Requests : RequestStep(q)
    BY <1>7, <2>1, GotoStep DEF Prune, Newcomer
  <2> QED  BY <1>3, <1>4, <2>2, <2>3 DEF Tame
<1>8. CASE CommitSession(r) \/ CommitKeyword(r) \/ CommitRemoval(r)
  <2>1. TableStep /\ db'.posts = db.posts
    BY <1>8 DEF CommitSession, CommitKeyword, CommitRemoval, Commit, TableStep
  <2>2. \A q \in Requests : RequestStep(q)
    BY <1>8, <2>1, GotoStep, FinishStep DEF CommitSession, CommitKeyword, CommitRemoval
  <2> QED  BY <1>3, <1>4, <2>1, <2>2 DEF Tame
<1>9. CASE Lookup(r) \/ Count(r)
  <2>1. TableStep /\ db' = db
    BY <1>2, <1>9 DEF Lookup, Count, TableStep
  <2>2. CASE Goto(r, "denied")
    BY <1>3, <1>4, <2>1, <2>2, GotoStep DEF Tame
  <2>3. CASE ~Goto(r, "denied")
    <3>1. /\ \A q \in Requests : q # r => req'[q] = req[q]
          /\ req'[r].pc \in {"count", "rows"} /\ req'[r].kind = req[r].kind
          /\ req'[r].id = req[r].id /\ req'[r].named = req[r].named
      <4>1. CASE Lookup(r)
        <5>1. PICK s \in RowOf(db.sessions, req[r].id, req[r].user) :
                     req' = [req EXCEPT ![r].pc = "count", ![r].text = s.text,
                                        ![r].raw = s.raw, ![r].snapshot = s.snapshot]
          BY <2>3, <4>1 DEF Lookup
        <5> QED  BY <1>1, <5>1 DEF Request
      <4>2. CASE Count(r)
        <5>1. \E total, page : req' = [req EXCEPT ![r].pc = "rows", ![r].total = total,
                                                  ![r].page = page]
          BY <1>1, <4>2 DEF Count, Request
        <5> QED  BY <1>1, <5>1 DEF Request
      <4> QED  BY <1>9, <4>1, <4>2
    <3>2. RequestStep(r)
      BY <3>1 DEF RequestStep, Newcomer, RowsInv, NamesInv
    <3> QED  BY <1>3, <1>4, <2>1, <3>1, <3>2, StillRequest DEF Tame
  <2> QED  BY <2>2, <2>3
<1>10. CASE ShowFails(r) \/ Deny(r) \/ ShowDetails(r) \/ ClearState(r) \/ Answer(r)
  <2>1. TableStep /\ db' = db
    BY <1>2, <1>10 DEF ShowFails, Deny, ShowDetails, ClearState, Answer, ShowRows, TableStep
  <2>2. \A q \in Requests : RequestStep(q)
    BY <1>10, <2>1, GotoStep, FinishStep
       DEF ShowFails, Deny, ShowDetails, ClearState, Answer, ShowRows
  <2> QED  BY <1>3, <1>4, <2>1, <2>2 DEF Tame
<1>11. CASE FindKeyword(r)
  <2>1. TableStep /\ db' = db
    BY <1>2, <1>11 DEF FindKeyword, TableStep
  <2>2. req[r].kind = "delete"
    BY <1>11 DEF FindKeyword, RowsInv, NamesInv
  <2>3. \A q \in Requests : RequestStep(q)
    BY <1>11, <2>1, <2>2, GotoStep, FinishStep DEF FindKeyword
  <2> QED  BY <1>3, <1>4, <2>1, <2>3 DEF Tame
<1>12. CASE RemoveKeyword(r)
  <2>1. /\ db'.keywords \subseteq db.keywords /\ db'.sessions = db.sessions
        /\ db'.posts = db.posts /\ disk' = disk
    BY <1>1, <1>12 DEF RemoveKeyword, Tables
  <2>2. TableStep
    BY <1>1, <1>2, <2>1, SameIsLonger DEF TableStep, From, SameSearch
  <2>3. \A q \in Requests : RequestStep(q)
    BY <1>12, <2>1, GotoStep DEF RemoveKeyword
  <2> QED  BY <1>3, <1>4, <2>2, <2>3 DEF Tame
<1> QED
  BY <1>5, <1>6, <1>7, <1>8, <1>9, <1>10, <1>11, <1>12 DEF Handle, SearchStep, KeywordStep

\* Buttons bring no name.
LEMMA PressTame ==
  ASSUME ScreensTyped, RowsInv, NEW r \in Requests,
         PressPage(r) \/ PressOpen(r) \/ PressDelete(r), UNCHANGED <<sent, details>>
  PROVE  Tame
<1>1. /\ req \in [Requests -> Request] /\ UNCHANGED <<db, disk>>
      /\ db \in Tables /\ disk \in Tables
  BY DEF ScreensTyped, RequestsTyped, StoreTyped, PressPage, PressOpen, PressDelete
<1>2. TableStep
  BY <1>1 DEF TableStep, From, Longer, SameSearch, Tables
<1>3. ASSUME NEW kind \in {"page", "open"}, NEW u, NEW t, NEW raw, NEW id, NEW page,
             Begin(r, kind, FALSE, u, t, raw, id, page)
      PROVE  RequestStep(r) /\ \A q \in Requests : q # r => req'[q] = req[q]
  <2> DEFINE new == [NoRequest EXCEPT !.pc = "user", !.kind = kind, !.prompted = FALSE,
                                      !.user = u, !.text = t, !.raw = raw, !.id = id,
                                      !.page = page, !.named = t, !.target = page]
  <2>1. new.pc = "user" /\ new.kind = kind
    BY DEF NoRequest
  <2>2. req' = [req EXCEPT ![r] = new]
    BY <1>3 DEF Begin
  <2> HIDE DEF new
  <2> QED  BY <1>1, <2>1, <2>2 DEF RequestStep, Newcomer
<1>4. ASSUME NEW d \in details, Begin(r, "delete", FALSE, d.user, d.text, <<>>, d.id, 0)
      PROVE  RequestStep(r) /\ \A q \in Requests : q # r => req'[q] = req[q]
  <2> DEFINE new == [NoRequest EXCEPT !.pc = "user", !.kind = "delete", !.prompted = FALSE,
                                      !.user = d.user, !.text = d.text, !.raw = <<>>,
                                      !.id = d.id, !.page = 0, !.named = d.text, !.target = 0]
  <2>1. new.pc = "user" /\ new.kind = "delete" /\ new.id = d.id /\ new.named = d.text
    BY DEF NoRequest
  <2>2. req' = [req EXCEPT ![r] = new]
    BY <1>4 DEF Begin
  <2> HIDE DEF new
  <2> QED  BY <1>1, <2>1, <2>2 DEF RequestStep, Newcomer
<1>5. RequestStep(r) /\ \A q \in Requests : q # r => req'[q] = req[q]
  BY <1>3, <1>4 DEF PressPage, PressOpen, PressDelete
<1> QED  BY <1>1, <1>2, <1>5, StillRequest DEF Tame, ScreenStep

\* Ingestion and startup add posts and sources; an end leaves the handlers
\* that have only to clear their state.
LEMMA RuntimeTame ==
  ASSUME ScreensTyped, RowsInv,
         \/ \E p \in Posts : InsertPost(p) \/ CommitPost(p)
         \/ WeekPasses /\ UNCHANGED dialogueVars
         \/ Startup \/ Die \/ Restart
         \/ \E u \in Chatters : Press(u)
         \/ UNCHANGED vars
  PROVE  Tame
<1>1. /\ req \in [Requests -> Request] /\ db \in Tables /\ disk \in Tables
  BY DEF ScreensTyped, RequestsTyped, StoreTyped
<1>2. UNCHANGED <<sent, details>>
  BY DEF InsertPost, CommitPost, WeekPasses, Startup, ResolveTitles, DeleteStale, Upsert,
         CommitSources, Die, Restart, Press, PressBack, ShowPrompt, vars, dialogueVars
<1>3. TableStep
  <2>1. CASE UNCHANGED <<db, disk>>
    BY <1>1, <2>1 DEF TableStep, From, Longer, SameSearch, Tables
  <2>2. CASE Commit \/ LoseUncommitted
    BY <2>2 DEF TableStep
  <2>3. ASSUME NEW p \in Posts, InsertPost(p) PROVE TableStep
    <3>1. db' = [db EXCEPT !.posts = Append(@, p)] /\ disk' = disk
      BY <2>3 DEF InsertPost
    <3>2. db.posts \in Seq(Posts)
      BY <1>1 DEF Tables
    <3>3. /\ db'.posts = Append(db.posts, p)
          /\ db'.keywords = db.keywords /\ db'.sessions = db.sessions
      BY <1>1, <3>1 DEF Tables
    <3>4. Longer(db', db)
      BY <3>2, <3>3 DEF Longer
    <3> QED  BY <3>1, <3>3, <3>4 DEF TableStep, From, SameSearch
  <2>4. CASE DeleteStale \/ Upsert
    <3>1. /\ db'.posts = db.posts /\ db'.keywords = db.keywords /\ db'.sessions = db.sessions
          /\ disk' = disk
      <4>1. CASE DeleteStale
        <5>1. \/ db' = db
              \/ \E c \in db.sources :
                   db' = [db EXCEPT !.sources = @ \ {c}, !.titled = @ \ {c}]
          BY <4>1 DEF DeleteStale
        <5> QED  BY <1>1, <4>1, <5>1 DEF DeleteStale, Tables
      <4>2. CASE Upsert
        <5>1. PICK c \in todo :
                db' = [db EXCEPT !.sources = @ \cup {c}, !.titled = @ \cup ({c} \cap named)]
          BY <4>2 DEF Upsert
        <5> QED  BY <1>1, <4>2, <5>1 DEF Upsert, Tables
      <4> QED  BY <2>4, <4>1, <4>2
    <3> QED  BY <1>1, <3>1, SameIsLonger DEF TableStep, From, SameSearch
  <2>5. CASE WeekPasses
    <3>1. db' = Age(db) /\ disk' = Age(disk)
      BY <2>5 DEF WeekPasses
    <3>2. ASSUME NEW d \in Tables
          PROVE  From(Age(d), d) /\ Age(d).posts = d.posts
      <4>1. /\ Age(d).posts = d.posts /\ Age(d).keywords = d.keywords
            /\ Age(d).sessions = {[s EXCEPT !.old = TRUE] : s \in d.sessions}
        BY DEF Age, Tables
      <4>2. \A s \in d.sessions : LET v == [s EXCEPT !.old = TRUE] IN SameSearch(v, s)
        BY DEF Tables, Session, SameSearch
      <4> QED  BY <4>1, <4>2 DEF From
    <3>3. Longer(db', db)
      BY <1>1, <3>1, <3>2, SameIsLonger
    <3> QED  BY <1>1, <3>1, <3>2, <3>3 DEF TableStep
  <2>6. \/ UNCHANGED <<db, disk>> \/ Commit \/ LoseUncommitted
        \/ \E p \in Posts : InsertPost(p)
        \/ DeleteStale \/ Upsert \/ WeekPasses
    BY DEF CommitPost, Startup, ResolveTitles, CommitSources, Die, Restart, Press, PressBack,
           ShowPrompt, vars
  <2> QED  BY <2>1, <2>2, <2>3, <2>4, <2>5, <2>6
<1>4. \A r \in Requests : RequestStep(r)
  <2>1. CASE Die
    BY <2>1, IdleRequest DEF Die
  <2>2. CASE Restart
    <3>1. ASSUME NEW r \in Requests, req[r].pc = "clear", req'[r] = req[r]
          PROVE  RequestStep(r)
      BY <3>1 DEF RequestStep, Newcomer, RowsInv, NamesInv
    <3> QED  BY <2>2, <3>1, IdleRequest DEF Restart
  <2>3. CASE req' = req /\ (db' = db \/ Longer(db', db))
    BY <2>3, StillRequest
  <2>4. req' = req \/ Die \/ Restart
    BY DEF InsertPost, CommitPost, WeekPasses, Startup, ResolveTitles, DeleteStale, Upsert,
           CommitSources, Press, PressBack, ShowPrompt, vars, searchVars
  <2>5. ~Die /\ ~Restart => db' = db \/ Longer(db', db)
    <3>1. CASE \E p \in Posts : InsertPost(p)
      <4>1. PICK p \in Posts : InsertPost(p)
        BY <3>1
      <4>2. db.posts \in Seq(Posts) /\ db'.posts = Append(db.posts, p)
        BY <1>1, <4>1 DEF InsertPost, Tables
      <4> QED  BY <4>2 DEF Longer
    <3>2. CASE DeleteStale \/ Upsert \/ WeekPasses
      <4>1. CASE DeleteStale
        <5>1. \/ db' = db
              \/ \E c \in db.sources :
                   db' = [db EXCEPT !.sources = @ \ {c}, !.titled = @ \ {c}]
          BY <4>1 DEF DeleteStale
        <5>2. db'.posts = db.posts
          BY <1>1, <5>1 DEF Tables
        <5> QED  BY <1>1, <5>2, SameIsLonger
      <4>2. CASE Upsert
        <5>1. PICK c \in todo :
                db' = [db EXCEPT !.sources = @ \cup {c}, !.titled = @ \cup ({c} \cap named)]
          BY <4>2 DEF Upsert
        <5>2. db'.posts = db.posts
          BY <1>1, <5>1 DEF Tables
        <5> QED  BY <1>1, <5>2, SameIsLonger
      <4>3. CASE WeekPasses
        <5>1. db'.posts = db.posts
          BY <1>1, <4>3 DEF WeekPasses, Age, Tables
        <5> QED  BY <1>1, <5>1, SameIsLonger
      <4> QED  BY <3>2, <4>1, <4>2, <4>3
    <3> QED
      BY <3>1, <3>2 DEF CommitPost, Commit, Startup, ResolveTitles, CommitSources, Press,
                        PressBack, ShowPrompt, vars
  <2> QED  BY <2>1, <2>2, <2>3, <2>4, <2>5
<1> QED  BY <1>2, <1>3, <1>4 DEF Tame, ScreenStep

\* Names and snapshots at the start.
LEMMA InitRows == Init => RowsInv
<1> SUFFICES ASSUME Init PROVE RowsInv
  OBVIOUS
<1> DEFINE row(i) == [id |-> i, text |-> Saved[i]]
<1>1. PICK kept \in SUBSET DOMAIN Saved :
        db = [posts |-> Stored, sessions |-> {}, keywords |-> {row(i) : i \in kept},
              sources |-> allow, titled |-> allow]
  BY DEF Init
<1>2. /\ db.sessions = {} /\ db.keywords = {row(i) : i \in kept} /\ db.posts = Stored
      /\ disk = db
  BY <1>1 DEF Init
<1>3. \A k \in db.keywords : \E i \in DOMAIN Saved : k = row(i)
  BY <1>2
<1>4. \A d \in details : \E i \in DOMAIN Saved : d.id = i /\ d.text = Saved[i]
  BY DEF Init
<1>5. \A i, j \in DOMAIN Saved : Saved[i] = Saved[j] => i = j
  BY BotStoreAssumption
<1>6. \A r \in Requests : /\ ~Newcomer(req[r]) /\ req[r].kind # "delete"
                          /\ req[r].pc = "idle"
  BY DEF Init, NoRequest, Newcomer
<1>7. \A i \in DOMAIN Saved : Saved[i] \in sent
  <2>1. DOMAIN Saved = 1..Len(Saved)
    BY BotStoreAssumption
  <2> QED  BY <2>1 DEF Init, ToSet
<1>8. NewcomersInv
  BY <1>2, <1>3, <1>4, <1>6, <1>7 DEF NewcomersInv
<1>9. NamesInv
  BY <1>2, <1>3, <1>4, <1>5, <1>6 DEF NamesInv
<1>10. SnapshotsInv
  <2>1. Len(Stored) \in Nat
    BY BotStoreAssumption
  <2> QED  BY <1>2, <1>6, <2>1 DEF SnapshotsInv, Longer
<1> QED  BY <1>8, <1>9, <1>10 DEF RowsInv

\* The steps by what they do to names.
LEMMA NextKinds ==
  ASSUME [Next]_vars
  PROVE  \/ \E r \in Requests : Handle(r)
         \/ \E r \in Requests, t \in Texts : SendText(r, t)
         \/ /\ \E r \in Requests : PressPage(r) \/ PressOpen(r) \/ PressDelete(r)
            /\ UNCHANGED <<sent, details>>
         \/ \E p \in Posts : InsertPost(p) \/ CommitPost(p)
         \/ WeekPasses /\ UNCHANGED dialogueVars
         \/ Startup \/ Die \/ Restart
         \/ \E u \in Chatters : Press(u)
         \/ UNCHANGED vars
BY DEF Next, Update, PressOpen, PressDelete, dialogueVars

\* Each step keeps names and snapshots true.
LEMMA NextRows == ScreensTyped /\ RowsInv /\ [Next]_vars => RowsInv'
<1> SUFFICES ASSUME ScreensTyped, RowsInv, [Next]_vars PROVE RowsInv'
  OBVIOUS
<1>1. ASSUME NEW r \in Requests, Handle(r) PROVE RowsInv'
  <2>1. CASE SaveKeyword(r)
    BY <2>1, SaveRows
  <2>2. CASE CreateSession(r)
    <3>1. dialogueVars' = dialogueVars
      BY <1>1, <2>2 DEF Handle, CreateSession, Answer, ShowRows, KeywordStep, SaveKeyword,
                        CommitKeyword, ShowDetails, FindKeyword, RemoveKeyword,
                        CommitRemoval, ClearState
    <3> QED  BY <2>2, <3>1, CreateRows
  <2>3. CASE ~SaveKeyword(r) /\ ~CreateSession(r)
    BY <1>1, <2>3, HandleTame, TameRows
  <2> QED  BY <2>1, <2>2, <2>3
<1>2. ASSUME NEW r \in Requests, NEW t \in Texts, SendText(r, t) PROVE RowsInv'
  BY <1>2, SendRows
<1> QED  BY <1>1, <1>2, NextKinds, PressTame, RuntimeTame, TameRows

\* Names and snapshots are true in every reachable state.
LEMMA RowsAlways == Spec => [](ScreensTyped /\ RowsInv)
<1>1. ScreensTyped /\ RowsInv /\ [Next]_vars => ScreensTyped' /\ RowsInv'
  BY NextTyped, NextRows
<1>2. Init => ScreensTyped /\ RowsInv
  BY InitTyped, InitRows
<1> QED  BY <1>1, <1>2, PTL DEF Spec

\* A step of one handler is not one of another.
LEMMA OthersStay ==
  ASSUME ScreensTyped, NEW r \in Requests, Handle(r) \/ Update(r),
         NEW q \in Requests, q # r
  PROVE  req'[q] = req[q]
<1>1. req \in [Requests -> Request]
  BY DEF ScreensTyped, RequestsTyped
<1>2. CASE Finish(r) \/ \E pc : Goto(r, pc)
  BY <1>1, <1>2 DEF Finish, Goto
<1>3. CASE ReadMax(r) \/ CreateSession(r) \/ Count(r)
  BY <1>1, <1>3, SMTT(30) DEF ReadMax, CreateSession, Count
<1>4. CASE Lookup(r)
  <2>1. CASE \E s \in RowOf(db.sessions, req[r].id, req[r].user) :
               req' = [req EXCEPT ![r].pc = "count", ![r].text = s.text,
                                  ![r].raw = s.raw, ![r].snapshot = s.snapshot]
    BY <1>1, <2>1
  <2> QED  BY <1>2, <1>4, <2>1 DEF Lookup
<1>5. CASE EnsureUser(r)
  <2>1. req[r].kind \in {"search", "page", "keyword", "open", "delete"}
    BY <1>1 DEF Request
  <2> QED  BY <1>2, <1>5, <2>1 DEF EnsureUser
<1>6. CASE Update(r)
  BY <1>1, <1>6 DEF Update, PressPage, SendText, PressOpen, PressDelete, Begin
<1> QED
  BY <1>2, <1>3, <1>4, <1>5, <1>6
     DEF Handle, SearchStep, Prune, CommitSession, ShowFails, Deny, Answer, ShowRows,
         KeywordStep, SaveKeyword, CommitKeyword, ShowDetails, FindKeyword,
         RemoveKeyword, CommitRemoval, ClearState

DeleteStep ==
  \A r \in Requests : (req[r].pc = "remove" /\ req'[r].pc = "commit_remove") =>
    \A k \in db.keywords \ db'.keywords :
      /\ Sender[k.text] = req[r].user
      /\ \/ k.text = req[r].named
         \/ \A v \in db.keywords : v.text # req[r].named

\* No step removes a keyword under another's name.
LEMMA DeletesItsName == ScreensTyped /\ RowsInv /\ [Next]_vars => DeleteStep
<1> SUFFICES ASSUME ScreensTyped, RowsInv, [Next]_vars,
                    NEW r \in Requests, req[r].pc = "remove", req'[r].pc = "commit_remove",
                    NEW k \in db.keywords, k \notin db'.keywords
             PROVE  /\ Sender[k.text] = req[r].user
                    /\ \/ k.text = req[r].named
                       \/ \A v \in db.keywords : v.text # req[r].named
  BY DEF DeleteStep
<1>1. req \in [Requests -> Request] /\ db \in Tables
  BY DEF ScreensTyped, RequestsTyped, StoreTyped
<1>2. RemoveKeyword(r)
  <2>1. ASSUME NEW q \in Requests, Handle(q), q # r PROVE req'[r] = req[r]
    BY <2>1, OthersStay
  <2>2. CASE Handle(r)
    BY <2>2
       DEF Handle, EnsureUser, SearchStep, ReadMax, Prune, CreateSession, CommitSession,
           Lookup, Count, ShowFails, Deny, Answer, ShowRows, KeywordStep, SaveKeyword,
           CommitKeyword, ShowDetails, FindKeyword, CommitRemoval, ClearState
  <2>3. ASSUME NEW q \in Requests, Update(q) PROVE FALSE
    <3>1. req[q].pc = "idle"
      BY <2>3 DEF Update, PressPage, SendText, PressOpen, PressDelete, Free
    <3>2. req'[r] = req[r]
      BY <1>1, <2>3, <3>1 DEF Update, PressPage, SendText, PressOpen, PressDelete, Begin
    <3> QED  BY <3>2
  <2>4. CASE Die \/ Restart
    BY <2>4 DEF Die, Restart, NoRequest
  <2>5. \/ \E q \in Requests : Handle(q) \/ Update(q)
        \/ Die \/ Restart \/ req' = req
    BY DEF Next, Startup, ResolveTitles, DeleteStale, Upsert, CommitSources, InsertPost,
           CommitPost, WeekPasses, Press, PressBack, ShowPrompt, vars, searchVars
  <2> QED  BY <2>1, <2>2, <2>3, <2>4, <2>5
<1>3. k.id = req[r].id /\ Sender[k.text] = req[r].user
  BY <1>1, <1>2 DEF RemoveKeyword, RowOf, Tables
<1>4. PICK d \in details : d.id = req[r].id /\ d.text = req[r].named
  BY DEF RowsInv, NamesInv
<1>5. ASSUME NEW v \in db.keywords, v.text = req[r].named PROVE k.text = req[r].named
  BY <1>3, <1>4, <1>5 DEF RowsInv, NamesInv
<1> QED  BY <1>3, <1>5

\* However many screens, removals and reused ids lie between them, the delete
\* button removes the keyword it was shown under as long as there is one.
THEOREM DeleteNamesItsRow == Spec => DeleteHitsItsName
<1>1. ScreensTyped /\ RowsInv /\ [Next]_vars => DeleteStep
  BY DeletesItsName
<1>2. DeleteStep =>
        \A r \in Requests : (req[r].pc = "remove" /\ req'[r].pc = "commit_remove") =>
          \A k \in db.keywords \ db'.keywords :
            /\ Sender[k.text] = req[r].user
            /\ \/ k.text = req[r].named
               \/ \A v \in db.keywords : v.text # req[r].named
  BY DEF DeleteStep
<1> QED  BY <1>1, <1>2, RowsAlways, PTL DEF Spec, DeleteHitsItsName

FrozenStep ==
  \A s \in disk.sessions, v \in disk'.sessions :
    s.text = v.text =>
      {disk'.posts[i] : i \in Found(disk', v.raw, v.snapshot)}
        = {disk.posts[i] : i \in Found(disk, s.raw, s.snapshot)}

Finds(d, raw, snapshot) == {d.posts[i] : i \in Found(d, raw, snapshot)}

\* The posts inside a snapshot stay where they are.
LEMMA FoundStays ==
  ASSUME NEW d \in Tables, NEW e \in Tables, Longer(d, e), NEW raw, NEW snapshot \in Nat,
         snapshot <= Len(e.posts)
  PROVE  Found(d, raw, snapshot) = Found(e, raw, snapshot)
<1>1. /\ DOMAIN d.posts = 1..Len(d.posts) /\ DOMAIN e.posts = 1..Len(e.posts)
      /\ Len(d.posts) \in Nat /\ Len(e.posts) \in Nat
  BY DEF Tables
<1>2. Len(e.posts) <= Len(d.posts) /\ \A i \in 1..Len(e.posts) : d.posts[i] = e.posts[i]
  BY DEF Longer
<1>3. \A i \in 1..Len(e.posts) : i \in DOMAIN d.posts /\ i \in DOMAIN e.posts
  BY <1>1, <1>2
<1>4. \A i \in DOMAIN d.posts : i <= snapshot => i \in 1..Len(e.posts)
  BY <1>1
<1>5. \A i \in DOMAIN e.posts : i \in 1..Len(e.posts)
  BY <1>1
<1> QED  BY <1>2, <1>3, <1>4, <1>5 DEF Found

\* The posts of a snapshot are the same in a longer table.
LEMMA LongerFindsTheSame ==
  ASSUME NEW d \in Tables, NEW e \in Tables, Longer(d, e), NEW raw, NEW snapshot \in Nat,
         snapshot <= Len(e.posts)
  PROVE  Finds(d, raw, snapshot) = Finds(e, raw, snapshot)
<1>1. Found(d, raw, snapshot) = Found(e, raw, snapshot)
  BY FoundStays
<1>2. DOMAIN e.posts = 1..Len(e.posts)
  BY DEF Tables
<1>3. \A i \in Found(e, raw, snapshot) : d.posts[i] = e.posts[i]
  BY <1>2 DEF Found, Longer
<1> QED  BY <1>1, <1>3 DEF Finds

\* No step changes what a durable search finds.
LEMMA StepsFreeze == ScreensTyped /\ RowsInv /\ [Next]_vars => FrozenStep
<1> SUFFICES ASSUME ScreensTyped, RowsInv, [Next]_vars,
                    NEW s \in disk.sessions, NEW v \in disk'.sessions, s.text = v.text
             PROVE  Finds(disk', v.raw, v.snapshot) = Finds(disk, s.raw, s.snapshot)
  BY DEF FrozenStep, Finds
<1>1. /\ db \in Tables /\ disk \in Tables
      /\ s.snapshot \in Nat /\ s.snapshot <= Len(disk.posts)
  BY DEF ScreensTyped, StoreTyped, RowsInv, SnapshotsInv, Tables, Session
<1>2. CASE Commit
  <2>1. SameSearch(s, v)
    BY <1>2 DEF Commit, RowsInv, SnapshotsInv
  <2>2. Longer(db, disk)
    BY DEF RowsInv, SnapshotsInv
  <2>3. Finds(db, s.raw, s.snapshot) = Finds(disk, s.raw, s.snapshot)
    BY <1>1, <2>2, LongerFindsTheSame
  <2>4. disk' = db /\ v.raw = s.raw /\ v.snapshot = s.snapshot
    BY <1>2, <2>1 DEF Commit, SameSearch
  <2> QED  BY <2>3, <2>4
<1>3. CASE disk'.posts = disk.posts /\ From(disk', disk)
  <2>1. PICK o \in disk.sessions : SameSearch(v, o)
    BY <1>3 DEF From
  <2>2. SameSearch(s, v)
    BY <2>1 DEF RowsInv, SnapshotsInv, SameSearch
  <2> QED  BY <1>3, <2>2 DEF SameSearch, Found, Finds
<1>4. From(disk, disk)
  BY DEF From, SameSearch
<1>5. ASSUME NEW r \in Requests, Handle(r) PROVE disk' = disk \/ Tame
  <2>1. CASE SaveKeyword(r) \/ CreateSession(r)
    BY <2>1 DEF SaveKeyword, CreateSession
  <2> QED  BY <1>5, <2>1, HandleTame
<1>6. ASSUME NEW r \in Requests, NEW t \in Texts, SendText(r, t) PROVE disk' = disk
  BY <1>6 DEF SendText
<1>7. disk' = disk \/ Tame
  BY <1>5, <1>6, NextKinds, PressTame, RuntimeTame
<1> QED  BY <1>2, <1>3, <1>4, <1>7 DEF Tame, TableStep, LoseUncommitted

\* What a committed search finds is fixed: no post stored later, by whatever
\* process, comes before the end of its snapshot.
THEOREM SearchesFrozen == Spec => SnapshotsStayFrozen
<1>1. ScreensTyped /\ RowsInv /\ [Next]_vars => FrozenStep
  BY StepsFreeze
<1>2. FrozenStep =>
        \A s \in disk.sessions, v \in disk'.sessions :
          s.text = v.text =>
            {disk'.posts[i] : i \in Found(disk', v.raw, v.snapshot)}
              = {disk.posts[i] : i \in Found(disk, s.raw, s.snapshot)}
  BY DEF FrozenStep
<1> QED  BY <1>1, <1>2, RowsAlways, PTL DEF Spec, SnapshotsStayFrozen

-----------------------------------------------------------------------------
(* Pages *)

\* An id has one session and a session one id, and those that are old were
\* counted.
SessionsInv ==
  /\ \A s, v \in db.sessions : s.id = v.id => s = v
  /\ \A s, v \in disk.sessions : s.id = v.id => s = v
  /\ \A s, v \in db.sessions \cup disk.sessions : s.text = v.text => s.id = v.id
  /\ \A s \in db.sessions \cup disk.sessions : s.old => s.text \in expired

LastPage(raw, snapshot) == Max({1, Pages(Cardinality(Found(db, raw, snapshot)))})

\* The search t is committed under the id, and still live, and has a page n.
Reaches(id, t, n) ==
  \E s \in db.sessions, v \in disk.sessions :
    /\ s.id = id /\ s.text = t
    /\ v.id = id /\ v.text = t
    /\ n <= LastPage(s.raw, s.snapshot)

\* The buttons on the screens are the owner's and lead where they say.
ButtonsInv ==
  \A s \in shown :
    /\ Sender[s.text] = s.user
    /\ \/ Lapsed(s.text)
       \/ \A n \in Buttons(s) : Reaches(s.id, s.text, n)

\* Handlers that are to look up, or have looked up, the session of a search.
Aiming(q) == q.pc \in {"lookup", "count", "rows"} \/ (q.pc = "user" /\ q.kind = "page")

Aims(q) ==
  /\ Aiming(q) => \/ Lapsed(q.named)
                  \/ Sender[q.named] = q.user /\ Reaches(q.id, q.named, q.target)
  /\ Aiming(q) /\ q.pc \in {"user", "lookup"} => q.page = q.target
  /\ q.pc = "denied" => Lapsed(q.named)

\* Handlers of a search that have not committed its session yet.
Opening(q) == \/ q.pc = "user" /\ q.kind = "search"
              \/ q.pc \in {"max", "prune", "create", "keep"}

Opens(q) ==
  /\ Opening(q) => q.text = q.named /\ Sender[q.text] = q.user /\ q.page = 1 /\ q.target = 1
  /\ q.pc = "keep" => \/ q.text \in expired
                      \/ \E s \in db.sessions : s.id = q.id /\ s.text = q.text

\* The session that a page is cut for, and its length.
CutFor(q, s) == s.id = q.id /\ s.text = q.text /\ s.raw = q.raw /\ s.snapshot = q.snapshot

Counts(q) == /\ q.total = Cardinality(Found(db, q.raw, q.snapshot))
             /\ q.page <= LastPage(q.raw, q.snapshot)

Cuts(q) ==
  q.pc \in {"count", "rows"} =>
    /\ Sender[q.text] = q.user
    /\ Lapsed(q.named) \/ (q.text = q.named /\ q.page = q.target)
    /\ \/ q.text \in expired
       \/ /\ \E s \in db.sessions : CutFor(q, s)
          /\ q.pc = "rows" => Counts(q)

OnCourse(q) == Aims(q) /\ Opens(q) /\ Cuts(q)

PagesInv == SessionsInv /\ ButtonsInv /\ \A r \in Requests : OnCourse(req[r])

\* What the steps do to the sessions and to the posts they search.
Grows ==
  /\ disk' = disk
  /\ Longer(db', db)
  /\ \A s \in db.sessions : s.old \/ s \in db'.sessions
  /\ \/ db'.sessions \subseteq db.sessions
     \/ \E new \in Session :
          /\ db'.sessions = db.sessions \cup {new}
          /\ ~new.old
          /\ \A s \in db.sessions : s.id # new.id
          /\ \A s \in db.sessions \cup disk.sessions : s.text # new.text

Ages ==
  /\ db' = Age(db) /\ disk' = Age(disk)
  /\ \A s \in db.sessions \cup disk.sessions : s.text \in expired'
  /\ req' = req
  /\ \A r \in Requests : Free(r)

Loses == LoseUncommitted /\ \A r \in Requests : req'[r].pc \in {"idle", "clear"}

Keeps == Grows \/ Commit \/ Ages

StoreStep == Keeps \/ Loses

Remembers == expired \subseteq expired' /\ shown \subseteq shown'

\* History is not forgotten.
LEMMA StepRemembers ==
  ASSUME [Next]_vars
  PROVE  Remembers
BY ZenonT(60)
   DEF Remembers, Next, vars, searchVars, Update, Handle, Press, PressPage, SendText, PressOpen,
       PressDelete, EnsureUser, SearchStep, ReadMax, Prune, CreateSession, CommitSession,
       Lookup, Count, ShowFails, Deny, Answer, ShowRows, KeywordStep, SaveKeyword,
       CommitKeyword, ShowDetails, FindKeyword, RemoveKeyword, CommitRemoval, ClearState,
       PressBack, ShowPrompt, InsertPost, CommitPost, WeekPasses, Startup, ResolveTitles,
       DeleteStale, Upsert, CommitSources, Die, Restart

\* Steps that leave the sessions alone.
LEMMA SameSessions ==
  ASSUME db \in Tables, disk' = disk,
         db' = db \/ (db'.sessions = db.sessions /\ Longer(db', db))
  PROVE  Grows
<1>1. Longer(db', db)
  BY SameIsLonger
<1> QED  BY <1>1 DEF Grows

\* What handlers do to the tables.
LEMMA HandleStores ==
  ASSUME ScreensTyped, RowsInv, NEW r \in Requests, Handle(r)
  PROVE  Grows \/ Commit
<1>0. /\ req \in [Requests -> Request] /\ db \in Tables /\ disk \in Tables /\ Finite(db)
  BY DEF ScreensTyped, RequestsTyped, StoreTyped
<1>1. CASE EnsureUser(r) \/ CommitSession(r) \/ CommitKeyword(r) \/ CommitRemoval(r)
  BY <1>1 DEF EnsureUser, CommitSession, CommitKeyword, CommitRemoval
<1>2. CASE ReadMax(r) \/ Lookup(r) \/ Count(r) \/ ShowFails(r) \/ Deny(r) \/ Answer(r)
           \/ ShowDetails(r) \/ FindKeyword(r) \/ ClearState(r)
  <2>1. UNCHANGED <<db, disk>>
    BY <1>2 DEF ReadMax, Lookup, Count, ShowFails, Deny, Answer, ShowRows, ShowDetails,
                FindKeyword, ClearState
  <2> QED  BY <1>0, <2>1, SameSessions
<1>3. CASE SaveKeyword(r) \/ RemoveKeyword(r)
  <2>1. db'.sessions = db.sessions /\ db'.posts = db.posts /\ disk' = disk
    BY <1>0, <1>3 DEF SaveKeyword, RemoveKeyword, Tables
  <2> QED  BY <1>0, <2>1, SameIsLonger, SameSessions
<1>4. CASE Prune(r)
  <2>1. /\ db'.sessions = {s \in db.sessions : ~s.old} /\ db'.posts = db.posts
        /\ disk' = disk
    BY <1>0, <1>4 DEF Prune, Tables
  <2>2. Longer(db', db)
    BY <1>0, <2>1, SameIsLonger
  <2> QED  BY <2>1, <2>2 DEF Grows
<1>5. CASE CreateSession(r)
  <2> DEFINE new == [id |-> NextId(db.sessions), text |-> req[r].text, raw |-> req[r].raw,
                     snapshot |-> req[r].snapshot, old |-> FALSE]
  <2>1. db'.sessions = db.sessions \cup {new} /\ db'.posts = db.posts /\ disk' = disk
    BY <1>0, <1>5 DEF CreateSession, Tables
  <2>2. \A s \in db.sessions : s.id \in Nat
    BY <1>0 DEF Tables, Session
  <2>3. NextId(db.sessions) \in Nat /\ \A s \in db.sessions : s.id < NextId(db.sessions)
    BY <1>0, <2>2, NextIdIsNew DEF Finite
  <2>4. new \in Session /\ ~new.old /\ \A s \in db.sessions : s.id # new.id
    BY <1>0, <2>2, <2>3 DEF Session, Request
  <2>5. \A s \in db.sessions \cup disk.sessions : s.text # new.text
    BY <1>5 DEF RowsInv, NewcomersInv, Newcomer, CreateSession
  <2>6. Longer(db', db)
    BY <1>0, <2>1, SameIsLonger
  <2> HIDE DEF new
  <2> QED  BY <2>1, <2>4, <2>5, <2>6 DEF Grows
<1> QED  BY <1>1, <1>2, <1>3, <1>4, <1>5 DEF Handle, SearchStep, KeywordStep

\* What any step does to the tables.
LEMMA StepStores ==
  ASSUME ScreensTyped, RowsInv, [Next]_vars
  PROVE  StoreStep
<1>0. /\ db \in Tables /\ disk \in Tables
  BY DEF ScreensTyped, StoreTyped
<1>1. CASE \E r \in Requests : Handle(r)
  BY <1>1, HandleStores DEF StoreStep, Keeps
<1>2. CASE UNCHANGED <<db, disk>>
  BY <1>0, <1>2, SameSessions DEF StoreStep, Keeps
<1>3. CASE \E p \in Posts : CommitPost(p)
  BY <1>3 DEF StoreStep, Keeps, CommitPost
<1>4. ASSUME NEW p \in Posts, InsertPost(p) PROVE StoreStep
  <2>1. db' = [db EXCEPT !.posts = Append(@, p)] /\ disk' = disk /\ db.posts \in Seq(Posts)
    BY <1>0, <1>4 DEF InsertPost, Tables
  <2>2. db'.posts = Append(db.posts, p) /\ db'.sessions = db.sessions
    BY <1>0, <2>1 DEF Tables
  <2>3. Longer(db', db)
    BY <2>1, <2>2 DEF Longer
  <2> QED  BY <1>0, <2>1, <2>2, <2>3, SameSessions DEF StoreStep, Keeps
<1>5. CASE WeekPasses
  BY <1>5 DEF WeekPasses, Ages, StoreStep, Keeps
<1>6. CASE DeleteStale \/ Upsert
  <2>1. disk' = disk /\ db'.sessions = db.sessions /\ db'.posts = db.posts
    <3>1. CASE DeleteStale
      <4>1. \/ db' = db
            \/ \E c \in db.sources :
                 db' = [db EXCEPT !.sources = @ \ {c}, !.titled = @ \ {c}]
        BY <3>1 DEF DeleteStale
      <4> QED  BY <1>0, <3>1, <4>1 DEF DeleteStale, Tables
    <3>2. CASE Upsert
      <4>1. PICK c \in todo :
              db' = [db EXCEPT !.sources = @ \cup {c}, !.titled = @ \cup ({c} \cap named)]
        BY <3>2 DEF Upsert
      <4> QED  BY <1>0, <3>2, <4>1, SMTT(30) DEF Upsert, Tables
    <3> QED  BY <1>6, <3>1, <3>2
  <2> QED  BY <1>0, <2>1, SameIsLonger, SameSessions DEF StoreStep, Keeps
<1>7. CASE CommitSources
  BY <1>7 DEF CommitSources, StoreStep, Keeps
<1>8. CASE Die
  BY <1>8 DEF Die, StoreStep, Loses, NoRequest
<1>9. CASE Restart
  BY <1>9 DEF Restart, StoreStep, Loses, NoRequest
<1>10. \/ \E r \in Requests : Handle(r)
       \/ UNCHANGED <<db, disk>>
       \/ \E p \in Posts : InsertPost(p) \/ CommitPost(p)
       \/ WeekPasses \/ DeleteStale \/ Upsert \/ CommitSources \/ Die \/ Restart
  BY DEF Next, vars, Update, PressPage, SendText, PressOpen, PressDelete, Press, PressBack,
         ShowPrompt, Startup, ResolveTitles
<1> QED  BY <1>1, <1>2, <1>3, <1>4, <1>5, <1>6, <1>7, <1>8, <1>9, <1>10


\* Old sessions are the same but for their age.
LEMMA AgedSessions ==
  ASSUME NEW d \in Tables
  PROVE  /\ Age(d).posts = d.posts
         /\ \A v \in Age(d).sessions : \E s \in d.sessions : v = [s EXCEPT !.old = TRUE]
         /\ \A s \in d.sessions : \E v \in Age(d).sessions : v = [s EXCEPT !.old = TRUE]
         /\ \A s \in d.sessions : LET v == [s EXCEPT !.old = TRUE] IN
              v.id = s.id /\ v.text = s.text /\ v.raw = s.raw /\ v.snapshot = s.snapshot
<1>1. /\ Age(d).posts = d.posts
      /\ Age(d).sessions = {[s EXCEPT !.old = TRUE] : s \in d.sessions}
  BY DEF Age, Tables
<1>2. \A s \in d.sessions : LET v == [s EXCEPT !.old = TRUE] IN
        v.id = s.id /\ v.text = s.text /\ v.raw = s.raw /\ v.snapshot = s.snapshot
  BY DEF Tables, Session
<1> QED  BY <1>1, <1>2

\* An id stays one session's, whatever is pruned and reused.
LEMMA SessionsStay ==
  ASSUME ScreensTyped, SessionsInv, StoreStep, Remembers
  PROVE  SessionsInv'
<1>0. db \in Tables /\ disk \in Tables
  BY DEF ScreensTyped, StoreTyped
<1>1. CASE Grows
  <2>1. CASE db'.sessions \subseteq db.sessions
    BY <1>1, <2>1 DEF Grows, SessionsInv, Remembers
  <2>2. ASSUME NEW new \in Session,
               db'.sessions = db.sessions \cup {new}, ~new.old,
               \A s \in db.sessions : s.id # new.id,
               \A s \in db.sessions \cup disk.sessions : s.text # new.text
        PROVE  SessionsInv'
    BY <1>1, <2>2 DEF Grows, SessionsInv, Remembers
  <2> QED  BY <1>1, <2>1, <2>2 DEF Grows
<1>2. CASE Commit \/ Loses
  BY <1>2 DEF Commit, Loses, LoseUncommitted, SessionsInv, Remembers
<1>3. CASE Ages
  <2> DEFINE older(s) == [s EXCEPT !.old = TRUE]
  <2>1. /\ \A v \in db'.sessions : \E s \in db.sessions : v = older(s)
        /\ \A v \in disk'.sessions : \E s \in disk.sessions : v = older(s)
    BY <1>0, <1>3, AgedSessions DEF Ages
  <2>2. \A s \in db.sessions \cup disk.sessions : older(s).id = s.id /\ older(s).text = s.text
    BY <1>0, AgedSessions
  <2>3. \A s \in db.sessions \cup disk.sessions : s.text \in expired'
    BY <1>3 DEF Ages
  <2> HIDE DEF older
  <2> QED  BY <2>1, <2>2, <2>3 DEF SessionsInv
<1> QED  BY <1>1, <1>2, <1>3 DEF StoreStep, Keeps

\* What a search finds while its handlers live, and what one that is
\* committed finds, is not changed by any step.
LEMMA CountsStay ==
  ASSUME ScreensTyped, ScreensTyped', RowsInv, NEW raw, NEW snapshot \in Nat,
         \/ Keeps /\ snapshot <= Len(db.posts)
         \/ StoreStep /\ snapshot <= Len(disk.posts)
  PROVE  Found(db', raw, snapshot) = Found(db, raw, snapshot)
<1>0. db \in Tables /\ disk \in Tables /\ Longer(db, disk)
  BY DEF ScreensTyped, StoreTyped, RowsInv, SnapshotsInv
<1>1. snapshot <= Len(db.posts)
  BY <1>0 DEF Longer, Tables
<1>2. CASE Grows
  <2>1. db' \in Tables
    BY DEF ScreensTyped, StoreTyped
  <2> QED  BY <1>0, <1>1, <1>2, <2>1, FoundStays DEF Grows
<1>3. CASE Commit
  BY <1>3 DEF Commit
<1>4. CASE Loses /\ snapshot <= Len(disk.posts)
  BY <1>0, <1>4, FoundStays DEF Loses, LoseUncommitted
<1>5. CASE Ages
  <2>1. db'.posts = db.posts
    BY <1>0, <1>5, AgedSessions DEF Ages
  <2> QED  BY <2>1 DEF Found
<1> QED  BY <1>2, <1>3, <1>4, <1>5 DEF StoreStep, Keeps

\* A page that a committed search has stays there until the search is old.
LEMMA ReachesStays ==
  ASSUME ScreensTyped, ScreensTyped', RowsInv, SessionsInv, StoreStep, Remembers,
         NEW id, NEW t, NEW n, Reaches(id, t, n)
  PROVE  Reaches(id, t, n)' \/ t \in expired'
<1>0. db \in Tables /\ disk \in Tables
  BY DEF ScreensTyped, StoreTyped
<1>1. PICK s \in db.sessions, v \in disk.sessions :
        /\ s.id = id /\ s.text = t
        /\ v.id = id /\ v.text = t
        /\ n <= LastPage(s.raw, s.snapshot)
  BY DEF Reaches
<1>2. SameSearch(s, v) /\ s.snapshot \in Nat /\ s.snapshot <= Len(disk.posts)
  BY <1>0, <1>1 DEF RowsInv, SnapshotsInv, SameSearch, Tables, Session
<1>3. LastPage(s.raw, s.snapshot)' = LastPage(s.raw, s.snapshot)
  <2>1. Found(db', s.raw, s.snapshot) = Found(db, s.raw, s.snapshot)
    BY <1>2, CountsStay
  <2> QED  BY <2>1 DEF LastPage
<1>4. CASE Grows
  <2>1. s \in db'.sessions \/ t \in expired'
    BY <1>1, <1>4 DEF Grows, SessionsInv, Remembers
  <2> QED  BY <1>1, <1>3, <1>4, <2>1 DEF Grows, Reaches
<1>5. CASE Commit
  BY <1>1, <1>3, <1>5 DEF Commit, Reaches
<1>6. CASE Loses
  <2>1. LastPage(v.raw, v.snapshot)' = LastPage(s.raw, s.snapshot)
    BY <1>2, <1>3 DEF SameSearch
  <2> QED  BY <1>1, <1>6, <2>1 DEF Loses, LoseUncommitted, Reaches
<1>7. CASE Ages
  BY <1>1, <1>7 DEF Ages
<1> QED  BY <1>4, <1>5, <1>6, <1>7 DEF StoreStep, Keeps

\* What has lapsed stays so.
LEMMA LapsedStays ==
  ASSUME Remembers, NEW t, Lapsed(t)
  PROVE  Lapsed(t)'
BY DEF Remembers, Lapsed, Early

\* Buttons on the screens go on leading where they say.
LEMMA ButtonsStay ==
  ASSUME ScreensTyped, ScreensTyped', RowsInv, SessionsInv, ButtonsInv, StoreStep, Remembers,
         NEW s \in shown
  PROVE  /\ Sender[s.text] = s.user
         /\ Lapsed(s.text)' \/ \A n \in Buttons(s) : Reaches(s.id, s.text, n)'
<1>1. CASE Lapsed(s.text)
  BY <1>1, LapsedStays DEF ButtonsInv
<1>2. CASE \A n \in Buttons(s) : Reaches(s.id, s.text, n)
  BY <1>2, ReachesStays DEF ButtonsInv, Lapsed
<1> QED  BY <1>1, <1>2 DEF ButtonsInv

\* A session that some handler of this process made or found is there until it
\* is old, or the process ends with it.
LEMMA RowStays ==
  ASSUME SessionsInv, Keeps, Remembers, NEW s \in db.sessions
  PROVE  s \in db'.sessions \/ s.text \in expired'
BY DEF Keeps, Grows, Commit, Ages, SessionsInv, Remembers

\* A handler that does not move stays on course.
LEMMA StaysOnCourse ==
  ASSUME ScreensTyped, ScreensTyped', RowsInv, SessionsInv, Keeps, Remembers,
         NEW q \in Request, OnCourse(q)
  PROVE  OnCourse(q)'
<1>0. db \in Tables /\ q.snapshot \in Nat
  BY DEF ScreensTyped, StoreTyped, Request
<1>1. \A t : Lapsed(t) => Lapsed(t)'
  BY LapsedStays
<1>2. \A t : t \in expired => t \in expired'
  BY DEF Remembers
<1>3. Aims(q)'
  <2>1. Reaches(q.id, q.named, q.target) => Reaches(q.id, q.named, q.target)' \/ Lapsed(q.named)'
    BY ReachesStays DEF Lapsed, StoreStep
  <2> QED  BY <1>1, <2>1 DEF OnCourse, Aims, Aiming
<1>4. Opens(q)'
  <2>1. ASSUME NEW s \in db.sessions, s.id = q.id, s.text = q.text
        PROVE  q.text \in expired' \/ \E v \in db'.sessions : v.id = q.id /\ v.text = q.text
    BY <2>1, RowStays
  <2> QED  BY <1>2, <2>1 DEF OnCourse, Opens, Opening
<1>5. Cuts(q)'
  <2> SUFFICES ASSUME q.pc \in {"count", "rows"}
               PROVE  /\ Sender[q.text] = q.user
                      /\ Lapsed(q.named)' \/ (q.text = q.named /\ q.page = q.target)
                      /\ \/ q.text \in expired'
                         \/ /\ \E s \in db'.sessions : CutFor(q, s)
                            /\ q.pc = "rows" => Counts(q)'
    BY DEF Cuts
  <2>1. /\ Sender[q.text] = q.user
        /\ Lapsed(q.named)' \/ (q.text = q.named /\ q.page = q.target)
    BY <1>1 DEF OnCourse, Cuts
  <2>2. ASSUME NEW s \in db.sessions, CutFor(q, s), q.pc = "rows" => Counts(q)
        PROVE  \/ q.text \in expired'
               \/ /\ \E v \in db'.sessions : CutFor(q, v)
                  /\ q.pc = "rows" => Counts(q)'
    <3>1. q.snapshot <= Len(db.posts)
      BY <2>2 DEF CutFor, RowsInv, SnapshotsInv
    <3>2. Found(db', q.raw, q.snapshot) = Found(db, q.raw, q.snapshot)
      BY <1>0, <3>1, CountsStay
    <3>3. Counts(q) => Counts(q)'
      BY <3>2 DEF Counts, LastPage
    <3>4. s \in db'.sessions \/ q.text \in expired'
      BY <2>2, RowStays DEF CutFor
    <3> QED  BY <2>2, <3>3, <3>4
  <2> QED  BY <1>2, <2>1, <2>2 DEF OnCourse, Cuts
<1> QED  BY <1>3, <1>4, <1>5 DEF OnCourse

\* Where a page is full and something comes after it, there is another one.
LEMMA NextPageExists ==
  ASSUME NEW t \in Nat, NEW k \in Nat, k * PageSize < t
  PROVE  k + 1 <= Pages(t)
<1>1. PageSize \in Nat /\ PageSize > 0
  BY BotStoreAssumption
<1> QED  BY <1>1, SMT DEF Pages

\* There is always a last page, if an empty one.
LEMMA LastPageIsMax ==
  ASSUME db \in Tables, NEW raw, NEW snapshot
  PROVE  /\ Cardinality(Found(db, raw, snapshot)) \in Nat
         /\ LastPage(raw, snapshot) \in Nat
         /\ LastPage(raw, snapshot) >= 1
         /\ LastPage(raw, snapshot) >= Pages(Cardinality(Found(db, raw, snapshot)))
<1> DEFINE total == Cardinality(Found(db, raw, snapshot))
           S == {1, Pages(total)}
<1>1. total \in Nat
  BY FoundIsFinite, FS_CardinalityType
<1> HIDE DEF total
<1>2. Pages(total) \in Int
  BY <1>1, BotStoreAssumption DEF Pages
<1>3. IsFiniteSet(S) /\ S \in SUBSET Int /\ S # {} /\ 1 \in S /\ Pages(total) \in S
  BY <1>2, PairIsFinite
<1> HIDE DEF S
<1>4. Max(S) \in S /\ \A i \in S : Max(S) >= i
  BY <1>3, MaxIsMember
<1>5. Max(S) \in Int /\ Max(S) >= 1 /\ Max(S) >= Pages(total)
  BY <1>3, <1>4
<1>6. LastPage(raw, snapshot) = Max(S)
  BY DEF LastPage, S, total
<1> HIDE DEF S
<1> QED  BY <1>1, <1>5, <1>6 DEF total

\* The smaller of two.
LEMMA MinOfPair ==
  ASSUME NEW a \in Int, NEW b \in Int
  PROVE  LET m == Min({a, b}) IN m \in {a, b} /\ m <= a /\ m <= b
<1> DEFINE S == {a, b}
<1>1. IsFiniteSet(S) /\ S \in SUBSET Int /\ S # {} /\ a \in S /\ b \in S
  BY PairIsFinite
<1> HIDE DEF S
<1>2. Min(S) \in S /\ \A i \in S : Min(S) <= i
  BY <1>1, MinIsMember
<1> QED  BY <1>1, <1>2 DEF S

\* Handlers that no page depends on.
LEMMA OffCourse ==
  ASSUME NEW q, ~Aiming(q), ~Opening(q), q.pc \notin {"keep", "denied", "count", "rows"}
  PROVE  OnCourse(q)'
BY DEF OnCourse, Aims, Opens, Cuts, Opening, Aiming

\* The page of a handler that cut it is the one it was to show.
LEMMA CountsItsPage ==
  ASSUME ScreensTyped, SessionsInv, NEW q \in Request, q.pc = "count", q.page >= 1,
         OnCourse(q),
         NEW total, total = Cardinality(Found(db, q.raw, q.snapshot)),
         NEW new, new = [q EXCEPT !.pc = "rows", !.total = total,
                                  !.page = Min({@, Max({1, Pages(total)})})]
  PROVE  OnCourse(new)
<1>0. db \in Tables
  BY DEF ScreensTyped, StoreTyped
<1> DEFINE last == LastPage(q.raw, q.snapshot)
<1>1. last \in Nat /\ last >= 1
  BY <1>0, LastPageIsMax
<1>2. new.page = Min({q.page, last})
  BY DEF LastPage, Request
<1>3. q.page \in Nat
  BY DEF Request
<1>4. new.page \in {q.page, last} /\ new.page <= last /\ new.page <= q.page
  <2> HIDE DEF last
  <2> QED  BY <1>1, <1>2, <1>3, MinOfPair
<1>5. q.page <= last => new.page = q.page
  BY <1>1, <1>3, <1>4
<1>6. /\ new.pc = "rows" /\ new.total = total
      /\ new.user = q.user /\ new.named = q.named /\ new.target = q.target
      /\ new.text = q.text /\ new.id = q.id /\ new.raw = q.raw /\ new.snapshot = q.snapshot
  BY DEF Request
<1>7. Aims(new)
  BY <1>6 DEF OnCourse, Aims, Aiming
<1>8. Opens(new)
  BY <1>6 DEF Opens, Opening
<1>9. Counts(new)
  BY <1>4, <1>6 DEF Counts
<1>10. Lapsed(q.named) \/ (new.text = new.named /\ new.page = new.target)
  <2> SUFFICES ASSUME ~Lapsed(q.named)
               PROVE  new.text = new.named /\ new.page = new.target
    OBVIOUS
  <2>1. q.text = q.named /\ q.page = q.target
    BY DEF OnCourse, Cuts
  <2>2. PICK s \in db.sessions : CutFor(q, s)
    BY <2>1 DEF OnCourse, Cuts, Lapsed
  <2>3. PICK v \in db.sessions : v.id = q.id /\ q.target <= LastPage(v.raw, v.snapshot)
    BY DEF OnCourse, Aims, Aiming, Reaches
  <2>4. v = s
    BY <2>2, <2>3 DEF SessionsInv, CutFor
  <2>5. q.page <= last
    BY <2>1, <2>2, <2>3, <2>4 DEF CutFor
  <2> HIDE DEF last
  <2> QED  BY <1>5, <1>6, <2>1, <2>5
<1>11. Cuts(new)
  BY <1>6, <1>9, <1>10 DEF OnCourse, Cuts, CutFor
<1> QED  BY <1>7, <1>8, <1>11 DEF OnCourse

\* The row that a lookup finds is that of the search the button stands under.
LEMMA LooksUpItsSearch ==
  ASSUME ScreensTyped, SessionsInv, NEW q \in Request, q.pc = "lookup", OnCourse(q),
         NEW s \in RowOf(db.sessions, q.id, q.user),
         NEW new, new = [q EXCEPT !.pc = "count", !.text = s.text, !.raw = s.raw,
                                  !.snapshot = s.snapshot]
  PROVE  OnCourse(new)
<1>1. s \in db.sessions /\ s.id = q.id /\ Sender[s.text] = q.user
  BY DEF RowOf
<1>2. /\ new.pc = "count" /\ new.text = s.text /\ new.raw = s.raw /\ new.snapshot = s.snapshot
      /\ new.user = q.user /\ new.named = q.named /\ new.target = q.target
      /\ new.id = q.id /\ new.page = q.page
  BY DEF Request
<1>3. Aims(new)
  BY <1>2 DEF OnCourse, Aims, Aiming
<1>4. Opens(new)
  BY <1>2 DEF Opens, Opening
<1>5. CutFor(new, s)
  BY <1>1, <1>2 DEF CutFor
<1>6. Lapsed(q.named) \/ (s.text = q.named /\ q.page = q.target)
  <2> SUFFICES ASSUME ~Lapsed(q.named) PROVE s.text = q.named /\ q.page = q.target
    OBVIOUS
  <2>1. PICK v \in db.sessions : v.id = q.id /\ v.text = q.named
    BY DEF OnCourse, Aims, Aiming, Reaches
  <2>2. v = s
    BY <1>1, <2>1 DEF SessionsInv
  <2> QED  BY <2>1, <2>2 DEF OnCourse, Aims, Aiming
<1>7. Cuts(new)
  BY <1>1, <1>2, <1>5, <1>6 DEF Cuts
<1> QED  BY <1>3, <1>4, <1>7 DEF OnCourse

\* Where there is no row, the search had lapsed.
LEMMA DeniesOnlyLapsed ==
  ASSUME NEW q \in Request, q.pc = "lookup", OnCourse(q),
         RowOf(db.sessions, q.id, q.user) = {},
         NEW new, new = [q EXCEPT !.pc = "denied"]
  PROVE  OnCourse(new)
<1>1. new.pc = "denied" /\ new.named = q.named
  BY DEF Request
<1>2. Lapsed(q.named)
  <2> SUFFICES ASSUME ~Lapsed(q.named) PROVE FALSE
    OBVIOUS
  <2>1. PICK s \in db.sessions : s.id = q.id /\ s.text = q.named
    BY DEF OnCourse, Aims, Aiming, Reaches
  <2>2. Sender[q.named] = q.user
    BY DEF OnCourse, Aims, Aiming
  <2>3. s \in RowOf(db.sessions, q.id, q.user)
    BY <2>1, <2>2 DEF RowOf
  <2> QED  BY <2>3
<1> QED  BY <1>1, <1>2 DEF OnCourse, Aims, Opens, Cuts, Aiming, Opening

\* The session of a search that has just been created or committed.
LEMMA OpensItsSession ==
  ASSUME ScreensTyped, ScreensTyped', RowsInv, SessionsInv, SessionsInv', Remembers,
         NEW r \in Requests, OnCourse(req[r]), CreateSession(r) \/ CommitSession(r), Keeps
  PROVE  OnCourse(req[r])'
<1>0. /\ req \in [Requests -> Request] /\ db \in Tables /\ db' \in Tables
  BY DEF ScreensTyped, RequestsTyped, StoreTyped
<1>1. PICK q \in Request : q = req[r]
  BY <1>0
<1>2. OnCourse(q)'
  BY <1>1, StaysOnCourse
<1>3. PICK new : new = req'[r]
  OBVIOUS
<1>4. CASE CreateSession(r)
  <2>1. /\ req' = [req EXCEPT ![r].pc = "keep", ![r].id = NextId(db.sessions)]
        /\ q.pc = "create"
    BY <1>1, <1>4 DEF CreateSession
  <2>2. /\ new.pc = "keep" /\ new.id = NextId(db.sessions)
        /\ new.text = q.text /\ new.named = q.named /\ new.user = q.user
        /\ new.page = q.page /\ new.target = q.target
    BY <1>0, <1>1, <1>3, <2>1 DEF Request
  <2>3. \E s \in db'.sessions : s.id = new.id /\ s.text = new.text
    <3> DEFINE row == [id |-> NextId(db.sessions), text |-> req[r].text, raw |-> req[r].raw,
                       snapshot |-> req[r].snapshot, old |-> FALSE]
    <3>1. db'.sessions = db.sessions \cup {row}
      BY <1>0, <1>4 DEF CreateSession, Tables
    <3>2. row.id = new.id /\ row.text = new.text
      BY <1>1, <2>2
    <3> HIDE DEF row
    <3> QED  BY <3>1, <3>2
  <2>4. OnCourse(new)'
    BY <1>2, <2>1, <2>2, <2>3 DEF OnCourse, Aims, Opens, Cuts, Aiming, Opening
  <2> QED  BY <1>3, <2>4
<1>5. CASE CommitSession(r)
  <2>1. Goto(r, "lookup") /\ q.pc = "keep" /\ db' = db /\ disk' = db
    BY <1>1, <1>5 DEF CommitSession, Commit
  <2>2. /\ new.pc = "lookup" /\ new.id = q.id
        /\ new.text = q.text /\ new.named = q.named /\ new.user = q.user
        /\ new.page = q.page /\ new.target = q.target
    BY <1>0, <1>1, <1>3, <2>1 DEF Request, Goto
  <2>3. /\ q.text = q.named /\ Sender[q.text] = q.user /\ q.page = 1 /\ q.target = 1
        /\ q.text \in expired' \/ \E s \in db'.sessions : s.id = q.id /\ s.text = q.text
    BY <1>2, <2>1 DEF OnCourse, Opens, Opening
  <2>4. Lapsed(q.named)' \/ Reaches(q.id, q.named, 1)'
    <3>1. ASSUME NEW s \in db'.sessions, s.id = q.id, s.text = q.text
          PROVE  Reaches(q.id, q.named, 1)'
      <4>1. (1 <= LastPage(s.raw, s.snapshot))'
        <5>1. LastPage(s.raw, s.snapshot) >= 1 /\ LastPage(s.raw, s.snapshot) \in Nat
          BY <1>0, LastPageIsMax
        <5>2. LastPage(s.raw, s.snapshot)' = LastPage(s.raw, s.snapshot)
          BY <2>1 DEF LastPage, Found
        <5> QED  BY <5>1, <5>2
      <4> QED  BY <2>1, <2>3, <3>1, <4>1 DEF Reaches
    <3> QED  BY <2>3, <3>1 DEF Lapsed
  <2>5. OnCourse(new)'
    BY <2>2, <2>3, <2>4 DEF OnCourse, Aims, Opens, Cuts, Aiming, Opening
  <2> QED  BY <1>3, <2>5
<1> QED  BY <1>4, <1>5

\* A step that leads a handler to where it still is on course.
LEMMA HandleMoves ==
  ASSUME ScreensTyped, ScreensTyped', RowsInv, SessionsInv, SessionsInv', Remembers,
         NEW r \in Requests, Handle(r), OnCourse(req[r])
  PROVE  OnCourse(req[r])'
<1>0. /\ req \in [Requests -> Request] /\ req' \in [Requests -> Request]
      /\ db \in Tables /\ Paged(req[r])
  BY DEF ScreensTyped, RequestsTyped, StoreTyped
<1>1. Keeps
  BY HandleStores DEF Keeps
<1>2. PICK q \in Request : q = req[r]
  BY <1>0
<1>3. PICK new \in Request : new = req'[r]
  BY <1>0
<1>4. OnCourse(q)
  BY <1>2
<1>5. SUFFICES ASSUME ~CreateSession(r), ~CommitSession(r)
               PROVE  OnCourse(new) \/ OnCourse(new)'
  BY <1>1, <1>3, OpensItsSession, StaysOnCourse
<1>6. CASE Finish(r)
  <2>1. new.pc = "idle"
    BY <1>0, <1>3, <1>6 DEF Finish, NoRequest
  <2> QED  BY <2>1, OffCourse DEF Aiming, Opening
<1>7. CASE \E pc \in {"clear", "save", "commit_save", "details", "find", "remove",
                     "commit_remove"} : Goto(r, pc)
  <2>1. new.pc \in {"clear", "save", "commit_save", "details", "find", "remove",
                    "commit_remove"}
    BY <1>0, <1>3, <1>7 DEF Goto, Request
  <2> QED  BY <2>1, OffCourse DEF Aiming, Opening
<1>8. ASSUME NEW pc, Goto(r, pc)
      PROVE  /\ new = [q EXCEPT !.pc = pc] /\ new.pc = pc
             /\ new.text = q.text /\ new.named = q.named /\ new.user = q.user
             /\ new.id = q.id /\ new.page = q.page /\ new.target = q.target
  BY <1>0, <1>2, <1>3, <1>8 DEF Goto, Request
<1>9. CASE EnsureUser(r)
  <2>1. q.pc = "user"
    BY <1>2, <1>9 DEF EnsureUser
  <2>2. CASE q.kind = "search" /\ Goto(r, "max")
    BY <1>4, <1>8, <2>1, <2>2 DEF OnCourse, Aims, Opens, Cuts, Aiming, Opening
  <2>3. CASE q.kind = "page" /\ Goto(r, "lookup")
    BY <1>4, <1>8, <2>1, <2>3 DEF OnCourse, Aims, Opens, Cuts, Aiming, Opening
  <2>4. \/ Finish(r)
        \/ q.kind = "search" /\ Goto(r, "max")
        \/ q.kind = "page" /\ Goto(r, "lookup")
        \/ \E pc \in {"save", "details", "find"} : Goto(r, pc)
    <3>1. q.kind \in {"search", "page", "keyword", "open", "delete"}
      BY DEF Request
    <3> QED  BY <1>2, <1>9, <3>1 DEF EnsureUser
  <2> QED  BY <1>6, <1>7, <2>2, <2>3, <2>4
<1>10. CASE ReadMax(r) \/ Prune(r)
  <2>1. CASE ReadMax(r)
    <3>1. /\ q.pc = "max" /\ new.pc = "prune"
          /\ new.text = q.text /\ new.named = q.named /\ new.user = q.user
          /\ new.page = q.page /\ new.target = q.target
      BY <1>0, <1>2, <1>3, <2>1 DEF ReadMax, Request
    <3> QED  BY <1>4, <3>1 DEF OnCourse, Aims, Opens, Cuts, Aiming, Opening
  <2>2. CASE Prune(r)
    <3>1. q.pc = "prune" /\ Goto(r, "create")
      BY <1>2, <2>2, SMTT(30) DEF Prune
    <3> QED  BY <1>4, <1>8, <3>1 DEF OnCourse, Aims, Opens, Cuts, Aiming, Opening
  <2> QED  BY <1>10, <2>1, <2>2
<1>11. CASE Lookup(r)
  <2>1. q.pc = "lookup"
    BY <1>2, <1>11 DEF Lookup
  <2>2. CASE RowOf(db.sessions, q.id, q.user) = {} /\ Goto(r, "denied")
    BY <1>4, <1>8, <2>1, <2>2, DeniesOnlyLapsed
  <2>3. ASSUME NEW s \in RowOf(db.sessions, q.id, q.user),
               req' = [req EXCEPT ![r].pc = "count", ![r].text = s.text,
                                  ![r].raw = s.raw, ![r].snapshot = s.snapshot]
        PROVE  OnCourse(new)
    <3>1. new = [q EXCEPT !.pc = "count", !.text = s.text, !.raw = s.raw,
                          !.snapshot = s.snapshot]
      BY <1>0, <1>2, <1>3, <2>3 DEF Request
    <3> QED  BY <1>4, <2>1, <3>1, LooksUpItsSearch
  <2> QED  BY <1>2, <1>11, <2>2, <2>3 DEF Lookup
<1>12. CASE Count(r)
  <2>1. PICK total : total = Cardinality(Found(db, q.raw, q.snapshot))
    OBVIOUS
  <2>2. new = [q EXCEPT !.pc = "rows", !.total = total,
                        !.page = Min({@, Max({1, Pages(total)})})]
    BY <1>0, <1>2, <1>3, <1>12, <2>1 DEF Count, Request
  <2>3. q.pc = "count" /\ q.page >= 1
    BY <1>0, <1>2, <1>12 DEF Count, Paged, Paging
  <2> QED  BY <1>4, <2>1, <2>2, <2>3, CountsItsPage
<1>13. CASE ShowFails(r) \/ Deny(r) \/ Answer(r) \/ KeywordStep(r) \/ ClearState(r)
  <2>1. \/ Finish(r)
        \/ \E pc \in {"clear", "commit_save", "remove", "commit_remove"} : Goto(r, pc)
    BY <1>13 DEF ShowFails, Deny, Answer, ShowRows, KeywordStep, SaveKeyword, CommitKeyword,
                 ShowDetails, FindKeyword, RemoveKeyword, CommitRemoval, ClearState
  <2> QED  BY <1>6, <1>7, <2>1
<1> QED  BY <1>5, <1>9, <1>10, <1>11, <1>12, <1>13 DEF Handle, SearchStep

\* A new update starts on course: it is a text, or a button on the screen.
LEMMA UpdateMoves ==
  ASSUME ScreensTyped, ScreensTyped', RowsInv, SessionsInv, ButtonsInv, Remembers, StoreStep,
         NEW r \in Requests, Update(r)
  PROVE  OnCourse(req[r])'
<1>0. /\ req \in [Requests -> Request] /\ req' \in [Requests -> Request]
  BY DEF ScreensTyped, RequestsTyped
<1>1. PICK new \in Request : new = req'[r]
  BY <1>0
<1>2. SUFFICES OnCourse(new) \/ OnCourse(new)'
  <2>1. UNCHANGED <<db, disk>>
    BY DEF Update, PressPage, SendText, PressOpen, PressDelete
  <2>2. Keeps
    BY <2>1, SameSessions DEF Keeps, ScreensTyped, StoreTyped
  <2> QED  BY <1>1, <2>2, StaysOnCourse
<1>3. ASSUME NEW kind, NEW prompted, NEW u, NEW t, NEW raw, NEW id, NEW page,
             Begin(r, kind, prompted, u, t, raw, id, page)
      PROVE  /\ new.pc = "user" /\ new.kind = kind /\ new.user = u
             /\ new.text = t /\ new.named = t /\ new.id = id
             /\ new.page = page /\ new.target = page
  <2> DEFINE begun == [NoRequest EXCEPT !.pc = "user", !.kind = kind, !.prompted = prompted,
                                        !.user = u, !.text = t, !.raw = raw, !.id = id,
                                        !.page = page, !.named = t, !.target = page]
  <2>1. /\ begun.pc = "user" /\ begun.kind = kind /\ begun.user = u
        /\ begun.text = t /\ begun.named = t /\ begun.id = id
        /\ begun.page = page /\ begun.target = page
    BY DEF NoRequest
  <2>2. req' = [req EXCEPT ![r] = begun]
    BY <1>3 DEF Begin
  <2> HIDE DEF begun
  <2>3. new = begun
    BY <1>0, <1>1, <2>2
  <2> QED  BY <2>1, <2>3
<1>4. CASE PressPage(r)
  <2>1. PICK s \in shown : \E n \in Buttons(s) :
          Begin(r, "page", FALSE, s.user, s.text, <<>>, s.id, n)
    BY <1>4 DEF PressPage
  <2>2. PICK n \in Buttons(s) : Begin(r, "page", FALSE, s.user, s.text, <<>>, s.id, n)
    BY <2>1
  <2>3. /\ new.pc = "user" /\ new.kind = "page" /\ new.user = s.user
        /\ new.text = s.text /\ new.named = s.text /\ new.id = s.id
        /\ new.page = n /\ new.target = n
    BY <1>3, <2>2
  <2>4. Sender[s.text] = s.user /\ (Lapsed(s.text)' \/ Reaches(s.id, s.text, n)')
    BY <2>2, ButtonsStay
  <2>5. OnCourse(new)'
    BY <2>3, <2>4 DEF OnCourse, Aims, Opens, Cuts, Aiming, Opening
  <2> QED  BY <2>5
<1>5. CASE \E t \in Texts : SendText(r, t)
  <2>1. PICK t \in Texts : SendText(r, t)
    BY <1>5
  <2>2. CASE \E prompted, raw : Begin(r, "search", prompted, Sender[t], t, raw, 0, 1)
    <3>1. /\ new.pc = "user" /\ new.kind = "search" /\ new.user = Sender[t]
          /\ new.text = t /\ new.named = t /\ new.page = 1 /\ new.target = 1
      BY <1>3, <2>2
    <3> QED  BY <3>1 DEF OnCourse, Aims, Opens, Cuts, Aiming, Opening
  <2>3. CASE Begin(r, "keyword", FALSE, Sender[t], t, Tokens[t], 0, 0)
    <3>1. new.pc = "user" /\ new.kind = "keyword"
      BY <1>3, <2>3
    <3> QED  BY <3>1, OffCourse DEF Aiming, Opening
  <2> QED  BY <2>1, <2>2, <2>3 DEF SendText
<1>6. CASE PressOpen(r) \/ PressDelete(r)
  <2>1. new.pc = "user" /\ new.kind \in {"open", "delete"}
    BY <1>3, <1>6 DEF PressOpen, PressDelete
  <2> QED  BY <2>1, OffCourse DEF Aiming, Opening
<1> QED  BY <1>4, <1>5, <1>6 DEF Update

\* The buttons under a page that is shown lead to pages of the same search,
\* which is on disk, or it has lapsed.
LEMMA AnswerButtons ==
  ASSUME ScreensTyped, RowsInv, SessionsInv, Remembers,
         NEW r \in Requests, OnCourse(req[r]), ShowRows(r),
         NEW p \in shown' \ shown
  PROVE  /\ Sender[p.text] = p.user
         /\ Lapsed(p.text)' \/ \A n \in Buttons(p) : Reaches(p.id, p.text, n)'
<1>0. req \in [Requests -> Request] /\ db \in Tables
  BY DEF ScreensTyped, RequestsTyped, StoreTyped
<1>1. PICK q \in Request : q = req[r]
  BY <1>0
<1>2. OnCourse(q) /\ q.pc = "rows" /\ UNCHANGED <<db, disk, expired>>
  <2>1. OnCourse(q)
    BY <1>1
  <2> QED  BY <1>1, <2>1 DEF ShowRows
<1>3. /\ p.user = q.user /\ p.text = q.text /\ p.id = q.id /\ p.page = q.page
      /\ p.total = q.total
      /\ p.early = (q.text # q.named /\ \A s \in disk.sessions : s.text # q.text)
  <2> DEFINE page == [user |-> q.user, text |-> q.text, raw |-> q.raw, id |-> q.id,
                      page |-> q.page, snapshot |-> q.snapshot, total |-> q.total,
                      corpus |-> ToSet(db.posts),
                      early |-> /\ q.text # q.named
                                /\ \A s \in disk.sessions : s.text # q.text,
                      items |-> {db.posts[i] : i \in Page(Found(db, q.raw, q.snapshot),
                                                          q.page)}]
  <2>1. shown' = shown \cup {page}
    BY <1>1 DEF ShowRows
  <2>2. /\ page.user = q.user /\ page.text = q.text /\ page.id = q.id /\ page.page = q.page
        /\ page.total = q.total
        /\ page.early = (q.text # q.named /\ \A s \in disk.sessions : s.text # q.text)
    OBVIOUS
  <2> HIDE DEF page
  <2> QED  BY <2>1, <2>2
<1>4. Sender[p.text] = p.user
  BY <1>2, <1>3 DEF OnCourse, Cuts
<1>5. SUFFICES ASSUME ~Lapsed(p.text)', NEW n \in Buttons(p)
               PROVE  Reaches(p.id, p.text, n)'
  BY <1>4
<1>6. q.text \notin expired /\ ~Lapsed(q.text) /\ ~p.early
  BY <1>2, <1>3, <1>5, LapsedStays DEF Lapsed, Early
<1>7. PICK v \in disk.sessions : v.text = q.text
  <2>1. CASE q.text = q.named
    BY <1>2, <1>6, <2>1 DEF OnCourse, Aims, Aiming, Reaches
  <2> QED  BY <1>3, <1>6, <2>1
<1>8. PICK s \in db.sessions : CutFor(q, s)
  BY <1>2, <1>6 DEF OnCourse, Cuts
<1>9. v.id = q.id /\ s.id = q.id /\ s.text = q.text
  BY <1>7, <1>8 DEF CutFor, SessionsInv
<1>10. q.total = Cardinality(Found(db, s.raw, s.snapshot)) /\ q.page <= LastPage(s.raw, s.snapshot)
  BY <1>2, <1>6, <1>8 DEF OnCourse, Cuts, Counts, CutFor
<1> DEFINE last == LastPage(s.raw, s.snapshot)
<1>11. q.total \in Nat /\ last \in Nat /\ last >= Pages(q.total)
  BY <1>0, <1>10, LastPageIsMax
<1>12. n <= last
  <2>1. q.page \in Nat /\ PageSize \in Nat /\ PageSize > 0
    BY BotStoreAssumption DEF Request
  <2>2. n = q.page - 1 \/ (n = q.page + 1 /\ (n < q.page \/ q.page * PageSize < q.total))
    BY <1>3, <1>5 DEF Buttons
  <2>3. q.page <= last
    BY <1>10
  <2>4. q.page * PageSize < q.total => q.page + 1 <= Pages(q.total)
    BY <1>11, <2>1, NextPageExists
  <2>5. Pages(q.total) \in Int
    BY <1>11, <2>1 DEF Pages
  <2> HIDE DEF last
  <2> QED  BY <1>11, <2>1, <2>2, <2>3, <2>4, <2>5
<1>13. last' = last
  BY <1>2 DEF LastPage, Found
<1> QED  BY <1>2, <1>3, <1>7, <1>9, <1>12, <1>13 DEF Reaches

\* Whatever a step does to the tables, the handlers that it leaves alone stay
\* on course, and those it stops have none to keep.
LEMMA RestOnCourse ==
  ASSUME ScreensTyped, ScreensTyped', RowsInv, SessionsInv, StoreStep, Remembers,
         NEW r \in Requests, OnCourse(req[r]),
         req'[r] = req[r] \/ req'[r].pc \in {"idle", "clear"}
  PROVE  OnCourse(req[r])'
<1>1. CASE req'[r].pc \in {"idle", "clear"}
  <2>1. PICK new : new = req'[r]
    OBVIOUS
  <2> QED  BY <1>1, <2>1, OffCourse DEF Aiming, Opening
<1>2. CASE req'[r] = req[r] /\ Keeps
  <2>1. PICK q \in Request : q = req[r]
    BY DEF ScreensTyped, RequestsTyped
  <2>2. OnCourse(q)'
    BY <1>2, <2>1, StaysOnCourse
  <2> QED  BY <1>2, <2>1, <2>2
<1>3. CASE Loses
  BY <1>1, <1>3 DEF Loses
<1> QED  BY <1>1, <1>2, <1>3 DEF StoreStep

\* Each step keeps sessions, buttons and handlers on course.
LEMMA NextPages == ScreensTyped /\ RowsInv /\ PagesInv /\ [Next]_vars => PagesInv'
<1> SUFFICES ASSUME ScreensTyped, RowsInv, PagesInv, [Next]_vars PROVE PagesInv'
  OBVIOUS
<1> USE DEF PagesInv
<1>1. ScreensTyped' /\ RowsInv' /\ StoreStep /\ Remembers
  BY NextTyped, NextRows, StepStores, StepRemembers
<1>2. SessionsInv'
  BY <1>1, SessionsStay
<1>3. ButtonsInv'
  <2>1. shown' = shown \/ \E r \in Requests : ShowRows(r)
    BY ZenonT(60)
       DEF Next, vars, searchVars, Update, Handle, Press, PressPage, SendText, PressOpen,
           PressDelete, EnsureUser, SearchStep, ReadMax, Prune, CreateSession, CommitSession,
           Lookup, Count, ShowFails, Deny, Answer, KeywordStep, SaveKeyword, CommitKeyword,
           ShowDetails, FindKeyword, RemoveKeyword, CommitRemoval, ClearState, PressBack,
           ShowPrompt, InsertPost, CommitPost, WeekPasses, Startup, ResolveTitles,
           DeleteStale, Upsert, CommitSources, Die, Restart
  <2>2. \A p \in shown : /\ Sender[p.text] = p.user
                         /\ Lapsed(p.text)' \/ \A n \in Buttons(p) : Reaches(p.id, p.text, n)'
    BY <1>1, ButtonsStay
  <2>3. \A p \in shown' \ shown :
          /\ Sender[p.text] = p.user
          /\ Lapsed(p.text)' \/ \A n \in Buttons(p) : Reaches(p.id, p.text, n)'
    BY <1>1, <2>1, AnswerButtons
  <2>4. \A p \in shown' : /\ Sender[p.text] = p.user
                          /\ Lapsed(p.text)' \/ \A n \in Buttons(p) : Reaches(p.id, p.text, n)'
    BY <2>2, <2>3
  <2> QED  BY <2>4, ZenonT(60) DEF ButtonsInv
<1>4. ASSUME NEW q \in Requests PROVE OnCourse(req[q])'
  <2>1. ASSUME NEW r \in Requests, Handle(r) PROVE OnCourse(req[q])'
    <3>1. CASE q = r
      BY <1>1, <1>2, <2>1, <3>1, HandleMoves
    <3>2. CASE q # r
      BY <1>1, <2>1, <3>2, OthersStay, RestOnCourse
    <3> QED  BY <3>1, <3>2
  <2>2. ASSUME NEW r \in Requests, Update(r) PROVE OnCourse(req[q])'
    <3>1. CASE q = r
      BY <1>1, <2>2, <3>1, UpdateMoves
    <3>2. CASE q # r
      BY <1>1, <2>2, <3>2, OthersStay, RestOnCourse
    <3> QED  BY <3>1, <3>2
  <2>3. CASE Die \/ Restart
    <3>1. req'[q] = req[q] \/ req'[q].pc \in {"idle", "clear"}
      BY <2>3 DEF Die, Restart, NoRequest
    <3> QED  BY <1>1, <3>1, RestOnCourse
  <2>4. CASE req' = req
    BY <1>1, <2>4, RestOnCourse
  <2>5. \/ \E r \in Requests : Handle(r) \/ Update(r)
        \/ Die \/ Restart \/ req' = req
    BY DEF Next, Startup, ResolveTitles, DeleteStale, Upsert, CommitSources, InsertPost,
           CommitPost, WeekPasses, Press, PressBack, ShowPrompt, vars, searchVars
  <2> QED  BY <2>1, <2>2, <2>3, <2>4, <2>5
<1> QED  BY <1>2, <1>3, <1>4

\* Nothing is on the screens at the start.
LEMMA InitPages == Init => PagesInv
<1> SUFFICES ASSUME Init PROVE PagesInv
  OBVIOUS
<1>1. db.sessions = {} /\ disk.sessions = {} /\ shown = {}
  BY DEF Init
<1>2. ASSUME NEW r \in Requests PROVE OnCourse(req[r])
  BY DEF Init, NoRequest, OnCourse, Aims, Opens, Cuts, Aiming, Opening
<1> QED  BY <1>1, <1>2 DEF PagesInv, SessionsInv, ButtonsInv

\* Sessions, buttons and handlers are on course in every reachable state.
LEMMA PagesAlways == Spec => [](ScreensTyped /\ RowsInv /\ PagesInv)
<1>1. ScreensTyped /\ RowsInv /\ PagesInv /\ [Next]_vars =>
        ScreensTyped' /\ RowsInv' /\ PagesInv'
  BY NextTyped, NextRows, NextPages
<1>2. Init => ScreensTyped /\ RowsInv /\ PagesInv
  BY InitTyped, InitRows, InitPages
<1> QED  BY <1>1, <1>2, PTL DEF Spec

\* However many searches, prunings, reused ids and crashes lie between the
\* screen and the button, search_page shows the page that the button names, and
\* denies it only to a search that has lapsed.
THEOREM ButtonsHold == Spec => []PageButtonsHold
<1>1. PagesInv => PageButtonsHold
  BY DEF PagesInv, OnCourse, Aims, Cuts, PageButtonsHold
<1> QED  BY <1>1, PagesAlways, PTL

\* The rows of a page survive a crash, whoever inserted them.
THEOREM PagesLast == Spec => []PagesAreDurable
<1>1. ASSUME ScreensTyped, RowsInv, PagesInv, NEW r \in Requests, req[r].pc = "rows",
             ~Lapsed(req[r].named),
             NEW i \in Found(db, req[r].raw, req[r].snapshot)
      PROVE  db.posts[i] \in ToSet(disk.posts)
  <2>1. PICK q \in Request : q = req[r]
    BY <1>1 DEF ScreensTyped, RequestsTyped
  <2>2. OnCourse(q) /\ q.pc = "rows" /\ ~Lapsed(q.named)
    BY <1>1, <2>1 DEF PagesInv
  <2>3. q.text = q.named /\ q.text \notin expired
    BY <2>2 DEF OnCourse, Cuts, Lapsed
  <2>4. PICK s \in db.sessions : CutFor(q, s)
    BY <2>2, <2>3 DEF OnCourse, Cuts
  <2>5. PICK v \in disk.sessions : v.text = q.named
    BY <2>2 DEF OnCourse, Aims, Aiming, Reaches
  <2>6. q.snapshot = v.snapshot
    BY <1>1, <2>3, <2>4, <2>5 DEF RowsInv, SnapshotsInv, SameSearch, CutFor
  <2>7. v.snapshot <= Len(disk.posts) /\ Longer(db, disk)
    BY <1>1 DEF RowsInv, SnapshotsInv
  <2>8. /\ db.posts \in Seq(Posts) /\ disk.posts \in Seq(Posts)
        /\ v.snapshot \in Nat
    BY <1>1 DEF ScreensTyped, StoreTyped, Tables, Session
  <2>9. i \in 1..Len(db.posts) /\ i <= q.snapshot
    BY <1>1, <2>1, <2>8 DEF Found
  <2>10. i \in 1..Len(disk.posts)
    BY <2>6, <2>7, <2>8, <2>9
  <2>11. db.posts[i] = disk.posts[i]
    BY <2>7, <2>10 DEF Longer
  <2> QED  BY <2>8, <2>10, <2>11 DEF ToSet
<1>2. ScreensTyped /\ RowsInv /\ PagesInv => PagesAreDurable
  BY <1>1 DEF PagesAreDurable
<1> QED  BY <1>2, PagesAlways, PTL

-----------------------------------------------------------------------------
(* Page after page *)

DistinctPosts(d) == \A i, j \in DOMAIN d.posts : d.posts[i] = d.posts[j] => i = j

\* The order of the places in d, and a page of it, when corpus is indexed.
BeforeIn(d, corpus, i, j) ==
  LET rank == Rank[corpus] IN
    \/ rank[d.posts[i]] < rank[d.posts[j]]
    \/ rank[d.posts[i]] = rank[d.posts[j]] /\ i > j

Ahead(d, corpus, found, i) == {j \in found : BeforeIn(d, corpus, j, i)}

PageIn(d, corpus, found, page) ==
  {i \in found : LET k == Cardinality(Ahead(d, corpus, found, i)) IN
                   (page - 1) * PageSize <= k /\ k < page * PageSize}

\* The page v is one of those that the rows of d make.
CutFrom(v, d) ==
  LET found == Found(d, v.raw, v.snapshot) IN
    /\ v.snapshot <= Len(d.posts)
    /\ v.total = Cardinality(found)
    /\ v.page <= Max({1, Pages(v.total)})
    /\ v.items = {d.posts[i] : i \in PageIn(d, v.corpus, found, v.page)}

\* Rows that are stored later do not change a page for the same corpus.
LEMMA CutStays ==
  ASSUME NEW d \in Tables, NEW e \in Tables, Longer(d, e), NEW v \in ResultPage,
         v.snapshot <= Len(e.posts)
  PROVE  CutFrom(v, d) <=> CutFrom(v, e)
<1> DEFINE found == Found(e, v.raw, v.snapshot)
<1>0. v.snapshot \in Nat
  BY DEF ResultPage
<1>1. Found(d, v.raw, v.snapshot) = found
  BY <1>0, FoundStays
<1>2. /\ DOMAIN e.posts = 1..Len(e.posts) /\ Len(e.posts) \in Nat /\ Len(d.posts) \in Nat
      /\ Len(e.posts) <= Len(d.posts)
  BY DEF Tables, Longer
<1>3. \A i \in found : d.posts[i] = e.posts[i]
  BY <1>2 DEF Found, Longer
<1>4. v.snapshot <= Len(d.posts)
  BY <1>0, <1>2
<1> HIDE DEF found
<1>5. \A i \in found : Ahead(d, v.corpus, found, i) = Ahead(e, v.corpus, found, i)
  BY <1>3 DEF Ahead, BeforeIn
<1>6. PageIn(d, v.corpus, found, v.page) = PageIn(e, v.corpus, found, v.page)
  BY <1>5 DEF PageIn
<1>7. PageIn(e, v.corpus, found, v.page) \subseteq found
  BY DEF PageIn
<1>8. {d.posts[i] : i \in PageIn(d, v.corpus, found, v.page)}
        = {e.posts[i] : i \in PageIn(e, v.corpus, found, v.page)}
  BY <1>3, <1>6, <1>7
<1> QED  BY <1>1, <1>4, <1>8 DEF CutFrom, found

-----------------------------------------------------------------------------
(* Arithmetic of pages *)

\* A place belongs to one page.
LEMMA OnePage ==
  ASSUME NEW k \in Nat, NEW n \in Nat \ {0}, NEW m \in Nat \ {0},
         (n - 1) * PageSize <= k, k < n * PageSize,
         (m - 1) * PageSize <= k, k < m * PageSize
  PROVE  n = m
<1>1. PageSize \in Nat /\ PageSize > 0
  BY BotStoreAssumption
<1>2. ASSUME NEW a \in Nat \ {0}, NEW b \in Nat \ {0}, a < b,
             k < a * PageSize, (b - 1) * PageSize <= k
      PROVE  FALSE
  <2>1. PICK c \in Nat : b - 1 = a + c
    <3>1. b - 1 - a \in Nat /\ b - 1 = a + (b - 1 - a)
      BY <1>2
    <3> QED  BY <3>1
  <2>2. (b - 1) * PageSize = a * PageSize + c * PageSize
    BY <1>1, <2>1, SMT
  <2>3. c * PageSize \in Nat /\ a * PageSize \in Nat
    BY <1>1, SMT
  <2> QED  BY <1>2, <2>2, <2>3
<1> QED  BY <1>2

\* Each of t places is on one of the Pages(t) pages.
LEMMA SomePage ==
  ASSUME NEW t \in Nat, NEW k \in Nat, k < t
  PROVE  \E n \in 1..Pages(t) : (n - 1) * PageSize <= k /\ k < n * PageSize
<1>1. PageSize \in Nat /\ PageSize > 0
  BY BotStoreAssumption
<1> DEFINE n == (k \div PageSize) + 1
<1>2. (k \div PageSize) \in Nat /\ (k \div PageSize) * PageSize <= k
      /\ k < (k \div PageSize) * PageSize + PageSize
  BY <1>1, SMT
<1>3. n \in Nat /\ n >= 1 /\ (n - 1) * PageSize <= k /\ k < n * PageSize
  BY <1>1, <1>2, SMT
<1>4. (n - 1) * PageSize < t
  BY <1>1, <1>2
<1>5. n <= Pages(t)
  BY <1>2, <1>4, NextPageExists
<1>6. Pages(t) \in Int
  BY <1>1 DEF Pages
<1> HIDE DEF n
<1> QED  BY <1>3, <1>5, <1>6

-----------------------------------------------------------------------------
(* Parts of a whole *)

\* How many of the found rows come before one of them.
LEMMA AheadIsLess ==
  ASSUME NEW d \in Tables, NEW corpus \in SUBSET Posts, NEW found, found \subseteq DOMAIN d.posts,
         IsFiniteSet(found), NEW i \in found
  PROVE  LET k == Cardinality(Ahead(d, corpus, found, i)) IN
           k \in Nat /\ k < Cardinality(found)
<1> DEFINE A == Ahead(d, corpus, found, i)
<1>1. A \subseteq found
  BY DEF Ahead
<1>2. i \notin A
  <2>1. /\ d.posts[i] \in Posts /\ Rank[corpus][d.posts[i]] \in Nat /\ i \in Nat
    <3>1. d.posts \in Seq(Posts) /\ i \in DOMAIN d.posts
      BY DEF Tables
    <3>2. Rank[corpus] \in [Posts -> Nat]
      BY BotStoreAssumption
    <3> QED  BY <3>1, <3>2
  <2> QED  BY <2>1 DEF Ahead, BeforeIn
<1> HIDE DEF A
<1>3. IsFiniteSet(A) /\ Cardinality(A) <= Cardinality(found)
      /\ (Cardinality(A) = Cardinality(found) => A = found)
  BY <1>1, FS_Subset
<1>4. Cardinality(A) \in Nat /\ Cardinality(found) \in Nat
  BY <1>3, FS_CardinalityType
<1>5. Cardinality(A) # Cardinality(found)
  BY <1>2, <1>3
<1> QED  BY <1>3, <1>4, <1>5 DEF A

\* Where there are pages, the last one is their number.
LEMMA MaxWithOne ==
  ASSUME NEW n \in Int
  PROVE  /\ Max({1, n}) \in Int /\ Max({1, n}) >= 1
         /\ n >= 1 => Max({1, n}) = n
<1> DEFINE S == {1, n}
<1>0. IsFiniteSet(S)
  BY PairIsFinite
<1>1. IsFiniteSet(S) /\ S \in SUBSET Int /\ S # {} /\ 1 \in S /\ n \in S
  BY <1>0
<1> HIDE DEF S
<1>2. Max(S) \in S /\ \A y \in S : Max(S) >= y
  BY <1>1, MaxIsMember
<1>3. Max(S) \in Int /\ Max(S) >= 1 /\ Max(S) >= n
  BY <1>1, <1>2
<1> QED  BY <1>2, <1>3 DEF S

\* Pages that are cut from the same rows have nothing in common, and all of
\* them are all that was found.
LEMMA PagesAreParts ==
  ASSUME NEW d \in Tables, DistinctPosts(d),
         NEW R \in SUBSET ResultPage, NEW s \in R,
         \A v \in R : SameSearch(v, s) /\ v.corpus = s.corpus /\ CutFrom(v, d)
  PROVE  /\ \A v \in R : v.page # s.page => v.items \cap s.items = {}
         /\ Cardinality({v.page : v \in R}) = Pages(s.total)
              => Cardinality(UNION {v.items : v \in R}) = s.total
<1> DEFINE found == Found(d, s.raw, s.snapshot)
           count(i) == Cardinality(Ahead(d, s.corpus, found, i))
           part(n) == {i \in found : (n - 1) * PageSize <= count(i) /\ count(i) < n * PageSize}
           pages == {v.page : v \in R}
           last == Max({1, Pages(s.total)})
<1>0. IsFiniteSet(found) /\ found \subseteq DOMAIN d.posts
  BY FoundIsFinite
<1>1. /\ s.corpus \in SUBSET Posts
      /\ \A v \in R : v.page \in Nat \ {0}
  BY DEF ResultPage
<1>2. \A i \in found : count(i) \in Nat /\ count(i) < Cardinality(found)
  <2> HIDE DEF found
  <2> QED  BY <1>0, <1>1, AheadIsLess
<1>3. s.total = Cardinality(found) /\ s.total \in Nat
  BY <1>0, FS_CardinalityType DEF CutFrom
<1>4. \A v \in R : /\ v.items = {d.posts[i] : i \in part(v.page)}
                   /\ v.page <= last
  <2> SUFFICES ASSUME NEW v \in R
               PROVE  v.items = {d.posts[i] : i \in part(v.page)} /\ v.page <= last
    OBVIOUS
  <2>1. /\ v.raw = s.raw /\ v.snapshot = s.snapshot /\ v.corpus = s.corpus
        /\ CutFrom(v, d)
    BY DEF SameSearch
  <2>2. v.total = s.total
    BY <1>3, <2>1 DEF CutFrom
  <2> QED  BY <2>1, <2>2 DEF CutFrom, PageIn
<1>5. \A n : part(n) \subseteq found
  OBVIOUS
<1>6. \A i, j \in found : d.posts[i] = d.posts[j] => i = j
  BY <1>0 DEF DistinctPosts
<1>7. ASSUME NEW v \in R, v.page # s.page PROVE v.items \cap s.items = {}
  <2> SUFFICES ASSUME NEW i \in part(v.page), NEW j \in part(s.page),
                      d.posts[i] = d.posts[j]
               PROVE  FALSE
    BY <1>4
  <2>1. i = j
    BY <1>5, <1>6
  <2>2. count(i) \in Nat
    BY <1>2
  <2> HIDE DEF count
  <2> QED  BY <1>1, <1>7, <2>1, <2>2, OnePage
<1>8. ASSUME Cardinality(pages) = Pages(s.total)
      PROVE  Cardinality(UNION {v.items : v \in R}) = s.total
  <2>1. Pages(s.total) \in Int /\ last \in Int /\ last >= 1
        /\ (Pages(s.total) >= 1 => last = Pages(s.total))
    <3>1. Pages(s.total) \in Int
      BY <1>3, BotStoreAssumption DEF Pages
    <3> QED  BY <3>1, MaxWithOne
  <2>2. pages \subseteq 1..last
    <3> HIDE DEF last
    <3> QED  BY <1>1, <1>4, <2>1
  <2>3. IsFiniteSet(1..last) /\ Cardinality(1..last) = last
    <3>1. \A n \in Nat : n >= 1 => IsFiniteSet(1..n) /\ Cardinality(1..n) = n
      BY FS_Interval
    <3> HIDE DEF last
    <3> QED  BY <2>1, <3>1
  <2>4. IsFiniteSet(pages) /\ pages # {}
    <3>1. s.page \in pages
      OBVIOUS
    <3> HIDE DEF pages, last
    <3> QED  BY <2>2, <2>3, <3>1, FS_Subset
  <2>5. Pages(s.total) >= 1
    <3> HIDE DEF pages
    <3>1. Cardinality(pages) \in Nat /\ Cardinality(pages) # 0
      BY <2>4, FS_CardinalityType, FS_EmptySet
    <3> QED  BY <1>8, <3>1
  <2>6. pages = 1..Pages(s.total)
    <3> HIDE DEF pages, last
    <3> QED  BY <1>8, <2>1, <2>2, <2>3, <2>5, FS_Subset
  <2>7. \A i \in found : \E v \in R : i \in part(v.page)
    <3> SUFFICES ASSUME NEW i \in found PROVE \E v \in R : i \in part(v.page)
      OBVIOUS
    <3>1. count(i) \in Nat /\ count(i) < s.total
      BY <1>2, <1>3
    <3> HIDE DEF count
    <3>2. PICK n \in 1..Pages(s.total) : (n - 1) * PageSize <= count(i) /\ count(i) < n * PageSize
      BY <1>3, <3>1, SomePage
    <3>3. PICK v \in R : v.page = n
      BY <2>6, <3>2
    <3> QED  BY <3>2, <3>3
  <2> DEFINE all == {d.posts[i] : i \in found}
             at == [i \in found |-> d.posts[i]]
  <2>8. UNION {v.items : v \in R} = all
    <3> HIDE DEF part
    <3> QED  BY <1>4, <1>5, <2>7
  <2>9. at \in Bijection(found, all)
    BY <1>6 DEF Bijection, Injection, Surjection, IsInjective
  <2>10. Cardinality(all) = Cardinality(found)
    <3> HIDE DEF at, all, found
    <3> QED  BY <1>0, <2>9, FS_Bijection DEF ExistsBijection
  <2> QED  BY <1>3, <2>8, <2>10
<1> QED  BY <1>7, <1>8

-----------------------------------------------------------------------------
(* Reading a search *)

Cutting(q) == q.pc \in {"count", "rows"}

Cutters == {req[r] : r \in {q \in Requests : Cutting(req[q])}}

Sessions == db.sessions \cup disk.sessions

\* What is read of a search is of that search, and no new text has its name.
KnownInv ==
  /\ \A v \in Cutters \cup shown :
       /\ v.text \in sent
       /\ \A r \in Requests : Newcomer(req[r]) => req[r].text # v.text
  /\ \A v \in Cutters \cup shown, w \in Cutters \cup shown \cup Sessions :
       v.text = w.text => SameSearch(v, w)

\* Handlers count what is in the tables.
CuttersInv ==
  \A q \in Cutters : /\ q.snapshot <= Len(db.posts)
                     /\ q.pc = "rows" => Counts(q)

\* A page of it can still be shown.
Live(t) == \/ \E s \in Sessions : s.text = t
           \/ \E q \in Cutters : q.text = t

\* The pages of a search are cut from the same rows, and while it lives from
\* the rows there are.
CutsInv ==
  /\ \A v \in shown : Live(v.text) => CutFrom(v, db)
  /\ \A t \in Texts : \E d \in Tables :
       DistinctPosts(d) /\ \A v \in shown : v.text = t => CutFrom(v, d)

RowsDistinct == DistinctPosts(db) /\ DistinctPosts(disk)

ReadInv == RowsDistinct /\ KnownInv /\ CuttersInv /\ CutsInv

\* What a handler reads is its session's, which it or another handler looked up.
LEMMA HandlersRead ==
  ASSUME ScreensTyped, NEW r \in Requests, Handle(r)
  PROVE  /\ Cutting(req'[r]) => \/ Cutting(req[r]) /\ SameSearch(req'[r], req[r])
                                \/ \E s \in db.sessions : SameSearch(req'[r], s)
         /\ req'[r].pc = "rows" => Count(r)
<1>1. req \in [Requests -> Request]
  BY DEF ScreensTyped, RequestsTyped
<1>2. CASE Finish(r)
  BY <1>1, <1>2 DEF Finish, NoRequest, Cutting
<1>3. ASSUME NEW pc, Goto(r, pc), pc \notin {"count", "rows"}
      PROVE  req'[r].pc \notin {"count", "rows"}
  BY <1>1, <1>3 DEF Goto, Request
<1>4. CASE EnsureUser(r)
  <2>1. req[r].kind \in {"search", "page", "keyword", "open", "delete"}
    BY <1>1 DEF Request
  <2> QED  BY <1>2, <1>3, <1>4, <2>1 DEF EnsureUser, Cutting
<1>5. CASE ReadMax(r) \/ CreateSession(r)
  <2>1. req'[r].pc \in {"prune", "keep"}
    BY <1>1, <1>5 DEF ReadMax, CreateSession, Request
  <2> QED  BY <2>1 DEF Cutting
<1>6. CASE Lookup(r)
  <2>1. ASSUME NEW s \in RowOf(db.sessions, req[r].id, req[r].user),
               req' = [req EXCEPT ![r].pc = "count", ![r].text = s.text,
                                  ![r].raw = s.raw, ![r].snapshot = s.snapshot]
        PROVE  /\ req'[r].pc = "count" /\ SameSearch(req'[r], s)
               /\ s \in db.sessions
    BY <1>1, <2>1 DEF Request, SameSearch, RowOf
  <2> QED  BY <1>3, <1>6, <2>1 DEF Lookup, Cutting
<1>7. CASE Count(r)
  <2>1. /\ req[r].pc = "count" /\ SameSearch(req'[r], req[r])
    BY <1>1, <1>7 DEF Count, Request, SameSearch
  <2> QED  BY <1>7, <2>1 DEF Cutting
<1>8. CASE Prune(r) \/ CommitSession(r) \/ ShowFails(r) \/ Deny(r) \/ Answer(r) \/ KeywordStep(r)
           \/ ClearState(r)
  BY <1>2, <1>3, <1>8 DEF Prune, CommitSession, ShowFails, Deny, Answer, ShowRows, KeywordStep,
     SaveKeyword, CommitKeyword, ShowDetails, FindKeyword, RemoveKeyword, CommitRemoval,
     ClearState, Cutting
<1> QED  BY <1>4, <1>5, <1>6, <1>7, <1>8 DEF Handle, SearchStep

\* What is read after a step follows what was there before.
LEMMA ReadingsFollow ==
  ASSUME ScreensTyped, [Next]_vars
  PROVE  \A r \in Requests : Cutting(req'[r]) =>
           /\ \/ req'[r] = req[r]
              \/ /\ \/ Cutting(req[r]) /\ SameSearch(req'[r], req[r])
                    \/ \E s \in db.sessions : SameSearch(req'[r], s)
                 /\ req'[r].pc = "rows" => Count(r)
<1> SUFFICES ASSUME NEW q \in Requests, Cutting(req'[q])
             PROVE  \/ req'[q] = req[q]
                    \/ /\ \/ Cutting(req[q]) /\ SameSearch(req'[q], req[q])
                          \/ \E s \in db.sessions : SameSearch(req'[q], s)
                       /\ req'[q].pc = "rows" => Count(q)
  OBVIOUS
<1>0. req \in [Requests -> Request]
  BY DEF ScreensTyped, RequestsTyped
<1>1. ASSUME NEW r \in Requests, Handle(r)
      PROVE  \/ req'[q] = req[q]
             \/ /\ \/ Cutting(req[q]) /\ SameSearch(req'[q], req[q])
                   \/ \E s \in db.sessions : SameSearch(req'[q], s)
                /\ req'[q].pc = "rows" => Count(q)
  BY <1>1, HandlersRead, OthersStay
<1>2. ASSUME NEW r \in Requests, Update(r) PROVE req'[q] = req[q]
  <2>1. q # r
    <3>1. ASSUME NEW kind, NEW prompted, NEW u, NEW t, NEW raw, NEW id, NEW page,
                 Begin(r, kind, prompted, u, t, raw, id, page)
          PROVE  req'[r].pc = "user"
      BY <1>0, <3>1 DEF Begin, NoRequest
    <3>2. req'[r].pc = "user"
      BY <1>2, <3>1 DEF Update, PressPage, SendText, PressOpen, PressDelete
    <3> QED  BY <3>2 DEF Cutting
  <2> QED  BY <1>2, <2>1, OthersStay
<1>3. CASE Die \/ Restart
  BY <1>3 DEF Die, Restart, NoRequest, Cutting
<1>4. \/ \E r \in Requests : Handle(r) \/ Update(r)
      \/ Die \/ Restart \/ req' = req
  BY DEF Next, Startup, ResolveTitles, DeleteStale, Upsert, CommitSources, InsertPost,
         CommitPost, WeekPasses, Press, PressBack, ShowPrompt, vars, searchVars
<1> QED  BY <1>1, <1>2, <1>3, <1>4

\* A page that is shown is cut from the rows there are.
LEMMA ShownFollows ==
  ASSUME ScreensTyped, CuttersInv, [Next]_vars, NEW v \in shown' \ shown
  PROVE  /\ \E q \in Cutters :
              /\ q.pc = "rows" /\ SameSearch(v, q)
              /\ v.early <=> q.text # q.named /\ \A s \in disk.sessions : s.text # q.text
         /\ CutFrom(v, db)
         /\ UNCHANGED <<db, disk>>
<1>1. PICK r \in Requests : ShowRows(r)
  BY ZenonT(60)
     DEF Next, vars, searchVars, Update, Handle, Press, PressPage, SendText, PressOpen,
         PressDelete, EnsureUser, SearchStep, ReadMax, Prune, CreateSession, CommitSession,
         Lookup, Count, ShowFails, Deny, Answer, KeywordStep, SaveKeyword, CommitKeyword,
         ShowDetails, FindKeyword, RemoveKeyword, CommitRemoval, ClearState, PressBack,
         ShowPrompt, InsertPost, CommitPost, WeekPasses, Startup, ResolveTitles,
         DeleteStale, Upsert, CommitSources, Die, Restart
<1> DEFINE q == req[r]
<1>2. q.pc = "rows" /\ UNCHANGED <<db, disk>>
  BY <1>1 DEF ShowRows
<1>3. q \in Cutters
  BY <1>2 DEF Cutters, Cutting
<1>4. /\ v.text = q.text /\ v.raw = q.raw /\ v.snapshot = q.snapshot /\ v.page = q.page
      /\ v.total = q.total /\ v.corpus = ToSet(db.posts)
      /\ v.early <=> q.text # q.named /\ \A s \in disk.sessions : s.text # q.text
      /\ v.items = {db.posts[i] : i \in Page(Found(db, q.raw, q.snapshot), q.page)}
  <2> DEFINE page == [user |-> q.user, text |-> q.text, raw |-> q.raw, id |-> q.id,
                      page |-> q.page, snapshot |-> q.snapshot, total |-> q.total,
                      corpus |-> ToSet(db.posts),
                      early |-> /\ q.text # q.named
                                /\ \A s \in disk.sessions : s.text # q.text,
                      items |-> {db.posts[i] : i \in Page(Found(db, q.raw, q.snapshot),
                                                          q.page)}]
  <2>1. shown' = shown \cup {page}
    BY <1>1 DEF ShowRows
  <2>2. v = page
    BY <2>1
  <2> HIDE DEF q
  <2> QED  BY <2>2
<1> HIDE DEF q
<1>5. q.snapshot <= Len(db.posts) /\ Counts(q)
  BY <1>2, <1>3 DEF CuttersInv
<1>6. SameSearch(v, q)
  BY <1>4 DEF SameSearch
<1>7. CutFrom(v, db)
  <2> DEFINE found == Found(db, q.raw, q.snapshot)
  <2>1. q.total = Cardinality(found) /\ q.page <= Max({1, Pages(Cardinality(found))})
    BY <1>5 DEF Counts, LastPage
  <2>2. Page(found, q.page) = PageIn(db, ToSet(db.posts), found, q.page)
    BY DEF Page, PageIn, Ahead, Before, BeforeIn
  <2> HIDE DEF found
  <2> QED  BY <1>4, <1>5, <2>1, <2>2 DEF CutFrom, found
<1>8. /\ q.pc = "rows" /\ SameSearch(v, q)
      /\ v.early <=> q.text # q.named /\ \A s \in disk.sessions : s.text # q.text
  BY <1>2, <1>4, <1>6
<1> QED  BY <1>2, <1>3, <1>7, <1>8, Zenon

\* A session that was not there is that of a new text.
LEMMA SessionsFollow ==
  ASSUME ScreensTyped, RowsInv, [Next]_vars
  PROVE  \A s \in Sessions' :
           \/ \E w \in Sessions : SameSearch(s, w)
           \/ \E r \in Requests : /\ CreateSession(r) /\ Newcomer(req[r])
                                 /\ s.text = req[r].text /\ s.raw = req[r].raw
<1>0. db \in Tables
  BY DEF ScreensTyped, StoreTyped
<1>1. CASE Tame
  <2>1. ASSUME NEW s \in Sessions' PROVE \E w \in Sessions : SameSearch(s, w)
    BY <1>1 DEF Tame, TableStep, From, Commit, LoseUncommitted, Sessions, SameSearch
  <2> QED  BY <2>1
<1>2. CASE db'.sessions = db.sessions /\ disk' = disk
  BY <1>2 DEF Sessions, SameSearch
<1>3. ASSUME NEW r \in Requests, CreateSession(r)
      PROVE  \A s \in Sessions' :
               \/ \E w \in Sessions : SameSearch(s, w)
               \/ Newcomer(req[r]) /\ s.text = req[r].text /\ s.raw = req[r].raw
  <2> DEFINE new == [id |-> NextId(db.sessions), text |-> req[r].text, raw |-> req[r].raw,
                     snapshot |-> req[r].snapshot, old |-> FALSE]
  <2>1. db'.sessions = db.sessions \cup {new} /\ disk' = disk
    BY <1>0, <1>3 DEF CreateSession, Tables
  <2>2. new.text = req[r].text /\ new.raw = req[r].raw /\ Newcomer(req[r])
    BY <1>3 DEF CreateSession, Newcomer
  <2> HIDE DEF new
  <2> QED  BY <2>1, <2>2 DEF Sessions, SameSearch
<1>4. ASSUME NEW r \in Requests, SaveKeyword(r)
      PROVE  db'.sessions = db.sessions /\ disk' = disk
  BY <1>0, <1>4 DEF SaveKeyword, Tables
<1>5. ASSUME NEW r \in Requests, NEW t \in Texts, SendText(r, t)
      PROVE  db'.sessions = db.sessions /\ disk' = disk
  BY <1>5 DEF SendText
<1>6. Tame \/ (db'.sessions = db.sessions /\ disk' = disk) \/ \E r \in Requests : CreateSession(r)
  BY <1>4, <1>5, NextKinds, HandleTame, PressTame, RuntimeTame
<1> QED  BY <1>1, <1>2, <1>3, <1>6

\* A new text has a name that nothing had.
LEMMA NewcomersFollow ==
  ASSUME ScreensTyped, RowsInv, [Next]_vars
  PROVE  /\ sent \subseteq sent'
         /\ \A r \in Requests : Newcomer(req'[r]) =>
              \/ Newcomer(req[r]) /\ req'[r].text = req[r].text
              \/ req'[r].text \notin sent
<1>0. req \in [Requests -> Request]
  BY DEF ScreensTyped, RequestsTyped
<1>1. CASE Tame
  BY <1>1 DEF Tame, RequestStep
<1>2. ASSUME NEW r \in Requests, Handle(r), SaveKeyword(r) \/ CreateSession(r)
      PROVE  /\ sent \subseteq sent'
             /\ \A q \in Requests : Newcomer(req'[q]) =>
                  Newcomer(req[q]) /\ req'[q].text = req[q].text
  <2>1. sent' = sent
    BY <1>2 DEF Handle, dialogueVars, Answer, KeywordStep, SaveKeyword, CommitKeyword,
                ShowDetails, FindKeyword, RemoveKeyword, CommitRemoval, ClearState
  <2>2. ~Newcomer(req'[r])
    <3>1. req'[r].pc \in {"commit_save", "keep"}
      BY <1>0, <1>2 DEF SaveKeyword, CreateSession, Goto, Request
    <3> QED  BY <3>1 DEF Newcomer
  <2>3. \A q \in Requests : q # r => req'[q] = req[q]
    BY <1>2, OthersStay
  <2> QED  BY <2>1, <2>2, <2>3 DEF Newcomer
<1>3. ASSUME NEW r \in Requests, NEW t \in Texts, SendText(r, t)
      PROVE  /\ sent \subseteq sent'
             /\ \A q \in Requests : \/ req'[q] = req[q]
                                    \/ req'[q].text \notin sent
  <2>1. t \notin sent /\ sent' = sent \cup {t}
    BY <1>3 DEF SendText
  <2>2. ASSUME NEW kind, NEW prompted, NEW u, NEW raw, NEW id, NEW page,
               Begin(r, kind, prompted, u, t, raw, id, page)
        PROVE  /\ req'[r].text = t
               /\ \A q \in Requests : q # r => req'[q] = req[q]
    BY <1>0, <2>2 DEF Begin, NoRequest
  <2> QED  BY <1>3, <2>1, <2>2 DEF SendText
<1>4. \/ Tame
      \/ \E r \in Requests : Handle(r) /\ (SaveKeyword(r) \/ CreateSession(r))
      \/ \E r \in Requests, t \in Texts : SendText(r, t)
  BY NextKinds, HandleTame, PressTame, RuntimeTame
<1> QED  BY <1>1, <1>2, <1>3, <1>4 DEF Newcomer

\* Where a reading, or what a step makes of it, comes from.
LEMMA AllFollows ==
  ASSUME ScreensTyped, CuttersInv, [Next]_vars
  PROVE  /\ \A v \in Cutters' : \E w \in Cutters \cup db.sessions : SameSearch(v, w)
         /\ \A v \in shown' : v \in shown \/ \E w \in Cutters : SameSearch(v, w)
<1>1. ASSUME NEW v \in Cutters' PROVE \E w \in Cutters \cup db.sessions : SameSearch(v, w)
  <2>1. PICK r \in Requests : v = req'[r] /\ Cutting(req'[r])
    BY DEF Cutters
  <2>2. \/ req'[r] = req[r]
        \/ Cutting(req[r]) /\ SameSearch(req'[r], req[r])
        \/ \E s \in db.sessions : SameSearch(req'[r], s)
    BY <2>1, ReadingsFollow
  <2> QED  BY <2>1, <2>2 DEF Cutters, SameSearch
<1> QED  BY <1>1, ShownFollows

\* Readings of one name stay those of one search.
LEMMA KnownStays ==
  ASSUME ScreensTyped, RowsInv, KnownInv, CuttersInv, [Next]_vars
  PROVE  KnownInv'
<1> DEFINE readings == Cutters \cup shown
           all == readings \cup Sessions
<1>1. \A v \in readings' : \E w \in all : SameSearch(v, w)
  BY AllFollows DEF Sessions, SameSearch
<1>2. \A w \in all : /\ w.text \in sent
                     /\ \A r \in Requests : Newcomer(req[r]) => req[r].text # w.text
  BY DEF KnownInv, RowsInv, NewcomersInv, Sessions
<1>3. \A v, w \in all : v.text = w.text => SameSearch(v, w)
  BY DEF KnownInv, RowsInv, SnapshotsInv, Sessions, SameSearch
<1> HIDE DEF readings, all
<1>4. ASSUME NEW v \in readings'
      PROVE  /\ v.text \in sent'
             /\ \A r \in Requests : Newcomer(req'[r]) => req'[r].text # v.text
  <2>1. PICK w \in all : SameSearch(v, w)
    BY <1>1
  <2> QED  BY <1>2, <2>1, NewcomersFollow DEF SameSearch
<1>5. ASSUME NEW v \in readings', NEW w \in readings' \cup Sessions', v.text = w.text
      PROVE  SameSearch(v, w)
  <2>1. PICK x \in all : SameSearch(v, x)
    BY <1>1
  <2>2. PICK y \in all : SameSearch(w, y)
    <3>1. CASE w \in readings'
      BY <1>1, <3>1
    <3>2. CASE w \in Sessions'
      <4>1. \A r \in Requests : Newcomer(req[r]) => req[r].text # w.text
        BY <1>2, <1>5, <2>1 DEF SameSearch
      <4>2. PICK y \in Sessions : SameSearch(w, y)
        BY <3>2, <4>1, SessionsFollow
      <4> QED  BY <4>2 DEF all
    <3> QED  BY <3>1, <3>2
  <2> QED  BY <1>3, <1>5, <2>1, <2>2 DEF SameSearch
<1> QED  BY <1>4, <1>5 DEF KnownInv, readings

\* What handlers have counted stays true while they run.
LEMMA CuttersStay ==
  ASSUME ScreensTyped, ScreensTyped', RowsInv, CuttersInv, [Next]_vars
  PROVE  CuttersInv'
<1>0. db \in Tables /\ db' \in Tables /\ req \in [Requests -> Request]
  BY DEF ScreensTyped, StoreTyped, RequestsTyped
<1> SUFFICES ASSUME NEW q \in Cutters'
             PROVE  /\ q.snapshot <= Len(db'.posts)
                    /\ q.pc = "rows" => Counts(q)'
  BY DEF CuttersInv
<1>1. PICK r \in Requests : q = req'[r] /\ Cutting(q)
  BY DEF Cutters
<1>2. /\ StoreStep
      /\ \/ q = req[r]
         \/ /\ \/ Cutting(req[r]) /\ SameSearch(q, req[r])
               \/ \E s \in db.sessions : SameSearch(q, s)
            /\ q.pc = "rows" => Count(r)
  BY <1>1, StepStores, ReadingsFollow
<1>3. Keeps
  BY <1>1, <1>2 DEF StoreStep, Loses, Cutting
<1>4. q.snapshot <= Len(db.posts) /\ q.snapshot \in Nat
  <2>1. Cutting(req[r]) => req[r].snapshot <= Len(db.posts)
    BY DEF CuttersInv, Cutters
  <2>2. \A s \in db.sessions : s.snapshot <= Len(db.posts)
    BY DEF RowsInv, SnapshotsInv
  <2>3. q.snapshot \in Nat
    BY <1>1 DEF ScreensTyped, RequestsTyped, Request
  <2> QED  BY <1>1, <1>2, <2>1, <2>2, <2>3 DEF SameSearch
<1>5. Found(db', q.raw, q.snapshot) = Found(db, q.raw, q.snapshot)
  BY <1>3, <1>4, CountsStay
<1>6. Len(db.posts) <= Len(db'.posts)
  <2>1. CASE Grows
    BY <2>1 DEF Grows, Longer
  <2>2. CASE Commit
    BY <1>0, <2>2 DEF Commit, Tables
  <2>3. CASE Ages
    BY <1>0, <2>3, AgedSessions DEF Ages, Tables
  <2> QED  BY <1>3, <2>1, <2>2, <2>3 DEF Keeps
<1>7. ASSUME Counts(q) PROVE Counts(q)'
  BY <1>5, <1>7 DEF Counts, LastPage
<1>8. ASSUME q.pc = "rows" PROVE Counts(q)
  <2>1. CASE q = req[r]
    BY <1>1, <1>8, <2>1 DEF CuttersInv, Cutters
  <2>2. CASE Count(r)
    <3> DEFINE total == Cardinality(Found(db, req[r].raw, req[r].snapshot))
               last == Max({1, Pages(total)})
    <3>1. /\ q.raw = req[r].raw /\ q.snapshot = req[r].snapshot
          /\ q.total = total /\ q.page = Min({req[r].page, last})
      BY <1>0, <1>1, <2>2 DEF Count, Request
    <3>2. last = LastPage(req[r].raw, req[r].snapshot) /\ last \in Nat
      BY <1>0, LastPageIsMax DEF LastPage
    <3>3. req[r].page \in Nat
      BY <1>0 DEF Request
    <3>4. q.page <= last
      <4> HIDE DEF last
      <4>1. req[r].page \in Int /\ last \in Int
        BY <3>2, <3>3
      <4>2. Min({req[r].page, last}) <= last
        BY <4>1, MinOfPair
      <4> QED  BY <3>1, <4>2
    <3> HIDE DEF last
    <3> QED  BY <3>1, <3>2, <3>4 DEF Counts
  <2> QED  BY <1>2, <1>8, <2>1, <2>2
<1> QED
  <2>1. Len(db.posts) \in Nat /\ Len(db'.posts) \in Nat
    BY <1>0 DEF Tables
  <2> QED  BY <1>4, <1>6, <1>7, <1>8, <2>1

-----------------------------------------------------------------------------
(* No post is stored twice *)

\* The UNIQUE of messages: no post gets a second row.
LEMMA DistinctStays ==
  ASSUME ScreensTyped, RowsDistinct, [Next]_vars
  PROVE  RowsDistinct'
<1>0. /\ db \in Tables /\ disk \in Tables /\ req \in [Requests -> Request]
  BY DEF ScreensTyped, StoreTyped, RequestsTyped
<1>1. CASE disk' = disk /\ db'.posts = db.posts
  BY <1>1 DEF RowsDistinct, DistinctPosts
<1>2. CASE Commit \/ LoseUncommitted
  BY <1>2 DEF Commit, LoseUncommitted, RowsDistinct, DistinctPosts
<1>3. ASSUME NEW p \in Posts, InsertPost(p) PROVE RowsDistinct'
  <2>1. db' = [db EXCEPT !.posts = Append(@, p)] /\ disk' = disk /\ db.posts \in Seq(Posts)
        /\ p \notin ToSet(db.posts)
    BY <1>0, <1>3 DEF InsertPost, Tables
  <2>2. db'.posts = Append(db.posts, p)
    BY <1>0, <2>1 DEF Tables
  <2>3. \A i \in DOMAIN db.posts : db.posts[i] # p
    BY <2>1 DEF ToSet
  <2>4. \A i, j \in DOMAIN db.posts : db.posts[i] = db.posts[j] => i = j
    BY DEF RowsDistinct, DistinctPosts
  <2>5. /\ DOMAIN db'.posts = 1..(Len(db.posts) + 1) /\ DOMAIN db.posts = 1..Len(db.posts)
        /\ db'.posts[Len(db.posts) + 1] = p /\ Len(db.posts) \in Nat
        /\ \A i \in DOMAIN db.posts : db'.posts[i] = db.posts[i]
    BY <2>1, <2>2
  <2>6. DistinctPosts(db')
    BY <2>3, <2>4, <2>5 DEF DistinctPosts
  <2> QED  BY <2>1, <2>6 DEF RowsDistinct
<1>4. CASE WeekPasses
  <2>1. db'.posts = db.posts /\ disk'.posts = disk.posts
    BY <1>0, <1>4, AgedSessions DEF WeekPasses
  <2> QED  BY <2>1 DEF RowsDistinct, DistinctPosts
<1>5. CASE DeleteStale \/ Upsert
  <2>1. disk' = disk /\ db'.posts = db.posts
    <3>1. CASE DeleteStale
      <4>1. \/ db' = db
            \/ \E c \in db.sources :
                 db' = [db EXCEPT !.sources = @ \ {c}, !.titled = @ \ {c}]
        BY <3>1 DEF DeleteStale
      <4> QED  BY <1>0, <3>1, <4>1 DEF DeleteStale, Tables
    <3>2. CASE Upsert
      <4>1. PICK c \in todo :
              db' = [db EXCEPT !.sources = @ \cup {c}, !.titled = @ \cup ({c} \cap named)]
        BY <3>2 DEF Upsert
      <4> QED  BY <1>0, <3>2, <4>1, SMTT(30) DEF Upsert, Tables
    <3> QED  BY <1>5, <3>1, <3>2
  <2> QED  BY <1>1, <2>1
<1>6. ASSUME NEW r \in Requests, Handle(r)
      PROVE  Commit \/ (disk' = disk /\ db'.posts = db.posts)
  BY <1>0, <1>6 DEF Handle, EnsureUser, SearchStep, ReadMax, Prune, CreateSession, CommitSession,
     Lookup, Count, ShowFails, Deny, Answer, ShowRows, KeywordStep, SaveKeyword, CommitKeyword,
     ShowDetails, FindKeyword, RemoveKeyword, CommitRemoval, ClearState, Tables
<1>7. ASSUME NEW p \in Posts, CommitPost(p) PROVE Commit
  BY <1>7 DEF CommitPost
<1>8. \/ \E r \in Requests : Handle(r)
      \/ UNCHANGED <<db, disk>>
      \/ \E p \in Posts : InsertPost(p) \/ CommitPost(p)
      \/ WeekPasses \/ DeleteStale \/ Upsert \/ Commit \/ LoseUncommitted
  BY DEF Next, vars, Update, PressPage, SendText, PressOpen, PressDelete, Press, PressBack,
         ShowPrompt, Startup, ResolveTitles, CommitSources, Die, Restart
<1> QED  BY <1>1, <1>2, <1>3, <1>4, <1>5, <1>6, <1>7, <1>8

\* The pages of a search go on coming from the same rows.
LEMMA CutsStay ==
  ASSUME ScreensTyped, ScreensTyped', RowsInv, ReadInv, [Next]_vars
  PROVE  CutsInv'
<1>0. db \in Tables /\ disk \in Tables /\ db' \in Tables /\ Longer(db, disk)
      /\ shown \subseteq ResultPage /\ shown' \subseteq ResultPage
  BY DEF ScreensTyped, StoreTyped, TypeOK, RowsInv, SnapshotsInv
<1>1. CuttersInv /\ KnownInv /\ CutsInv /\ DistinctPosts(db)
  BY DEF ReadInv, RowsDistinct
<1>2. \A v \in shown : Live(v.text)' => Live(v.text)
  <2> SUFFICES ASSUME NEW v \in shown, Live(v.text)' PROVE Live(v.text)
    OBVIOUS
  <2>1. CASE \E s \in Sessions' : s.text = v.text
    <3>1. PICK s \in Sessions' : s.text = v.text
      BY <2>1
    <3>2. \A r \in Requests : Newcomer(req[r]) => req[r].text # v.text
      BY <1>1 DEF KnownInv
    <3>3. PICK w \in Sessions : SameSearch(s, w)
      BY <3>1, <3>2, SessionsFollow
    <3> QED  BY <3>1, <3>3 DEF Live, SameSearch
  <2>2. CASE \E q \in Cutters' : q.text = v.text
    <3>1. PICK w \in Cutters \cup db.sessions : w.text = v.text
      BY <1>1, <2>2, AllFollows DEF SameSearch
    <3> QED  BY <3>1 DEF Live, Sessions
  <2> QED  BY <2>1, <2>2 DEF Live
<1>3. ASSUME NEW v \in ResultPage, CutFrom(v, db), Live(v.text)',
             \A w \in Cutters \cup Sessions : w.text = v.text => SameSearch(v, w)
      PROVE  CutFrom(v, db')
  <2>1. v.snapshot <= Len(db.posts) /\ v.snapshot \in Nat
    BY <1>3 DEF CutFrom, ResultPage
  <2>2. CASE Grows
    BY <1>0, <1>3, <2>1, <2>2, CutStays DEF Grows
  <2>3. CASE Commit
    BY <1>3, <2>3 DEF Commit
  <2>4. CASE Ages
    <3>1. db'.posts = db.posts
      BY <1>0, <2>4, AgedSessions DEF Ages
    <3>2. Longer(db', db)
      BY <1>0, <3>1, SameIsLonger
    <3> QED  BY <1>0, <1>3, <2>1, <3>2, CutStays
  <2>5. CASE Loses
    <3>1. db' = disk /\ disk' = disk /\ Cutters' = {}
      BY <2>5 DEF Loses, LoseUncommitted, Cutters, Cutting
    <3>2. PICK s \in disk.sessions : s.text = v.text
      BY <1>3, <3>1 DEF Live, Sessions
    <3>3. v.snapshot = s.snapshot /\ s.snapshot <= Len(disk.posts)
      BY <1>3, <3>2 DEF Sessions, SameSearch, RowsInv, SnapshotsInv
    <3> QED  BY <1>0, <1>3, <3>1, <3>3, CutStays
  <2> QED  BY <2>2, <2>3, <2>4, <2>5, StepStores DEF StoreStep, Keeps
<1>4. ASSUME NEW v \in shown', Live(v.text)' PROVE CutFrom(v, db')
  <2>1. CASE v \in shown
    <3>1. CutFrom(v, db)
      BY <1>1, <1>2, <1>4, <2>1 DEF CutsInv
    <3>2. \A w \in Cutters \cup Sessions : w.text = v.text => SameSearch(v, w)
      BY <1>1, <2>1 DEF KnownInv
    <3> QED  BY <1>0, <1>3, <1>4, <2>1, <3>1, <3>2
  <2>2. CASE v \notin shown
    BY <1>1, <2>2, ShownFollows
  <2> QED  BY <2>1, <2>2
<1>5. ASSUME NEW t \in Texts
      PROVE  \E d \in Tables : DistinctPosts(d) /\ \A v \in shown' : v.text = t => CutFrom(v, d)
  <2>1. CASE \A v \in shown' : v.text = t => v \in shown
    BY <1>1, <2>1 DEF CutsInv
  <2>2. ASSUME NEW n \in shown' \ shown, n.text = t
        PROVE  \A v \in shown' : v.text = t => CutFrom(v, db)
    <3>1. PICK q \in Cutters : SameSearch(n, q)
      BY <1>1, ShownFollows
    <3>2. Live(t)
      BY <2>2, <3>1 DEF Live, SameSearch
    <3> QED  BY <1>1, <3>2, ShownFollows DEF CutsInv
  <2> QED  BY <1>0, <1>1, <2>1, <2>2
<1> QED  BY <1>4, <1>5 DEF CutsInv

\* Each step keeps what is known of the readings.
LEMMA NextReads == ScreensTyped /\ RowsInv /\ ReadInv /\ [Next]_vars => ReadInv'
BY NextTyped, DistinctStays, KnownStays, CuttersStay, CutsStay DEF ReadInv

\* Nothing is read at the start, and no post is stored twice.
LEMMA InitReads == Init => ReadInv
<1> SUFFICES ASSUME Init PROVE ReadInv
  OBVIOUS
<1>1. shown = {} /\ db \in Tables /\ disk = db
  BY InitTyped DEF Init, ScreensTyped, StoreTyped
<1>2. db.posts = Stored /\ disk.posts = Stored
  BY DEF Init
<1>3. RowsDistinct
  BY <1>2, BotStoreAssumption DEF RowsDistinct, DistinctPosts
<1>4. Cutters = {}
  BY DEF Init, Cutters, Cutting, NoRequest
<1> QED  BY <1>1, <1>3, <1>4 DEF ReadInv, KnownInv, CuttersInv, CutsInv, RowsDistinct

\* What is known of the readings holds in every reachable state.
LEMMA ReadsAlways == Spec => [](ScreensTyped /\ RowsInv /\ ReadInv)
<1>1. ScreensTyped /\ RowsInv /\ ReadInv /\ [Next]_vars => ScreensTyped' /\ RowsInv' /\ ReadInv'
  BY NextTyped, NextRows, NextReads
<1>2. Init => ScreensTyped /\ RowsInv /\ ReadInv
  BY InitTyped, InitRows, InitReads
<1> QED  BY <1>1, <1>2, PTL DEF Spec

\* Page after page of a search gives each post it found once, whatever
\* handlers, prunings and crashes lie between the pages, as long as bm25 orders
\* the same posts.
THEOREM PagesArePartitions == Spec => []PagesPartition
<1>1. ASSUME ScreensTyped, ReadInv, NEW s \in shown
      PROVE  LET read == {v \in shown : v.text = s.text /\ v.corpus = s.corpus} IN
               /\ \A v \in read : v.page # s.page => v.items \cap s.items = {}
               /\ Cardinality({v.page : v \in read}) = Pages(s.total)
                    => Cardinality(UNION {v.items : v \in read}) = s.total
  <2> DEFINE read == {v \in shown : v.text = s.text /\ v.corpus = s.corpus}
  <2>1. shown \subseteq ResultPage
    BY <1>1 DEF ScreensTyped, TypeOK
  <2>2. s.text \in Texts
    BY <1>1, <2>1 DEF ResultPage
  <2>3. PICK d \in Tables : DistinctPosts(d) /\ \A v \in shown : v.text = s.text => CutFrom(v, d)
    BY <1>1, <2>2 DEF ReadInv, CutsInv
  <2>4. \A v \in read : SameSearch(v, s) /\ v.corpus = s.corpus /\ CutFrom(v, d)
    BY <1>1, <2>3 DEF ReadInv, KnownInv
  <2>5. read \in SUBSET ResultPage /\ s \in read
    BY <1>1, <2>1
  <2> HIDE DEF read
  <2>6. /\ \A v \in read : v.page # s.page => v.items \cap s.items = {}
        /\ Cardinality({v.page : v \in read}) = Pages(s.total)
              => Cardinality(UNION {v.items : v \in read}) = s.total
    BY <2>3, <2>4, <2>5, PagesAreParts
  <2> QED  BY <2>6 DEF read
<1>2. ScreensTyped /\ ReadInv => PagesPartition
  BY <1>1 DEF PagesPartition
<1> QED  BY <1>2, ReadsAlways, PTL

-----------------------------------------------------------------------------
(* The query of a phrase, and the help texts *)

\* Induction up to n, over a set and not over an operator.
LEMMA Upwards ==
  ASSUME NEW n \in Nat, NEW P, 0 \in P, \A k \in 1..n : k - 1 \in P => k \in P
  PROVE  n \in P
<1> DEFINE S == {k \in 0..n : k \notin P}
<1>1. IsFiniteSet(0..n)
  BY FS_Interval
<1>2. S \subseteq 0..n /\ S \in SUBSET Int
  OBVIOUS
<1>3. IsFiniteSet(S)
  BY <1>1, <1>2, FS_Subset
<1>4. ASSUME S # {} PROVE FALSE
  <2> HIDE DEF S
  <2>1. PICK x \in S : \A y \in S : x <= y
    BY <1>2, <1>3, <1>4, Extremes
  <2> USE DEF S
  <2>2. x \in 1..n
    BY <2>1
  <2>3. x - 1 \notin S
    BY <2>1
  <2> QED  BY <2>1, <2>2, <2>3
<1>5. n \in 0..n
  OBVIOUS
<1> QED  BY <1>4, <1>5

\* A loop of n rounds over a variable of S that starts at a.
Looping(S, a, n, step) ==
  \E g \in [0..n -> S] : g[0] = a /\ \A k \in 1..n : g[k] = step[k][g[k - 1]]

\* What a loop leaves in its variable after each of its rounds.
LEMMA Rounds ==
  ASSUME NEW S, NEW a \in S, NEW n \in Nat, NEW step \in [1..n -> [S -> S]]
  PROVE  Looping(S, a, n, step)
<1> USE DEF Looping
<1> DEFINE Upto(g, m) == g \in [0..m -> S] /\ g[0] = a
                         /\ \A k \in 1..m : g[k] = step[k][g[k - 1]]
           P == {m \in 0..n : \E g : Upto(g, m)}
<1>0. \A m \in 0..n : (\E g : Upto(g, m)) => m \in P
  OBVIOUS
<1>1. 0 \in P
  <2> DEFINE one == [k \in 0..0 |-> a]
  <2>1. one \in [0..0 -> S] /\ one[0] = a /\ 1..0 = {} /\ 0 \in 0..n
    OBVIOUS
  <2> HIDE DEF one
  <2>2. Upto(one, 0)
    BY <2>1
  <2> HIDE DEF Upto
  <2> QED  BY <1>0, <2>1, <2>2
<1>2. ASSUME NEW m \in 1..n, m - 1 \in P PROVE m \in P
  <2>1. PICK g : Upto(g, m - 1)
    BY <1>2
  <2> DEFINE h == [k \in 0..m |-> IF k = m THEN step[m][g[m - 1]] ELSE g[k]]
  <2>2. m - 1 \in 0..(m - 1) /\ g[m - 1] \in S
    BY <2>1
  <2>3. h \in [0..m -> S]
    <3>1. step[m][g[m - 1]] \in S
      BY <2>2
    <3>2. \A k \in 0..m : k # m => k \in 0..(m - 1)
      OBVIOUS
    <3> QED  BY <2>1, <3>1, <3>2
  <2>4. h[0] = a
    BY <2>1
  <2>5. ASSUME NEW k \in 1..m PROVE h[k] = step[k][h[k - 1]]
    <3>1. CASE k = m
      BY <3>1
    <3>2. CASE k # m
      <4>1. k \in 1..(m - 1) /\ k \in 0..m /\ k - 1 \in 0..m /\ k - 1 # m
        BY <3>2
      <4> QED  BY <2>1, <3>2, <4>1
    <3> QED  BY <3>1, <3>2
  <2> HIDE DEF h
  <2>6. Upto(h, m)
    BY <2>3, <2>4, <2>5
  <2>7. m \in 0..n
    OBVIOUS
  <2> HIDE DEF Upto
  <2> QED  BY <1>0, <2>6, <2>7
<1> HIDE DEF P
<1>3. n \in P
  BY <1>1, <1>2, Upwards
<1> QED  BY <1>3 DEF P

\* One more member.
LEMMA AppendSet ==
  ASSUME NEW S, NEW s \in Seq(S), NEW x \in S
  PROVE  ToSet(Append(s, x)) = ToSet(s) \cup {x}
<1>1. /\ DOMAIN s = 1..Len(s) /\ Len(s) \in Nat
      /\ DOMAIN Append(s, x) = 1..(Len(s) + 1)
      /\ \A i \in 1..Len(s) : Append(s, x)[i] = s[i]
      /\ Append(s, x)[Len(s) + 1] = x
  OBVIOUS
<1>2. 1..(Len(s) + 1) = (1..Len(s)) \cup {Len(s) + 1}
  BY <1>1
<1> QED  BY <1>1, <1>2 DEF ToSet

\* The loop of parse_search_input.
Parses(raw, minus, g) ==
  g = [n \in 0..Len(raw) |->
        IF n = 0 THEN <<>>
        ELSE IF raw[n].minus = minus /\ raw[n].runs # <<>>
             THEN Append(g[n - 1], raw[n])
             ELSE g[n - 1]]

\* The loop has a result: Kept is the last value of some run of it.
LEMMA ParseEnds ==
  ASSUME NEW raw \in Seq(Token), NEW minus
  PROVE  \E g : Parses(raw, minus, g) /\ Kept(raw, minus) = g[Len(raw)]
<1> DEFINE f == CHOOSE g : Parses(raw, minus, g)
           keeps(i) == raw[i].minus = minus /\ raw[i].runs # <<>>
           step == [i \in 1..Len(raw) |->
                     [s \in Seq(Token) |-> IF keeps(i) THEN Append(s, raw[i]) ELSE s]]
<1>1. Kept(raw, minus) = f[Len(raw)]
  BY DEF Kept, Parses
<1>2. /\ step \in [1..Len(raw) -> [Seq(Token) -> Seq(Token)]]
      /\ <<>> \in Seq(Token) /\ Len(raw) \in Nat
  <2>1. \A i \in 1..Len(raw), s \in Seq(Token) : Append(s, raw[i]) \in Seq(Token)
    OBVIOUS
  <2> QED  BY <2>1
<1>3. PICK g \in [0..Len(raw) -> Seq(Token)] :
        g[0] = <<>> /\ \A k \in 1..Len(raw) : g[k] = step[k][g[k - 1]]
  <2> DEFINE S == Seq(Token)
             none == <<>>
             n == Len(raw)
  <2>1. step \in [1..n -> [S -> S]] /\ none \in S /\ n \in Nat
    BY <1>2
  <2> HIDE DEF f, keeps, step, S, none, n
  <2>2. Looping(S, none, n, step)
    BY <2>1, Rounds
  <2> QED  BY <2>2 DEF Looping, S, none, n
<1>4. \A k \in 1..Len(raw) : g[k] = IF keeps(k) THEN Append(g[k - 1], raw[k]) ELSE g[k - 1]
  <2> SUFFICES ASSUME NEW k \in 1..Len(raw)
               PROVE  g[k] = IF keeps(k) THEN Append(g[k - 1], raw[k]) ELSE g[k - 1]
    OBVIOUS
  <2>1. g[k - 1] \in Seq(Token)
    BY <1>2
  <2>2. g[k] = step[k][g[k - 1]]
    BY <1>3
  <2> HIDE DEF keeps
  <2> QED  BY <2>1, <2>2
<1>5. Parses(raw, minus, g)
  <2>1. \A k \in 0..Len(raw) :
          g[k] = IF k = 0 THEN <<>>
                 ELSE IF raw[k].minus = minus /\ raw[k].runs # <<>>
                      THEN Append(g[k - 1], raw[k])
                      ELSE g[k - 1]
    <3>1. \A k \in 0..Len(raw) : k = 0 \/ k \in 1..Len(raw)
      BY <1>2
    <3> QED  BY <1>3, <1>4, <3>1
  <2> QED  BY <2>1 DEF Parses
<1>6. Parses(raw, minus, f)
  BY <1>5
<1> QED  BY <1>1, <1>6

\* Kept are the tokens of the kind that hold a word, and no others.
LEMMA KeptTokens ==
  ASSUME NEW raw \in Seq(Token), NEW minus
  PROVE  /\ Kept(raw, minus) \in Seq(Token)
         /\ ToSet(Kept(raw, minus)) = {t \in ToSet(raw) : t.minus = minus /\ t.runs # <<>>}
<1>1. PICK g : Parses(raw, minus, g) /\ Kept(raw, minus) = g[Len(raw)]
  BY ParseEnds
<1> DEFINE keeps(i) == raw[i].minus = minus /\ raw[i].runs # <<>>
           upto(n) == {raw[i] : i \in {j \in 1..n : keeps(j)}}
           P == {n \in 0..Len(raw) : g[n] \in Seq(Token) /\ ToSet(g[n]) = upto(n)}
<1>2. /\ Len(raw) \in Nat /\ \A i \in 1..Len(raw) : raw[i] \in Token
      /\ \A n \in 1..Len(raw) : n \in 0..Len(raw) /\ n # 0
      /\ 0 \in 0..Len(raw)
  OBVIOUS
<1>3. 0 \in P
  <2>1. g[0] = <<>>
    BY <1>1, <1>2 DEF Parses
  <2>2. ToSet(<<>>) = {} /\ upto(0) = {}
    BY DEF ToSet
  <2>3. <<>> \in Seq(Token)
    OBVIOUS
  <2> HIDE DEF upto
  <2> QED  BY <1>2, <2>1, <2>2, <2>3
<1>4. ASSUME NEW n \in 1..Len(raw), n - 1 \in P PROVE n \in P
  <2>1. g[n - 1] \in Seq(Token) /\ ToSet(g[n - 1]) = upto(n - 1)
    BY <1>4
  <2>2. g[n] = IF keeps(n) THEN Append(g[n - 1], raw[n]) ELSE g[n - 1]
    BY <1>1, <1>2 DEF Parses
  <2>3. 1..n = (1..(n - 1)) \cup {n}
    BY <1>2
  <2>4. CASE keeps(n)
    <3>1. ToSet(Append(g[n - 1], raw[n])) = ToSet(g[n - 1]) \cup {raw[n]}
      BY <2>1, AppendSet
    <3>2. upto(n) = upto(n - 1) \cup {raw[n]}
      BY <2>3, <2>4
    <3>3. raw[n] \in Token
      BY <1>2
    <3>4. g[n] \in Seq(Token) /\ ToSet(g[n]) = upto(n)
      <4> HIDE DEF upto
      <4> QED  BY <2>1, <2>2, <2>4, <3>1, <3>2, <3>3
    <3> HIDE DEF upto
    <3> QED  BY <1>2, <3>4
  <2>5. CASE ~keeps(n)
    <3>1. upto(n) = upto(n - 1)
      BY <2>3, <2>5
    <3> HIDE DEF upto
    <3> QED  BY <1>2, <2>1, <2>2, <2>5, <3>1
  <2> QED  BY <2>4, <2>5
<1>5. Len(raw) \in P
  <2> HIDE DEF P
  <2> QED  BY <1>2, <1>3, <1>4, Upwards
<1>6. upto(Len(raw)) = {t \in ToSet(raw) : t.minus = minus /\ t.runs # <<>>}
  <2>1. ToSet(raw) = {raw[i] : i \in 1..Len(raw)}
    BY DEF ToSet
  <2> QED  BY <2>1
<1> QED  BY <1>1, <1>5, <1>6

-----------------------------------------------------------------------------
(* Words of a phrase *)

\* One more word at the end.
LEMMA OneMore ==
  ASSUME NEW S, NEW s \in Seq(S), NEW w \in Seq(S)
  PROVE  Len(w) = 1 =>
           /\ w[1] \in S
           /\ (s \o w) \in Seq(S) /\ Len(s \o w) = Len(s) + 1
           /\ \A j \in 1..Len(s) : (s \o w)[j] = s[j]
           /\ (s \o w)[Len(s) + 1] = w[1]
<1> DEFINE t == s \o w
<1>1. /\ t \in Seq(S) /\ Len(t) = Len(s) + Len(w)
      /\ \A i \in 1 .. Len(s) + Len(w) : t[i] = IF i <= Len(s) THEN s[i] ELSE w[i - Len(s)]
  BY ConcatProperties
<1> HIDE DEF t
<1> SUFFICES ASSUME Len(w) = 1
             PROVE  /\ w[1] \in S
                    /\ t \in Seq(S) /\ Len(t) = Len(s) + 1
                    /\ \A j \in 1..Len(s) : t[j] = s[j]
                    /\ t[Len(s) + 1] = w[1]
  BY DEF t
<1>2. w[1] \in S
  BY ElementOfSeq
<1>3. Len(s) \in Nat
  BY LenProperties
<1>4. \A j \in 1..Len(s) : j \in 1 .. Len(s) + 1 /\ j <= Len(s)
  BY <1>3
<1>5. Len(s) + 1 \in 1 .. Len(s) + 1 /\ ~(Len(s) + 1 <= Len(s)) /\ Len(s) + 1 - Len(s) = 1
  BY <1>3
<1> QED  BY <1>1, <1>2, <1>3, <1>4, <1>5

\* Sequences of one word each make the sequence of those words.
LEMMA FlattenWords ==
  ASSUME NEW S, NEW seqs \in Seq(Seq(S)), \A i \in DOMAIN seqs : Len(seqs[i]) = 1
  PROVE  FlattenSeq(seqs) = [i \in DOMAIN seqs |-> seqs[i][1]]
<1> DEFINE n == Len(seqs)
           words(m) == [j \in 1..m |-> seqs[j][1]]
           Flattens(g) == g = [i \in 1..n |-> IF i = 1 THEN seqs[i] ELSE g[i - 1] \o seqs[i]]
           f == CHOOSE g : Flattens(g)
           h == [i \in 1..n |-> words(i)]
<1>1. /\ n \in Nat /\ DOMAIN seqs = 1..n
      /\ \A i \in 1..n : seqs[i] \in Seq(S) /\ Len(seqs[i]) = 1 /\ seqs[i][1] \in S
  <2>1. \A i \in 1..Len(seqs) : seqs[i] \in Seq(S) /\ Len(seqs[i]) = 1
    OBVIOUS
  <2>2. \A s \in Seq(S) : Len(s) = 1 => s[1] \in S
    BY OneMore
  <2> QED  BY <2>1, <2>2
<1>2. ASSUME NEW i \in 1..n, i # 1
      PROVE  words(i - 1) \o seqs[i] = words(i)
  <2> DEFINE s == words(i - 1)
             t == words(i)
  <2>1. i - 1 \in Nat /\ i \in Nat
    BY <1>1, <1>2
  <2>2. \A k \in Nat : k <= n => /\ words(k) \in Seq(S) /\ Len(words(k)) = k
                               /\ \A j \in 1..k : words(k)[j] = seqs[j][1]
    <3> SUFFICES ASSUME NEW k \in Nat, k <= n
                 PROVE  /\ words(k) \in Seq(S) /\ Len(words(k)) = k
                        /\ \A j \in 1..k : words(k)[j] = seqs[j][1]
      OBVIOUS
    <3>1. \A j \in 1..k : seqs[j][1] \in S
      BY <1>1
    <3> HIDE DEF n
    <3> QED  BY <3>1
  <2>3. /\ s \in Seq(S) /\ Len(s) = i - 1 /\ \A j \in 1..(i - 1) : s[j] = seqs[j][1]
        /\ t \in Seq(S) /\ Len(t) = i /\ \A j \in 1..i : t[j] = seqs[j][1]
    <3>1. i - 1 <= n /\ i <= n
      BY <1>1
    <3> HIDE DEF n, words
    <3> QED  BY <2>1, <2>2, <3>1
  <2>4. seqs[i] \in Seq(S) /\ Len(seqs[i]) = 1
    BY <1>1
  <2> HIDE DEF s, t
  <2>5. /\ (s \o seqs[i]) \in Seq(S) /\ Len(s \o seqs[i]) = i
        /\ \A j \in 1..(i - 1) : (s \o seqs[i])[j] = s[j]
        /\ (s \o seqs[i])[i] = seqs[i][1]
    <3>1. i - 1 + 1 = i
      BY <2>1
    <3> HIDE DEF n
    <3> QED  BY <2>3, <2>4, <3>1, OneMore
  <2>6. \A j \in 1..i : (s \o seqs[i])[j] = t[j]
    <3>1. \A j \in 1..i : j = i \/ j \in 1..(i - 1)
      BY <2>1
    <3> HIDE DEF n
    <3> QED  BY <2>3, <2>5, <3>1
  <2>7. s \o seqs[i] = t
    <3> HIDE DEF n
    <3> QED  BY <2>3, <2>5, <2>6
  <2> QED  BY <2>7 DEF s, t
<1>3. ASSUME 1 \in 1..n PROVE words(1) = seqs[1]
  <2>1. seqs[1] \in Seq(S) /\ Len(seqs[1]) = 1
    BY <1>1, <1>3
  <2> QED  BY <2>1
<1>4. Flattens(h)
  <2>1. \A i \in 1..n : h[i] = IF i = 1 THEN seqs[i] ELSE h[i - 1] \o seqs[i]
    <3>1. \A i \in 1..n : i # 1 => i - 1 \in 1..n
      BY <1>1
    <3>2. \A i \in 1..n : h[i] = words(i)
      OBVIOUS
    <3> HIDE DEF h, words
    <3> QED  BY <1>2, <1>3, <3>1, <3>2
  <2> HIDE DEF n, words
  <2> QED  BY <2>1
<1>5. Flattens(f)
  <2> HIDE DEF Flattens, h
  <2> QED  BY <1>4
<1>6. ASSUME n # 0 PROVE f[n] = words(n)
  <2> DEFINE P == {i \in 0..n : i # 0 => f[i] = words(i)}
  <2>1. 0 \in P
    BY <1>1
  <2>2. ASSUME NEW i \in 1..n, i - 1 \in P PROVE i \in P
    <3>1. f[i] = IF i = 1 THEN seqs[i] ELSE f[i - 1] \o seqs[i]
      <4> HIDE DEF f, n
      <4> QED  BY <1>5
    <3>2. i \in 0..n
      BY <1>1
    <3>3. i # 1 => f[i - 1] = words(i - 1)
      BY <1>1, <2>2
    <3> HIDE DEF f, words
    <3> QED  BY <1>2, <1>3, <3>1, <3>2, <3>3
  <2> HIDE DEF P, n
  <2>3. n \in P
    BY <1>1, <2>1, <2>2, Upwards
  <2> QED  BY <1>6, <2>3 DEF P
<1>7. n # 0 => FlattenSeq(seqs) = f[n]
  BY DEF FlattenSeq
<1> QED
  <2>1. CASE n = 0
    <3>1. FlattenSeq(seqs) = seqs
      BY <2>1 DEF FlattenSeq
    <3> QED  BY <1>1, <2>1, <3>1
  <2>2. CASE n # 0
    <3> HIDE DEF f
    <3> QED  BY <1>1, <1>6, <1>7, <2>2
  <2> QED  BY <2>1, <2>2

\* A phrase occurs where all of its words do.
LEMMA PhraseOccurs ==
  ASSUME NEW S, NEW phrase \in Seq(S), phrase # <<>>, NEW text \in Seq(S)
  PROVE  (\E i \in DOMAIN text : IsPrefix(phrase, SubSeq(text, i, Len(text))))
           <=> \E i \in 0..Len(text) :
                 /\ i + Len(phrase) <= Len(text)
                 /\ \A j \in DOMAIN phrase : text[i + j] = phrase[j]
<1>1. /\ DOMAIN text = 1..Len(text) /\ Len(text) \in Nat
      /\ DOMAIN phrase = 1..Len(phrase) /\ Len(phrase) \in Nat /\ Len(phrase) # 0
      /\ SubSeq(phrase, 1, Len(phrase)) = phrase
  OBVIOUS
<1>2. ASSUME NEW i \in 1..Len(text)
      PROVE  IsPrefix(phrase, SubSeq(text, i, Len(text)))
               <=> /\ i - 1 + Len(phrase) <= Len(text)
                   /\ \A j \in 1..Len(phrase) : text[i - 1 + j] = phrase[j]
  <2> DEFINE rest == SubSeq(text, i, Len(text))
             top == SubSeq(rest, 1, Len(phrase))
  <2>1. /\ rest \in Seq(S) /\ Len(rest) = Len(text) - i + 1
        /\ \A j \in 1..Len(rest) : rest[j] = text[i - 1 + j]
    BY <1>1
  <2> HIDE DEF rest
  <2>2. ASSUME Len(phrase) <= Len(rest)
        PROVE  /\ top \in Seq(S) /\ Len(top) = Len(phrase)
               /\ \A j \in 1..Len(phrase) : top[j] = text[i - 1 + j]
    <3>1. \A j \in 1..Len(phrase) : j \in 1..Len(rest)
      BY <1>1, <2>1, <2>2
    <3>2. /\ top \in Seq(S) /\ Len(top) = Len(phrase)
          /\ \A j \in 1..Len(phrase) : top[j] = rest[j]
      BY <1>1, <2>1, <2>2
    <3> HIDE DEF top
    <3> QED  BY <2>1, <3>1, <3>2
  <2>3. IsPrefix(phrase, rest) <=> Len(phrase) <= Len(rest) /\ phrase = top
    BY <1>1 DEF IsPrefix
  <2> HIDE DEF top
  <2>4. Len(phrase) <= Len(rest) => (phrase = top <=> \A j \in 1..Len(phrase) : top[j] = phrase[j])
    BY <1>1, <2>2
  <2>5. Len(phrase) <= Len(rest) <=> i - 1 + Len(phrase) <= Len(text)
    BY <1>1, <2>1
  <2>6. IsPrefix(phrase, rest)
               <=> /\ i - 1 + Len(phrase) <= Len(text)
                   /\ \A j \in 1..Len(phrase) : text[i - 1 + j] = phrase[j]
    BY <2>2, <2>3, <2>4, <2>5
  <2> QED  BY <2>6 DEF rest
<1>3. ASSUME NEW i \in 0..Len(text), i + Len(phrase) <= Len(text)
      PROVE  i + 1 \in 1..Len(text) /\ (i + 1) - 1 = i
  BY <1>1, <1>3
<1>4. ASSUME NEW i \in 1..Len(text) PROVE i - 1 \in 0..Len(text)
  BY <1>1
<1> DEFINE at(i) == /\ i + Len(phrase) <= Len(text)
                    /\ \A j \in DOMAIN phrase : text[i + j] = phrase[j]
           begins(i) == IsPrefix(phrase, SubSeq(text, i, Len(text)))
<1>5. \A i \in 1..Len(text) : begins(i) <=> at(i - 1)
  BY <1>1, <1>2
<1>6. \A i \in 0..Len(text) : at(i) => i + 1 \in 1..Len(text) /\ (i + 1) - 1 = i
  BY <1>3
<1>7. (\E i \in 1..Len(text) : begins(i)) <=> \E i \in 0..Len(text) : at(i)
  <2> HIDE DEF at, begins
  <2> QED  BY <1>4, <1>5, <1>6
<1> QED  BY <1>1, <1>7

\* A token of one word at most.
LEMMA OneWord ==
  ASSUME NEW S, NEW s \in Seq(S), Len(s) <= 1, s # <<>>
  PROVE  Len(s) = 1 /\ Head(s) = s[1] /\ s[1] \in S /\ ToSet(s) = {s[1]}
<1>1. Len(s) \in Nat /\ Len(s) # 0
  OBVIOUS
<1>2. Len(s) = 1 /\ DOMAIN s = 1..1 /\ 1..1 = {1}
  BY <1>1, SMTT(30)
<1>3. Head(s) = s[1]
  OBVIOUS
<1>4. s[1] \in S
  BY <1>2, ElementOfSeq
<1> QED  BY <1>2, <1>3, <1>4 DEF ToSet

\* A bare word of a query is absent where the minus word and, if it is starred,
\* the longer words that begin with it are.
LEMMA BareAbsent ==
  ASSUME NEW w \in Words, NEW T
  PROVE  T \cap Bare(w) = {}
           <=> w \notin T /\ (w \in Short \/ T \cap (Begins[w] \ {w}) = {})
<1>1. w \in Begins[w]
  BY WordsAssumption
<1>2. CASE w \in Short
  BY <1>2 DEF Bare
<1>3. CASE w \notin Short
  BY <1>1, <1>3 DEF Bare
<1> QED  BY <1>2, <1>3

\* Where every token is one word at most, the query of a phrase finds what the
\* help texts promise, unless a longer word begins with a minus word, and
\* nothing else.
LEMMA QueryFollowsHelp ==
  ASSUME NEW raw \in Seq(Token), Plain(raw), Usable(raw), NEW text \in Seq(Words)
  PROVE  Matches(build_phrase_fts_query(raw), text)
           <=> Obeys(raw, text) /\ ~Overshot(raw, text)
<1> DEFINE inc == Kept(raw, FALSE)
           exc == Kept(raw, TRUE)
           absent(w) == ToSet(text) \cap Bare(w) = {}
           seqs == [i \in DOMAIN inc |-> inc[i].runs]
<1>1. /\ inc \in Seq(Token) /\ exc \in Seq(Token) /\ inc # <<>>
      /\ ToSet(inc) = {t \in ToSet(raw) : t.minus = FALSE /\ t.runs # <<>>}
      /\ ToSet(exc) = {t \in ToSet(raw) : t.minus = TRUE /\ t.runs # <<>>}
  BY KeptTokens DEF Usable
<1>2. \A t \in ToSet(raw) : t \in Token /\ t.runs \in Seq(Words) /\ Len(t.runs) <= 1
                           /\ t.minus \in BOOLEAN
  <2>1. \A i \in DOMAIN raw : raw[i] \in Token
    OBVIOUS
  <2> QED  BY <2>1 DEF Plain, ToSet, Token
<1>3. \A t \in ToSet(raw) : t.runs # <<>> =>
        /\ Len(t.runs) = 1 /\ Head(t.runs) = t.runs[1] /\ t.runs[1] \in Words
        /\ ToSet(t.runs) = {t.runs[1]}
  BY <1>2, OneWord
<1> HIDE DEF inc, exc
<1>4. /\ \A i \in DOMAIN inc : inc[i] \in ToSet(raw) /\ inc[i].runs # <<>>
      /\ \A i \in DOMAIN exc : exc[i] \in ToSet(raw) /\ exc[i].runs # <<>>
      /\ DOMAIN inc = 1..Len(inc) /\ Len(inc) \in Nat /\ Len(inc) # 0
  <2>1. \A i \in DOMAIN inc : inc[i] \in ToSet(inc)
    BY DEF ToSet
  <2>2. \A i \in DOMAIN exc : exc[i] \in ToSet(exc)
    BY DEF ToSet
  <2>3. DOMAIN inc = 1..Len(inc) /\ Len(inc) \in Nat /\ Len(inc) # 0
    BY <1>1
  <2> QED  BY <1>1, <2>1, <2>2, <2>3
<1> DEFINE phrase == Firsts(inc)
<1>5. phrase = [i \in 1..Len(inc) |-> inc[i].runs[1]]
  BY <1>3, <1>4 DEF Firsts
<1>6. phrase \in Seq(Words) /\ phrase # <<>>
  <2>1. \A i \in 1..Len(inc) : inc[i].runs[1] \in Words
    BY <1>3, <1>4
  <2>2. phrase \in Seq(Words) /\ Len(phrase) = Len(inc)
    BY <1>4, <1>5, <2>1
  <2> HIDE DEF phrase
  <2> QED  BY <1>4, <2>2
<1>7. Typed(raw) = phrase
  <2>1. Typed(raw) = FlattenSeq(seqs)
    BY DEF Typed, inc
  <2>2. \A i \in 1..Len(inc) : inc[i].runs \in Seq(Words) /\ Len(inc[i].runs) = 1
    BY <1>2, <1>3, <1>4
  <2>3. seqs \in Seq(Seq(Words)) /\ DOMAIN seqs = 1..Len(inc)
    <3> HIDE DEF phrase
    <3> QED  BY <1>4, <2>2
  <2>4. \A i \in DOMAIN seqs : Len(seqs[i]) = 1 /\ seqs[i] = inc[i].runs
    BY <1>4, <2>2
  <2> HIDE DEF seqs
  <2>5. FlattenSeq(seqs) = [i \in DOMAIN seqs |-> seqs[i][1]]
    BY <2>3, <2>4, FlattenWords
  <2> HIDE DEF phrase
  <2> QED  BY <1>5, <2>1, <2>3, <2>4, <2>5
<1>8. /\ ToSet(Firsts(exc)) = MinusWords(raw)
      /\ MinusWords(raw) \subseteq Words
  <2>1. ToSet(Firsts(exc)) = {t.runs[1] : t \in ToSet(exc)}
    <3>1. \A i \in DOMAIN exc : Head(exc[i].runs) = exc[i].runs[1]
      BY <1>3, <1>4
    <3>2. Firsts(exc) = [i \in DOMAIN exc |-> exc[i].runs[1]]
      BY <3>1 DEF Firsts
    <3> QED  BY <3>2 DEF ToSet
  <2>2. \A t \in ToSet(raw) : t.minus /\ t.runs # <<>> => t \in ToSet(exc)
    BY <1>1, <1>2
  <2>3. \A t \in ToSet(exc) : /\ t \in ToSet(raw) /\ t.minus
                              /\ ToSet(t.runs) = {t.runs[1]} /\ t.runs[1] \in Words
    BY <1>1, <1>3
  <2>4. ToSet(<<>>) = {}
    BY DEF ToSet
  <2>5. \A w : w \in MinusWords(raw) <=> \E t \in ToSet(raw) : t.minus /\ w \in ToSet(t.runs)
    BY DEF MinusWords
  <2>6. ASSUME NEW w \in MinusWords(raw) PROVE w \in ToSet(Firsts(exc))
    <3>1. PICK t \in ToSet(raw) : t.minus /\ w \in ToSet(t.runs)
      BY <2>5
    <3>2. t.runs # <<>>
      BY <2>4, <3>1
    <3> QED  BY <1>3, <2>1, <2>2, <3>1, <3>2
  <2>7. ASSUME NEW w \in ToSet(Firsts(exc)) PROVE w \in MinusWords(raw) /\ w \in Words
    BY <2>1, <2>3, <2>5
  <2> QED  BY <2>6, <2>7
<1>9. (\A w \in ToSet(Firsts(exc)) : absent(w))
         <=> ToSet(text) \cap MinusWords(raw) = {} /\ ~Overshot(raw, text)
  <2>1. \A w \in MinusWords(raw) :
          absent(w) <=> /\ w \notin ToSet(text)
                        /\ w \in Short \/ ToSet(text) \cap (Begins[w] \ {w}) = {}
    BY <1>8, BareAbsent
  <2> HIDE DEF absent
  <2> QED  BY <1>8, <2>1 DEF Overshot
<1> HIDE DEF phrase, absent
<1>10. (\E i \in DOMAIN text : IsPrefix(phrase, SubSeq(text, i, Len(text))))
           <=> \E i \in 0..Len(text) :
                 /\ i + Len(phrase) <= Len(text)
                 /\ \A j \in DOMAIN phrase : text[i + j] = phrase[j]
  BY <1>6, PhraseOccurs
<1>11. Matches(build_phrase_fts_query(raw), text)
         <=> /\ \E i \in 0..Len(text) :
                 /\ i + Len(phrase) <= Len(text)
                 /\ \A j \in DOMAIN phrase : text[i + j] = phrase[j]
             /\ \A w \in ToSet(Firsts(exc)) : absent(w)
  BY DEF Matches, build_phrase_fts_query, phrase, absent, inc, exc
<1>12. Obeys(raw, text)
         <=> /\ \E i \in DOMAIN text : IsPrefix(phrase, SubSeq(text, i, Len(text)))
             /\ ToSet(text) \cap MinusWords(raw) = {}
  BY <1>7 DEF Obeys
<1> QED  BY <1>9, <1>10, <1>11, <1>12

-----------------------------------------------------------------------------
(* Pages and the help texts *)

\* Searches that are not to be read of yet have a phrase, their handlers come
\* from a text, and those that read from a text or a button.
Asks(q) ==
  /\ q.pc \in {"max", "prune", "create"} => Usable(q.raw)
  /\ q.pc \in {"max", "prune", "create", "keep"} => q.kind = "search"
  /\ q.pc \in {"lookup", "count", "rows"} => q.kind \in {"search", "page"}
  /\ q.kind = "page" /\ q.pc \in {"user", "lookup", "count", "rows"} =>
       \E s \in shown : s.text = q.named

UsableInv ==
  /\ \A r \in Requests : Asks(req[r])
  /\ \A s \in Cutters \cup shown \cup Sessions : Usable(s.raw)

\* Handlers of a search that are to read the session they have created.
Holding(q) == q.kind = "search" /\ q.pc \in {"keep", "lookup"}

\* No other search has its name, and what it will find is committed with it.
Holds(q) ==
  Holding(q) =>
    /\ q.text = q.named /\ q.text \in sent
    /\ \A r \in Requests : Newcomer(req[r]) => req[r].text # q.text
    /\ \A s \in Sessions : s.text = q.text => s.snapshot = q.snapshot
    /\ q.snapshot <= Len(db.posts)
    /\ q.pc = "lookup" => q.snapshot <= Len(disk.posts)

Owns(q) ==
  q.kind = "search" /\ q.pc \in {"count", "rows"} /\ q.text = q.named
    => q.snapshot <= Len(disk.posts)

\* A page that is not early counts rows that are durable.
LastingInv ==
  \A v \in shown :
    \/ Early(v.text)
    \/ v.snapshot <= Len(disk.posts) /\ v.total = Cardinality(Found(disk, v.raw, v.snapshot))

HelpInv == /\ UsableInv
           /\ \A r \in Requests : Holds(req[r]) /\ Owns(req[r])
           /\ LastingInv

\* Where the handler of a search can go, and what it takes along.
Hops(r) ==
  LET q == req[r]
      new == req'[r]
  IN  \/ new.pc \notin Paging \cup {"user"}
      \/ /\ q.pc = "user" /\ q.kind = "search" /\ Usable(q.raw)
         /\ new = [q EXCEPT !.pc = "max"]
      \/ /\ q.pc = "user" /\ q.kind = "page"
         /\ new = [q EXCEPT !.pc = "lookup"]
      \/ /\ q.pc = "max"
         /\ new = [q EXCEPT !.pc = "prune", !.snapshot = MaxRowid]
      \/ /\ q.pc = "prune"
         /\ new = [q EXCEPT !.pc = "create"]
      \/ /\ CreateSession(r)
         /\ new = [q EXCEPT !.pc = "keep", !.id = NextId(db.sessions)]
      \/ /\ CommitSession(r)
         /\ new = [q EXCEPT !.pc = "lookup"]
      \/ /\ q.pc = "lookup"
         /\ \E s \in db.sessions : new = [q EXCEPT !.pc = "count", !.text = s.text,
                                                   !.raw = s.raw, !.snapshot = s.snapshot]
      \/ /\ q.pc = "count"
         /\ new.pc = "rows" /\ new.kind = q.kind /\ new.named = q.named
         /\ SameSearch(new, q)

\* No handler goes anywhere else.
LEMMA HandlersHop ==
  ASSUME ScreensTyped, NEW r \in Requests, Handle(r)
  PROVE  Hops(r)
<1>1. req \in [Requests -> Request]
  BY DEF ScreensTyped, RequestsTyped
<1>2. ASSUME NEW new, req' = [req EXCEPT ![r] = new] PROVE req'[r] = new
  BY <1>1, <1>2
<1>3. ASSUME NEW pc, Goto(r, pc) PROVE req'[r] = [req[r] EXCEPT !.pc = pc] /\ req'[r].pc = pc
  BY <1>1, <1>3 DEF Goto, Request
<1>4. CASE Finish(r)
  <2>1. req'[r].pc = "idle"
    BY <1>1, <1>4 DEF Finish, NoRequest
  <2> QED  BY <2>1 DEF Hops, Paging
<1>5. CASE \E pc \in {"clear", "save", "commit_save", "details", "find", "remove",
                     "commit_remove", "denied"} : Goto(r, pc)
  BY <1>3, <1>5 DEF Hops, Paging
<1>6. CASE EnsureUser(r)
  <2>1. req[r].kind \in {"search", "page", "keyword", "open", "delete"}
    BY <1>1 DEF Request
  <2>2. \/ Finish(r)
        \/ req[r].kind = "search" /\ Usable(req[r].raw) /\ Goto(r, "max")
        \/ req[r].kind = "page" /\ Goto(r, "lookup")
        \/ \E pc \in {"save", "details", "find"} : Goto(r, pc)
    BY <1>6, <2>1 DEF EnsureUser
  <2>3. req[r].pc = "user"
    BY <1>6 DEF EnsureUser
  <2> QED  BY <1>3, <1>4, <1>5, <2>2, <2>3 DEF Hops
<1>7. CASE ReadMax(r)
  <2>1. req[r].pc = "max" /\ req' = [req EXCEPT ![r].pc = "prune", ![r].snapshot = MaxRowid]
    BY <1>7 DEF ReadMax
  <2>2. req'[r] = [req[r] EXCEPT !.pc = "prune", !.snapshot = MaxRowid]
    BY <1>1, <2>1
  <2> QED  BY <2>1, <2>2 DEF Hops
<1>8. CASE Prune(r) \/ CommitSession(r)
  BY <1>3, <1>8 DEF Prune, CommitSession, Hops
<1>9. CASE CreateSession(r)
  <2>1. req' = [req EXCEPT ![r].pc = "keep", ![r].id = NextId(db.sessions)]
    BY <1>9 DEF CreateSession
  <2>2. req'[r] = [req[r] EXCEPT !.pc = "keep", !.id = NextId(db.sessions)]
    BY <1>1, <2>1, SMTT(30)
  <2> QED  BY <1>9, <2>2 DEF Hops
<1>10. CASE Lookup(r)
  <2>1. req[r].pc = "lookup"
    BY <1>10 DEF Lookup
  <2>2. ASSUME NEW s \in db.sessions,
               req' = [req EXCEPT ![r].pc = "count", ![r].text = s.text,
                                  ![r].raw = s.raw, ![r].snapshot = s.snapshot]
        PROVE  Hops(r)
    <3>1. req'[r] = [req[r] EXCEPT !.pc = "count", !.text = s.text,
                                   !.raw = s.raw, !.snapshot = s.snapshot]
      BY <1>1, <2>2
    <3> QED  BY <2>1, <3>1 DEF Hops
  <2> QED  BY <1>5, <1>10, <2>2 DEF Lookup, RowOf
<1>11. CASE Count(r)
  <2>1. PICK total : req' = [req EXCEPT ![r].pc = "rows", ![r].total = total,
                                        ![r].page = Min({@, Max({1, Pages(total)})})]
    BY <1>11 DEF Count
  <2>2. /\ req'[r].pc = "rows" /\ req'[r].kind = req[r].kind
        /\ req'[r].named = req[r].named /\ SameSearch(req'[r], req[r])
    BY <1>1, <2>1 DEF Request, SameSearch
  <2>3. req[r].pc = "count"
    BY <1>11 DEF Count
  <2> QED  BY <2>2, <2>3 DEF Hops
<1>12. CASE ShowFails(r) \/ Deny(r) \/ Answer(r) \/ KeywordStep(r) \/ ClearState(r)
  <2>1. \/ Finish(r)
        \/ \E pc \in {"clear", "commit_save", "remove", "commit_remove"} : Goto(r, pc)
    BY <1>12 DEF ShowFails, Deny, Answer, ShowRows, KeywordStep, SaveKeyword, CommitKeyword,
                 ShowDetails, FindKeyword, RemoveKeyword, CommitRemoval, ClearState
  <2> QED  BY <1>4, <1>5, <2>1
<1> QED  BY <1>6, <1>7, <1>8, <1>9, <1>10, <1>11, <1>12 DEF Handle, SearchStep

\* A request after a step: as it was, moved by its handler, new, or gone.
LEMMA RequestsGo ==
  ASSUME ScreensTyped, [Next]_vars, NEW q \in Requests
  PROVE  \/ req'[q] = req[q]
         \/ Handle(q) /\ Hops(q)
         \/ /\ req'[q].pc = "user"
            /\ req'[q].kind = "page" => \E s \in shown : s.text = req'[q].named
            /\ UNCHANGED <<db, disk>>
         \/ req'[q].pc \in {"idle", "clear"}
<1>0. req \in [Requests -> Request]
  BY DEF ScreensTyped, RequestsTyped
<1>1. ASSUME NEW r \in Requests, Handle(r) PROVE req'[q] = req[q] \/ (Handle(q) /\ Hops(q))
  BY <1>1, HandlersHop, OthersStay
<1>2. ASSUME NEW r \in Requests, Update(r)
      PROVE  \/ req'[q] = req[q]
             \/ /\ req'[q].pc = "user"
                /\ req'[q].kind = "page" => \E s \in shown : s.text = req'[q].named
                /\ UNCHANGED <<db, disk>>
  <2>1. CASE q # r
    BY <1>2, <2>1, OthersStay
  <2>2. CASE q = r
    <3>1. ASSUME NEW kind, NEW prompted, NEW u, NEW t, NEW raw, NEW id, NEW page,
                 Begin(r, kind, prompted, u, t, raw, id, page)
          PROVE  req'[r].pc = "user" /\ req'[r].kind = kind /\ req'[r].named = t
      <4> DEFINE new == [NoRequest EXCEPT !.pc = "user", !.kind = kind, !.prompted = prompted,
                                          !.user = u, !.text = t, !.raw = raw, !.id = id,
                                          !.page = page, !.named = t, !.target = page]
      <4>1. new.pc = "user" /\ new.kind = kind /\ new.named = t
        BY DEF NoRequest
      <4>2. req' = [req EXCEPT ![r] = new]
        BY <3>1 DEF Begin
      <4> HIDE DEF new
      <4> QED  BY <1>0, <4>1, <4>2
    <3>2. UNCHANGED <<db, disk>>
      BY <1>2 DEF Update, PressPage, SendText, PressOpen, PressDelete
    <3>3. CASE PressPage(r)
      <4>1. PICK s \in shown : \E n \in Buttons(s) :
              Begin(r, "page", FALSE, s.user, s.text, <<>>, s.id, n)
        BY <3>3 DEF PressPage
      <4>2. req'[r].pc = "user" /\ req'[r].named = s.text
        BY <3>1, <4>1
      <4> QED  BY <2>2, <3>2, <4>2
    <3>4. CASE PressOpen(r) \/ PressDelete(r) \/ \E t \in Texts : SendText(r, t)
      <4>0. \E prompted, u, t, raw, id, page, kind :
              /\ kind \in {"search", "keyword", "open", "delete"}
              /\ Begin(r, kind, prompted, u, t, raw, id, page)
        BY <3>4 DEF SendText, PressOpen, PressDelete
      <4>1. req'[r].pc = "user" /\ req'[r].kind # "page"
        BY <3>1, <4>0
      <4> QED  BY <2>2, <3>2, <4>1
    <3> QED  BY <1>2, <3>3, <3>4 DEF Update
  <2> QED  BY <2>1, <2>2
<1>3. CASE Die \/ Restart
  BY <1>3 DEF Die, Restart, NoRequest
<1>4. \/ \E r \in Requests : Handle(r) \/ Update(r)
      \/ Die \/ Restart \/ req' = req
  BY DEF Next, Startup, ResolveTitles, DeleteStale, Upsert, CommitSources, InsertPost,
         CommitPost, WeekPasses, Press, PressBack, ShowPrompt, vars, searchVars
<1> QED  BY <1>1, <1>2, <1>3, <1>4

\* The file only gains posts.
LEMMA DiskGrows ==
  ASSUME ScreensTyped, RowsInv, [Next]_vars
  PROVE  Longer(disk', disk)
<1>1. StoreStep /\ db \in Tables /\ disk \in Tables /\ Longer(db, disk)
  BY StepStores DEF RowsInv, SnapshotsInv, ScreensTyped, StoreTyped
<1>2. Len(disk.posts) \in Nat /\ Longer(disk, disk)
  BY <1>1 DEF Tables, Longer
<1>3. CASE Ages
  <2>1. disk'.posts = disk.posts
    BY <1>1, <1>3, AgedSessions DEF Ages
  <2> QED  BY <1>2, <2>1 DEF Longer
<1> QED  BY <1>1, <1>2, <1>3 DEF StoreStep, Keeps, Grows, Commit, Loses, LoseUncommitted

\* So does the connection's view, until a rollback.
LEMMA PostsStay ==
  ASSUME db \in Tables, Keeps
  PROVE  Len(db.posts) <= Len(db'.posts)
<1>1. Len(db.posts) \in Nat
  BY DEF Tables
<1>2. CASE Ages
  BY <1>1, <1>2, AgedSessions DEF Ages
<1> QED  BY <1>1, <1>2 DEF Keeps, Grows, Commit, Longer

\* Searches without a phrase end before they begin; page buttons stand under a
\* shown page.
LEMMA AsksStay ==
  ASSUME ScreensTyped, UsableInv, [Next]_vars, NEW q \in Requests
  PROVE  Asks(req[q])'
<1>1. PICK p \in Request : p = req[q]
  BY DEF ScreensTyped, RequestsTyped
<1>2. PICK new : new = req'[q]
  OBVIOUS
<1>3. Asks(p) /\ shown \subseteq shown'
  BY <1>1, StepRemembers DEF UsableInv, Remembers
<1>4. CASE req'[q] = req[q]
  BY <1>1, <1>3, <1>4, SMTT(30) DEF Asks
<1>5. CASE Hops(q)
  <2>1. CASE new.pc \notin Paging \cup {"user"}
    BY <1>2, <2>1 DEF Asks, Paging
  <2>2. CASE \/ p.pc = "user" /\ p.kind = "search" /\ Usable(p.raw) /\ new = [p EXCEPT !.pc = "max"]
             \/ p.pc = "user" /\ p.kind = "page" /\ new = [p EXCEPT !.pc = "lookup"]
    BY <1>2, <1>3, <2>2 DEF Asks, Request
  <2>3. CASE \/ p.pc = "max" /\ new = [p EXCEPT !.pc = "prune", !.snapshot = MaxRowid]
             \/ p.pc = "prune" /\ new = [p EXCEPT !.pc = "create"]
    BY <1>2, <1>3, <2>3 DEF Asks, Request
  <2>4. CASE \/ p.pc = "create" /\ new = [p EXCEPT !.pc = "keep", !.id = NextId(db.sessions)]
             \/ p.pc = "keep" /\ new = [p EXCEPT !.pc = "lookup"]
    BY <1>2, <1>3, <2>4 DEF Asks, Request
  <2>5. ASSUME NEW s \in db.sessions, p.pc = "lookup",
               new = [p EXCEPT !.pc = "count", !.text = s.text, !.raw = s.raw,
                               !.snapshot = s.snapshot]
        PROVE  Asks(new)'
    BY <1>3, <2>5 DEF Asks, Request
  <2>6. CASE p.pc = "count" /\ new.pc = "rows" /\ new.kind = p.kind /\ new.named = p.named
    BY <1>2, <1>3, <2>6 DEF Asks
  <2> QED  BY <1>1, <1>2, <1>5, <2>1, <2>2, <2>3, <2>4, <2>5, <2>6
           DEF Hops, CreateSession, CommitSession
<1>6. CASE new.pc = "user" /\ (new.kind = "page" => \E s \in shown : s.text = new.named)
  BY <1>2, <1>3, <1>6 DEF Asks
<1>7. CASE new.pc \in {"idle", "clear"}
  BY <1>2, <1>7 DEF Asks
<1> QED  BY <1>2, <1>4, <1>5, <1>6, <1>7, RequestsGo

\* Every search has a phrase.
LEMMA UsableStays ==
  ASSUME ScreensTyped, RowsInv, ReadInv, UsableInv, [Next]_vars
  PROVE  UsableInv'
<1>1. \A s \in Cutters \cup shown \cup Sessions : Usable(s.raw)
  BY DEF UsableInv
<1>2. ASSUME NEW s \in Sessions' PROVE Usable(s.raw)
  <2>1. \A r \in Requests : CreateSession(r) => Usable(req[r].raw)
    BY DEF CreateSession, UsableInv, Asks
  <2> QED  BY <1>1, <2>1, SessionsFollow DEF SameSearch
<1>3. ASSUME NEW s \in Cutters' \cup shown' PROVE Usable(s.raw)
  BY <1>1, AllFollows DEF ReadInv, SameSearch, Sessions
<1> QED  BY <1>2, <1>3, AsksStay DEF UsableInv

\* The session that a handler has created stays its own until it is looked up.
LEMMA HoldsStay ==
  ASSUME ScreensTyped, ScreensTyped', RowsInv, PagesInv, UsableInv, [Next]_vars,
         NEW q \in Requests, Holds(req[q])
  PROVE  Holds(req[q])'
<1>0. db \in Tables /\ disk \in Tables /\ db' \in Tables /\ disk' \in Tables
  BY DEF ScreensTyped, StoreTyped
<1>1. PICK p \in Request : p = req[q]
  BY DEF ScreensTyped, RequestsTyped
<1>2. PICK new \in Request : new = req'[q]
  BY DEF ScreensTyped, RequestsTyped
<1>3. /\ Len(db.posts) \in Nat /\ Len(disk.posts) \in Nat
      /\ Len(db'.posts) \in Nat /\ Len(disk'.posts) \in Nat
      /\ Len(disk.posts) <= Len(disk'.posts)
      /\ p.snapshot \in Nat /\ new.snapshot \in Nat
  BY <1>0, DiskGrows, SMTT(30) DEF Tables, Request, Longer
<1>4. SUFFICES ASSUME Holding(new) PROVE Holds(new)'
  BY <1>2 DEF Holds
<1>5. CASE new = p
  <2>1. /\ p.text = p.named /\ p.text \in sent
        /\ \A r \in Requests : Newcomer(req[r]) => req[r].text # p.text
        /\ \A s \in Sessions : s.text = p.text => s.snapshot = p.snapshot
        /\ p.snapshot <= Len(db.posts)
        /\ p.pc = "lookup" => p.snapshot <= Len(disk.posts)
    BY <1>1, <1>4, <1>5 DEF Holds
  <2>2. Keeps
    BY <1>2, <1>4, StepStores DEF StoreStep, Loses, Holding
  <2>3. Len(db.posts) <= Len(db'.posts)
    BY <1>0, <2>2, PostsStay
  <2>4. \A r \in Requests : Newcomer(req'[r]) => req'[r].text # p.text
    BY <2>1, NewcomersFollow
  <2>5. \A s \in Sessions' : s.text = p.text => s.snapshot = p.snapshot
    BY <2>1, SessionsFollow DEF SameSearch
  <2>6. p.text \in sent'
    BY <2>1, NewcomersFollow
  <2> QED  BY <1>3, <1>5, <2>1, <2>3, <2>4, <2>5, <2>6 DEF Holds
<1>6. CASE CreateSession(q) /\ new = [p EXCEPT !.pc = "keep", !.id = NextId(db.sessions)]
  <2>1. p.pc = "create" /\ Newcomer(p)
    BY <1>1, <1>6 DEF CreateSession, Newcomer
  <2>2. /\ new.pc = "keep" /\ new.text = p.text /\ new.named = p.named
        /\ new.snapshot = p.snapshot
    BY <1>6 DEF Request
  <2>3. p.text = p.named
    BY <1>1, <2>1 DEF PagesInv, OnCourse, Opens, Opening
  <2>4. /\ p.text \in sent
        /\ \A r \in Requests : r # q /\ Newcomer(req[r]) => req[r].text # p.text
        /\ \A s \in Sessions : s.text # p.text
    BY <1>1, <2>1 DEF RowsInv, NewcomersInv, Sessions
  <2>5. ~Newcomer(req'[q])
    BY <1>2, <2>2 DEF Newcomer
  <2>6. \A r \in Requests : Newcomer(req'[r]) => req'[r].text # p.text
    BY <2>4, <2>5, NewcomersFollow
  <2>7. /\ \A s \in Sessions' : s.text = p.text => s.snapshot = p.snapshot
        /\ db'.posts = db.posts
    <3> DEFINE row == [id |-> NextId(db.sessions), text |-> req[q].text, raw |-> req[q].raw,
                       snapshot |-> req[q].snapshot, old |-> FALSE]
    <3>1. /\ db'.sessions = db.sessions \cup {row} /\ db'.posts = db.posts /\ disk' = disk
          /\ row.snapshot = p.snapshot
      BY <1>0, <1>1, <1>6 DEF CreateSession, Tables
    <3> HIDE DEF row
    <3> QED  BY <2>4, <3>1 DEF Sessions
  <2>8. p.snapshot <= Len(db.posts)
    BY <1>1, <2>1 DEF RowsInv, SnapshotsInv
  <2>9. p.text \in sent'
    BY <2>4, NewcomersFollow
  <2> QED  BY <2>2, <2>3, <2>6, <2>7, <2>8, <2>9 DEF Holds
<1>7. CASE CommitSession(q) /\ new = [p EXCEPT !.pc = "lookup"]
  <2>1. p.pc = "keep" /\ db' = db /\ disk' = db
    BY <1>1, <1>7 DEF CommitSession, Commit
  <2>2. /\ new.pc = "lookup" /\ new.text = p.text /\ new.named = p.named
        /\ new.snapshot = p.snapshot /\ new.kind = p.kind
    BY <1>7 DEF Request
  <2>3. /\ p.text = p.named /\ p.text \in sent
        /\ \A r \in Requests : Newcomer(req[r]) => req[r].text # p.text
        /\ \A s \in Sessions : s.text = p.text => s.snapshot = p.snapshot
        /\ p.snapshot <= Len(db.posts)
    BY <1>1, <1>4, <2>1, <2>2 DEF Holds, Holding
  <2>4. \A r \in Requests : Newcomer(req'[r]) => req'[r].text # p.text
    BY <2>3, NewcomersFollow
  <2>5. Sessions' \subseteq Sessions
    BY <2>1 DEF Sessions
  <2>6. p.text \in sent'
    BY <2>3, NewcomersFollow
  <2> QED  BY <2>1, <2>2, <2>3, <2>4, <2>5, <2>6 DEF Holds
<1>8. CASE Hops(q)
  <2>1. new.pc \in {"keep", "lookup"} /\ new.kind = "search"
    BY <1>4 DEF Holding
  <2>2. CASE p.kind = "page" /\ new = [p EXCEPT !.pc = "lookup"]
    BY <2>1, <2>2 DEF Request
  <2>3. /\ new # [p EXCEPT !.pc = "max"] /\ new # [p EXCEPT !.pc = "create"]
        /\ new # [p EXCEPT !.pc = "prune", !.snapshot = MaxRowid]
        /\ \A s : new # [p EXCEPT !.pc = "count", !.text = s.text, !.raw = s.raw,
                                  !.snapshot = s.snapshot]
    BY <2>1 DEF Request
  <2>4. \/ CreateSession(q) /\ new = [p EXCEPT !.pc = "keep", !.id = NextId(db.sessions)]
        \/ CommitSession(q) /\ new = [p EXCEPT !.pc = "lookup"]
        \/ p.kind = "page" /\ new = [p EXCEPT !.pc = "lookup"]
    BY <1>1, <1>2, <1>8, <2>1, <2>3 DEF Hops, Paging
  <2> QED  BY <1>6, <1>7, <2>2, <2>4
<1> QED  BY <1>1, <1>2, <1>4, <1>5, <1>8, RequestsGo DEF Holding

\* A search that found its own session reads durable rows.
LEMMA OwnsStay ==
  ASSUME ScreensTyped, ScreensTyped', RowsInv, [Next]_vars,
         NEW q \in Requests, Holds(req[q]), Owns(req[q])
  PROVE  Owns(req[q])'
<1>0. db \in Tables /\ disk \in Tables /\ disk' \in Tables
  BY DEF ScreensTyped, StoreTyped
<1>1. PICK p \in Request : p = req[q]
  BY DEF ScreensTyped, RequestsTyped
<1>2. PICK new \in Request : new = req'[q]
  BY DEF ScreensTyped, RequestsTyped
<1>3. /\ Len(disk.posts) \in Nat /\ Len(disk'.posts) \in Nat
      /\ Len(disk.posts) <= Len(disk'.posts)
      /\ p.snapshot \in Nat /\ new.snapshot \in Nat
  BY <1>0, DiskGrows, SMTT(30) DEF Tables, Request, Longer
<1>4. SUFFICES ASSUME new.kind = "search", new.pc \in {"count", "rows"}, new.text = new.named
               PROVE  new.snapshot <= Len(disk.posts)
  BY <1>2, <1>3 DEF Owns
<1>5. CASE new = p
  BY <1>1, <1>4, <1>5 DEF Owns
<1>6. CASE Hops(q)
  <2>1. ASSUME NEW s \in db.sessions, p.pc = "lookup",
               new = [p EXCEPT !.pc = "count", !.text = s.text, !.raw = s.raw,
                               !.snapshot = s.snapshot]
        PROVE  new.snapshot <= Len(disk.posts)
    <3>1. new.kind = p.kind /\ new.text = s.text /\ new.named = p.named
          /\ new.snapshot = s.snapshot
      BY <2>1 DEF Request
    <3>2. p.text = p.named /\ p.snapshot <= Len(disk.posts)
          /\ (s.text = p.text => s.snapshot = p.snapshot)
      BY <1>1, <1>4, <2>1, <3>1 DEF Holds, Holding, Sessions
    <3> QED  BY <1>4, <3>1, <3>2
  <2>2. CASE p.pc = "count" /\ new.kind = p.kind /\ new.named = p.named /\ SameSearch(new, p)
    BY <1>1, <1>4, <2>2, SMTT(30) DEF Owns, SameSearch
  <2>3. \/ p.pc = "count" /\ new.kind = p.kind /\ new.named = p.named /\ SameSearch(new, p)
        \/ p.pc = "lookup" /\ \E s \in db.sessions :
             new = [p EXCEPT !.pc = "count", !.text = s.text, !.raw = s.raw,
                             !.snapshot = s.snapshot]
    BY <1>1, <1>2, <1>4, <1>6, ZenonT(60) DEF Hops, Request, Paging
  <2> QED  BY <2>1, <2>2, <2>3
<1> QED  BY <1>1, <1>2, <1>4, <1>5, <1>6, RequestsGo

\* The count of a page stays true of the file.
LEMMA LastingStays ==
  ASSUME ScreensTyped, ScreensTyped', RowsInv, ReadInv, UsableInv,
         \A r \in Requests : Owns(req[r]), LastingInv, [Next]_vars
  PROVE  LastingInv'
<1>0. db \in Tables /\ disk \in Tables /\ disk' \in Tables /\ Longer(db, disk)
      /\ shown \subseteq ResultPage /\ shown' \subseteq ResultPage /\ shown \subseteq shown'
  BY StepRemembers DEF ScreensTyped, StoreTyped, TypeOK, RowsInv, SnapshotsInv, Remembers
<1>1. \A t : Early(t) => Early(t)'
  BY <1>0 DEF Early
<1>2. ASSUME NEW v \in ResultPage, NEW d \in Tables, NEW e \in Tables, Longer(d, e),
             v.snapshot <= Len(e.posts)
      PROVE  /\ v.snapshot <= Len(d.posts)
             /\ Found(d, v.raw, v.snapshot) = Found(e, v.raw, v.snapshot)
  <2>1. v.snapshot \in Nat /\ Len(d.posts) \in Nat /\ Len(e.posts) \in Nat
    BY DEF ResultPage, Tables
  <2> QED  BY <1>2, <2>1, FoundStays DEF Longer
<1>3. ASSUME NEW v \in shown
      PROVE  \/ Early(v.text)'
             \/ /\ v.snapshot <= Len(disk'.posts)
                /\ v.total = Cardinality(Found(disk', v.raw, v.snapshot))
  BY <1>0, <1>1, <1>2, DiskGrows DEF LastingInv
<1>4. ASSUME NEW v \in shown', v \notin shown
      PROVE  \/ Early(v.text)'
             \/ /\ v.snapshot <= Len(disk'.posts)
                /\ v.total = Cardinality(Found(disk', v.raw, v.snapshot))
  <2>1. PICK q \in Cutters :
          /\ q.pc = "rows" /\ SameSearch(v, q)
          /\ v.early <=> q.text # q.named /\ \A s \in disk.sessions : s.text # q.text
    BY <1>4, ShownFollows DEF ReadInv
  <2>2. CutFrom(v, db) /\ disk' = disk
    BY <1>4, ShownFollows DEF ReadInv
  <2>3. SUFFICES ASSUME ~Early(v.text)' PROVE v.snapshot <= Len(disk.posts)
    BY <1>0, <1>2, <2>2 DEF CutFrom
  <2>4. ~v.early
    BY <2>3 DEF Early
  <2>5. CASE \E s \in disk.sessions : s.text = q.text
    <3>1. PICK s \in disk.sessions : s.text = q.text
      BY <2>5
    <3>2. q.snapshot = s.snapshot
      BY <3>1 DEF ReadInv, KnownInv, Sessions, SameSearch
    <3> QED  BY <2>1, <3>1, <3>2 DEF SameSearch, RowsInv, SnapshotsInv
  <2>6. CASE q.text = q.named
    <3>1. PICK r \in Requests : q = req[r]
      BY DEF Cutters
    <3>2. Asks(q) /\ Owns(q)
      BY <3>1 DEF UsableInv
    <3>3. CASE q.kind = "search"
      BY <2>1, <2>6, <3>2, <3>3 DEF Owns, SameSearch
    <3>4. CASE q.kind = "page"
      <4>1. PICK s \in shown : s.text = q.named
        BY <2>1, <3>2, <3>4 DEF Asks
      <4>2. SameSearch(q, s)
        BY <2>6, <4>1 DEF ReadInv, KnownInv
      <4>3. ~Early(s.text)
        BY <1>1, <2>1, <2>3, <4>2 DEF SameSearch
      <4> QED  BY <2>1, <4>2, <4>3 DEF LastingInv, SameSearch
    <3> QED  BY <2>1, <3>2, <3>3, <3>4 DEF Asks
  <2> QED  BY <2>1, <2>4, <2>5, <2>6
<1>5. \A v \in shown' :
        \/ Early(v.text)'
        \/ /\ v.snapshot <= Len(disk'.posts)
           /\ v.total = Cardinality(Found(disk', v.raw, v.snapshot))
  BY <1>3, <1>4
<1> QED  BY <1>5 DEF LastingInv

\* Each step keeps the invariant of the help texts.
LEMMA NextHelps ==
  ScreensTyped /\ RowsInv /\ PagesInv /\ ReadInv /\ HelpInv /\ [Next]_vars => HelpInv'
<1> SUFFICES ASSUME ScreensTyped, RowsInv, PagesInv, ReadInv, HelpInv, [Next]_vars
             PROVE  HelpInv'
  OBVIOUS
<1>1. ScreensTyped'
  BY NextTyped
<1>2. UsableInv'
  BY UsableStays DEF HelpInv
<1>3. \A r \in Requests : Holds(req[r])' /\ Owns(req[r])'
  BY <1>1, HoldsStay, OwnsStay DEF HelpInv
<1>4. LastingInv'
  BY <1>1, LastingStays DEF HelpInv
<1> QED  BY <1>2, <1>3, <1>4 DEF HelpInv

\* Nothing is searched for at the start.
LEMMA InitHelps == Init => HelpInv
<1> SUFFICES ASSUME Init PROVE HelpInv
  OBVIOUS
<1>1. Cutters = {} /\ shown = {} /\ Sessions = {}
  BY DEF Init, Cutters, Cutting, NoRequest, Sessions
<1>2. ASSUME NEW r \in Requests PROVE Asks(req[r]) /\ Holds(req[r]) /\ Owns(req[r])
  BY DEF Init, NoRequest, Asks, Holds, Holding, Owns
<1> QED  BY <1>1, <1>2 DEF HelpInv, UsableInv, LastingInv

\* The invariant holds in every reachable state.
LEMMA HelpsAlways == Spec => [](ScreensTyped /\ RowsInv /\ PagesInv /\ ReadInv /\ HelpInv)
<1>1. ScreensTyped /\ RowsInv /\ PagesInv /\ ReadInv /\ HelpInv /\ [Next]_vars =>
        ScreensTyped' /\ RowsInv' /\ PagesInv' /\ ReadInv' /\ HelpInv'
  BY NextTyped, NextRows, NextPages, NextReads, NextHelps
<1>2. Init => ScreensTyped /\ RowsInv /\ PagesInv /\ ReadInv /\ HelpInv
  BY InitTyped, InitRows, InitPages, InitReads, InitHelps
<1> QED  BY <1>1, <1>2, PTL DEF Spec

\* Whatever is typed, stored, pruned or lost in between, a page shows only posts
\* that the help texts promise, and counts all of them that have no longer word
\* beginning with a minus word.
THEOREM HelpIsTrue == Spec => []ResultsFollowHelp
<1> DEFINE ok(s, p) == Obeys(s.raw, PostText[p]) /\ ~Overshot(s.raw, PostText[p])
<1>1. ASSUME ScreensTyped, ReadInv, HelpInv, NEW s \in shown, Plain(s.raw)
      PROVE  /\ \A p \in s.items : Obeys(s.raw, PostText[p])
             /\ \/ s.total = Cardinality({i \in Promised(s) :
                                            ~Overshot(s.raw, PostText[disk.posts[i]])})
                \/ Early(s.text)
  <2>1. s \in ResultPage /\ disk \in Tables
    BY <1>1 DEF ScreensTyped, StoreTyped, TypeOK
  <2>2. s.raw \in Seq(Token) /\ s.text \in Texts /\ Usable(s.raw)
    BY <1>1, <2>1 DEF ResultPage, HelpInv, UsableInv
  <2>3. ASSUME NEW d \in Tables, NEW i \in DOMAIN d.posts
        PROVE  Matches(build_phrase_fts_query(s.raw), PostText[d.posts[i]])
                 <=> ok(s, d.posts[i])
    <3>1. d.posts[i] \in Posts
      BY DEF Tables
    <3>2. PostText[d.posts[i]] \in Seq(Words)
      BY <3>1, BotStoreAssumption
    <3> QED  BY <1>1, <2>2, <3>2, QueryFollowsHelp
  <2>4. \A p \in s.items : Obeys(s.raw, PostText[p])
    <3>1. PICK d \in Tables : CutFrom(s, d)
      BY <1>1, <2>2 DEF ReadInv, CutsInv
    <3> SUFFICES ASSUME NEW p \in s.items PROVE Obeys(s.raw, PostText[p])
      OBVIOUS
    <3>2. PICK i \in Found(d, s.raw, s.snapshot) : p = d.posts[i]
      BY <3>1 DEF CutFrom, PageIn
    <3> QED  BY <2>3, <3>2 DEF Found
  <2>5. Found(disk, s.raw, s.snapshot)
          = {i \in DOMAIN disk.posts : i <= s.snapshot /\ ok(s, disk.posts[i])}
    <3> HIDE DEF ok
    <3> QED  BY <2>1, <2>3 DEF Found
  <2>6. {i \in DOMAIN disk.posts : i <= s.snapshot /\ ok(s, disk.posts[i])}
          = {i \in Promised(s) : ~Overshot(s.raw, PostText[disk.posts[i]])}
    BY DEF Promised
  <2> QED  BY <1>1, <2>4, <2>5, <2>6 DEF HelpInv, LastingInv
<1>2. ScreensTyped /\ ReadInv /\ HelpInv => ResultsFollowHelp
  BY <1>1 DEF ResultsFollowHelp
<1> QED  BY <1>2, HelpsAlways, PTL
=============================================================================
