------------------------------- MODULE BotStore -------------------------------
(***************************************************************************)
(* The tables behind the bot's screens, on the connection that every       *)
(* handler shares: db is what a statement sees, disk what the last COMMIT  *)
(* left.  A post's rowid is its place in posts: rows of messages are never *)
(* deleted, so the next rowid is one past the largest.                     *)
(***************************************************************************)
EXTENDS PhraseQuery, FiniteSets, FiniteSetsExt

CONSTANTS
  Users,       \* chats that talk to the bot
  Posts,
  PostText,    \* PostText[p]: the words of p
  Stored,      \* posts that an earlier process has stored, each once
  Rank,        \* Rank[S][p]: bm25 of p when S are the stored posts
  PageSize,    \* SEARCH_PAGE_SIZE
  Texts,       \* texts users send, each once
  Sender,      \* Sender[t]: who sends t
  Tokens,      \* Tokens[t]: the tokens of t
  Saved,       \* texts that an earlier process has saved as keywords
  Chats        \* source chats

ASSUME BotStoreAssumption ==
  /\ PostText \in [Posts -> Seq(Words)]
  /\ Stored \in Seq(Posts)
  /\ \A i, j \in DOMAIN Stored : i # j => Stored[i] # Stored[j]
  /\ IsFiniteSet(Posts)
  /\ Rank \in [SUBSET Posts -> [Posts -> Nat]]
  /\ PageSize \in Nat \ {0}
  /\ Texts # {}
  /\ Sender \in [Texts -> Users]
  /\ Tokens \in [Texts -> Seq(Token)]
  /\ Saved \in Seq(Texts)
  /\ \A i, j \in DOMAIN Saved : i # j => Saved[i] # Saved[j]

\* text: which search it is (each text is sent once).  old: created_at is more
\* than retention_days ago.
Session == [id : Nat, text : Texts, raw : Seq(Token), snapshot : Nat, old : BOOLEAN]

\* Watches added by the keyword dialogue.
Keyword == [id : Nat, text : Texts]

\* titled: rows whose title is not NULL.
Tables == [posts    : Seq(Posts),
           sessions : SUBSET Session,
           keywords : SUBSET Keyword,
           sources  : SUBSET Chats,
           titled   : SUBSET Chats]

VARIABLES db, disk

Commit == disk' = db /\ UNCHANGED db

LoseUncommitted == db' = disk /\ UNCHANGED disk

\* INTEGER PRIMARY KEY without AUTOINCREMENT.
NextId(rows) == Max({0} \cup {r.id : r \in rows}) + 1

RowOf(rows, id, u) == {r \in rows : r.id = id /\ Sender[r.text] = u}

-----------------------------------------------------------------------------
(* messages *)

\* Mutant: the snapshot leaves room for the next post.
MaxRowidPlusOne == Len(db.posts) + 1

MaxRowid == Len(db.posts)

\* Places in the table d that a snapshot covers and a query matches.
Found(d, raw, snapshot) ==
  {i \in DOMAIN d.posts :
     i <= snapshot /\ Matches(build_phrase_fts_query(raw), PostText[d.posts[i]])}

\* ORDER BY rank, rowid DESC.  bm25 weighs a row against the whole index, so
\* the order may change with every post that is stored.
Before(i, j) ==
  LET rank == Rank[ToSet(db.posts)] IN
    \/ rank[db.posts[i]] < rank[db.posts[j]]
    \/ rank[db.posts[i]] = rank[db.posts[j]] /\ i > j

\* Mutant: the offset is a page number and not a row number.
PageByNumber(found, page) ==
  {i \in found : LET k == Cardinality({j \in found : Before(j, i)}) IN
                   page - 1 <= k /\ k < page - 1 + PageSize}

\* LIMIT PageSize OFFSET (page - 1) * PageSize
Page(found, page) ==
  {i \in found : LET k == Cardinality({j \in found : Before(j, i)}) IN
                   (page - 1) * PageSize <= k /\ k < page * PageSize}

Pages(total) == (total + PageSize - 1) \div PageSize
=============================================================================
