----------------------------- MODULE MCBotScreens -----------------------------
(* A small instance of BotScreens. *)
EXTENDS BotScreens, TLC

CONSTANTS u1, u2, p1, p2, p3, p4, t0, t1, t2, t3, t4, c1, c2

Word(w) == [minus |-> FALSE, runs |-> <<w>>]
Minus(w) == [minus |-> TRUE, runs |-> <<w>>]

\* "la" is too short to be starred.
MCWords == {"lamp", "la", "red", "redwood", "search"}
MCBegins == [w \in MCWords |-> CASE w = "la"  -> {"la", "lamp"}
                                 [] w = "red" -> {"red", "redwood"}
                                 [] OTHER     -> {w}]
MCShort == {"la"}

MCPostText == [p \in Posts |->
  CASE p = p1 -> <<"red", "lamp">>
    [] p = p2 -> <<"lamp">>
    [] p = p3 -> <<"lamp", "red">>
    [] OTHER  -> <<"lamp", "redwood">>]
MCStored == <<p1, p2, p4>>

\* Once a fourth post is there, the oldest one ranks first.
MCRank == [S \in SUBSET Posts |->
            [p \in Posts |-> IF p = p1 /\ Cardinality(S) > 3 THEN 0 ELSE 1]]

\* "red lamp" and "/search lamp -red -la" by u1, "/search lamp" by u2, and a text
\* that searches for nothing.
MCSender == [t \in Texts |-> IF t = t3 THEN u2 ELSE u1]
MCTokens == [t \in Texts |->
  CASE t = t1 -> <<Word("red"), Word("lamp")>>
    [] t = t2 -> <<Word("search"), Word("lamp"), Minus("red"), Minus("la")>>
    [] t = t3 -> <<Word("search"), Word("lamp")>>
    [] t = t4 -> <<Minus("red")>>
    [] OTHER  -> <<Word("red")>>]

\* A keyword whose button is still in a chat; Init may have it removed.
MCSaved == <<t0>>

\* Updates are told apart only by what is in them.
Interchangeable == Permutations(Requests) \cup Permutations(Chats)
=============================================================================
