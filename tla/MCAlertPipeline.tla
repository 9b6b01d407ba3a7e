--------------------------- MODULE MCAlertPipeline ---------------------------
(* Small instances of AlertPipeline. *)
EXTENDS AlertPipeline, Sequences, TLC

CONSTANTS m1, m2, m3, w1, w2, w3, w4, u1, u2, u3, k, none

\* w1 and w4 belong to u1, w2 to u2, w3 to u3.
OwnerOf == [w \in Watches |-> CASE w = w2 -> u2 [] w = w3 -> u3 [] OTHER -> u1]

\* m1 and m2 are one text in two chats; m3 has no dedupe key.
KeyOf == [m \in Messages |-> IF m = m3 THEN none ELSE k]

\* w1 matches every post and the others only the first one; or all match all,
\* or w1 alone matches, and only the first.
AllHits == Watches \X Messages
FirstHit == {<<w1, m1>>}
SomeHits == {<<w, m>> \in AllHits : w = w1 \/ (w # w4 /\ m = m1)}

\* A new file, and files with w1 behind the watch of a user who blocked the bot,
\* behind that of an unreachable one, and before a malformed one.
NewFile == {EmptyStore}
FileOf(f) ==
  [EmptyStore EXCEPT !.watches =
     {[id |-> i, watch |-> f[i], enabled |-> TRUE] : i \in DOMAIN f}]
OldFiles == {FileOf(<<w2, w1>>), FileOf(<<w3, w1>>), FileOf(<<w1, w4>>)}

\* Updates are told apart only by what is in them.
Interchangeable == Permutations(Requests)
=============================================================================
