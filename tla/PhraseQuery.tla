----------------------------- MODULE PhraseQuery -----------------------------
(***************************************************************************)
(* What a typed phrase searches for (match/fts_query.py) and what the help *)
(* texts say it does.  A word is a lowercase run of letters and digits in  *)
(* its normal form (ingest/normalize.py), a post's text the sequence of    *)
(* its words.  A blank-separated token may hold no such run ("---"), or    *)
(* several ("wi-fi").                                                      *)
(***************************************************************************)
EXTENDS Naturals, Sequences, SequencesExt

CONSTANTS
  Words,
  Begins,  \* Begins[w]: the words that begin with w, and w is one of them
  Short    \* words of fewer than three letters

ASSUME WordsAssumption ==
  /\ Begins \in [Words -> SUBSET Words]
  /\ \A w \in Words : w \in Begins[w]
  /\ Short \subseteq Words

Token == [minus : BOOLEAN, runs : Seq(Words)]

\* The include or the exclude tokens of parse_search_input: those of which
\* normalize_token makes a word, the first run, and no other.
Kept(raw, minus) ==
  LET kept[n \in 0..Len(raw)] ==
        IF n = 0 THEN <<>>
        ELSE IF raw[n].minus = minus /\ raw[n].runs # <<>>
             THEN Append(kept[n - 1], raw[n])
             ELSE kept[n - 1]
  IN  kept[Len(raw)]

Firsts(tokens) == [i \in DOMAIN tokens |-> Head(tokens[i].runs)]

\* A query of minus words alone is no query.
Usable(raw) == Kept(raw, FALSE) # <<>>

build_phrase_fts_query(raw) ==
  [phrase  |-> Firsts(Kept(raw, FALSE)),
   without |-> ToSet(Firsts(Kept(raw, TRUE)))]

\* Mutant: short words are starred as well.
AlwaysStarred(w) == Begins[w]

\* What a bare word of a query matches: _as_prefix_token stars the longer ones.
Bare(w) == IF w \in Short THEN {w} ELSE Begins[w]

\* FTS5's MATCH.  The tokenizer drops the stars inside the quotes, so the
\* words of the phrase match exactly; NOT takes bare words.
Matches(query, text) ==
  /\ \E i \in 0..Len(text) :
       /\ i + Len(query.phrase) <= Len(text)
       /\ \A j \in DOMAIN query.phrase : text[i + j] = query.phrase[j]
  /\ \A w \in query.without : ToSet(text) \cap Bare(w) = {}

-----------------------------------------------------------------------------
(* The rules of the help texts: the phrase occurs as it was typed, and no  *)
(* minus word does.                                                        *)

MinusWords(raw) == UNION {ToSet(t.runs) : t \in {v \in ToSet(raw) : v.minus}}

Typed(raw) == FlattenSeq([i \in DOMAIN Kept(raw, FALSE) |-> Kept(raw, FALSE)[i].runs])

Obeys(raw, text) ==
  /\ \E i \in DOMAIN text : IsPrefix(Typed(raw), SubSeq(text, i, Len(text)))
  /\ ToSet(text) \cap MinusWords(raw) = {}

\* The text has a word that only begins with a minus word of three letters or
\* more.
Overshot(raw, text) ==
  \E w \in MinusWords(raw) \ Short : ToSet(text) \cap (Begins[w] \ {w}) # {}

\* Every token is one word at most.  Of "wi-fi" only "wi" is searched for.
Plain(raw) == \A t \in ToSet(raw) : Len(t.runs) <= 1
=============================================================================
