------------------------------- MODULE Dialogues ------------------------------
(***************************************************************************)
(* The bot's two dialogues (bot/handlers_search.py, handlers_keywords.py). *)
(* A button opens a prompt and sets the chat's state; the next text of the *)
(* chat goes to the handler of that state.  aiogram reads the state when   *)
(* an update comes in and runs its handler as a task of its own.  Commands *)
(* of the menu's router come first and leave the state alone, and so do    *)
(* all of its buttons.                                                     *)
(***************************************************************************)
EXTENDS HistorySearch

CONSTANT Slash   \* texts whose first token is /search

ASSUME DialoguesAssumption ==
  /\ Slash \subseteq Texts
  /\ \A t \in Slash : Len(Tokens[t]) > 1

VARIABLES
  fsm,      \* fsm[u]: the state of u's chat, in the Dispatcher's memory
  prompt,   \* history: what became of the last prompt shown to u
  sent,     \* texts that were sent
  details   \* history: delete buttons shown, each under a keyword's name

dialogueVars == <<fsm, prompt, sent, details>>

\* contested: shown while a text of u was being handled.
PromptStates == {"closed", "open", "contested", "answered"}

Submitting(u) ==
  \E r \in Requests : /\ ~Free(r)
                      /\ req[r].user = u
                      /\ req[r].prompted \/ req[r].kind = "keyword"

\* menu_search, search_new ("query") and keywords_add_start ("text").
ShowPrompt(u, state) ==
  /\ fsm' = [fsm EXCEPT ![u] = state]
  /\ prompt' = [prompt EXCEPT ![u] = IF Submitting(u) THEN "contested" ELSE "open"]
  /\ UNCHANGED <<searchVars, sent, details, db, disk>>

\* search_back
PressBack(u) ==
  /\ fsm' = [fsm EXCEPT ![u] = "none"]
  /\ prompt' = [prompt EXCEPT ![u] = "closed"]
  /\ UNCHANGED <<searchVars, sent, details, db, disk>>

\* A text that some handler takes up.  search_submit is registered before
\* cmd_search, so in the state "query" the whole of "/search lamp" is the
\* query, and in the state "text" it is the keyword.
SendText(r, t) ==
  /\ Free(r)
  /\ t \notin sent
  /\ sent' = sent \cup {t}
  /\ LET u == Sender[t] IN
       CASE fsm[u] = "query" -> Begin(r, "search", TRUE, u, t, Tokens[t], 0, 1)
         [] fsm[u] = "text" /\ Usable(Tokens[t]) ->
              Begin(r, "keyword", FALSE, u, t, Tokens[t], 0, 0)
         [] fsm[u] = "none" /\ t \in Slash ->
              Begin(r, "search", FALSE, u, t, Tail(Tokens[t]), 0, 1)
         [] OTHER -> FALSE
  /\ UNCHANGED <<shown, expired, fsm, prompt, details, db, disk>>

\* The state is cleared, whatever it is by then.
ClearState(r) ==
  /\ req[r].pc = "clear"
  /\ fsm' = [fsm EXCEPT ![req[r].user] = "none"]
  /\ Finish(r)
  /\ UNCHANGED <<shown, expired, prompt, sent, details, db, disk>>

\* The results are on the screen, and a prompt that asked for them is answered.
Answer(r) ==
  /\ ShowRows(r)
  /\ prompt' = IF req[r].prompted THEN [prompt EXCEPT ![req[r].user] = "answered"]
                                  ELSE prompt
  /\ UNCHANGED <<fsm, sent, details>>

-----------------------------------------------------------------------------
(* Keywords *)

SaveKeyword(r) ==
  /\ req[r].pc = "save"
  /\ db' = [db EXCEPT !.keywords =
              @ \cup {[id |-> NextId(@), text |-> req[r].text]}]
  /\ Goto(r, "commit_save")
  /\ UNCHANGED <<shown, expired, dialogueVars, disk>>

\* Mutant: the state stays after a keyword was saved.
CommitKeywordOnly(r) ==
  /\ req[r].pc = "commit_save"
  /\ Commit
  /\ prompt' = [prompt EXCEPT ![req[r].user] = "answered"]
  /\ Finish(r)
  /\ UNCHANGED <<shown, expired, fsm, sent, details>>

\* The list that is shown after clear() only reads.
CommitKeyword(r) ==
  /\ req[r].pc = "commit_save"
  /\ Commit
  /\ prompt' = [prompt EXCEPT ![req[r].user] = "answered"]
  /\ Goto(r, "clear")
  /\ UNCHANGED <<shown, expired, fsm, sent, details>>

\* A button of some earlier list of keywords: it carries an id alone, and the
\* row that has the id may be another user's by then.
PressOpen(r) ==
  /\ Free(r)
  /\ \E k \in db.keywords \cup disk.keywords, u \in Users :
       Begin(r, "open", FALSE, u, k.text, <<>>, k.id, 0)
  /\ UNCHANGED <<shown, expired, dialogueVars, db, disk>>

\* keywords_open: the screen names the row that has the id now.
ShowDetails(r) ==
  /\ req[r].pc = "details"
  /\ details' = details \cup {[user |-> req[r].user, id |-> k.id, text |-> k.text] :
                                k \in RowOf(db.keywords, req[r].id, req[r].user)}
  /\ Finish(r)
  /\ UNCHANGED <<shown, expired, fsm, prompt, sent, db, disk>>

PressDelete(r) ==
  /\ Free(r)
  /\ \E d \in details : Begin(r, "delete", FALSE, d.user, d.text, <<>>, d.id, 0)
  /\ UNCHANGED <<shown, expired, dialogueVars, db, disk>>

\* keywords_delete looks for the owner's row ...
FindKeyword(r) ==
  /\ req[r].pc = "find"
  /\ IF RowOf(db.keywords, req[r].id, req[r].user) = {} THEN Finish(r)
                                                        ELSE Goto(r, "remove")
  /\ UNCHANGED <<shown, expired, dialogueVars, db, disk>>

\* Mutant: the DELETE names the owner and not the keyword.
RemoveAll(r) ==
  /\ req[r].pc = "remove"
  /\ db' = [db EXCEPT !.keywords = {k \in @ : Sender[k.text] # req[r].user}]
  /\ Goto(r, "commit_remove")
  /\ UNCHANGED <<shown, expired, dialogueVars, disk>>

\* ... and removes whatever row of the owner has the id by then.
RemoveKeyword(r) ==
  /\ req[r].pc = "remove"
  /\ db' = [db EXCEPT !.keywords = @ \ RowOf(@, req[r].id, req[r].user)]
  /\ Goto(r, "commit_remove")
  /\ UNCHANGED <<shown, expired, dialogueVars, disk>>

CommitRemoval(r) ==
  /\ req[r].pc = "commit_remove"
  /\ Commit
  /\ Finish(r)
  /\ UNCHANGED <<shown, expired, dialogueVars>>

KeywordStep(r) ==
  \/ SaveKeyword(r)
  \/ CommitKeyword(r)
  \/ ShowDetails(r)
  \/ FindKeyword(r)
  \/ RemoveKeyword(r)
  \/ CommitRemoval(r)
=============================================================================
