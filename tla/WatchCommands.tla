---------------------------- MODULE WatchCommands ----------------------------
(***************************************************************************)
(* The bot commands that change watches (bot/handlers_menu.py).  aiogram   *)
(* runs each update as a task of its own, so requests interleave with each *)
(* other and with ingestion.  Every command first runs ensure_user, whose  *)
(* COMMIT flushes whatever other tasks have written.  A request's usage    *)
(* errors change nothing and are left out.                                 *)
(***************************************************************************)
EXTENDS Storage

CONSTANTS
  Requests,   \* bound: the updates users send, each handled once
  Ops         \* the commands they use

ASSUME CommandsAssumption == Ops \subseteq {"add", "remove", "pause", "resume"}

VARIABLES
  cmd,      \* cmd[r]: where the handler of request r is
  created   \* watches that have been inserted

commandVars == <<cmd, created>>

CommandPc == {"idle", "user", "insert", "delete_events", "delete_watch",
              "check", "update", "commit", "done"}

\* id: the id the user typed; 0 for an add, which types none.
Command == [pc : CommandPc, op : {"add", "remove", "pause", "resume"},
            user : Users, id : 0..MaxWatchId]

Handling(r) == cmd[r].pc \notin {"idle", "done"}

CommandsInit ==
  /\ \E u \in Users : cmd = [r \in Requests |->
       [pc |-> "idle", op |-> "add", user |-> u, id |-> 0]]
  /\ created = {r.watch : r \in db.watches}

Continue(r, pc) == cmd' = [cmd EXCEPT ![r].pc = pc] /\ UNCHANGED created

BeginCommand(r) ==
  /\ cmd[r].pc = "idle"
  /\ \E op \in Ops, u \in Users, i \in 0..MaxWatchId :
       /\ (op = "add") <=> (i = 0)
       /\ cmd' = [cmd EXCEPT ![r] =
                    [pc |-> "user", op |-> op, user |-> u, id |-> i]]
  /\ UNCHANGED <<created, storeVars>>

EnsureUser(r) ==
  /\ cmd[r].pc = "user"
  /\ Commit
  /\ Continue(r, CASE cmd[r].op = "add"    -> "insert"
                   [] cmd[r].op = "remove" -> "delete_events"
                   [] OTHER                -> "check")

\* /watch_add, /watch_add_fts and the keyword dialogue.
AddWatch(r) ==
  /\ cmd[r].pc = "insert"
  /\ \E w \in Watches \ created :
       /\ Owner[w] = cmd[r].user
       /\ InsertWatch(w)
       /\ created' = created \cup {w}
  /\ cmd' = [cmd EXCEPT ![r].pc = "commit"]
  /\ UNCHANGED disk

\* /watch_remove and the delete button: two statements and one COMMIT.
RemoveEvents(r) ==
  /\ cmd[r].pc = "delete_events"
  /\ DeleteEvents(cmd[r].id, cmd[r].user)
  /\ Continue(r, "delete_watch")
  /\ UNCHANGED disk

\* An event written in between makes the DELETE fail; the handler ends
\* there, and the transaction stays open.
RemoveWatch(r) ==
  /\ cmd[r].pc = "delete_watch"
  /\ \/ /\ DeleteRejected(cmd[r].id, cmd[r].user)
        /\ Continue(r, "done")
        /\ UNCHANGED db
     \/ /\ ~DeleteRejected(cmd[r].id, cmd[r].user)
        /\ DeleteWatch(cmd[r].id, cmd[r].user)
        /\ Continue(r, "commit")
  /\ UNCHANGED disk

\* Mutant: the watch is looked up by its id alone.
FindAnyWatch(r) ==
  /\ cmd[r].pc = "check"
  /\ Continue(r, IF \A v \in db.watches : v.id # cmd[r].id
                   THEN "done" ELSE "update")
  /\ UNCHANGED storeVars

\* /watch_pause and /watch_resume look the watch up for its owner ...
FindWatch(r) ==
  /\ cmd[r].pc = "check"
  /\ Continue(r, IF WatchRowsOf(cmd[r].id, cmd[r].user) = {}
                   THEN "done" ELSE "update")
  /\ UNCHANGED storeVars

\* ... and then update whatever row has that id.
UpdateEnabled(r) ==
  /\ cmd[r].pc = "update"
  /\ SetEnabled(cmd[r].id, cmd[r].op = "resume")
  /\ Continue(r, "commit")
  /\ UNCHANGED disk

CommitCommand(r) ==
  /\ cmd[r].pc = "commit"
  /\ Commit
  /\ Continue(r, "done")

CommandStep(r) ==
  \/ EnsureUser(r)
  \/ AddWatch(r)
  \/ RemoveEvents(r)
  \/ RemoveWatch(r)
  \/ FindWatch(r)
  \/ UpdateEnabled(r)
  \/ CommitCommand(r)
=============================================================================
