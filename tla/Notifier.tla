------------------------------- MODULE Notifier ------------------------------
(***************************************************************************)
(* The delivery loop (bot/notifier.py): a snapshot of the pending events,  *)
(* then one message to the owner of each, and only afterwards the mark     *)
(* that keeps it from being sent again.  The Bot API may refuse a send     *)
(* (the owner blocked the bot), fail it, for a time or for good, or fail   *)
(* to report one it made.                                                  *)
(*                                                                         *)
(* _poll also marks an event whose message row, or whose owner, is gone;   *)
(* neither happens (no statement deletes messages, and list_pending JOINs  *)
(* the owner), which EventMessagesStored of AlertPipeline states.          *)
(***************************************************************************)
EXTENDS Storage

CONSTANTS
  Blocked,     \* users who blocked the bot
  Unreachable, \* users to whom every send ends in another error (chat not found)
  MaxLostAcks  \* bound: sends that arrive but are reported as failed

ASSUME NotifierAssumption ==
  /\ Blocked \subseteq Users
  /\ Unreachable \subseteq Users \ Blocked
  /\ MaxLostAcks \in Nat

VARIABLES
  ntf,        \* the poll loop and the rest of its snapshot
  inbox,      \* inbox[w][m]: alerts about m that reached the owner of w
  refused,    \* <<w, m>> whose delivery Telegram forbade
  lostAcks

notifierVars == <<ntf, inbox, refused, lostAcks>>

PendingRow == [id : EventIds, watch : Watches, message : Messages]

IdleNotifier == [pc |-> "poll", queue |-> {}]

NotifierInit ==
  /\ ntf = IdleNotifier
  /\ inbox = [w \in Watches |-> [m \in Messages |-> 0]]
  /\ refused = {}
  /\ lostAcks = 0

Deliver(e) == inbox' = [inbox EXCEPT ![e.watch][e.message] = @ + 1]

Reachable(w) == Owner[w] \notin Blocked \cup Unreachable

BackOff == ntf' = IdleNotifier

\* Mutant: events are marked when they are picked, not after the send.
PollAndMark ==
  /\ ntf.pc = "poll"
  /\ PendingRows # {}
  /\ ntf' = [pc |-> "mark", queue |-> PendingRows]
  /\ UNCHANGED <<inbox, refused, lostAcks, storeVars>>

Poll ==
  /\ ntf.pc = "poll"
  /\ PendingRows # {}
  /\ ntf' = [pc |-> "send", queue |-> PendingRows]
  /\ UNCHANGED <<inbox, refused, lostAcks, storeVars>>

SendOk(e) ==
  /\ ntf.pc = "send"
  /\ Reachable(e.watch)
  /\ Deliver(e)
  /\ ntf' = [ntf EXCEPT !.pc = "mark"]
  /\ UNCHANGED <<refused, lostAcks, storeVars>>

\* Mutant: a blocked owner is one more reason to back off.
ForbiddenBacksOff(e) ==
  /\ ntf.pc = "send"
  /\ Owner[e.watch] \in Blocked
  /\ refused' = refused \cup {<<e.watch, e.message>>}
  /\ BackOff
  /\ UNCHANGED <<inbox, lostAcks, storeVars>>

\* TelegramForbiddenError: the event is given up.
SendForbidden(e) ==
  /\ ntf.pc = "send"
  /\ Owner[e.watch] \in Blocked
  /\ refused' = refused \cup {<<e.watch, e.message>>}
  /\ ntf' = [ntf EXCEPT !.pc = "mark"]
  /\ UNCHANGED <<inbox, lostAcks, storeVars>>

\* Mutant: any error gives the event up.
FailureGivesUp(e) ==
  /\ ntf.pc = "send"
  /\ ntf' = [ntf EXCEPT !.pc = "mark"]
  /\ UNCHANGED <<inbox, refused, lostAcks, storeVars>>

\* Any other error ends the pass; the events stay pending.
SendFails(e) ==
  /\ ntf.pc = "send"
  /\ BackOff
  /\ UNCHANGED <<inbox, refused, lostAcks, storeVars>>

SendLostAck(e) ==
  /\ ntf.pc = "send"
  /\ Reachable(e.watch)
  /\ lostAcks < MaxLostAcks
  /\ lostAcks' = lostAcks + 1
  /\ Deliver(e)
  /\ BackOff
  /\ UNCHANGED <<refused, storeVars>>

Mark(e) ==
  /\ ntf.pc = "mark"
  /\ MarkNotified(e.id)
  /\ ntf' = [ntf EXCEPT !.pc = "close"]
  /\ UNCHANGED <<inbox, refused, lostAcks, disk>>

CommitMark(e) ==
  /\ ntf.pc = "close"
  /\ Commit
  /\ LET rest == ntf.queue \ {e} IN
       ntf' = [pc |-> IF rest = {} THEN "poll" ELSE "send", queue |-> rest]
  /\ UNCHANGED <<inbox, refused, lostAcks>>

SendSettled ==
  \E e \in First(ntf.queue) : SendOk(e) \/ SendForbidden(e)

NotifierStep ==
  \/ Poll
  \/ SendSettled
  \/ \E e \in First(ntf.queue) :
       SendFails(e) \/ SendLostAck(e) \/ Mark(e) \/ CommitMark(e)
=============================================================================
