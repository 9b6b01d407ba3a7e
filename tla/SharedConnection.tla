--------------------------- MODULE SharedConnection --------------------------
(***************************************************************************)
(* How the write operations of storage/repo.py share one connection with   *)
(* each other and the file with other processes.  Every operation is the   *)
(* same loop (run_with_sqlite_lock_retry): its statements in order, one    *)
(* COMMIT, and on "database is locked" a ROLLBACK, a pause and another     *)
(* attempt.  ROLLBACK and COMMIT act on the connection, so on whatever     *)
(* other operations have under way.                                        *)
(*                                                                         *)
(* The file is in WAL mode: only a statement that must take the write lock *)
(* can meet a lock held by another process, a COMMIT cannot.  What the     *)
(* statements write is left out: a row of the model is one execution of    *)
(* one statement.                                                          *)
(***************************************************************************)
EXTENDS Naturals, FiniteSets

CONSTANTS
  Tasks,        \* operations, each run once
  Steps,        \* Steps[t]: the number of statements of t
  Rejected,     \* operations whose last statement violates a constraint
  MaxAttempts,  \* MAX_ATTEMPTS
  MaxCrashes    \* bound: process deaths

ASSUME ConnectionAssumption ==
  /\ Steps \in [Tasks -> Nat \ {0}]
  /\ Rejected \subseteq Tasks
  /\ MaxAttempts \in Nat \ {0}
  /\ MaxCrashes \in Nat

VARIABLES
  op,       \* op[t]: where operation t is
  open,     \* rows written on the connection and not committed
  writing,  \* the connection holds the file's write lock
  file,     \* rows that are durable
  foreign,  \* another process holds the file's write lock
  crashes,
  shared,   \* history: operations that ran while another one did
  dropped   \* history: operations that lost rows to another's ROLLBACK

vars == <<op, open, writing, file, foreign, crashes, shared, dropped>>

OpPc == {"idle", "execute", "commit", "rollback", "sleep",
         "ok", "rejected", "raised", "killed"}

Operation == [pc : OpPc, attempt : 1..MaxAttempts, step : Nat]

Row == [task : Tasks, step : Nat, attempt : 1..MaxAttempts]

UnderWay(t) == op[t].pc \in {"execute", "commit", "rollback", "sleep"}

RowsOf(t, rows) == {r \in rows : r.task = t}

Init ==
  /\ op = [t \in Tasks |-> [pc |-> "idle", attempt |-> 1, step |-> 1]]
  /\ open = {}
  /\ writing = FALSE
  /\ file = {}
  /\ foreign = FALSE
  /\ crashes = 0
  /\ shared = {}
  /\ dropped = {}

GoTo(t, pc) == op' = [op EXCEPT ![t].pc = pc]

Begin(t) ==
  /\ op[t].pc = "idle"
  /\ GoTo(t, "execute")
  /\ LET others == {u \in Tasks : UnderWay(u)} IN
       shared' = IF others = {} THEN shared ELSE shared \cup others \cup {t}
  /\ UNCHANGED <<open, writing, file, foreign, crashes, dropped>>

\* Mutant: every statement is durable by itself (autocommit).
Autocommit(t) ==
  /\ op[t].pc = "execute"
  /\ ~foreign
  /\ ~(t \in Rejected /\ op[t].step = Steps[t])
  /\ file' = file \cup {[task |-> t, step |-> op[t].step, attempt |-> op[t].attempt]}
  /\ op' = [op EXCEPT ![t].step = @ + 1,
                      ![t].pc = IF op[t].step = Steps[t] THEN "commit" ELSE "execute"]
  /\ UNCHANGED <<open, writing, foreign, crashes, shared, dropped>>

\* A statement succeeds; the first one takes the write lock.
Execute(t) ==
  /\ op[t].pc = "execute"
  /\ ~foreign
  /\ ~(t \in Rejected /\ op[t].step = Steps[t])
  /\ writing' = TRUE
  /\ open' = open \cup {[task |-> t, step |-> op[t].step, attempt |-> op[t].attempt]}
  /\ op' = [op EXCEPT ![t].step = @ + 1,
                      ![t].pc = IF op[t].step = Steps[t] THEN "commit" ELSE "execute"]
  /\ UNCHANGED <<file, foreign, crashes, shared, dropped>>

\* IntegrityError: the operation returns None, or raises, without a COMMIT or
\* ROLLBACK, and leaves the transaction it may have opened.
Reject(t) ==
  /\ op[t].pc = "execute"
  /\ ~foreign
  /\ t \in Rejected
  /\ op[t].step = Steps[t]
  /\ writing' = TRUE
  /\ GoTo(t, "rejected")
  /\ UNCHANGED <<open, file, foreign, crashes, shared, dropped>>

\* Mutant: attempts are counted afresh, so the loop never gives up.
RetryForEver(t) ==
  /\ op[t].pc = "execute"
  /\ foreign
  /\ op' = [op EXCEPT ![t].pc = "rollback", ![t].attempt = 1]
  /\ UNCHANGED <<open, writing, file, foreign, crashes, shared, dropped>>

\* OperationalError "database is locked": the last attempt raises as it is.
MeetLock(t) ==
  /\ op[t].pc = "execute"
  /\ foreign
  /\ GoTo(t, IF op[t].attempt = MaxAttempts THEN "raised" ELSE "rollback")
  /\ UNCHANGED <<open, writing, file, foreign, crashes, shared, dropped>>

\* on_retry = db.rollback, then the backoff.
Rollback(t) ==
  /\ op[t].pc = "rollback"
  /\ open' = {}
  /\ writing' = FALSE
  /\ dropped' = dropped \cup {u \in Tasks \ {t} : RowsOf(u, open) # {}}
  /\ GoTo(t, "sleep")
  /\ UNCHANGED <<file, foreign, crashes, shared>>

\* Mutant: the next attempt starts one statement too early.
RetryFromZero(t) ==
  /\ op[t].pc = "sleep"
  /\ op' = [op EXCEPT ![t] = [pc |-> "execute", attempt |-> @.attempt + 1, step |-> 0]]
  /\ UNCHANGED <<open, writing, file, foreign, crashes, shared, dropped>>

\* The next attempt runs the whole operation again.
Retry(t) ==
  /\ op[t].pc = "sleep"
  /\ op' = [op EXCEPT ![t] = [pc |-> "execute", attempt |-> @.attempt + 1, step |-> 1]]
  /\ UNCHANGED <<open, writing, file, foreign, crashes, shared, dropped>>

\* Mutant: the COMMIT is forgotten.
Forget(t) ==
  /\ op[t].pc = "commit"
  /\ GoTo(t, "ok")
  /\ UNCHANGED <<open, writing, file, foreign, crashes, shared, dropped>>

\* Mutant: a COMMIT that can be refused and is retried, as in rollback-journal
\* mode.
CommitOrRetry(t) ==
  /\ op[t].pc = "commit"
  /\ \/ /\ file' = file \cup open
        /\ open' = {}
        /\ writing' = FALSE
        /\ GoTo(t, "ok")
     \/ /\ op[t].attempt < MaxAttempts
        /\ GoTo(t, "rollback")
        /\ UNCHANGED <<file, open, writing>>
  /\ UNCHANGED <<foreign, crashes, shared, dropped>>

\* COMMIT: of everything on the connection, or of nothing when the rows are
\* gone.
Commit(t) ==
  /\ op[t].pc = "commit"
  /\ file' = file \cup open
  /\ open' = {}
  /\ writing' = FALSE
  /\ GoTo(t, "ok")
  /\ UNCHANGED <<foreign, crashes, shared, dropped>>

\* Another process (a backup, an operator's sqlite3) takes and frees the lock.
ForeignLock ==
  /\ ~writing
  /\ ~foreign
  /\ foreign' = TRUE
  /\ UNCHANGED <<op, open, writing, file, crashes, shared, dropped>>

ForeignUnlock ==
  /\ foreign
  /\ foreign' = FALSE
  /\ UNCHANGED <<op, open, writing, file, crashes, shared, dropped>>

Crash ==
  /\ crashes < MaxCrashes
  /\ crashes' = crashes + 1
  /\ open' = {}
  /\ writing' = FALSE
  /\ op' = [t \in Tasks |-> IF UnderWay(t) THEN [op[t] EXCEPT !.pc = "killed"]
                                           ELSE op[t]]
  /\ UNCHANGED <<file, foreign, shared, dropped>>

Advance(t) ==
  \/ Execute(t)
  \/ Reject(t)
  \/ MeetLock(t)
  \/ Rollback(t)
  \/ Retry(t)
  \/ Commit(t)

Next ==
  \/ \E t \in Tasks : Begin(t) \/ Advance(t)
  \/ ForeignLock
  \/ ForeignUnlock
  \/ Crash

\* An operation that has begun goes on: its statements return (busy_timeout
\* bounds the wait) and its sleeps end.  Nothing makes the other process let
\* go of the lock.
Spec == Init /\ [][Next]_vars /\ \A t \in Tasks : WF_vars(Advance(t))

-----------------------------------------------------------------------------
TypeOK ==
  /\ op \in [Tasks -> Operation]
  /\ \A t \in Tasks : op[t].step \in 1..(Steps[t] + 1)
  /\ open \subseteq Row
  /\ file \subseteq Row
  /\ writing \in BOOLEAN
  /\ foreign \in BOOLEAN
  /\ crashes \in 0..MaxCrashes
  /\ shared \subseteq Tasks
  /\ dropped \subseteq Tasks

Written(t, rows) == {r.step : r \in RowsOf(t, rows)}

\* An operation that ran alone is atomic: all of it is durable once it
\* returned, and nothing of it is, or ever will be, if it was killed.  (A
\* rejected one leaves its earlier statements to the next COMMIT.)
AloneIsAtomic ==
  \A t \in Tasks \ shared :
    /\ op[t].pc = "ok" => Written(t, file) = 1..Steps[t]
    /\ op[t].pc \in {"killed", "raised"} => RowsOf(t, file \cup open) = {}

\* What an operation reported as done is durable, unless another operation's
\* retry rolled it back in between.
AcknowledgedIsDurable ==
  \A t \in Tasks : op[t].pc = "ok" => \/ Written(t, file) = 1..Steps[t]
                                      \/ t \in dropped

\* However often an operation is tried, and whoever commits its rows, its
\* last statement (the INSERT) takes effect once at most.
InsertedOnce ==
  \A t \in Tasks :
    Cardinality({r \in file \cup open : r.task = t /\ r.step = Steps[t]}) <= 1

\* No operation hangs on a lock that another process never gives back.
OperationsEnd == \A t \in Tasks : UnderWay(t) ~> ~UnderWay(t)
=============================================================================
