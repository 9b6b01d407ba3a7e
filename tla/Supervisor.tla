------------------------------ MODULE Supervisor ------------------------------
(***************************************************************************)
(* The life of the runtime processes of one host: the flock they compete   *)
(* for (runtime_lock.py), the supervisor's loop of iterations, backoff and *)
(* exit (run_supervised), and one iteration (_run_once): a startup whose   *)
(* every step may fail, the tasks of which the first to end ends the       *)
(* iteration, and the ordered shutdown.                                    *)
(*                                                                         *)
(* What the tasks do is the business of AlertPipeline; here a task is      *)
(* alive or over.                                                          *)
(***************************************************************************)
EXTENDS Naturals, Sequences, SequencesExt

CONSTANTS
  Procs,        \* processes that a container manager or an operator runs
  BaseDelay,    \* runtime_restart_base_delay_seconds
  MaxDelay,     \* runtime_restart_max_delay_seconds
  MaxFailures,  \* bound: transient failures
  MaxLaunches   \* bound: launches of a process

ASSUME SupervisorAssumption ==
  /\ BaseDelay \in Nat \ {0}
  /\ MaxDelay \in Nat
  /\ BaseDelay <= MaxDelay
  /\ MaxFailures \in Nat
  /\ MaxLaunches \in Nat

VARIABLES
  run,         \* run[p]: the state of process p
  holders,     \* processes that hold the flock
  duplicated,  \* the Telethon session was used on another host
  failures,
  launches

vars == <<run, holders, duplicated, failures, launches>>

CriticalTasks == {"polling", "healthcheck", "disconnected", "notifier"}
Resources     == {"telethon", "db", "bot"}

StartupPc == {"init_db", "connect", "menu", "backfill"}
RunPc == StartupPc \cup {"off", "running", "cleanup", "backoff", "release", "exited"}

\* An exception is the sequence of those that its __cause__ and __context__
\* chain; "restart" is RuntimeRestartError, "revoked" one of
\* _UNRECOVERABLE_AUTH_ERRORS.
Outcome == {"failed", "revoked"}
Errors  == {<<>>} \cup {<<o>> : o \in Outcome} \cup {<<"restart", o>> : o \in Outcome}

Process == [pc    : RunPc,
            live  : SUBSET (CriticalTasks \cup Resources),
            done  : SUBSET [task : CriticalTasks, outcome : Outcome],
            error : Errors,
            stop  : BOOLEAN,
            delay : BaseDelay..MaxDelay]

Idle(pc) == [pc |-> pc, live |-> {}, done |-> {}, error |-> <<>>,
             stop |-> FALSE, delay |-> BaseDelay]

Alive(p) == run[p].pc \notin {"off", "exited"}

Init ==
  /\ run = [p \in Procs |-> Idle("off")]
  /\ holders = {}
  /\ duplicated = FALSE
  /\ failures = 0
  /\ launches = 0

\* A transient failure, of which there are finitely many.
Failing == failures < MaxFailures /\ failures' = failures + 1

-----------------------------------------------------------------------------
\* acquire_runtime_lock: LOCK_EX | LOCK_NB.
Launch(p) ==
  /\ ~Alive(p)
  /\ launches < MaxLaunches
  /\ holders = {}
  /\ holders' = {p}
  /\ launches' = launches + 1
  /\ run' = [run EXCEPT ![p] = Idle("init_db")]
  /\ UNCHANGED <<duplicated, failures>>

\* RuntimeInstanceLockedError: the process exits at once.
LaunchRefused(p) ==
  /\ ~Alive(p)
  /\ launches < MaxLaunches
  /\ holders # {}
  /\ launches' = launches + 1
  /\ run' = [run EXCEPT ![p] = Idle("exited")]
  /\ UNCHANGED <<holders, duplicated, failures>>

\* SIGINT or SIGTERM sets the event; nobody is interrupted.
Signal(p) ==
  /\ Alive(p)
  /\ ~run[p].stop
  /\ run' = [run EXCEPT ![p].stop = TRUE]
  /\ UNCHANGED <<holders, duplicated, failures, launches>>

\* SIGKILL or a power failure: the kernel frees the flock.
Kill(p) ==
  /\ Alive(p)
  /\ run' = [run EXCEPT ![p] = Idle("exited")]
  /\ holders' = holders \ {p}
  /\ UNCHANGED <<duplicated, failures, launches>>

\* Another host connects with a copy of the session (external).
Duplicate ==
  /\ ~duplicated
  /\ duplicated' = TRUE
  /\ UNCHANGED <<run, holders, failures, launches>>

-----------------------------------------------------------------------------
\* One step of the startup returns: opened are the parts it leaves behind.
Started(p, from, opened, to) ==
  /\ run[p].pc = from
  /\ run' = [run EXCEPT ![p].pc = to, ![p].live = @ \cup opened]
  /\ UNCHANGED <<holders, duplicated, failures, launches>>

\* init_db; TelegramClient() is only constructed.
OpenDb(p) == Started(p, "init_db", {"db", "telethon"}, "connect")

\* telethon.start, ensure_user_session, sync_sources_from_env; Bot() is only
\* constructed.  Telegram refuses a duplicated key.
Connect(p) == ~duplicated /\ Started(p, "connect", {"bot"}, "menu")

ConfigureMenu(p) == Started(p, "menu", {}, "backfill")

\* collector.start, then the tasks are created.
StartTasks(p) == Started(p, "backfill", CriticalTasks, "running")

\* A step of the startup raises: to the finally clause.
StartupFails(p) ==
  /\ run[p].pc \in StartupPc
  /\ \E o \in Outcome :
       /\ IF o = "revoked"
            THEN /\ duplicated
                 /\ run[p].pc \in {"connect", "backfill"}
                 /\ UNCHANGED failures
            ELSE Failing
       /\ run' = [run EXCEPT ![p].pc = "cleanup", ![p].error = <<o>>]
  /\ UNCHANGED <<holders, duplicated, launches>>

\* A task stops or raises, while the iteration runs or shuts down.
TaskEnds(p, t) ==
  /\ run[p].pc \in {"running", "cleanup"}
  /\ t \in run[p].live
  /\ \E o \in Outcome :
       /\ IF o = "revoked" THEN duplicated /\ t = "disconnected" /\ UNCHANGED failures
                           ELSE Failing
       /\ run' = [run EXCEPT ![p].live = @ \ {t},
                             ![p].done = @ \cup {[task |-> t, outcome |-> o]}]
  /\ UNCHANGED <<holders, duplicated, launches>>

\* Mutant: shutdown-wait is not among the tasks waited for.
WakeOnFailure(p) ==
  /\ run[p].pc = "running"
  /\ \E d \in run[p].done :
       run' = [run EXCEPT ![p].pc = "cleanup", ![p].error = <<"restart", d.outcome>>]
  /\ UNCHANGED <<holders, duplicated, failures, launches>>

\* Mutant: the stop frees the lock at once.
WakeAndRelease(p) ==
  /\ run[p].pc = "running"
  /\ run[p].stop \/ run[p].done # {}
  /\ run' = [run EXCEPT ![p].pc = "cleanup"]
  /\ holders' = holders \ {p}
  /\ UNCHANGED <<duplicated, failures, launches>>

\* asyncio.wait returns.  A task that ended in the same turn of the loop as
\* the stop came in may be seen first; of several, any one is reported.
Wake(p) ==
  /\ run[p].pc = "running"
  /\ \/ /\ run[p].stop
        /\ run' = [run EXCEPT ![p].pc = "cleanup"]
     \/ \E d \in run[p].done :
          run' = [run EXCEPT ![p].pc = "cleanup", ![p].error = <<"restart", d.outcome>>]
  /\ UNCHANGED <<holders, duplicated, failures, launches>>

-----------------------------------------------------------------------------
\* Mutant: the resources go first.
ResourcesFirst == <<"telethon", "db", "bot", "polling", "healthcheck", "disconnected", "notifier">>

CleanupOrder == <<"polling", "healthcheck", "disconnected", "notifier", "telethon", "db", "bot">>

\* The finally clause ends the next part that is there; a task that is over
\* already and an error of disconnect() are passed over.
CleanUp(p) ==
  /\ run[p].pc = "cleanup"
  /\ run[p].live # {}
  /\ LET next == SelectInSeq(CleanupOrder, LAMBDA part : part \in run[p].live) IN
       run' = [run EXCEPT ![p].live = @ \ {CleanupOrder[next]}]
  /\ UNCHANGED <<holders, duplicated, failures, launches>>

\* Mutant: only the exception itself is looked at.
DirectlyUnrecoverable(error) == error # <<>> /\ Head(error) = "revoked"

\* Mutant: only failures of tasks are looked at.
UnrecoverableTask(error) == Len(error) = 2 /\ error[2] = "revoked"

\* _find_unrecoverable_auth_error
Unrecoverable(error) == Contains(error, "revoked")

\* Mutant: an error of disconnect() skips the rest of the finally clause.
ConcludeEarly(p) ==
  /\ run[p].pc = "cleanup"
  /\ run[p].live \subseteq {"db", "bot"}
  /\ run' = [run EXCEPT ![p].pc =
               IF run[p].error = <<>> \/ run[p].stop \/ Unrecoverable(run[p].error)
                 THEN "release" ELSE "backoff"]
  /\ UNCHANGED <<holders, duplicated, failures, launches>>

\* The iteration is over: the supervisor stops, gives up or pauses.
Conclude(p) ==
  /\ run[p].pc = "cleanup"
  /\ run[p].live = {}
  /\ run' = [run EXCEPT ![p].pc =
               IF run[p].error = <<>> \/ run[p].stop \/ Unrecoverable(run[p].error)
                 THEN "release" ELSE "backoff"]
  /\ UNCHANGED <<holders, duplicated, failures, launches>>

\* Mutant: the delay is doubled without its limit.
DoubledDelay(delay) == 2 * delay

NextDelay(delay) == IF 2 * delay < MaxDelay THEN 2 * delay ELSE MaxDelay

\* The sleep ends, whatever signal came in meanwhile, and an iteration begins.
Restart(p) ==
  /\ run[p].pc = "backoff"
  /\ run' = [run EXCEPT ![p].pc = "init_db", ![p].done = {}, ![p].error = <<>>,
                        ![p].delay = NextDelay(run[p].delay)]
  /\ UNCHANGED <<holders, duplicated, failures, launches>>

\* RuntimeLock.release, and the process ends.
Release(p) ==
  /\ run[p].pc = "release"
  /\ holders' = holders \ {p}
  /\ run' = [run EXCEPT ![p] = Idle("exited")]
  /\ UNCHANGED <<duplicated, failures, launches>>

-----------------------------------------------------------------------------
\* What a process does by itself.
Proceed(p) ==
  \/ OpenDb(p)
  \/ Connect(p)
  \/ ConfigureMenu(p)
  \/ StartTasks(p)
  \/ StartupFails(p)
  \/ Wake(p)
  \/ CleanUp(p)
  \/ Conclude(p)
  \/ Restart(p)
  \/ Release(p)

Next ==
  \/ \E p \in Procs : Launch(p) \/ LaunchRefused(p) \/ Signal(p) \/ Kill(p) \/ Proceed(p)
  \/ \E p \in Procs, t \in CriticalTasks : TaskEnds(p, t)
  \/ Duplicate

\* Every await of the startup and of the shutdown returns or raises: Telegram
\* is reachable again some day, as connection_retries is unlimited.
Spec == Init /\ [][Next]_vars /\ \A p \in Procs : WF_vars(Proceed(p))

-----------------------------------------------------------------------------
TypeOK ==
  /\ run \in [Procs -> Process]
  /\ holders \subseteq Procs
  /\ duplicated \in BOOLEAN
  /\ failures \in 0..MaxFailures
  /\ launches \in 0..MaxLaunches

\* Two runtimes of a host never have the session, the database or the bot at
\* the same time, not even while one shuts down.
OneRuntime ==
  \A p, q \in Procs : p # q => run[p].live = {} \/ run[q].live = {}

\* An iteration leaves nothing to the next one or to the exit: two notifiers
\* or two pollers of one process would send and answer twice.
NothingLeftRunning ==
  \A p \in Procs : run[p].live # {} => run[p].pc \in StartupPc \cup {"running", "cleanup"}

\* Whoever uses a part is over before the part is closed, in the middle of the
\* shutdown too (Telethon's handlers write to the database).
UsedPartsAreOpen ==
  \A p \in Procs : LET live == run[p].live IN
    /\ "notifier" \in live => {"db", "bot"} \subseteq live
    /\ "polling" \in live => {"db", "bot"} \subseteq live
    /\ "healthcheck" \in live => "bot" \in live
    /\ "disconnected" \in live => "telethon" \in live
    /\ "telethon" \in live => "db" \in live

\* No pause, so no further iteration, begins once a stop was asked for or the
\* session was found to be unusable.
NoUselessRestart ==
  [][\A p \in Procs :
       /\ run[p].stop \/ Contains(run[p].error, "revoked")
       /\ run[p].pc # "backoff"
       => run'[p].pc # "backoff"]_vars

\* A process that was told to stop ends, whatever it was doing then.
StopEnds == \A p \in Procs : Alive(p) /\ run[p].stop ~> ~Alive(p)

\* A process that starts, or starts again, with a duplicated session ends
\* instead of restarting for ever.
DuplicatedSessionEnds ==
  \A p \in Procs : duplicated /\ run[p].pc \in {"init_db", "backoff"} ~> ~Alive(p)
=============================================================================
