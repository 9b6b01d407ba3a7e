--------------------------- MODULE SupervisorProofs ---------------------------
(***************************************************************************)
(* One runtime at a time, nothing left behind between iterations, no       *)
(* useless restart and no part closed under one that uses it, for every    *)
(* set of processes, every delay and any number of failures and launches.  *)
(***************************************************************************)
EXTENDS Supervisor, TLAPS

\* The process that is alive is the one that holds the flock.
AliveHolds == \A p \in Procs : Alive(p) => holders = {p}

SInv == TypeOK /\ AliveHolds /\ NothingLeftRunning

\* A process between two runs is a legal one.
LEMMA IdleIsTyped ==
  ASSUME NEW pc \in {"off", "init_db", "exited"} PROVE Idle(pc) \in Process
BY SupervisorAssumption DEF Idle, Process, RunPc, StartupPc, Errors

\* The lock is free before the first launch.
LEMMA InitSInv == Init => SInv
<1> SUFFICES ASSUME Init PROVE SInv
  OBVIOUS
<1>1. Idle("off") \in Process
  BY IdleIsTyped
<1>2. TypeOK
  <2>1. run \in [Procs -> Process]
    BY <1>1 DEF Init
  <2>2. failures \in 0..MaxFailures /\ launches \in 0..MaxLaunches
    BY SupervisorAssumption DEF Init
  <2> QED  BY <2>1, <2>2 DEF Init, TypeOK
<1>3. AliveHolds /\ NothingLeftRunning
  BY DEF Init, AliveHolds, NothingLeftRunning, Alive, Idle
<1> QED  BY <1>2, <1>3 DEF SInv

\* What every step of one process has to show: the others are untouched, and
\* its own new state is typed, alive only with the flock, and tidy.
LEMMA StepOfOne ==
  ASSUME SInv, NEW p \in Procs, NEW new \in Process,
         run' = [run EXCEPT ![p] = new],
         new.live # {} => new.pc \in StartupPc \cup {"running", "cleanup"},
         \/ holders' = holders \ {p} /\ new.pc \in {"off", "exited"}
         \/ holders' = {p} /\ holders = {}
         \/ holders' = holders /\ (new.pc \in {"off", "exited"} \/ Alive(p)),
         failures' \in 0..MaxFailures, launches' \in 0..MaxLaunches,
         duplicated' \in BOOLEAN
  PROVE  SInv'
<1>1. /\ run \in [Procs -> Process]
      /\ holders \subseteq Procs
      /\ AliveHolds
      /\ NothingLeftRunning
  BY DEF SInv, TypeOK
<1>2. \A q \in Procs : run'[q] = IF q = p THEN new ELSE run[q]
  BY <1>1
<1>3. TypeOK'
  BY <1>1, <1>2 DEF TypeOK
<1>4. AliveHolds'
  BY <1>1, <1>2 DEF AliveHolds, Alive
<1>5. NothingLeftRunning'
  BY <1>1, <1>2 DEF NothingLeftRunning
<1> QED  BY <1>3, <1>4, <1>5 DEF SInv

\* Launches, signals, kills and the release of the lock.
LEMMA BoundaryKeepsSInv ==
  ASSUME SInv, NEW p \in Procs,
         Launch(p) \/ LaunchRefused(p) \/ Signal(p) \/ Kill(p) \/ Release(p)
  PROVE  SInv'
<1>1. /\ run \in [Procs -> Process]
      /\ failures \in 0..MaxFailures
      /\ launches \in 0..MaxLaunches
      /\ duplicated \in BOOLEAN
  BY DEF SInv, TypeOK
<1>2. CASE Launch(p)
  <2>1. Idle("init_db") \in Process /\ Idle("init_db").live = {}
    BY IdleIsTyped DEF Idle
  <2>2. launches' \in 0..MaxLaunches
    BY <1>1, <1>2, SupervisorAssumption DEF Launch
  <2> QED
    BY <1>1, <1>2, <2>1, <2>2, StepOfOne DEF Launch
<1>3. CASE LaunchRefused(p)
  <2>1. /\ Idle("exited") \in Process
        /\ Idle("exited").live = {}
        /\ Idle("exited").pc = "exited"
    BY IdleIsTyped DEF Idle
  <2>2. launches' \in 0..MaxLaunches
    BY <1>1, <1>3, SupervisorAssumption DEF LaunchRefused
  <2> QED
    BY <1>1, <1>3, <2>1, <2>2, StepOfOne DEF LaunchRefused
<1>4. CASE Signal(p)
  <2> DEFINE new == [run[p] EXCEPT !.stop = TRUE]
  <2>1. new \in Process /\ new.live = run[p].live /\ new.pc = run[p].pc
    BY <1>1 DEF Process
  <2>2. run' = [run EXCEPT ![p] = new]
    BY <1>4 DEF Signal
  <2> QED
    BY <1>1, <1>4, <2>1, <2>2, StepOfOne DEF Signal, SInv, NothingLeftRunning
<1>5. CASE Kill(p)
  BY <1>1, <1>5, IdleIsTyped, StepOfOne DEF Kill, Idle
<1>6. CASE Release(p)
  BY <1>1, <1>6, IdleIsTyped, StepOfOne DEF Release, Idle
<1> QED  BY <1>2, <1>3, <1>4, <1>5, <1>6

\* A step of a process that keeps the lock, and goes from one alive state to
\* another.
LEMMA InnerStep ==
  ASSUME SInv, NEW p \in Procs, NEW new \in Process,
         Alive(p),
         run' = [run EXCEPT ![p] = new],
         new.live # {} => new.pc \in StartupPc \cup {"running", "cleanup"},
         failures' \in 0..MaxFailures,
         UNCHANGED <<holders, duplicated, launches>>
  PROVE  SInv'
<1>1. launches' \in 0..MaxLaunches /\ duplicated' \in BOOLEAN
  BY DEF SInv, TypeOK
<1> QED  BY <1>1, StepOfOne

\* The steps of a startup, and its failures.
LEMMA StartupKeepsSInv ==
  ASSUME SInv, NEW p \in Procs,
         OpenDb(p) \/ Connect(p) \/ ConfigureMenu(p) \/ StartTasks(p) \/ StartupFails(p)
  PROVE  SInv'
<1>1. run \in [Procs -> Process] /\ failures \in 0..MaxFailures
  BY DEF SInv, TypeOK
<1>2. ASSUME NEW from \in StartupPc, NEW to \in StartupPc \cup {"running"},
             NEW opened \in SUBSET (CriticalTasks \cup Resources),
             Started(p, from, opened, to)
      PROVE  SInv'
  <2> DEFINE new == [run[p] EXCEPT !.pc = to, !.live = @ \cup opened]
  <2>1. new \in Process /\ new.pc = to
    BY <1>1, <1>2 DEF Process, RunPc
  <2>2. run' = [run EXCEPT ![p] = new] /\ Alive(p)
    BY <1>1, <1>2 DEF Started, Alive, StartupPc
  <2> QED
    BY <1>1, <1>2, <2>1, <2>2, InnerStep DEF Started
<1>3. CASE OpenDb(p) \/ Connect(p) \/ ConfigureMenu(p) \/ StartTasks(p)
  BY <1>2, <1>3
     DEF OpenDb, Connect, ConfigureMenu, StartTasks, StartupPc, Resources, CriticalTasks
<1>4. CASE StartupFails(p)
  <2>1. PICK o \in Outcome :
          /\ run' = [run EXCEPT ![p].pc = "cleanup", ![p].error = <<o>>]
          /\ UNCHANGED failures \/ Failing
    BY <1>4 DEF StartupFails
  <2> DEFINE new == [run[p] EXCEPT !.pc = "cleanup", !.error = <<o>>]
  <2>2. new \in Process /\ new.pc = "cleanup"
    BY <1>1 DEF Process, RunPc, Errors
  <2>3. run' = [run EXCEPT ![p] = new] /\ Alive(p)
    BY <1>1, <1>4, <2>1 DEF StartupFails, Alive, StartupPc
  <2>4. failures' \in 0..MaxFailures
    BY <1>1, <2>1, SupervisorAssumption DEF Failing
  <2> QED
    BY <1>4, <2>2, <2>3, <2>4, InnerStep DEF StartupFails
<1> QED  BY <1>3, <1>4

\* The end of an iteration, its shutdown and what follows.
LEMMA IterationKeepsSInv ==
  ASSUME SInv, NEW p \in Procs,
         \/ \E t \in CriticalTasks : TaskEnds(p, t)
         \/ Wake(p) \/ CleanUp(p) \/ Conclude(p) \/ Restart(p)
  PROVE  SInv'
<1>1. run \in [Procs -> Process] /\ failures \in 0..MaxFailures
  BY DEF SInv, TypeOK
<1>2. ASSUME NEW t \in CriticalTasks, TaskEnds(p, t) PROVE SInv'
  <2>1. PICK o \in Outcome :
          /\ run' = [run EXCEPT ![p].live = @ \ {t},
                                ![p].done = @ \cup {[task |-> t, outcome |-> o]}]
          /\ UNCHANGED failures \/ Failing
    BY <1>2 DEF TaskEnds
  <2> DEFINE new == [run[p] EXCEPT !.live = @ \ {t},
                                   !.done = @ \cup {[task |-> t, outcome |-> o]}]
  <2>2. new \in Process /\ new.pc = run[p].pc
    <3>1. [task |-> t, outcome |-> o] \in [task : CriticalTasks, outcome : Outcome]
      OBVIOUS
    <3> QED  BY <1>1, <3>1 DEF Process
  <2>3. run' = [run EXCEPT ![p] = new] /\ Alive(p)
    BY <1>1, <1>2, <2>1 DEF TaskEnds, Alive
  <2>4. failures' \in 0..MaxFailures
    BY <1>1, <2>1, SupervisorAssumption DEF Failing
  <2> QED
    BY <1>2, <2>2, <2>3, <2>4, InnerStep DEF TaskEnds
<1>3. CASE Wake(p)
  <2>1. PICK e \in Errors : run' = [run EXCEPT ![p].pc = "cleanup", ![p].error = e]
    <3>1. ASSUME run' = [run EXCEPT ![p].pc = "cleanup"]
          PROVE  run' = [run EXCEPT ![p].pc = "cleanup", ![p].error = run[p].error]
      BY <1>1, <3>1 DEF Process
    <3>2. run[p].error \in Errors
      BY <1>1 DEF Process
    <3>3. ASSUME NEW d \in run[p].done PROVE <<"restart", d.outcome>> \in Errors
      BY <1>1 DEF Process, Errors
    <3> QED  BY <1>3, <3>1, <3>2, <3>3 DEF Wake
  <2> DEFINE new == [run[p] EXCEPT !.pc = "cleanup", !.error = e]
  <2>2. new \in Process /\ new.pc = "cleanup"
    BY <1>1 DEF Process, RunPc
  <2>3. run' = [run EXCEPT ![p] = new] /\ Alive(p)
    BY <1>1, <1>3, <2>1 DEF Wake, Alive
  <2> QED
    BY <1>1, <1>3, <2>2, <2>3, InnerStep DEF Wake
<1>4. CASE CleanUp(p)
  <2>1. PICK part : run' = [run EXCEPT ![p].live = @ \ {part}]
    BY <1>4 DEF CleanUp
  <2> DEFINE new == [run[p] EXCEPT !.live = @ \ {part}]
  <2>2. new \in Process /\ new.pc = run[p].pc
    BY <1>1 DEF Process
  <2>3. run' = [run EXCEPT ![p] = new] /\ Alive(p)
    BY <1>1, <1>4, <2>1 DEF CleanUp, Alive
  <2> QED
    BY <1>1, <1>4, <2>2, <2>3, InnerStep DEF CleanUp
<1>5. CASE Conclude(p)
  <2>1. PICK to \in {"release", "backoff"} : run' = [run EXCEPT ![p].pc = to]
    BY <1>5 DEF Conclude
  <2> DEFINE new == [run[p] EXCEPT !.pc = to]
  <2>2. new \in Process /\ new.live = run[p].live
    BY <1>1 DEF Process, RunPc
  <2>3. run' = [run EXCEPT ![p] = new] /\ Alive(p)
    BY <1>1, <1>5, <2>1 DEF Conclude, Alive
  <2> QED
    BY <1>1, <1>5, <2>2, <2>3, InnerStep DEF Conclude
<1>6. CASE Restart(p)
  <2> DEFINE d == NextDelay(run[p].delay)
             new == [run[p] EXCEPT !.pc = "init_db", !.done = {}, !.error = <<>>, !.delay = d]
  <2>1. d \in BaseDelay..MaxDelay
    <3>1. run[p].delay \in BaseDelay..MaxDelay
      BY <1>1 DEF Process
    <3> QED  BY <3>1, SupervisorAssumption DEF NextDelay
  <2> HIDE DEF d
  <2>2. new \in Process /\ new.pc = "init_db"
    BY <1>1, <2>1 DEF Process, RunPc, StartupPc, Errors
  <2>3. run' = [run EXCEPT ![p] = new]
    BY <1>1, <1>6 DEF Restart, d
  <2>4. Alive(p) /\ "init_db" \in StartupPc
    BY <1>6 DEF Restart, Alive, StartupPc
  <2>5. failures' \in 0..MaxFailures /\ UNCHANGED <<holders, duplicated, launches>>
    BY <1>1, <1>6 DEF Restart
  <2> HIDE DEF new
  <2> QED
    BY <2>2, <2>3, <2>4, <2>5, InnerStep
<1> QED  BY <1>2, <1>3, <1>4, <1>5, <1>6

\* Each step keeps the invariant.
LEMMA NextKeepsSInv == SInv /\ [Next]_vars => SInv'
<1> SUFFICES ASSUME SInv, [Next]_vars PROVE SInv'
  OBVIOUS
<1>1. CASE \E p \in Procs : Launch(p) \/ LaunchRefused(p) \/ Signal(p) \/ Kill(p)
  BY <1>1, BoundaryKeepsSInv
<1>2. CASE \E p \in Procs : Proceed(p)
  BY <1>2, BoundaryKeepsSInv, StartupKeepsSInv, IterationKeepsSInv DEF Proceed
<1>3. CASE \E p \in Procs, t \in CriticalTasks : TaskEnds(p, t)
  BY <1>3, IterationKeepsSInv
<1>4. CASE Duplicate
  BY <1>4 DEF Duplicate, SInv, TypeOK, AliveHolds, Alive, NothingLeftRunning
<1>5. CASE UNCHANGED vars
  BY <1>5 DEF vars, SInv, TypeOK, AliveHolds, Alive, NothingLeftRunning
<1> QED  BY <1>1, <1>2, <1>3, <1>4, <1>5 DEF Next

\* The process that is alive is the one that holds the lock, and a run that ended
\* left none of its tasks behind (__main__.py's finally block).
THEOREM SupervisorInvariance == Spec => []SInv
<1> QED  BY InitSInv, NextKeepsSInv, PTL DEF Spec

-----------------------------------------------------------------------------
\* Every variable keeps its type, the delay between its two settings.
THEOREM SupervisorTyped == Spec => []TypeOK
<1>1. SInv => TypeOK
  BY DEF SInv
<1> QED  BY <1>1, SupervisorInvariance, PTL

\* However many processes are launched, signalled and killed, no two of them
\* ever have a part of the runtime at the same time.
THEOREM RuntimeIsExclusive == Spec => []OneRuntime
<1>1. SInv => OneRuntime
  <2> SUFFICES ASSUME SInv, NEW p \in Procs, NEW q \in Procs, p # q,
                      run[p].live # {}, run[q].live # {}
               PROVE  FALSE
    BY DEF OneRuntime
  <2>1. Alive(p) /\ Alive(q)
    BY DEF SInv, NothingLeftRunning, Alive, StartupPc
  <2> QED  BY <2>1 DEF SInv, AliveHolds
<1> QED  BY <1>1, SupervisorInvariance, PTL

\* Every iteration ends with all its tasks over and all its parts closed.
THEOREM IterationsLeaveNothing == Spec => []NothingLeftRunning
<1>1. SInv => NothingLeftRunning
  BY DEF SInv
<1> QED  BY <1>1, SupervisorInvariance, PTL

\* A pause begins only where no stop was asked for and the error is none that
\* a restart would only meet again.
THEOREM RestartsAreUseful == Spec => NoUselessRestart
<1> DEFINE Useful ==
      \A p \in Procs :
        /\ run[p].stop \/ Contains(run[p].error, "revoked")
        /\ run[p].pc # "backoff"
        => run'[p].pc # "backoff"
<1>1. ASSUME TypeOK, [Next]_vars PROVE Useful
  <2> SUFFICES ASSUME NEW p \in Procs,
                      run[p].stop \/ Contains(run[p].error, "revoked"),
                      run[p].pc # "backoff"
               PROVE  run'[p].pc # "backoff"
    OBVIOUS
  <2>1. run \in [Procs -> Process]
    BY <1>1 DEF TypeOK
  <2>2. ASSUME NEW q \in Procs, Conclude(q) PROVE run'[p].pc # "backoff"
    BY <2>1, <2>2 DEF Conclude, Unrecoverable, Process
  <2>3. ASSUME NEW q \in Procs,
               Launch(q) \/ LaunchRefused(q) \/ Signal(q) \/ Kill(q) \/ Release(q)
        PROVE  run'[p].pc # "backoff"
    BY <2>1, <2>3 DEF Launch, LaunchRefused, Signal, Kill, Release, Idle, Process
  <2>4. ASSUME NEW q \in Procs,
               OpenDb(q) \/ Connect(q) \/ ConfigureMenu(q) \/ StartTasks(q) \/ StartupFails(q)
        PROVE  run'[p].pc # "backoff"
    BY <2>1, <2>4
       DEF OpenDb, Connect, ConfigureMenu, StartTasks, Started, StartupFails, Process
  <2>5. ASSUME NEW q \in Procs,
               Wake(q) \/ CleanUp(q) \/ Restart(q) \/ \E t \in CriticalTasks : TaskEnds(q, t)
        PROVE  run'[p].pc # "backoff"
    BY <2>1, <2>5 DEF Wake, CleanUp, Restart, TaskEnds, Process
  <2>6. CASE Duplicate \/ UNCHANGED vars
    BY <2>6 DEF Duplicate, vars
  <2> QED
    BY <1>1, <2>2, <2>3, <2>4, <2>5, <2>6 DEF Next, Proceed
<1>2. [Next]_vars /\ TypeOK => [Useful]_vars
  BY <1>1
<1> QED  BY <1>2, SupervisorTyped, PTL DEF Spec, NoUselessRestart

-----------------------------------------------------------------------------
(* The order of the shutdown *)

\* Whoever uses a part of live finds it there.
Served(live) ==
  /\ "notifier" \in live => {"db", "bot"} \subseteq live
  /\ "polling" \in live => {"db", "bot"} \subseteq live
  /\ "healthcheck" \in live => "bot" \in live
  /\ "disconnected" \in live => "telethon" \in live
  /\ "telethon" \in live => "db" \in live

\* What the startup has opened by the time it goes on.
Opened(r) ==
  /\ Served(r.live)
  /\ r.pc = "connect" => {"telethon", "db"} \subseteq r.live
  /\ r.pc \in {"menu", "backfill"} => Resources \subseteq r.live

PartsInv == \A p \in Procs : Opened(run[p])

\* What is shut down next has nothing alive before it in the order.
LEMMA NoneBelow ==
  ASSUME NEW I \in SUBSET (1..7), NEW n \in I, \A j \in I : n <= j
  PROVE  n \in 1..7 /\ \A j \in 1..7 : j < n => j \notin I
OBVIOUS

\* The part that CleanUp ends is there, and none before it in the order is.
LEMMA NextPart ==
  ASSUME NEW live \in SUBSET (CriticalTasks \cup Resources), live # {},
         NEW next, next = SelectInSeq(CleanupOrder, LAMBDA part : part \in live)
  PROVE  /\ next \in 1..7
         /\ CleanupOrder[next] \in live
         /\ \A j \in 1..7 : j < next => CleanupOrder[j] \notin live
<1> DEFINE I == {i \in 1..7 : CleanupOrder[i] \in live}
<1>1. I # {}
  BY DEF CleanupOrder, CriticalTasks, Resources
<1>2. Len(CleanupOrder) = 7
  BY DEF CleanupOrder
<1>3. next = Min(I)
  BY <1>1, <1>2 DEF SelectInSeq
<1>4. \E i \in I : \A j \in I : i <= j
  <2>1. ASSUME NEW J \in SUBSET (1..7), J # {}
        PROVE  \E i \in J : \A j \in J : i <= j
    <3>1. J = J \cap {1, 2, 3, 4, 5, 6, 7}
      OBVIOUS
    <3>2. CASE 1 \in J
      BY <3>2
    <3>3. CASE 1 \notin J /\ 2 \in J
      BY <3>3
    <3>4. CASE 1 \notin J /\ 2 \notin J /\ 3 \in J
      BY <3>4
    <3>5. CASE J \cap {1, 2, 3} = {} /\ 4 \in J
      BY <3>5
    <3>6. CASE J \cap {1, 2, 3, 4} = {} /\ 5 \in J
      BY <3>6
    <3>7. CASE J \cap {1, 2, 3, 4, 5} = {} /\ 6 \in J
      BY <3>7
    <3>8. CASE J \cap {1, 2, 3, 4, 5, 6} = {} /\ 7 \in J
      BY <3>8
    <3> QED  BY <2>1, <3>1, <3>2, <3>3, <3>4, <3>5, <3>6, <3>7, <3>8
  <2> HIDE DEF I
  <2>2. I \in SUBSET (1..7)
    BY DEF I
  <2> QED  BY <1>1, <2>1, <2>2
<1>5. next \in I /\ \A j \in I : next <= j
  BY <1>3, <1>4 DEF Min
<1>6. next \in 1..7 /\ \A j \in 1..7 : j < next => j \notin I
  <2>1. I \in SUBSET (1..7)
    OBVIOUS
  <2> HIDE DEF I
  <2> QED  BY <1>5, <2>1, NoneBelow
<1> QED  BY <1>5, <1>6

\* So no part is closed under one that uses it.
LEMMA CleanUpServes ==
  ASSUME NEW live \in SUBSET (CriticalTasks \cup Resources), live # {}, Served(live),
         NEW next, next = SelectInSeq(CleanupOrder, LAMBDA part : part \in live)
  PROVE  Served(live \ {CleanupOrder[next]})
<1>1. /\ next \in 1..7
      /\ \A j \in 1..7 : j < next => CleanupOrder[j] \notin live
  BY NextPart
<1>2. CASE next < 5
  <2>1. CleanupOrder[next] \in CriticalTasks
    BY <1>1, <1>2 DEF CleanupOrder, CriticalTasks
  <2> QED  BY <2>1 DEF Served, CriticalTasks
<1>3. CASE next >= 5
  <2>1. live \cap CriticalTasks = {}
    BY <1>1, <1>3 DEF CleanupOrder, CriticalTasks
  <2>2. next = 6 => "telethon" \notin live
    BY <1>1 DEF CleanupOrder
  <2>3. CleanupOrder[next] = IF next = 5 THEN "telethon" ELSE IF next = 6 THEN "db" ELSE "bot"
    BY <1>1, <1>3 DEF CleanupOrder
  <2>4. next = 7 => "telethon" \notin live
    BY <1>1 DEF CleanupOrder
  <2> QED  BY <1>1, <1>3, <2>1, <2>2, <2>3, <2>4 DEF Served, CriticalTasks
<1> QED  BY <1>1, <1>2, <1>3

\* Each step keeps the order of the parts.
LEMMA NextKeepsParts == TypeOK /\ PartsInv /\ [Next]_vars => PartsInv'
<1> SUFFICES ASSUME TypeOK, PartsInv, [Next]_vars PROVE PartsInv'
  OBVIOUS
<1>1. run \in [Procs -> Process]
  BY DEF TypeOK
<1>2. ASSUME NEW p \in Procs, NEW new, run' = [run EXCEPT ![p] = new], Opened(new)
      PROVE  PartsInv'
  BY <1>1, <1>2 DEF PartsInv
<1>3. ASSUME NEW p \in Procs,
             Launch(p) \/ LaunchRefused(p) \/ Kill(p) \/ Release(p)
      PROVE  PartsInv'
  <2>1. PICK pc \in {"init_db", "exited"} : run' = [run EXCEPT ![p] = Idle(pc)]
    BY <1>3 DEF Launch, LaunchRefused, Kill, Release
  <2> QED  BY <1>2, <2>1 DEF Idle, Opened, Served
<1>4. ASSUME NEW p \in Procs, NEW from \in StartupPc, NEW to, NEW opened,
             Started(p, from, opened, to),
             Served(run[p].live \cup opened),
             to = "connect" => {"telethon", "db"} \subseteq opened,
             to \in {"menu", "backfill"} => Resources \subseteq run[p].live \cup opened
      PROVE  PartsInv'
  <2> DEFINE new == [run[p] EXCEPT !.pc = to, !.live = @ \cup opened]
  <2>1. run' = [run EXCEPT ![p] = new]
    BY <1>1, <1>4 DEF Started
  <2>2. Opened(new)
    BY <1>1, <1>4 DEF Opened, Process
  <2> QED  BY <1>2, <2>1, <2>2
<1>5. ASSUME NEW p \in Procs,
             OpenDb(p) \/ Connect(p) \/ ConfigureMenu(p) \/ StartTasks(p)
      PROVE  PartsInv'
  <2>1. Opened(run[p])
    BY DEF PartsInv
  <2>2. CASE OpenDb(p)
    <3>1. Served(run[p].live \cup {"db", "telethon"})
      BY <2>1 DEF Opened, Served
    <3> QED  BY <1>4, <2>2, <3>1 DEF OpenDb, StartupPc
  <2>3. CASE Connect(p)
    <3>1. Started(p, "connect", {"bot"}, "menu") /\ run[p].pc = "connect"
      BY <2>3 DEF Connect, Started
    <3>2. /\ Served(run[p].live \cup {"bot"})
          /\ Resources \subseteq run[p].live \cup {"bot"}
      BY <2>1, <3>1 DEF Opened, Served, Resources
    <3> QED  BY <1>4, <3>1, <3>2 DEF StartupPc
  <2>4. CASE ConfigureMenu(p)
    <3>1. Started(p, "menu", {}, "backfill") /\ run[p].pc = "menu"
      BY <2>4 DEF ConfigureMenu, Started
    <3>2. /\ Served(run[p].live \cup {})
          /\ Resources \subseteq run[p].live \cup {}
      BY <2>1, <3>1 DEF Opened, Served, Resources
    <3> QED  BY <1>4, <3>1, <3>2 DEF StartupPc
  <2>5. CASE StartTasks(p)
    <3>1. Started(p, "backfill", CriticalTasks, "running") /\ run[p].pc = "backfill"
      BY <2>5 DEF StartTasks, Started
    <3>2. Served(run[p].live \cup CriticalTasks)
      BY <2>1, <3>1 DEF Opened, Served, Resources
    <3> QED  BY <1>4, <3>1, <3>2 DEF StartupPc
  <2> QED  BY <1>5, <2>2, <2>3, <2>4, <2>5
<1>6. ASSUME NEW p \in Procs, NEW t \in CriticalTasks, TaskEnds(p, t)
      PROVE  PartsInv'
  <2>1. PICK o \in Outcome :
          run' = [run EXCEPT ![p].live = @ \ {t},
                             ![p].done = @ \cup {[task |-> t, outcome |-> o]}]
    BY <1>6 DEF TaskEnds
  <2> DEFINE new == [run[p] EXCEPT !.live = @ \ {t},
                                   !.done = @ \cup {[task |-> t, outcome |-> o]}]
  <2>2. run' = [run EXCEPT ![p] = new]
    BY <1>1, <2>1 DEF Process
  <2>3. new.live = run[p].live \ {t} /\ new.pc = run[p].pc
    BY <1>1 DEF Process
  <2>4. Served(run[p].live) /\ run[p].pc \in {"running", "cleanup"}
    BY <1>6 DEF PartsInv, Opened, TaskEnds
  <2>5. Served(run[p].live \ {t})
    BY <2>4 DEF Served, CriticalTasks
  <2>6. Opened(new)
    BY <2>3, <2>4, <2>5 DEF Opened
  <2> HIDE DEF new
  <2> QED  BY <1>2, <2>2, <2>6
<1>7. ASSUME NEW p \in Procs, CleanUp(p)
      PROVE  PartsInv'
  <2> DEFINE next == SelectInSeq(CleanupOrder, LAMBDA part : part \in run[p].live)
             new == [run[p] EXCEPT !.live = @ \ {CleanupOrder[next]}]
  <2>1. run' = [run EXCEPT ![p] = new]
    BY <1>7 DEF CleanUp
  <2>2. Served(run[p].live \ {CleanupOrder[next]})
    <3>1. run[p].live \in SUBSET (CriticalTasks \cup Resources) /\ run[p].live # {}
      BY <1>1, <1>7 DEF CleanUp, Process
    <3>2. Served(run[p].live)
      BY DEF PartsInv, Opened
    <3> HIDE DEF next
    <3>3. next = SelectInSeq(CleanupOrder, LAMBDA part : part \in run[p].live)
      BY DEF next
    <3> QED  BY <3>1, <3>2, <3>3, CleanUpServes
  <2> HIDE DEF next
  <2>3. Opened(new)
    BY <1>1, <1>7, <2>2 DEF CleanUp, Opened, Process
  <2> QED  BY <1>2, <2>1, <2>3
<1>8. ASSUME NEW p \in Procs,
             Signal(p) \/ StartupFails(p) \/ Wake(p) \/ Conclude(p) \/ Restart(p)
      PROVE  PartsInv'
  <2>1. /\ run'[p].live = run[p].live
        /\ run'[p].pc \in {"connect", "menu", "backfill"} => run'[p].pc = run[p].pc
        /\ \A q \in Procs : q # p => run'[q] = run[q]
    BY <1>1, <1>8 DEF Signal, StartupFails, Wake, Conclude, Restart, Process
  <2> QED  BY <2>1 DEF PartsInv, Opened
<1>9. CASE Duplicate \/ UNCHANGED vars
  BY <1>9 DEF Duplicate, vars, PartsInv
<1> QED
  BY <1>3, <1>5, <1>6, <1>7, <1>8, <1>9 DEF Next, Proceed

\* Startup and shutdown keep every part that is in use open.
THEOREM UsedPartsStayOpen == Spec => []UsedPartsAreOpen
<1>1. Init => PartsInv
  BY DEF Init, PartsInv, Opened, Served, Idle
<1>2. PartsInv => UsedPartsAreOpen
  BY DEF PartsInv, Opened, Served, UsedPartsAreOpen
<1> QED  BY <1>1, <1>2, NextKeepsParts, SupervisorTyped, PTL DEF Spec
=============================================================================
