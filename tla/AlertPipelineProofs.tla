------------------------- MODULE AlertPipelineProofs -------------------------
(***************************************************************************)
(* For every set of posts, watches and requests: the database stays        *)
(* consistent, in both views, and every event is about a durable post.     *)
(*                                                                         *)
(* The inductive invariant adds to these what the handlers rely on: a      *)
(* handler past its first COMMIT works on a durable post (StagesStored),   *)
(* and the connection never sees fewer posts than the file (ViewsSound).   *)
(***************************************************************************)
EXTENDS AlertPipeline, StorageProofs

Assumptions ==
  /\ StorageAssumption
  /\ MatchingAssumption
  /\ CommandsAssumption
  /\ NotifierAssumption
  /\ PipelineAssumption

\* The modules assume all of it.
LEMMA AssumptionsHold == Assumptions
  BY StorageAssumption, MatchingAssumption, CommandsAssumption, NotifierAssumption,
     PipelineAssumption
  DEF Assumptions

AfterCommit == {"load", "consider", "create", "close"}

StagesStored ==
  \A m \in Messages :
    /\ ing[m].pc = "commit" => m \in db.messages
    /\ ing[m].pc \in AfterCommit => m \in disk.messages

IngOK == ing \in [Messages -> Handler]

CmdOK == cmd \in [Requests -> Command] /\ created \subseteq Watches

NtfOK ==
  /\ ntf \in [pc : {"poll", "send", "mark", "close"}, queue : SUBSET PendingRow]
  /\ inbox \in [Watches -> [Messages -> Nat]]
  /\ refused \subseteq Watches \X Messages
  /\ lostAcks \in 0..MaxLostAcks

RunOK ==
  /\ phase \in {"backfill", "live"}
  /\ todo \subseteq Messages
  /\ posted \subseteq Messages
  /\ crashes \in 0..MaxCrashes
  /\ overlap \subseteq Messages \X Messages

IInv == ViewsSound /\ StagesStored /\ IngOK /\ CmdOK /\ NtfOK /\ RunOK

\* No step of a command or of the notifier takes a post away.
PostsKept ==
  /\ db.messages \subseteq db'.messages
  /\ disk.messages \subseteq disk'.messages

-----------------------------------------------------------------------------
(* Ingestion *)

\* A change of m's place alone keeps the other handlers' obligations.
LEMMA MoveKeepsStages ==
  ASSUME StagesStored, IngOK, NEW m \in Messages, PostsKept,
         NEW h \in Handler, ing' = [ing EXCEPT ![m] = h],
         h.pc = "commit" => m \in db'.messages,
         h.pc \in AfterCommit => m \in disk'.messages
  PROVE  StagesStored' /\ IngOK'
  BY DEF StagesStored, IngOK, PostsKept

\* A COMMIT keeps every post.
LEMMA CommitKeepsPosts ==
  ASSUME ViewsSound, Commit
  PROVE  PostsKept
  BY DEF ViewsSound, Commit, PostsKept

\* The record GoTo leaves behind.
LEMMA GoToMoves ==
  ASSUME IngOK, NEW m \in Messages, NEW pc \in IngestPc, GoTo(m, pc)
  PROVE  \E h \in Handler : /\ ing' = [ing EXCEPT ![m] = h]
                            /\ h.pc = pc
<1> DEFINE h == [pc |-> pc, queue |-> ing[m].queue]
<1>1. h \in Handler /\ h.pc = pc
  BY DEF IngOK, Handler
<1>2. [ing[m] EXCEPT !.pc = pc] = h
  BY DEF IngOK, Handler
<1>3. ing' = [ing EXCEPT ![m] = h]
  BY <1>2 DEF GoTo
<1>4. QED
  BY <1>1, <1>3

\* The record NextWatch leaves behind.
LEMMA NextWatchMoves ==
  ASSUME IngOK, NEW m \in Messages, NEW r, NextWatch(m, r)
  PROVE  \E h \in Handler : /\ ing' = [ing EXCEPT ![m] = h]
                            /\ h.pc = "consider"
<1> DEFINE h == [pc |-> "consider", queue |-> ing[m].queue \ {r}]
<1>1. h \in Handler /\ h.pc = "consider"
  BY DEF IngOK, Handler, IngestPc
<1>2. ing' = [ing EXCEPT ![m] = h]
  BY DEF NextWatch
<1>3. QED
  BY <1>1, <1>2

\* Every step of a post's handler.
LEMMA IngestKeeps ==
  ASSUME Assumptions, ViewsSound, StagesStored, IngOK,
         NEW m \in Messages, IngestStep(m)
  PROVE  ViewsSound' /\ StagesStored' /\ IngOK'
<1>1. CASE StoreMessage(m)
  <2>1. CASE m \in db.messages /\ GoTo(m, "done") /\ UNCHANGED storeVars
    <3>1. ViewsSound' /\ PostsKept
      BY <2>1 DEF storeVars, ViewsSound, Sound, Consistent, PostsKept
    <3>2. QED
      BY <2>1, <3>1, GoToMoves, MoveKeepsStages DEF IngestPc, AfterCommit
  <2>2. CASE InsertMessage(m) /\ GoTo(m, "commit") /\ UNCHANGED disk
    <3>1. ViewsSound'
      BY <2>2, InsertMessageKeepsSound
    <3>2. db'.messages = db.messages \cup {m}
      BY <2>2 DEF InsertMessage, ViewsSound, Sound, Store
    <3>3. PostsKept /\ m \in db'.messages
      BY <2>2, <3>2 DEF PostsKept
    <3>4. QED
      BY <2>2, <3>1, <3>3, GoToMoves, MoveKeepsStages DEF IngestPc, AfterCommit
  <2>3. QED
    BY <1>1, <2>1, <2>2 DEF StoreMessage, storeVars
<1>2. CASE CommitMessage(m)
  <2>1. ViewsSound' /\ PostsKept
    BY <1>2, CommitKeepsSound, CommitKeepsPosts DEF CommitMessage
  <2>2. m \in disk'.messages
    BY <1>2 DEF CommitMessage, StagesStored, Commit
  <2>3. PICK pc \in {"done", "load"} : GoTo(m, pc)
    BY <1>2 DEF CommitMessage
  <2>4. QED
    BY <2>1, <2>2, <2>3, GoToMoves, MoveKeepsStages DEF IngestPc, AfterCommit
<1>3. CASE LoadWatches(m)
  <2> DEFINE h == [pc |-> "consider", queue |-> EnabledWatches]
  <2>1. ViewsSound' /\ PostsKept
    BY <1>3 DEF LoadWatches, storeVars, ViewsSound, Sound, Consistent, PostsKept
  <2>2. h \in Handler
    BY DEF Handler, IngestPc, EnabledWatches, ViewsSound, Sound, Store
  <2>3. m \in disk'.messages
    BY <1>3 DEF LoadWatches, StagesStored, AfterCommit, storeVars
  <2>4. QED
    BY <1>3, <2>1, <2>2, <2>3, MoveKeepsStages DEF LoadWatches, AfterCommit
<1>4. CASE ConsiderWatch(m)
  <2>1. ViewsSound' /\ PostsKept
    BY <1>4 DEF ConsiderWatch, storeVars, ViewsSound, Sound, Consistent, PostsKept
  <2>2. m \in disk'.messages
    BY <1>4 DEF ConsiderWatch, StagesStored, AfterCommit, storeVars
  <2>3. \/ GoTo(m, "failed")
        \/ GoTo(m, "create")
        \/ \E r : NextWatch(m, r)
    BY <1>4 DEF ConsiderWatch
  <2>4. QED
    BY <2>1, <2>2, <2>3, GoToMoves, NextWatchMoves, MoveKeepsStages
    DEF IngestPc, AfterCommit
<1>5. CASE CreateEvent(m)
  <2>1. PICK r \in ing[m].queue :
          \/ /\ EventRejected(r.id, m)
             /\ NextWatch(m, r)
             /\ UNCHANGED db
          \/ /\ ~EventRejected(r.id, m)
             /\ InsertEvent(r.id, m)
             /\ GoTo(m, "close")
    BY <1>5 DEF CreateEvent, First
  <2>2. UNCHANGED disk /\ m \in disk.messages
    BY <1>5 DEF CreateEvent, StagesStored, AfterCommit
  <2>3. CASE EventRejected(r.id, m) /\ NextWatch(m, r) /\ UNCHANGED db
    <3>1. ViewsSound' /\ PostsKept
      BY <2>2, <2>3 DEF ViewsSound, Sound, Consistent, PostsKept
    <3>2. QED
      BY <2>2, <2>3, <3>1, NextWatchMoves, MoveKeepsStages
  <2>4. CASE ~EventRejected(r.id, m) /\ InsertEvent(r.id, m) /\ GoTo(m, "close")
    <3>1. r.id \in WatchIds
      BY DEF IngOK, Handler, WatchRow
    <3>2. ViewsSound'
      BY <2>2, <2>4, <3>1, InsertEventKeepsSound DEF Assumptions
    <3>3. PostsKept
      BY <2>2, <2>4 DEF InsertEvent, PostsKept, ViewsSound, Sound, Store
    <3>4. QED
      BY <2>2, <2>4, <3>2, <3>3, GoToMoves, MoveKeepsStages DEF IngestPc
  <2>5. QED
    BY <2>1, <2>3, <2>4
<1>6. CASE CommitEvent(m)
  <2>1. ViewsSound' /\ PostsKept
    BY <1>6, CommitKeepsSound, CommitKeepsPosts DEF CommitEvent
  <2>2. m \in disk'.messages
    BY <1>6, <2>1 DEF CommitEvent, StagesStored, AfterCommit, PostsKept
  <2>3. \E r : NextWatch(m, r)
    BY <1>6 DEF CommitEvent
  <2>4. QED
    BY <2>1, <2>2, <2>3, NextWatchMoves, MoveKeepsStages
<1>7. CASE EndIngest(m)
  <2>1. ViewsSound' /\ PostsKept
    BY <1>7 DEF EndIngest, storeVars, ViewsSound, Sound, Consistent, PostsKept
  <2>2. QED
    BY <1>7, <2>1, GoToMoves, MoveKeepsStages DEF EndIngest, IngestPc, AfterCommit
<1>8. QED
  BY <1>1, <1>2, <1>3, <1>4, <1>5, <1>6, <1>7 DEF IngestStep

-----------------------------------------------------------------------------
(* Commands *)

\* Every step of a request's handler.
LEMMA CommandKeeps ==
  ASSUME Assumptions, ViewsSound, CmdOK, NEW r \in Requests, CommandStep(r)
  PROVE  ViewsSound' /\ CmdOK' /\ PostsKept
<1> DEFINE Moves == \E pc \in CommandPc : cmd' = [cmd EXCEPT ![r].pc = pc]
<1>0. ASSUME Moves, created' \subseteq Watches
      PROVE  CmdOK'
  BY <1>0 DEF CmdOK, Command
<1>1. CASE EnsureUser(r)
  <2>1. Moves /\ created' = created
    BY <1>1 DEF EnsureUser, Continue, CommandPc
  <2>2. QED
    BY <1>0, <1>1, <2>1, CommitKeepsSound, CommitKeepsPosts DEF EnsureUser, CmdOK
<1>2. CASE AddWatch(r)
  <2>1. PICK w \in Watches \ created :
          InsertWatch(w) /\ created' = created \cup {w}
    BY <1>2 DEF AddWatch
  <2>2. Moves /\ UNCHANGED disk
    BY <1>2 DEF AddWatch, CommandPc
  <2>3. ViewsSound'
    BY <2>1, <2>2, InsertWatchKeepsSound DEF Assumptions
  <2>4. PostsKept
    BY <2>1, <2>2 DEF InsertWatch, PostsKept, ViewsSound, Sound, Store
  <2>5. QED
    BY <1>0, <2>1, <2>2, <2>3, <2>4 DEF CmdOK
<1>3. CASE RemoveEvents(r)
  <2>1. Moves /\ created' = created /\ UNCHANGED disk
    BY <1>3 DEF RemoveEvents, Continue, CommandPc
  <2>2. ViewsSound'
    BY <1>3, DeleteEventsKeepsSound DEF RemoveEvents
  <2>3. PostsKept
    BY <1>3 DEF RemoveEvents, DeleteEvents, PostsKept, ViewsSound, Sound, Store
  <2>4. QED
    BY <1>0, <2>1, <2>2, <2>3 DEF CmdOK
<1>4. CASE RemoveWatch(r)
  <2>1. Moves /\ created' = created /\ UNCHANGED disk
    BY <1>4 DEF RemoveWatch, Continue, CommandPc
  <2>2. CASE UNCHANGED db
    BY <1>0, <2>1, <2>2 DEF CmdOK, ViewsSound, Sound, Consistent, PostsKept
  <2>3. CASE /\ ~DeleteRejected(cmd[r].id, cmd[r].user)
             /\ DeleteWatch(cmd[r].id, cmd[r].user)
    <3>1. ViewsSound'
      BY <2>1, <2>3, DeleteWatchKeepsSound
    <3>2. PostsKept
      BY <2>1, <2>3 DEF DeleteWatch, PostsKept, ViewsSound, Sound, Store
    <3>3. QED
      BY <1>0, <2>1, <3>1, <3>2 DEF CmdOK
  <2>4. QED
    BY <1>4, <2>2, <2>3 DEF RemoveWatch
<1>5. CASE FindWatch(r)
  <2>1. Moves /\ created' = created /\ UNCHANGED storeVars
    BY <1>5 DEF FindWatch, Continue, CommandPc
  <2>2. QED
    BY <1>0, <2>1 DEF storeVars, CmdOK, ViewsSound, Sound, Consistent, PostsKept
<1>6. CASE UpdateEnabled(r)
  <2>1. Moves /\ created' = created /\ UNCHANGED disk
    BY <1>6 DEF UpdateEnabled, Continue, CommandPc
  <2>2. PICK b \in BOOLEAN : SetEnabled(cmd[r].id, b)
    BY <1>6 DEF UpdateEnabled
  <2>3. ViewsSound'
    BY <2>1, <2>2, SetEnabledKeepsSound
  <2>4. PostsKept
    BY <2>1, <2>2 DEF SetEnabled, PostsKept, ViewsSound, Sound, Store
  <2>5. QED
    BY <1>0, <2>1, <2>3, <2>4 DEF CmdOK
<1>7. CASE CommitCommand(r)
  <2>1. Moves /\ created' = created
    BY <1>7 DEF CommitCommand, Continue, CommandPc
  <2>2. QED
    BY <1>0, <1>7, <2>1, CommitKeepsSound, CommitKeepsPosts DEF CommitCommand, CmdOK
<1>8. QED
  BY <1>1, <1>2, <1>3, <1>4, <1>5, <1>6, <1>7 DEF CommandStep

-----------------------------------------------------------------------------
(* Notifier *)

\* Every step of the delivery loop.
LEMMA NotifierKeeps ==
  ASSUME Assumptions, ViewsSound, NtfOK, NotifierStep
  PROVE  ViewsSound' /\ NtfOK' /\ PostsKept
<1> USE DEF NtfOK
<1>0. /\ UNCHANGED storeVars => ViewsSound' /\ PostsKept
      /\ Commit => ViewsSound' /\ PostsKept
  BY CommitKeepsSound, CommitKeepsPosts
  DEF storeVars, ViewsSound, Sound, Consistent, PostsKept
<1>1. CASE Poll
  <2>1. PendingRows \subseteq PendingRow
    BY DEF PendingRows, PendingRow, ViewsSound, Sound, Store, EventRow, WatchRow
  <2>2. QED
    BY <1>0, <1>1, <2>1 DEF Poll
<1>2. ASSUME NEW e \in First(ntf.queue),
             \/ SendOk(e) \/ SendForbidden(e) \/ SendFails(e)
             \/ SendLostAck(e) \/ Mark(e) \/ CommitMark(e)
      PROVE  ViewsSound' /\ NtfOK' /\ PostsKept
  <2>1. e \in PendingRow /\ e.watch \in Watches /\ e.message \in Messages
    BY DEF First, PendingRow
  <2>2. Deliver(e) => inbox' \in [Watches -> [Messages -> Nat]]
    BY <2>1 DEF Deliver
  <2>3. CASE SendOk(e)
    BY <1>0, <2>2, <2>3 DEF SendOk
  <2>4. CASE SendForbidden(e)
    BY <1>0, <2>1, <2>4 DEF SendForbidden
  <2>5. CASE SendFails(e)
    BY <1>0, <2>5 DEF SendFails, BackOff, IdleNotifier
  <2>6. CASE SendLostAck(e)
    <3>1. lostAcks' \in 0..MaxLostAcks
      BY <2>6 DEF SendLostAck, Assumptions, NotifierAssumption
    <3>2. QED
      BY <1>0, <2>2, <2>6, <3>1 DEF SendLostAck, BackOff, IdleNotifier
  <2>7. CASE Mark(e)
    <3>1. ViewsSound'
      BY <2>7, MarkNotifiedKeepsSound DEF Mark
    <3>2. PostsKept
      BY <2>7 DEF Mark, MarkNotified, PostsKept, ViewsSound, Sound, Store
    <3>3. QED
      BY <2>7, <3>1, <3>2 DEF Mark
  <2>8. CASE CommitMark(e)
    BY <1>0, <2>8 DEF CommitMark
  <2>9. QED
    BY <1>2, <2>3, <2>4, <2>5, <2>6, <2>7, <2>8
<1>3. QED
  BY <1>1, <1>2 DEF NotifierStep, SendSettled

-----------------------------------------------------------------------------
(* The runtime *)

\* A handler's obligations concern its own place and the posts only.
LEMMA StagesFollowPosts ==
  ASSUME StagesStored, PostsKept, UNCHANGED ing
  PROVE  StagesStored'
  BY DEF StagesStored, PostsKept

\* Taking a post up, live or in the backfill.
LEMMA TakeUpKeeps ==
  ASSUME StagesStored, IngOK, overlap \subseteq Messages \X Messages,
         NEW m \in Messages, TakeUp(m), UNCHANGED storeVars
  PROVE  StagesStored' /\ IngOK' /\ overlap' \subseteq Messages \X Messages
<1> DEFINE h == [pc |-> "insert", queue |-> {}]
<1>1. h \in Handler /\ ing' = [ing EXCEPT ![m] = h]
  BY DEF Handler, IngestPc, TakeUp, BeginIngest
<1>2. PostsKept
  BY DEF PostsKept, storeVars
<1>3. StagesStored' /\ IngOK'
  BY <1>1, <1>2, MoveKeepsStages DEF AfterCommit
<1>4. overlap' \subseteq Messages \X Messages
  BY DEF TakeUp, Busy
<1>5. QED
  BY <1>3, <1>4

\* A new iteration starts from the durable rows with no handler running.
LEMMA RestartKeeps ==
  ASSUME Assumptions, IInv, Restart, crashes' \in 0..MaxCrashes
  PROVE  IInv'
<1>1. ViewsSound'
  BY LossKeepsSound DEF IInv, Restart
<1>2. StagesStored' /\ IngOK'
  BY DEF Restart, StagesStored, IngOK, IdleHandler, Handler, IngestPc, AfterCommit
<1>3. CmdOK'
  <2>1. cmd' \in [Requests -> Command]
    BY DEF IInv, Restart, CmdOK, Command, CommandPc
  <2>2. QED
    BY <2>1 DEF IInv, Restart, CmdOK
<1>4. NtfOK'
  BY DEF IInv, Restart, NtfOK, IdleNotifier
<1>5. RunOK'
  BY DEF IInv, Restart, RunOK
<1>6. QED
  BY <1>1, <1>2, <1>3, <1>4, <1>5 DEF IInv

\* The invariant is inductive.
LEMMA StepKeepsIInv ==
  ASSUME Assumptions, IInv, [Next]_vars
  PROVE  IInv'
<1> USE DEF IInv
<1>0. UNCHANGED storeVars => ViewsSound' /\ PostsKept
  BY DEF storeVars, ViewsSound, Sound, Consistent, PostsKept
<1>1. ASSUME NEW m \in Messages, Post(m) PROVE IInv'
  <2>1. StagesStored' /\ IngOK' /\ overlap' \subseteq Messages \X Messages
    BY <1>0, <1>1, TakeUpKeeps, StagesFollowPosts DEF Post, RunOK, IngOK
  <2>2. /\ todo' \subseteq Messages
        /\ posted' \subseteq Messages
        /\ UNCHANGED <<storeVars, commandVars, notifierVars, phase, crashes>>
    BY <1>1 DEF Post, RunOK
  <2>3. CmdOK' /\ NtfOK'
    BY <2>2 DEF commandVars, notifierVars, CmdOK, NtfOK
  <2>4. ViewsSound'
    BY <1>0, <2>2
  <2>5. RunOK'
    BY <2>1, <2>2 DEF RunOK
  <2> QED
    BY <2>1, <2>3, <2>4, <2>5
<1>2. ASSUME NEW m \in Messages, BackfillNext(m) PROVE IInv'
  <2>1. StagesStored' /\ IngOK' /\ overlap' \subseteq Messages \X Messages
    BY <1>2, TakeUpKeeps DEF BackfillNext, RunOK
  <2>2. QED
    BY <1>0, <1>2, <2>1
    DEF BackfillNext, RunOK, commandVars, notifierVars, CmdOK, NtfOK
<1>3. ASSUME NEW m \in Messages, Ingest(m) PROVE IInv'
  BY <1>3, IngestKeeps
  DEF Ingest, RunOK, commandVars, notifierVars, runtimeVars, CmdOK, NtfOK
<1>4. ASSUME NEW r \in Requests, Arrive(r) PROVE IInv'
  <2>1. CmdOK' /\ UNCHANGED storeVars
    <3>1. PICK op \in Ops, u \in Users, i \in 0..MaxWatchId :
            cmd' = [cmd EXCEPT ![r] = [pc |-> "user", op |-> op, user |-> u, id |-> i]]
      BY <1>4 DEF Arrive, BeginCommand
    <3>2. [pc |-> "user", op |-> op, user |-> u, id |-> i] \in Command
      BY DEF Command, CommandPc, Assumptions, CommandsAssumption
    <3> QED
      BY <1>4, <3>1, <3>2 DEF Arrive, BeginCommand, CmdOK
  <2>2. QED
    BY <1>0, <1>4, <2>1, StagesFollowPosts
    DEF Arrive, RunOK, notifierVars, runtimeVars, NtfOK, IngOK
<1>5. ASSUME NEW r \in Requests, Handle(r) PROVE IInv'
  BY <1>5, CommandKeeps, StagesFollowPosts
  DEF Handle, RunOK, notifierVars, runtimeVars, NtfOK, IngOK
<1>6. CASE Notify
  BY <1>6, NotifierKeeps, StagesFollowPosts
  DEF Notify, RunOK, commandVars, runtimeVars, CmdOK, IngOK
<1>7. CASE GoLive
  BY <1>0, <1>7, StagesFollowPosts
  DEF GoLive, RunOK, commandVars, notifierVars, CmdOK, NtfOK, IngOK
<1>8. CASE Crash
  BY <1>8, RestartKeeps DEF Crash, Assumptions, PipelineAssumption, RunOK
<1>9. CASE BackfillFails
  BY <1>9, RestartKeeps DEF BackfillFails, RunOK
<1>10. CASE WindowPasses
  <2>1. db' = Expired(db) /\ disk' = Expired(disk)
    BY <1>10 DEF WindowPasses
  <2>2. ViewsSound' /\ PostsKept
    BY <2>1, ExpiredIsSound DEF ViewsSound, PostsKept
  <2>3. QED
    BY <1>10, <2>2, StagesFollowPosts
    DEF WindowPasses, RunOK, commandVars, notifierVars, runtimeVars, CmdOK, NtfOK,
        IngOK
<1>11. CASE UNCHANGED vars
  BY <1>0, <1>11, StagesFollowPosts
  DEF vars, RunOK, commandVars, notifierVars, runtimeVars, CmdOK, NtfOK, IngOK
<1>12. QED
  BY <1>1, <1>2, <1>3, <1>4, <1>5, <1>6, <1>7, <1>8, <1>9, <1>10, <1>11 DEF Next

\* It holds of the file that the first iteration opens.
LEMMA InitIInv ==
  ASSUME Assumptions, Init
  PROVE  IInv
<1>1. ViewsSound
  <2>1. /\ db \in Store /\ Consistent(db)
        /\ db.messages = {} /\ db.events = {}
        /\ disk = db
    BY DEF Init, Assumptions, PipelineAssumption
  <2> QED  BY <2>1 DEF ViewsSound, Sound
<1>2. StagesStored /\ IngOK
  BY DEF Init, IngestInit, IdleHandler, StagesStored, IngOK, Handler, IngestPc,
         AfterCommit
<1>3. CmdOK
  <2>1. created \subseteq Watches
    BY <1>1 DEF Init, CommandsInit, ViewsSound, Sound, Store, WatchRow
  <2> QED
    BY <2>1 DEF Init, CommandsInit, CmdOK, Command, CommandPc, Assumptions,
                StorageAssumption
<1>4. NtfOK
  BY DEF Init, NotifierInit, IdleNotifier, NtfOK, Assumptions, NotifierAssumption
<1>5. RunOK
  BY DEF Init, RunOK, Assumptions, PipelineAssumption
<1>6. QED
  BY <1>1, <1>2, <1>3, <1>4, <1>5 DEF IInv

\* Every reachable state satisfies the inductive invariant.
THEOREM Invariance == Spec => []IInv
<1>1. Init => IInv
  BY InitIInv, AssumptionsHold
<1>2. IInv /\ [Next]_vars => IInv'
  BY StepKeepsIInv, AssumptionsHold
<1>3. QED
  BY <1>1, <1>2, PTL DEF Spec

\* The variables keep their types.
THEOREM TypeCorrect == Spec => []TypeOK
<1>1. IInv => TypeOK
  BY DEF IInv, ViewsSound, Sound, IngOK, CmdOK, NtfOK, RunOK, TypeOK
<1>2. QED
  BY <1>1, Invariance, PTL

\* No interleaving of handlers, commands and notifier on the one connection,
\* and no crash, breaks a key or orphans an event, committed or not.
THEOREM StoresStayConsistent == Spec => []StoresConsistent
<1>1. IInv => StoresConsistent
  BY DEF IInv, ViewsSound, Sound, StoresConsistent
<1>2. QED
  BY <1>1, Invariance, PTL

\* An event is always about a durable post.
THEOREM EventsQuoteStoredPosts == Spec => []EventMessagesStored
<1>1. IInv => EventMessagesStored
  BY DEF IInv, ViewsSound, EventMessagesStored
<1>2. QED
  BY <1>1, Invariance, PTL
=============================================================================
