------------------------ MODULE SharedConnectionProofs -----------------------
(***************************************************************************)
(* What operations that share the connection keep of what they wrote, for  *)
(* every set of operations, any number of statements of each, of attempts  *)
(* and of process deaths.                                                  *)
(***************************************************************************)
EXTENDS SharedConnection, FiniteSetTheorems, TLAPS

\* Where an operation can be in its statements and attempts.
Positions ==
  \A t \in Tasks :
    /\ op[t].pc = "idle" => op[t].step = 1
    /\ op[t].pc = "execute" => op[t].step <= Steps[t]
    /\ op[t].pc = "commit" => op[t].step = Steps[t] + 1
    /\ op[t].pc \in {"rollback", "sleep"} => op[t].attempt < MaxAttempts

\* The file has one writer, and uncommitted rows need the lock.
Locks ==
  /\ foreign => ~writing
  /\ open # {} => writing

\* A row is of an attempt already begun, of a statement already executed; of
\* the last statement, only the last attempt left one.
RowsKnown ==
  \A r \in file \cup open : LET o == op[r.task] IN
    /\ o.pc # "idle"
    /\ r.step \in 1..Steps[r.task]
    /\ r.attempt <= o.attempt
    /\ r.attempt = o.attempt => r.step < o.step
    /\ r.step = Steps[r.task] => r.attempt = o.attempt /\ o.pc \in {"commit", "ok", "killed"}

RowOf(t, s) == [task |-> t, step |-> s, attempt |-> op[t].attempt]

\* What an operation wrote in this attempt is there, unless it was dropped.
Kept ==
  \A t \in Tasks \ dropped :
    /\ op[t].pc \in {"execute", "commit"} =>
         \A s \in 1..(op[t].step - 1) : RowOf(t, s) \in file \cup open
    /\ op[t].pc = "ok" => \A s \in 1..Steps[t] : RowOf(t, s) \in file

\* Operations that are under way together share the connection; a dropped
\* one did so, unless it was rejected and left its transaction behind.
Together ==
  /\ \A t, u \in Tasks : t # u /\ UnderWay(t) /\ UnderWay(u) => t \in shared
  /\ \A t \in dropped : op[t].pc # "rejected" => t \in shared

\* Uncommitted rows have an owner that can still commit, or was rejected; an
\* operation that runs alone has nothing in the file before its COMMIT.
Owners ==
  /\ \A r \in open : UnderWay(r.task) \/ op[r.task].pc = "rejected"
  /\ \A t \in Tasks \ shared :
       UnderWay(t) \/ op[t].pc \in {"killed", "raised"} => RowsOf(t, file) = {}

CInv == TypeOK /\ Positions /\ Locks /\ RowsKnown /\ Kept /\ Together /\ Owners

-----------------------------------------------------------------------------
\* Nothing is open, nothing written.
LEMMA InitEstablishes == Init => CInv
<1> SUFFICES ASSUME Init PROVE CInv
  OBVIOUS
<1> USE ConnectionAssumption DEF Init
<1>1. \A t \in Tasks : op[t] = [pc |-> "idle", attempt |-> 1, step |-> 1]
  OBVIOUS
<1>2. TypeOK
  <2>1. \A t \in Tasks : op[t] \in Operation /\ op[t].step \in 1..(Steps[t] + 1)
    BY <1>1 DEF Operation, OpPc
  <2>2. op \in [Tasks -> Operation]
    BY <2>1
  <2>3. crashes \in 0..MaxCrashes
    OBVIOUS
  <2> QED  BY <2>1, <2>2, <2>3 DEF TypeOK
<1>3. Positions /\ Locks /\ RowsKnown /\ Kept
  BY <1>1 DEF Positions, Locks, RowsKnown, Kept
<1>4. Together /\ Owners
  BY <1>1 DEF Together, Owners, UnderWay, RowsOf
<1> QED  BY <1>2, <1>3, <1>4 DEF CInv

\* An operation begins.
LEMMA BeginKeeps ==
  ASSUME CInv, NEW t \in Tasks, Begin(t)
  PROVE  CInv'
<1> USE ConnectionAssumption DEF CInv
<1>1. /\ op \in [Tasks -> Operation]
      /\ op' = [op EXCEPT ![t].pc = "execute"]
      /\ op[t].pc = "idle"
      /\ UNCHANGED <<open, writing, file, foreign, crashes, dropped>>
  BY DEF TypeOK, Begin, GoTo
<1>2. \A r \in file \cup open : r.task # t
  BY <1>1 DEF RowsKnown
<1>3. TypeOK' /\ Positions' /\ Locks'
  BY <1>1 DEF TypeOK, Operation, OpPc, Positions, Locks, Begin, UnderWay
<1>4. RowsKnown'
  BY <1>1, <1>2 DEF TypeOK, Operation, RowsKnown, Row
<1>5. Kept'
  BY <1>1 DEF TypeOK, Operation, Kept, RowOf, Positions
<1>6. Together'
  <2>1. \A u \in Tasks : UnderWay(u) => u \in shared' /\ t \in shared'
    BY DEF Begin
  <2>2. \A u \in Tasks : UnderWay(u)' => u = t \/ UnderWay(u)
    BY <1>1 DEF UnderWay, Operation
  <2>3. shared \subseteq shared'
    BY DEF Begin
  <2>4. \A u \in dropped : op'[u].pc # "rejected" => op[u].pc # "rejected"
    BY <1>1 DEF Operation, TypeOK
  <2> QED  BY <1>1, <2>1, <2>2, <2>3, <2>4 DEF Together
<1>7. Owners'
  <2>1. shared \subseteq shared'
    BY DEF Begin
  <2>2. \A u \in Tasks : u # t => op'[u] = op[u]
    BY <1>1
  <2> QED  BY <1>1, <1>2, <2>1, <2>2 DEF Owners, UnderWay, RowsOf, TypeOK, Row
<1> QED  BY <1>3, <1>4, <1>5, <1>6, <1>7

\* A statement is executed.
LEMMA ExecuteKeeps ==
  ASSUME CInv, NEW t \in Tasks, Execute(t)
  PROVE  CInv'
<1> USE ConnectionAssumption DEF CInv
<1> DEFINE row == RowOf(t, op[t].step)
           pc == IF op[t].step = Steps[t] THEN "commit" ELSE "execute"
<1>1. /\ op \in [Tasks -> Operation]
      /\ op' = [op EXCEPT ![t].step = @ + 1, ![t].pc = pc]
      /\ op[t].pc = "execute"
      /\ open' = open \cup {row}
      /\ writing' = TRUE
      /\ ~foreign
      /\ UNCHANGED <<file, foreign, crashes, shared, dropped>>
  BY DEF TypeOK, Execute, RowOf
<1>2. /\ op'[t] = [pc |-> pc, attempt |-> op[t].attempt, step |-> op[t].step + 1]
      /\ \A u \in Tasks : u # t => op'[u] = op[u]
      /\ op' \in [Tasks -> Operation]
      /\ op[t].step \in 1..Steps[t]
      /\ op[t].attempt \in 1..MaxAttempts
  <2>1. op[t] \in Operation /\ op[t].step \in 1..Steps[t]
    BY <1>1 DEF TypeOK, Positions
  <2>2. op'[t] = [pc |-> pc, attempt |-> op[t].attempt, step |-> op[t].step + 1]
    BY <1>1, <2>1 DEF Operation
  <2>3. op'[t] \in Operation
    BY <2>1, <2>2 DEF Operation, OpPc
  <2> QED  BY <1>1, <2>1, <2>2, <2>3 DEF Operation
<1>3. row \in Row /\ row.task = t /\ row.step = op[t].step /\ row.attempt = op[t].attempt
  BY <1>2 DEF Row, RowOf
<1> HIDE DEF row
<1>4. TypeOK' /\ Positions' /\ Locks'
  BY <1>1, <1>2, <1>3 DEF TypeOK, Positions, Locks
<1>5. RowsKnown'
  <2>1. \A r \in file \cup open : r.task \in Tasks
    BY DEF TypeOK, Row
  <2> SUFFICES ASSUME NEW r \in file' \cup open'
               PROVE  LET o == op'[r.task] IN
                        /\ o.pc # "idle"
                        /\ r.step \in 1..Steps[r.task]
                        /\ r.attempt <= o.attempt
                        /\ r.attempt = o.attempt => r.step < o.step
                        /\ r.step = Steps[r.task] =>
                             r.attempt = o.attempt /\ o.pc \in {"commit", "ok", "killed"}
    BY DEF RowsKnown
  <2>2. CASE r = row
    BY <1>2, <1>3, <2>2
  <2>3. CASE r # row /\ r.task # t
    BY <1>1, <1>2, <2>1, <2>3 DEF RowsKnown
  <2>4. CASE r # row /\ r.task = t
    <3>1. /\ r.step \in 1..Steps[t]
          /\ r.attempt <= op[t].attempt
          /\ r.attempt = op[t].attempt => r.step < op[t].step
          /\ r.step # Steps[t]
      BY <1>1, <2>4 DEF RowsKnown
    <3> QED  BY <1>2, <2>4, <3>1
  <2> QED  BY <2>2, <2>3, <2>4
<1>6. Kept'
  <2> SUFFICES ASSUME NEW u \in Tasks \ dropped
               PROVE  /\ op'[u].pc \in {"execute", "commit"} =>
                           \A s \in 1..(op'[u].step - 1) : RowOf(u, s)' \in file' \cup open'
                      /\ op'[u].pc = "ok" => \A s \in 1..Steps[u] : RowOf(u, s)' \in file'
    BY <1>1 DEF Kept
  <2>1. CASE u # t
    BY <1>1, <1>2, <2>1 DEF Kept, RowOf
  <2>2. CASE u = t
    <3>1. \A s : RowOf(t, s)' = RowOf(t, s)
      BY <1>2 DEF RowOf
    <3>2. \A s \in 1..(op[t].step - 1) : RowOf(t, s) \in file \cup open
      BY <1>1, <2>2 DEF Kept
    <3>3. \A s \in 1..(op'[t].step - 1) : s \in 1..(op[t].step - 1) \/ s = op[t].step
      BY <1>2
    <3>4. RowOf(t, op[t].step) = row
      BY DEF row
    <3>5. \A s \in 1..(op'[t].step - 1) : RowOf(t, s)' \in file' \cup open'
      BY <1>1, <3>1, <3>2, <3>3, <3>4
    <3> QED  BY <1>2, <2>2, <3>5
  <2> QED  BY <2>1, <2>2
<1>7. Together'
  BY <1>1, <1>2 DEF Together, UnderWay, TypeOK
<1>8. Owners'
  BY <1>1, <1>2, <1>3 DEF Owners, UnderWay, RowsOf, TypeOK, Row
<1> QED  BY <1>4, <1>5, <1>6, <1>7, <1>8

\* A statement fails for a reason of its own.
LEMMA RejectKeeps ==
  ASSUME CInv, NEW t \in Tasks, Reject(t)
  PROVE  CInv'
<1> USE ConnectionAssumption DEF CInv
<1>1. /\ op \in [Tasks -> Operation]
      /\ op' = [op EXCEPT ![t].pc = "rejected"]
      /\ op[t].pc = "execute"
      /\ writing' = TRUE
      /\ ~foreign
      /\ UNCHANGED <<open, file, foreign, crashes, shared, dropped>>
  BY DEF TypeOK, Reject, GoTo
<1>2. /\ op'[t] = [op[t] EXCEPT !.pc = "rejected"]
      /\ \A u \in Tasks : u # t => op'[u] = op[u]
      /\ op' \in [Tasks -> Operation]
  BY <1>1 DEF Operation, OpPc
<1>3. TypeOK' /\ Positions' /\ Locks'
  BY <1>1, <1>2, ZenonT(60) DEF TypeOK, Operation, Positions, Locks
<1>4. RowsKnown'
  BY <1>1, <1>2 DEF TypeOK, Operation, RowsKnown, Row
<1>5. Kept'
  BY <1>1, <1>2 DEF TypeOK, Operation, Kept, RowOf
<1>6. Together' /\ Owners'
  BY <1>1, <1>2 DEF TypeOK, Operation, Together, Owners, UnderWay, RowsOf, Row
<1> QED  BY <1>3, <1>4, <1>5, <1>6

\* A statement meets the lock of another process.
LEMMA MeetLockKeeps ==
  ASSUME CInv, NEW t \in Tasks, MeetLock(t)
  PROVE  CInv'
<1> USE ConnectionAssumption DEF CInv
<1> DEFINE pc == IF op[t].attempt = MaxAttempts THEN "raised" ELSE "rollback"
<1>1. /\ op \in [Tasks -> Operation]
      /\ op' = [op EXCEPT ![t].pc = pc]
      /\ op[t].pc = "execute"
      /\ foreign
      /\ UNCHANGED <<open, writing, file, foreign, crashes, shared, dropped>>
  BY DEF TypeOK, MeetLock, GoTo
<1>2. /\ op'[t] = [op[t] EXCEPT !.pc = pc]
      /\ \A u \in Tasks : u # t => op'[u] = op[u]
      /\ op' \in [Tasks -> Operation]
      /\ op[t].attempt \in 1..MaxAttempts
  BY <1>1 DEF Operation, OpPc
<1>3. open = {}
  BY <1>1 DEF Locks
<1>4. TypeOK' /\ Positions' /\ Locks'
  BY <1>1, <1>2 DEF TypeOK, Operation, Positions, Locks
<1>5. RowsKnown'
  BY <1>1, <1>2 DEF TypeOK, Operation, RowsKnown, Row
<1>6. Kept'
  BY <1>1, <1>2 DEF TypeOK, Operation, Kept, RowOf
<1>7. Together' /\ Owners'
  BY <1>1, <1>2, <1>3 DEF TypeOK, Operation, Together, Owners, UnderWay, RowsOf, Row
<1> QED  BY <1>4, <1>5, <1>6, <1>7

\* A ROLLBACK takes back the rows of all operations under way.
LEMMA RollbackKeeps ==
  ASSUME CInv, NEW t \in Tasks, Rollback(t)
  PROVE  CInv'
<1> USE ConnectionAssumption DEF CInv
<1>1. /\ op \in [Tasks -> Operation]
      /\ op' = [op EXCEPT ![t].pc = "sleep"]
      /\ op[t].pc = "rollback"
      /\ open' = {}
      /\ writing' = FALSE
      /\ dropped' = dropped \cup {u \in Tasks \ {t} : RowsOf(u, open) # {}}
      /\ UNCHANGED <<file, foreign, crashes, shared>>
  BY DEF TypeOK, Rollback, GoTo
<1>2. /\ op'[t] = [op[t] EXCEPT !.pc = "sleep"]
      /\ \A u \in Tasks : u # t => op'[u] = op[u]
      /\ op' \in [Tasks -> Operation]
  BY <1>1 DEF Operation, OpPc
<1>3. TypeOK' /\ Positions' /\ Locks'
  BY <1>1, <1>2, ZenonT(60) DEF TypeOK, Operation, Positions, Locks
<1>4. RowsKnown'
  BY <1>1, <1>2 DEF TypeOK, Operation, RowsKnown, Row
<1>5. Kept'
  <2> SUFFICES ASSUME NEW u \in Tasks \ dropped'
               PROVE  /\ op'[u].pc \in {"execute", "commit"} =>
                           \A s \in 1..(op'[u].step - 1) : RowOf(u, s)' \in file' \cup open'
                      /\ op'[u].pc = "ok" => \A s \in 1..Steps[u] : RowOf(u, s)' \in file'
    BY DEF Kept
  <2>1. CASE u = t
    BY <1>2, <1>1, <2>1 DEF Operation
  <2>2. CASE u # t
    <3>1. RowsOf(u, open) = {} /\ u \in Tasks \ dropped
      BY <1>1, <2>2
    <3>2. \A s : RowOf(u, s)' = RowOf(u, s) /\ RowOf(u, s).task = u
      BY <1>2, <2>2 DEF RowOf
    <3>3. \A s : RowOf(u, s) \notin open
      BY <3>1, <3>2 DEF RowsOf
    <3> QED  BY <1>1, <1>2, <2>2, <3>1, <3>2, <3>3 DEF Kept
  <2> QED  BY <2>1, <2>2
<1>6. Together'
  <2>1. \A u \in Tasks : UnderWay(u)' <=> UnderWay(u)
    BY <1>1, <1>2 DEF UnderWay, Operation
  <2>2. ASSUME NEW u \in Tasks \ {t}, RowsOf(u, open) # {}, op[u].pc # "rejected"
        PROVE  u \in shared
    BY <1>1, <2>2 DEF Owners, RowsOf, Together, UnderWay
  <2> QED  BY <1>1, <1>2, <2>1, <2>2 DEF Together, TypeOK, Operation
<1>7. Owners'
  BY <1>1, <1>2 DEF TypeOK, Operation, Owners, UnderWay, RowsOf
<1> QED  BY <1>3, <1>4, <1>5, <1>6, <1>7

\* The next attempt.
LEMMA RetryKeeps ==
  ASSUME CInv, NEW t \in Tasks, Retry(t)
  PROVE  CInv'
<1> USE ConnectionAssumption DEF CInv
<1>1. /\ op \in [Tasks -> Operation]
      /\ op' = [op EXCEPT ![t] = [pc |-> "execute", attempt |-> @.attempt + 1, step |-> 1]]
      /\ op[t].pc = "sleep"
      /\ UNCHANGED <<open, writing, file, foreign, crashes, shared, dropped>>
  BY DEF TypeOK, Retry
<1>2. /\ op'[t] = [pc |-> "execute", attempt |-> op[t].attempt + 1, step |-> 1]
      /\ \A u \in Tasks : u # t => op'[u] = op[u]
      /\ op[t].attempt \in 1..MaxAttempts /\ op[t].attempt < MaxAttempts
  BY <1>1 DEF Operation, Positions
<1>3. op' \in [Tasks -> Operation]
  BY <1>1, <1>2 DEF Operation, OpPc
<1>4. TypeOK' /\ Positions' /\ Locks'
  BY <1>1, <1>2, <1>3 DEF TypeOK, Positions, Locks
<1>5. RowsKnown'
  <2>1. \A r \in file \cup open : r.task \in Tasks /\ r.attempt \in Nat
    BY DEF TypeOK, Row
  <2>2. \A r \in file \cup open : r.task = t =>
          /\ r.step \in 1..Steps[t]
          /\ r.attempt <= op[t].attempt
          /\ r.step # Steps[t]
    BY <1>1 DEF RowsKnown
  <2>3. \A r \in file \cup open : r.task = t =>
          r.attempt <= op'[t].attempt /\ r.attempt # op'[t].attempt
    BY <1>2, <2>1, <2>2
  <2> QED  BY <1>1, <1>2, <2>1, <2>2, <2>3 DEF RowsKnown
<1>6. Kept'
  BY <1>1, <1>2 DEF Kept, RowOf
<1>7. Together' /\ Owners'
  BY <1>1, <1>2 DEF Together, Owners, UnderWay, RowsOf, TypeOK, Row
<1> QED  BY <1>4, <1>5, <1>6, <1>7

\* A COMMIT makes the rows of all operations durable.
LEMMA CommitKeeps ==
  ASSUME CInv, NEW t \in Tasks, Commit(t)
  PROVE  CInv'
<1> USE ConnectionAssumption DEF CInv
<1>1. /\ op \in [Tasks -> Operation]
      /\ op' = [op EXCEPT ![t].pc = "ok"]
      /\ op[t].pc = "commit"
      /\ file' = file \cup open
      /\ open' = {}
      /\ writing' = FALSE
      /\ UNCHANGED <<foreign, crashes, shared, dropped>>
  BY DEF TypeOK, Commit, GoTo
<1>2. /\ op'[t] = [op[t] EXCEPT !.pc = "ok"]
      /\ \A u \in Tasks : u # t => op'[u] = op[u]
      /\ op' \in [Tasks -> Operation]
  BY <1>1 DEF Operation, OpPc
<1>3. TypeOK' /\ Positions' /\ Locks'
  BY <1>1, <1>2, ZenonT(60) DEF TypeOK, Operation, Positions, Locks
<1>4. RowsKnown'
  BY <1>1, <1>2 DEF TypeOK, Operation, RowsKnown, Row
<1>5. Kept'
  <2>1. \A s, u : u \in Tasks => RowOf(u, s)' = RowOf(u, s)
    BY <1>1, <1>2 DEF RowOf, Operation
  <2>2. t \notin dropped => \A s \in 1..Steps[t] : RowOf(t, s) \in file \cup open
    BY <1>1 DEF Kept, Positions
  <2> QED  BY <1>1, <1>2, <2>1, <2>2 DEF Kept, Operation
<1>6. Together'
  BY <1>1, <1>2 DEF TypeOK, Operation, Together, UnderWay
<1>7. Owners'
  <2> SUFFICES ASSUME NEW u \in Tasks \ shared, UnderWay(u)' \/ op'[u].pc \in {"killed", "raised"}
               PROVE  RowsOf(u, file') = {}
    BY <1>1 DEF Owners
  <2>1. u # t /\ op'[u] = op[u]
    BY <1>1, <1>2 DEF UnderWay, Operation
  <2>2. RowsOf(u, file) = {}
    BY <2>1 DEF Owners, UnderWay
  <2>3. RowsOf(u, open) = {}
    BY <1>1, <2>1 DEF Owners, UnderWay, Together, RowsOf
  <2> QED  BY <1>1, <2>2, <2>3 DEF RowsOf
<1> QED  BY <1>3, <1>4, <1>5, <1>6, <1>7

\* The process dies.
LEMMA CrashKeeps ==
  ASSUME CInv, Crash
  PROVE  CInv'
<1> USE ConnectionAssumption DEF CInv
<1>1. /\ op \in [Tasks -> Operation]
      /\ op' = [u \in Tasks |-> IF UnderWay(u) THEN [op[u] EXCEPT !.pc = "killed"] ELSE op[u]]
      /\ open' = {}
      /\ writing' = FALSE
      /\ crashes' \in 0..MaxCrashes
      /\ UNCHANGED <<file, foreign, shared, dropped>>
  BY DEF TypeOK, Crash
<1>2. \A u \in Tasks : /\ op'[u] \in Operation
                       /\ op'[u].attempt = op[u].attempt
                       /\ op'[u].step = op[u].step
                       /\ op'[u].pc = IF UnderWay(u) THEN "killed" ELSE op[u].pc
  BY <1>1 DEF Operation, OpPc
<1>3. TypeOK'
  BY <1>1, <1>2 DEF TypeOK
<1>4. Positions' /\ Locks'
  BY <1>1, <1>2 DEF Positions, Locks, UnderWay
<1>5. RowsKnown'
  BY <1>1, <1>2 DEF TypeOK, RowsKnown, Row, UnderWay
<1>6. Kept'
  BY <1>1, <1>2 DEF Kept, RowOf, UnderWay
<1>7. Together'
  BY <1>1, <1>2 DEF TypeOK, Together, UnderWay
<1>8. Owners'
  BY <1>1, <1>2 DEF Owners, UnderWay, RowsOf
<1> QED  BY <1>3, <1>4, <1>5, <1>6, <1>7, <1>8

\* Another process takes or frees the lock.
LEMMA LocksKeep ==
  ASSUME CInv, ForeignLock \/ ForeignUnlock \/ UNCHANGED vars
  PROVE  CInv'
<1>1. UNCHANGED <<op, open, writing, file, crashes, shared, dropped>>
  BY DEF ForeignLock, ForeignUnlock, vars
<1>2. foreign' \in BOOLEAN /\ (foreign' => ~writing)
  <2>1. CASE ForeignLock \/ ForeignUnlock
    BY <2>1 DEF ForeignLock, ForeignUnlock
  <2>2. CASE UNCHANGED vars
    BY <2>2 DEF CInv, TypeOK, Locks, vars
  <2> QED  BY <2>1, <2>2
<1> QED
  BY <1>1, <1>2 DEF CInv, TypeOK, Positions, Locks, RowsKnown, Kept, RowOf, Together,
                    Owners, UnderWay

\* The invariant holds in every reachable state.
LEMMA ConnectionInductive == Spec => []CInv
<1>1. CInv /\ [Next]_vars => CInv'
  BY BeginKeeps, ExecuteKeeps, RejectKeeps, MeetLockKeeps, RollbackKeeps, RetryKeeps,
     CommitKeeps, CrashKeeps, LocksKeep
     DEF Next, Advance
<1> QED  BY <1>1, InitEstablishes, PTL DEF Spec

-----------------------------------------------------------------------------
\* Operations, rows and the lock of the connection keep their types.
THEOREM ConnectionTyped == Spec => []TypeOK
BY ConnectionInductive, PTL DEF CInv

\* The rows of an operation that returned are those of its statements.
LEMMA KeptIsWritten ==
  ASSUME CInv, NEW t \in Tasks, t \notin dropped, op[t].pc = "ok"
  PROVE  Written(t, file) = 1..Steps[t]
<1>1. \A s \in 1..Steps[t] : RowOf(t, s) \in file
  BY DEF CInv, Kept
<1>2. \A s : RowOf(t, s) \in file => s \in Written(t, file)
  BY DEF Written, RowsOf, RowOf
<1>3. \A s \in Written(t, file) : s \in 1..Steps[t]
  BY DEF CInv, RowsKnown, Written, RowsOf
<1> QED  BY <1>1, <1>2, <1>3

\* An operation that ran alone is atomic.
THEOREM AloneAtomic == Spec => []AloneIsAtomic
<1>1. CInv => AloneIsAtomic
  <2> SUFFICES ASSUME CInv, NEW t \in Tasks \ shared
               PROVE  /\ op[t].pc = "ok" => Written(t, file) = 1..Steps[t]
                      /\ op[t].pc \in {"killed", "raised"} => RowsOf(t, file \cup open) = {}
    BY DEF AloneIsAtomic
  <2>1. ASSUME op[t].pc = "ok" PROVE Written(t, file) = 1..Steps[t]
    BY <2>1, KeptIsWritten DEF CInv, Together
  <2>2. ASSUME op[t].pc \in {"killed", "raised"} PROVE RowsOf(t, file \cup open) = {}
    BY <2>2 DEF CInv, Owners, UnderWay, RowsOf
  <2> QED  BY <2>1, <2>2
<1> QED  BY <1>1, ConnectionInductive, PTL

\* What was reported as done is durable, or another's retry dropped it.
THEOREM AcknowledgedDurable == Spec => []AcknowledgedIsDurable
<1>1. CInv => AcknowledgedIsDurable
  BY KeptIsWritten DEF AcknowledgedIsDurable
<1> QED  BY <1>1, ConnectionInductive, PTL

\* However often an operation is tried, its INSERT takes effect once at most.
THEOREM InsertedOnceAtMost == Spec => []InsertedOnce
<1>1. CInv => InsertedOnce
  <2> SUFFICES ASSUME CInv, NEW t \in Tasks
               PROVE  Cardinality({r \in file \cup open : r.task = t /\ r.step = Steps[t]}) <= 1
    BY DEF InsertedOnce
  <2> DEFINE last == RowOf(t, Steps[t])
             rows == {r \in file \cup open : r.task = t /\ r.step = Steps[t]}
  <2>1. rows \subseteq {last}
    BY DEF CInv, TypeOK, RowsKnown, Row, RowOf
  <2>2. IsFiniteSet({last}) /\ Cardinality({last}) = 1
    BY FS_Singleton
  <2>3. Cardinality(rows) <= Cardinality({last})
    BY <2>1, <2>2, FS_Subset
  <2> QED  BY <2>2, <2>3
<1> QED  BY <1>1, ConnectionInductive, PTL
=============================================================================
