---------------------------- MODULE EntryProofs ----------------------------
(***************************************************************************)
(* How an entry ends, for every bound and whatever its packages are: once, *)
(* and watched by its heartbeat until then.  That proof looks at the tasks  *)
(* of the strand only for checks of the heartbeat and for tasks that hold  *)
(* the entry; its invariant adds that m_shutdown_handler is "called" when  *)
(* the entry is not active, which is what cancels the timer, and that an   *)
(* entry that is gone stays so.                                            *)
(*                                                                         *)
(* And what becomes of its input until then: no message is lost, and none  *)
(* waits behind a complete package.  The input tasks stand for the units   *)
(* that are pending, and stream and pending together are what the peer     *)
(* sent, from the head of a package on.                                    *)
(***************************************************************************)
EXTENDS Entry, FiniteSetTheorems, SequenceTheorems, TLAPS

Tasks == [kind : {"input", "shutdown", "close", "heartbeat"}, units : Nat]

HasCheck(q) == \E i \in DOMAIN q : q[i].kind = "heartbeat"
OneCheck(q) ==
  \A i, j \in DOMAIN q : q[i].kind = "heartbeat" /\ q[j].kind = "heartbeat" => i = j
HasStrong(q) == \E i \in DOMAIN q : q[i].kind \in {"close", "shutdown"}

EntryInv ==
  /\ tasks \in Seq(Tasks)
  /\ handler \in {"not_supplied", "supplied", "called"}
  /\ active => handler # "called"
  /\ terminated = IF active THEN 0 ELSE 1
  /\ calls \in Nat /\ calls <= terminated
  /\ timer => active
  /\ active /\ ~Gone => timer \/ HasCheck(tasks)
  /\ OneCheck(tasks)
  /\ HasCheck(tasks) => ~timer

(* The entry is gone when nobody and no task holds it.                       *)
LEMMA GoneMeans == Gone <=> ~owned /\ pc = "idle" /\ ~HasStrong(tasks)
  BY DEF Gone, Strong, HasStrong

-----------------------------------------------------------------------------
(* The queue of tasks                                                        *)

LEMMA TaskTaken ==
  ASSUME NEW q \in Seq(Tasks), q # <<>>
  PROVE  /\ Tail(q) \in Seq(Tasks)
         /\ OneCheck(q) => OneCheck(Tail(q))
         /\ HasCheck(Tail(q)) => HasCheck(q)
         /\ HasCheck(q) => HasCheck(Tail(q)) \/ Head(q).kind = "heartbeat"
         /\ Head(q).kind = "heartbeat" /\ OneCheck(q) => ~HasCheck(Tail(q))
         /\ HasStrong(Tail(q)) => HasStrong(q)
         /\ Head(q).kind \in {"close", "shutdown"} => HasStrong(q)
<1> DEFINE r == Tail(q)
<1>1. /\ r \in Seq(Tasks) /\ Head(q) = q[1] /\ Len(q) \in Nat \ {0}
      /\ DOMAIN q = 1..Len(q) /\ DOMAIN r = 1..(Len(q) - 1)
      /\ \A i \in 1..(Len(q) - 1) : r[i] = q[i + 1]
  OBVIOUS
<1> HIDE DEF r
<1>2. \A i \in DOMAIN r : i + 1 \in DOMAIN q /\ i + 1 # 1 /\ r[i] = q[i + 1]
  BY <1>1
<1>3. \A i \in DOMAIN q : i # 1 => i - 1 \in DOMAIN r /\ r[i - 1] = q[i]
  BY <1>1
<1>4. OneCheck(q) => OneCheck(r)
  <2> SUFFICES ASSUME OneCheck(q), NEW i \in DOMAIN r, NEW j \in DOMAIN r,
                      r[i].kind = "heartbeat", r[j].kind = "heartbeat"
               PROVE  i = j
    BY DEF OneCheck
  <2>1. i + 1 = j + 1
    BY <1>2 DEF OneCheck
  <2> QED
    BY <1>1, <2>1
<1>5. HasCheck(r) => HasCheck(q)
  BY <1>2 DEF HasCheck
<1>6. HasCheck(q) => HasCheck(r) \/ Head(q).kind = "heartbeat"
  BY <1>1, <1>3 DEF HasCheck
<1>7. Head(q).kind = "heartbeat" /\ OneCheck(q) => ~HasCheck(r)
  BY <1>1, <1>2 DEF HasCheck, OneCheck
<1>8. HasStrong(r) => HasStrong(q)
  BY <1>2 DEF HasStrong
<1>9. Head(q).kind \in {"close", "shutdown"} => HasStrong(q)
  BY <1>1 DEF HasStrong
<1> QED
  BY <1>1, <1>4, <1>5, <1>6, <1>7, <1>8, <1>9 DEF r

(* A task more: still one check at most, unless it is a second one.          *)
LEMMA TaskAdded ==
  ASSUME NEW q \in Seq(Tasks), NEW e \in Tasks
  PROVE  /\ Append(q, e) \in Seq(Tasks)
         /\ OneCheck(q) /\ (e.kind = "heartbeat" => ~HasCheck(q)) => OneCheck(Append(q, e))
         /\ HasCheck(Append(q, e)) <=> HasCheck(q) \/ e.kind = "heartbeat"
         /\ HasStrong(Append(q, e)) <=> HasStrong(q) \/ e.kind \in {"close", "shutdown"}
<1> DEFINE r == Append(q, e)
<1>1. /\ r \in Seq(Tasks) /\ Len(q) \in Nat
      /\ DOMAIN q = 1..Len(q) /\ DOMAIN r = 1..(Len(q) + 1)
      /\ \A i \in 1..Len(q) : r[i] = q[i]
      /\ r[Len(q) + 1] = e
  OBVIOUS
<1> HIDE DEF r
<1>2. \A i \in DOMAIN r : (i \in DOMAIN q /\ r[i] = q[i]) \/ (i = Len(q) + 1 /\ r[i] = e)
  BY <1>1
<1>3. (\A i \in DOMAIN q : i \in DOMAIN r /\ r[i] = q[i])
      /\ Len(q) + 1 \in DOMAIN r
  BY <1>1
<1>4. OneCheck(q) /\ (e.kind = "heartbeat" => ~HasCheck(q)) => OneCheck(r)
  BY <1>2 DEF OneCheck, HasCheck
<1>5. HasCheck(r) <=> HasCheck(q) \/ e.kind = "heartbeat"
  BY <1>1, <1>2, <1>3 DEF HasCheck
<1>6. HasStrong(r) <=> HasStrong(q) \/ e.kind \in {"close", "shutdown"}
  BY <1>1, <1>2, <1>3 DEF HasStrong
<1> QED
  BY <1>1, <1>4, <1>5, <1>6 DEF r

(* Task makes tasks of the kind asked for.                                   *)
LEMMA TaskIsTask ==
  ASSUME NEW kind \in {"input", "shutdown", "close", "heartbeat"}, NEW n \in Nat
  PROVE  Task(kind, n) \in Tasks /\ Task(kind, n).kind = kind
  BY DEF Task, Tasks

-----------------------------------------------------------------------------
(* The three ways in which a step touches what the invariant says            *)

(* An active entry that is not gone keeps its timer or check. *)
LEMMA WatchGoesOn ==
  ASSUME EntryInv, UNCHANGED <<active, handler, calls, terminated>>,
         tasks' \in Seq(Tasks), OneCheck(tasks'), Gone => Gone',
         timer' => active, HasCheck(tasks') => ~timer',
         active /\ ~Gone /\ (timer \/ HasCheck(tasks)) => timer' \/ HasCheck(tasks')
  PROVE  EntryInv'
<1>1. OneCheck(tasks)' /\ (HasCheck(tasks)' <=> HasCheck(tasks'))
  BY DEF OneCheck, HasCheck
<1> QED
  BY <1>1 DEF EntryInv

(* A terminated entry has no timer any more. *)
LEMMA EndedStays ==
  ASSUME EntryInv, ~active, UNCHANGED entryVars, tasks' \in Seq(Tasks), OneCheck(tasks')
  PROVE  EntryInv'
<1>1. OneCheck(tasks)'
  BY DEF OneCheck
<1> QED
  BY <1>1 DEF EntryInv, entryVars

(* terminate() keeps the invariant.                                          *)
LEMMA TerminateKeeps ==
  ASSUME EntryInv, active, Terminate, active' = FALSE,
         tasks' \in Seq(Tasks), OneCheck(tasks')
  PROVE  EntryInv'
<1>1. OneCheck(tasks)'
  BY DEF OneCheck
<1>2. ~timer' /\ handler' = "called" /\ ~active'
  BY DEF EntryInv, Terminate
<1>3. terminated' = 1 /\ calls' \in {0, 1}
  BY DEF EntryInv, Terminate
<1> QED
  BY <1>1, <1>2, <1>3 DEF EntryInv

(* shutdown_and_terminate() keeps it, also when it comes too late.           *)
LEMMA ShutdownAndTerminateKeeps ==
  ASSUME EntryInv, NEW rest \in Seq(Tasks), OneCheck(rest), ShutdownAndTerminate(rest)
  PROVE  EntryInv'
<1>1. CASE ~active
  BY <1>1, EndedStays DEF ShutdownAndTerminate
<1>2. CASE active
  <2>1. ConnectionShutdown(rest) /\ Terminate /\ active' = FALSE
    BY <1>2 DEF ShutdownAndTerminate
  <2>2. tasks' = rest \/ tasks' = Append(rest, Task("shutdown", 0))
    BY <2>1 DEF ConnectionShutdown
  <2>3. tasks' \in Seq(Tasks) /\ OneCheck(tasks')
    <3> DEFINE e == Task("shutdown", 0)
    <3>1. e \in Tasks /\ e.kind # "heartbeat"
      BY TaskIsTask
    <3> HIDE DEF e
    <3>2. Append(rest, e) \in Seq(Tasks) /\ OneCheck(Append(rest, e))
      BY <3>1, TaskAdded
    <3> QED
      BY <2>2, <3>2 DEF e
  <2> QED
    BY <1>2, <2>1, <2>3, TerminateKeeps
<1> QED
  BY <1>1, <1>2

-----------------------------------------------------------------------------
(* The steps                                                                 *)

LEMMA EntryInvInit == Init => EntryInv
<1> SUFFICES ASSUME Init PROVE EntryInv
  OBVIOUS
<1>1. tasks \in Seq(Tasks) /\ OneCheck(tasks) /\ ~HasCheck(tasks)
  BY DEF Init, OneCheck, HasCheck
<1> QED
  BY <1>1 DEF Init, EntryInv

(* Steps that do not touch the tasks, or add one that is no check. *)
LEMMA EnvironmentKeeps ==
  ASSUME EntryInv, ConnectionInput \/ ConnectionStep \/ ConnectionFails \/ Close \/ Release
  PROVE  EntryInv'
<1>1. /\ tasks \in Seq(Tasks) /\ OneCheck(tasks) /\ (timer => active)
      /\ HasCheck(tasks) => ~timer
  BY DEF EntryInv
<1>2. UNCHANGED entryVars
  BY DEF ConnectionInput, ConnectionStep, ConnectionShutdownAsked, ReadFails, ConnectionFails,
         Close, Release, userVars, connVars
<1>3. ASSUME tasks' = tasks, Gone => Gone'
      PROVE  EntryInv'
  BY <1>1, <1>2, <1>3, WatchGoesOn DEF entryVars
<1>4. ASSUME NEW kind \in {"input", "shutdown", "close"}, NEW n \in Nat,
             tasks' = Append(tasks, Task(kind, n)), Gone => Gone'
      PROVE  EntryInv'
  <2> DEFINE e == Task(kind, n)
  <2>1. e \in Tasks /\ e.kind # "heartbeat"
    BY TaskIsTask
  <2> HIDE DEF e
  <2>2. /\ Append(tasks, e) \in Seq(Tasks) /\ OneCheck(Append(tasks, e))
        /\ HasCheck(Append(tasks, e)) <=> HasCheck(tasks)
    BY <1>1, <2>1, TaskAdded
  <2> QED
    BY <1>1, <1>2, <1>4, <2>2, WatchGoesOn DEF e, entryVars
<1>5. CASE ConnectionInput
  <2>1. PICK us \in Chunks :
          IF inline
          THEN (Gone => UNCHANGED pc) /\ tasks' = tasks
          ELSE tasks' = Append(tasks, Task("input", Len(us))) /\ UNCHANGED pc
    BY <1>5 DEF ConnectionInput
  <2>2. Len(us) \in Nat
    BY EntryAssumption DEF Chunks
  <2>3. UNCHANGED owned
    BY <1>5 DEF ConnectionInput, userVars
  <2>4. CASE inline
    <3>1. Gone => Gone'
      BY <2>1, <2>3, <2>4 DEF Gone
    <3> QED
      BY <1>3, <2>1, <2>4, <3>1
  <2>5. CASE ~inline
    <3>1. Task("input", Len(us)) \in Tasks /\ Task("input", Len(us)).kind = "input"
      BY <2>2, TaskIsTask
    <3>2. HasStrong(tasks') <=> HasStrong(tasks)
      BY <1>1, <2>1, <2>5, <3>1, TaskAdded
    <3>3. Gone => Gone'
      BY <2>1, <2>3, <2>5, <3>2 DEF Gone, Strong, HasStrong
    <3> QED
      BY <1>4, <2>1, <2>2, <2>5, <3>3
  <2> QED
    BY <2>4, <2>5
<1>6. CASE ConnectionStep \/ ConnectionFails
  <2>1. UNCHANGED <<owned, pc>>
    BY <1>6 DEF ConnectionStep, ConnectionShutdownAsked, ReadFails, ConnectionFails, userVars,
                inputVars
  <2>2. tasks' = tasks \/ (~Gone /\ tasks' = Append(tasks, Task("shutdown", 0)))
    BY <1>6 DEF ConnectionStep, ConnectionShutdownAsked, ReadFails, ConnectionFails,
                ConnectionEnds
  <2>3. CASE tasks' = tasks
    BY <1>3, <2>1, <2>3 DEF Gone
  <2>4. CASE ~Gone /\ tasks' = Append(tasks, Task("shutdown", 0))
    BY <1>4, <2>4
  <2> QED
    BY <2>2, <2>3, <2>4
<1>7. CASE Close
  BY <1>4, <1>7 DEF Close
<1>8. CASE Release
  <2>1. owned /\ tasks' = tasks
    BY <1>8 DEF Release
  <2> QED
    BY <1>3, <2>1 DEF Gone
<1> QED
  BY <1>5, <1>6, <1>7, <1>8

(* A timer that expires becomes the only check on the strand.                *)
LEMMA TimerExpiresKeeps ==
  ASSUME EntryInv, TimerExpires
  PROVE  EntryInv'
<1>1. tasks \in Seq(Tasks) /\ OneCheck(tasks) /\ (HasCheck(tasks) => ~timer)
  BY DEF EntryInv
<1>2. /\ timer /\ ~Gone /\ timer' = FALSE /\ tasks' = Append(tasks, Task("heartbeat", 0))
      /\ UNCHANGED <<active, handler, calls, terminated>>
  BY DEF TimerExpires
<1> DEFINE e == Task("heartbeat", 0)
<1>3. e \in Tasks /\ e.kind = "heartbeat"
  BY TaskIsTask
<1>4. tasks' = Append(tasks, e)
  BY <1>2
<1> HIDE DEF e
<1>5. tasks' \in Seq(Tasks) /\ OneCheck(tasks') /\ HasCheck(tasks')
  BY <1>1, <1>2, <1>3, <1>4, TaskAdded
<1> QED
  BY <1>2, <1>5, WatchGoesOn

(* The input loop keeps the invariant.                                       *)
LEMMA InputLoopKeeps ==
  ASSUME EntryInv, InputLoop
  PROVE  EntryInv'
<1>1. /\ tasks \in Seq(Tasks) /\ OneCheck(tasks) /\ (timer => active)
      /\ HasCheck(tasks) => ~timer
  BY DEF EntryInv
<1>2. CASE InputIsConsumed \/ HandleMessage \/ HandleHeartbeatPkg
  <2>1. UNCHANGED entryVars /\ tasks' = tasks /\ pc = "loop"
    BY <1>2 DEF InputIsConsumed, HandleMessage, HandleHeartbeatPkg, Package
  <2>2. ~Gone
    BY <2>1 DEF Gone
  <2> QED
    BY <1>1, <2>1, <2>2, WatchGoesOn DEF entryVars
<1>3. CASE HandleThrowing \/ HandleUnknownId \/ HandleUnparsable \/ HandleRefused
  <2>1. ShutdownAndTerminate(tasks)
    BY <1>3 DEF HandleThrowing, HandleUnknownId, HandleUnparsable, HandleRefused, LoopFails
  <2> QED
    BY <1>1, <2>1, ShutdownAndTerminateKeeps
<1> QED
  BY <1>2, <1>3 DEF InputLoop

(* The tasks of the entry's strand keep it.                                  *)
LEMMA TasksKeep ==
  ASSUME EntryInv, \/ HandleInput \/ HandleShutdown \/ HandleClose
                   \/ CheckHeartbeatInactive \/ CheckHeartbeatAgain \/ CheckHeartbeatTimeout
  PROVE  EntryInv'
<1>1. /\ tasks \in Seq(Tasks) /\ OneCheck(tasks) /\ (timer => active)
      /\ HasCheck(tasks) => ~timer
  BY DEF EntryInv
<1>2. tasks # <<>>
  BY DEF HandleInput, HandleShutdown, HandleClose, CheckHeartbeatInactive, CheckHeartbeatAgain,
         CheckHeartbeatTimeout, Runs
<1> DEFINE rest == Tail(tasks)
<1>3. /\ rest \in Seq(Tasks) /\ OneCheck(rest)
      /\ HasCheck(rest) => HasCheck(tasks)
      /\ HasCheck(tasks) => HasCheck(rest) \/ Head(tasks).kind = "heartbeat"
      /\ Head(tasks).kind = "heartbeat" => ~HasCheck(rest)
      /\ HasStrong(rest) => HasStrong(tasks)
      /\ Head(tasks).kind \in {"close", "shutdown"} => HasStrong(tasks)
  BY <1>1, <1>2, TaskTaken
<1> HIDE DEF rest
<1>4. CASE HandleInput
  <2>1. /\ Head(tasks).kind = "input" /\ tasks' = rest /\ (Gone => UNCHANGED pc)
        /\ UNCHANGED <<entryVars, owned>>
    BY <1>4 DEF HandleInput, Runs, rest, userVars
  <2>2. Gone => Gone'
    BY <1>3, <2>1 DEF Gone, Strong, HasStrong
  <2> QED
    BY <1>1, <1>3, <2>1, <2>2, WatchGoesOn DEF entryVars
<1>5. CASE HandleShutdown
  <2>1. /\ tasks' = rest
        /\ IF active THEN Terminate /\ active' = FALSE ELSE UNCHANGED entryVars
    BY <1>5 DEF HandleShutdown, rest
  <2> QED
    BY <1>3, <2>1, TerminateKeeps, EndedStays
<1>6. CASE HandleClose \/ CheckHeartbeatTimeout
  <2>1. ShutdownAndTerminate(rest)
    BY <1>6 DEF HandleClose, CheckHeartbeatTimeout, rest
  <2> QED
    BY <1>3, <2>1, ShutdownAndTerminateKeeps
<1>7. CASE CheckHeartbeatInactive
  <2>1. /\ Head(tasks).kind = "heartbeat" /\ tasks' = rest /\ (Gone \/ ~active)
        /\ UNCHANGED <<entryVars, owned, pc>>
    BY <1>7 DEF CheckHeartbeatInactive, Runs, rest, userVars, inputVars
  <2>2. Gone => Gone'
    BY <1>3, <2>1 DEF Gone, Strong, HasStrong
  <2> QED
    BY <1>1, <1>3, <2>1, <2>2, WatchGoesOn DEF entryVars
<1>8. CASE CheckHeartbeatAgain
  <2>1. /\ Head(tasks).kind = "heartbeat" /\ tasks' = rest /\ ~Gone /\ active /\ timer' = TRUE
        /\ UNCHANGED <<active, handler, calls, terminated>>
    BY <1>8 DEF CheckHeartbeatAgain, Runs, rest
  <2> QED
    BY <1>3, <2>1, WatchGoesOn
<1> QED
  BY <1>4, <1>5, <1>6, <1>7, <1>8

(* Every step keeps the invariant of the end and of the heartbeat's checks.  *)
LEMMA EntryInvStep == EntryInv /\ [Next]_vars => EntryInv'
<1> SUFFICES ASSUME EntryInv, [Next]_vars PROVE EntryInv'
  OBVIOUS
<1>1. CASE StrandStep
  BY <1>1, InputLoopKeeps, TasksKeep DEF StrandStep
<1>2. CASE ConnectionStep \/ ConnectionInput \/ ConnectionFails \/ Close \/ Release
  BY <1>2, EnvironmentKeeps
<1>3. CASE TimerExpires
  BY <1>3, TimerExpiresKeeps
<1>4. CASE UNCHANGED vars
  <2>1. UNCHANGED <<active, handler, calls, terminated, timer, tasks, owned, pc>>
    BY <1>4 DEF vars, entryVars, inputVars, userVars
  <2>2. /\ tasks' \in Seq(Tasks) /\ OneCheck(tasks') /\ (timer' => active)
        /\ HasCheck(tasks') => ~timer'
        /\ HasCheck(tasks') <=> HasCheck(tasks)
    BY <2>1 DEF EntryInv
  <2>3. Gone => Gone'
    BY <2>1 DEF Gone
  <2> QED
    BY <2>1, <2>2, <2>3, WatchGoesOn
<1> QED
  BY <1>1, <1>2, <1>3, <1>4 DEF Next

-----------------------------------------------------------------------------
(* The entry's flags, its timer and the tasks on its strand agree. *)
THEOREM EntryInvariant == Spec => []EntryInv
  BY EntryInvInit, EntryInvStep, PTL DEF Spec

(* terminate() runs for the first of the causes that end an entry, and the   *)
(* user's shutdown handler is called at most once.                           *)
THEOREM EntryTerminatesOnce == Spec => []TerminateOnce
<1>1. EntryInv => TerminateOnce
  BY DEF EntryInv, TerminateOnce
<1> QED
  BY <1>1, EntryInvariant, PTL

(* An active entry that is still held has its timer running or one           *)
(* on_check_heartbeat on its strand, and a terminated entry has no timer.    *)
THEOREM HeartbeatAlwaysRuns == Spec => []HeartbeatRuns
<1>1. EntryInv => HeartbeatRuns
  BY DEF EntryInv, HeartbeatRuns, HasCheck, OneCheck
<1> QED
  BY <1>1, EntryInvariant, PTL

-----------------------------------------------------------------------------
(* The input                                                                 *)

(* A head is followed by content if its kind has one, and content by a head. *)
Aligned(s) == \A i \in DOMAIN s : s[i] = "content" <=> i > 1 /\ s[i - 1] \in WithContent

EndsInHead(s) == s # <<>> /\ s[Len(s)] \in WithContent

UnitsOf(task) == IF task.kind = "input" THEN task.units ELSE 0

(* The input tasks in q stand for n units: f sums them up. *)
Fits(q, n) ==
  \E f \in [0..Len(q) -> 0..n] :
    /\ f[0] = 0 /\ f[Len(q)] = n
    /\ \A i \in 1..Len(q) : f[i] = f[i - 1] + UnitsOf(q[i])
    /\ \A i, j \in 0..Len(q) : i <= j => f[i] <= f[j]

(* What an active entry has not consumed yet begins with a head, ends where  *)
(* the peer's bytes end for now, and holds the messages not yet delivered.   *)
Unconsumed ==
  /\ Aligned(stream \o pending)
  /\ cut = EndsInHead(stream \o pending)
  /\ delivered + Messages(stream) + Messages(pending) = messages

StreamInv ==
  /\ stream \in Seq(Units) /\ pending \in Seq(Units)
  /\ delivered \in Nat /\ messages \in Nat /\ cut \in BOOLEAN
  /\ Fits(tasks, Len(pending))
  /\ inline => pending = <<>>
  /\ active => ~served
  /\ active /\ ~Gone => Unconsumed
  /\ StreamIsDrained

-----------------------------------------------------------------------------
(* Lemmas about sequences of units                                           *)

(* The messages of two pieces are those of one and those of the other.       *)
LEMMA MessagesOfConcat ==
  ASSUME NEW a \in Seq(Units), NEW b \in Seq(Units)
  PROVE  /\ Messages(a) \in Nat /\ Messages(b) \in Nat
         /\ Messages(a \o b) = Messages(a) + Messages(b)
<1> DEFINE K == {"message", "throwing"}
           A == {i \in DOMAIN a : a[i] \in K}
           B == {i \in DOMAIN b : b[i] \in K}
           C == {i \in DOMAIN (a \o b) : (a \o b)[i] \in K}
           m == Len(a)
           n == Len(b)
           D == {i \in (m + 1)..(m + n) : b[i - m] \in K}
<1>1. /\ m \in Nat /\ n \in Nat /\ DOMAIN a = 1..m /\ DOMAIN b = 1..n
      /\ DOMAIN (a \o b) = 1..(m + n)
      /\ \A i \in 1..m : (a \o b)[i] = a[i]
      /\ \A i \in (m + 1)..(m + n) : (a \o b)[i] = b[i - m]
  OBVIOUS
<1>2. \A i \in 1..(m + n) : i \in 1..m \/ i \in (m + 1)..(m + n)
  BY <1>1
<1>3. /\ \A i \in 1..m : i \in 1..(m + n)
      /\ \A i \in (m + 1)..(m + n) : i \in 1..(m + n) /\ i \notin 1..m
  BY <1>1
<1>4. C = A \cup D /\ A \cap D = {}
  BY <1>1, <1>2, <1>3
<1>5. IsFiniteSet(A) /\ IsFiniteSet(B) /\ Cardinality(A) \in Nat /\ Cardinality(B) \in Nat
  <2>1. IsFiniteSet(1..m) /\ IsFiniteSet(1..n)
    BY <1>1, FS_Interval
  <2>2. A \subseteq 1..m /\ B \subseteq 1..n
    BY <1>1
  <2> QED BY <2>1, <2>2, FS_Subset, FS_CardinalityType
<1>6. IsFiniteSet(D) /\ Cardinality(D) = Cardinality(B)
  <2> DEFINE f == [i \in B |-> i + m]
  <2>1. /\ \A i \in B : i \in 1..n /\ i + m \in (m + 1)..(m + n) /\ (i + m) - m = i
        /\ \A j \in D : j - m \in 1..n /\ (j - m) + m = j
    BY <1>1
  <2>2. \A i \in B : i + m \in D
    BY <2>1
  <2>3. \A j \in D : j - m \in B
    BY <1>1, <2>1
  <2>4. f \in Bijection(B, D)
    <3>1. f \in [B -> D]
      BY <2>2
    <3>2. \A i, j \in B : f[i] = f[j] => i = j
      BY <1>1
    <3>3. \A j \in D : \E i \in B : f[i] = j
      BY <2>1, <2>3
    <3> QED BY <3>1, <3>2, <3>3 DEF Bijection, Injection, Surjection, IsInjective
  <2> HIDE DEF B, D, f
  <2>5. Bijection(B, D) # {}
    BY <2>4
  <2> QED BY <1>5, <2>5, FS_Bijection DEF ExistsBijection
<1>7. Cardinality(C) = Cardinality(A) + Cardinality(B)
  <2> HIDE DEF A, B, C, D
  <2>1. /\ IsFiniteSet(A \cup D)
        /\ Cardinality(A \cup D) = Cardinality(A) + Cardinality(D) - Cardinality(A \cap D)
    BY <1>5, <1>6, FS_Union
  <2>2. Cardinality(A \cap D) = 0
    BY <1>4, FS_EmptySet
  <2> QED BY <1>4, <1>5, <1>6, <2>1, <2>2
<1> QED BY <1>5, <1>7 DEF Messages

(* A package holds one message or none. *)
LEMMA MessagesOfPackage ==
  ASSUME NEW a \in Seq(Units), a # <<>>, \A i \in 2..Len(a) : a[i] = "content"
  PROVE  Messages(a) = IF a[1] \in {"message", "throwing"} THEN 1 ELSE 0
<1>1. /\ DOMAIN a = 1..Len(a) /\ 1 \in 1..Len(a)
      /\ \A i \in 1..Len(a) : i = 1 \/ i \in 2..Len(a)
  OBVIOUS
<1>2. {i \in DOMAIN a : a[i] \in {"message", "throwing"}}
        = IF a[1] \in {"message", "throwing"} THEN {1} ELSE {}
  BY <1>1
<1>3. Cardinality({}) = 0 /\ Cardinality({1}) = 1
  BY FS_EmptySet, FS_Singleton
<1> QED BY <1>2, <1>3 DEF Messages

(* No units hold no messages.                                                *)
LEMMA MessagesOfNone == Messages(<<>>) = 0
<1>1. {i \in DOMAIN << >> : (<< >>)[i] \in {"message", "throwing"}} = {}
  OBVIOUS
<1> QED BY <1>1, FS_EmptySet DEF Messages

(* What is left when a package is consumed from the front. *)
LEMMA FrontConsumed ==
  ASSUME NEW a \in Seq(Units), NEW b \in Seq(Units), a # <<>>,
         a[Len(a)] \notin WithContent, Aligned(a \o b)
  PROVE  Aligned(b) /\ EndsInHead(b) = EndsInHead(a \o b)
<1> DEFINE m == Len(a)
           n == Len(b)
           c == a \o b
<1>1. /\ m \in Nat \ {0} /\ n \in Nat /\ DOMAIN b = 1..n
      /\ DOMAIN c = 1..(m + n) /\ Len(c) = m + n
      /\ c[m] = a[m]
      /\ \A i \in 1..n : c[m + i] = b[i] /\ m + i \in 1..(m + n) /\ m + i > 1
      /\ c # <<>> /\ (b # <<>> <=> n > 0)
  OBVIOUS
<1> HIDE DEF c
<1>2. ASSUME NEW i \in DOMAIN b
      PROVE  b[i] = "content" <=> i > 1 /\ b[i - 1] \in WithContent
  <2>1. b[i] = "content" <=> c[m + i - 1] \in WithContent
    <3>1. \A j \in 1..(m + n) : c[j] = "content" <=> j > 1 /\ c[j - 1] \in WithContent
      BY <1>1 DEF Aligned, c
    <3>2. i \in 1..n /\ m + i \in 1..(m + n) /\ m + i > 1 /\ c[m + i] = b[i]
      BY <1>1
    <3> QED BY <3>1, <3>2
  <2>2. CASE i = 1
    BY <1>1, <2>1, <2>2
  <2>3. CASE i > 1
    <3>1. i - 1 \in 1..n /\ m + (i - 1) = m + i - 1
      BY <1>1, <2>3
    <3> QED BY <1>1, <2>1, <2>3, <3>1
  <2> QED BY <1>1, <2>2, <2>3
<1>3. EndsInHead(b) = EndsInHead(c)
  <2>1. CASE n = 0
    BY <1>1, <2>1 DEF EndsInHead
  <2>2. CASE n > 0
    <3>1. n \in 1..n /\ c[m + n] = b[n]
      BY <1>1, <2>2
    <3> QED BY <1>1, <2>2, <3>1 DEF EndsInHead
  <2> QED BY <1>1, <2>1, <2>2
<1> QED BY <1>2, <1>3 DEF Aligned, c

(* What follows a cut.                                                       *)
LEMMA BackExtended ==
  ASSUME NEW a \in Seq(Units), NEW b \in Seq(Units), b # <<>>, Aligned(a),
         \A i \in DOMAIN b :
           b[i] = "content" <=> IF i = 1 THEN EndsInHead(a) ELSE b[i - 1] \in WithContent
  PROVE  Aligned(a \o b) /\ EndsInHead(a \o b) = (b[Len(b)] \in WithContent)
<1> DEFINE m == Len(a)
           n == Len(b)
           c == a \o b
<1>1. /\ m \in Nat /\ n \in Nat \ {0} /\ DOMAIN b = 1..n /\ DOMAIN a = 1..m
      /\ DOMAIN c = 1..(m + n) /\ Len(c) = m + n
      /\ \A i \in 1..m : c[i] = a[i]
      /\ \A i \in 1..n : c[m + i] = b[i]
      /\ c # <<>> /\ (a # <<>> <=> m > 0)
  OBVIOUS
<1> HIDE DEF c
<1>2. ASSUME NEW i \in 1..(m + n)
      PROVE  c[i] = "content" <=> i > 1 /\ c[i - 1] \in WithContent
  <2>1. CASE i \in 1..m
    <3>1. i > 1 => i - 1 \in 1..m
      BY <1>1, <2>1
    <3> QED BY <1>1, <2>1, <3>1 DEF Aligned
  <2>2. CASE i = m + 1
    <3>1. 1 \in 1..n /\ c[i] = b[1] /\ i - 1 = m
      BY <1>1, <2>2
    <3>2. c[i] = "content" <=> EndsInHead(a)
      BY <1>1, <3>1
    <3>3. CASE m = 0
      BY <1>1, <2>2, <3>2, <3>3 DEF EndsInHead
    <3>4. CASE m > 0
      <4>1. m \in 1..m
        BY <1>1, <3>4
      <4> QED BY <1>1, <2>2, <3>1, <3>2, <3>4, <4>1 DEF EndsInHead
    <3> QED BY <1>1, <3>3, <3>4
  <2>3. CASE i > m + 1
    <3> DEFINE k == i - m
    <3>1. k \in 1..n /\ k > 1 /\ m + k = i /\ k - 1 \in 1..n /\ m + (k - 1) = i - 1 /\ i > 1
      BY <1>1, <2>3
    <3>2. c[i] = b[k] /\ c[i - 1] = b[k - 1]
      BY <1>1, <3>1
    <3> HIDE DEF k
    <3>3. k # 1
      BY <3>1
    <3> QED BY <1>1, <3>1, <3>2, <3>3
  <2> QED BY <1>1, <2>1, <2>2, <2>3
<1>3. n \in 1..n
  BY <1>1
<1>4. Aligned(c)
  BY <1>1, <1>2 DEF Aligned
<1>5. c[m + n] = b[n]
  BY <1>1, <1>3
<1>6. EndsInHead(c) = (b[Len(b)] \in WithContent)
  BY <1>1, <1>5 DEF EndsInHead
<1> QED BY <1>4, <1>6 DEF c

-----------------------------------------------------------------------------
(* Lemmas about the tasks and the units they stand for                       *)

LEMMA FitsNone == Fits(<<>>, 0)
<1> DEFINE f == [i \in 0..0 |-> 0]
<1>1. f \in [0..0 -> 0..0] /\ f[0] = 0 /\ Len(<<>>) = 0
  OBVIOUS
<1>2. \A i \in 0..0 : i = 0
  OBVIOUS
<1> HIDE DEF f
<1> QED BY <1>1, <1>2 DEF Fits

(* A new task fits what was posted for it.                                   *)
LEMMA FitsAdded ==
  ASSUME NEW q \in Seq(Tasks), NEW e \in Tasks, NEW n \in Nat, Fits(q, n)
  PROVE  Fits(Append(q, e), n + UnitsOf(e))
<1> DEFINE m == Len(q)
           k == n + UnitsOf(e)
           r == Append(q, e)
<1>1. UnitsOf(e) \in Nat
  BY DEF UnitsOf, Tasks
<1>2. /\ m \in Nat /\ Len(r) = m + 1 /\ k \in Nat /\ n <= k
      /\ r[m + 1] = e
      /\ \A i \in 1..m : r[i] = q[i]
  BY <1>1
<1>3. PICK f \in [0..m -> 0..n] :
        /\ f[0] = 0 /\ f[m] = n
        /\ \A i \in 1..m : f[i] = f[i - 1] + UnitsOf(q[i])
        /\ \A i, j \in 0..m : i <= j => f[i] <= f[j]
  BY DEF Fits
<1> DEFINE g == [i \in 0..m + 1 |-> IF i = m + 1 THEN k ELSE f[i]]
<1>4. \A i \in 0..m : g[i] = f[i] /\ f[i] \in 0..k /\ f[i] <= k
  <2>1. TAKE i \in 0..m
  <2>2. i \in 0..m + 1 /\ i # m + 1
    BY <1>2
  <2>3. g[i] = f[i]
    BY <2>2
  <2>4. f[i] \in 0..n
    BY <1>3
  <2> HIDE DEF g, k
  <2> QED BY <1>2, <2>3, <2>4
<1>5. g[m + 1] = k /\ g \in [0..m + 1 -> 0..k]
  BY <1>2, <1>4
<1> HIDE DEF g
<1>6. ASSUME NEW i \in 1..m + 1
      PROVE  g[i] = g[i - 1] + UnitsOf(r[i])
  <2>1. CASE i = m + 1
    <3>1. i - 1 = m /\ m \in 0..m
      BY <1>2, <2>1
    <3> QED BY <1>2, <1>3, <1>4, <1>5, <2>1, <3>1
  <2>2. CASE i # m + 1
    <3>1. i \in 1..m /\ i \in 0..m /\ i - 1 \in 0..m
      BY <1>2, <2>2
    <3> QED BY <1>2, <1>3, <1>4, <3>1
  <2> QED BY <2>1, <2>2
<1>7. ASSUME NEW i \in 0..m + 1, NEW j \in 0..m + 1, i <= j
      PROVE  g[i] <= g[j]
  <2>1. CASE j = m + 1
    <3>1. i = m + 1 \/ i \in 0..m
      BY <1>2
    <3> QED BY <1>2, <1>4, <1>5, <2>1, <3>1
  <2>2. CASE j # m + 1
    <3>1. i \in 0..m /\ j \in 0..m
      BY <1>2, <1>7, <2>2
    <3> QED BY <1>3, <1>4, <1>7, <3>1
  <2> QED BY <2>1, <2>2
<1>8. g[0] = 0
  BY <1>2, <1>3, <1>4
<1> HIDE DEF r, k
<1> QED BY <1>2, <1>5, <1>6, <1>7, <1>8 DEF Fits, r, k

(* Without its first task the rest of the queue fits the rest of the bytes.  *)
LEMMA FitsTaken ==
  ASSUME NEW q \in Seq(Tasks), q # <<>>, NEW n \in Nat, Fits(q, n)
  PROVE  /\ UnitsOf(Head(q)) \in 0..n
         /\ Fits(Tail(q), n - UnitsOf(Head(q)))
<1> DEFINE m == Len(q)
           u == UnitsOf(Head(q))
           r == Tail(q)
<1>1. /\ m \in Nat \ {0} /\ Len(r) = m - 1 /\ Head(q) = q[1] /\ q[1] \in Tasks
      /\ \A i \in 1..m - 1 : r[i] = q[i + 1]
  OBVIOUS
<1>2. PICK f \in [0..m -> 0..n] :
        /\ f[0] = 0 /\ f[m] = n
        /\ \A i \in 1..m : f[i] = f[i - 1] + UnitsOf(q[i])
        /\ \A i, j \in 0..m : i <= j => f[i] <= f[j]
  BY DEF Fits
<1>3. u \in Nat
  BY <1>1 DEF UnitsOf, Tasks
<1>4. f[1] = u /\ u \in 0..n
  <2>1. 1 \in 1..m /\ 1 \in 0..m /\ 1 - 1 = 0
    BY <1>1
  <2>2. f[1] = f[0] + UnitsOf(q[1])
    BY <1>2, <2>1
  <2> QED BY <1>1, <1>2, <1>3, <2>1, <2>2
<1> HIDE DEF u
<1> DEFINE g == [i \in 0..m - 1 |-> f[i + 1] - u]
<1>5. \A i \in 0..m - 1 : f[i + 1] - u \in 0..(n - u)
  <2>1. TAKE i \in 0..m - 1
  <2>2. 1 \in 0..m /\ i + 1 \in 0..m /\ 1 <= i + 1
    BY <1>1
  <2>3. f[1] <= f[i + 1] /\ f[i + 1] \in 0..n
    BY <1>2, <2>2
  <2> QED BY <1>4, <2>3
<1>6. g \in [0..m - 1 -> 0..(n - u)] /\ \A i \in 0..m - 1 : g[i] = f[i + 1] - u
  BY <1>5
<1> HIDE DEF g
<1>7. g[0] = 0 /\ g[m - 1] = n - u
  <2>1. 0 \in 0..m - 1 /\ m - 1 \in 0..m - 1 /\ 0 + 1 = 1 /\ (m - 1) + 1 = m
    BY <1>1
  <2> QED BY <1>2, <1>4, <1>6, <2>1
<1>8. ASSUME NEW i \in 1..m - 1
      PROVE  g[i] = g[i - 1] + UnitsOf(r[i])
  <2>1. /\ i \in 0..m - 1 /\ i - 1 \in 0..m - 1 /\ i + 1 \in 1..m /\ (i - 1) + 1 = i
        /\ (i + 1) - 1 = i /\ i \in 0..m /\ i + 1 \in 0..m
    BY <1>1
  <2>2. f[i + 1] = f[i] + UnitsOf(q[i + 1])
    BY <1>2, <2>1
  <2>3. g[i] = f[i + 1] - u /\ g[i - 1] = f[i] - u
    BY <1>6, <2>1
  <2>4. UnitsOf(q[i + 1]) \in Nat
    <3>1. q[i + 1] \in Tasks
      BY <2>1
    <3> QED BY <3>1 DEF UnitsOf, Tasks
  <2>5. f[i] \in Nat /\ u \in Nat
    BY <1>2, <1>3, <2>1
  <2>6. r[i] = q[i + 1]
    BY <1>1
  <2> QED BY <2>2, <2>3, <2>4, <2>5, <2>6
<1>9. ASSUME NEW i \in 0..m - 1, NEW j \in 0..m - 1, i <= j
      PROVE  g[i] <= g[j]
  <2>1. i + 1 \in 0..m /\ j + 1 \in 0..m /\ i + 1 <= j + 1
    BY <1>1, <1>9
  <2>2. \A a \in 0..m : f[a] \in Nat
    BY <1>2
  <2>3. f[i + 1] \in Nat /\ f[j + 1] \in Nat
    BY <2>1, <2>2
  <2>4. \A a, b \in 0..m : a <= b => f[a] <= f[b]
    BY <1>2
  <2>5. f[i + 1] <= f[j + 1]
    BY <2>1, <2>4
  <2> QED BY <1>3, <1>6, <2>3, <2>5
<1> HIDE DEF r
<1>10. Fits(r, n - u)
  BY <1>1, <1>6, <1>7, <1>8, <1>9 DEF Fits
<1> QED BY <1>4, <1>10 DEF r, u

-----------------------------------------------------------------------------
(* Ways in which a step touches the input                                    *)

LEMMA PrimedUnits ==
  /\ Fits(tasks', Len(pending')) => Fits(tasks, Len(pending))'
  /\ Aligned(stream' \o pending') => Aligned(stream \o pending)'
  /\ EndsInHead(stream' \o pending') = EndsInHead(stream \o pending)'
  /\ Messages(stream') = Messages(stream)' /\ Messages(pending') = Messages(pending)'
<1>1. Fits(tasks', Len(pending')) => Fits(tasks, Len(pending))'
  BY DEF Fits, UnitsOf
<1>2. Aligned(stream' \o pending') => Aligned(stream \o pending)'
  BY DEF Aligned, WithContent
<1>3. EndsInHead(stream' \o pending') = EndsInHead(stream \o pending)'
  BY DEF EndsInHead, WithContent
<1>4. Messages(stream') = Messages(stream)' /\ Messages(pending') = Messages(pending)'
  BY DEF Messages
<1> QED BY <1>1, <1>2, <1>3, <1>4

(* A step that leaves the input alone. *)
LEMMA InputIsLeft ==
  ASSUME StreamInv, UNCHANGED <<stream, pending, pc, served, delivered, messages, cut, inline>>,
         Fits(tasks', Len(pending)), active' => active,
         active' /\ ~Gone' => active /\ ~Gone
  PROVE  StreamInv'
<1>1. Fits(tasks, Len(pending))'
  BY PrimedUnits
<1>2. Unconsumed => Unconsumed'
  BY DEF Unconsumed, Aligned, EndsInHead, Messages
<1>3. StreamIsDrained'
  BY DEF StreamInv, StreamIsDrained
<1> QED BY <1>1, <1>2, <1>3 DEF StreamInv

(* A step after which the entry is not active. *)
LEMMA InputIsOver ==
  ASSUME ~active', stream' \in Seq(Units), pending' \in Seq(Units),
         delivered' \in Nat, messages' \in Nat, cut' \in BOOLEAN,
         inline' => pending' = <<>>, Fits(tasks', Len(pending'))
  PROVE  StreamInv'
<1>1. Fits(tasks, Len(pending))'
  BY PrimedUnits
<1> QED BY <1>1 DEF StreamInv, StreamIsDrained

(* Tasks that are no input stand for no units. *)
LEMMA TaskFits ==
  ASSUME NEW q \in Seq(Tasks), NEW n \in Nat, Fits(q, n),
         NEW kind \in {"shutdown", "close", "heartbeat"}
  PROVE  Fits(Append(q, Task(kind, 0)), n)
<1> DEFINE e == Task(kind, 0)
<1>1. e \in Tasks /\ UnitsOf(e) = 0
  BY TaskIsTask DEF UnitsOf
<1> HIDE DEF e
<1>2. Fits(Append(q, e), n + UnitsOf(e))
  BY <1>1, FitsAdded
<1>3. n + UnitsOf(e) = n
  BY <1>1
<1> QED BY <1>2, <1>3 DEF e

(* A termination adds no input to the strand, and ends the entry.            *)
LEMMA TerminationFits ==
  ASSUME NEW q \in Seq(Tasks), NEW n \in Nat, Fits(q, n), ShutdownAndTerminate(q)
  PROVE  Fits(tasks', n) /\ ~active'
<1>1. tasks' = q \/ tasks' = Append(q, Task("shutdown", 0))
  BY DEF ShutdownAndTerminate, ConnectionShutdown
<1>2. ~active'
  BY DEF ShutdownAndTerminate, entryVars
<1>3. Fits(Append(q, Task("shutdown", 0)), n)
  BY TaskFits
<1> QED BY <1>1, <1>2, <1>3

(* Taking a task that is no input leaves the pending units as they are.      *)
LEMMA NoInputTaken ==
  ASSUME NEW q \in Seq(Tasks), NEW n \in Nat, q # <<>>, Fits(q, n), Head(q).kind # "input"
  PROVE  Fits(Tail(q), n) /\ Tail(q) \in Seq(Tasks)
<1>1. UnitsOf(Head(q)) = 0
  BY DEF UnitsOf
<1>2. n - 0 = n
  OBVIOUS
<1>3. Tail(q) \in Seq(Tasks)
  BY TaskTaken
<1> QED BY <1>1, <1>2, <1>3, FitsTaken

(* While the entry is active, the loop reads heads as heads. *)
LEMMA HeadIsHead ==
  ASSUME StreamInv, active, pc = "loop", stream # <<>>
  PROVE  /\ Unconsumed
         /\ Head(stream) = stream[1] /\ NextHead = {stream[1]}
         /\ Len(stream) >= 2 => (stream[2] = "content" <=> stream[1] \in WithContent)
<1>1. Unconsumed
  BY DEF StreamInv, Gone
<1> DEFINE s == stream \o pending
<1>2. /\ stream \in Seq(Units) /\ pending \in Seq(Units)
      /\ Len(stream) \in Nat \ {0} /\ Head(stream) = stream[1] /\ stream[1] \in Units
  BY DEF StreamInv
<1>3. /\ 1 \in DOMAIN s /\ s[1] = stream[1]
      /\ Len(stream) >= 2 => 2 \in DOMAIN s /\ s[2] = stream[2]
  BY <1>2
<1>4. \A i \in DOMAIN s : s[i] = "content" <=> i > 1 /\ s[i - 1] \in WithContent
  BY <1>1 DEF Unconsumed, Aligned
<1> HIDE DEF s
<1>5. stream[1] # "content"
  BY <1>3, <1>4
<1>6. stream[1] \in Heads
  BY <1>2, <1>5 DEF Units
<1>7. Len(stream) >= 2 => (stream[2] = "content" <=> stream[1] \in WithContent)
  <2>1. 2 > 1 /\ 2 - 1 = 1
    OBVIOUS
  <2> QED BY <1>3, <1>4, <2>1
<1> QED BY <1>1, <1>2, <1>6, <1>7 DEF NextHead

(* A package is consumed from the front of the stream. *)
LEMMA PackageConsumed ==
  ASSUME StreamInv, active, pc = "loop", UNCHANGED <<entryVars, pc, served, pending, tasks, inline, owned, messages, cut>>,
         NEW a \in Seq(Units), NEW b \in Seq(Units), stream = a \o b, a # <<>>,
         a[Len(a)] \notin WithContent, \A i \in 2..Len(a) : a[i] = "content",
         stream' = b,
         delivered' = IF a[1] \in {"message", "throwing"} THEN delivered + 1 ELSE delivered
  PROVE  StreamInv'
<1>1. Unconsumed
  BY DEF StreamInv, Gone
<1>2. pending \in Seq(Units) /\ delivered \in Nat /\ messages \in Nat
  BY DEF StreamInv
<1>3. stream \o pending = a \o (b \o pending) /\ b \o pending \in Seq(Units)
  BY <1>2
<1>4. Aligned(b \o pending) /\ EndsInHead(b \o pending) = EndsInHead(stream \o pending)
  BY <1>1, <1>3, FrontConsumed DEF Unconsumed
<1>5. Messages(stream) = Messages(a) + Messages(b) /\ Messages(b) \in Nat
      /\ Messages(pending) \in Nat
  BY <1>2, MessagesOfConcat
<1>6. Messages(a) = IF a[1] \in {"message", "throwing"} THEN 1 ELSE 0
  BY MessagesOfPackage
<1>7. delivered' + Messages(b) + Messages(pending) = messages
  BY <1>1, <1>2, <1>5, <1>6 DEF Unconsumed
<1>8. Unconsumed'
  BY <1>1, <1>4, <1>7, PrimedUnits DEF Unconsumed
<1>9. Fits(tasks, Len(pending))'
  BY PrimedUnits DEF StreamInv
<1>10. StreamIsDrained'
  BY DEF StreamIsDrained
<1>11. delivered' \in Nat
  BY <1>2
<1> QED BY <1>8, <1>9, <1>10, <1>11 DEF StreamInv, entryVars

-----------------------------------------------------------------------------
(* The steps and the input                                                   *)

LEMMA StreamInvInit == Init => StreamInv
<1> SUFFICES ASSUME Init PROVE StreamInv
  OBVIOUS
<1>1. /\ stream = <<>> /\ pending = <<>> /\ delivered = 0 /\ messages = 0 /\ cut = FALSE
      /\ tasks = <<>> /\ served = FALSE
  BY DEF Init
<1>2. stream \in Seq(Units) /\ pending \in Seq(Units) /\ Len(pending) = 0
      /\ stream \o pending = <<>> /\ DOMAIN << >> = {}
  BY <1>1
<1>3. Fits(tasks, Len(pending))
  BY <1>1, <1>2, FitsNone
<1>4. Aligned(stream \o pending) /\ EndsInHead(stream \o pending) = FALSE
  BY <1>2 DEF Aligned, EndsInHead
<1>5. Unconsumed
  <2>1. Messages(stream) = 0 /\ Messages(pending) = 0
    BY <1>1, MessagesOfNone
  <2>2. delivered + Messages(stream) + Messages(pending) = messages
    BY <1>1, <2>1
  <2> QED BY <1>1, <1>4, <2>2 DEF Unconsumed
<1> QED BY <1>1, <1>2, <1>3, <1>5 DEF StreamInv, StreamIsDrained

(* What the peer sends in one read is a sequence of units.                   *)
LEMMA ChunkIsInput ==
  ASSUME NEW us \in Chunks
  PROVE  /\ us \in Seq(Units) /\ us # <<>> /\ Len(us) \in Nat
         /\ \A i \in DOMAIN us :
              us[i] = "content" <=> IF i = 1 THEN cut ELSE us[i - 1] \in WithContent
<1>1. PICK k \in 1..MaxChunk : us \in [1..k -> Units]
  BY DEF Chunks
<1>2. k \in Nat \ {0}
  BY <1>1, EntryAssumption
<1> QED BY <1>1, <1>2 DEF Chunks

(* An input that is read extends what is on its way to the entry.            *)
LEMMA ConnectionInputStream ==
  ASSUME EntryInv, StreamInv, ConnectionInput
  PROVE  StreamInv'
<1>1. PICK us \in Chunks :
        /\ messages' = messages + Messages(us)
        /\ cut' = (us[Len(us)] \in WithContent)
        /\ IF inline
           THEN /\ pc = "idle"
                /\ IF Gone THEN UNCHANGED <<stream, pc>>
                           ELSE stream' = stream \o us /\ pc' = "loop"
                /\ UNCHANGED <<tasks, pending>>
           ELSE /\ tasks' = Append(tasks, Task("input", Len(us)))
                /\ pending' = pending \o us
                /\ UNCHANGED <<stream, pc>>
  BY DEF ConnectionInput
<1>2. UNCHANGED <<active, served, delivered, inline, owned>>
  BY DEF ConnectionInput, entryVars, userVars
<1>3. /\ us \in Seq(Units) /\ us # <<>> /\ Len(us) \in Nat
      /\ \A i \in DOMAIN us :
           us[i] = "content" <=> IF i = 1 THEN cut ELSE us[i - 1] \in WithContent
  BY ChunkIsInput
<1>4. /\ stream \in Seq(Units) /\ pending \in Seq(Units) /\ delivered \in Nat
      /\ messages \in Nat /\ Fits(tasks, Len(pending)) /\ (inline => pending = <<>>)
      /\ (active => ~served) /\ StreamIsDrained
  BY DEF StreamInv
<1>5. tasks \in Seq(Tasks)
  BY DEF EntryInv
<1>6. Messages(us) \in Nat /\ Messages(stream \o us) = Messages(stream) + Messages(us)
      /\ Messages(pending \o us) = Messages(pending) + Messages(us)
      /\ Messages(stream) \in Nat /\ Messages(pending) \in Nat
  BY <1>3, <1>4, MessagesOfConcat
<1>7. stream' \in Seq(Units) /\ pending' \in Seq(Units)
  <2>1. stream \o us \in Seq(Units) /\ pending \o us \in Seq(Units)
    BY <1>3, <1>4
  <2> QED BY <1>1, <1>4, <2>1
<1>8. messages' \in Nat /\ cut' \in BOOLEAN
  BY <1>1, <1>4, <1>6
<1>9. Fits(tasks', Len(pending'))
  <2>1. CASE inline
    BY <1>1, <1>4, <2>1
  <2>2. CASE ~inline
    <3> DEFINE e == Task("input", Len(us))
    <3>1. e \in Tasks /\ UnitsOf(e) = Len(us)
      BY <1>3, TaskIsTask DEF UnitsOf, Task
    <3>2. tasks' = Append(tasks, e)
      BY <1>1, <2>2
    <3> HIDE DEF e
    <3>3. Len(pending) \in Nat /\ Len(pending \o us) = Len(pending) + Len(us)
      BY <1>3, <1>4
    <3>4. Fits(Append(tasks, e), Len(pending) + UnitsOf(e))
      BY <1>4, <1>5, <3>1, <3>3, FitsAdded
    <3> QED BY <1>1, <2>2, <3>1, <3>2, <3>3, <3>4
  <2> QED BY <2>1, <2>2
<1>10. Gone => Gone'
  <2>1. CASE inline
    BY <1>1, <1>2, <2>1 DEF Gone
  <2>2. CASE ~inline
    <3>1. Task("input", Len(us)) \in Tasks /\ Task("input", Len(us)).kind = "input"
      BY <1>3, TaskIsTask
    <3>2. HasStrong(tasks') <=> HasStrong(tasks)
      BY <1>1, <1>5, <2>2, <3>1, TaskAdded
    <3> QED BY <1>1, <1>2, <2>2, <3>2 DEF Gone, Strong, HasStrong
  <2> QED BY <2>1, <2>2
<1>11. active' /\ ~Gone' => Unconsumed'
  <2> SUFFICES ASSUME active', ~Gone' PROVE Unconsumed'
    OBVIOUS
  <2>1. active /\ ~Gone /\ Unconsumed
    BY <1>2, <1>10 DEF StreamInv
  <2>2. stream' \o pending' = (stream \o pending) \o us /\ stream \o pending \in Seq(Units)
    <3>1. CASE inline
      <4>1. pending = <<>> /\ stream \o pending = stream /\ pending' = <<>>
        BY <1>1, <1>4, <3>1
      <4>2. stream' \o pending' = stream \o us
        BY <1>1, <1>7, <2>1, <3>1, <4>1
      <4> QED BY <1>4, <4>1, <4>2
    <3>2. CASE ~inline
      <4>1. stream' = stream /\ pending' = pending \o us
        BY <1>1, <3>2
      <4> QED BY <1>3, <1>4, <4>1
    <3> QED BY <3>1, <3>2
  <2>3. Aligned(stream' \o pending')
        /\ EndsInHead(stream' \o pending') = (us[Len(us)] \in WithContent)
    BY <1>3, <2>1, <2>2, BackExtended DEF Unconsumed
  <2>4. delivered' + Messages(stream') + Messages(pending') = messages'
    <3>0. /\ delivered' + Messages(stream \o us) + Messages(pending) = messages'
          /\ delivered' + Messages(stream) + Messages(pending \o us) = messages'
      <4>1. delivered + Messages(stream) + Messages(pending) = messages
        BY <2>1 DEF Unconsumed
      <4> QED BY <1>1, <1>2, <1>4, <1>6, <4>1, SMTT(20)
    <3>1. CASE inline
      <4>1. stream' = stream \o us /\ pending' = pending
        BY <1>1, <2>1, <3>1
      <4> QED BY <3>0, <4>1
    <3>2. CASE ~inline
      <4>1. stream' = stream /\ pending' = pending \o us
        BY <1>1, <3>2
      <4> QED BY <3>0, <4>1
    <3> QED BY <3>1, <3>2
  <2> QED BY <1>1, <2>3, <2>4, PrimedUnits DEF Unconsumed
<1>12. StreamIsDrained'
  BY <1>1, <1>2, <1>4 DEF StreamIsDrained
<1>13. Fits(tasks, Len(pending))'
  BY <1>9, PrimedUnits
<1>14. inline' => pending' = <<>>
  BY <1>1, <1>2, <1>4
<1> QED BY <1>2, <1>4, <1>7, <1>8, <1>11, <1>12, <1>13, <1>14 DEF StreamInv

(* A sequence is its first k elements and the others. *)
LEMMA Split ==
  ASSUME NEW s \in Seq(Units), NEW k \in 0..Len(s)
  PROVE  /\ SubSeq(s, 1, k) \in Seq(Units) /\ SubSeq(s, k + 1, Len(s)) \in Seq(Units)
         /\ Len(SubSeq(s, 1, k)) = k /\ Len(SubSeq(s, k + 1, Len(s))) = Len(s) - k
         /\ s = SubSeq(s, 1, k) \o SubSeq(s, k + 1, Len(s))
<1> DEFINE n == Len(s)
           a == SubSeq(s, 1, k)
           b == SubSeq(s, k + 1, n)
<1>1. n \in Nat /\ k \in Nat /\ k <= n /\ DOMAIN s = 1..n /\ n - (k + 1) + 1 = n - k
      /\ \A i \in 1..n : s[i] \in Units
  OBVIOUS
<1>2. a \in Seq(Units) /\ Len(a) = k /\ \A i \in 1..k : a[i] = s[i]
  <2>1. /\ a \in Seq(Units)
        /\ Len(a) = IF 1 <= k THEN k - 1 + 1 ELSE 0
        /\ \A i \in 1..k - 1 + 1 : a[i] = s[1 + i - 1]
    BY <1>1, SubSeqProperties, 1 \in Int, k \in Int
  <2>2. k - 1 + 1 = k /\ \A i \in 1..k : 1 + i - 1 = i
    BY <1>1
  <2> QED BY <1>1, <2>1, <2>2
<1>3. b \in Seq(Units) /\ Len(b) = n - k /\ \A i \in 1..n - k : b[i] = s[k + i]
  <2>1. /\ b \in Seq(Units)
        /\ Len(b) = IF k + 1 <= n THEN n - (k + 1) + 1 ELSE 0
        /\ \A i \in 1..n - (k + 1) + 1 : b[i] = s[k + 1 + i - 1]
    BY <1>1, SubSeqProperties, k + 1 \in Int, n \in Int
  <2>2. \A i \in 1..n - k : k + 1 + i - 1 = k + i
    BY <1>1
  <2> HIDE DEF b, n
  <2> QED BY <1>1, <2>1, <2>2
<1> HIDE DEF a, b
<1>4. /\ a \o b \in Seq(Units) /\ Len(a \o b) = n
      /\ \A i \in 1..k : (a \o b)[i] = a[i]
      /\ \A i \in k + 1..n : (a \o b)[i] = b[i - k]
  <2> HIDE DEF n
  <2>1. k + (n - k) = n
    BY <1>1
  <2>2. a \o b \in Seq(Units) /\ Len(a \o b) = k + (n - k)
    BY <1>2, <1>3, ConcatProperties
  <2>3. \A i \in 1..Len(a) + Len(b) :
           (a \o b)[i] = IF i <= Len(a) THEN a[i] ELSE b[i - Len(a)]
    BY <1>2, <1>3, ConcatProperties, Zenon
  <2>4. \A i \in 1..n : (a \o b)[i] = IF i <= k THEN a[i] ELSE b[i - k]
    BY <1>2, <1>3, <2>1, <2>3
  <2>5. /\ \A i \in 1..k : i \in 1..n /\ i <= k
        /\ \A i \in k + 1..n : i \in 1..n /\ ~(i <= k)
    BY <1>1
  <2> QED BY <2>1, <2>2, <2>4, <2>5
<1>5. \A i \in 1..n : (a \o b)[i] = s[i]
  <2>1. TAKE i \in 1..n
  <2>2. CASE i \in 1..k
    BY <1>2, <1>4, <2>2
  <2>3. CASE i \notin 1..k
    <3>1. i \in k + 1..n /\ i - k \in 1..n - k /\ k + (i - k) = i
      BY <1>1, <2>3
    <3> QED BY <1>3, <1>4, <3>1
  <2> QED BY <2>2, <2>3
<1>6. s = a \o b
  <2> DEFINE t == a \o b
  <2>1. t \in Seq(Units) /\ Len(t) = Len(s) /\ \A i \in 1..Len(s) : t[i] = s[i]
    BY <1>4, <1>5
  <2> HIDE DEF t
  <2>2. s = t
    BY <2>1, SeqEqual
  <2> QED BY <2>2 DEF t
<1> QED BY <1>2, <1>3, <1>6 DEF a, b

(* handle_input moves the first input from the strand to the stream.         *)
LEMMA HandleInputStream ==
  ASSUME EntryInv, StreamInv, HandleInput
  PROVE  StreamInv'
<1> DEFINE n == Head(tasks).units
           front == SubSeq(pending, 1, n)
           back == SubSeq(pending, n + 1, Len(pending))
<1>1. /\ pc = "idle" /\ tasks # <<>> /\ Head(tasks).kind = "input"
      /\ tasks' = Tail(tasks) /\ pending' = back
      /\ IF Gone THEN UNCHANGED <<stream, pc>> ELSE stream' = stream \o front /\ pc' = "loop"
      /\ UNCHANGED <<active, served, delivered, messages, cut, inline, owned>>
  BY DEF HandleInput, Runs, entryVars, connVars, peerVars, userVars
<1>2. /\ stream \in Seq(Units) /\ pending \in Seq(Units) /\ delivered \in Nat
      /\ messages \in Nat /\ Fits(tasks, Len(pending)) /\ (inline => pending = <<>>)
      /\ (active => ~served) /\ StreamIsDrained /\ cut \in BOOLEAN /\ Len(pending) \in Nat
  BY DEF StreamInv
<1>3. tasks \in Seq(Tasks)
  BY DEF EntryInv
<1>4. n \in 0..Len(pending) /\ Fits(Tail(tasks), Len(pending) - n)
  <2>1. UnitsOf(Head(tasks)) = n
    BY <1>1 DEF UnitsOf
  <2> HIDE DEF n
  <2> QED BY <1>1, <1>2, <1>3, <2>1, FitsTaken
<1> HIDE DEF n
<1>5. /\ front \in Seq(Units) /\ back \in Seq(Units) /\ Len(back) = Len(pending) - n
      /\ pending = front \o back
  BY <1>2, <1>4, Split
<1> HIDE DEF front, back
<1>6. Fits(tasks, Len(pending))'
  BY <1>1, <1>4, <1>5, PrimedUnits
<1>7. inline' => pending' = <<>>
  <2> SUFFICES ASSUME inline PROVE back = <<>>
    BY <1>1
  <2>1. Len(pending) = 0
    BY <1>2
  <2>2. n = 0
    BY <1>4, <2>1
  <2>3. Len(back) = 0
    BY <1>5, <2>1, <2>2
  <2> QED BY <1>5, <2>3
<1>8. Gone => Gone'
  <2>1. HasStrong(Tail(tasks)) => HasStrong(tasks)
    BY <1>1, <1>3, TaskTaken
  <2> QED BY <1>1, <2>1 DEF Gone, Strong, HasStrong
<1>9. active' /\ ~Gone' => Unconsumed'
  <2> SUFFICES ASSUME active', ~Gone' PROVE Unconsumed'
    OBVIOUS
  <2>1. ~Gone /\ Unconsumed
    BY <1>1, <1>8 DEF StreamInv
  <2>2. stream' = stream \o front
    BY <1>1, <2>1
  <2>3. stream' \o pending' = stream \o pending
    BY <1>1, <1>2, <1>5, <2>2, SMTT(20)
  <2>4. delivered + Messages(stream \o front) + Messages(back) = messages
    <3>1. Messages(stream \o front) = Messages(stream) + Messages(front)
          /\ Messages(stream) \in Nat /\ Messages(front) \in Nat
      BY <1>2, <1>5, MessagesOfConcat
    <3>2. Messages(pending) = Messages(front) + Messages(back) /\ Messages(back) \in Nat
      BY <1>5, MessagesOfConcat
    <3>3. delivered + Messages(stream) + Messages(pending) = messages
      BY <2>1 DEF Unconsumed
    <3> QED BY <1>2, <3>1, <3>2, <3>3
  <2>5. delivered' + Messages(stream') + Messages(pending') = messages'
    BY <1>1, <2>2, <2>4
  <2> QED BY <1>1, <2>1, <2>3, <2>5, PrimedUnits DEF Unconsumed
<1>10. StreamIsDrained'
  BY <1>1, <1>2 DEF StreamIsDrained
<1>11. stream' \in Seq(Units)
  <2>1. stream \o front \in Seq(Units)
    BY <1>2, <1>5
  <2> QED BY <1>1, <1>2, <2>1
<1> QED BY <1>1, <1>2, <1>5, <1>6, <1>7, <1>9, <1>10, <1>11 DEF StreamInv

(* The loop ends with no complete package in the stream.                     *)
LEMMA InputIsConsumedStream ==
  ASSUME StreamInv, InputIsConsumed
  PROVE  StreamInv'
<1>1. /\ pc = "loop" /\ pc' = "idle"
      /\ stream = <<>> \/ (Len(stream) = 1 /\ NextHead \cap WithContent # {})
      /\ UNCHANGED <<active, stream, served, delivered, cut, messages, inline, owned, tasks, pending>>
  BY DEF InputIsConsumed, LoopReturns, entryVars, connVars, peerVars, userVars
<1>2. ~Gone
  BY <1>1 DEF Gone
<1>3. Fits(tasks, Len(pending))'
  BY <1>1, PrimedUnits DEF StreamInv
<1>4. Unconsumed => Unconsumed'
  BY <1>1 DEF Unconsumed, Aligned, EndsInHead, Messages
<1>5. StreamIsDrained'
  <2> SUFFICES ASSUME active, stream # <<>>
               PROVE  Len(stream) = 1 /\ Head(stream) \in WithContent
    BY <1>1 DEF StreamIsDrained
  <2>1. Head(stream) = stream[1] /\ NextHead = {stream[1]}
    BY <1>1, HeadIsHead
  <2> QED BY <1>1, <2>1
<1> QED BY <1>1, <1>2, <1>3, <1>4, <1>5 DEF StreamInv

(* Messages and heartbeats: in an entry that is not active, the loop may read *)
(* anything.                                                                 *)
LEMMA HandleMessageStream ==
  ASSUME StreamInv, HandleMessage
  PROVE  StreamInv'
<1> DEFINE n == Len(stream)
           a == SubSeq(stream, 1, 2)
           b == SubSeq(stream, 3, n)
<1>1. /\ pc = "loop" /\ stream # <<>> /\ "message" \in NextHead /\ n >= 2
      /\ stream' = b /\ delivered' = delivered + 1
      /\ UNCHANGED <<entryVars, served, pc, inline, owned, messages, cut, tasks, pending>>
  BY DEF HandleMessage, Package, Complete, connVars, peerVars, userVars
<1>2. stream \in Seq(Units) /\ n \in Nat /\ delivered \in Nat
  BY DEF StreamInv
<1>3. 2 \in 0..n /\ 2 + 1 = 3
  BY <1>1, <1>2
<1>4. a \in Seq(Units) /\ b \in Seq(Units) /\ Len(a) = 2 /\ stream = a \o b
  BY <1>2, <1>3, Split
<1>5. CASE ~active
  <2>1. ~active' /\ delivered' \in Nat /\ stream' \in Seq(Units)
    BY <1>1, <1>2, <1>4, <1>5 DEF entryVars
  <2> QED BY <1>1, <2>1, InputIsOver DEF StreamInv
<1>6. CASE active
  <2>1. stream[1] = "message" /\ stream[2] = "content"
    BY <1>1, <1>6, HeadIsHead DEF WithContent
  <2>2. a[1] = stream[1] /\ a[2] = stream[2] /\ a # <<>>
    <3> HIDE DEF a, b
    <3>1. a # <<>> /\ 1 <= Len(a) /\ 2 <= Len(a)
          /\ 1 \in 1..Len(a) + Len(b) /\ 2 \in 1..Len(a) + Len(b)
      BY <1>4
    <3>2. \A i \in 1..Len(a) + Len(b) :
             (a \o b)[i] = IF i <= Len(a) THEN a[i] ELSE b[i - Len(a)]
      BY <1>4, ConcatProperties, Zenon
    <3>3. (a \o b)[1] = a[1] /\ (a \o b)[2] = a[2]
      BY <3>1, <3>2
    <3> QED BY <1>4, <3>1, <3>3
  <2> HIDE DEF a, b
  <2>3. a[Len(a)] \notin WithContent /\ \A i \in 2..Len(a) : a[i] = "content"
    BY <1>4, <2>1, <2>2 DEF WithContent
  <2>4. delivered' = IF a[1] \in {"message", "throwing"} THEN delivered + 1 ELSE delivered
    BY <1>1, <2>1, <2>2
  <2>5. UNCHANGED <<entryVars, pc, served, pending, tasks, inline, owned, messages, cut>>
    BY <1>1
  <2> QED BY <1>1, <1>4, <1>6, <2>2, <2>3, <2>4, <2>5, PackageConsumed
<1> QED BY <1>5, <1>6

(* A heartbeat package is taken from the stream whole.                       *)
LEMMA HandleHeartbeatStream ==
  ASSUME StreamInv, HandleHeartbeatPkg
  PROVE  StreamInv'
<1> DEFINE n == Len(stream)
           a == SubSeq(stream, 1, 1)
           b == SubSeq(stream, 1 + 1, n)
<1>1. /\ pc = "loop" /\ stream # <<>> /\ "heartbeat" \in NextHead
      /\ stream' = Tail(stream) /\ delivered' = delivered
      /\ UNCHANGED <<entryVars, served, pc, inline, owned, messages, cut, tasks, pending>>
  BY DEF HandleHeartbeatPkg, Package, connVars, peerVars, userVars
<1>2. stream \in Seq(Units) /\ n \in Nat /\ delivered \in Nat
  BY DEF StreamInv
<1>3. 1 \in 0..n /\ n - 1 \in Nat
  BY <1>1, <1>2
<1>4. a \in Seq(Units) /\ b \in Seq(Units) /\ Len(a) = 1 /\ Len(b) = n - 1 /\ stream = a \o b
  BY <1>2, <1>3, Split
<1>5. stream' = b
  <2> HIDE DEF a, b
  <2> DEFINE t == Tail(stream)
  <2>1. /\ t \in Seq(Units) /\ Len(t) = n - 1
        /\ \A i \in 1..n - 1 : t[i] = stream[i + 1]
    BY <1>1, <1>2
  <2>2. \A i \in 1..n - 1 : stream[i + 1] = b[i]
    <3>1. TAKE i \in 1..n - 1
    <3>2. i + 1 \in 1..Len(a) + Len(b) /\ ~(i + 1 <= Len(a)) /\ (i + 1) - Len(a) = i
      BY <1>2, <1>3, <1>4
    <3>3. \A j \in 1..Len(a) + Len(b) :
             (a \o b)[j] = IF j <= Len(a) THEN a[j] ELSE b[j - Len(a)]
      BY <1>4, ConcatProperties, Zenon
    <3> QED BY <1>4, <3>2, <3>3
  <2> HIDE DEF t
  <2>3. t = b
    BY <1>4, <2>1, <2>2, SeqEqual
  <2> QED BY <1>1, <2>3 DEF t
<1>6. CASE ~active
  <2>1. ~active' /\ delivered' \in Nat /\ stream' \in Seq(Units)
    BY <1>1, <1>2, <1>4, <1>5, <1>6 DEF entryVars
  <2> QED BY <1>1, <2>1, InputIsOver DEF StreamInv
<1>7. CASE active
  <2>1. stream[1] = "heartbeat"
    BY <1>1, <1>7, HeadIsHead
  <2>2. a[1] = stream[1] /\ a # <<>>
    <3> HIDE DEF a, b
    <3>1. 1 \in 1..Len(a)
      BY <1>4
    <3> QED BY <1>4, <3>1
  <2> HIDE DEF a, b
  <2>3. a[Len(a)] \notin WithContent /\ \A i \in 2..Len(a) : a[i] = "content"
    BY <1>4, <2>1, <2>2 DEF WithContent
  <2>4. delivered' = IF a[1] \in {"message", "throwing"} THEN delivered + 1 ELSE delivered
    BY <1>1, <2>1, <2>2
  <2>5. UNCHANGED <<entryVars, pc, served, pending, tasks, inline, owned, messages, cut>>
    BY <1>1
  <2> QED BY <1>1, <1>4, <1>5, <1>7, <2>2, <2>3, <2>4, <2>5, PackageConsumed
<1> QED BY <1>6, <1>7

(* Packages that end the entry. *)
LEMMA FailedPackageStream ==
  ASSUME EntryInv, StreamInv,
         HandleThrowing \/ HandleUnknownId \/ HandleUnparsable \/ HandleRefused
  PROVE  StreamInv'
<1>1. /\ stream \in Seq(Units) /\ pending \in Seq(Units) /\ Len(pending) \in Nat
      /\ delivered \in Nat /\ messages \in Nat /\ cut \in BOOLEAN
      /\ Fits(tasks, Len(pending)) /\ (inline => pending = <<>>)
  BY DEF StreamInv
<1>2. tasks \in Seq(Tasks)
  BY DEF EntryInv
<1>3. /\ ShutdownAndTerminate(tasks) /\ stream # <<>>
      /\ UNCHANGED <<pending, messages, cut, inline>>
      /\ delivered' \in {delivered, delivered + 1}
  BY DEF HandleThrowing, HandleUnknownId, HandleUnparsable, HandleRefused, LoopFails, Package,
         connVars, peerVars, userVars
<1>4. Fits(tasks', Len(pending)) /\ ~active'
  BY <1>1, <1>2, <1>3, TerminationFits
<1>5. stream' \in Seq(Units)
  <2>1. Tail(stream) \in Seq(Units)
    BY <1>1, <1>3
  <2>2. ASSUME Complete PROVE SubSeq(stream, 3, Len(stream)) \in Seq(Units)
    <3>1. Len(stream) \in Nat /\ Len(stream) >= 2
      BY <1>1, <2>2 DEF Complete
    <3>2. 2 \in 0..Len(stream) /\ 2 + 1 = 3
      BY <3>1
    <3> QED BY <1>1, <3>2, Split
  <2> QED
    BY <1>1, <2>1, <2>2 DEF HandleThrowing, HandleUnknownId, HandleUnparsable, HandleRefused
<1>6. delivered' \in Nat
  BY <1>1, <1>3
<1> QED BY <1>1, <1>3, <1>4, <1>5, <1>6, InputIsOver

(* The other tasks of the strand. *)
LEMMA OtherTasksStream ==
  ASSUME EntryInv, StreamInv,
         \/ HandleShutdown \/ HandleClose
         \/ CheckHeartbeatInactive \/ CheckHeartbeatAgain \/ CheckHeartbeatTimeout
  PROVE  StreamInv'
<1>1. /\ stream \in Seq(Units) /\ pending \in Seq(Units) /\ Len(pending) \in Nat
      /\ delivered \in Nat /\ messages \in Nat /\ cut \in BOOLEAN
      /\ Fits(tasks, Len(pending)) /\ (inline => pending = <<>>)
  BY DEF StreamInv
<1>2. tasks \in Seq(Tasks)
  BY DEF EntryInv
<1>3. /\ tasks # <<>> /\ Head(tasks).kind # "input"
      /\ UNCHANGED <<stream, pending, pc, served, delivered, messages, cut, inline, owned>>
  BY DEF HandleShutdown, HandleClose, CheckHeartbeatInactive, CheckHeartbeatAgain,
         CheckHeartbeatTimeout, Runs, inputVars, connVars, peerVars, userVars
<1> DEFINE rest == Tail(tasks)
<1>4. rest \in Seq(Tasks) /\ Fits(rest, Len(pending))
  BY <1>1, <1>2, <1>3, NoInputTaken
<1>5. HasStrong(rest) => HasStrong(tasks)
  BY <1>2, <1>3, TaskTaken
<1> HIDE DEF rest
<1>6. CASE HandleClose \/ CheckHeartbeatTimeout
  <2>1. ShutdownAndTerminate(rest)
    BY <1>6 DEF HandleClose, CheckHeartbeatTimeout, rest
  <2>2. Fits(tasks', Len(pending)) /\ ~active'
    BY <1>1, <1>4, <2>1, TerminationFits
  <2> QED BY <1>1, <1>3, <2>2, InputIsOver
<1>7. CASE HandleShutdown
  <2>1. tasks' = rest /\ ~active'
    BY <1>7 DEF HandleShutdown, rest, entryVars
  <2> QED BY <1>1, <1>3, <1>4, <2>1, InputIsOver
<1>8. CASE CheckHeartbeatInactive
  <2>1. tasks' = rest /\ active' = active
    BY <1>8 DEF CheckHeartbeatInactive, rest, entryVars
  <2>2. Gone => Gone'
    BY <1>3, <1>5, <2>1 DEF Gone, Strong, HasStrong
  <2> QED BY <1>3, <1>4, <2>1, <2>2, InputIsLeft
<1>9. CASE CheckHeartbeatAgain
  <2>1. tasks' = rest /\ active' = active /\ ~Gone
    BY <1>9 DEF CheckHeartbeatAgain, rest
  <2> QED BY <1>3, <1>4, <2>1, InputIsLeft
<1> QED BY <1>6, <1>7, <1>8, <1>9

(* The user, the timer, and the connection besides its input. *)
LEMMA OthersStream ==
  ASSUME EntryInv, StreamInv,
         ConnectionStep \/ ConnectionFails \/ Close \/ Release \/ TimerExpires
  PROVE  StreamInv'
<1>1. /\ pending \in Seq(Units) /\ Len(pending) \in Nat /\ Fits(tasks, Len(pending))
  BY DEF StreamInv
<1>2. tasks \in Seq(Tasks)
  BY DEF EntryInv
<1>3. UNCHANGED <<stream, pending, pc, served, delivered, messages, cut, inline, active>>
  BY DEF ConnectionStep, ConnectionShutdownAsked, ReadFails, ConnectionFails, Close, Release,
         TimerExpires, entryVars, inputVars, connVars, peerVars, userVars
<1>4. \/ tasks' = tasks /\ (owned' = owned \/ Release)
      \/ /\ ~Gone
         /\ \E kind \in {"shutdown", "close", "heartbeat"} :
              tasks' = Append(tasks, Task(kind, 0))
  BY DEF ConnectionStep, ConnectionShutdownAsked, ReadFails, ConnectionFails, ConnectionEnds,
         Close, Release, TimerExpires, userVars
<1>5. CASE tasks' = tasks /\ (owned' = owned \/ Release)
  <2>1. Gone => Gone'
    BY <1>3, <1>5 DEF Gone, Release
  <2> QED BY <1>1, <1>3, <1>5, <2>1, InputIsLeft
<1>6. ASSUME ~Gone, NEW kind \in {"shutdown", "close", "heartbeat"},
             tasks' = Append(tasks, Task(kind, 0))
      PROVE  StreamInv'
  <2>1. Fits(tasks', Len(pending))
    BY <1>1, <1>2, <1>6, TaskFits
  <2> QED BY <1>3, <1>6, <2>1, InputIsLeft
<1> QED BY <1>4, <1>5, <1>6

(* Every step keeps the invariant of the stream, given that of the entry.    *)
LEMMA StreamInvStep == EntryInv /\ StreamInv /\ [Next]_vars => StreamInv'
<1> SUFFICES ASSUME EntryInv, StreamInv, [Next]_vars PROVE StreamInv'
  OBVIOUS
<1>1. CASE StrandStep
  BY <1>1, HandleInputStream, InputIsConsumedStream, HandleMessageStream, HandleHeartbeatStream,
     FailedPackageStream, OtherTasksStream DEF StrandStep, InputLoop
<1>2. CASE ConnectionInput
  BY <1>2, ConnectionInputStream
<1>3. CASE ConnectionStep \/ ConnectionFails \/ Close \/ Release \/ TimerExpires
  BY <1>3, OthersStream
<1>4. CASE UNCHANGED vars
  <2>1. UNCHANGED <<stream, pending, pc, served, delivered, messages, cut, inline, active,
                    tasks, owned>>
    BY <1>4 DEF vars, entryVars, inputVars, connVars, peerVars, userVars
  <2>2. Gone => Gone'
    BY <2>1 DEF Gone
  <2>3. Fits(tasks', Len(pending))
    BY <2>1 DEF StreamInv
  <2> QED BY <2>1, <2>2, <2>3, InputIsLeft
<1> QED BY <1>1, <1>2, <1>3, <1>4 DEF Next

(* The tasks of handle_input hold what raw_bytes_handler_t posted, contents    *)
(* follow their heads, and every message read is delivered, waiting or in a  *)
(* task.                                                                     *)
THEOREM StreamInvariant == Spec => [](EntryInv /\ StreamInv)
<1>1. Init => EntryInv /\ StreamInv
  BY EntryInvInit, StreamInvInit
<1>2. (EntryInv /\ StreamInv) /\ [Next]_vars => (EntryInv /\ StreamInv)'
  BY EntryInvStep, StreamInvStep
<1> QED
  BY <1>1, <1>2, PTL DEF Spec

(* run_input_stream_loop of an active entry stops only when no complete      *)
(* package is left, and what is left begins with the head of its package.    *)
THEOREM StreamIsAlwaysDrained == Spec => []StreamIsDrained
<1>1. StreamInv => StreamIsDrained
  BY DEF StreamInv
<1> QED
  BY <1>1, StreamInvariant, PTL

(* Every message that was read for an active entry was delivered once, waits *)
(* in m_pkg_input, or waits in a task that handle_input is still to run for. *)
THEOREM NoMessageIsEverLost == Spec => []NoMessageLost
<1>1. StreamInv => NoMessageLost
  BY DEF StreamInv, Unconsumed, NoMessageLost
<1> QED
  BY <1>1, StreamInvariant, PTL

(* pkg_input_t::append is never called for an active entry while its first   *)
(* buffer is served, as its assertion demands.                               *)
THEOREM InputMeetsNoServedStream == Spec => AppendNotServed
<1>1. StreamInv /\ [Next]_vars => [active /\ stream' # stream /\ pc = "idle" => ~served]_vars
  BY DEF StreamInv
<1> QED
  BY <1>1, StreamInvariant, PTL DEF Spec, AppendNotServed
=============================================================================
