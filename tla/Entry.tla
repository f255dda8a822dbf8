------------------------------- MODULE Entry -------------------------------
(***************************************************************************)
(* opio::proto_entry::entry_base_t                                         *)
(* (proto_entry/include/opio/proto_entry/entry_base.hpp) and the generated *)
(* entry on top of it (proto_entry/templates/entry.tmpl.hpp): packages are *)
(* cut out of the connection's input and given to the consumer; bad input, *)
(* the user, a missing heartbeat reply and the connection itself can each  *)
(* end the entry.                                                          *)
(*                                                                         *)
(* The entry has a strand of its own, a queue of tasks that run one after  *)
(* the other; the connection's strand runs beside it.  With the no-op      *)
(* strands of the single thread traits (`inline`) dispatch runs its        *)
(* function on the spot.                                                   *)
(*                                                                         *)
(* The input is a sequence of units: a package is a head, its kind, and    *)
(* for some kinds one unit of content.  Time is left to module Heartbeat:  *)
(* here a check may find what it likes.                                    *)
(***************************************************************************)
EXTENDS Integers, Sequences, FiniteSets

CONSTANTS
  InlineOptions,  \* traits: strands (FALSE), no-op strands (TRUE), or both
  MaxUnits,       \* bound: units the peer sends
  MaxChunk,       \* bound: units one read brings
  MaxClose        \* bound: calls of close()

ASSUME EntryAssumption ==
  /\ InlineOptions \subseteq BOOLEAN
  /\ MaxUnits \in Nat /\ MaxChunk \in Nat /\ MaxClose \in Nat

(* The kinds of packages: those whose content is looked at, a heartbeat      *)
(* request or reply, and what is refused by its head alone: a message that   *)
(* is too large, a heartbeat with content, an unknown pkg_content_type.      *)
WithContent == {"message", "throwing", "unknown_id", "unparsable"}
Heads == WithContent \cup {"heartbeat", "refused"}
Units == Heads \cup {"content"}

VARIABLES
  inline,      \* the traits of this entry: dispatch runs at once
  active,      \* m_connection_is_active
  handler,     \* m_shutdown_handler: "not_supplied", "supplied", "called"
  calls,       \* how often the user's shutdown handler was called
  terminated,  \* how often terminate() was called
  tasks,       \* the tasks of the entry's strand
  pending,     \* the units of the input tasks
  stream,      \* the units in m_pkg_input
  served,      \* m_pkg_input.m_first_buffer_served
  pc,          \* "loop": in run_input_stream_loop
  delivered,   \* on_message calls
  timer,       \* m_heartbeat_timer runs
  asked,       \* m_heartbeat_sent_count # 0
  connShut,    \* the connection's m_shutdown_was_called
  connAsked,   \* a shutdown is dispatched to the connection's strand
  reading,     \* the connection has a read outstanding
  units,       \* units read so far
  messages,    \* messages among them
  cut,         \* the content of the last head read is still to come
  owned,       \* the user holds the entry
  closes       \* calls of close() so far

entryVars == <<active, handler, calls, terminated, timer>>
inputVars == <<stream, served, pc, delivered, asked>>
peerVars  == <<units, messages, cut>>
connVars  == <<connShut, connAsked, reading, peerVars>>
userVars  == <<inline, owned, closes>>
vars == <<entryVars, inputVars, connVars, userVars, tasks, pending>>

(* The constructor and init_underlying_connection. *)
Init ==
  /\ inline \in InlineOptions
  /\ active = TRUE
  /\ handler \in {"not_supplied", "supplied"}
  /\ calls = 0
  /\ terminated = 0
  /\ tasks = <<>>
  /\ pending = <<>>
  /\ stream = <<>>
  /\ served = FALSE
  /\ pc = "idle"
  /\ delivered = 0
  /\ timer = TRUE
  /\ asked = FALSE
  /\ connShut = FALSE
  /\ connAsked = FALSE
  /\ reading = TRUE
  /\ units = 0
  /\ messages = 0
  /\ cut = FALSE
  /\ owned = TRUE
  /\ closes = 0

Task(kind, n) == [kind |-> kind, units |-> n]

(* The tasks that hold the entry. *)
Strong(task) == task.kind \in {"close", "shutdown"}

Messages(us) == Cardinality({i \in DOMAIN us : us[i] \in {"message", "throwing"}})

(* The last reference is gone: what is left finds no entry. *)
Gone == ~owned /\ pc = "idle" /\ \A i \in DOMAIN tasks : ~Strong(tasks[i])

-----------------------------------------------------------------------------
(* Ending the entry                                                          *)

(* mutant: the heartbeat timer goes on *)
Terminate_TimerStays ==
  /\ terminated' = terminated + 1
  /\ calls' = IF handler = "supplied" THEN calls + 1 ELSE calls
  /\ handler' = "called"
  /\ UNCHANGED timer

(* terminate: the handler, then the timer is cancelled *)
Terminate ==
  /\ terminated' = terminated + 1
  /\ calls' = IF handler = "supplied" THEN calls + 1 ELSE calls
  /\ timer' = (timer /\ handler = "called")
  /\ handler' = "called"

(* mutant: the connection is left as it is *)
ConnectionShutdown_Forgotten(rest) == tasks' = rest /\ UNCHANGED <<connShut, connAsked>>

(* underlying_connection()->shutdown() is dispatched; the connection's own   *)
(* shutdown handler posts handle_shutdown, behind the rest of the tasks.     *)
ConnectionShutdown(rest) ==
  IF inline
  THEN /\ connShut' = TRUE
       /\ tasks' = IF connShut THEN rest ELSE Append(rest, Task("shutdown", 0))
       /\ UNCHANGED connAsked
  ELSE /\ connAsked' = TRUE
       /\ tasks' = rest
       /\ UNCHANGED connShut

ShutdownAndTerminate(rest) ==
  \/ /\ ~active
     /\ tasks' = rest
     /\ UNCHANGED <<entryVars, connShut, connAsked>>
  \/ /\ active
     /\ ConnectionShutdown(rest)
     /\ Terminate
     /\ active' = FALSE

-----------------------------------------------------------------------------
(* The connection, on its strand                                             *)

(* The units that a read can bring: content follows the head it belongs to. *)
Chunks == {us \in UNION {[1..k -> Units] : k \in 1..MaxChunk} :
             \A i \in DOMAIN us :
               us[i] = "content" <=> IF i = 1 THEN cut ELSE us[i - 1] \in WithContent}

(* after_read: the handler first, then the next read, if the connection was  *)
(* not shut down meanwhile.  With no-op strands the handler is the loop.     *)
ReadAgain == reading' = ~connShut'

(* The loop returns, to a task of the strand or to after_read. *)
LoopReturns ==
  /\ pc' = "idle"
  /\ IF inline THEN ReadAgain ELSE UNCHANGED reading

(* A read completes; raw_bytes_handler_t dispatches the buffer.  A read that *)
(* was outstanding when the connection was shut down may still bring data.   *)
ConnectionInput ==
  /\ reading
  /\ UNCHANGED <<entryVars, served, delivered, asked, connShut, connAsked, userVars>>
  /\ \E us \in Chunks :
       /\ units + Len(us) <= MaxUnits
       /\ units' = units + Len(us)
       /\ messages' = messages + Messages(us)
       /\ cut' = (us[Len(us)] \in WithContent)
       /\ IF inline
          THEN /\ pc = "idle"
               /\ IF Gone THEN UNCHANGED <<stream, pc>> /\ ReadAgain
                          ELSE stream' = stream \o us /\ pc' = "loop" /\ reading' = FALSE
               /\ UNCHANGED <<tasks, pending>>
          ELSE /\ tasks' = Append(tasks, Task("input", Len(us)))
               /\ pending' = pending \o us
               /\ UNCHANGED <<stream, pc>>
               /\ ReadAgain

(* mutant: the connection's handler posts nothing *)
ConnectionEnds_Silent == ~connShut /\ connShut' = TRUE /\ UNCHANGED tasks

(* The connection is shut down, by itself or because it was asked to: its   *)
(* handler posts handle_shutdown if the entry is still there.               *)
ConnectionEnds ==
  /\ ~connShut
  /\ connShut' = TRUE
  /\ tasks' = IF Gone THEN tasks ELSE Append(tasks, Task("shutdown", 0))

ConnectionFails ==
  /\ ConnectionEnds
  /\ UNCHANGED <<entryVars, inputVars, connAsked, reading, peerVars, userVars, pending>>

ConnectionShutdownAsked ==
  /\ connAsked
  /\ connAsked' = FALSE
  /\ ConnectionEnds \/ (connShut /\ UNCHANGED <<connShut, tasks>>)
  /\ UNCHANGED <<entryVars, inputVars, reading, peerVars, userVars, pending>>

(* The read that was outstanding fails. *)
ReadFails ==
  /\ reading /\ connShut
  /\ reading' = FALSE
  /\ UNCHANGED <<entryVars, inputVars, connShut, connAsked, peerVars, userVars, tasks, pending>>

-----------------------------------------------------------------------------
(* The user and the timer                                                    *)

Close ==
  /\ ~Gone
  /\ closes < MaxClose
  /\ closes' = closes + 1
  /\ tasks' = Append(tasks, Task("close", 0))
  /\ UNCHANGED <<entryVars, inputVars, connVars, inline, owned, pending>>

Release ==
  /\ owned
  /\ owned' = FALSE
  /\ UNCHANGED <<entryVars, inputVars, connVars, inline, closes, tasks, pending>>

(* The timer expires; its handler waits for the strand. *)
TimerExpires ==
  /\ timer /\ ~Gone
  /\ timer' = FALSE
  /\ tasks' = Append(tasks, Task("heartbeat", 0))
  /\ UNCHANGED <<active, handler, calls, terminated, inputVars, connVars, userVars, pending>>

-----------------------------------------------------------------------------
(* The entry's strand                                                        *)

(* The strand takes its next task. *)
Runs(kind) ==
  /\ pc = "idle"
  /\ tasks # <<>>
  /\ Head(tasks).kind = kind

(* mutant: the rest of the input before is overwritten *)
HandleInput_Replaces ==
  LET n == Head(tasks).units
  IN  /\ Runs("input")
      /\ tasks' = Tail(tasks)
      /\ pending' = SubSeq(pending, n + 1, Len(pending))
      /\ IF Gone
         THEN UNCHANGED <<stream, pc>>
         ELSE stream' = SubSeq(pending, 1, n) /\ pc' = "loop"
      /\ UNCHANGED <<entryVars, served, delivered, asked, connVars, userVars>>

(* handle_input: m_pkg_input.append, then run_input_stream_loop *)
HandleInput ==
  LET n == Head(tasks).units
  IN  /\ Runs("input")
      /\ tasks' = Tail(tasks)
      /\ pending' = SubSeq(pending, n + 1, Len(pending))
      /\ IF Gone
         THEN UNCHANGED <<stream, pc>>
         ELSE stream' = stream \o SubSeq(pending, 1, n) /\ pc' = "loop"
      /\ UNCHANGED <<entryVars, served, delivered, asked, connVars, userVars>>

(* The head of the stream; content that a failed package left behind is read *)
(* as a head of any kind.                                                    *)
NextHead == IF Head(stream) \in Heads THEN {Head(stream)} ELSE Heads

(* The loop has no complete package: update_last_input_at *)
InputIsConsumed ==
  /\ pc = "loop"
  /\ \/ stream = <<>>
     \/ Len(stream) = 1 /\ NextHead \cap WithContent # {}
  /\ asked' = FALSE
  /\ UNCHANGED <<entryVars, stream, served, delivered, connShut, connAsked, peerVars, userVars,
                 tasks, pending>>
  /\ LoopReturns

Package(kind) == pc = "loop" /\ stream # <<>> /\ kind \in NextHead

Complete == Len(stream) >= 2

(* mutant: one package per input *)
HandleMessage_Single ==
  /\ Package("message") /\ Complete
  /\ stream' = SubSeq(stream, 3, Len(stream))
  /\ delivered' = delivered + 1
  /\ UNCHANGED <<entryVars, served, asked, connShut, connAsked, peerVars, userVars, tasks, pending>>
  /\ LoopReturns

(* handle_message_pkg, handle_incoming_message: parsed and consumed *)
HandleMessage ==
  /\ Package("message") /\ Complete
  /\ stream' = SubSeq(stream, 3, Len(stream))
  /\ delivered' = delivered + 1
  /\ UNCHANGED <<entryVars, served, pc, asked, connVars, userVars, tasks, pending>>

(* on_message throws: handle_input catches, and does not take the time *)
HandleThrowing ==
  /\ Package("throwing") /\ Complete
  /\ stream' = SubSeq(stream, 3, Len(stream))
  /\ delivered' = delivered + 1
  /\ ShutdownAndTerminate(tasks)
  /\ LoopReturns
  /\ UNCHANGED <<served, asked, peerVars, userVars, pending>>

(* A failed package ends the loop. *)
LoopFails ==
  /\ ShutdownAndTerminate(tasks)
  /\ LoopReturns
  /\ asked' = FALSE
  /\ UNCHANGED <<delivered, peerVars, userVars, pending>>

(* No such message: the head is consumed, the content is not. *)
HandleUnknownId ==
  /\ Package("unknown_id") /\ Complete
  /\ stream' = Tail(stream)
  /\ LoopFails
  /\ UNCHANGED served

(* mutant: the entry goes on after a message that cannot be parsed *)
HandleUnparsable_GoesOn ==
  /\ Package("unparsable") /\ Complete
  /\ \/ stream' = SubSeq(stream, 3, Len(stream)) /\ UNCHANGED served
     \/ stream' = Tail(stream) /\ served' \in BOOLEAN
  /\ UNCHANGED <<entryVars, delivered, asked, connShut, connAsked, peerVars, userVars, tasks, pending>>
  /\ LoopReturns

(* The parser gives up somewhere in the content; what it was served stays    *)
(* served if it ended there.                                                 *)
HandleUnparsable ==
  /\ Package("unparsable") /\ Complete
  /\ \/ stream' = SubSeq(stream, 3, Len(stream)) /\ UNCHANGED served
     \/ stream' = Tail(stream) /\ served' \in BOOLEAN
  /\ LoopFails

(* A head that is refused is not consumed. *)
HandleRefused ==
  /\ Package("refused")
  /\ LoopFails
  /\ UNCHANGED <<stream, served>>

(* A request is answered if the entry is active; a reply is only consumed. *)
HandleHeartbeatPkg ==
  /\ Package("heartbeat")
  /\ stream' = Tail(stream)
  /\ UNCHANGED <<entryVars, served, pc, delivered, asked, connVars, userVars, tasks, pending>>

(* mutant: the connection's end is not compared with the entry's state *)
HandleShutdown_Unguarded ==
  /\ Runs("shutdown")
  /\ tasks' = Tail(tasks)
  /\ Terminate
  /\ active' = FALSE
  /\ UNCHANGED <<inputVars, connVars, userVars, pending>>

HandleShutdown ==
  /\ Runs("shutdown")
  /\ tasks' = Tail(tasks)
  /\ IF active THEN Terminate /\ active' = FALSE ELSE UNCHANGED entryVars
  /\ UNCHANGED <<inputVars, connVars, userVars, pending>>

(* the task that close() posts *)
HandleClose ==
  /\ Runs("close")
  /\ ShutdownAndTerminate(Tail(tasks))
  /\ UNCHANGED <<inputVars, reading, peerVars, userVars, pending>>

(* on_check_heartbeat finds the entry gone or terminated. *)
CheckHeartbeatInactive ==
  /\ Runs("heartbeat")
  /\ Gone \/ ~active
  /\ tasks' = Tail(tasks)
  /\ UNCHANGED <<entryVars, inputVars, connVars, userVars, pending>>

(* on_check_heartbeat: too early, or a request is sent; the timer is set *)
CheckHeartbeatAgain ==
  /\ Runs("heartbeat")
  /\ ~Gone /\ active
  /\ tasks' = Tail(tasks)
  /\ asked' \in {asked, TRUE}
  /\ timer' = TRUE
  /\ UNCHANGED <<active, handler, calls, terminated, stream, served, pc, delivered,
                 connVars, userVars, pending>>

(* on_check_heartbeat: no reply *)
CheckHeartbeatTimeout ==
  /\ Runs("heartbeat")
  /\ ~Gone /\ active /\ asked
  /\ ShutdownAndTerminate(Tail(tasks))
  /\ UNCHANGED <<inputVars, reading, peerVars, userVars, pending>>

-----------------------------------------------------------------------------
InputLoop ==
  \/ InputIsConsumed \/ HandleMessage \/ HandleThrowing \/ HandleUnknownId
  \/ HandleUnparsable \/ HandleRefused \/ HandleHeartbeatPkg

StrandStep ==
  \/ HandleInput \/ InputLoop \/ HandleShutdown \/ HandleClose
  \/ CheckHeartbeatInactive \/ CheckHeartbeatAgain \/ CheckHeartbeatTimeout

ConnectionStep == ConnectionShutdownAsked \/ ReadFails

Next ==
  \/ StrandStep \/ ConnectionStep \/ ConnectionInput \/ ConnectionFails
  \/ Close \/ Release \/ TimerExpires

Spec == Init /\ [][Next]_vars

(* Both strands run what was given to them. *)
FairSpec == Spec /\ WF_vars(StrandStep) /\ WF_vars(ConnectionStep)

-----------------------------------------------------------------------------
(* Every variable of the entry has its type. *)
TypeOK ==
  /\ inline \in InlineOptions
  /\ active \in BOOLEAN /\ served \in BOOLEAN /\ timer \in BOOLEAN /\ asked \in BOOLEAN
  /\ connShut \in BOOLEAN /\ connAsked \in BOOLEAN /\ reading \in BOOLEAN
  /\ cut \in BOOLEAN /\ owned \in BOOLEAN
  /\ handler \in {"not_supplied", "supplied", "called"}
  /\ calls \in {0, 1} /\ terminated \in {0, 1} /\ delivered \in Nat
  /\ units \in 0..MaxUnits /\ messages \in Nat /\ closes \in 0..MaxClose
  /\ pc \in {"idle", "loop"}
  /\ tasks \in Seq([kind : {"input", "shutdown", "close", "heartbeat"}, units : 0..MaxChunk])
  /\ pending \in Seq(Units) /\ stream \in Seq(Units)

(* assert( m_connection_is_active ) of terminate(): whatever ends the entry  *)
(* first, in whatever order the others are noticed, terminate runs once and  *)
(* the user's shutdown handler hears of it once.                             *)
TerminateOnce ==
  /\ terminated = IF active THEN 0 ELSE 1
  /\ calls <= terminated

(* The heartbeat watches an active entry, and only that: its timer runs or   *)
(* its check waits for the strand, once; a terminated entry has no timer.    *)
HeartbeatRuns ==
  LET checks == {i \in DOMAIN tasks : tasks[i].kind = "heartbeat"}
  IN  /\ active /\ ~Gone => timer \/ checks # {}
      /\ \A i, j \in checks : i = j /\ ~timer
      /\ timer => active \/ Gone

(* The loop leaves no complete package behind: a message never waits for     *)
(* bytes that are not its own.                                               *)
StreamIsDrained ==
  active /\ pc = "idle" =>
    \/ stream = <<>>
    \/ Len(stream) = 1 /\ Head(stream) \in WithContent

(* While the entry is active every message that was read is delivered once   *)
(* or waits in the stream or in an input task.                               *)
NoMessageLost ==
  active /\ ~Gone => delivered + Messages(stream) + Messages(pending) = messages

(* Whoever ended the connection, an entry that is still held notices.        *)
ShutdownIsNoticed == connShut ~> (~active \/ ~owned)

(* An entry and its connection end together: close(), also of an entry that  *)
(* is not held any more, and whatever else ends the entry, ends both.        *)
EndIsDone == (closes > 0 \/ ~active) ~> (~active /\ connShut)

(* "This will guarantee that no more messages will be received by the agent" *)
(* says terminate().                                                         *)
NoMessageAfterTerminate == [][delivered' # delivered => active]_vars

(* assert( !m_first_buffer_served ) of pkg_input_t::append: the input of an  *)
(* active entry never meets a stream that is still being served, although a  *)
(* parser that gives up leaves it so.                                        *)
AppendNotServed == [][active /\ stream' # stream /\ pc = "idle" => ~served]_vars
=============================================================================
