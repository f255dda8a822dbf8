----------------------------- MODULE Connection -----------------------------
(***************************************************************************)
(* opio::net::tcp::connection_t (net/include/opio/net/tcp/connection.hpp)  *)
(* with its strand: a queue of outgoing buffers, quick synchronous writes, *)
(* one asynchronous write at a time guarded by a watchdog timer, a read    *)
(* loop, shutdown and the destructor.                                      *)
(*                                                                         *)
(* Everything here runs on the connection's strand.  A handler that makes  *)
(* several system calls is split at them: `pc` says that the strand is in  *)
(* the middle of a send ("append") or of initiate_write_if_necessary       *)
(* ("initiate"); nothing else of the strand runs until it is "idle" again. *)
(* Of the callbacks given by the user the input handler and the shutdown   *)
(* handler call the connection back here; module ConnectionCallbacks adds  *)
(* the completion callbacks of writes.                                     *)
(*                                                                         *)
(* Bytes are numbered 1, 2, ... in the order in which the strand accepts   *)
(* them, so what the peer receives says what was lost, doubled or          *)
(* reordered.                                                              *)
(***************************************************************************)
EXTENDS Integers, Sequences, FiniteSets, FiniteSetsExt

CONSTANTS
  MaxSeqLen,   \* buffers in one gathered write, details::reasonable_max_iov_len()
  SyncLimit,   \* bytes, details::quik_sync_write_heuristic_size
  ConcatMax,   \* bytes, Concatenated_Buffer_Max_Size
  Shapes,      \* what the user sends: sequences of buffer sizes
  MaxSends,    \* bound: number of send calls
  CbOptions,   \* with a completion callback (TRUE), without (FALSE), or both
  Watchdog,    \* TRUE: asio timer watchdog, FALSE: the no-op one
  MaxReads,    \* bound: outstanding read operations
  UserOps,     \* which user operations happen, besides sending and releasing
  HandlerCalls \* how often a shutdown handler may call shutdown() itself

AllOps == {"start_reading", "stop_reading", "restart_reading", "reset_handler",
           "shutdown", "stop_io"}

ASSUME SizesAssumption == /\ MaxSeqLen \in Nat \ {0}
                          /\ SyncLimit \in Nat
                          /\ ConcatMax \in Nat
ASSUME ShapesAssumption == Shapes \subseteq Seq(Nat \ {0}) \ {<<>>}
ASSUME BoundsAssumption == MaxSends \in Nat /\ MaxReads \in Nat \ {0}
ASSUME OptionsAssumption == /\ CbOptions \subseteq BOOLEAN
                            /\ Watchdog \in BOOLEAN
                            /\ UserOps \subseteq AllOps
ASSUME HandlerAssumption == HandlerCalls \subseteq Nat

VARIABLES
  wq,           \* m_write_queue: items [data, ends, cbs]
  running,      \* m_is_write_operation_running
  writeEnabled, \* m_schedule_for_write_is_enabled
  readEnabled,  \* m_read_is_enabled
  shutReason,   \* "none" while m_shutdown_was_called is false, then the reason
  handler,      \* is m_shutdown_handler non-empty
  notified,     \* calls of the shutdown handler
  reads,        \* outstanding async_read_some operations
  inInput,      \* the input handler runs
  sock,         \* "open", "broken" by an I/O error, or "shut" by us
  aw,           \* the asynchronous write [st, left, op]
  watch,        \* m_write_operation_watchdog [armed, key, op]
  timeouts,     \* timeout handlers on their way to the strand [key, op]
  pc,           \* where the strand is inside a handler
  call,         \* the send in progress [todo, aggr]
  sends,        \* send calls so far [cb, from, upto, res]
  accepted,     \* bytes accepted so far
  wire,         \* bytes handed to the peer
  io,           \* io_context: "running" or "stopped"
  held,         \* the user holds a shared pointer to the connection
  alive         \* the connection exists

writeVars == <<wq, running, aw, pc, call, sends, accepted, wire>>
stateVars == <<writeEnabled, readEnabled, shutReason, notified, sock>>
readVars  == <<reads, inInput>>
userVars  == <<handler, io, held, alive>>
vars == <<writeVars, stateVars, readVars, userVars, watch, timeouts>>

Results == {"success", "io_error", "didnt_send", "rejected_schedule_send"}
Reasons == {"user_initiated", "eof", "io_error", "write_timeout"}

-----------------------------------------------------------------------------
(* The write queue.  An item is a single_writable_sequence_t: its bytes, the *)
(* offsets at which its buffers end (no buffer is empty), its callbacks.     *)

EmptyItem == [data |-> <<>>, ends |-> {}, cbs |-> <<>>]

Front == wq[1]
Size(item) == Len(item.data)

CanAppendBuffer(item) == Cardinality(item.ends) + 1 <= MaxSeqLen

AppendBuffer(item, bytes) ==
  [item EXCEPT !.data = @ \o bytes,
               !.ends = @ \cup {Size(item) + Len(bytes)}]

(* mutant: one slot for the callback of an item *)
AppendCompletionCb_Replaces(item, s) == [item EXCEPT !.cbs = <<s>>]

AppendCompletionCb(item, s) == [item EXCEPT !.cbs = Append(@, s)]

(* The buffer boundary that concat_small_buffers reaches from boundary p:  *)
(* as many whole buffers as fit into ConcatMax bytes, at least one.        *)
NextEnd(ends, p) ==
  LET later == {e \in ends : e > p}
      fits  == {e \in later : e - p <= ConcatMax}
  IN  IF fits = {} THEN Min(later) ELSE Max(fits)

ConcatSmallBuffers(ends) ==
  LET kept[e \in ends \cup {0}] ==
        \/ e = 0
        \/ \E p \in ends \cup {0} : p < e /\ kept[p] /\ NextEnd(ends, p) = e
  IN  {e \in ends : kept[e]}

AppendOutgoingBuffer(q, bytes) ==
  LET n    == Len(q)
      back == IF ~CanAppendBuffer(q[n]) /\ n > 1
              THEN [q[n] EXCEPT !.ends = ConcatSmallBuffers(@)]
              ELSE q[n]
      kept == [q EXCEPT ![n] = back]
  IN  IF CanAppendBuffer(back)
      THEN [kept EXCEPT ![n] = AppendBuffer(back, bytes)]
      ELSE Append(kept, AppendBuffer(EmptyItem, bytes))

Freeze_Never(q) == q  \* mutant: no fresh item at the back

(* freeze_first_buf_sequece_in_queue *)
Freeze(q) == IF Len(q) = 1 THEN Append(q, EmptyItem) ELSE q

(* mutant: off by one *)
SkipTransferred_OffByOne(bytes, k) ==
  SubSeq(bytes, IF k = 0 THEN 1 ELSE k, Len(bytes))

(* skip_transferred_part, and the tail buffer of an aggressive write *)
SkipTransferred(bytes, k) == SubSeq(bytes, k + 1, Len(bytes))

-----------------------------------------------------------------------------
(* Watchdog, callbacks and shutdown: the effects that handlers share.        *)

StartWatch_Never(w, op) == w  \* mutant: the timer is not started

StartWatch(w, op) ==
  IF Watchdog THEN [armed |-> TRUE, key |-> w.key + 1, op |-> op] ELSE w

CancelWatchTimes(w, n) ==
  IF Watchdog THEN [w EXCEPT !.armed = FALSE, !.key = @ + n] ELSE w

CancelWatch(w) == CancelWatchTimes(w, 1)

(* run_send_completion_callbacks *)
RunCallbacks(log, cbs, result) ==
  [s \in DOMAIN log |->
     IF \E i \in DOMAIN cbs : cbs[i] = s
     THEN [log[s] EXCEPT !.res = Append(@, result)]
     ELSE log[s]]

ShutdownWasCalled_Unset == FALSE  \* mutant: the flag is never set

ShutdownWasCalled == shutReason # "none"

(* How often the shutdown handler calls shutdown() before its outermost     *)
(* call returns.  Such a call is dispatched at once and finds               *)
(* m_shutdown_was_called still false, so it cancels the watchdog and calls  *)
(* the handler again; the flag is set when each of them has returned.  (A   *)
(* handler that does so every time never returns, and with mutex_locking_t  *)
(* it locks the mutex it runs under: this is the no-op locking of the       *)
(* default traits.)                                                         *)
CallsFromHandler == IF handler THEN HandlerCalls ELSE {0}

(* mutant: the socket itself is not shut down *)
ShutdownImpl_SocketStays(reason, w) ==
  IF ~ShutdownWasCalled
  THEN /\ readEnabled' = FALSE
       /\ writeEnabled' = FALSE
       /\ shutReason' = reason
       /\ \E n \in CallsFromHandler :
            /\ watch' = CancelWatchTimes(w, n + 1)
            /\ notified' = IF handler THEN notified + (n + 1) ELSE notified
       /\ UNCHANGED sock
  ELSE /\ watch' = w
       /\ UNCHANGED stateVars

(* shutdown_impl; w is the watchdog as its caller leaves it *)
ShutdownImpl(reason, w) ==
  IF ~ShutdownWasCalled
  THEN /\ readEnabled' = FALSE
       /\ writeEnabled' = FALSE
       /\ sock' = "shut"
       /\ shutReason' = reason
       /\ \E n \in CallsFromHandler :
            /\ watch' = CancelWatchTimes(w, n + 1)
            /\ notified' = IF handler THEN notified + (n + 1) ELSE notified
  ELSE /\ watch' = w
       /\ UNCHANGED stateVars

-----------------------------------------------------------------------------
Init ==
  /\ wq = <<EmptyItem>>
  /\ running = FALSE
  /\ writeEnabled = TRUE
  /\ readEnabled = FALSE
  /\ shutReason = "none"
  /\ handler = TRUE
  /\ notified = 0
  /\ reads = 0
  /\ inInput = FALSE
  /\ sock = "open"
  /\ aw = [st |-> "none", left |-> <<>>, op |-> 0]
  /\ watch = [armed |-> FALSE, key |-> 0, op |-> 0]
  /\ timeouts = {}
  /\ pc = "idle"
  /\ call = [todo |-> <<>>, aggr |-> FALSE]
  /\ sends = <<>>
  /\ accepted = 0
  /\ wire = <<>>
  /\ io = "running"
  /\ held = TRUE
  /\ alive = TRUE

(* The strand can take the next handler; a user call also runs inside the  *)
(* input handler, where dispatch() executes it at once.                    *)
StrandFree == alive /\ io = "running" /\ pc = "idle" /\ ~inInput
UserCall == alive /\ io = "running" /\ pc = "idle" /\ (held \/ inInput)

-----------------------------------------------------------------------------
(* schedule_send and its variants                                            *)

ScheduleSend(sizes, cb) ==
  /\ UserCall
  /\ Len(sends) < MaxSends
  /\ writeEnabled
  /\ pc' = "append"
  /\ call' = [todo |-> sizes, aggr |-> TRUE]
  /\ sends' = Append(sends, [cb |-> cb, from |-> accepted, upto |-> accepted,
                             res |-> <<>>])
  /\ UNCHANGED <<wq, running, aw, accepted, wire, stateVars, readVars,
                 userVars, watch, timeouts>>

RejectSend(cb) ==
  /\ UserCall
  /\ Len(sends) < MaxSends
  /\ ~writeEnabled
  /\ sends' = Append(sends,
                [cb |-> cb, from |-> accepted, upto |-> accepted,
                 res |-> IF cb THEN <<"rejected_schedule_send">> ELSE <<>>])
  /\ UNCHANGED <<wq, running, aw, pc, call, accepted, wire, stateVars,
                 readVars, userVars, watch, timeouts>>

(* append_outgoing_buffer_try_aggressive_write takes the next buffer.      *)
NextBuffer == [j \in 1..Head(call.todo) |-> accepted + j]

(* mutant: a later buffer of the send forgets that an earlier one blocked *)
TryAggressive_Again == ~running /\ Head(call.todo) < SyncLimit

TryAggressive == call.aggr /\ ~running /\ Head(call.todo) < SyncLimit

TakeBuffer(aggr) ==
  /\ pc = "append" /\ alive
  /\ call.todo # <<>>
  /\ call' = [todo |-> Tail(call.todo), aggr |-> aggr]
  /\ accepted' = accepted + Head(call.todo)
  /\ sends' = [sends EXCEPT ![Len(sends)].upto = accepted + Head(call.todo)]
  /\ UNCHANGED <<running, aw, pc, writeEnabled, readEnabled, shutReason,
                 notified, readVars, userVars, watch, timeouts>>

(* The whole buffer goes to the socket at once. *)
AggressiveWrite ==
  /\ TakeBuffer(TRUE)
  /\ TryAggressive
  /\ sock = "open"
  /\ wire' = wire \o NextBuffer
  /\ UNCHANGED <<wq, sock>>

(* The write stops after k bytes, because it would block or because of an  *)
(* error: the code does not look at which; the tail is queued.             *)
AggressivePartial(k, outcome) ==
  /\ TakeBuffer(FALSE)
  /\ TryAggressive
  /\ sock = "open" \/ (k = 0 /\ outcome = sock)
  /\ wire' = wire \o SubSeq(NextBuffer, 1, k)
  /\ wq' = AppendOutgoingBuffer(wq, SkipTransferred(NextBuffer, k))
  /\ sock' = outcome

AppendOnly ==
  /\ TakeBuffer(FALSE)
  /\ ~TryAggressive
  /\ wq' = AppendOutgoingBuffer(wq, NextBuffer)
  /\ UNCHANGED <<wire, sock>>

(* mutant: the running flag instead of the outcome of the writes *)
AllAggressive_ByFlag == ~running

AllAggressive == call.aggr

CallbackItem == Len(wq)  \* m_write_queue.back()

(* End of the send: attach or call the callback, start writing if needed.  *)
AppendDone ==
  /\ pc = "append" /\ alive
  /\ call.todo = <<>>
  /\ IF AllAggressive
     THEN /\ pc' = "idle"
          /\ sends' = IF sends[Len(sends)].cb
                      THEN RunCallbacks(sends, <<Len(sends)>>, "success")
                      ELSE sends
          /\ UNCHANGED wq
     ELSE /\ pc' = "initiate"
          /\ wq' = IF sends[Len(sends)].cb
                   THEN [wq EXCEPT ![CallbackItem] = AppendCompletionCb(@, Len(sends))]
                   ELSE wq
          /\ UNCHANGED sends
  /\ call' = [todo |-> <<>>, aggr |-> FALSE]
  /\ UNCHANGED <<running, aw, accepted, wire, stateVars, readVars, userVars,
                 watch, timeouts>>

-----------------------------------------------------------------------------
(* initiate_write_if_necessary                                               *)

CanInitiate == pc = "initiate" /\ alive /\ ~running /\ Front.ends # {}

SkipInitiate ==
  /\ pc = "initiate" /\ alive
  /\ running \/ Front.ends = {}
  /\ pc' = "idle"
  /\ UNCHANGED <<wq, running, aw, call, sends, accepted, wire, stateVars,
                 readVars, userVars, watch, timeouts>>

(* after_write without an error: the item leaves the queue and the next    *)
(* one is tried.                                                           *)
AfterWriteOk(q) ==
  /\ watch' = CancelWatch(watch)
  /\ sends' = RunCallbacks(sends, q[1].cbs, "success")
  /\ wq' = Tail(q)
  /\ running' = FALSE
  /\ pc' = "initiate"
  /\ UNCHANGED <<stateVars, call, accepted, timeouts, readVars, userVars>>

(* after_write with an error: handle_io_error and the callbacks; the item  *)
(* stays, and so does the running flag.                                    *)
AfterWriteError(q) ==
  /\ ShutdownImpl("io_error", CancelWatch(watch))
  /\ sends' = RunCallbacks(sends, q[1].cbs, "io_error")
  /\ wq' = q
  /\ pc' = "idle"
  /\ UNCHANGED <<running, call, accepted, timeouts, readVars, userVars>>

SyncWriteAll ==
  /\ CanInitiate
  /\ Size(Front) <= SyncLimit
  /\ sock = "open"
  /\ wire' = wire \o Front.data
  /\ AfterWriteOk(Freeze(wq))
  /\ UNCHANGED aw

SyncWriteError(k) ==
  /\ CanInitiate
  /\ Size(Front) <= SyncLimit
  /\ sock = "open" \/ k = 0
  /\ wire' = wire \o SubSeq(Front.data, 1, k)
  /\ AfterWriteError(Freeze(wq))
  /\ UNCHANGED aw

(* start_async_write for what is left of the first item *)
StartAsyncWrite(left) ==
  /\ watch' = StartWatch(watch, aw.op + 1)
  /\ aw' = [st |-> "pending", left |-> left, op |-> aw.op + 1]
  /\ running' = TRUE
  /\ wq' = Freeze(wq)
  /\ pc' = "idle"
  /\ UNCHANGED <<call, sends, accepted, stateVars, readVars, userVars,
                 timeouts>>

SyncWriteWouldBlock(k) ==
  /\ CanInitiate
  /\ Size(Front) <= SyncLimit
  /\ sock = "open"
  /\ wire' = wire \o SubSeq(Front.data, 1, k)
  /\ StartAsyncWrite(SkipTransferred(Front.data, k))

StartLargeWrite ==
  /\ CanInitiate
  /\ Size(Front) > SyncLimit
  /\ StartAsyncWrite(Front.data)
  /\ UNCHANGED wire

-----------------------------------------------------------------------------
(* The asynchronous write: what the socket does with it, its completion      *)

AsyncTransfer(k) ==
  /\ alive /\ io = "running"
  /\ aw.st = "pending"
  /\ sock = "open"
  /\ wire' = wire \o SubSeq(aw.left, 1, k)
  /\ aw' = [aw EXCEPT !.left = SkipTransferred(@, k),
                      !.st = IF k = Len(aw.left) THEN "ok" ELSE "pending"]
  /\ UNCHANGED <<wq, running, pc, call, sends, accepted, stateVars, readVars,
                 userVars, watch, timeouts>>

AsyncFail ==
  /\ alive /\ io = "running"
  /\ aw.st = "pending"
  /\ aw' = [aw EXCEPT !.st = "error"]
  /\ sock' = IF sock = "open" THEN "broken" ELSE sock
  /\ UNCHANGED <<wq, running, pc, call, sends, accepted, wire, writeEnabled,
                 readEnabled, shutReason, notified, readVars, userVars, watch,
                 timeouts>>

AsyncWriteDone ==
  /\ StrandFree
  /\ aw.st \in {"ok", "error"}
  /\ IF aw.st = "ok" THEN AfterWriteOk(wq) ELSE AfterWriteError(wq)
  /\ aw' = [aw EXCEPT !.st = "none", !.left = <<>>]
  /\ UNCHANGED wire

-----------------------------------------------------------------------------
(* Write timeout                                                             *)

TimerExpires ==
  /\ alive /\ io = "running"
  /\ watch.armed
  /\ watch' = [watch EXCEPT !.armed = FALSE]
  /\ timeouts' = timeouts \cup {[key |-> watch.key, op |-> watch.op]}
  /\ UNCHANGED <<writeVars, stateVars, readVars, userVars>>

TimeoutIsCurrent_AnyKey(t) == running  \* mutant: the key is not compared

TimeoutIsCurrent(t) == running /\ t.key = watch.key

HandleWriteOperationTimeout(t) ==
  /\ StrandFree
  /\ timeouts' = timeouts \ {t}
  /\ IF TimeoutIsCurrent(t)
     THEN ShutdownImpl("write_timeout", watch)
     ELSE UNCHANGED <<watch, stateVars>>
  /\ UNCHANGED <<writeVars, readVars, userVars>>

-----------------------------------------------------------------------------
(* Reading                                                                   *)

StartReading ==
  /\ UserCall
  /\ "start_reading" \in UserOps
  /\ "restart_reading" \in UserOps \/ (reads = 0 /\ ~inInput)
  /\ reads < MaxReads
  /\ ~readEnabled
  /\ readEnabled' = TRUE
  /\ reads' = reads + 1
  /\ UNCHANGED <<writeVars, writeEnabled, shutReason, notified, sock, inInput,
                 userVars, watch, timeouts>>

StopReading ==
  /\ UserCall
  /\ "stop_reading" \in UserOps
  /\ readEnabled
  /\ readEnabled' = FALSE
  /\ UNCHANGED <<writeVars, writeEnabled, shutReason, notified, sock, readVars,
                 userVars, watch, timeouts>>

(* mutant: the next read is started before the input handler is called *)
AfterReadInput_Eager ==
  /\ StrandFree
  /\ reads > 0
  /\ inInput' = TRUE
  /\ UNCHANGED <<reads, writeVars, stateVars, userVars, watch, timeouts>>

(* after_read up to and including the call of the input handler *)
AfterReadInput ==
  /\ StrandFree
  /\ reads > 0
  /\ reads' = reads - 1
  /\ inInput' = TRUE
  /\ UNCHANGED <<writeVars, stateVars, userVars, watch, timeouts>>

(* the rest of after_read: the next read, if reading is still enabled *)
AfterReadNext ==
  /\ alive /\ io = "running" /\ pc = "idle"
  /\ inInput
  /\ inInput' = FALSE
  /\ IF readEnabled THEN reads' = reads + 1 ELSE UNCHANGED reads
  /\ UNCHANGED <<writeVars, stateVars, userVars, watch, timeouts>>

AfterReadError(reason) ==
  /\ StrandFree
  /\ reads > 0
  /\ reads' = reads - 1
  /\ ShutdownImpl(reason, watch)
  /\ UNCHANGED <<writeVars, inInput, userVars, timeouts>>

-----------------------------------------------------------------------------
(* Shutdown, lifetime                                                        *)

Shutdown ==
  /\ UserCall
  /\ "shutdown" \in UserOps
  /\ shutReason = "none"
  /\ ShutdownImpl("user_initiated", watch)
  /\ UNCHANGED <<writeVars, readVars, userVars, timeouts>>

ResetShutdownHandler(h) ==
  /\ UserCall
  /\ "reset_handler" \in UserOps
  /\ h # handler
  /\ handler' = h
  /\ UNCHANGED <<writeVars, stateVars, readVars, io, held, alive, watch,
                 timeouts>>

Release ==
  /\ held
  /\ held' = FALSE
  /\ UNCHANGED <<writeVars, stateVars, readVars, handler, io, alive, watch,
                 timeouts>>

(* io_context::stop(): the strand finishes the handler it is in. *)
StopIo ==
  /\ "stop_io" \in UserOps
  /\ io = "running"
  /\ alive /\ pc = "idle" /\ ~inInput
  /\ io' = "stopped"
  /\ UNCHANGED <<writeVars, stateVars, readVars, handler, held, alive, watch,
                 timeouts>>

(* No operation holds the connection any more: none is outstanding, or the *)
(* stopped io_context dropped them.                                        *)
Unreferenced ==
  /\ ~held
  /\ \/ io = "stopped"
     \/ aw.st = "none" /\ reads = 0 /\ timeouts = {} /\ ~inInput /\ pc = "idle"

(* What handle_remainig_write_queue tells the callbacks of item i. *)
RemainingResult(i) == IF running /\ i = 1 THEN "io_error" ELSE "didnt_send"

(* mutant: the item of the running write is popped without its callbacks *)
RemainingItems_NotRunning == IF running THEN 2..Len(wq) ELSE DOMAIN wq

RemainingItems == DOMAIN wq

HandleRemainingWriteQueue ==
  IF Len(wq) > 1 \/ Size(Front) > 0
  THEN sends' = [s \in DOMAIN sends |->
                   LET at == {i \in RemainingItems :
                                \E j \in DOMAIN wq[i].cbs : wq[i].cbs[j] = s}
                   IN  IF at = {} THEN sends[s]
                       ELSE [sends[s] EXCEPT
                               !.res = Append(@, RemainingResult(Min(at)))]]
  ELSE UNCHANGED sends

Destroy ==
  /\ alive
  /\ Unreferenced
  /\ alive' = FALSE
  /\ HandleRemainingWriteQueue
  /\ UNCHANGED <<wq, running, aw, pc, call, accepted, wire, stateVars,
                 readVars, handler, io, held, watch, timeouts>>

Terminated == ~alive /\ UNCHANGED vars

-----------------------------------------------------------------------------
Send ==
  \/ \E sizes \in Shapes, cb \in CbOptions : ScheduleSend(sizes, cb)
  \/ \E cb \in CbOptions : RejectSend(cb)

TakeNextBuffer ==
  \/ AggressiveWrite
  \/ \E k \in 0..Head(call.todo) - 1, outcome \in {"open", "broken"} :
        AggressivePartial(k, outcome)
  \/ AppendOnly

AppendStep ==
  /\ pc = "append"
  /\ IF call.todo # <<>> THEN TakeNextBuffer ELSE AppendDone

InitiateWrite ==
  \/ SkipInitiate
  \/ SyncWriteAll
  \/ \E k \in 0..Size(Front) - 1 : SyncWriteError(k) \/ SyncWriteWouldBlock(k)
  \/ StartLargeWrite

AsyncWrite ==
  \/ \E k \in 1..Len(aw.left) : AsyncTransfer(k)
  \/ AsyncFail
  \/ AsyncWriteDone

WriteTimeout ==
  \/ TimerExpires
  \/ \E t \in timeouts : HandleWriteOperationTimeout(t)

Read ==
  \/ StartReading \/ StopReading
  \/ AfterReadInput \/ AfterReadNext
  \/ \E reason \in {"eof", "io_error"} : AfterReadError(reason)

Lifetime ==
  \/ Shutdown
  \/ \E h \in BOOLEAN : ResetShutdownHandler(h)
  \/ Release \/ StopIo \/ Destroy
  \/ Terminated

Next ==
  \/ Send \/ AppendStep \/ InitiateWrite \/ AsyncWrite \/ WriteTimeout
  \/ Read \/ Lifetime

Spec == Init /\ [][Next]_vars

(* Fairness: the strand finishes a handler it has begun, runs every handler *)
(* that was queued to it, the timer fires, and a write on a socket that was *)
(* shut down fails.  Nothing is assumed of the peer.                        *)
StrandFairness ==
  /\ WF_vars(AppendStep)
  /\ WF_vars(InitiateWrite)
  /\ WF_vars(AfterReadNext)
  /\ SF_vars(AsyncWriteDone)
  /\ SF_vars(\E t \in timeouts : HandleWriteOperationTimeout(t))

EnvFairness ==
  /\ WF_vars(TimerExpires)
  /\ WF_vars(sock = "shut" /\ AsyncFail)
  /\ SF_vars(sock = "shut" /\ AfterReadError("eof"))
  /\ WF_vars(Destroy)

FairSpec == Spec /\ StrandFairness /\ EnvFairness

-----------------------------------------------------------------------------
(* Properties                                                                *)

Bytes == Nat \ {0}
Item == [data : Seq(Bytes), ends : SUBSET Nat, cbs : Seq(Nat)]
AsyncWriteState == [st : {"none", "pending", "ok", "error"}, left : Seq(Bytes),
                    op : Nat]
WatchState == [armed : BOOLEAN, key : Nat, op : Nat]
SendRecord == [cb : BOOLEAN, from : Nat, upto : Nat, res : Seq(Results)]

(* Every variable of the connection has its type.  The strand is at           *)
(* "callbacks" in module ConnectionCallbacks only.                           *)
TypeOK ==
  /\ wq \in Seq(Item)
  /\ running \in BOOLEAN /\ writeEnabled \in BOOLEAN /\ readEnabled \in BOOLEAN
  /\ shutReason \in Reasons \cup {"none"}
  /\ handler \in BOOLEAN /\ notified \in Nat
  /\ reads \in Nat /\ inInput \in BOOLEAN
  /\ sock \in {"open", "broken", "shut"}
  /\ aw \in AsyncWriteState
  /\ watch \in WatchState
  /\ timeouts \subseteq [key : Nat, op : Nat]
  /\ pc \in {"idle", "append", "initiate", "callbacks"}
  /\ call \in [todo : Seq(Nat \ {0}), aggr : BOOLEAN]
  /\ sends \in Seq(SendRecord)
  /\ accepted \in Nat /\ wire \in Seq(Bytes)
  /\ io \in {"running", "stopped"} /\ held \in BOOLEAN /\ alive \in BOOLEAN

(* "Maintain a queue of outgoing raw bytes and write to the socket          *)
(* following the order they were scheduled" (README.md): whatever mixture   *)
(* of aggressive, synchronous and asynchronous writes was used, the peer    *)
(* receives the accepted bytes in order, none twice and none skipped.       *)
StreamInOrder ==
  /\ Len(wire) <= accepted
  /\ \A i \in 1..Len(wire) : wire[i] = i

(* The invariant of m_write_queue: never empty, its back is never the item  *)
(* a running write operation has frozen, and every item but the back has    *)
(* something to write (an empty front would stop the writing for good).     *)
QueueShape ==
  /\ Len(wq) >= 1
  /\ running => Len(wq) >= 2
  /\ \A i \in 1..Len(wq) - 1 : wq[i].data # <<>>

(* No byte is forgotten: with writing enabled and no write running, an idle *)
(* strand has handed everything it accepted to the socket.                  *)
NothingStuck ==
  pc = "idle" /\ writeEnabled /\ ~running => Len(wire) = accepted /\ Len(wq) = 1

(* A callback hears success only when the last byte of its send is written. *)
SuccessMeansWritten ==
  \A s \in DOMAIN sends :
    (\E i \in DOMAIN sends[s].res : sends[s].res[i] = "success")
      => sends[s].upto <= Len(wire)

Accepted(s) == sends[s].upto > sends[s].from
Answered(s) == sends[s].res # <<>>

(* Callbacks of accepted sends are called in the order of the sends: when   *)
(* one was called, so was every earlier one.                                *)
AnsweredInOrder ==
  \A s, t \in DOMAIN sends :
    s < t /\ sends[s].cb /\ sends[t].cb /\ Accepted(s) /\ Accepted(t)
          /\ Answered(t) => Answered(s)

(* "Once all the buffers in a given group are sent, or send attempt failed, *)
(* or connection io failed ... this callback is called": no callback is     *)
(* lost, however the connection ended (its destructor calls the rest).      *)
NoCallbackLost ==
  ~alive => \A s \in DOMAIN sends : sends[s].cb => Answered(s)

(* A connection is shut down for a write timeout only by the timer of the   *)
(* write that is still outstanding, never by the late timer of an earlier   *)
(* one (the case handle_write_operation_timeout_impl argues about).         *)
NoSpuriousTimeout ==
  [][shutReason = "none" /\ shutReason' = "write_timeout"
       => aw.st # "none" /\ \E t \in timeouts \ timeouts' : t.op = aw.op]_vars

(* m_read_buffer belongs to one side at a time: no read operation fills it  *)
(* while the input handler works on it, and no two reads share it, as long  *)
(* as the user starts reading only when no read is outstanding.             *)
ReadBufferOwned == reads + (IF inInput THEN 1 ELSE 0) <= 1

(* Shutdown happens once: the first reason stays, whichever of the errors,  *)
(* timeouts and calls that follow a shutdown arrive, and the handler hears  *)
(* of it then and never again.  It is called once, and once more for every  *)
(* call of shutdown() that it makes itself: m_shutdown_was_called does not  *)
(* keep these out, which come before it is set.                             *)
ShutdownOnce ==
  [][/\ shutReason # "none" => UNCHANGED <<shutReason, notified>>
     /\ notified' \in {notified} \cup {notified + (n + 1) : n \in HandlerCalls}]_vars

(* The connection implements the byte stream: it accepts bytes while        *)
(* scheduling is enabled, hands them on in order, and nothing reaches the   *)
(* peer once it is shut down.                                               *)
Stream == INSTANCE ByteStream WITH open <- writeEnabled
ImplementsStream == Stream!Spec

(* With the watchdog, a write that the peer never takes does not stay       *)
(* outstanding for ever.                                                    *)
WriteEnds ==
  aw.st = "pending" ~> (aw.st # "pending" \/ io = "stopped" \/ ~alive)

(* A connection that is shut down and released by the user is destroyed:    *)
(* no operation keeps it alive for ever, so every callback is answered.     *)
ReleasedIsDestroyed == (shutReason # "none" /\ ~held) ~> ~alive

-----------------------------------------------------------------------------
(* The inductive invariant behind StreamInOrder, QueueShape and NothingStuck *)

(* The bytes of s are those numbered a + 1, a + 2, ... *)
IsRun(s, a) == \A j \in 1..Len(s) : s[j] = a + j

(* The flags agree with each other. *)
FlagsInv ==
  /\ writeEnabled <=> shutReason = "none"
  /\ sock = "shut" <=> ~writeEnabled
  /\ pc = "append" => writeEnabled /\ sends # <<>>
  /\ aw.st # "none" => running
  /\ aw.st = "ok" => aw.left = <<>>

(* An item has bytes exactly when it has buffers, and only the last item    *)
(* may have none.                                                           *)
WellFormed(q) ==
  /\ \A i \in 1..Len(q) : q[i].data = <<>> <=> q[i].ends = {}
  /\ \A i \in 1..Len(q) - 1 : q[i].data # <<>>

(* While a send may still write past the queue, the queue is empty. *)
AggressiveInv ==
  pc = "append" /\ call.aggr /\ ~running => Len(wq) = 1 /\ wq[1].data = <<>>

(* st[i] is how many bytes were accepted before those of item i: the items  *)
(* hold consecutive bytes, up to the last of the acc accepted ones.         *)
Chain(q, acc, st) ==
  /\ \A i \in 1..Len(q) : /\ IsRun(q[i].data, st[i])
                          /\ st[i + 1] = st[i] + Len(q[i].data)
  /\ st[Len(q) + 1] = acc

(* The bytes on the wire end where the bytes that are yet to be written     *)
(* begin: the first item, or what is left of it while it is being written.  *)
Frontier(st) ==
  /\ ~running /\ (writeEnabled \/ pc = "initiate") => st[1] = Len(wire)
  /\ aw.st \in {"pending", "ok"} =>
       IsRun(aw.left, Len(wire)) /\ Len(wire) + Len(aw.left) = st[2]

OrderInv ==
  \E st \in [1..Len(wq) + 1 -> 0..accepted] :
    Chain(wq, accepted, st) /\ Frontier(st)

StreamInv ==
  /\ FlagsInv /\ QueueShape /\ WellFormed(wq) /\ AggressiveInv
  /\ NothingStuck /\ StreamInOrder /\ OrderInv

-----------------------------------------------------------------------------
(* What comments and assertions of the code say and the code does not keep   *)

(* "We should have at most a single read loop, otherwise results are         *)
(* unexpected" (start_reading).                                              *)
SingleReadLoop == reads <= 1

(* The callback reports the outcome of its send, one outcome of              *)
(* send_buffers_result: it is called at most once.                           *)
CallbackAtMostOnce == \A s \in DOMAIN sends : Len(sends[s].res) <= 1

(* assert( m_send_completion_cbs.size() < max_seq_length ) before a callback *)
(* is added.                                                                 *)
CallbacksFit == \A i \in DOMAIN wq : Len(wq[i].cbs) <= MaxSeqLen
=============================================================================
