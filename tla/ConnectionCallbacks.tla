------------------------- MODULE ConnectionCallbacks -------------------------
(***************************************************************************)
(* The connection of module Connection with completion callbacks that call *)
(* it back.  A user call reaches the strand by dispatch(), so a call made  *)
(* from a callback does not wait for the strand: it runs at once, inside   *)
(* after_write, which calls the callbacks of the item it has written       *)
(* before it takes the item off the queue and clears the running flag.     *)
(*                                                                         *)
(* after_write is therefore split here at the callbacks: pc = "callbacks"  *)
(* is the loop over them, and while one of them runs the strand is "idle"  *)
(* for the calls it makes, and for nothing else.  The callbacks of sends   *)
(* that failed or went out aggressively are the last thing their handler   *)
(* does, and stay as they are in module Connection.                        *)
(***************************************************************************)
EXTENDS Connection

CONSTANT CallbackSends  \* which callbacks call back: of "sync" or "async" writes

ASSUME CallbackAssumption == CallbackSends \subseteq {"sync", "async"}

VARIABLE frames  \* after_write calls in progress, innermost first [cbs, by]

cbVars == <<vars, frames>>

CbInit == Init /\ frames = <<>>

(* after_write without an error, as far as the first callback. *)
AfterWriteCalls(q, by) ==
  /\ watch' = CancelWatch(watch)
  /\ wq' = q
  /\ frames' = <<[cbs |-> q[1].cbs, by |-> by]>> \o frames
  /\ pc' = "callbacks"
  /\ UNCHANGED <<running, call, sends, accepted, stateVars, readVars,
                 userVars, timeouts>>

SyncWriteAllCalls ==
  /\ CanInitiate
  /\ Size(Front) <= SyncLimit
  /\ sock = "open"
  /\ wire' = wire \o Front.data
  /\ AfterWriteCalls(Freeze(wq), "sync")
  /\ UNCHANGED aw

AsyncWriteDoneCalls ==
  /\ StrandFree /\ frames = <<>>
  /\ aw.st = "ok"
  /\ AfterWriteCalls(wq, "async")
  /\ aw' = [aw EXCEPT !.st = "none"]
  /\ UNCHANGED wire

(* run_send_completion_callbacks reaches the next callback, in the control  *)
(* of which the connection is until it returns.                             *)
RunNextCallback ==
  /\ pc = "callbacks" /\ frames[1].cbs # <<>>
  /\ sends' = RunCallbacks(sends, <<Head(frames[1].cbs)>>, "success")
  /\ frames' = [frames EXCEPT ![1].cbs = Tail(@)]
  /\ pc' = IF frames[1].by \in CallbackSends THEN "idle" ELSE "callbacks"
  /\ UNCHANGED <<wq, running, aw, call, accepted, wire, stateVars, readVars,
                 userVars, watch, timeouts>>

CallbackReturns ==
  /\ pc = "idle" /\ frames # <<>>
  /\ pc' = "callbacks"
  /\ UNCHANGED <<wq, running, aw, call, sends, accepted, wire, stateVars,
                 readVars, userVars, watch, timeouts, frames>>

(* mutant: after_write does not look at the next item *)
CallbacksDone_Stops ==
  /\ pc = "callbacks" /\ frames[1].cbs = <<>>
  /\ frames' = Tail(frames)
  /\ wq' = Tail(wq)
  /\ running' = FALSE
  /\ pc' = "idle"
  /\ UNCHANGED <<aw, call, sends, accepted, wire, stateVars, readVars,
                 userVars, watch, timeouts>>

(* The rest of after_write: the item leaves the queue, the next is tried.   *)
CallbacksDone ==
  /\ pc = "callbacks" /\ frames[1].cbs = <<>>
  /\ frames' = Tail(frames)
  /\ wq' = Tail(wq)
  /\ running' = FALSE
  /\ pc' = "initiate"
  /\ UNCHANGED <<aw, call, sends, accepted, wire, stateVars, readVars,
                 userVars, watch, timeouts>>

AfterWriteSuccess ==
  \/ SyncWriteAllCalls \/ AsyncWriteDoneCalls
  \/ RunNextCallback \/ CallbackReturns \/ CallbacksDone

(* What goes on inside a callback too: the user's calls, which run at once, *)
(* and the environment.                                                     *)
AnyTime ==
  \/ Send \/ AppendStep
  \/ SkipInitiate \/ StartLargeWrite
  \/ \E k \in 0..Size(Front) - 1 : SyncWriteError(k) \/ SyncWriteWouldBlock(k)
  \/ \E k \in 1..Len(aw.left) : AsyncTransfer(k)
  \/ AsyncFail \/ TimerExpires
  \/ StartReading \/ StopReading
  \/ Shutdown \/ Release
  \/ \E h \in BOOLEAN : ResetShutdownHandler(h)

(* Handlers of the strand, which wait until after_write has returned. *)
HandlerOfItsOwn ==
  /\ frames = <<>>
  /\ \/ aw.st = "error" /\ AsyncWriteDone
     \/ \E t \in timeouts : HandleWriteOperationTimeout(t)
     \/ AfterReadInput \/ AfterReadNext
     \/ \E reason \in {"eof", "io_error"} : AfterReadError(reason)
     \/ StopIo \/ Destroy

CbNext ==
  \/ AfterWriteSuccess
  \/ (AnyTime \/ HandlerOfItsOwn) /\ UNCHANGED frames
  \/ ~alive /\ UNCHANGED cbVars

CbSpec == CbInit /\ [][CbNext]_cbVars
=============================================================================
