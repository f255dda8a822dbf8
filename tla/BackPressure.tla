---------------------------- MODULE BackPressure ----------------------------
(***************************************************************************)
(* opio::proto_entry::ext::bp_entry_t                                      *)
(* (proto_entry/include/opio/proto_entry/ext/back_pressure.hpp): streams   *)
(* of which at most one buffer is on its way to the socket.  A buffer that *)
(* comes meanwhile waits in a single slot, and a newer one replaces it.    *)
(*                                                                         *)
(* The buffers of a stream are numbered in the order in which the entry's  *)
(* strand takes them.  The connection is what module Connection says of    *)
(* it: it writes what it accepted in order and calls back with success     *)
(* when it has; it rejects everything once it is shut down, and what it    *)
(* had accepted stays queued: written by the write that runs, left behind  *)
(* by one that fails, and given up when the connection is destroyed.       *)
(***************************************************************************)
EXTENDS Integers, Sequences

CONSTANTS
  Tags,      \* the streams
  MaxBufs    \* bound: buffers given to one stream

ASSUME BufsAssumption == MaxBufs \in Nat

VARIABLES
  ctx,       \* m_streams: per stream [inFlight, dropped, memo], memo = 0: no buffer
  taken,     \* per stream: buffers given to bp_send_raw_buf so far
  handed,    \* per stream: the last buffer given to the connection
  written,   \* per stream: the last buffer written to the socket
  out,       \* accepted by the connection, not yet written: [tag, buf]
  writing,   \* no write has failed: one that has is the last
  finished,  \* send_finished calls posted to the strand: tags
  active,    \* m_connection_is_active
  connOpen,  \* the connection is not shut down
  held       \* the entry is held, by its user or by what calls it

connVars == <<writing, connOpen>>
vars == <<ctx, taken, handed, written, out, finished, active, connVars, held>>

Init ==
  /\ ctx = [t \in Tags |-> [inFlight |-> 0, dropped |-> 0, memo |-> 0]]
  /\ taken = [t \in Tags |-> 0]
  /\ handed = [t \in Tags |-> 0]
  /\ written = [t \in Tags |-> 0]
  /\ out = <<>>
  /\ finished = <<>>
  /\ active = TRUE
  /\ connOpen = TRUE
  /\ writing = TRUE
  /\ held = TRUE

(* No reference is left; a task of the strand is one.                        *)
EntryGone == ~held /\ finished = <<>>

(* send_buffer.  An inactive entry drops the buffer and the callback; a     *)
(* connection that is shut down calls back with a failure, which is ignored. *)
SendBuffer(t, b) ==
  IF active /\ connOpen
  THEN /\ out' = Append(out, [tag |-> t, buf |-> b])
       /\ handed' = [handed EXCEPT ![t] = b]
  ELSE UNCHANGED <<out, handed>>

(* mutant: the counter is not looked at *)
CanSendNow_Always(t) == TRUE

(* mutant: a full slot lets the next buffer pass *)
CanSendNow_OverSlot(t) == ctx[t].inFlight < 1 \/ ctx[t].memo # 0

CanSendNow(t) == ctx[t].inFlight < 1

Memorize(c, b) ==
  [c EXCEPT !.memo = b, !.dropped = IF c.memo = 0 THEN @ ELSE @ + 1]

(* the handler that bp_send_raw_buf dispatches to the strand *)
BpSendRawBuf(t) ==
  /\ held
  /\ taken[t] < MaxBufs
  /\ taken' = [taken EXCEPT ![t] = @ + 1]
  /\ IF CanSendNow(t)
     THEN /\ ctx' = [ctx EXCEPT ![t].inFlight = @ + 1]
          /\ SendBuffer(t, taken[t] + 1)
     ELSE /\ ctx' = [ctx EXCEPT ![t] = Memorize(@, taken[t] + 1)]
          /\ UNCHANGED <<out, handed>>
  /\ UNCHANGED <<written, finished, active, connVars, held>>

(* The connection has written the first buffer, perhaps after its shutdown: *)
(* a write that runs then may still succeed.  The callback posts, unless    *)
(* its weak pointer finds no entry.                                         *)
WriteDone ==
  /\ writing
  /\ out # <<>>
  /\ out' = Tail(out)
  /\ written' = [written EXCEPT ![Head(out).tag] = Head(out).buf]
  /\ finished' = IF EntryGone THEN finished ELSE Append(finished, Head(out).tag)
  /\ UNCHANGED <<ctx, taken, handed, active, connVars, held>>

(* shutdown_impl calls no callback and leaves the queue as it is. *)
ConnectionShutdown ==
  /\ connOpen
  /\ connOpen' = FALSE
  /\ UNCHANGED <<ctx, taken, handed, written, out, writing, finished, active, held>>

(* A write fails: the connection is shut down, and the running flag stays    *)
(* set, so that nothing is written any more.  The callback ignores it.       *)
WriteFails ==
  /\ writing
  /\ out # <<>>
  /\ writing' = FALSE
  /\ connOpen' = FALSE
  /\ UNCHANGED <<ctx, taken, handed, written, out, finished, active, held>>

(* handle_remainig_write_queue, with the last reference to a connection, of   *)
(* which the entry holds one and an operation that runs another; the         *)
(* callbacks hear a failure, which this one ignores.                         *)
ConnectionDestroyed ==
  /\ ~connOpen /\ ~writing /\ EntryGone
  /\ out # <<>>
  /\ out' = <<>>
  /\ UNCHANGED <<ctx, taken, handed, written, finished, active, connVars, held>>

(* The entry is given up. *)
Release ==
  /\ held
  /\ held' = FALSE
  /\ UNCHANGED <<ctx, taken, handed, written, out, finished, active, connVars>>

(* The entry terminates; it has dispatched the connection's shutdown, or    *)
(* hears of one.                                                            *)
EntryTerminates ==
  /\ held /\ active
  /\ active' = FALSE
  /\ UNCHANGED <<ctx, taken, handed, written, out, finished, connVars, held>>

(* mutant: the memorized buffer is left for the next call *)
SendFinished_NoFollowUp ==
  /\ finished # <<>>
  /\ finished' = Tail(finished)
  /\ ctx' = [ctx EXCEPT ![Head(finished)].inFlight = @ - 1]
  /\ UNCHANGED <<out, handed, taken, written, active, connVars, held>>

SendFinished ==
  /\ finished # <<>>
  /\ finished' = Tail(finished)
  /\ LET t == Head(finished)
     IN  IF ctx[t].memo # 0
         THEN /\ ctx' = [ctx EXCEPT ![t].memo = 0, ![t].dropped = 0]
              /\ SendBuffer(t, ctx[t].memo)
         ELSE /\ ctx' = [ctx EXCEPT ![t].inFlight = @ - 1]
              /\ UNCHANGED <<out, handed>>
  /\ UNCHANGED <<taken, written, active, connVars, held>>

Next ==
  \/ \E t \in Tags : BpSendRawBuf(t)
  \/ WriteDone \/ SendFinished
  \/ ConnectionShutdown \/ WriteFails \/ ConnectionDestroyed
  \/ EntryTerminates \/ Release

Spec == Init /\ [][Next]_vars

(* The strand runs what was posted to it; a write that runs ends, by its     *)
(* watchdog at the latest.                                                   *)
Progress == out # <<>> /\ (WriteDone \/ ConnectionShutdown \/ WriteFails)

FairSpec == Spec /\ WF_vars(SendFinished) /\ WF_vars(Progress)

-----------------------------------------------------------------------------
(* Every variable has its type. *)
TypeOK ==
  /\ ctx \in [Tags -> [inFlight : Nat, dropped : Nat, memo : Nat]]
  /\ taken \in [Tags -> Nat] /\ handed \in [Tags -> Nat] /\ written \in [Tags -> Nat]
  /\ out \in Seq([tag : Tags, buf : Nat])
  /\ finished \in Seq(Tags)
  /\ active \in BOOLEAN /\ connOpen \in BOOLEAN
  /\ writing \in BOOLEAN /\ held \in BOOLEAN

(* The entry and its connection go on, and somebody wants them to.           *)
Working == active /\ connOpen /\ held

(* Stream t has a buffer on its way, or its completion. *)
Pending(t) == \/ \E i \in DOMAIN out : out[i].tag = t
              \/ \E i \in DOMAIN finished : finished[i] = t

(* "checks if for a given stream a piece of data is already in flight": at   *)
(* most one buffer of a stream, or its completion, is under way; while the   *)
(* connection works, in_flight counts exactly that.                          *)
OneInFlight ==
  /\ \A i, j \in DOMAIN out : out[i].tag = out[j].tag => i = j
  /\ \A i, j \in DOMAIN finished : finished[i] = finished[j] => i = j
  /\ \A i \in DOMAIN out, j \in DOMAIN finished : out[i].tag # finished[j]
  /\ \A t \in Tags : /\ ctx[t].inFlight \in {0, 1}
                     /\ Pending(t) => ctx[t].inFlight = 1
                     /\ Working /\ ctx[t].inFlight = 1 => Pending(t)

(* "only latest call would be meaningfull": while the connection works, the  *)
(* latest buffer of a stream is never lost: it is the last one handed to the *)
(* connection or waits in the slot, behind one that is under way.            *)
LatestIsKept ==
  Working => \A t \in Tags :
               IF ctx[t].memo = 0 THEN handed[t] = taken[t]
               ELSE ctx[t].memo = taken[t] /\ ctx[t].inFlight = 1

(* dropped_bufs is the number of buffers that were given up between the one  *)
(* that is under way and the one that waits.                                 *)
DropsCounted ==
  Working => \A t \in Tags :
               IF ctx[t].memo = 0 THEN ctx[t].dropped = 0
               ELSE ctx[t].dropped = ctx[t].memo - handed[t] - 1

(* A stream never goes back: what is written is newer than what was.         *)
NeverGoesBack == [][\A t \in Tags : written'[t] >= written[t]]_vars

(* What a stream was given is written in the end, or something newer, as     *)
(* long as the connection works: back pressure never stalls a stream.        *)
LatestIsWritten ==
  \A t \in Tags : \A n \in 1..MaxBufs : taken[t] = n ~> (written[t] >= n \/ ~Working)

-----------------------------------------------------------------------------
(* The inductive invariant: what is under way is what was handed over last.  *)
UnderWayInv ==
  /\ \A i \in DOMAIN out : out[i].tag \in Tags =>
       /\ out[i].buf = handed[out[i].tag]
       /\ out[i].buf > written[out[i].tag]
  /\ \A t \in Tags : /\ handed[t] <= taken[t] /\ written[t] <= handed[t]
                     /\ ctx[t].memo # 0 => ctx[t].memo > handed[t]
                     /\ ctx[t].memo <= taken[t]

BackPressureInv == OneInFlight /\ UnderWayInv /\ LatestIsKept /\ DropsCounted
=============================================================================
