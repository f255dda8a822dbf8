----------------------------- MODULE Heartbeat -----------------------------
(***************************************************************************)
(* The heartbeat of opio::proto_entry::entry_base_t                        *)
(* (proto_entry/include/opio/proto_entry/entry_base.hpp): a timer of the   *)
(* entry's strand runs on_check_heartbeat, which asks a quiet peer for a   *)
(* sign of life and closes the entry when none comes.                      *)
(*                                                                         *)
(* Time passes in ticks.  A timer never fires early; its handler may wait  *)
(* for the strand for at most MaxLag ticks.                                *)
(***************************************************************************)
EXTENDS Integers

CONSTANTS
  Initiate,   \* heartbeat.initiate_heartbeat_timeout
  Await,      \* heartbeat.await_heartbeat_reply_timeout, counted from the last input
  MaxLag,     \* how long a timer handler that is due may wait for the strand
  ReplyTime   \* a live peer's input is handled within that time of the request

ASSUME TimesAssumption == /\ Initiate \in Nat \ {0}
                          /\ Await \in Nat \ {0}
                          /\ MaxLag \in Nat
                          /\ ReplyTime \in Nat

VARIABLES
  active,  \* m_connection_is_active
  reason,  \* why the entry was terminated, "none" while it is active
  since,   \* ticks since m_last_input_at
  sent,    \* m_heartbeat_sent_count
  armed,   \* the timer runs or its handler is on its way
  timer,   \* ticks until m_heartbeat_timer expires; how late it is, when negative
  waited,  \* ticks since the latest request, 0 when there is none
  silent   \* the peer has stopped sending for good

vars == <<active, reason, since, sent, armed, timer, waited, silent>>

(* init_underlying_connection *)
Init ==
  /\ active = TRUE
  /\ reason = "none"
  /\ since = 0
  /\ sent = 0
  /\ armed = TRUE
  /\ timer = Initiate
  /\ waited = 0
  /\ silent = FALSE

(* A due check runs within MaxLag, a live peer answers within ReplyTime. *)
Tick ==
  /\ active
  /\ timer > -MaxLag
  /\ silent \/ sent = 0 \/ waited < ReplyTime
  /\ since' = since + 1
  /\ timer' = timer - 1
  /\ waited' = IF sent > 0 THEN waited + 1 ELSE 0
  /\ UNCHANGED <<active, reason, sent, armed, silent>>

(* handle_input, whatever the bytes are: update_last_input_at *)
Input ==
  /\ ~silent
  /\ since' = 0
  /\ sent' = 0
  /\ waited' = 0
  /\ UNCHANGED <<active, reason, armed, timer, silent>>

PeerFallsSilent ==
  /\ ~silent
  /\ silent' = TRUE
  /\ UNCHANGED <<active, reason, since, sent, armed, timer, waited>>

-----------------------------------------------------------------------------
(* on_check_heartbeat                                                        *)

Due == armed /\ timer <= 0

(* the check of an entry that was terminated in the meantime *)
CheckInactive ==
  /\ Due /\ ~active
  /\ armed' = FALSE
  /\ UNCHANGED <<active, reason, since, sent, timer, waited, silent>>

(* mutant: a false timeout does not set the timer again *)
CheckTooEarly_NotAgain ==
  /\ Due /\ active
  /\ since < Initiate
  /\ armed' = FALSE
  /\ UNCHANGED <<active, reason, since, sent, timer, waited, silent>>

(* input came after the timer was set: a false timeout *)
CheckTooEarly ==
  /\ Due /\ active
  /\ since < Initiate
  /\ timer' = Initiate - since
  /\ UNCHANGED <<active, reason, since, sent, armed, waited, silent>>

(* mutant: closes without having asked *)
ReplyIsOverdue_Unasked == since >= Await

ReplyIsOverdue == sent # 0 /\ since >= Await

CheckReplyTimeout ==
  /\ Due /\ active
  /\ since >= Initiate
  /\ ReplyIsOverdue
  /\ active' = FALSE
  /\ reason' = "hearbeat_reply_timeout"
  /\ armed' = FALSE
  /\ UNCHANGED <<since, sent, timer, waited, silent>>

NextCheck_FromNow == Await  \* mutant: not counted from the last input

(* the check at which the entry would be closed; Initiate from now when the *)
(* loop is so overloaded that this moment is over                           *)
NextCheck == IF Await > since THEN Await - since ELSE Initiate

CheckSendsRequest ==
  /\ Due /\ active
  /\ since >= Initiate
  /\ ~ReplyIsOverdue
  /\ sent' = sent + 1
  /\ waited' = 0
  /\ timer' = NextCheck
  /\ UNCHANGED <<active, reason, since, armed, silent>>

(* close() by the user, bad input or the end of the connection: terminate() *)
(* cancels the timer, but not a handler that is on its way.                 *)
Terminate ==
  /\ active
  /\ active' = FALSE
  /\ reason' = "other"
  /\ armed' \in {FALSE, timer <= 0}
  /\ UNCHANGED <<since, sent, timer, waited, silent>>

Terminated == ~active /\ UNCHANGED vars

Check == CheckInactive \/ CheckTooEarly \/ CheckReplyTimeout \/ CheckSendsRequest

Next == Tick \/ Input \/ PeerFallsSilent \/ Check \/ Terminate \/ Terminated

Spec == Init /\ [][Next]_vars

(* Time passes, and a check that is due runs. *)
FairSpec == Spec /\ WF_vars(Tick) /\ WF_vars(Check)

-----------------------------------------------------------------------------
MinOf(a, b) == IF a <= b THEN a ELSE b
MaxOf(a, b) == IF a >= b THEN a ELSE b

(* Every variable of the heartbeat has its type. *)
TypeOK ==
  /\ active \in BOOLEAN /\ armed \in BOOLEAN /\ silent \in BOOLEAN
  /\ reason \in {"none", "other", "hearbeat_reply_timeout"}
  /\ since \in Nat /\ sent \in Nat /\ waited \in Nat
  /\ timer \in Int

TimedOut == reason = "hearbeat_reply_timeout"

(* How long a peer may take to answer without being closed, at least. *)
Patience == MaxOf(1, MinOf(Await - Initiate, Initiate) - MaxLag)

(* An entry is closed for a missing reply only after it asked and waited:    *)
(* the request was sent after the last input, at least Patience ago, however *)
(* inputs and late checks shifted the timer.                                 *)
ReplyWait == [][~TimedOut /\ TimedOut' => sent > 0 /\ waited >= Patience]_vars

(* A peer that answers every request within less than Patience is never      *)
(* closed for a missing reply.                                               *)
AlivePeerIsKept == ReplyTime < Patience /\ ~silent => ~TimedOut

(* A peer from which nothing comes is noticed in bounded time: an active     *)
(* entry's last input is never longer ago than that.                         *)
DetectionBound == active => since <= MaxOf(Await, 2 * Initiate) + 2 * MaxLag

(* A peer that falls silent is noticed at last: the heartbeat never stops    *)
(* while the entry is active.                                                *)
SilentPeerIsDetected == silent ~> ~active

-----------------------------------------------------------------------------
(* The inductive invariant                                                   *)

(* The longest time from an input to the check that follows it. *)
Horizon == MaxOf(Initiate, Await - Initiate)

(* since - waited is the age of the last input when the request was sent. *)
TimerInv ==
  active =>
    /\ armed /\ ~TimedOut
    /\ timer >= -MaxLag
    /\ sent = 0 => waited = 0 /\ since + timer <= Horizon
    /\ sent # 0 =>
         /\ since - waited >= Initiate
         /\ since - waited <= Horizon + MaxLag
         /\ IF Await > since - waited THEN since + timer = Await
                                      ELSE waited + timer = Initiate

(* A live peer has not kept a request waiting beyond its time. *)
PeerInv == ~silent /\ sent # 0 => waited <= ReplyTime

HeartbeatInv == TimerInv /\ PeerInv
=============================================================================
