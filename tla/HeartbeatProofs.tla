--------------------------- MODULE HeartbeatProofs ---------------------------
(***************************************************************************)
(* For all timeouts and every lag of the strand: the heartbeat waits       *)
(* before it gives a peer up, keeps one that answers, and notices one that *)
(* does not in bounded time.                                               *)
(*                                                                         *)
(* The argument is about the timer.  After an input the next check is at   *)
(* most Horizon away (the timer may have been set for the reply to an      *)
(* earlier request); a request is therefore sent when the last input is    *)
(* between Initiate and Horizon + MaxLag old, and from then on the timer   *)
(* stands exactly at the moment of giving up (TimerInv).                   *)
(***************************************************************************)
EXTENDS Heartbeat, TLAPS

(* The bounds that the properties name are integers of the expected order. *)
LEMMA Bounds ==
  /\ Horizon \in Nat /\ Horizon >= Initiate /\ Horizon >= Await - Initiate
  /\ Horizon = Initiate \/ Horizon = Await - Initiate
  /\ Patience \in Nat /\ Patience >= 1
  /\ Patience = 1 \/ (Patience <= Initiate - MaxLag
                       /\ Patience <= Await - Initiate - MaxLag)
  BY TimesAssumption DEF Horizon, Patience, MinOf, MaxOf

(* A new entry satisfies the invariant: its first check is Initiate away. *)
LEMMA HeartbeatInit == Init => TypeOK /\ HeartbeatInv
<1> SUFFICES ASSUME Init PROVE TypeOK /\ HeartbeatInv
  OBVIOUS
<1>1. TypeOK
  <2>1. since \in Nat /\ sent \in Nat /\ waited \in Nat /\ timer \in Int
    BY TimesAssumption, SMT DEF Init
  <2> QED BY <2>1, Zenon DEF Init, TypeOK
<1>2. TimerInv
  BY TimesAssumption, Bounds DEF Init, TimerInv, TimedOut
<1>3. PeerInv
  BY DEF Init, PeerInv
<1> QED BY <1>1, <1>2, <1>3 DEF HeartbeatInv

(* Every step of the heartbeat keeps the types. *)
LEMMA HeartbeatType ==
  ASSUME TypeOK, [Next]_vars
  PROVE  TypeOK'
<1>1. CASE Tick
  BY <1>1 DEF TypeOK, Tick
<1>2. CASE Input
  BY <1>2 DEF TypeOK, Input
<1>3. CASE PeerFallsSilent
  BY <1>3 DEF TypeOK, PeerFallsSilent
<1>4. CASE Check
  <2>1. CASE CheckInactive
    BY <2>1 DEF TypeOK, CheckInactive
  <2>2. CASE CheckTooEarly
    BY <2>2, TimesAssumption DEF TypeOK, CheckTooEarly
  <2>3. CASE CheckReplyTimeout
    BY <2>3 DEF TypeOK, CheckReplyTimeout
  <2>4. CASE CheckSendsRequest
    BY <2>4, TimesAssumption DEF TypeOK, CheckSendsRequest, NextCheck
  <2> QED BY <1>4, <2>1, <2>2, <2>3, <2>4 DEF Check
<1>5. CASE Terminate
  <2>1. (timer <= 0) \in BOOLEAN
    BY DEF TypeOK
  <2>2. armed' \in BOOLEAN
    BY <1>5, <2>1, Zenon DEF Terminate
  <2> QED BY <1>5, <2>2 DEF TypeOK, Terminate
<1>6. CASE Terminated \/ UNCHANGED vars
  BY <1>6 DEF TypeOK, Terminated, vars
<1> QED BY <1>1, <1>2, <1>3, <1>4, <1>5, <1>6 DEF Next

(* What the invariant says of an entry at the moment its check runs. *)
LEMMA AtCheck ==
  ASSUME TypeOK, HeartbeatInv, Due, active
  PROVE  /\ sent = 0 => since <= Horizon + MaxLag
         /\ sent # 0 => /\ since >= Await
                        /\ waited >= Patience
<1>1. timer >= -MaxLag /\ timer <= 0 /\ timer \in Int /\ since \in Nat
      /\ sent \in Nat /\ waited \in Nat
  BY DEF TypeOK, HeartbeatInv, TimerInv, Due
<1>2. CASE sent = 0
  BY <1>1, <1>2, Bounds, TimesAssumption DEF HeartbeatInv, TimerInv
<1>3. CASE sent # 0
  <2>1. since - waited >= Initiate /\ since - waited <= Horizon + MaxLag
    BY <1>3 DEF HeartbeatInv, TimerInv
  <2>2. CASE Await > since - waited
    <3>1. since + timer = Await
      BY <1>3, <2>2 DEF HeartbeatInv, TimerInv
    <3>2. since >= Await /\ waited >= 1
      BY <1>1, <2>2, <3>1, TimesAssumption
    <3>3. waited >= Await - Horizon - MaxLag
      BY <1>1, <2>1, <3>2, Bounds, TimesAssumption
    <3>4. CASE Patience = 1
      BY <3>2, <3>4, <1>3
    <3>5. CASE Patience <= Initiate - MaxLag /\ Patience <= Await - Initiate - MaxLag
      BY <1>1, <1>3, <3>2, <3>3, <3>5, Bounds, TimesAssumption
    <3> QED BY <3>4, <3>5, Bounds
  <2>3. CASE ~(Await > since - waited)
    <3>1. waited + timer = Initiate
      BY <1>3, <2>3 DEF HeartbeatInv, TimerInv
    <3>2. waited >= Initiate /\ since >= Await
      BY <1>1, <2>3, <3>1, TimesAssumption
    <3> QED BY <1>1, <1>3, <3>2, Bounds, TimesAssumption
  <2> QED BY <2>2, <2>3
<1> QED BY <1>2, <1>3

(* Every step of the heartbeat keeps the invariant. *)
LEMMA HeartbeatStep ==
  ASSUME TypeOK, HeartbeatInv, [Next]_vars
  PROVE  HeartbeatInv'
<1> USE TimesAssumption, Bounds
<1>1. CASE Tick
  <2>1. TimerInv'
    BY <1>1 DEF TypeOK, HeartbeatInv, TimerInv, Tick, TimedOut, Horizon
  <2>2. PeerInv'
    BY <1>1 DEF TypeOK, HeartbeatInv, PeerInv, Tick
  <2> QED BY <2>1, <2>2 DEF HeartbeatInv
<1>2. CASE Input
  <2>1. CASE active
    <3>1. timer <= Horizon
      BY <2>1 DEF TypeOK, HeartbeatInv, TimerInv
    <3>2. TimerInv'
      BY <1>2, <3>1 DEF TypeOK, HeartbeatInv, TimerInv, Input, TimedOut, Horizon
    <3> QED BY <1>2, <3>2 DEF HeartbeatInv, PeerInv, Input
  <2>2. CASE ~active
    BY <1>2, <2>2 DEF HeartbeatInv, TimerInv, PeerInv, Input
  <2> QED BY <2>1, <2>2
<1>3. CASE PeerFallsSilent
  BY <1>3 DEF HeartbeatInv, TimerInv, PeerInv, PeerFallsSilent, TimedOut, Horizon
<1>4. CASE CheckInactive
  BY <1>4 DEF HeartbeatInv, TimerInv, PeerInv, CheckInactive
<1>5. CASE CheckTooEarly
  <2>1. sent = 0
    BY <1>5 DEF TypeOK, HeartbeatInv, TimerInv, CheckTooEarly
  <2>2. TimerInv'
    BY <1>5, <2>1
    DEF TypeOK, HeartbeatInv, TimerInv, CheckTooEarly, TimedOut, Horizon
  <2> QED BY <1>5, <2>2 DEF HeartbeatInv, PeerInv, CheckTooEarly
<1>6. CASE CheckReplyTimeout
  BY <1>6 DEF HeartbeatInv, TimerInv, PeerInv, CheckReplyTimeout
<1>7. CASE CheckSendsRequest
  <2>1. sent = 0 /\ since <= Horizon + MaxLag
    BY <1>7, AtCheck DEF CheckSendsRequest, ReplyIsOverdue
  <2>2. TimerInv'
    BY <1>7, <2>1
    DEF TypeOK, HeartbeatInv, TimerInv, CheckSendsRequest, NextCheck, TimedOut, Horizon
  <2> QED BY <1>7, <2>2 DEF HeartbeatInv, PeerInv, CheckSendsRequest
<1>8. CASE Terminate
  BY <1>8 DEF HeartbeatInv, TimerInv, PeerInv, Terminate
<1>9. CASE Terminated \/ UNCHANGED vars
  BY <1>9 DEF HeartbeatInv, TimerInv, PeerInv, Terminated, vars, TimedOut, Horizon
<1> QED BY <1>1, <1>2, <1>3, <1>4, <1>5, <1>6, <1>7, <1>8, <1>9 DEF Next, Check

(* The invariant of the timer holds in every reachable state. *)
THEOREM HeartbeatInvariant == Spec => [](TypeOK /\ HeartbeatInv)
<1>1. TypeOK /\ HeartbeatInv /\ [Next]_vars => (TypeOK /\ HeartbeatInv)'
  BY HeartbeatType, HeartbeatStep
<1> QED BY HeartbeatInit, <1>1, PTL DEF Spec

(* An entry is closed for a missing reply only after a request and a wait of *)
(* at least Patience.                                                        *)
THEOREM ClosedAfterWaiting == Spec => ReplyWait
<1>1. TypeOK /\ HeartbeatInv /\ [Next]_vars
        => [~TimedOut /\ TimedOut' => sent > 0 /\ waited >= Patience]_vars
  <2> SUFFICES ASSUME TypeOK, HeartbeatInv, [Next]_vars, ~TimedOut, TimedOut'
               PROVE  sent > 0 /\ waited >= Patience
    OBVIOUS
  <2>1. CheckReplyTimeout
    BY DEF Next, Tick, Input, PeerFallsSilent, Check, CheckInactive,
           CheckTooEarly, CheckSendsRequest, Terminate, Terminated, vars, TimedOut
  <2> QED BY <2>1, AtCheck DEF CheckReplyTimeout, ReplyIsOverdue, TypeOK
<1> QED BY HeartbeatInvariant, <1>1, PTL DEF Spec, ReplyWait

(* A peer that answers in time is never closed for a missing reply. *)
THEOREM AlivePeersAreKept == Spec => []AlivePeerIsKept
<1>1. Init => AlivePeerIsKept
  BY DEF Init, AlivePeerIsKept, TimedOut
<1>2. TypeOK /\ HeartbeatInv /\ AlivePeerIsKept /\ [Next]_vars => AlivePeerIsKept'
  <2> SUFFICES ASSUME TypeOK, HeartbeatInv, AlivePeerIsKept, [Next]_vars,
                      ReplyTime < Patience, ~silent', TimedOut'
               PROVE  FALSE
    BY DEF AlivePeerIsKept, Patience, MinOf, MaxOf
  <2>1. ~silent
    BY DEF TypeOK, Next, Tick, Input, PeerFallsSilent, Check, CheckInactive,
           CheckTooEarly, CheckReplyTimeout, CheckSendsRequest, Terminate,
           Terminated, vars
  <2>2. ~TimedOut
    BY <2>1 DEF AlivePeerIsKept
  <2>3. CheckReplyTimeout
    BY <2>2 DEF Next, Tick, Input, PeerFallsSilent, Check, CheckInactive,
           CheckTooEarly, CheckSendsRequest, Terminate, Terminated, vars, TimedOut
  <2>4. waited >= Patience /\ sent # 0
    BY <2>3, AtCheck DEF CheckReplyTimeout, ReplyIsOverdue
  <2>5. waited <= ReplyTime
    BY <2>1, <2>4 DEF HeartbeatInv, PeerInv
  <2> QED BY <2>4, <2>5, Bounds, TimesAssumption DEF TypeOK
<1> QED BY HeartbeatInvariant, <1>1, <1>2, PTL DEF Spec

(* The last input of an active entry is never older than the bound: a dead *)
(* peer is noticed in time.                                                *)
THEOREM DeadPeersAreNoticed == Spec => []DetectionBound
<1>1. TypeOK /\ HeartbeatInv => DetectionBound
  <2> SUFFICES ASSUME TypeOK, HeartbeatInv, active
               PROVE  since <= MaxOf(Await, 2 * Initiate) + 2 * MaxLag
    BY DEF DetectionBound
  <2> USE TimesAssumption DEF TypeOK
  <2>1. timer >= -MaxLag
    BY DEF HeartbeatInv, TimerInv
  <2>2. CASE sent = 0
    BY <2>1, <2>2 DEF HeartbeatInv, TimerInv, Horizon, MaxOf
  <2>3. CASE sent # 0
    <3>1. since - waited <= Horizon + MaxLag
      BY <2>3 DEF HeartbeatInv, TimerInv
    <3>2. since + timer = Await \/ waited + timer = Initiate
      BY <2>3 DEF HeartbeatInv, TimerInv
    <3> QED BY <2>1, <3>1, <3>2 DEF Horizon, MaxOf
  <2> QED BY <2>2, <2>3
<1> QED BY HeartbeatInvariant, <1>1, PTL
=============================================================================
