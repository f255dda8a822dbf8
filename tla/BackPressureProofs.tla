------------------------- MODULE BackPressureProofs -------------------------
(***************************************************************************)
(* For every set of streams and any number of buffers: at most one buffer  *)
(* of a stream is under way, the latest one is never lost, the count of    *)
(* the dropped ones is right, and a stream never goes back.                *)
(*                                                                         *)
(* The completions posted to the strand and the buffers in the connection  *)
(* are tokens: a stream has at most one, and as long as the connection     *)
(* works it has one exactly when in_flight is 1 (OneInFlight).  The buffer *)
(* of the token is the last one handed over, and it is newer than what is  *)
(* written and older than what waits in the slot (UnderWayInv).            *)
(***************************************************************************)
EXTENDS BackPressure, TLAPS, SequenceTheorems

Ctx == [inFlight : Nat, dropped : Nat, memo : Nat]
Queued == [tag : Tags, buf : Nat]

(* Other senders may use the connection, as in module EntrySend: its queue   *)
(* holds elements of Q, and those of a stream are buffers.                   *)
Shared(Q) == Queued \subseteq Q /\ \A e \in Q : e.tag \in Tags => e.buf \in Nat

(* Every variable has its type, and the queue holds elements of Q.           *)
Typed(Q) ==
  /\ ctx \in [Tags -> Ctx]
  /\ taken \in [Tags -> Nat] /\ handed \in [Tags -> Nat] /\ written \in [Tags -> Nat]
  /\ out \in Seq(Q)
  /\ finished \in Seq(Tags)
  /\ active \in BOOLEAN /\ connOpen \in BOOLEAN
  /\ writing \in BOOLEAN /\ held \in BOOLEAN

(* What Append does, for the two queues of the module. *)
LEMMA Appended ==
  ASSUME NEW S, NEW q \in Seq(S), NEW e \in S
  PROVE  /\ Append(q, e) \in Seq(S)
         /\ Len(q) \in Nat
         /\ DOMAIN q = 1..Len(q)
         /\ DOMAIN Append(q, e) = 1..(Len(q) + 1)
         /\ \A i \in 1..Len(q) : Append(q, e)[i] = q[i]
         /\ Append(q, e)[Len(q) + 1] = e
  BY AppendProperties, LenProperties

(* What Head and Tail do. *)
LEMMA Popped ==
  ASSUME NEW S, NEW q \in Seq(S), q # <<>>
  PROVE  /\ Head(q) \in S /\ Head(q) = q[1]
         /\ Tail(q) \in Seq(S)
         /\ Len(q) \in Nat /\ Len(q) >= 1
         /\ DOMAIN q = 1..Len(q)
         /\ DOMAIN Tail(q) = 1..(Len(q) - 1)
         /\ \A i \in 1..(Len(q) - 1) : Tail(q)[i] = q[i + 1]
  BY HeadTailProperties, LenProperties, EmptySeq

(* The elements of the queues have their types. *)
LEMMA QueueElements ==
  ASSUME NEW Q, Shared(Q), Typed(Q)
  PROVE  /\ Len(out) \in Nat /\ DOMAIN out = 1..Len(out)
         /\ \A i \in DOMAIN out : out[i].tag \in Tags => out[i].buf \in Nat
         /\ Len(finished) \in Nat /\ DOMAIN finished = 1..Len(finished)
         /\ \A i \in DOMAIN finished : finished[i] \in Tags
<1>1. out \in Seq(Q) /\ finished \in Seq(Tags)
  BY DEF Typed
<1>2. \A i \in 1..Len(out) : out[i] \in Q
  BY <1>1, ElementOfSeq
<1>3. \A i \in 1..Len(finished) : finished[i] \in Tags
  BY <1>1, ElementOfSeq
<1> QED BY <1>1, <1>2, <1>3, LenProperties DEF Shared

(* BackPressure alone has the type of a queue that is not shared.            *)
LEMMA TypedMeans == Shared(Queued) /\ (TypeOK <=> Typed(Queued))
  BY DEF Shared, TypeOK, Typed, Ctx, Queued

(* A write ends for a buffer of a stream.                                    *)
LEMMA BufferIsQueued ==
  ASSUME TypeOK, WriteDone
  PROVE  Head(out).tag \in Tags
<1>1. out \in Seq(Queued) /\ out # <<>>
  BY DEF TypeOK, Queued, WriteDone
<1>2. Head(out) \in Queued
  BY <1>1, Popped
<1> QED BY <1>2 DEF Queued

(* A new entry has nothing under way. *)
LEMMA BackPressureInit == Init => TypeOK /\ BackPressureInv
<1> SUFFICES ASSUME Init PROVE TypeOK /\ BackPressureInv
  OBVIOUS
<1>1. <<>> \in Seq(Queued) /\ <<>> \in Seq(Tags) /\ DOMAIN <<>> = {}
  BY EmptySeq
<1>2. TypeOK
  <2>1. ctx \in [Tags -> Ctx]
    BY DEF Init, Ctx
  <2>2. /\ taken \in [Tags -> Nat] /\ handed \in [Tags -> Nat]
        /\ written \in [Tags -> Nat]
    BY DEF Init
  <2>3. out \in Seq(Queued) /\ finished \in Seq(Tags)
    BY <1>1 DEF Init
  <2>4. /\ active \in BOOLEAN /\ connOpen \in BOOLEAN
        /\ writing \in BOOLEAN /\ held \in BOOLEAN
    BY Zenon DEF Init
  <2> QED BY <2>1, <2>2, <2>3, <2>4, Zenon DEF TypeOK, Ctx, Queued
<1>3. /\ \A t \in Tags : ctx[t].inFlight = 0 /\ ctx[t].dropped = 0 /\ ctx[t].memo = 0
      /\ \A t \in Tags : taken[t] = 0 /\ handed[t] = 0 /\ written[t] = 0
      /\ DOMAIN out = {} /\ DOMAIN finished = {}
  BY <1>1 DEF Init
<1>4. OneInFlight
  BY <1>3 DEF OneInFlight, Pending
<1>5. UnderWayInv /\ LatestIsKept /\ DropsCounted
  BY <1>3 DEF UnderWayInv, LatestIsKept, DropsCounted
<1> QED BY <1>2, <1>4, <1>5 DEF BackPressureInv

(* bp_send_raw_buf keeps types and invariant, whichever way it takes. *)
LEMMA BpSendStep ==
  ASSUME NEW Q, Shared(Q), Typed(Q), BackPressureInv, NEW t \in Tags, BpSendRawBuf(t)
  PROVE  Typed(Q)' /\ BackPressureInv'
<1> DEFINE b == taken[t] + 1
<1>1. /\ ctx \in [Tags -> Ctx] /\ taken \in [Tags -> Nat] /\ handed \in [Tags -> Nat]
      /\ written \in [Tags -> Nat]
      /\ out \in Seq(Q) /\ finished \in Seq(Tags)
  BY DEF Typed
<1>2. /\ \A u \in Tags : ctx[u] \in Ctx /\ taken[u] \in Nat /\ handed[u] \in Nat
                         /\ written[u] \in Nat
      /\ b \in Nat
  BY <1>1
<1>3. /\ taken' = [taken EXCEPT ![t] = b]
      /\ UNCHANGED <<written, finished, active, writing, connOpen, held>>
  BY DEF BpSendRawBuf, connVars
<1>4. /\ taken' \in [Tags -> Nat] /\ taken'[t] = b
      /\ \A u \in Tags \ {t} : taken'[u] = taken[u]
  BY <1>1, <1>2, <1>3
<1>5. CASE CanSendNow(t) /\ Working
  <2>1. /\ ctx' = [ctx EXCEPT ![t].inFlight = @ + 1]
        /\ out' = Append(out, [tag |-> t, buf |-> b])
        /\ handed' = [handed EXCEPT ![t] = b]
    BY <1>5 DEF BpSendRawBuf, SendBuffer, Working
  <2>2. ctx[t].inFlight = 0 /\ ~Pending(t)
    BY <1>2, <1>5 DEF BackPressureInv, OneInFlight, CanSendNow
  <2>3. /\ ctx' \in [Tags -> Ctx]
        /\ ctx'[t].inFlight = 1 /\ ctx'[t].dropped = ctx[t].dropped
        /\ ctx'[t].memo = ctx[t].memo
        /\ \A u \in Tags \ {t} : ctx'[u] = ctx[u]
    <3> DEFINE c == [ctx[t] EXCEPT !.inFlight = @ + 1]
    <3>1. /\ c \in Ctx /\ c.inFlight = 1 /\ c.memo = ctx[t].memo
          /\ c.dropped = ctx[t].dropped
      BY <1>2, <2>2 DEF Ctx
    <3>2. ctx' = [ctx EXCEPT ![t] = c]
      BY <2>1
    <3> HIDE DEF c
    <3> QED BY <1>1, <3>1, <3>2
  <2>4. /\ handed' \in [Tags -> Nat] /\ handed'[t] = b
        /\ \A u \in Tags \ {t} : handed'[u] = handed[u]
    BY <1>1, <1>2, <2>1
  <2>5. /\ out' \in Seq(Q) /\ Len(out) \in Nat /\ DOMAIN out = 1..Len(out)
        /\ DOMAIN out' = 1..(Len(out) + 1)
        /\ \A i \in 1..Len(out) : out'[i] = out[i]
        /\ out'[Len(out) + 1].tag = t /\ out'[Len(out) + 1].buf = b
    <3>1. [tag |-> t, buf |-> b] \in Q
      BY <1>2 DEF Queued, Shared
    <3> HIDE DEF b
    <3> QED BY <1>1, <2>1, <3>1, Appended
  <2>6. Typed(Q)'
    BY <1>1, <1>3, <1>4, <2>3, <2>4, <2>5 DEF Typed
  <2>7. ctx[t].memo = 0
    BY <1>5, <2>2 DEF BackPressureInv, LatestIsKept
  <2>8. OneInFlight'
    BY <1>3, <1>5, <2>2, <2>3, <2>5, SMTT(20) DEF BackPressureInv, OneInFlight, Pending, Working
  <2>9. UnderWayInv'
    <3>1. \A i \in 1..Len(out) : out[i].tag # t
      BY <2>2, <2>5 DEF Pending
    <3> HIDE DEF b
    <3>3. b > written[t] /\ handed[t] <= b /\ b > handed[t]
      BY <1>2 DEF BackPressureInv, UnderWayInv, b
    <3>4. \A i \in DOMAIN out' : out'[i].tag \in Tags =>
             /\ out'[i].buf = handed'[out'[i].tag]
             /\ out'[i].buf > written'[out'[i].tag]
      BY <1>3, <2>4, <2>5, <3>1, <3>3 DEF BackPressureInv, UnderWayInv
    <3>5. \A u \in Tags : /\ handed'[u] <= taken'[u] /\ written'[u] <= handed'[u]
                          /\ ctx'[u].memo # 0 => ctx'[u].memo > handed'[u]
                          /\ ctx'[u].memo <= taken'[u]
      BY <1>2, <1>3, <1>4, <2>3, <2>4, <2>7, <3>3 DEF BackPressureInv, UnderWayInv
    <3> QED BY <3>4, <3>5 DEF UnderWayInv
  <2>10. LatestIsKept' /\ DropsCounted'
    BY <1>3, <1>4, <1>5, <2>2, <2>3, <2>4, <2>7
       DEF BackPressureInv, LatestIsKept, DropsCounted, Working
  <2> QED BY <2>6, <2>8, <2>9, <2>10 DEF BackPressureInv
<1>6. CASE CanSendNow(t) /\ ~Working
  <2>1. /\ ctx' = [ctx EXCEPT ![t].inFlight = @ + 1]
        /\ out' = out /\ handed' = handed
    BY <1>6 DEF BpSendRawBuf, SendBuffer, Working
  <2>2. ctx[t].inFlight = 0
    BY <1>2, <1>6 DEF BackPressureInv, OneInFlight, CanSendNow
  <2>3. /\ ctx' \in [Tags -> Ctx]
        /\ ctx'[t].inFlight = 1 /\ ctx'[t].memo = ctx[t].memo
        /\ \A u \in Tags \ {t} : ctx'[u] = ctx[u]
    <3> DEFINE c == [ctx[t] EXCEPT !.inFlight = @ + 1]
    <3>1. /\ c \in Ctx /\ c.inFlight = 1 /\ c.memo = ctx[t].memo
          /\ c.dropped = ctx[t].dropped
      BY <1>2, <2>2 DEF Ctx
    <3>2. ctx' = [ctx EXCEPT ![t] = c]
      BY <2>1
    <3> HIDE DEF c
    <3> QED BY <1>1, <3>1, <3>2
  <2>4. ~Working'
    BY <1>3, <1>6 DEF Working
  <2>5. Typed(Q)'
    BY <1>1, <1>3, <1>4, <2>1, <2>3 DEF Typed
  <2>6. OneInFlight'
    BY <1>3, <2>1, <2>3, <2>4 DEF BackPressureInv, OneInFlight, Pending
  <2>7. UnderWayInv'
    <3> HIDE DEF b
    <3>1. b > taken[t]
      BY <1>2 DEF b
    <3>2. \A u \in Tags : /\ handed[u] <= taken'[u] /\ written'[u] <= handed[u]
                          /\ ctx'[u].memo # 0 => ctx'[u].memo > handed[u]
                          /\ ctx'[u].memo <= taken'[u]
      BY <1>2, <1>3, <1>4, <2>3, <3>1 DEF BackPressureInv, UnderWayInv, Ctx
    <3> QED BY <1>3, <2>1, <3>2 DEF BackPressureInv, UnderWayInv
  <2> QED BY <2>4, <2>5, <2>6, <2>7 DEF BackPressureInv, LatestIsKept, DropsCounted
<1>7. CASE ~CanSendNow(t)
  <2>1. /\ ctx' = [ctx EXCEPT ![t] = Memorize(@, b)]
        /\ out' = out /\ handed' = handed
    BY <1>7 DEF BpSendRawBuf
  <2>2. ctx[t].inFlight = 1
    BY <1>2, <1>7 DEF BackPressureInv, OneInFlight, CanSendNow
  <2>3. /\ ctx' \in [Tags -> Ctx]
        /\ ctx'[t].inFlight = 1 /\ ctx'[t].memo = b
        /\ ctx'[t].dropped = (IF ctx[t].memo = 0 THEN ctx[t].dropped ELSE ctx[t].dropped + 1)
        /\ \A u \in Tags \ {t} : ctx'[u] = ctx[u]
    <3> DEFINE c == Memorize(ctx[t], b)
    <3>1. /\ c \in Ctx /\ c.inFlight = 1 /\ c.memo = b
          /\ c.dropped = (IF ctx[t].memo = 0 THEN ctx[t].dropped ELSE ctx[t].dropped + 1)
      <4> DEFINE d == IF ctx[t].memo = 0 THEN ctx[t].dropped ELSE ctx[t].dropped + 1
      <4>1. ctx[t] \in Ctx /\ b \in Nat /\ d \in Nat
        BY <1>2 DEF Ctx
      <4>2. c = [ctx[t] EXCEPT !.memo = b, !.dropped = d]
        BY DEF Memorize
      <4> HIDE DEF b, c, d
      <4>3. c \in Ctx /\ c.inFlight = ctx[t].inFlight /\ c.memo = b /\ c.dropped = d
        BY <4>1, <4>2 DEF Ctx
      <4> QED BY <2>2, <4>3 DEF d
    <3>2. ctx' = [ctx EXCEPT ![t] = c]
      BY <2>1
    <3> HIDE DEF c
    <3> QED BY <1>1, <3>1, <3>2
  <2>4. Typed(Q)'
    BY <1>1, <1>3, <1>4, <2>1, <2>3 DEF Typed
  <2>5. OneInFlight'
    BY <1>3, <2>1, <2>2, <2>3 DEF BackPressureInv, OneInFlight, Pending, Working
  <2> HIDE DEF b
  <2>6. b = taken[t] + 1 /\ b # 0
    BY <1>2 DEF b
  <2>7. UnderWayInv'
    <3>1. \A u \in Tags : /\ handed[u] <= taken'[u] /\ written'[u] <= handed[u]
                          /\ ctx'[u].memo # 0 => ctx'[u].memo > handed[u]
                          /\ ctx'[u].memo <= taken'[u]
      BY <1>2, <1>3, <1>4, <2>3, <2>6 DEF BackPressureInv, UnderWayInv, Ctx
    <3> QED BY <1>3, <2>1, <3>1 DEF BackPressureInv, UnderWayInv
  <2>8. LatestIsKept'
    BY <1>3, <1>4, <2>1, <2>3, <2>6 DEF BackPressureInv, LatestIsKept, Working
  <2>9. DropsCounted'
    BY <1>2, <1>3, <1>4, <2>1, <2>3, <2>6
       DEF BackPressureInv, LatestIsKept, DropsCounted, Working, Ctx
  <2> QED BY <2>4, <2>5, <2>7, <2>8, <2>9 DEF BackPressureInv
<1> QED BY <1>5, <1>6, <1>7

(* The end of a write turns the token of a stream into a completion. *)
LEMMA WriteDoneStep ==
  ASSUME NEW Q, Shared(Q), Typed(Q), BackPressureInv, WriteDone, Head(out).tag \in Tags
  PROVE  Typed(Q)' /\ BackPressureInv' /\ \A t \in Tags : written'[t] >= written[t]
<1> DEFINE h == Head(out).tag
<1>1. /\ out \in Seq(Q) /\ finished \in Seq(Tags) /\ written \in [Tags -> Nat]
      /\ handed \in [Tags -> Nat]
  BY DEF Typed
<1>2. /\ out # <<>> /\ out' = Tail(out)
      /\ written' = [written EXCEPT ![h] = Head(out).buf]
      /\ finished' = IF EntryGone THEN finished ELSE Append(finished, h)
      /\ UNCHANGED <<ctx, taken, handed, active, writing, connOpen, held>>
  BY DEF WriteDone, connVars
<1>3. /\ Head(out) \in Q /\ Head(out) = out[1] /\ out' \in Seq(Q)
      /\ Len(out) \in Nat /\ Len(out) >= 1
      /\ DOMAIN out = 1..Len(out) /\ DOMAIN out' = 1..(Len(out) - 1)
      /\ \A i \in 1..(Len(out) - 1) : out'[i] = out[i + 1]
  BY <1>1, <1>2, Popped
<1>4. h \in Tags /\ h = out[1].tag /\ Head(out).buf = out[1].buf /\ out[1].buf \in Nat
  BY <1>3 DEF Shared
<1> HIDE DEF h
<1>5. ASSUME ~EntryGone
      PROVE  /\ finished' \in Seq(Tags) /\ Len(finished) \in Nat
             /\ DOMAIN finished = 1..Len(finished)
             /\ DOMAIN finished' = 1..(Len(finished) + 1)
             /\ \A i \in 1..Len(finished) : finished'[i] = finished[i]
             /\ finished'[Len(finished) + 1] = h
  BY <1>1, <1>2, <1>4, <1>5, Appended
<1>6. /\ written' \in [Tags -> Nat] /\ written'[h] = out[1].buf
      /\ \A u \in Tags \ {h} : written'[u] = written[u]
  BY <1>1, <1>2, <1>4
<1>7. Typed(Q)'
  <2>1. finished' \in Seq(Tags)
    BY <1>1, <1>2, <1>5
  <2> QED BY <1>2, <1>3, <1>6, <2>1 DEF Typed
<1>8. 1 \in DOMAIN out /\ out[1].buf = handed[h] /\ out[1].buf > written[h]
  <2>1. 1 \in DOMAIN out
    BY <1>3
  <2> QED BY <1>4, <2>1 DEF BackPressureInv, UnderWayInv
<1>9. \A i \in 2..Len(out) : out[i].tag # h
  BY <1>3, <1>4, <1>8, SMTT(20) DEF BackPressureInv, OneInFlight
<1>u. \A i, j \in DOMAIN out' : out'[i].tag = out'[j].tag => i = j
  <2> SUFFICES ASSUME NEW i \in DOMAIN out', NEW j \in DOMAIN out',
                      out'[i].tag = out'[j].tag
               PROVE  i = j
    OBVIOUS
  <2>1. /\ i + 1 \in DOMAIN out /\ j + 1 \in DOMAIN out
        /\ out'[i] = out[i + 1] /\ out'[j] = out[j + 1]
    BY <1>3
  <2>2. i + 1 = j + 1
    BY <2>1 DEF BackPressureInv, OneInFlight
  <2> QED BY <1>3, <2>2
(* nobody is left to hear of it *)
<1>g. ASSUME EntryGone
      PROVE  OneInFlight'
  <2>1. finished' = finished /\ finished = <<>> /\ ~Working'
    BY <1>2, <1>g DEF EntryGone, Working
  <2>2. DOMAIN finished' = {}
    BY <2>1, EmptySeq
  <2>3. \A t \in Tags : Pending(t)' => Pending(t)
    BY <1>3, <2>1, <2>2 DEF Pending
  <2>4. \A t \in Tags : ctx'[t].inFlight \in {0, 1} /\ (Pending(t)' => ctx'[t].inFlight = 1)
    BY <1>2, <2>3 DEF BackPressureInv, OneInFlight
  <2> QED BY <1>u, <2>1, <2>2, <2>4, Zenon DEF OneInFlight
<1>10. ASSUME ~EntryGone
       PROVE  OneInFlight'
  <2>0. /\ DOMAIN finished' = 1..(Len(finished) + 1) /\ Len(finished) \in Nat
        /\ DOMAIN finished = 1..Len(finished)
        /\ \A i \in 1..Len(finished) : finished'[i] = finished[i]
        /\ finished'[Len(finished) + 1] = h
    BY <1>5, <1>10
  <2>2. \A i \in DOMAIN finished : finished[i] # h
    BY <1>4, <1>8 DEF BackPressureInv, OneInFlight
  <2>3. \A i, j \in DOMAIN finished' : finished'[i] = finished'[j] => i = j
    BY <2>0, <2>2 DEF BackPressureInv, OneInFlight
  <2>4. \A i \in DOMAIN out', j \in DOMAIN finished' : out'[i].tag # finished'[j]
    <3>1. \A i \in DOMAIN out' : i + 1 \in DOMAIN out /\ i + 1 \in 2..Len(out)
                                   /\ out'[i] = out[i + 1]
      BY <1>3
    <3> QED BY <2>0, <1>9, <3>1 DEF BackPressureInv, OneInFlight
  <2>5. \A t \in Tags : Pending(t)' <=> Pending(t)
    <3> TAKE t \in Tags
    <3>1. CASE t = h
      <4>1. Pending(t) /\ Pending(t)'
        BY <1>4, <2>0, <1>8, <3>1 DEF Pending
      <4> QED BY <4>1
    <3>2. CASE t # h
      <4>1. (\E i \in DOMAIN out' : out'[i].tag = t) <=> (\E i \in DOMAIN out : out[i].tag = t)
        <5>1. ASSUME NEW i \in DOMAIN out, out[i].tag = t
              PROVE  i - 1 \in DOMAIN out' /\ out'[i - 1].tag = t
          BY <1>3, <1>4, <3>2, <5>1
        <5>2. ASSUME NEW i \in DOMAIN out', out'[i].tag = t
              PROVE  i + 1 \in DOMAIN out /\ out[i + 1].tag = t
          BY <1>3, <5>2
        <5> QED BY <5>1, <5>2
      <4>2. (\E i \in DOMAIN finished' : finished'[i] = t)
              <=> (\E i \in DOMAIN finished : finished[i] = t)
        BY <2>0, <3>2
      <4> QED BY <4>1, <4>2 DEF Pending
    <3> QED BY <3>1, <3>2
  <2>6. Working' <=> Working
    BY <1>2 DEF Working
  <2>7. \A t \in Tags : /\ ctx'[t].inFlight \in {0, 1}
                        /\ Pending(t)' => ctx'[t].inFlight = 1
                        /\ Working' /\ ctx'[t].inFlight = 1 => Pending(t)'
    BY <1>2, <2>5, <2>6 DEF BackPressureInv, OneInFlight
  <2> QED BY <1>u, <2>3, <2>4, <2>7, Zenon DEF OneInFlight
<1>11. UnderWayInv'
  <2>1. \A i \in DOMAIN out' : out'[i].tag \in Tags =>
           /\ out'[i].buf = handed'[out'[i].tag]
           /\ out'[i].buf > written'[out'[i].tag]
    <3> SUFFICES ASSUME NEW i \in DOMAIN out', out'[i].tag \in Tags
                 PROVE  /\ out'[i].buf = handed'[out'[i].tag]
                        /\ out'[i].buf > written'[out'[i].tag]
      OBVIOUS
    <3>1. i + 1 \in DOMAIN out /\ i + 1 \in 2..Len(out) /\ out'[i] = out[i + 1]
      BY <1>3
    <3>2. out[i + 1].tag \in Tags \ {h}
      BY <1>9, <3>1
    <3> QED BY <1>2, <1>6, <3>1, <3>2 DEF BackPressureInv, UnderWayInv
  <2>2. \A t \in Tags : /\ handed'[t] <= taken'[t] /\ written'[t] <= handed'[t]
                        /\ ctx'[t].memo # 0 => ctx'[t].memo > handed'[t]
                        /\ ctx'[t].memo <= taken'[t]
    BY <1>1, <1>2, <1>6, <1>8 DEF BackPressureInv, UnderWayInv
  <2> QED BY <2>1, <2>2 DEF UnderWayInv
<1>12. LatestIsKept' /\ DropsCounted'
  BY <1>2 DEF BackPressureInv, LatestIsKept, DropsCounted, Working
<1>13. \A t \in Tags : written'[t] >= written[t]
  <2> TAKE t \in Tags
  <2>1. CASE t = h
    BY <1>1, <1>4, <1>6, <1>8, <2>1
  <2>2. CASE t # h
    BY <1>1, <1>6, <2>2
  <2> QED BY <2>1, <2>2
<1> QED BY <1>7, <1>g, <1>10, <1>11, <1>12, <1>13 DEF BackPressureInv

(* send_finished sends what waits, or ends the flight. *)
LEMMA SendFinishedStep ==
  ASSUME NEW Q, Shared(Q), Typed(Q), BackPressureInv, SendFinished
  PROVE  Typed(Q)' /\ BackPressureInv'
<1>1. /\ ctx \in [Tags -> Ctx] /\ taken \in [Tags -> Nat] /\ handed \in [Tags -> Nat]
      /\ written \in [Tags -> Nat]
      /\ out \in Seq(Q) /\ finished \in Seq(Tags)
  BY DEF Typed
<1>2. /\ finished # <<>> /\ finished' = Tail(finished)
      /\ UNCHANGED <<taken, written, active, writing, connOpen, held>>
  BY DEF SendFinished, connVars
<1>t. PICK t \in Tags : t = Head(finished)
  BY <1>1, <1>2, Popped
<1>3. /\ t \in Tags /\ t = finished[1] /\ finished' \in Seq(Tags)
      /\ Len(finished) \in Nat /\ Len(finished) >= 1
      /\ DOMAIN finished = 1..Len(finished)
      /\ DOMAIN finished' = 1..(Len(finished) - 1)
      /\ \A i \in 1..(Len(finished) - 1) : finished'[i] = finished[i + 1]
  BY <1>1, <1>2, <1>t, Popped
<1>c. \A u \in Tags : ctx[u] \in Ctx /\ taken[u] \in Nat /\ handed[u] \in Nat
                       /\ written[u] \in Nat
  BY <1>1
<1>m. PICK m \in Nat : m = ctx[t].memo
  BY <1>3, <1>c DEF Ctx
<1>4. /\ \A u \in Tags : ctx[u] \in Ctx /\ taken[u] \in Nat /\ handed[u] \in Nat
                         /\ written[u] \in Nat
      /\ m \in Nat
  BY <1>c
<1>5. /\ m # 0 => /\ ctx' = [ctx EXCEPT ![t].memo = 0, ![t].dropped = 0]
                  /\ SendBuffer(t, m)
      /\ m = 0 => /\ ctx' = [ctx EXCEPT ![t].inFlight = @ - 1]
                  /\ UNCHANGED <<out, handed>>
  BY <1>t, <1>m DEF SendFinished
(* the token of t is the completion that is taken, and no other *)
<1>6. /\ ctx[t].inFlight = 1
      /\ \A i \in DOMAIN out : out[i].tag # t
      /\ \A i \in 2..Len(finished) : finished[i] # t
  <2>1. 1 \in DOMAIN finished
    BY <1>3
  <2>2. Pending(t)
    BY <1>3, <2>1 DEF Pending
  <2>3. \A i \in 2..Len(finished) : finished[i] # t
    BY <1>3, <2>1 DEF BackPressureInv, OneInFlight
  <2>4. \A i \in DOMAIN out : out[i].tag # t
    BY <1>3, <2>1 DEF BackPressureInv, OneInFlight
  <2>5. ctx[t].inFlight = 1
    BY <1>3, <2>2 DEF BackPressureInv, OneInFlight
  <2> QED BY <2>3, <2>4, <2>5
<1>7. \A i \in DOMAIN finished' : /\ i + 1 \in DOMAIN finished /\ i + 1 \in 2..Len(finished)
                                  /\ finished'[i] = finished[i + 1]
                                  /\ finished'[i] # t
  BY <1>3, <1>6
<1>8. \A i, j \in DOMAIN finished' : finished'[i] = finished'[j] => i = j
  <2> SUFFICES ASSUME NEW i \in DOMAIN finished', NEW j \in DOMAIN finished',
                      finished'[i] = finished'[j]
               PROVE  i = j
    OBVIOUS
  <2>1. i + 1 = j + 1
    BY <1>7 DEF BackPressureInv, OneInFlight
  <2> QED BY <1>3, <2>1
<1>9. \A u \in Tags \ {t} : (\E i \in DOMAIN finished' : finished'[i] = u)
                             <=> (\E i \in DOMAIN finished : finished[i] = u)
  <2> TAKE u \in Tags \ {t}
  <2>1. ASSUME NEW i \in DOMAIN finished, finished[i] = u
        PROVE  i - 1 \in DOMAIN finished' /\ finished'[i - 1] = u
    BY <1>3, <2>1
  <2>2. ASSUME NEW i \in DOMAIN finished', finished'[i] = u
        PROVE  i + 1 \in DOMAIN finished /\ finished[i + 1] = u
    BY <1>7, <2>2
  <2> QED BY <2>1, <2>2
<1>10. \A i \in DOMAIN out, j \in DOMAIN finished' : out[i].tag # finished'[j]
  BY <1>7 DEF BackPressureInv, OneInFlight
<1>11. CASE m # 0 /\ active /\ connOpen
  <2>1. /\ ctx' = [ctx EXCEPT ![t].memo = 0, ![t].dropped = 0]
        /\ out' = Append(out, [tag |-> t, buf |-> m])
        /\ handed' = [handed EXCEPT ![t] = m]
    BY <1>5, <1>11 DEF SendBuffer
  <2>2. /\ ctx' \in [Tags -> Ctx]
        /\ ctx'[t].inFlight = 1 /\ ctx'[t].memo = 0 /\ ctx'[t].dropped = 0
        /\ \A u \in Tags \ {t} : ctx'[u] = ctx[u]
    <3> DEFINE c == [ctx[t] EXCEPT !.memo = 0, !.dropped = 0]
    <3>1. c \in Ctx /\ c.inFlight = 1 /\ c.memo = 0 /\ c.dropped = 0
      BY <1>3, <1>4, <1>6 DEF Ctx
    <3>2. ctx' = [ctx EXCEPT ![t] = c]
      BY <1>1, <1>3, <2>1 DEF Ctx
    <3> HIDE DEF c
    <3> QED BY <1>1, <1>3, <3>1, <3>2
  <2>3. m <= taken[t] /\ m > handed[t] /\ (Working => m = taken[t])
    BY <1>3, <1>m, <1>11 DEF BackPressureInv, LatestIsKept, UnderWayInv
  <2>4. /\ handed' \in [Tags -> Nat] /\ handed'[t] = m
        /\ \A u \in Tags \ {t} : handed'[u] = handed[u]
    BY <1>1, <1>3, <1>4, <2>1
  <2>5. /\ out' \in Seq(Q) /\ Len(out) \in Nat /\ DOMAIN out = 1..Len(out)
        /\ DOMAIN out' = 1..(Len(out) + 1)
        /\ \A i \in 1..Len(out) : out'[i] = out[i]
        /\ out'[Len(out) + 1].tag = t /\ out'[Len(out) + 1].buf = m
    <3>1. [tag |-> t, buf |-> m] \in Q
      BY <1>3, <1>4 DEF Queued, Shared
    <3> QED BY <1>1, <2>1, <3>1, Appended
  <2>6. Typed(Q)'
    BY <1>1, <1>2, <1>3, <2>2, <2>4, <2>5 DEF Typed
  <2>7. OneInFlight'
    <3>1. \A i, j \in DOMAIN out' : out'[i].tag = out'[j].tag => i = j
      BY <1>6, <2>5 DEF BackPressureInv, OneInFlight
    <3>2. \A i \in DOMAIN out', j \in DOMAIN finished' : out'[i].tag # finished'[j]
      BY <1>7, <1>10, <2>5
    <3>3. \A u \in Tags \ {t} : Pending(u)' <=> Pending(u)
      BY <1>9, <2>5 DEF Pending
    <3>4. Pending(t)'
      <4>1. Len(out) + 1 \in DOMAIN out'
        BY <2>5
      <4> QED BY <2>5, <4>1 DEF Pending
    <3>5. Working' <=> Working
      BY <1>2 DEF Working
    <3>6. \A u \in Tags : /\ ctx'[u].inFlight \in {0, 1}
                          /\ Pending(u)' => ctx'[u].inFlight = 1
                          /\ Working' /\ ctx'[u].inFlight = 1 => Pending(u)'
      <4> TAKE u \in Tags
      <4>1. CASE u = t
        BY <2>2, <3>4, <4>1
      <4>2. CASE u # t
        BY <2>2, <3>3, <3>5, <4>2 DEF BackPressureInv, OneInFlight
      <4> QED BY <4>1, <4>2
    <3> QED BY <1>8, <3>1, <3>2, <3>6, Zenon DEF OneInFlight
  <2>8. UnderWayInv'
    <3>1. \A i \in DOMAIN out' : out'[i].tag \in Tags =>
             /\ out'[i].buf = handed'[out'[i].tag]
             /\ out'[i].buf > written'[out'[i].tag]
      <4>1. \A i \in 1..Len(out) : out[i].tag # t
        BY <1>6, <2>5
      <4>2. m > written[t]
        BY <1>3, <1>4, <2>3 DEF BackPressureInv, UnderWayInv
      <4> QED BY <1>2, <2>4, <2>5, <4>1, <4>2 DEF BackPressureInv, UnderWayInv
    <3>2. \A u \in Tags : /\ handed'[u] <= taken'[u] /\ written'[u] <= handed'[u]
                          /\ ctx'[u].memo # 0 => ctx'[u].memo > handed'[u]
                          /\ ctx'[u].memo <= taken'[u]
      <4> TAKE u \in Tags
      <4>1. CASE u = t
        <5>1. written[t] <= handed[t]
          BY <1>3 DEF BackPressureInv, UnderWayInv
        <5> QED BY <1>2, <1>4, <2>2, <2>3, <2>4, <4>1, <5>1
      <4>2. CASE u # t
        BY <1>2, <2>2, <2>4, <4>2 DEF BackPressureInv, UnderWayInv
      <4> QED BY <4>1, <4>2
    <3> QED BY <3>1, <3>2 DEF UnderWayInv
  <2>9. LatestIsKept' /\ DropsCounted'
    BY <1>2, <2>2, <2>3, <2>4, SMTT(20)
       DEF BackPressureInv, LatestIsKept, DropsCounted, Working
  <2> QED BY <2>6, <2>7, <2>8, <2>9 DEF BackPressureInv
<1>12. CASE m # 0 /\ ~(active /\ connOpen)
  <2>1. /\ ctx' = [ctx EXCEPT ![t].memo = 0, ![t].dropped = 0]
        /\ out' = out /\ handed' = handed
    BY <1>5, <1>12 DEF SendBuffer
  <2>2. /\ ctx' \in [Tags -> Ctx]
        /\ ctx'[t].inFlight = 1 /\ ctx'[t].memo = 0
        /\ \A u \in Tags \ {t} : ctx'[u] = ctx[u]
    <3> DEFINE c == [ctx[t] EXCEPT !.memo = 0, !.dropped = 0]
    <3>1. c \in Ctx /\ c.inFlight = 1 /\ c.memo = 0
      BY <1>3, <1>4, <1>6 DEF Ctx
    <3>2. ctx' = [ctx EXCEPT ![t] = c]
      BY <1>1, <1>3, <2>1 DEF Ctx
    <3> HIDE DEF c
    <3> QED BY <1>1, <1>3, <3>1, <3>2
  <2>3. ~Working'
    BY <1>2, <1>12 DEF Working
  <2>4. Typed(Q)'
    BY <1>1, <1>2, <1>3, <2>1, <2>2 DEF Typed
  <2>5. OneInFlight'
    <3>1. \A u \in Tags : /\ ctx'[u].inFlight \in {0, 1}
                          /\ Pending(u)' => ctx'[u].inFlight = 1
      BY <1>9, <2>1, <2>2 DEF BackPressureInv, OneInFlight, Pending
    <3> QED BY <1>8, <1>10, <2>1, <2>3, <3>1 DEF BackPressureInv, OneInFlight
  <2>6. UnderWayInv'
    BY <1>2, <1>3, <1>4, <2>1, <2>2 DEF BackPressureInv, UnderWayInv
  <2> QED BY <2>3, <2>4, <2>5, <2>6 DEF BackPressureInv, LatestIsKept, DropsCounted
<1>13. CASE m = 0
  <2>1. /\ ctx' = [ctx EXCEPT ![t].inFlight = @ - 1]
        /\ out' = out /\ handed' = handed
    BY <1>5, <1>13
  <2>2. /\ ctx' \in [Tags -> Ctx]
        /\ ctx'[t].inFlight = 0 /\ ctx'[t].memo = ctx[t].memo
        /\ ctx'[t].dropped = ctx[t].dropped
        /\ \A u \in Tags \ {t} : ctx'[u] = ctx[u]
    <3> DEFINE c == [ctx[t] EXCEPT !.inFlight = @ - 1]
    <3>1. /\ c \in Ctx /\ c.inFlight = 0 /\ c.memo = ctx[t].memo
          /\ c.dropped = ctx[t].dropped
      <4>1. ctx[t] \in Ctx /\ ctx[t].inFlight - 1 = 0
        BY <1>3, <1>4, <1>6
      <4>2. c = [ctx[t] EXCEPT !.inFlight = 0]
        BY <4>1
      <4> HIDE DEF c
      <4> QED BY <4>1, <4>2 DEF Ctx
    <3>2. ctx' = [ctx EXCEPT ![t] = c]
      BY <1>1, <1>3, <2>1 DEF Ctx
    <3> HIDE DEF c
    <3> QED BY <1>1, <1>3, <3>1, <3>2
  <2>3. Typed(Q)'
    BY <1>1, <1>2, <1>3, <2>1, <2>2 DEF Typed
  <2>4. OneInFlight'
    <3>1. ~Pending(t)'
      BY <1>6, <1>7, <2>1 DEF Pending
    <3>2. \A u \in Tags \ {t} : Pending(u)' <=> Pending(u)
      BY <1>9, <2>1 DEF Pending
    <3>3. Working' <=> Working
      BY <1>2 DEF Working
    <3>4. \A u \in Tags : /\ ctx'[u].inFlight \in {0, 1}
                          /\ Pending(u)' => ctx'[u].inFlight = 1
                          /\ Working' /\ ctx'[u].inFlight = 1 => Pending(u)'
      BY <2>2, <3>1, <3>2, <3>3 DEF BackPressureInv, OneInFlight
    <3> QED BY <1>8, <1>10, <2>1, <3>4 DEF BackPressureInv, OneInFlight
  <2>5. UnderWayInv'
    BY <1>2, <1>3, <1>4, <2>1, <2>2 DEF BackPressureInv, UnderWayInv
  <2>6. LatestIsKept' /\ DropsCounted'
    BY <1>2, <1>m, <1>13, <2>1, <2>2 DEF BackPressureInv, LatestIsKept, DropsCounted, Working
  <2> QED BY <2>3, <2>4, <2>5, <2>6 DEF BackPressureInv
<1> QED BY <1>11, <1>12, <1>13

(* What ends the connection, the entry or the interest in them leaves the    *)
(* streams as they are.                                                      *)
Ends == ConnectionShutdown \/ WriteFails \/ ConnectionDestroyed \/ EntryTerminates \/ Release

(* The end of the entry keeps the invariant, whatever else is in the queue.  *)
LEMMA EndStep ==
  ASSUME NEW Q, Shared(Q), Typed(Q), BackPressureInv, Ends
  PROVE  Typed(Q)' /\ BackPressureInv' /\ UNCHANGED written
<1>1. /\ UNCHANGED <<ctx, taken, handed, written, finished>>
      /\ active' \in BOOLEAN /\ connOpen' \in BOOLEAN
      /\ writing' \in BOOLEAN /\ held' \in BOOLEAN
      /\ ~Working'
  <2>0. /\ active \in BOOLEAN /\ connOpen \in BOOLEAN
        /\ writing \in BOOLEAN /\ held \in BOOLEAN
    BY DEF Typed
  <2>1. CASE ConnectionShutdown
    BY <2>0, <2>1, Zenon DEF ConnectionShutdown, Working
  <2>2. CASE WriteFails
    BY <2>0, <2>2, Zenon DEF WriteFails, Working
  <2>3. CASE ConnectionDestroyed
    BY <2>0, <2>3 DEF ConnectionDestroyed, connVars, Working
  <2>4. CASE EntryTerminates
    <3>1. /\ active' = FALSE /\ UNCHANGED <<ctx, taken, handed, written, finished>>
          /\ UNCHANGED <<writing, connOpen, held>>
      BY <2>4 DEF EntryTerminates, connVars
    <3> QED BY <2>0, <3>1, Zenon DEF Working
  <2>5. CASE Release
    <3>1. /\ held' = FALSE /\ UNCHANGED <<ctx, taken, handed, written, finished>>
          /\ UNCHANGED <<active, writing, connOpen>>
      BY <2>5 DEF Release, connVars
    <3> QED BY <2>0, <3>1, Zenon DEF Working
  <2> QED BY <2>1, <2>2, <2>3, <2>4, <2>5 DEF Ends
<1>2. <<>> \in Seq(Q) /\ DOMAIN <<>> = {}
  BY EmptySeq
<1>3. out' = out \/ out' = <<>>
  BY DEF Ends, ConnectionShutdown, WriteFails, ConnectionDestroyed, EntryTerminates, Release
<1>4. Typed(Q)'
  BY <1>1, <1>2, <1>3 DEF Typed
<1>5. OneInFlight'
  <2>1. \A t \in Tags : Pending(t)' => Pending(t)
    BY <1>1, <1>2, <1>3 DEF Pending
  <2>2. \A t \in Tags : ctx'[t].inFlight \in {0, 1} /\ (Pending(t)' => ctx'[t].inFlight = 1)
    BY <1>1, <2>1 DEF BackPressureInv, OneInFlight
  <2>3. /\ \A i, j \in DOMAIN out' : out'[i].tag = out'[j].tag => i = j
        /\ \A i, j \in DOMAIN finished' : finished'[i] = finished'[j] => i = j
        /\ \A i \in DOMAIN out', j \in DOMAIN finished' : out'[i].tag # finished'[j]
    BY <1>1, <1>2, <1>3 DEF BackPressureInv, OneInFlight
  <2> QED BY <1>1, <2>2, <2>3, Zenon DEF OneInFlight
<1>6. UnderWayInv'
  BY <1>1, <1>2, <1>3 DEF BackPressureInv, UnderWayInv
<1> QED BY <1>1, <1>4, <1>5, <1>6 DEF BackPressureInv, LatestIsKept, DropsCounted

(* Every step keeps types and invariant. *)
LEMMA BackPressureStep ==
  ASSUME TypeOK, BackPressureInv, [Next]_vars
  PROVE  TypeOK' /\ BackPressureInv'
<1>1. CASE UNCHANGED vars
  BY <1>1 DEF vars, connVars, TypeOK, BackPressureInv, OneInFlight, UnderWayInv,
              LatestIsKept, DropsCounted, Pending, Working
<1>2. CASE Next
  <2>1. Shared(Queued) /\ Typed(Queued) /\ (Typed(Queued)' => TypeOK')
    BY TypedMeans, Zenon DEF Typed, TypeOK, Ctx, Queued
  <2>2. WriteDone => Head(out).tag \in Tags
    BY BufferIsQueued
  <2> QED
    BY <1>2, <2>1, <2>2, BpSendStep, WriteDoneStep, SendFinishedStep, EndStep DEF Next, Ends
<1> QED BY <1>1, <1>2

(* The invariant of back pressure holds in every reachable state. *)
THEOREM BackPressureInvariant == Spec => [](TypeOK /\ BackPressureInv)
<1>1. TypeOK /\ BackPressureInv /\ [Next]_vars => (TypeOK /\ BackPressureInv)'
  BY BackPressureStep
<1> QED BY BackPressureInit, <1>1, PTL DEF Spec

(* At most one buffer of a stream is under way, and in_flight counts it. *)
THEOREM OneBufferInFlight == Spec => []OneInFlight
<1>1. BackPressureInv => OneInFlight
  BY DEF BackPressureInv
<1> QED BY BackPressureInvariant, <1>1, PTL

(* The latest buffer of a stream is never lost while the connection works. *)
THEOREM TheLatestIsKept == Spec => []LatestIsKept
<1>1. BackPressureInv => LatestIsKept
  BY DEF BackPressureInv
<1> QED BY BackPressureInvariant, <1>1, PTL

(* dropped_bufs counts the buffers given up since the last one handed over. *)
THEOREM TheDropsAreCounted == Spec => []DropsCounted
<1>1. BackPressureInv => DropsCounted
  BY DEF BackPressureInv
<1> QED BY BackPressureInvariant, <1>1, PTL

(* What is written to a stream is never older than what was. *)
THEOREM AStreamNeverGoesBack == Spec => NeverGoesBack
<1>1. TypeOK /\ BackPressureInv /\ [Next]_vars
        => [\A t \in Tags : written'[t] >= written[t]]_vars
  <2> SUFFICES ASSUME TypeOK, BackPressureInv, [Next]_vars
               PROVE  \A t \in Tags : written'[t] >= written[t]
    OBVIOUS
  <2>1. CASE WriteDone
    <3>1. Shared(Queued) /\ Typed(Queued)
      BY TypedMeans
    <3>2. Head(out).tag \in Tags
      BY <2>1, BufferIsQueued
    <3> QED BY <2>1, <3>1, <3>2, WriteDoneStep
  <2>2. CASE ~WriteDone
    <3>1. written' = written
      BY <2>2 DEF Next, BpSendRawBuf, SendFinished, ConnectionShutdown, WriteFails,
                  ConnectionDestroyed, EntryTerminates, Release, vars
    <3>2. \A t \in Tags : written[t] \in Nat
      BY DEF TypeOK
    <3> QED BY <3>1, <3>2
  <2> QED BY <2>1, <2>2
<1> QED BY BackPressureInvariant, <1>1, PTL DEF Spec, NeverGoesBack
=============================================================================
